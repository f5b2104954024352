--------------------------- MODULE MCNfqCallbacks ---------------------------
(* A TCP flow between a client and the pod, and a UDP flow between a       *)
(* resolver, which may be a node, and the pod; a behaviour follows one of  *)
(* the two.  The policies: HTTP rules on requests to the pod; a plain deny *)
(* of responses, which on requests beats the first policy as the stronger  *)
(* reverse rule and then brings in HTTP rules of its own, and a rule whose *)
(* priority is refused.                                                    *)
EXTENDS NfqCallbacks

CONSTANTS client, resolver, bad, http, deny

VARIABLE followed   \* the ids that packets arrive on

Tcp == {<<client, Pod>>, <<Pod, client>>}
Datagrams == {<<resolver, Pod>>, <<Pod, resolver>>}
Inward == {<<client, Pod>>, <<resolver, Pod>>}
Outward == {<<Pod, client>>, <<Pod, resolver>>}

MCEndpoints == {client, resolver, Pod}
MCConnectionId == Tcp \cup Datagrams
MCPayloads == {[part |-> "whole", hdr |-> bad]}

MCRule(dir, ids, key, action, priority) ==
  [dir |-> dir, ids |-> ids, rule_key |-> key, action |-> action, priority |-> priority]

HttpDefinition ==
  [rule_key |-> http,
   rules |-> {MCRule("ingress", Inward, http, kDeny, 10)},
   http |-> [dir \in Dirs |-> IF dir = "ingress" THEN [h \in Headers |-> kDeny] ELSE NoHttp],
   names_pod |-> TRUE]

DenyDefinition ==
  [rule_key |-> deny,
   rules |-> {MCRule("egress", Outward, deny, kDeny, 5),
              MCRule("ingress", Inward, deny, kAllow, 129)},
   http |-> [dir \in Dirs |-> IF dir = "ingress" THEN [h \in Headers |-> kDefault] ELSE NoHttp],
   names_pod |-> TRUE]

MCDefinitions == {HttpDefinition, DenyDefinition}

MCInit == Init /\ followed \in {Tcp, Datagrams}

\* HTTP rules that a reset has left behind are looked at alone.
LeftBehind(key) == HasHttp("ingress", key) /\ \A r \in rules : r.rule_key # key
Alone == \A key, other \in RuleKeys :
           LeftBehind(key) /\ HasHttp("ingress", other) => other = key

MCNext ==
  /\ Next
  /\ Alone'
  /\ \A id \in ConnectionId \ followed : skbmark'[id] = NoPacket
  /\ followed = Tcp => nodes_ip' = {}
  /\ UNCHANGED followed

MCSpec ==
  /\ MCInit /\ [][MCNext]_<<vars, followed>>
  /\ WF_vars(Tick) /\ WF_vars(ReaperTimerEvent)
=============================================================================
