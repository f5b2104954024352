---------------------------- MODULE MCTcpSession ----------------------------
(* The requests are whole or split behind the request line; "ok" is        *)
(* allowed and "bad" denied by the HTTP rules.                             *)
EXTENDS TcpSession

CONSTANTS ok, bad, http, deny, other

MCEndpoints == {Client, Pod}
MCConnectionId == {<<Client, Pod>>, <<Pod, Client>>}

Whole(h) == [part |-> "whole", hdr |-> h]
Front(h) == [part |-> "head", hdr |-> h]
Rest(h) == [part |-> "tail", hdr |-> h]

MCPayloads == [part : {"whole", "head", "tail"}, hdr : Headers]
MCStreams == {<<Whole(ok), Whole(bad)>>, <<Front(bad), Rest(bad)>>, <<Front(ok), Rest(ok), Whole(bad)>>}
ShortStreams == {<<Front(bad), Rest(bad)>>}

MCRule(dir, id, key, action) ==
  [dir |-> dir, ids |-> {id}, rule_key |-> key, action |-> action, priority |-> 10]

RequestRules == [h \in Headers |-> IF h = bad THEN kDeny ELSE kAllow]
NoRules == [dir \in Dirs |-> NoHttp]

\* HTTP rules on requests to the pod.
HttpPolicy ==
  [rule_key |-> http, rules |-> {MCRule("ingress", c2s, http, kAllow)},
   http |-> [NoRules EXCEPT !["ingress"] = RequestRules], names_pod |-> TRUE]

DenyPolicy ==
  [rule_key |-> deny, rules |-> {MCRule("ingress", c2s, deny, kDeny)},
   http |-> NoRules, names_pod |-> TRUE]

\* A policy about another pod, and none at all.
OtherPolicy == [rule_key |-> other, rules |-> {}, http |-> NoRules, names_pod |-> FALSE]

MCInstalled == {HttpPolicy, DenyPolicy}
HttpOnly == {HttpPolicy}
Nothing == {OtherPolicy}
=============================================================================
