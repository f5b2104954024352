------------------------------- MODULE MCNfct -------------------------------
(***************************************************************************)
(* The two clients of libnetfilter_conntrack: one that fills, copies and    *)
(* completes a single object (NfctApi), and a pod's session (Conntrack).    *)
(* A behaviour is one of the two.                                          *)
(***************************************************************************)
EXTENDS Conntrack

VARIABLES kit, ct, walking   \* the client is the session

-----------------------------------------------------------------------------
(* Kits of attributes for NfctApi: each exercises one part of the message.  *)
(* Values differ in every byte, so that a missing byte order conversion or  *)
(* a field in the wrong place shows.                                       *)
Is(g, n, v) == <<<<g, n>>, v>>
Flow(d, l3, l4) == <<Is(d, "L3PROTO", <<l3>>), Is(d, "L4PROTO", <<l4>>)>>
V4(d, s, t) == <<Is(d, "IPV4_SRC", <<s>>), Is(d, "IPV4_DST", <<t>>)>>
V6(d, s, t) == <<Is(d, "IPV6_SRC", <<s, s + 1>>), Is(d, "IPV6_DST", <<t, t + 1>>)>>
Ports(d, s, t) == <<Is(d, "PORT_SRC", <<s>>), Is(d, "PORT_DST", <<t % 256, t \div 256>>)>>
V4Flow(p) == Flow("ORIG", AF_INET, p) \o V4("ORIG", 16909060, 84281096)

Undo == {"UNDO_SNAT", "UNDO_DNAT", "UNDO_SPAT", "UNDO_DPAT"}
Kit(first, more) == [first |-> first, more |-> more, options |-> {}, copies |-> {{}, {"META"}, {"OVERRIDE"}}]
With(k, options, copy) == [k EXCEPT !.options = options, !.copies = {copy}]

\* A connection seen by the kernel with source and destination translated.
Translation ==
  Kit(V4Flow(IPPROTO_TCP) \o Ports("ORIG", 258, 772) \o Flow("REPL", AF_INET, IPPROTO_TCP)
        \o V4("REPL", 84281099, 16909070) \o Ports("REPL", 773, 259),
      {Is("CT", "STATUS", <<{"SRC_NAT_DONE", "DST_NAT_DONE"}>>), Is("CT", "STATUS", <<{}>>),
       Is("ORIG", "L4PROTO", <<IPPROTO_ICMP>>), Is("ORIG", "L4PROTO", <<IPPROTO_TCP>>)})

Reply ==
  Kit(Flow("ORIG", AF_INET6, IPPROTO_UDP) \o Ports("ORIG", 258, 772),
      Range(V6("ORIG", 16909060, 84281096) \o Flow("REPL", AF_INET6, IPPROTO_UDP)
            \o <<Is("ORIG", "ZONE", <<258>>)>>))

Ping ==
  Kit(Flow("ORIG", AF_INET, IPPROTO_ICMP),
      {Is("ICMP", "TYPE", <<8>>), Is("ICMP", "CODE", <<1>>), Is("ICMP", "ID", <<258>>),
       Is("ORIG", "L3PROTO", <<AF_INET6>>)} \cup Range(Flow("REPL", AF_INET, IPPROTO_ICMP)))

TcpState ==
  Kit(V4Flow(IPPROTO_TCP),
      {Is("TCP", "STATE", <<3>>), Is("TCP", "FLAGS_ORIG", <<1>>), Is("TCP", "MASK_ORIG", <<2>>),
       Is("TCP", "FLAGS_REPL", <<4>>), Is("TCP", "MASK_REPL", <<5>>),
       Is("TCP", "WSCALE_ORIG", <<6>>), Is("TCP", "WSCALE_REPL", <<7>>)})

SctpState ==
  Kit(V4Flow(IPPROTO_SCTP),
      {Is("SCTP", "STATE", <<3>>), Is("SCTP", "VTAG_ORIG", <<1, 2, 3, 4>>),
       Is("SCTP", "VTAG_REPL", <<84281096>>), Is("ORIG", "L4PROTO", <<IPPROTO_DCCP>>),
       Is("DCCP", "STATE", <<5>>), Is("DCCP", "ROLE", <<1>>),
       Is("DCCP", "HANDSHAKE_SEQ", <<16909060, 84281096>>)})

Mapping ==
  Kit(V4Flow(IPPROTO_UDP),
      {Is("SNAT", "IPV4", <<16909070>>), Is("SNAT", "IPV6", <<16909070, 5>>),
       Is("SNAT", "PORT", <<258>>), Is("DNAT", "IPV4", <<84281099>>), Is("DNAT", "PORT", <<772>>)})

Adjusted ==
  Kit(V4Flow(IPPROTO_TCP),
      {Is(d, "NAT_SEQ_OFFSET_BEFORE", <<84281096>>) : d \in {"ORIG", "REPL"}}
      \cup {Is("ORIG", "NAT_SEQ_CORRECTION_POS", <<16909060>>), Is("ORIG", "NAT_SEQ_OFFSET_AFTER", <<3>>),
            Is("CT", "SYNPROXY_ISN", <<258>>), Is("CT", "SYNPROXY_ITS", <<16909060>>),
            Is("CT", "SYNPROXY_TSOFF", <<5>>)})

Meta ==
  Kit(V4Flow(IPPROTO_GRE),
      {Is("CT", "TIMEOUT", <<258>>), Is("CT", "MARK", <<16909060>>), Is("CT", "SECMARK", <<3>>),
       Is("CT", "STATUS", <<{"ASSURED"}>>), Is("CT", "ZONE", <<772>>), Is("CT", "ID", <<5>>),
       Is("CT", "HELPER_NAME", <<9>>)})

Labels ==
  Kit(V4Flow(IPPROTO_UDPLITE),
      {Is("CT", n, <<[words |-> w, bits |-> b]>>) :
         n \in {"CONNLABELS", "CONNLABELS_MASK"}, w \in 1..2, b \in {{}, {3}}}
      \cup {Is("CT", "USE", <<1>>), Is("CT", "SECCTX", <<2>>)})

Expected ==
  Kit(V4Flow(IPPROTO_TCP) \o Ports("ORIG", 258, 772),
      Range(Flow("MASTER", AF_INET, IPPROTO_TCP) \o V4("MASTER", 5, 84281096) \o Ports("MASTER", 772, 259)))

\* An object that served for something else.
Filled(list) == FoldLeft(LAMBDA c, e : nfct_set_attr(c, e[1], e[2]), nfct_new, list)
Used == Filled(Flow("ORIG", AF_INET6, IPPROTO_ICMPV6) \o V6("ORIG", 7, 9)
                         \o <<Is("ICMP", "TYPE", <<128>>), Is("DCCP", "STATE", <<2>>),
                              Is("CT", "STATUS", <<{"SEEN_REPLY"}>>), Is("CT", "MARK", <<1>>),
                              Is("CT", "CONNLABELS", <<[words |-> 2, bits |-> {40}]>>)>>)

MCTargets == {nfct_new, Used}
MCKits == {With(Translation, Undo, {"ORIG"}), With(Reply, {"SETUP_REPLY"}, {"ORIG"}),
           With(Ping, {"SETUP_REPLY", "SETUP_ORIGINAL"}, {"ORIG", "REPL"}), TcpState, SctpState, Mapping, Adjusted, Meta, Labels, Expected}

-----------------------------------------------------------------------------
(* Connections between two addresses that differ only in their protocol, so *)
(* that a field left over from one entry could make a request name another. *)
Connection(p) == [proto |-> p, src |-> 1, dst |-> 2, l4src |-> 8, type |-> 8, code |-> 0]

MCFlows == [tcp |-> Connection(IPPROTO_TCP), udp |-> Connection(IPPROTO_UDP),
            icmp |-> Connection(IPPROTO_ICMP)]

\* The request of UpdateMark: an empty tuple and the mark 0.
MCTuple5 == [proto |-> 0, src |-> 0, dst |-> 0, sport |-> 0, dport |-> 0]

MCOrder == <<"icmp", "tcp", "udp">>

-----------------------------------------------------------------------------
Api == INSTANCE NfctApi WITH Kits <- MCKits, Targets <- MCTargets

\* Every connection there is carries a verdict's mark when the session opens.
Marked == \A k \in DOMAIN table : table[k] = DaemonMark

MCInit ==
  \/ walking = TRUE /\ Init /\ Marked /\ ct = nfct_new /\ kit = Expected
  \/ walking = FALSE /\ Api!Init /\ Init /\ table = [k \in {} |-> 0]

MCNext ==
  \/ walking /\ Next /\ UNCHANGED <<kit, ct, walking>>
  \/ ~walking /\ Api!Next /\ UNCHANGED <<vars, walking>>

MCSpec == MCInit /\ [][MCNext]_<<vars, kit, ct, walking>> /\ Fairness

\* The properties of NfctApi, of the client they are about (nfct_nlmsg_build,
\* nfct_nlmsg_parse, nfct_copy, nfct_setobjopt).
AttributesSurvive == ~walking => Api!AttributesSurvive
NatUndone == [][~walking => Api!UndoesNat]_<<kit, ct>>
=============================================================================
