----------------------------- MODULE NfctNlmsg -----------------------------
(***************************************************************************)
(* Conntrack objects as netlink messages: nfct_nlmsg_build                  *)
(* (src/libnetfilter_conntrack/build_mnl.c) and nfct_nlmsg_parse            *)
(* (parse_mnl.c).  Attribute types are the kernel's CTA_ constants by name. *)
(***************************************************************************)
EXTENDS NfctObject, Nlmsg

\* Status bits keep their names; the byte order they are in goes with them.
StatusToNet(s) == {<<"be", b>> : b \in s}
StatusToHost(s) == {b[2] : b \in s}

\* The length of a helper name on the wire, "ftp" and the like.
NameSize == 4

-----------------------------------------------------------------------------
(* build_mnl.c.  A builder that can fail answers [ok, m].                   *)

Built(m) == [ok |-> TRUE, m |-> m]
Failed(m) == [ok |-> FALSE, m |-> m]

\* A nest of type `type` on m: inner is what the body made of Start(m, type).
Start(m, type) == mnl_attr_nest_start(m, type)
End(m, inner) == mnl_attr_nest_end(inner, mnl_nlmsg_get_payload_tail(m))

\* The cells of the tuple of direction d.
Field(ct, d, n) == Peek(ct, Cells(<<d, n>>, d))
Short(ct, d, s) == <<PortOf(ct, d, s)>>

nfct_build_tuple_ip(m, ct, d) ==
  LET l3 == Load(ct, <<d, "l3protonum">>)
      Addresses(x, src, dst, size, s, t) ==
        mnl_attr_put(mnl_attr_put(x, src, size, Field(ct, d, s)), dst, size, Field(ct, d, t))
      x0 == Start(m, "TUPLE_IP")
  IN CASE l3 = AF_INET -> Built(End(m, Addresses(x0, "IP_V4_SRC", "IP_V4_DST", 4, "IPV4_SRC", "IPV4_DST")))
       [] l3 = AF_INET6 -> Built(End(m, Addresses(x0, "IP_V6_SRC", "IP_V6_DST", 16, "IPV6_SRC", "IPV6_DST")))
       [] OTHER -> Failed(mnl_attr_nest_cancel(x0, mnl_nlmsg_get_payload_tail(m)))

nfct_build_tuple_proto(m, ct, d) ==
  LET p == Load(ct, <<d, "protonum">>)
      x == mnl_attr_put_u8(Start(m, "TUPLE_PROTO"), "PROTO_NUM", p)
      ports == mnl_attr_put(mnl_attr_put(x, "PROTO_SRC_PORT", 2, Short(ct, d, "src")),
                            "PROTO_DST_PORT", 2, Short(ct, d, "dst"))
      Fields(code, type, id) ==
        mnl_attr_put(mnl_attr_put(mnl_attr_put(x, code, 1, <<Load(ct, <<d, "l4dst1">>)>>),
                                  type, 1, <<Load(ct, <<d, "l4dst0">>)>>),
                     id, 2, <<Load(ct, <<d, "l4src">>)>>)
  IN CASE p \in PortProtocols \cup {IPPROTO_GRE} -> Built(End(m, ports))
       [] p = IPPROTO_ICMP ->
            Built(End(m, Fields("PROTO_ICMP_CODE", "PROTO_ICMP_TYPE", "PROTO_ICMP_ID")))
       [] p = IPPROTO_ICMPV6 ->
            Built(End(m, Fields("PROTO_ICMPV6_CODE", "PROTO_ICMPV6_TYPE", "PROTO_ICMPV6_ID")))
       [] OTHER -> Failed(mnl_attr_nest_cancel(x, mnl_nlmsg_get_payload_tail(m)))

\* The protocol follows the addresses, unless those could not be built.
AddProto(ip, ct, d) == IF ip.ok THEN nfct_build_tuple_proto(ip.m, ct, d) ELSE ip
nfct_build_tuple_raw(m, ct, d) == AddProto(nfct_build_tuple_ip(m, ct, d), ct, d)

\* The zone is put after the tuple, for the two directions that have one.
AddZone(m, ct, d) ==
  IF <<d, "ZONE">> \in ct.set
  THEN mnl_attr_put_u16(m, "TUPLE_ZONE", htons(Load(ct, <<d, "zone">>))) ELSE m

\* A tuple that cannot be built is cancelled whole.
EndTuple(raw, ct, d, start) ==
  IF raw.ok THEN Built(mnl_attr_nest_end(AddZone(raw.m, ct, d), start))
  ELSE Failed(mnl_attr_nest_cancel(raw.m, start))
nfct_build_tuple(m, ct, d, type) ==
  EndTuple(nfct_build_tuple_raw(mnl_attr_nest_start(m, type), ct, d), ct, d,
           mnl_nlmsg_get_payload_tail(m))

\* Put a field when its attributes are set.
PutIf(m, ct, attrs, type, len, data) ==
  IF attrs \subseteq ct.set THEN mnl_attr_put(m, type, len, data) ELSE m

nfct_build_protoinfo_tcp(m, ct) ==
  LET V(n) == Peek(ct, Cells(<<"TCP", n>>, ""))
      T(ns) == {"TCP"} \X ns
      m1 == PutIf(m, ct, T({"STATE"}), "TCP_STATE", 1, V("STATE"))
      m2 == PutIf(m1, ct, T({"FLAGS_ORIG", "MASK_ORIG"}), "TCP_FLAGS_ORIGINAL", 2,
                  V("FLAGS_ORIG") \o V("MASK_ORIG"))
      m3 == PutIf(m2, ct, T({"FLAGS_REPL", "MASK_REPL"}), "TCP_FLAGS_REPLY", 2,
                  V("FLAGS_REPL") \o V("MASK_REPL"))
      m4 == PutIf(m3, ct, T({"WSCALE_ORIG"}), "TCP_WSCALE_ORIGINAL", 1, V("WSCALE_ORIG"))
  IN PutIf(m4, ct, T({"WSCALE_REPL"}), "TCP_WSCALE_REPLY", 1, V("WSCALE_REPL"))

nfct_build_protoinfo_sctp(m, ct) ==
  LET V(n) == Peek(ct, Cells(<<"SCTP", n>>, ""))
      m1 == PutIf(m, ct, {<<"SCTP", "STATE">>}, "SCTP_STATE", 1, V("STATE"))
      m2 == PutIf(m1, ct, {<<"SCTP", "VTAG_ORIG">>}, "SCTP_VTAG_ORIGINAL", 4,
                  <<htonl(Word(V("VTAG_ORIG")))>>)
  IN PutIf(m2, ct, {<<"SCTP", "VTAG_REPL">>}, "SCTP_VTAG_REPLY", 4, <<htonl(V("VTAG_REPL")[1])>>)

nfct_build_protoinfo_dccp(m, ct) ==
  LET V(n) == Peek(ct, Cells(<<"DCCP", n>>, ""))
      m1 == PutIf(m, ct, {<<"DCCP", "STATE">>}, "DCCP_STATE", 1, V("STATE"))
      m2 == PutIf(m1, ct, {<<"DCCP", "ROLE">>}, "DCCP_ROLE", 1, V("ROLE"))
  IN PutIf(m2, ct, {<<"DCCP", "HANDSHAKE_SEQ">>}, "DCCP_HANDSHAKE_SEQ", 8,
           htobe64(V("HANDSHAKE_SEQ")))

\* The protocol of the original tuple picks the view of the union; a nest
\* without any attribute is not sent.
nfct_build_protoinfo(m, ct) ==
  LET p == Load(ct, <<"ORIG", "protonum">>)
      Some(g) == In(g, ProtoinfoCells[g]) \cap ct.set # {}
      x == Start(m, "PROTOINFO")
      tcp == End(x, nfct_build_protoinfo_tcp(Start(x, "PROTOINFO_TCP"), ct))
      sctp == End(x, nfct_build_protoinfo_sctp(Start(x, "PROTOINFO_SCTP"), ct))
      dccp == End(x, nfct_build_protoinfo_dccp(Start(x, "PROTOINFO_DCCP"), ct))
  IN CASE p = IPPROTO_TCP /\ Some("TCP") -> End(m, tcp)
       [] p = IPPROTO_SCTP /\ Some("SCTP") -> End(m, sctp)
       [] p = IPPROTO_DCCP /\ Some("DCCP") -> End(m, dccp)
       [] OTHER -> m

SeqAdj == <<"NAT_SEQ_CORRECTION_POS", "NAT_SEQ_OFFSET_BEFORE", "NAT_SEQ_OFFSET_AFTER">>

\* Sent only when all three numbers are known.
nfct_build_nat_seq_adj(m, ct, d, type) ==
  LET Put(x, i) == mnl_attr_put_u32(x, SeqAdj[i], htonl(Field(ct, d, SeqAdj[i])[1]))
  IN IF ({d} \X Range(SeqAdj)) \subseteq ct.set
     THEN End(m, Put(Put(Put(Start(m, type), 1), 2), 3)) ELSE m

nfct_build_protonat(m, ct, g) ==
  LET l4 == <<g, "l4">>
      x == Start(m, "NAT_PROTO")
      ports == mnl_attr_put_u16(mnl_attr_put_u16(x, "PROTONAT_PORT_MIN", Load(ct, l4)),
                                "PROTONAT_PORT_MAX", Load(ct, <<"MAX", l4>>))
  IN End(m, IF Load(ct, <<"ORIG", "protonum">>) \in {IPPROTO_TCP, IPPROTO_UDP} THEN ports ELSE x)

nfct_build_nat_address(m, ct, g, n) ==
  IF n = "IPV4" THEN mnl_attr_put(m, "NAT_MINIP", 4, Field(ct, g, n))
  ELSE mnl_attr_put(m, "NAT_V6_MINIP", 16, Field(ct, g, n))

\* One of: address and port, address, port; IPv4 before IPv6.
nfct_build_nat(m, ct, g, type) ==
  LET v4 == <<g, "IPV4">> \in ct.set
      v6 == <<g, "IPV6">> \in ct.set
      port == <<g, "PORT">> \in ct.set
      x == Start(m, type)
      address == CASE v4 -> nfct_build_nat_address(x, ct, g, "IPV4")
                   [] v6 -> nfct_build_nat_address(x, ct, g, "IPV6")
                   [] OTHER -> x
  IN IF v4 \/ v6 \/ port
     THEN End(m, IF port THEN nfct_build_protonat(address, ct, g) ELSE address) ELSE m

nfct_build_helper_name(m, ct) ==
  LET name == mnl_attr_put(Start(m, "HELP"), "HELP_NAME", NameSize, Field(ct, "CT", "HELPER_NAME"))
      info == mnl_attr_put(name, "HELP_INFO", Load(ct, <<"CT", "helper_info_len">>),
                           Field(ct, "CT", "HELPER_INFO"))
  IN IF <<"CT", "HELPER_NAME">> \notin ct.set THEN m
     ELSE End(m, IF Load(ct, <<"CT", "HELPER_INFO">>) = 0 THEN name ELSE info)

\* The mask goes along when it has the size of the labels.
nfct_build_labels(m, ct) ==
  LET b == Load(ct, <<"CT", "CONNLABELS">>)
      mask == Load(ct, <<"CT", "CONNLABELS_MASK">>)
      m1 == mnl_attr_put(m, "LABELS", 4 * b.words, <<b>>)
  IN IF <<"CT", "CONNLABELS">> \notin ct.set THEN m
     ELSE IF <<"CT", "CONNLABELS_MASK">> \in ct.set /\ mask.words = b.words
     THEN mnl_attr_put(m1, "LABELS_MASK", 4 * b.words, <<mask>>) ELSE m1

Synproxy == <<"SYNPROXY_ISN", "SYNPROXY_ITS", "SYNPROXY_TSOFF">>

nfct_build_synproxy(m, ct) ==
  LET Put(x, i) == mnl_attr_put_u32(x, Synproxy[i], htonl(Load(ct, <<"CT", Synproxy[i]>>)))
  IN IF ({"CT"} \X Range(Synproxy)) \subseteq ct.set
     THEN End(m, Put(Put(Put(Start(m, "SYNPROXY"), 1), 2), 3)) ELSE m

nfct_build_master(m, ct) ==
  IF Tuple("MASTER") \cap ct.set = {} THEN m
  ELSE nfct_build_tuple(m, ct, "MASTER", "TUPLE_MASTER").m

nfct_build_status(m, ct) ==
  IF <<"CT", "STATUS">> \notin ct.set THEN m
  ELSE mnl_attr_put_u32(m, "STATUS", StatusToNet(Load(ct, <<"CT", "STATUS">>) \cup {"CONFIRMED"}))

\* nfct_build_timeout, nfct_build_mark, nfct_build_secmark.
nfct_build_u32(m, ct, n) ==
  IF <<"CT", n>> \in ct.set THEN mnl_attr_put_u32(m, n, htonl(Load(ct, <<"CT", n>>))) ELSE m

nfct_build_zone(m, ct) ==
  IF <<"CT", "ZONE">> \in ct.set
  THEN mnl_attr_put_u16(m, "ZONE", htons(Load(ct, <<"CT", "ZONE">>))) ELSE m

\* The attributes after the tuples, in the order of nfct_nlmsg_build.
nfct_build_rest(m, ct) ==
  LET status == nfct_build_status(nfct_build_master(m, ct), ct)
      marks == nfct_build_u32(nfct_build_u32(nfct_build_u32(status, ct, "TIMEOUT"), ct, "MARK"),
                              ct, "SECMARK")
      nat == nfct_build_nat(nfct_build_nat(nfct_build_protoinfo(marks, ct), ct, "SNAT", "NAT_SRC"),
                            ct, "DNAT", "NAT_DST")
      seq == nfct_build_nat_seq_adj(nfct_build_nat_seq_adj(nat, ct, "ORIG", "NAT_SEQ_ADJ_ORIG"),
                                    ct, "REPL", "NAT_SEQ_ADJ_REPLY")
  IN nfct_build_synproxy(nfct_build_labels(nfct_build_zone(nfct_build_helper_name(seq, ct), ct), ct), ct)

\* A tuple is sent when any of its attributes is set, the ICMP fields counting
\* for both; one that cannot be built ends the building where it is.
AddRest(b, ct) == IF b.ok THEN Built(nfct_build_rest(b.m, ct)) ELSE b
AddReply(b, ct) ==
  IF b.ok /\ (Tuple("REPL") \cup Icmp \cup {<<"REPL", "ZONE">>}) \cap ct.set # {}
  THEN nfct_build_tuple(b.m, ct, "REPL", "TUPLE_REPLY") ELSE b
nfct_nlmsg_build(m, ct) ==
  IF <<"ORIG", "L3PROTO">> \notin ct.set THEN Failed(m)
  ELSE AddRest(AddReply(nfct_build_tuple(m, ct, "ORIG", "TUPLE_ORIG"), ct), ct)

-----------------------------------------------------------------------------
(* parse_mnl.c.  A table says what each parse callback accepts; the parser  *)
(* then stores what is there.                                              *)

IpPolicy == [IP_V4_SRC |-> U32, IP_V4_DST |-> U32,
             IP_V6_SRC |-> UNSPEC(16), IP_V6_DST |-> UNSPEC(16)]
ProtoPolicy ==
  [PROTO_NUM |-> U8, PROTO_SRC_PORT |-> U16, PROTO_DST_PORT |-> U16,
   PROTO_ICMP_ID |-> U16, PROTO_ICMP_TYPE |-> U8, PROTO_ICMP_CODE |-> U8,
   PROTO_ICMPV6_ID |-> U16, PROTO_ICMPV6_TYPE |-> U8, PROTO_ICMPV6_CODE |-> U8]
TuplePolicy == [TUPLE_IP |-> NESTED, TUPLE_PROTO |-> NESTED, TUPLE_ZONE |-> U16]
TcpPolicy == [TCP_STATE |-> U8, TCP_WSCALE_ORIGINAL |-> U8, TCP_WSCALE_REPLY |-> U8,
              TCP_FLAGS_ORIGINAL |-> UNSPEC(2), TCP_FLAGS_REPLY |-> UNSPEC(2)]
SctpPolicy == [SCTP_STATE |-> U8, SCTP_VTAG_ORIGINAL |-> U32, SCTP_VTAG_REPLY |-> U32]
DccpPolicy == [DCCP_STATE |-> U8, DCCP_ROLE |-> U8, DCCP_HANDSHAKE_SEQ |-> U64]
ProtoinfoPolicy == [PROTOINFO_TCP |-> NESTED, PROTOINFO_SCTP |-> NESTED, PROTOINFO_DCCP |-> NESTED]
CountersPolicy == [COUNTERS_PACKETS |-> U64, COUNTERS_BYTES |-> U64,
                   COUNTERS32_PACKETS |-> U32, COUNTERS32_BYTES |-> U32]
NatSeqPolicy == [n \in Range(SeqAdj) |-> U32]
HelpPolicy == [HELP_NAME |-> STRING_, HELP_INFO |-> UNSPEC(0)]
SecctxPolicy == [SECCTX_NAME |-> STRING_]
TimestampPolicy == [TIMESTAMP_START |-> U64, TIMESTAMP_STOP |-> U64]
SynproxyPolicy == [n \in Range(Synproxy) |-> U32]
ConntrackPolicy ==
  [t \in {"TUPLE_ORIG", "TUPLE_REPLY", "TUPLE_MASTER", "NAT_SEQ_ADJ_ORIG", "NAT_SEQ_ADJ_REPLY",
          "PROTOINFO", "COUNTERS_ORIG", "COUNTERS_REPLY", "HELP", "SECCTX", "TIMESTAMP"} |-> NESTED]
  @@ [t \in {"STATUS", "TIMEOUT", "MARK", "SECMARK", "USE", "ID"} |-> U32]
  @@ [ZONE |-> U16, NAT_SRC |-> UNSPEC(0), NAT_DST |-> UNSPEC(0),
      LABELS |-> UNSPEC(0), LABELS_MASK |-> UNSPEC(0), SYNPROXY |-> UNSPEC(0)]

\* What a parser does to a payload: nothing, a byte order, a port into its two
\* byte cells, a word into four, a 32 bit number into the low half of 64.
Conv(how, v) == CASE how = "raw" -> v
                  [] how = "ntohl" -> <<htonl(v[1])>>
                  [] how = "ntohs" -> <<htons(v[1])>>
                  [] how = "be64toh" -> htobe64(v)
                  [] how = "port" -> <<v[1] % 256, v[1] \div 256>>
                  [] how = "word" -> Bytes4(htonl(v[1]))
                  [] how = "wide" -> <<htonl(v[1]), 0>>
                  [] how = "status" -> <<StatusToHost(v[1])>>

\* Take(ct, m, o, a, d, how): the value at offset o, converted, into attribute
\* a of direction d; nothing when the attribute was not there.
Take(ct, m, o, a, d, how) ==
  IF o = 0 THEN ct ELSE set_bit(Poke(ct, Cells(a, d), Conv(how, mnl_attr_get(m, o))), a)

\* Take for each <<type, attribute>> of a list whose type is there.
RECURSIVE TakeEach(_, _, _, _, _, _)
TakeEach(ct, m, tb, list, d, how) ==
  IF list = <<>> THEN ct
  ELSE TakeEach(Take(ct, m, tb[Head(list)[1]], Head(list)[2], d, how), m, tb, Tail(list), d, how)
TakeAll(ct, m, tb, list, d, how) ==
  TakeEach(ct, m, tb, SelectSeq(list, LAMBDA e : tb[e[1]] # 0), d, how)

nfct_parse_ip(m, o, ct, d) ==
  IF o = 0 THEN ct ELSE TakeAll(ct, m, mnl_attr_parse_nested(m, o, IpPolicy),
          <<<<"IP_V4_SRC", <<d, "IPV4_SRC">>>>, <<"IP_V4_DST", <<d, "IPV4_DST">>>>,
            <<"IP_V6_SRC", <<d, "IPV6_SRC">>>>, <<"IP_V6_DST", <<d, "IPV6_DST">>>>>>, d, "raw")

\* The ICMP fields go into the tuple being parsed; their bits are common.
ProtoFields(m, tb, ct, d) ==
  LET ports == Take(TakeAll(ct, m, tb, <<<<"PROTO_NUM", <<d, "L4PROTO">>>>,
                                         <<"PROTO_SRC_PORT", <<d, "PORT_SRC">>>>>>, d, "raw"),
                    m, tb["PROTO_DST_PORT"], <<d, "PORT_DST">>, d, "port")
  IN TakeAll(ports, m, tb,
             <<<<"PROTO_ICMP_TYPE", <<"ICMP", "TYPE">>>>, <<"PROTO_ICMP_CODE", <<"ICMP", "CODE">>>>,
               <<"PROTO_ICMP_ID", <<"ICMP", "ID">>>>, <<"PROTO_ICMPV6_TYPE", <<"ICMP", "TYPE">>>>,
               <<"PROTO_ICMPV6_CODE", <<"ICMP", "CODE">>>>, <<"PROTO_ICMPV6_ID", <<"ICMP", "ID">>>>>>,
             d, "raw")
nfct_parse_proto(m, o, ct, d) ==
  IF o = 0 THEN ct ELSE ProtoFields(m, mnl_attr_parse_nested(m, o, ProtoPolicy), ct, d)

\* The family is the message's; a master tuple has no zone of its own.
TupleFields(m, tb, ct, d) ==
  LET family == set_bit(Poke(ct, <<<<d, "l3protonum">>>>, <<m.family>>), <<d, "L3PROTO">>)
      proto == nfct_parse_proto(m, tb["TUPLE_PROTO"], nfct_parse_ip(m, tb["TUPLE_IP"], family, d), d)
  IN Take(proto, m, IF d = "MASTER" THEN 0 ELSE tb["TUPLE_ZONE"], <<d, "ZONE">>, d, "ntohs")
nfct_parse_tuple(m, o, ct, d) ==
  IF o = 0 THEN ct ELSE TupleFields(m, mnl_attr_parse_nested(m, o, TuplePolicy), ct, d)

TcpFields(m, tb, ct) ==
  LET Flags(c, t, flags, mask) ==
        IF tb[t] = 0 THEN c
        ELSE set_bit(set_bit(Poke(c, Cells(flags, "") \o Cells(mask, ""), mnl_attr_get(m, tb[t])), flags), mask)
      bytes == TakeAll(ct, m, tb, <<<<"TCP_STATE", <<"TCP", "STATE">>>>,
                                    <<"TCP_WSCALE_ORIGINAL", <<"TCP", "WSCALE_ORIG">>>>,
                                    <<"TCP_WSCALE_REPLY", <<"TCP", "WSCALE_REPL">>>>>>, "", "raw")
  IN Flags(Flags(bytes, "TCP_FLAGS_ORIGINAL", <<"TCP", "FLAGS_ORIG">>, <<"TCP", "MASK_ORIG">>),
           "TCP_FLAGS_REPLY", <<"TCP", "FLAGS_REPL">>, <<"TCP", "MASK_REPL">>)
nfct_parse_protoinfo_tcp(m, o, ct) ==
  IF o = 0 THEN ct ELSE TcpFields(m, mnl_attr_parse_nested(m, o, TcpPolicy), ct)

SctpFields(m, tb, ct, how) ==
  LET state == Take(ct, m, tb["SCTP_STATE"], <<"SCTP", "STATE">>, "", "raw")
      orig == Take(state, m, tb["SCTP_VTAG_ORIGINAL"], <<"SCTP", "VTAG_ORIG">>, "", "word")
  IN Take(orig, m, tb["SCTP_VTAG_REPLY"], <<"SCTP", "VTAG_REPL">>, "", how)
nfct_parse_protoinfo_sctp_raw(m, o, ct) ==
  IF o = 0 THEN ct ELSE SctpFields(m, mnl_attr_parse_nested(m, o, SctpPolicy), ct, "raw")
nfct_parse_protoinfo_sctp(m, o, ct) ==
  IF o = 0 THEN ct ELSE SctpFields(m, mnl_attr_parse_nested(m, o, SctpPolicy), ct, "ntohl")

DccpFields(m, tb, ct) ==
  LET bytes == TakeAll(ct, m, tb, <<<<"DCCP_STATE", <<"DCCP", "STATE">>>>,
                                    <<"DCCP_ROLE", <<"DCCP", "ROLE">>>>>>, "", "raw")
  IN Take(bytes, m, tb["DCCP_HANDSHAKE_SEQ"], <<"DCCP", "HANDSHAKE_SEQ">>, "", "be64toh")
nfct_parse_protoinfo_dccp(m, o, ct) ==
  IF o = 0 THEN ct ELSE DccpFields(m, mnl_attr_parse_nested(m, o, DccpPolicy), ct)

ProtoinfoFields(m, tb, ct) ==
  nfct_parse_protoinfo_dccp(m, tb["PROTOINFO_DCCP"],
    nfct_parse_protoinfo_sctp(m, tb["PROTOINFO_SCTP"],
      nfct_parse_protoinfo_tcp(m, tb["PROTOINFO_TCP"], ct)))
nfct_parse_protoinfo(m, o, ct) ==
  IF o = 0 THEN ct ELSE ProtoinfoFields(m, mnl_attr_parse_nested(m, o, ProtoinfoPolicy), ct)

\* A 64 bit counter overrides a 32 bit one.
CounterFields(m, tb, ct, d) ==
  LET Counter(c, a, short, long) ==
        Take(Take(c, m, tb[short], a, d, "wide"), m, tb[long], a, d, "be64toh")
  IN Counter(Counter(ct, <<d, "COUNTER_PACKETS">>, "COUNTERS32_PACKETS", "COUNTERS_PACKETS"),
             <<d, "COUNTER_BYTES">>, "COUNTERS32_BYTES", "COUNTERS_BYTES")
nfct_parse_counters(m, o, ct, d) ==
  IF o = 0 THEN ct ELSE CounterFields(m, mnl_attr_parse_nested(m, o, CountersPolicy), ct, d)

nfct_parse_nat_seq(m, o, ct, d) ==
  IF o = 0 THEN ct ELSE TakeAll(ct, m, mnl_attr_parse_nested(m, o, NatSeqPolicy),
          [i \in DOMAIN SeqAdj |-> <<SeqAdj[i], <<d, SeqAdj[i]>>>>], d, "ntohl")

\* Helper information counts only with a name.
HelpFields(m, tb, ct) ==
  IF tb["HELP_NAME"] = 0 THEN ct
  ELSE LET named == Take(ct, m, tb["HELP_NAME"], <<"CT", "HELPER_NAME">>, "", "raw")
           length == mnl_attr_get_payload_len(m, tb["HELP_INFO"])
       IN IF tb["HELP_INFO"] = 0 THEN named
          ELSE Take(Poke(named, <<<<"CT", "helper_info_len">>>>, <<length>>),
                    m, tb["HELP_INFO"], <<"CT", "HELPER_INFO">>, "", "raw")
nfct_parse_helper(m, o, ct) ==
  IF o = 0 THEN ct ELSE HelpFields(m, mnl_attr_parse_nested(m, o, HelpPolicy), ct)

nfct_parse_secctx(m, o, ct) ==
  IF o = 0 THEN ct
  ELSE Take(ct, m, mnl_attr_parse_nested(m, o, SecctxPolicy)["SECCTX_NAME"], <<"CT", "SECCTX">>, "", "raw")

nfct_parse_timestamp(m, o, ct) ==
  IF o = 0 THEN ct ELSE TakeAll(ct, m, mnl_attr_parse_nested(m, o, TimestampPolicy),
          <<<<"TIMESTAMP_START", <<"CT", "TIMESTAMP_START">>>>,
            <<"TIMESTAMP_STOP", <<"CT", "TIMESTAMP_STOP">>>>>>, "", "be64toh")

nfct_parse_labels(m, o, ct) ==
  IF o = 0 \/ mnl_attr_get_payload_len(m, o) = 0 THEN ct
  ELSE nfct_set_attr(ct, <<"CT", "CONNLABELS">>, mnl_attr_get(m, o))

nfct_parse_synproxy(m, o, ct) ==
  IF o = 0 THEN ct ELSE TakeAll(ct, m, mnl_attr_parse_nested(m, o, SynproxyPolicy),
          [i \in DOMAIN Synproxy |-> <<Synproxy[i], <<"CT", Synproxy[i]>>>>], "", "ntohl")

ParseAttributes(m, tb, ct) ==
  LET tuples == nfct_parse_tuple(m, tb["TUPLE_MASTER"],
                  nfct_parse_tuple(m, tb["TUPLE_REPLY"],
                    nfct_parse_tuple(m, tb["TUPLE_ORIG"], ct, "ORIG"), "REPL"), "MASTER")
      seq == nfct_parse_nat_seq(m, tb["NAT_SEQ_ADJ_REPLY"],
               nfct_parse_nat_seq(m, tb["NAT_SEQ_ADJ_ORIG"], tuples, "ORIG"), "REPL")
      status == Take(seq, m, tb["STATUS"], <<"CT", "STATUS">>, "", "status")
      info == nfct_parse_protoinfo(m, tb["PROTOINFO"], status)
      marks == TakeAll(info, m, tb, <<<<"TIMEOUT", <<"CT", "TIMEOUT">>>>, <<"MARK", <<"CT", "MARK">>>>,
                                      <<"SECMARK", <<"CT", "SECMARK">>>>>>, "", "ntohl")
      counts == nfct_parse_counters(m, tb["COUNTERS_REPLY"],
                  nfct_parse_counters(m, tb["COUNTERS_ORIG"], marks, "ORIG"), "REPL")
      ids == TakeAll(counts, m, tb, <<<<"USE", <<"CT", "USE">>>>, <<"ID", <<"CT", "ID">>>>>>, "", "ntohl")
      zone == Take(nfct_parse_helper(m, tb["HELP"], ids), m, tb["ZONE"], <<"CT", "ZONE">>, "", "ntohs")
      stamps == nfct_parse_timestamp(m, tb["TIMESTAMP"], nfct_parse_secctx(m, tb["SECCTX"], zone))
  IN nfct_parse_synproxy(m, tb["SYNPROXY"], nfct_parse_labels(m, tb["LABELS"], stamps))

nfct_payload_parse(m, ct) ==
  ParseAttributes(m, mnl_attr_parse_payload(m, FirstAttribute, m.len, ConntrackPolicy), ct)

nfct_nlmsg_parse(m, ct) == nfct_payload_parse(m, ct)
=============================================================================
