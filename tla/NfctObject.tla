----------------------------- MODULE NfctObject -----------------------------
(***************************************************************************)
(* The conntrack object of libnetfilter_conntrack (struct nf_conntrack,    *)
(* src/libnetfilter_conntrack/internal/object.h) and the operations on it: *)
(* set, get, copy, compare, and the object options.                        *)
(*                                                                         *)
(* An object is the set of attributes whose bit is set, and its memory.    *)
(* Memory is divided into cells at the boundaries the unions of object.h   *)
(* make visible: the first word of an IPv6 address is the IPv4 address,    *)
(* the two bytes of a destination port are the ICMP type and code, and the *)
(* state of the three stateful protocols is one byte.  A cell never        *)
(* written holds zero.  A pointer is modelled by what it points to: every  *)
(* copy in the code is a deep one.                                         *)
(***************************************************************************)
EXTENDS Integers, Sequences, SequencesExt, TLC

AF_INET == 2
AF_INET6 == 10
IPPROTO_ICMP == 1
IPPROTO_TCP == 6
IPPROTO_UDP == 17
IPPROTO_DCCP == 33
IPPROTO_GRE == 47
IPPROTO_ICMPV6 == 58
IPPROTO_SCTP == 132
IPPROTO_UDPLITE == 136

-----------------------------------------------------------------------------
(* Attributes and the cells they live in.  An attribute is named by its    *)
(* group and its name: ATTR_ORIG_IPV4_SRC is <<"ORIG", "IPV4_SRC">>,       *)
(* ATTR_MARK is <<"CT", "MARK">>.                                          *)

TupleCells ==
  [IPV4_SRC |-> <<"src">>, IPV4_DST |-> <<"dst">>,
   IPV6_SRC |-> <<"src", "src6">>, IPV6_DST |-> <<"dst", "dst6">>,
   PORT_SRC |-> <<"l4src">>, PORT_DST |-> <<"l4dst0", "l4dst1">>,
   L3PROTO |-> <<"l3protonum">>, L4PROTO |-> <<"protonum">>]

\* What else is kept per direction.
DirCells ==
  [ZONE |-> <<"zone">>,
   COUNTER_PACKETS |-> <<"packets", "packets_hi">>,
   COUNTER_BYTES |-> <<"bytes", "bytes_hi">>,
   NAT_SEQ_CORRECTION_POS |-> <<"correction_pos">>,
   NAT_SEQ_OFFSET_BEFORE |-> <<"offset_before">>,
   NAT_SEQ_OFFSET_AFTER |-> <<"offset_after">>]

IcmpCells == [TYPE |-> <<"l4dst0">>, CODE |-> <<"l4dst1">>, ID |-> <<"l4src">>]

\* union __nfct_protoinfo, by byte.
ProtoinfoCells ==
  [TCP |-> [STATE |-> <<"b0">>, FLAGS_ORIG |-> <<"b1">>, MASK_ORIG |-> <<"b2">>,
            FLAGS_REPL |-> <<"b3">>, MASK_REPL |-> <<"b4">>,
            WSCALE_ORIG |-> <<"b5">>, WSCALE_REPL |-> <<"b6">>],
   SCTP |-> [STATE |-> <<"b0">>, VTAG_ORIG |-> <<"b4", "b5", "b6", "b7">>,
             VTAG_REPL |-> <<"w8">>],
   DCCP |-> [STATE |-> <<"b0">>, ROLE |-> <<"b1">>,
             HANDSHAKE_SEQ |-> <<"w8", "w12">>]]

NatCells == [IPV4 |-> <<"ip">>, IPV6 |-> <<"ip", "ip6">>, PORT |-> <<"l4">>]

Scalars == {"TIMEOUT", "MARK", "SECMARK", "USE", "ID", "STATUS", "HELPER_NAME",
            "ZONE", "SECCTX", "HELPER_INFO", "CONNLABELS", "CONNLABELS_MASK",
            "SYNPROXY_ISN", "SYNPROXY_ITS", "SYNPROXY_TSOFF"}

CtCells == [n \in Scalars |-> <<n>>] @@
           [TIMESTAMP_START |-> <<"start", "start_hi">>,
            TIMESTAMP_STOP |-> <<"stop", "stop_hi">>]

In(group, table) == {group} \X DOMAIN table

Tuple(d) == In(d, TupleCells)
Icmp == In("ICMP", IcmpCells)
Protoinfo == UNION {In(p, ProtoinfoCells[p]) : p \in DOMAIN ProtoinfoCells}
NatAttr == In("SNAT", NatCells) \cup In("DNAT", NatCells)

Attr == Tuple("ORIG") \cup Tuple("REPL") \cup Tuple("MASTER")
        \cup In("ORIG", DirCells) \cup In("REPL", DirCells)
        \cup Icmp \cup Protoinfo \cup NatAttr \cup In("CT", CtCells)

\* Where an attribute is stored; an ICMP field is in the tuple of direction d.
Cells(a, d) ==
  LET g == a[1] n == a[2]
      Of(owner, names) == [i \in DOMAIN names |-> <<owner, names[i]>>]
  IN CASE a \in Icmp -> Of(d, IcmpCells[n])
       [] a \in Protoinfo -> Of("PROTOINFO", ProtoinfoCells[g][n])
       [] a \in NatAttr -> Of(g, NatCells[n])
       [] g = "CT" -> Of(g, CtCells[n])
       [] n \in DOMAIN TupleCells -> Of(g, TupleCells[n])
       [] OTHER -> Of(g, DirCells[n])

\* A word stored over four byte cells, and back.
Bytes4(v) == <<v % 256, (v \div 256) % 256, (v \div 65536) % 256, v \div 16777216>>
Word(b) == b[1] + 256 * b[2] + 65536 * b[3] + 16777216 * b[4]

\* NULL of struct nfct_bitmask *, and the other zeros.
NoMask == [words |-> 0, bits |-> {}]
Zero(c) == CASE c = <<"CT", "STATUS">> -> {}
             [] c \in {<<"CT", "CONNLABELS">>, <<"CT", "CONNLABELS_MASK">>} -> NoMask
             [] OTHER -> 0

-----------------------------------------------------------------------------
(* Memory.                                                                 *)

nfct_new == [set |-> {}, mem |-> [c \in {} |-> 0]]

Load(ct, c) == IF c \in DOMAIN ct.mem THEN ct.mem[c] ELSE Zero(c)

Peek(ct, cells) == [i \in DOMAIN cells |-> Load(ct, cells[i])]

\* Zeros are not recorded, so that an object has one representation.
Poke(ct, cells, v) ==
  LET at == [c \in Range(cells) |-> v[CHOOSE i \in DOMAIN cells : cells[i] = c]]
      mem == at @@ ct.mem
  IN [ct EXCEPT !.mem = [c \in {x \in DOMAIN mem : mem[x] # Zero(x)} |-> mem[c]]]

set_bit(ct, a) == [ct EXCEPT !.set = @ \cup {a}]

-----------------------------------------------------------------------------
(* setter.c.  A value is the tuple of the values of the attribute's cells.  *)

\* The ICMP type of the reply, plus one; 0 when the request has none.
invmap_icmp == 8 :> 1 @@ 0 :> 9 @@ 13 :> 15 @@ 14 :> 14 @@ 15 :> 17 @@ 16 :> 16
               @@ 17 :> 19 @@ 18 :> 18
invmap_icmpv6 == 128 :> 130 @@ 129 :> 129 @@ 139 :> 140 @@ 140 :> 141

set_attr_tuple(ct, a, v) == Poke(ct, Cells(a, a[1]), v)

\* The reply's type follows from the request's and from the family the object
\* has at that moment; 255 stands for "none".
set_attr_icmp_type(ct, v) ==
  LET map == CASE Load(ct, <<"ORIG", "l3protonum">>) = AF_INET -> invmap_icmp
               [] Load(ct, <<"ORIG", "l3protonum">>) = AF_INET6 -> invmap_icmpv6
               [] OTHER -> <<>>
      rtype == IF v[1] \in DOMAIN map THEN map[v[1]] - 1 ELSE 255
  IN Poke(Poke(ct, <<<<"ORIG", "l4dst0">>>>, v), <<<<"REPL", "l4dst0">>>>, <<rtype>>)

set_attr_icmp(ct, a, v) ==
  IF a[2] = "TYPE" THEN set_attr_icmp_type(ct, v)
  ELSE Poke(Poke(ct, Cells(a, "ORIG"), v), Cells(a, "REPL"), v)

set_attr_protoinfo(ct, a, v) == Poke(ct, Cells(a, ""), v)

\* The range of a NAT mapping shrinks to one address or port.
Upper(cells) == [i \in DOMAIN cells |-> <<"MAX", cells[i]>>]
set_attr_nat(ct, a, v) == Poke(Poke(ct, Cells(a, ""), v), Upper(Cells(a, "")), v)

\* What the object owns through a pointer.
Pointers == {"CT"} \X {"SECCTX", "HELPER_INFO", "CONNLABELS", "CONNLABELS_MASK"}

\* Counters, use, security context and timestamps come from the kernel only:
\* the bit is set, the value is dropped.
do_nothing == ({"ORIG", "REPL"} \X {"COUNTER_PACKETS", "COUNTER_BYTES"})
              \cup ({"CT"} \X {"USE", "SECCTX", "TIMESTAMP_START", "TIMESTAMP_STOP"})

set_attr_scalar(ct, a, v) == Poke(ct, Cells(a, ""), v)

set_attr_master(ct, a, v) == Poke(ct, Cells(a, "MASTER"), v)

set_attr_nat_seq(ct, a, v) == Poke(ct, Cells(a, a[1]), v)

\* The old helper information or bitmask is freed.  Helper information is
\* copied, but its length is not recorded; a bitmask belongs to the object.
set_attr_pointer(ct, a, v) == Poke(ct, Cells(a, ""), v)

set_attr_array(ct, a, v) ==
  CASE a \in do_nothing -> ct
    [] a \in Icmp -> set_attr_icmp(ct, a, v)
    [] a \in Protoinfo -> set_attr_protoinfo(ct, a, v)
    [] a \in NatAttr -> set_attr_nat(ct, a, v)
    [] a \in Pointers -> set_attr_pointer(ct, a, v)
    [] a[1] = "MASTER" -> set_attr_master(ct, a, v)
    [] a[1] # "CT" /\ a[2] \notin DOMAIN TupleCells \cup {"ZONE"} -> set_attr_nat_seq(ct, a, v)
    [] a[1] # "CT" -> set_attr_tuple(ct, a, v)
    [] OTHER -> set_attr_scalar(ct, a, v)

nfct_set_attr(ct, a, v) == set_bit(set_attr_array(ct, a, v), a)

-----------------------------------------------------------------------------
(* getter.c: the address of the attribute's cells; NULL when not set.  The  *)
(* fixed-size forms nfct_get_attr_u8 .. u64 then answer zero.              *)

get_attr_tuple(ct, a) == Peek(ct, Cells(a, "ORIG"))
get_attr_protoinfo(ct, a) == Peek(ct, Cells(a, ""))
get_attr_meta(ct, a) == Peek(ct, Cells(a, ""))

get_attr_array(ct, a) ==
  CASE a \in Protoinfo -> get_attr_protoinfo(ct, a)
    [] a \in Icmp \/ a[2] \in DOMAIN TupleCells -> get_attr_tuple(ct, a)
    [] OTHER -> get_attr_meta(ct, a)

nfct_get_attr(ct, a) ==
  IF a \in ct.set THEN get_attr_array(ct, a)
  ELSE LET cells == Cells(a, "ORIG") IN [i \in DOMAIN cells |-> Zero(cells[i])]

-----------------------------------------------------------------------------
(* copy.c.  A copy takes the cells of the attribute: of an ICMP field only  *)
(* those of the original tuple, of a NAT range only the lower end.         *)

copy_attr_tuple(a) == Range(Cells(a, "ORIG"))

copy_attr_protoinfo(a) == Range(Cells(a, ""))

copy_attr_meta(a) == Range(Cells(a, ""))

\* Helper information and labels are left as they are when the source has a
\* NULL pointer; the length of the helper information is not copied.
copy_attr_pointer(orig, a) ==
  LET c == <<"CT", a[2]>>
  IN IF a[2] # "SECCTX" /\ Load(orig, c) = Zero(c) THEN {} ELSE {c}

\* The cells that copying an attribute writes.
copy_attr_array(orig, a) ==
  CASE a \in Pointers -> copy_attr_pointer(orig, a)
    [] a \in Protoinfo -> copy_attr_protoinfo(a)
    [] a \in Icmp \/ a[2] \in DOMAIN TupleCells -> copy_attr_tuple(a)
    [] OTHER -> copy_attr_meta(a)

CopyMissing(ct1, ct2, attrs) ==
  LET got == (attrs \cap ct2.set) \ ct1.set
      cells == UNION {copy_attr_array(ct2, a) : a \in got}
      kept == [c \in DOMAIN ct1.mem \ cells |-> ct1.mem[c]]
      taken == [c \in DOMAIN ct2.mem \cap cells |-> ct2.mem[c]]
  IN [set |-> ct1.set \cup got, mem |-> kept @@ taken]

\* The loops run over the attributes in the order of enum nf_conntrack_attr.
\* Where two share cells the order does not matter: both read one source.
CopyAll(ct1, ct2, attrs) ==
  LET got == attrs \cap ct2.set
      cells == UNION {copy_attr_array(ct2, a) : a \in got}
      kept == [c \in DOMAIN ct1.mem \ cells |-> ct1.mem[c]]
      taken == [c \in DOMAIN ct2.mem \cap cells |-> ct2.mem[c]]
  IN [set |-> ct1.set \cup got, mem |-> kept @@ taken]

nfct_copy_attr(ct1, ct2, a) == CopyAll(ct1, ct2, {a})

cp_orig_mask == Tuple("ORIG") \cup Icmp
cp_repl_mask == Tuple("REPL")
cp_meta_mask == Attr \ (Tuple("ORIG") \cup Tuple("REPL") \cup Icmp)

\* NFCT_CP_OVERRIDE: the whole object, then the pointers one by one.  Only what
\* the copied bits and cells show is left of the target.
copy_fast(ct1, ct2) ==
  LET pointers == {<<"CT", a[2]>> : a \in Pointers}
      cells == (DOMAIN ct2.mem \ pointers) \cup UNION {copy_attr_pointer(ct2, a) : a \in Pointers}
  IN [ct2 EXCEPT !.mem = [c \in DOMAIN ct2.mem \cap cells |-> @[c]]]

\* NFCT_CP_ALL is no flag.
nfct_copy(ct1, ct2, flags) ==
  IF "OVERRIDE" \in flags THEN copy_fast(ct1, ct2)
  ELSE IF flags = {} THEN CopyAll(ct1, ct2, Attr)
  ELSE CopyAll(ct1, ct2, (IF "ORIG" \in flags THEN cp_orig_mask ELSE {})
                    \cup (IF "REPL" \in flags THEN cp_repl_mask ELSE {})
                    \cup (IF "META" \in flags THEN cp_meta_mask ELSE {}))

nfct_clone(ct) == nfct_copy(nfct_new, ct, {"OVERRIDE"})

-----------------------------------------------------------------------------
(* compare.c.                                                              *)

\* An attribute set on both sides is compared; one set on one side only counts
\* as different under STRICT (or under MASK when it is the first side), unless
\* the comparison is lenient and reads the missing value as zero.
cmp(a, ct1, ct2, flags, same, strict) ==
  LET one == a \in ct1.set two == a \in ct2.set
  IN CASE one /\ two -> same
       [] ~one /\ ~two -> TRUE
       [] "MASK" \in flags /\ one -> ~strict /\ same
       [] "STRICT" \in flags -> ~strict /\ same
       [] OTHER -> TRUE

SameCells(a, ct1, ct2) == Peek(ct1, Cells(a, "ORIG")) = Peek(ct2, Cells(a, "ORIG"))

cmpStrict(a, ct1, ct2, flags) == cmp(a, ct1, ct2, flags, SameCells(a, ct1, ct2), TRUE)

cmpLenient(a, ct1, ct2, flags) ==
  cmp(a, ct1, ct2, flags, nfct_get_attr(ct1, a) = nfct_get_attr(ct2, a), FALSE)

PortProtocols == {IPPROTO_TCP, IPPROTO_UDP, IPPROTO_UDPLITE, IPPROTO_DCCP, IPPROTO_SCTP}
IcmpProtocols == {IPPROTO_ICMP, IPPROTO_ICMPV6}

\* The ICMP fields are those of the original tuple in both directions.
cmp_l4proto(d, ct1, ct2, flags) ==
  LET p == Load(ct1, <<d, "protonum">>)
  IN /\ p = Load(ct2, <<d, "protonum">>)
     /\ p \in IcmpProtocols => \A a \in Icmp : cmpStrict(a, ct1, ct2, flags)
     /\ p \in PortProtocols =>
          \A n \in {"PORT_SRC", "PORT_DST"} : cmpStrict(<<d, n>>, ct1, ct2, flags)

cmp_direction(d, ct1, ct2, flags) ==
  /\ cmpStrict(<<d, "L3PROTO">>, ct1, ct2, flags)
  /\ cmp(<<d, "L4PROTO">>, ct1, ct2, flags, cmp_l4proto(d, ct1, ct2, flags), TRUE)
  /\ \A n \in {"IPV4_SRC", "IPV4_DST", "IPV6_SRC", "IPV6_DST"} :
        cmpStrict(<<d, n>>, ct1, ct2, flags)
  /\ cmpLenient(<<d, "ZONE">>, ct1, ct2, flags)

cmp_orig(ct1, ct2, flags) == cmp_direction("ORIG", ct1, ct2, flags)
cmp_repl(ct1, ct2, flags) == cmp_direction("REPL", ct1, ct2, flags)

cmp_timeout(ct1, ct2, flags) ==
  LET t == Load(ct1, <<"CT", "TIMEOUT">>) u == Load(ct2, <<"CT", "TIMEOUT">>)
  IN \/ flags \cap {"TIMEOUT_EQ", "TIMEOUT_LT", "TIMEOUT_GT"} = {} /\ t = u
     \/ "TIMEOUT_GT" \in flags /\ t > u
     \/ "TIMEOUT_LT" \in flags /\ t < u
     \/ "TIMEOUT_EQ" \in flags /\ t = u

cmp_status(ct1, ct2) == Load(ct1, <<"CT", "STATUS">>) \subseteq Load(ct2, <<"CT", "STATUS">>)

\* Labels of different sizes are equal when the extra words are empty: the same
\* bits are set.  A missing mask equals only a missing one.
cmp_clabel(a, ct1, ct2) ==
  LET x == nfct_get_attr(ct1, a)[1] y == nfct_get_attr(ct2, a)[1]
  IN (x = NoMask <=> y = NoMask) /\ x.bits = y.bits

cmp_meta(ct1, ct2, flags) ==
  /\ cmpStrict(<<"CT", "ID">>, ct1, ct2, flags)
  /\ cmpLenient(<<"CT", "MARK">>, ct1, ct2, flags)
  /\ cmp(<<"CT", "TIMEOUT">>, ct1, ct2, flags, cmp_timeout(ct1, ct2, flags), TRUE)
  /\ cmp(<<"CT", "STATUS">>, ct1, ct2, flags, cmp_status(ct1, ct2), TRUE)
  /\ \A p \in {"TCP", "SCTP", "DCCP"} : cmpStrict(<<p, "STATE">>, ct1, ct2, flags)
  /\ cmpLenient(<<"CT", "ZONE">>, ct1, ct2, flags)
  /\ cmpStrict(<<"CT", "SECCTX">>, ct1, ct2, flags)
  /\ \A a \in {"CT"} \X {"CONNLABELS", "CONNLABELS_MASK"} :
        cmp(a, ct1, ct2, flags, cmp_clabel(a, ct1, ct2), TRUE)

\* NFCT_CMP_ALL is no flag but MASK and STRICT.
nfct_cmp(ct1, ct2, flags) ==
  IF flags \ {"MASK", "STRICT"} = {}
  THEN cmp_meta(ct1, ct2, flags) /\ cmp_orig(ct1, ct2, flags) /\ cmp_repl(ct1, ct2, flags)
  ELSE /\ "ORIG" \in flags => cmp_orig(ct1, ct2, flags)
       /\ "REPL" \in flags => cmp_repl(ct1, ct2, flags)

-----------------------------------------------------------------------------
(* objopt.c.                                                               *)

Copied(ct, to, from) == Poke(ct, to, Peek(ct, from))

\* A port as the number its two bytes make.
PortOf(ct, d, s) == IF s = "src" THEN Load(ct, <<d, "l4src">>)
                    ELSE Load(ct, <<d, "l4dst0">>) + 256 * Load(ct, <<d, "l4dst1">>)
WithPort(ct, d, s, p) == IF s = "src" THEN Poke(ct, <<<<d, "l4src">>>>, <<p>>)
                         ELSE Poke(ct, <<<<d, "l4dst0">>, <<d, "l4dst1">>>>, <<p % 256, p \div 256>>)

TS_ORIG == Tuple("ORIG") \cup Icmp
TS_REPL == Tuple("REPL") \cup Icmp

\* One tuple is completed as the mirror of the other; all bits of both are set.
autocomplete(ct, this, other) ==
  LET T(n) == Cells(<<this, n>>, "") O(n) == Cells(<<other, n>>, "")
      head == T("L3PROTO") \o T("L4PROTO") \o T("IPV6_SRC") \o T("IPV6_DST")
      from == O("L3PROTO") \o O("L4PROTO") \o O("IPV6_DST") \o O("IPV6_SRC")
      mirrored == Copied(ct, head, from)
      ports == WithPort(WithPort(mirrored, this, "src", PortOf(ct, other, "dst")),
                        this, "dst", PortOf(ct, other, "src"))
      done == IF Load(mirrored, <<this, "protonum">>) \in PortProtocols \cup {IPPROTO_GRE}
              THEN ports ELSE mirrored
  IN [done EXCEPT !.set = @ \cup TS_ORIG \cup TS_REPL]

\* The address a NAT mapping changed becomes the mapping, and the reply is what
\* it would be without it.
undo_address(ct, g, changed, plain) ==
  LET l3 == Load(ct, <<"ORIG", "l3protonum">>)
      n == IF l3 = AF_INET THEN "IPV4" ELSE "IPV6"
      Side(d, s) == Cells(<<d, CASE l3 = AF_INET /\ s = "src" -> "IPV4_SRC"
                               [] l3 = AF_INET /\ s = "dst" -> "IPV4_DST"
                               [] l3 # AF_INET /\ s = "src" -> "IPV6_SRC"
                               [] OTHER -> "IPV6_DST">>, "")
      kept == set_attr_nat(ct, <<g, n>>, Peek(ct, Side("REPL", changed)))
  IN IF l3 \notin {AF_INET, AF_INET6} THEN ct
     ELSE set_bit(Copied(kept, Side("REPL", changed), Side("ORIG", plain)), <<g, n>>)

undo_snat(ct) == undo_address(ct, "SNAT", "dst", "src")
undo_dnat(ct) == undo_address(ct, "DNAT", "src", "dst")

undo_port_after(ct, g, changed, plain) ==
  LET plainPort == WithPort(ct, "REPL", changed, PortOf(ct, "ORIG", plain))
  IN nfct_set_attr(plainPort, <<g, "PORT">>, <<PortOf(plainPort, "REPL", changed)>>)

undo_port(ct, g, changed, plain) ==
  LET kept == nfct_set_attr(ct, <<g, "PORT">>, <<PortOf(ct, "REPL", changed)>>)
  IN WithPort(kept, "REPL", changed, PortOf(ct, "ORIG", plain))

undo_spat(ct) == undo_port(ct, "SNAT", "dst", "src")
undo_dpat(ct) == undo_port(ct, "DNAT", "src", "dst")

nfct_setobjopt(ct, option) ==
  CASE option = "UNDO_SNAT" -> undo_snat(ct)
    [] option = "UNDO_DNAT" -> undo_dnat(ct)
    [] option = "UNDO_SPAT" -> undo_spat(ct)
    [] option = "UNDO_DPAT" -> undo_dpat(ct)
    [] option = "SETUP_ORIGINAL" -> autocomplete(ct, "ORIG", "REPL")
    [] option = "SETUP_REPLY" -> autocomplete(ct, "REPL", "ORIG")

\* A known status without the "done" bit says that there is no mapping.
Translated(ct, bit) ==
  <<"CT", "STATUS">> \in ct.set => bit \in Load(ct, <<"CT", "STATUS">>)

is_address(ct, bit, changed, plain) ==
  LET l3 == Load(ct, <<"ORIG", "l3protonum">>)
      Word0 == Load(ct, <<"REPL", changed>>) # Load(ct, <<"ORIG", plain>>)
      Rest == IF changed = "src" THEN Load(ct, <<"REPL", "src6">>) # Load(ct, <<"ORIG", "dst6">>)
              ELSE Load(ct, <<"REPL", "dst6">>) # Load(ct, <<"ORIG", "src6">>)
  IN /\ Translated(ct, bit)
     /\ l3 \in {AF_INET, AF_INET6}
     /\ Word0 \/ (l3 = AF_INET6 /\ Rest)

is_snat(ct) == is_address(ct, "SRC_NAT_DONE", "dst", "src")
is_dnat(ct) == is_address(ct, "DST_NAT_DONE", "src", "dst")
is_spat(ct) == Translated(ct, "SRC_NAT_DONE") /\ PortOf(ct, "REPL", "dst") # PortOf(ct, "ORIG", "src")
is_dpat(ct) == Translated(ct, "DST_NAT_DONE") /\ PortOf(ct, "REPL", "src") # PortOf(ct, "ORIG", "dst")

nfct_getobjopt(ct, option) ==
  CASE option = "IS_SNAT" -> is_snat(ct)
    [] option = "IS_DNAT" -> is_dnat(ct)
    [] option = "IS_SPAT" -> is_spat(ct)
    [] option = "IS_DPAT" -> is_dpat(ct)
=============================================================================
