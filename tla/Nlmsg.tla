------------------------------- MODULE Nlmsg -------------------------------
(***************************************************************************)
(* The message layer of libmnl (src/libmnl/mnlmsg.c, attr.c): a buffer     *)
(* that starts with a netlink header and grows by type-length-value        *)
(* attributes.                                                             *)
(*                                                                         *)
(* A message is a record: the header fields, nlmsg_len, and the attribute  *)
(* headers found in the buffer, by their offset.  Offsets and lengths are  *)
(* the code's, in bytes; the payload of an attribute is the tuple of       *)
(* values written into it.  A cancelled attribute stays in the buffer      *)
(* behind nlmsg_len, exactly as in memory.                                 *)
(***************************************************************************)
EXTENDS Integers, Sequences, FiniteSets, TLC

MNL_NLMSG_HDRLEN == 16
MNL_ATTR_HDRLEN == 4

MNL_ALIGN(n) == 4 * ((n + 3) \div 4)

\* Byte order: the four bytes of a u32 and the two of a u16, swapped (a little
\* endian host).  A u64 is a pair of u32, most significant half last.
htonl(v) == (v % 256) * 16777216 + ((v \div 256) % 256) * 65536
              + ((v \div 65536) % 256) * 256 + v \div 16777216
htons(v) == (v % 256) * 256 + v \div 256
htobe64(v) == <<htonl(v[2]), htonl(v[1])>>

-----------------------------------------------------------------------------
(* Writing a message.                                                      *)

mnl_nlmsg_put_header(type, flags) ==
  [len |-> MNL_NLMSG_HDRLEN, type |-> type, flags |-> flags, family |-> 0,
   at |-> [o \in {} |-> 0]]

\* The only extra header in use is struct nfgenmsg, four bytes that carry the
\* address family.
mnl_nlmsg_put_extra_header(m, family) ==
  [m EXCEPT !.len = @ + MNL_ALIGN(4), !.family = family]

mnl_nlmsg_get_payload_tail(m) == MNL_ALIGN(m.len)

mnl_attr_put(m, type, len, data) ==
  LET start == mnl_nlmsg_get_payload_tail(m)
      n == (MNL_ALIGN(MNL_ATTR_HDRLEN) + len) % 65536
  IN [m EXCEPT !.at = (start :> [type |-> type, len |-> n, data |-> data]) @@ @,
               !.len = @ + MNL_ALIGN(n)]

mnl_attr_put_u8(m, type, v) == mnl_attr_put(m, type, 1, <<v>>)
mnl_attr_put_u16(m, type, v) == mnl_attr_put(m, type, 2, <<v>>)
mnl_attr_put_u32(m, type, v) == mnl_attr_put(m, type, 4, <<v>>)
mnl_attr_put_u64(m, type, v) == mnl_attr_put(m, type, 8, v)

\* The header of a nest has no length before the nest is ended: what the
\* buffer held there before stays, and the callers clear the buffer first.
mnl_attr_nest_start(m, type) ==
  LET start == mnl_nlmsg_get_payload_tail(m)
  IN [m EXCEPT !.at = (start :> [type |-> type, len |-> 0, data |-> <<>>]) @@ @,
               !.len = @ + MNL_ALIGN(MNL_ATTR_HDRLEN)]

mnl_attr_nest_end(m, start) ==
  [m EXCEPT !.at[start].len = mnl_nlmsg_get_payload_tail(m) - start]

mnl_attr_nest_cancel(m, start) ==
  [m EXCEPT !.len = @ - (mnl_nlmsg_get_payload_tail(m) - start)]

-----------------------------------------------------------------------------
(* Reading a message.                                                      *)

\* Whatever lies at an offset, read as an attribute header: zeros where no
\* header was ever written.
Header(m, o) == IF o \in DOMAIN m.at THEN m.at[o]
                ELSE [type |-> "UNSPEC", len |-> 0, data |-> <<>>]

mnl_attr_ok(m, o, rest) ==
  /\ rest >= MNL_ATTR_HDRLEN
  /\ Header(m, o).len >= MNL_ATTR_HDRLEN
  /\ Header(m, o).len <= rest

mnl_attr_next(m, o) == o + MNL_ALIGN(Header(m, o).len)

mnl_attr_get_payload_len(m, o) == Header(m, o).len - MNL_ATTR_HDRLEN

\* The offsets mnl_attr_for_each and its nested and payload forms visit, in
\* order: from an offset, while an attribute fits before the end.
RECURSIVE mnl_attr_for_each(_, _, _)
mnl_attr_for_each(m, o, end) ==
  IF mnl_attr_ok(m, o, end - o)
  THEN <<o>> \o mnl_attr_for_each(m, mnl_attr_next(m, o), end)
  ELSE <<>>

\* What a policy says of one attribute type: the libmnl data type and, for the
\* fixed-size ones, the exact payload length (0: not checked).
U8 == <<"U8", 1>>
U16 == <<"U16", 2>>
U32 == <<"U32", 4>>
U64 == <<"U64", 8>>
NESTED == <<"NESTED", 0>>
STRING_ == <<"STRING", 0>>
UNSPEC(n) == <<"UNSPEC", n>>

mnl_attr_validate(m, o, policy) ==
  LET n == mnl_attr_get_payload_len(m, o)
  IN /\ n >= policy[2]
     /\ policy[1] = "STRING" => n # 0
     /\ policy[1] = "NESTED" => (n = 0 \/ n >= MNL_ATTR_HDRLEN)
     /\ policy[2] # 0 => n <= policy[2]

\* The walk with the library's parse callbacks: a type outside the policy is
\* skipped, a known one of the wrong size ends the process (abi_breakage), and
\* of two attributes of one type the last one counts.  The result is the table
\* tb: the offset of each known attribute, 0 where there is none.
mnl_attr_parse_payload(m, o, end, policy) ==
  LET walk == mnl_attr_for_each(m, o, end)
      Of(t) == {i \in 1..Len(walk) : Header(m, walk[i]).type = t}
  IN [t \in DOMAIN policy |->
        IF Of(t) = {} THEN 0
        ELSE walk[CHOOSE i \in Of(t) : \A j \in Of(t) : j <= i]]

abi_breakage(m, o, end, policy) ==
  LET walk == mnl_attr_for_each(m, o, end)
  IN \E i \in 1..Len(walk) :
        LET t == Header(m, walk[i]).type
        IN t \in DOMAIN policy /\ ~mnl_attr_validate(m, walk[i], policy[t])

mnl_attr_parse_nested(m, o, policy) ==
  mnl_attr_parse_payload(m, o + MNL_ATTR_HDRLEN, o + Header(m, o).len, policy)

mnl_attr_get(m, o) == Header(m, o).data

\* struct nfgenmsg follows the header; the attributes follow it.
FirstAttribute == MNL_NLMSG_HDRLEN + MNL_ALIGN(4)
=============================================================================
