------------------------------ MODULE NfctApi ------------------------------
(***************************************************************************)
(* A client of the conntrack objects (src/libnetfilter_conntrack/api.c):    *)
(* one object that is filled, completed and copied in any order, and what  *)
(* the library promises about building, parsing, copying and comparing it.  *)
(***************************************************************************)
EXTENDS NfctNlmsg

CONSTANTS Kits,     \* [first, more, options, copies]: set at the start; done later
          Targets   \* objects already in use, as targets of a copy

VARIABLES kit,      \* what this client sets
          ct        \* the object

vars == <<kit, ct>>

\* nfct_set_attr_u8 .. u64, nfct_set_attr.
SetAttr == \E e \in kit.more : ct' = nfct_set_attr(ct, e[1], e[2]) /\ UNCHANGED kit

\* The client goes on with a copy made into an object it had used before.
Copy(flags) == \E t \in Targets : ct' = nfct_copy(t, ct, flags) /\ UNCHANGED kit

SetObjopt(option) == ct' = nfct_setobjopt(ct, option) /\ UNCHANGED kit

\* The attributes of a sequence, set in its order.
RECURSIVE SetAll(_, _)
SetAll(c, list) == IF list = <<>> THEN c ELSE SetAll(nfct_set_attr(c, Head(list)[1], Head(list)[2]), Tail(list))

Init == kit \in Kits /\ ct = SetAll(nfct_new, kit.first)

Next == \/ SetAttr
        \/ \E option \in kit.options : SetObjopt(option)
        \/ \E flags \in kit.copies : Copy(flags)

Spec == Init /\ [][Next]_vars

-----------------------------------------------------------------------------
(* Properties.                                                             *)

\* What nfct_query puts on the wire, complete or not.
Message == mnl_nlmsg_put_extra_header(mnl_nlmsg_put_header("CT_NEW", {"REQUEST", "ACK"}),
                                      Load(ct, <<"ORIG", "l3protonum">>))
Request == nfct_nlmsg_build(Message, ct)

\* Scalars a message carries whenever they are set.
Carried == {"CT"} \X {"TIMEOUT", "MARK", "SECMARK", "STATUS", "ZONE", "HELPER_NAME", "CONNLABELS"}

\* What comes back for an attribute: itself, in the bits the object can have.
\* nfct_build_status adds IPS_CONFIRMED.
Echo(a) == IF a = <<"CT", "STATUS">> THEN <<nfct_get_attr(ct, a)[1] \cup {"CONFIRMED"}>>
           ELSE nfct_get_attr(ct, a)

\* A message has one family for all its tuples; so has an object of the kernel.
OneFamily == \A d \in {"REPL", "MASTER"} :
               Load(ct, <<d, "l3protonum">>) \in {0, Load(ct, <<"ORIG", "l3protonum">>)}

\* A message the library builds is read back by it: every attribute set on both
\* sides has one value, whatever byte order, union member or nest it went
\* through, and the attributes a message carries are not lost on the way.
RoundTrip ==
  \A b \in {Request} : b.ok /\ OneFamily =>
    \A p \in {nfct_nlmsg_parse(b.m, nfct_new)} :
      /\ \A a \in p.set \cap ct.set : nfct_get_attr(p, a) = Echo(a)
      /\ Carried \cap ct.set \subseteq p.set

NestTypes == {"TUPLE_ORIG", "TUPLE_REPLY", "TUPLE_MASTER", "TUPLE_IP", "TUPLE_PROTO",
              "PROTOINFO", "PROTOINFO_TCP", "PROTOINFO_SCTP", "PROTOINFO_DCCP",
              "NAT_SRC", "NAT_DST", "NAT_PROTO", "NAT_SEQ_ADJ_ORIG", "NAT_SEQ_ADJ_REPLY",
              "HELP", "SYNPROXY"}

\* The attributes from offset o fill the space up to end, nests included.
RECURSIVE Filled(_, _, _)
Filled(m, o, end) ==
  LET walk == mnl_attr_for_each(m, o, end)
  IN /\ IF walk = <<>> THEN o = end ELSE mnl_attr_next(m, walk[Len(walk)]) = end
     /\ \A i \in 1..Len(walk) : Header(m, walk[i]).type \in NestTypes
           => Filled(m, walk[i] + MNL_ATTR_HDRLEN, walk[i] + Header(m, walk[i]).len)

\* Every message is well formed, also the one left behind by a tuple that cannot
\* be built: what a cancelled nest wrote is outside nlmsg_len, no attribute
\* hides another one, and the parser's checks (abi_breakage ends the process)
\* accept it.
WellFormed ==
  \A m \in {Request.m} :
    /\ Filled(m, FirstAttribute, m.len)
    /\ ~abi_breakage(m, FirstAttribute, m.len, ConntrackPolicy)

\* After a copy into an object that was used before, the copy compares equal to
\* the source under the source's mask: with NFCT_CP_ALL and with the three
\* partial copies together.  A clone is equal in every attribute.
CopyIsFaithful ==
  /\ \A t \in Targets, flags \in {{}, {"ORIG", "REPL", "META"}} :
        nfct_cmp(ct, nfct_copy(t, ct, flags), {"MASK"})
  /\ nfct_cmp(nfct_clone(ct), ct, {"STRICT"})

\* What an object says survives being built, parsed and copied: the three
\* properties above together.
AttributesSurvive == RoundTrip /\ WellFormed /\ CopyIsFaithful

Undone(option, is, a, v) ==
  (ct' = nfct_setobjopt(ct, option)) => /\ ~nfct_getobjopt(ct', is)
                                        /\ a \in ct'.set => nfct_get_attr(ct', a) = v

UndoesNat ==
  LET l3 == Load(ct, <<"ORIG", "l3protonum">>)
  IN /\ Undone("UNDO_SPAT", "IS_SPAT", <<"SNAT", "PORT">>, <<PortOf(ct, "REPL", "dst")>>)
     /\ Undone("UNDO_DPAT", "IS_DPAT", <<"DNAT", "PORT">>, <<PortOf(ct, "REPL", "src")>>)
     /\ l3 = AF_INET =>
          /\ Undone("UNDO_SNAT", "IS_SNAT", <<"SNAT", "IPV4">>, <<Load(ct, <<"REPL", "dst">>)>>)
          /\ Undone("UNDO_DNAT", "IS_DNAT", <<"DNAT", "IPV4">>, <<Load(ct, <<"REPL", "src">>)>>)

\* NFCT_SOPT_UNDO_SNAT and the like leave an object without the translation they
\* undo, and the translation they took away is kept as the NAT mapping.
NatUndone == [][UndoesNat]_vars
=============================================================================
