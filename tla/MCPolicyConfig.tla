--------------------------- MODULE MCPolicyConfig ---------------------------
(***************************************************************************)
(* Two-bit addresses: 0 is the wildcard, 2 the pod and 1, 3 its peers.     *)
(* Pod ids have three bits and a JSON number two.                          *)
(***************************************************************************)
EXTENDS PolicyConfig

CONSTANTS web, dns

Ip(text) == <<text>>
AnyIp == Ip(Text(0, Bare))
PodIp == Ip(Text(2, Bare))
Ep(ip, pod_id) == [ip |-> ip, pod_id |-> pod_id, lost |-> {}]
Lacking(object, field) == [object EXCEPT !.lost = {field}]

Spec(action, direction, protocol, priority, from, to) ==
  [action |-> action, direction |-> direction, protocol |-> protocol, http |-> <<>>,
   from |-> <<Ep(from, 4)>>, to |-> <<Ep(to, 4)>>, ports |-> <<>>, priority |-> priority,
   lost |-> {}]

Port(port, end_port) == [port |-> port, end_port |-> end_port, lost |-> {}]
Http(method, path) == [when |-> [host |-> "", method |-> method, path |-> path], lost |-> {}]
Get == Http("GET", "")
Admin == Http("", "/admin")

\* Ingress to the pod from a block, denied more weakly for everyone.
Inbound ==
  <<[Spec(2, 1, 1, 1, Ip(Text(3, 1)), PodIp) EXCEPT !.http = <<Get>>],
    Spec(1, 1, 0, 2, AnyIp, PodIp)>>

\* The same key twice, the other action second; ports that wrap.
Twice ==
  <<[Spec(3, 1, 1, 1, Ip(Text(3, Bare)), PodIp) EXCEPT !.ports = <<Port(1, 0)>>],
    [Spec(2, 1, 1, 1, Ip(Text(3, 2)), PodIp) EXCEPT !.ports = <<Port(6, 6)>>],
    Spec(2, 1, 1, 129, AnyIp, PodIp)>>

\* A range that leaves the octet, and a mask of 0.
Outbound ==
  <<Spec(2, 2, 2, 1, PodIp, <<IpRange(0, 1, 2)>>),
    [Spec(0, 0, 0, 1, PodIp, Ip(Text(0, 0))) EXCEPT !.from = <<Ep(PodIp, 7)>>]>>

\* The second rule cannot be read: a field is lost, or its range throws.
Broken(spec) == <<[Spec(2, 1, 1, 1, AnyIp, PodIp) EXCEPT !.http = <<Admin>>], spec>>
LostTo == [Spec(2, 2, 1, 1, PodIp, AnyIp) EXCEPT !.lost = {"to_addresses"}, !.http = <<Get>>]
BadRange == Spec(1, 2, 1, 1, PodIp, <<Text(3, Bare), Malformed>>)

\* Lists that are read in part: an HTTP rule without a path, an address without its
\* ip, a pod without its id, a port without a number and one that is not there.
Peer == Ip(Text(3, Bare))
Torn ==
  <<[Spec(2, 1, 1, 1, Peer, PodIp) EXCEPT
       !.http = <<Get, Lacking(Admin, "path"), Admin>>,
       !.from = <<Ep(Peer, 7), Lacking(Ep(Ip(Text(1, Bare)), 7), "ip"), Ep(AnyIp, 7)>>,
       !.to = <<Lacking(Ep(PodIp, 7), "pod_id"), Ep(PodIp, 4)>>,
       !.ports = <<Lacking(Port(2, 2), "endPort"), Lacking(Port(1, 1), "itself")>>],
    Lacking(Spec(1, 1, 0, 2, AnyIp, PodIp), "itself"),
    [Spec(1, 2, 1, 2, PodIp, Peer) EXCEPT
       !.from = <<Ep(PodIp, 7), Lacking(Ep(PodIp, 4), "ip"), Ep(<<Malformed>>, 4)>>,
       !.ports = <<Lacking(Port(2, 1), "port")>>]>>

Request(name, rules) == [name |-> name, rules |-> rules, lost |-> {}]
MCRequests ==
  {Request(web, rules) : rules \in {Inbound, Twice, Outbound, Broken(LostTo), Broken(BadRange)}}
  \cup {Lacking(Request(web, Inbound), field) : field \in {"root", "policy_name", "rules"}}
  \cup {Request(dns, Torn), Request(EmptyName, <<Spec(1, 1, 1, 1, Ip(Text(1, Bare)), PodIp)>>)}

MCEngineRules ==
  UNION {UNION {NetRules(req.name, spec) : spec \in ToSet(req.rules)} : req \in MCRequests}

Packet(src, dst, proto, port) == [src |-> src, dst |-> dst, proto |-> proto, dst_port |-> port]
MCPackets ==
  {Packet(1, 2, 6, 1), Packet(1, 2, Icmp, 0), Packet(3, 2, 6, 1), Packet(3, 2, 6, 2),
   Packet(2, 1, 17, 2), Packet(2, 3, 6, 1), Packet(2, 3, 17, 1)}

MCHeaders ==
  {[host |-> "a", method |-> m, path |-> p] : m \in {"GET", "PUT"}, p \in {"/", "/admin"}}
=============================================================================
