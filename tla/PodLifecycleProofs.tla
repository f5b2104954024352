------------------------- MODULE PodLifecycleProofs -------------------------
(***************************************************************************)
(* PodLifecycle for any number of pods, namespaces, packets and faults:    *)
(* what epoll knows, which records exist and who listens; what the mangle  *)
(* tables do; and which packets can no longer be answered.                 *)
(***************************************************************************)
EXTENDS PodLifecycle, PodPartsProofs

Events == Nat \X {"in", "out", "dispatch"}

\* Resource numbers are used once: what exists was made, and belongs to one pod.
Numbered ==
    /\ made \in Nat
    /\ pods \in [PodIds -> 0..made]
    /\ records \subseteq (1..made) \X Dirs
    /\ bound \in [Pids -> [Dirs -> 0..made]]
    /\ batch \in Seq(Events)
    /\ \A p, q \in PodIds : pods[p] = pods[q] /\ pods[p] # None => p = q

\* The resource x belongs to a pod: Live, for the pods of the next state too.
Held(m, x) == \E pod \in PodIds : m[pod] = x

LifeInv == Numbered /\ RegisteredAreLive /\ StaleOnlyWithinBatch /\ ListenersAreRead

-----------------------------------------------------------------------------
(* What InitNfqueue and FreeResource do to the four parts of a resource *)

\* The parts without the resource r: what a failed InitNfqueue must give back.
Without(s, r, R, b) ==
    /\ s.epoll \ ({r} \X Dirs) = R
    /\ s.records \ ({r} \X Dirs) = R
    /\ DOMAIN s.queues \ ({r} \X Dirs) = R
    /\ Unbind(s.bound, r) = b

\* t is s with a listener of r more.
Opens(s, t, r, pid, d) ==
    /\ t.bound \in [Pids -> [Dirs -> 0..r]]
    /\ \A p \in Pids, e \in Dirs :
         t.bound[p][e] = IF p = pid /\ e = d THEN r ELSE s.bound[p][e]
    /\ t.epoll = s.epoll /\ t.records = s.records
    /\ DOMAIN t.queues = DOMAIN s.queues \cup {<<r, d>>}

\* OpenNfque adds only what belongs to the resource.
LEMMA OpenKeeps ==
    ASSUME NEW s, NEW n \in Nat, NEW R, NEW b \in [Pids -> [Dirs -> 0..n]],
           NEW pid \in Pids, NEW d \in Dirs, NEW r, r = n + 1,
           s.bound \in [Pids -> [Dirs -> 0..r]], s.bound[pid][d] = None,
           Without(s, r, R, b)
    PROVE  /\ Opens(s, OpenNfque(s, r, pid, d), r, pid, d)
           /\ Without(OpenNfque(s, r, pid, d), r, R, b)
<1> DEFINE t == OpenNfque(s, r, pid, d)
<1>1. /\ t.epoll = s.epoll /\ t.records = s.records
      /\ t.bound = [s.bound EXCEPT ![pid][d] = r]
      /\ DOMAIN t.queues = DOMAIN s.queues \cup {<<r, d>>}
  BY DEF OpenNfque
<1> HIDE DEF t
<1>2. /\ t.bound \in [Pids -> [Dirs -> 0..r]]
      /\ \A p \in Pids, e \in Dirs :
           t.bound[p][e] = IF p = pid /\ e = d THEN r ELSE s.bound[p][e]
  BY <1>1
<1>3. DOMAIN t.queues \ ({r} \X Dirs) = R
  BY <1>1 DEF Without
<1>4. Unbind(t.bound, r) = b
  <2>1. \A p \in Pids, e \in Dirs : Unbind(s.bound, r)[p][e] = b[p][e]
    BY DEF Without
  <2>2. \A p \in Pids, e \in Dirs : Unbind(t.bound, r)[p][e] = b[p][e]
    BY <1>2, <2>1 DEF Unbind, None
  <2> QED
    BY <2>2 DEF Unbind
<1> QED
  BY <1>1, <1>2, <1>3, <1>4 DEF Without, Opens, t

\* t is s with both records of r, or with at most a registration more.
Adds(s, t, r, failure) ==
    /\ t.bound = s.bound /\ t.queues = s.queues
    /\ t.epoll \ ({r} \X Dirs) = s.epoll \ ({r} \X Dirs)
    /\ t.records \ ({r} \X Dirs) = s.records \ ({r} \X Dirs)
    /\ failure \notin {"epoll in", "epoll out"} =>
         /\ t.epoll = s.epoll \cup ({r} \X Dirs)
         /\ t.records = s.records \cup ({r} \X Dirs)

\* AddEpollEvent touches epoll and the records only, and adds both or leaves
\* at most a registration of the resource behind.
LEMMA AddParts ==
    ASSUME NEW s, NEW r, NEW failure
    PROVE  Adds(s, AddEpollEvent(s, r, failure), r, failure)
<1> DEFINE t == AddEpollEvent(s, r, failure)
<1>1. /\ t.bound = s.bound /\ t.queues = s.queues
      /\ t.epoll = IF failure \notin {"epoll in", "epoll out"} THEN s.epoll \cup ({r} \X Dirs)
                   ELSE IF failure = "epoll out" THEN s.epoll \cup {<<r, "in">>}
                   ELSE s.epoll
      /\ t.records = IF failure \notin {"epoll in", "epoll out"} THEN s.records \cup ({r} \X Dirs)
                     ELSE s.records
  BY DEF AddEpollEvent
<1> HIDE DEF t
<1>2. {<<r, "in">>} \subseteq {r} \X Dirs
  BY DEF Dirs
<1> QED
  BY <1>1, <1>2, Zenon DEF Adds, t

\* i either has both queues, records and listeners of r, or what was there.
AllOrNothing(i, r, R, b) ==
    /\ i.ok \in BOOLEAN
    /\ i.s.epoll = i.s.records /\ DOMAIN i.s.queues = i.s.records
    /\ ~i.ok => i.s.records = R /\ i.s.bound = b
    /\ i.ok => /\ i.s.records = R \cup ({r} \X Dirs)
               /\ i.s.bound \in [Pids -> [Dirs -> 0..r]]
               /\ \A p \in Pids, d \in Dirs : i.s.bound[p][d] \in {b[p][d], r}

\* InitNfqueue opens both queues and registers both records, or leaves nothing.
LEMMA InitKeeps ==
    ASSUME NEW s, NEW n \in Nat, NEW R \in SUBSET ((1..n) \X Dirs),
           NEW b \in [Pids -> [Dirs -> 0..n]], NEW pid \in Pids, NEW failure,
           s.epoll = R, s.records = R, DOMAIN s.queues = R, s.bound = b
    PROVE  AllOrNothing(InitNfqueue(s, n + 1, pid, failure), n + 1, R, b)
<1> DEFINE r == n + 1
           in == OpenNfque(s, r, pid, "in")
           out == OpenNfque(in, r, pid, "out")
           o == Opened(s, r, pid, failure)
           i == InitNfqueue(s, r, pid, failure)
<1>a. r \in Nat /\ r = n + 1 /\ "in" \in Dirs /\ "out" \in Dirs /\ "in" # "out"
  BY DEF Dirs
<1>b. s.bound \in [Pids -> [Dirs -> 0..r]]
  BY <1>a
<1> HIDE DEF r
<1>1. Without(s, r, R, b)
  <2>1. R \ ({r} \X Dirs) = R
    BY <1>a
  <2>2. Unbind(b, r) = b
    BY <1>a DEF Unbind
  <2> QED
    BY <2>1, <2>2 DEF Without
<1>2. ASSUME s.bound[pid]["in"] = None
      PROVE  Opens(s, in, r, pid, "in") /\ Without(in, r, R, b)
  BY <1>a, <1>b, <1>1, <1>2, OpenKeeps, Zenon
<1> HIDE DEF in
<1>3. ASSUME s.bound[pid]["in"] = None, s.bound[pid]["out"] = None
      PROVE  Opens(in, out, r, pid, "out") /\ Without(out, r, R, b)
  <2>1. in.bound \in [Pids -> [Dirs -> 0..r]] /\ in.bound[pid]["out"] = None
    BY <1>2, <1>3, <1>a DEF Opens
  <2>2. Without(in, r, R, b)
    BY <1>2, <1>3
  <2> QED
    BY <1>a, <2>1, <2>2, OpenKeeps, Zenon
<1> DEFINE added == AddEpollEvent(out, r, failure)
<1>4. Adds(out, added, r, failure)
  BY AddParts
<1> HIDE DEF out, added, o
<1>5. /\ o.ok \in BOOLEAN
      /\ ~o.ok => Without(o.s, r, R, b)
      /\ o.ok => /\ o.s = added /\ failure \notin {"epoll in", "epoll out"}
                 /\ s.bound[pid]["in"] = None /\ s.bound[pid]["out"] = None
  <2>1. CASE failure = "in" \/ s.bound[pid]["in"] # None
    <3>1. o = [ok |-> FALSE, s |-> s]
      BY <2>1, Zenon DEF Opened, o
    <3> QED  BY <3>1, <1>1
  <2>2. CASE ~(failure = "in" \/ s.bound[pid]["in"] # None) /\ (failure = "out" \/ s.bound[pid]["out"] # None)
    <3>1. o = [ok |-> FALSE, s |-> in]
      BY <2>2, Zenon DEF Opened, in, o
    <3> QED  BY <2>2, <3>1, <1>2
  <2>3. CASE /\ ~(failure = "in" \/ s.bound[pid]["in"] # None)
             /\ ~(failure = "out" \/ s.bound[pid]["out"] # None)
             /\ failure = "conntrack"
    <3>1. o = [ok |-> FALSE, s |-> out]
      BY <2>3 DEF Opened, in, out, o
    <3> QED  BY <2>3, <3>1, <1>3
  <2>4. CASE /\ ~(failure = "in" \/ s.bound[pid]["in"] # None)
             /\ ~(failure = "out" \/ s.bound[pid]["out"] # None)
             /\ failure # "conntrack"
    <3>1. o = [ok |-> failure \notin {"epoll in", "epoll out"}, s |-> added]
      BY <2>4 DEF Opened, in, out, added, o
    <3>2. Without(added, r, R, b)
      BY <2>4, <1>3, <1>4, Zenon DEF Without, Adds
    <3> QED  BY <2>4, <3>1, <3>2, Zenon
  <2> QED
    BY <2>1, <2>2, <2>3, <2>4, Zenon
<1> HIDE DEF i
<1>6. ASSUME o.ok PROVE AllOrNothing(i, r, R, b)
  <2>1. i = o
    BY <1>6 DEF InitNfqueue, o, i
  <2>2. {<<r, "in">>, <<r, "out">>} = {r} \X Dirs
    BY DEF Dirs
  <2>3. Opens(s, in, r, pid, "in") /\ Opens(in, out, r, pid, "out") /\ Adds(out, o.s, r, failure)
    BY <1>2, <1>3, <1>4, <1>5, <1>6, Zenon
  <2>4. o.s.epoll = R \cup ({r} \X Dirs) /\ o.s.records = R \cup ({r} \X Dirs)
    <3>1. out.epoll = R /\ out.records = R
      BY <2>3 DEF Opens
    <3> QED
      BY <1>5, <1>6, <2>3, <3>1, Zenon DEF Adds
  <2>5. DOMAIN o.s.queues = R \cup ({r} \X Dirs)
    <3>1. DOMAIN in.queues = R \cup {<<r, "in">>}
      BY <2>3 DEF Opens
    <3>2. DOMAIN out.queues = DOMAIN in.queues \cup {<<r, "out">>} /\ o.s.queues = out.queues
      BY <2>3, Zenon DEF Opens, Adds
    <3> QED
      BY <3>1, <3>2, <2>2
  <2>6. /\ o.s.bound \in [Pids -> [Dirs -> 0..r]]
        /\ \A p \in Pids, d \in Dirs : o.s.bound[p][d] \in {b[p][d], r}
    <3>1. o.s.bound = out.bound
      BY <2>3, Zenon DEF Adds
    <3>2. /\ out.bound \in [Pids -> [Dirs -> 0..r]]
          /\ \A p \in Pids, d \in Dirs : out.bound[p][d] = in.bound[p][d] \/ out.bound[p][d] = r
      BY <2>3 DEF Opens
    <3>3. \A p \in Pids, d \in Dirs : in.bound[p][d] = b[p][d] \/ in.bound[p][d] = r
      BY <2>3 DEF Opens
    <3>4. \A p \in Pids, d \in Dirs : out.bound[p][d] \in {b[p][d], r}
      BY <3>2, <3>3
    <3> QED
      BY <3>1, <3>2, <3>4
  <2> QED
    BY <1>5, <1>6, <2>1, <2>4, <2>5, <2>6, Zenon DEF AllOrNothing
<1>7. ASSUME ~o.ok PROVE AllOrNothing(i, r, R, b)
  <2>1. i = [ok |-> FALSE, s |-> FreeResource(o.s, r)]
    BY <1>7 DEF InitNfqueue, o, i
  <2>2. LET f == FreeResource(o.s, r)
        IN  f.epoll = R /\ f.records = R /\ DOMAIN f.queues = R /\ f.bound = b
    BY <1>5, <1>7, Zenon DEF FreeResource, Restricted, Without
  <2> QED
    BY <2>1, <2>2 DEF AllOrNothing
<1> QED
  BY <1>6, <1>7, <1>5, Zenon DEF r, i

-----------------------------------------------------------------------------
(* The steps *)

\* A step that leaves the resources alone, and at most takes an event off the batch.
LEMMA QuietStep ==
    ASSUME LifeInv, UNCHANGED <<pods, epoll, records, bound, made, freed>>,
           DOMAIN queues' = DOMAIN queues,
           batch' = batch \/ (batch # << >> /\ batch' = Tail(batch))
    PROVE  LifeInv'
<1>1. /\ batch' \in Seq(Events)
      /\ \A i \in DOMAIN batch' : \E j \in DOMAIN batch : batch'[i] = batch[j]
  <2>1. CASE batch' = batch
    BY <2>1 DEF LifeInv, Numbered
  <2>2. CASE batch # << >> /\ batch' = Tail(batch)
    <3>1. batch \in Seq(Events)
      BY DEF LifeInv, Numbered
    <3>2. \A i \in DOMAIN Tail(batch) : i + 1 \in DOMAIN batch /\ Tail(batch)[i] = batch[i + 1]
      BY <2>2, <3>1
    <3> QED
      BY <2>2, <3>1, <3>2
  <2> QED
    BY <2>1, <2>2
<1>2. Numbered'
  BY <1>1 DEF LifeInv, Numbered
<1>3. RegisteredAreLive'
  BY DEF LifeInv, RegisteredAreLive, Live
<1>4. StaleOnlyWithinBatch'
  BY <1>1 DEF LifeInv, StaleOnlyWithinBatch
<1>5. ListenersAreRead'
  BY DEF LifeInv, ListenersAreRead, Live
<1> QED
  BY <1>2, <1>3, <1>4, <1>5 DEF LifeInv

\* epoll_wait hands out registered records and the dispatch event.
LEMMA WaitStep == LifeInv /\ Wait => LifeInv'
<1> SUFFICES ASSUME LifeInv, Wait PROVE LifeInv'
  OBVIOUS
<1>1. Ready \subseteq records \cup {Dispatch}
  BY DEF LifeInv, RegisteredAreLive, Ready
<1>2. made \in Nat /\ records \subseteq (1..made) \X Dirs
  BY DEF LifeInv, Numbered
<1>3. Ready \subseteq Events
  BY <1>1, <1>2 DEF Dispatch, Events, Dirs, None
<1>4. IsFiniteSet(Ready)
  <2>1. IsFiniteSet(1..made) /\ IsFiniteSet(Dirs) /\ IsFiniteSet({Dispatch})
    <3>1. IsFiniteSet(1..made)
      BY <1>2, FS_Interval
    <3>2. IsFiniteSet({"in"}) /\ IsFiniteSet({Dispatch})
      BY FS_Singleton, Zenon
    <3>3. Dirs = {"in"} \cup {"out"}
      BY DEF Dirs
    <3> QED
      BY <3>1, <3>2, <3>3, FS_AddElement
  <2>2. IsFiniteSet((1..made) \X Dirs)
    BY <2>1, FS_Product, Zenon
  <2>3. IsFiniteSet(((1..made) \X Dirs) \cup {Dispatch})
    BY <2>1, <2>2, FS_Union, Zenon
  <2> QED
    BY <1>1, <1>2, <2>3, FS_Subset
<1>5. Cardinality(Ready) \in Nat
  BY <1>4, FS_CardinalityType
<1>6. batch' \in [1..Cardinality(Ready) -> Ready]
  BY DEF Wait, Bijection, Injection
<1>7. batch' \in Seq(Events)
  BY <1>3, <1>5, <1>6
<1>8. \A i \in DOMAIN batch' : batch'[i] \in records \cup {Dispatch}
  BY <1>1, <1>6
<1>9. UNCHANGED <<pods, epoll, records, bound, queues, made>>
  BY DEF Wait, life, counts
<1>10. Numbered'
  BY <1>7, <1>9 DEF LifeInv, Numbered
<1>11. RegisteredAreLive' /\ ListenersAreRead'
  BY <1>9 DEF LifeInv, RegisteredAreLive, ListenersAreRead, Live
<1>12. StaleOnlyWithinBatch'
  BY <1>8, <1>9 DEF StaleOnlyWithinBatch
<1> QED
  BY <1>10, <1>11, <1>12 DEF LifeInv

\* PodUp adds a resource with a new number, or changes none.
LEMMA PodUpStep ==
    ASSUME LifeInv, NEW pid \in Pids, NEW pod \in PodIds, PodUp(pid, pod)
    PROVE  LifeInv'
<1>1. PICK f \in Failures :
        /\ CASE f.ns # "" -> UNCHANGED <<life, tables, clean, made>>
             [] f.ns = "" /\ pods[pod] # None ->
                  WriteRules(pid, f.table) /\ UNCHANGED <<life, made>>
             [] f.ns = "" /\ pods[pod] = None ->
                  /\ SetLife(InitNfqueue(Life, made + 1, pid, f.init).s)
                  /\ IF InitNfqueue(Life, made + 1, pid, f.init).ok
                     THEN /\ pods' = [pods EXCEPT ![pod] = made + 1]
                          /\ made' = made + 1
                          /\ WriteRules(pid, f.table)
                     ELSE UNCHANGED <<pods, made, tables, clean>>
        /\ UNCHANGED <<batch, freed>>
  BY Zenon DEF PodUp
<1> DEFINE i == InitNfqueue(Life, made + 1, pid, f.init)
           r == made + 1
<1>2. CASE f.ns # "" \/ pods[pod] # None
  <2>1. UNCHANGED <<life, made, batch, freed>>
    BY <1>1, <1>2, Zenon
  <2> QED
    BY <2>1, QuietStep DEF life
<1>3. CASE f.ns = "" /\ pods[pod] = None
  <2>1. /\ SetLife(i.s) /\ UNCHANGED <<batch, freed>>
        /\ i.ok => pods' = [pods EXCEPT ![pod] = r] /\ made' = r
        /\ ~i.ok => UNCHANGED <<pods, made>>
    BY <1>1, <1>3, Zenon
  <2>2. AllOrNothing(i, r, records, bound)
    <3>1. /\ Life.epoll = records /\ Life.records = records
          /\ DOMAIN Life.queues = records /\ Life.bound = bound
      BY DEF Life, LifeInv, RegisteredAreLive, ListenersAreRead
    <3>2. /\ made \in Nat /\ records \in SUBSET ((1..made) \X Dirs)
          /\ bound \in [Pids -> [Dirs -> 0..made]]
      BY DEF LifeInv, Numbered
    <3> QED
      BY <3>1, <3>2, InitKeeps, Zenon
  <2> HIDE DEF i
  <2>3. CASE ~i.ok
    <3>1. /\ UNCHANGED <<pods, epoll, records, bound, made, freed, batch>>
          /\ DOMAIN queues' = DOMAIN queues
      BY <2>1, <2>2, <2>3
         DEF AllOrNothing, SetLife, LifeInv, RegisteredAreLive, ListenersAreRead
    <3> QED
      BY <3>1, QuietStep
  <2>4. CASE i.ok
    <3>1. /\ records' = records \cup ({r} \X Dirs)
          /\ epoll' = records' /\ DOMAIN queues' = records'
          /\ bound' \in [Pids -> [Dirs -> 0..r]]
          /\ \A p \in Pids, d \in Dirs : bound'[p][d] \in {bound[p][d], r}
      BY <2>1, <2>2, <2>4 DEF AllOrNothing, SetLife
    <3>2. pods' = [pods EXCEPT ![pod] = r] /\ made' = r /\ UNCHANGED <<batch, freed>>
      BY <2>1, <2>4
    <3>3. made \in Nat /\ pods \in [PodIds -> 0..made] /\ r \in Nat /\ r # None
      BY DEF LifeInv, Numbered, None
    <3>4. /\ pods' \in [PodIds -> 0..r] /\ pods'[pod] = r
          /\ \A p \in PodIds \ {pod} : pods'[p] = pods[p]
      BY <3>2, <3>3
    <3>5. Numbered'
      <4>1. records' \subseteq (1..r) \X Dirs
        BY <3>1, <3>3 DEF LifeInv, Numbered
      <4>2. \A p, q \in PodIds : pods'[p] = pods'[q] /\ pods'[p] # None => p = q
        BY <3>3, <3>4 DEF LifeInv, Numbered
      <4> QED
        BY <3>1, <3>2, <3>3, <3>4, <4>1, <4>2 DEF LifeInv, Numbered
    <3>6. Held(pods', r) /\ \A x : x # None /\ Live(x) => Held(pods', x)
      BY <1>3, <3>4, Zenon DEF Live, Held
    <3>7. RegisteredAreLive'
      <4>1. \A rec \in records' : Held(pods', rec[1])
        <5> SUFFICES ASSUME NEW rec \in records' PROVE Held(pods', rec[1])
          OBVIOUS
        <5>1. CASE rec \in {r} \X Dirs
          BY <5>1, <3>6
        <5>2. CASE rec \in records
          <6>1. rec[1] # None /\ Live(rec[1])
            BY <5>2 DEF LifeInv, Numbered, RegisteredAreLive, None
          <6> QED
            BY <6>1, <3>6
        <5> QED
          BY <3>1, <5>1, <5>2
      <4>2. \A p \in PodIds : pods'[p] # None => {pods'[p]} \X Dirs \subseteq records'
        <5>1. \A p \in PodIds : pods[p] # None => {pods[p]} \X Dirs \subseteq records
          BY DEF LifeInv, RegisteredAreLive
        <5> QED
          BY <3>1, <3>4, <5>1
      <4> QED
        BY <3>1, <4>1, <4>2 DEF RegisteredAreLive, Live, Held
    <3>8. StaleOnlyWithinBatch'
      BY <3>1, <3>2 DEF LifeInv, StaleOnlyWithinBatch
    <3>9. ListenersAreRead'
      <4> SUFFICES ASSUME NEW p \in Pids, NEW d \in Dirs, bound'[p][d] # None
                   PROVE  Held(pods', bound'[p][d]) /\ <<bound'[p][d], d>> \in epoll'
        BY <3>1 DEF ListenersAreRead, Live, Held
      <4>1. CASE bound'[p][d] = r
        BY <4>1, <3>1, <3>6
      <4>2. CASE bound'[p][d] = bound[p][d]
        <5>1. Live(bound[p][d]) /\ <<bound[p][d], d>> \in records
          BY <4>2 DEF LifeInv, ListenersAreRead, RegisteredAreLive
        <5> QED
          BY <4>2, <5>1, <3>1, <3>6
      <4> QED
        BY <3>1, <4>1, <4>2
    <3> QED
      BY <3>5, <3>7, <3>8, <3>9 DEF LifeInv
  <2> QED
    BY <2>2, <2>3, <2>4 DEF AllOrNothing
<1> QED
  BY <1>2, <1>3, Zenon

\* PodDown takes one resource away, and remembers its records as freed.
LEMMA PodDownStep ==
    ASSUME LifeInv, NEW pod \in PodIds, PodDown(pod)
    PROVE  LifeInv'
<1> DEFINE r == pods[pod]
           own == {r} \X Dirs
<1>1. /\ epoll' = epoll \ own /\ records' = records \ own
      /\ bound' = Unbind(bound, r) /\ DOMAIN queues' = DOMAIN queues \ own
      /\ pods' = [pods EXCEPT ![pod] = None]
      /\ freed' = freed \cup (records \cap own)
      /\ UNCHANGED <<batch, made>>
  <2>1. /\ SetLife(FreeResource(Life, r))
        /\ pods' = [pods EXCEPT ![pod] = None]
        /\ freed' = freed \cup (records \cap own)
        /\ UNCHANGED <<batch, made>>
    BY DEF PodDown, counts
  <2> HIDE DEF r
  <2>2. /\ epoll' = epoll \ own /\ records' = records \ own
        /\ bound' = Unbind(bound, r) /\ DOMAIN queues' = DOMAIN queues \ own
    BY <2>1, Zenon DEF SetLife, FreeResource, Life, Restricted
  <2> QED
    BY <2>1, <2>2
<1>2. /\ made \in Nat /\ pods \in [PodIds -> 0..made] /\ r \in 0..made
      /\ bound \in [Pids -> [Dirs -> 0..made]]
      /\ records \subseteq (1..made) \X Dirs
      /\ \A p, q \in PodIds : pods[p] = pods[q] /\ pods[p] # None => p = q
  BY DEF LifeInv, Numbered
<1>3. /\ pods' \in [PodIds -> 0..made] /\ pods'[pod] = None
      /\ \A p \in PodIds \ {pod} : pods'[p] = pods[p]
  BY <1>1, <1>2 DEF None
<1>4. /\ bound' \in [Pids -> [Dirs -> 0..made]]
      /\ \A p \in Pids, d \in Dirs :
           bound'[p][d] = IF bound[p][d] = r THEN None ELSE bound[p][d]
  BY <1>1, <1>2 DEF Unbind, None
<1> HIDE DEF r
<1>5. \A x : x # None /\ x # r /\ Live(x) => Held(pods', x)
  BY <1>3 DEF Live, Held, r
<1>6. Numbered'
  BY <1>1, <1>2, <1>3, <1>4 DEF LifeInv, Numbered
<1>7. RegisteredAreLive'
  <2>1. \A rec \in records' : Held(pods', rec[1])
    <3> SUFFICES ASSUME NEW rec \in records' PROVE Held(pods', rec[1])
      OBVIOUS
    <3>1. rec \in (1..made) \X Dirs /\ rec \in records /\ rec \notin own
      BY <1>1, <1>2
    <3>2. rec[1] # None /\ rec[1] # r
      BY <3>1 DEF None
    <3>3. Live(rec[1])
      BY <3>1 DEF LifeInv, RegisteredAreLive
    <3> QED
      BY <3>2, <3>3, <1>5
  <2>2. \A p \in PodIds : pods'[p] # None => {pods'[p]} \X Dirs \subseteq records'
    <3> SUFFICES ASSUME NEW p \in PodIds, pods'[p] # None
                 PROVE  {pods'[p]} \X Dirs \subseteq records'
      OBVIOUS
    <3>1. pods'[p] = pods[p] /\ pods[p] # r
      BY <1>2, <1>3 DEF r
    <3>2. {pods[p]} \X Dirs \subseteq records
      BY <3>1 DEF LifeInv, RegisteredAreLive
    <3> QED
      BY <1>1, <3>1, <3>2
  <2> QED
    BY <1>1, <2>1, <2>2 DEF LifeInv, RegisteredAreLive, Live, Held
<1>8. StaleOnlyWithinBatch'
  BY <1>1 DEF LifeInv, StaleOnlyWithinBatch
<1>9. ListenersAreRead'
  <2>1. DOMAIN queues' = records'
    BY <1>1 DEF LifeInv, ListenersAreRead
  <2> SUFFICES ASSUME NEW p \in Pids, NEW d \in Dirs, bound'[p][d] # None
               PROVE  Held(pods', bound'[p][d]) /\ <<bound'[p][d], d>> \in epoll'
    BY <2>1 DEF ListenersAreRead, Live, Held
  <2>2. bound'[p][d] = bound[p][d] /\ bound[p][d] # r /\ bound[p][d] # None
    BY <1>4
  <2>3. Live(bound[p][d]) /\ <<bound[p][d], d>> \in epoll
    BY <2>2 DEF LifeInv, ListenersAreRead
  <2> QED
    BY <1>1, <1>5, <2>2, <2>3, Zenon
<1> QED
  BY <1>6, <1>7, <1>8, <1>9 DEF LifeInv

\* A packet that arrives changes what is in a queue, never which queues there are.
LEMMA ArriveStep ==
    ASSUME LifeInv, NEW p \in Packets, NEW pid \in Pids, NEW d \in Dirs, Arrive(p, pid, d)
    PROVE  LifeInv'
<1>1. UNCHANGED <<pods, epoll, records, bound, made, freed, batch>>
  BY DEF Arrive, counts
<1>2. DOMAIN queues' = DOMAIN queues
  BY DEF Arrive
<1> QED
  BY <1>1, <1>2, QuietStep

\* Neither does reading and answering them.
LEMMA RcvStep == LifeInv /\ RcvEvent => LifeInv'
<1> SUFFICES ASSUME LifeInv, RcvEvent PROVE LifeInv'
  OBVIOUS
<1>1. /\ UNCHANGED <<pods, epoll, records, bound, made, freed>>
      /\ batch # << >> /\ batch' = Tail(batch)
  BY DEF RcvEvent
<1>2. PICK n, error, ends : NfqueueRcvData(Head(batch), n, error, ends)
  BY Zenon DEF RcvEvent
<1>3. DOMAIN queues' = DOMAIN queues
  BY <1>2 DEF NfqueueRcvData
<1> QED
  BY <1>1, <1>3, QuietStep

\* The bookkeeping is an invariant.
THEOREM Bookkeeping == Spec => []LifeInv
<1>1. Init => LifeInv
  <2> SUFFICES ASSUME Init PROVE LifeInv
    OBVIOUS
  <2>1. Numbered
    BY DEF Init, Numbered, None
  <2>2. RegisteredAreLive
    BY DEF Init, RegisteredAreLive
  <2>3. StaleOnlyWithinBatch
    BY DEF Init, StaleOnlyWithinBatch
  <2>4. ListenersAreRead
    BY DEF Init, ListenersAreRead
  <2> QED
    BY <2>1, <2>2, <2>3, <2>4 DEF LifeInv
<1>2. LifeInv /\ [Next]_vars => LifeInv'
  <2> SUFFICES ASSUME LifeInv, [Next]_vars PROVE LifeInv'
    OBVIOUS
  <2>1. ASSUME NEW r \in Requests, Push(r) PROVE LifeInv'
    BY <2>1, QuietStep DEF Push, life
  <2>2. ASSUME NEW p \in Packets, NEW pid \in Pids, NEW d \in Dirs, Arrive(p, pid, d) PROVE LifeInv'
    BY <2>2, ArriveStep
  <2>3. CASE Wait
    BY <2>3, WaitStep
  <2>4. CASE DrainAll
    BY <2>4, QuietStep DEF DrainAll, life, counts
  <2>5. CASE RcvEvent
    BY <2>5, RcvStep
  <2>6. CASE StaleEvent
    BY <2>6, QuietStep DEF StaleEvent, life, counts
  <2>7. ASSUME NEW pid \in Pids, NEW pod \in PodIds, PodUp(pid, pod) PROVE LifeInv'
    BY <2>7, PodUpStep
  <2>8. ASSUME NEW pod \in PodIds, PodDown(pod) PROVE LifeInv'
    BY <2>8, PodDownStep
  <2>9. CASE UNCHANGED vars
    BY <2>9, QuietStep DEF vars, life, counts
  <2> QED
    BY <2>1, <2>2, <2>3, <2>4, <2>5, <2>6, <2>7, <2>8, <2>9 DEF Next
<1> QED
  BY <1>1, <1>2, PTL DEF Spec

(***************************************************************************)
(* For any pods, namespaces, faults and bounds: epoll knows exactly the    *)
(* records of the pods that are up, however far an InitNfqueue got before  *)
(* it failed; the loop over events[] meets a deleted record only when a    *)
(* PodDown ran earlier in the same round; and no call sequence leaves a    *)
(* listener on a queue number that no pod's record reads.                  *)
(***************************************************************************)
THEOREM ResourcesSound == Spec => []ResourcesAreSound
<1>1. LifeInv => ResourcesAreSound
  BY DEF LifeInv, ResourcesAreSound
<1> QED
  BY <1>1, Bookkeeping, PTL

-----------------------------------------------------------------------------
(* The mangle tables *)

RulesInv ==
    /\ DOMAIN tables = Pids /\ clean \subseteq Pids
    /\ \A pid \in Pids : TableInv(tables[pid])
    /\ \A pid \in clean : \A d \in Directions : Complete(tables[pid], d)

\* Only write_iptable_rule changes a table, with none or one command failing.
LEMMA WriteStep ==
    ASSUME RulesInv, NEW pid \in Pids, NEW failed, AtMostOne(failed), WriteRules(pid, failed)
    PROVE  RulesInv'
<1> DEFINE new == write_iptable_rule(tables[pid], failed)
<1>1. /\ TableInv(new)
      /\ failed = {} => \A d \in Directions : Complete(new, d)
  BY WriteKeeps DEF RulesInv
<1> HIDE DEF new
<1>2. /\ tables' = [tables EXCEPT ![pid] = new]
      /\ clean' = IF failed = {} THEN clean \cup {pid} ELSE clean \ {pid}
  BY DEF WriteRules, new
<1>3. /\ DOMAIN tables' = Pids /\ tables'[pid] = new
      /\ \A p \in Pids \ {pid} : tables'[p] = tables[p]
  BY <1>2 DEF RulesInv
<1>4. clean' \subseteq Pids /\ \A p \in clean' : p = pid \/ p \in clean
  BY <1>2 DEF RulesInv
<1>5. pid \in clean' => failed = {}
  BY <1>2
<1>6. \A p \in Pids : TableInv(tables'[p])
  BY <1>1, <1>3 DEF RulesInv
<1>7. \A p \in clean' : \A d \in Directions : Complete(tables'[p], d)
  BY <1>1, <1>3, <1>4, <1>5 DEF RulesInv
<1> QED
  BY <1>3, <1>4, <1>6, <1>7 DEF RulesInv

\* The failures of a request name none or one command of write_iptable_rule.
LEMMA OneCommand == \A f \in Failures : AtMostOne(f.table)
<1> SUFFICES ASSUME NEW f \in Failures PROVE AtMostOne(f.table)
  OBVIOUS
<1> DEFINE whole(n, i) == [ns |-> n, init |-> i, table |-> {}]
           one(c) == [ns |-> "", init |-> "", table |-> {c}]
<1>1. \/ f = whole("", "")
      \/ \E n \in {"open", "setns"} : f = whole(n, "")
      \/ \E i \in InitFailures : f = whole("", i)
      \/ \E c \in Commands : f = one(c)
  BY Zenon DEF Failures
<1>2. \A n, i : whole(n, i).table = {}
  OBVIOUS
<1>3. \A c : one(c).table = {c}
  OBVIOUS
<1> HIDE DEF whole, one
<1> QED
  BY <1>1, <1>2, <1>3, Zenon DEF AtMostOne

LEMMA RulesStep == RulesInv /\ [Next]_vars => RulesInv'
<1> SUFFICES ASSUME RulesInv, [Next]_vars PROVE RulesInv'
  OBVIOUS
<1>1. ASSUME UNCHANGED <<tables, clean>> PROVE RulesInv'
  BY <1>1 DEF RulesInv
<1>2. ASSUME NEW pid \in Pids, NEW pod \in PodIds, PodUp(pid, pod) PROVE RulesInv'
  <2>1. PICK f \in Failures :
          CASE f.ns # "" -> UNCHANGED <<life, tables, clean, made>>
            [] f.ns = "" /\ pods[pod] # None ->
                 WriteRules(pid, f.table) /\ UNCHANGED <<life, made>>
            [] f.ns = "" /\ pods[pod] = None ->
                 /\ SetLife(InitNfqueue(Life, made + 1, pid, f.init).s)
                 /\ IF InitNfqueue(Life, made + 1, pid, f.init).ok
                    THEN /\ pods' = [pods EXCEPT ![pod] = made + 1]
                         /\ made' = made + 1
                         /\ WriteRules(pid, f.table)
                    ELSE UNCHANGED <<pods, made, tables, clean>>
    BY <1>2, Zenon DEF PodUp
  <2>2. UNCHANGED <<tables, clean>> \/ WriteRules(pid, f.table)
    BY <2>1, Zenon
  <2> QED
    BY <2>2, <1>1, OneCommand, WriteStep
<1>3. CASE UNCHANGED rules
  BY <1>1, <1>3 DEF rules
<1>4. (\E pid \in Pids, pod \in PodIds : PodUp(pid, pod)) \/ UNCHANGED rules
  <2>1. \A r \in Requests : Push(r) => UNCHANGED rules
    BY DEF Push
  <2>2. \A p \in Packets, pid \in Pids, d \in Dirs : Arrive(p, pid, d) => UNCHANGED rules
    BY DEF Arrive
  <2>3. Wait \/ DrainAll \/ RcvEvent \/ StaleEvent => UNCHANGED rules
    BY Zenon DEF Wait, DrainAll, RcvEvent, StaleEvent
  <2>4. \A pod \in PodIds : PodDown(pod) => UNCHANGED rules
    BY Zenon DEF PodDown
  <2>5. UNCHANGED vars => UNCHANGED rules
    BY DEF vars
  <2> QED
    BY <2>1, <2>2, <2>3, <2>4, <2>5 DEF Next
<1> QED
  BY <1>2, <1>3, <1>4

(***************************************************************************)
(* For any sequence of requests, each of which may meet one failing        *)
(* iptables command: whenever the last write_iptable_rule of a namespace   *)
(* met none, both directions are filtered.  TLC checks one fault; here     *)
(* every call may meet one.                                                *)
(***************************************************************************)
THEOREM WriteFilters == Spec => []CompleteWriteFilters
<1>1. Init => RulesInv
  <2> SUFFICES ASSUME Init PROVE RulesInv
    OBVIOUS
  <2>1. Table(EmptyTable)
    <3>1. DOMAIN EmptyTable = Builtin /\ EmptyTable \in [Builtin -> Seq(Rules)]
      BY DEF EmptyTable
    <3> QED
      BY <3>1 DEF Table
  <2>2. "out" \in Directions /\ DOMAIN EmptyTable = Builtin
    BY DEF Directions, EmptyTable
  <2>3. Zero("out") \notin DOMAIN EmptyTable
    BY <2>2, Chains
  <2>4. TableInv(EmptyTable)
    BY <2>1, <2>3 DEF TableInv
  <2> QED
    BY <2>4 DEF Init, RulesInv
<1>2. RulesInv => CompleteWriteFilters
  <2> SUFFICES ASSUME RulesInv, NEW pid \in clean, NEW d \in Dirs
               PROVE  /\ Traverse(tables[pid], d, 0) = "queue"
                      /\ Traverse(tables[pid], d, 1) = "accept"
                      /\ \E i \in DOMAIN tables[pid][SaveHook(d)] : tables[pid][SaveHook(d)][i] = Save
    BY DEF CompleteWriteFilters
  <2>1. d \in Directions
    BY DEF Dirs, Directions
  <2>2. Table(tables[pid]) /\ Complete(tables[pid], d)
    BY <2>1 DEF RulesInv, TableInv
  <2> QED
    BY <2>1, <2>2, CompleteFilters DEF Complete
<1> QED
  BY <1>1, <1>2, RulesStep, PTL DEF Spec

-----------------------------------------------------------------------------
(* The queues *)

QueuesInv == \A rec \in DOMAIN queues : QueueOk(queues[rec], Packets, hit)

\* What a call may receive is in the socket, and fits a batch.
LEMMA WholeFits ==
    ASSUME NEW q, Len(q.socket) \in Nat
    PROVE  /\ Whole(q) \in 0..Whole(q)
           /\ \A n \in 0..Whole(q) : n \in 0..Len(q.socket) /\ n <= MAX_BATCH
<1> DEFINE len == Len(q.socket)
<1>1. len \in Nat /\ MAX_BATCH \in Nat
  BY BatchAssumption
<1>2. Whole(q) = IF len < MAX_BATCH THEN len ELSE MAX_BATCH
  BY DEF Whole
<1> HIDE DEF len
<1>3. /\ Whole(q) \in 0..Whole(q)
      /\ \A n \in 0..Whole(q) : n \in 0..len /\ n <= MAX_BATCH
  BY <1>1, <1>2
<1> QED
  BY <1>3 DEF len

LEMMA PrefixFits ==
    ASSUME NEW S, NEW s \in Seq(S), NEW n \in 0..Len(s), n <= MAX_BATCH,
           NEW U \in SUBSET Range(SubSeq(s, 1, n))
    PROVE  Cardinality(U) <= MAX_BATCH
<1>1. Cardinality(U) \in Nat /\ Cardinality(U) <= n
  BY PrefixRange
<1>2. n \in Nat /\ MAX_BATCH \in Nat
  BY BatchAssumption
<1> QED
  BY <1>1, <1>2

LEMMA RangeType == ASSUME NEW S, NEW s \in Seq(S) PROVE Range(s) \in SUBSET S
BY DEF Range

LEMMA EndsDomain == ASSUME NEW n, NEW ends \in Ends(n) PROVE DOMAIN ends = 1..n
BY DEF Ends

\* recv_batch, whole or cut short, and the verdicts that follow.  What it
\* drops from pending met a fault before; what it received is answered, or
\* still pending, or met one now.
LEMMA RcvKeeps ==
    ASSUME NEW q, NEW H, QueueOk(q, Packets, H), NEW n \in 0..Whole(q), NEW error \in BOOLEAN,
           NEW ends, error \/ DOMAIN ends = 1..n,
           NEW bad, bad = IF error THEN Range(SubSeq(q.socket, 1, n))
                          ELSE {drain_batch(q, n, error).batch[i] : i \in {j \in DOMAIN ends : ends[j] # "sent"}}
    PROVE  QueueOk(IF error THEN drain_batch(q, n, error).queue
                   ELSE Answered(drain_batch(q, n, error).queue, drain_batch(q, n, error).batch, ends),
                   Packets, H \cup bad)
<1> DEFINE first == SubSeq(q.socket, 1, n)
           rest == SubSeq(q.socket, n + 1, Len(q.socket))
           given == {i \in DOMAIN first : ends[i] # "threw"}
           done == {first[i] : i \in given}
           sent == {first[i] : i \in {j \in given : ends[j] = "sent"}}
           got == [held |-> q.held, socket |-> rest, pending |-> Range(first)]
           answered == [held |-> q.held \ (sent \cap Range(first)), socket |-> rest, pending |-> Range(first) \ done]
<1>1. /\ q \in [held : SUBSET Packets, socket : Seq(Packets), pending : SUBSET Packets]
      /\ q.held \ (Range(q.socket) \cup q.pending) \subseteq H
      /\ q.pending \subseteq H
  BY DEF QueueOk, Stranded
<1>2. q.socket \in Seq(Packets) /\ n \in 0..Len(q.socket) /\ n <= MAX_BATCH /\ MAX_BATCH \in Nat
  <2>1. q.socket \in Seq(Packets) /\ MAX_BATCH \in Nat
    BY <1>1, BatchAssumption
  <2>2. Len(q.socket) \in Nat
    BY ONLY <2>1
  <2> QED
    BY <2>1, <2>2, WholeFits
<1>3. /\ first \in Seq(Packets) /\ rest \in Seq(Packets) /\ DOMAIN first = 1..n
      /\ Range(q.socket) = Range(first) \cup Range(rest)
  BY <1>2, SplitRange
<1>4. drain_batch(q, n, error).queue = got
  BY <1>1, Zenon DEF drain_batch, Receive
<1>5. \A P \in SUBSET Range(first) : Cardinality(P) <= MAX_BATCH
  BY <1>2, PrefixFits
<1>6. Range(first) \in SUBSET Packets
  BY <1>3, RangeType, Zenon
<1> HIDE DEF rest
<1>7. CASE error
  <2>1. bad = Range(first)
    BY <1>7
  <2> HIDE DEF first
  <2>2. got \in [held : SUBSET Packets, socket : Seq(Packets), pending : SUBSET Packets]
    BY <1>1, <1>3, <1>6
  <2>3. Stranded(got) \subseteq H \cup bad
    BY <1>1, <1>3, <2>1 DEF Stranded
  <2>4. QueueOk(got, Packets, H \cup bad)
    BY <1>5, <2>1, <2>2, <2>3, Zenon DEF QueueOk
  <2> QED
    BY <1>7, <1>4, <2>4, Zenon
<1>8. CASE ~error
  <2>1. drain_batch(q, n, error).batch = first /\ DOMAIN ends = 1..n
    BY <1>8 DEF drain_batch
  <2>2. bad = {first[i] : i \in {j \in 1..n : ends[j] # "sent"}}
    BY <1>8, <2>1
  <2>3. Answered(got, first, ends) = answered
    <3> HIDE DEF first
    <3>1. \A ps, st : verdict_impl(got, ps, st) =
            [held |-> q.held \ (st \cap Range(first)), socket |-> rest, pending |-> Range(first) \ ps]
      BY DEF verdict_impl
    <3>2. Answered(got, first, ends) = verdict_impl(got, done, sent)
      <4> HIDE DEF got
      <4> QED  BY DEF Answered, Verdicts
    <3> QED
      BY <3>1, <3>2, Zenon
  <2> HIDE DEF first
  <2>4. /\ Range(first) \ done \subseteq bad
        /\ \A p \in Range(first) : p \in sent \/ p \in bad
    BY <1>3, <2>2, Zenon DEF Range
  <2>5. answered \in [held : SUBSET Packets, socket : Seq(Packets), pending : SUBSET Packets]
    BY <1>1, <1>3, <1>6
  <2>6. Stranded(answered) \subseteq H \cup bad
    <3> HIDE DEF sent, done
    <3> QED
      BY <1>1, <1>3, <2>4 DEF Stranded
  <2>7. QueueOk(answered, Packets, H \cup bad)
    BY <1>5, <2>4, <2>5, <2>6, Zenon DEF QueueOk
  <2> QED
    BY <1>8, <1>4, <2>1, <2>3, <2>7, Zenon
<1> QED
  BY <1>7, <1>8

\* Every queue of t is one of s, or fresh.
FreshOrKept(s, t) ==
    \A rec \in DOMAIN t.queues :
        \/ t.queues[rec] = OpenQueue
        \/ rec \in DOMAIN s.queues /\ t.queues[rec] = s.queues[rec]

\* InitNfqueue, however far it gets, changes no message of an open queue.
LEMMA InitQueues ==
    ASSUME NEW s, NEW r, NEW pid, NEW failure
    PROVE  FreshOrKept(s, InitNfqueue(s, r, pid, failure).s)
<1> DEFINE in == OpenNfque(s, r, pid, "in")
           out == OpenNfque(in, r, pid, "out")
           added == AddEpollEvent(out, r, failure)
           o == Opened(s, r, pid, failure)
<1>1. ASSUME NEW t, NEW d PROVE FreshOrKept(t, OpenNfque(t, r, pid, d))
  <2> DEFINE n == OpenNfque(t, r, pid, d)
  <2>1. /\ DOMAIN n.queues = DOMAIN t.queues \cup {<<r, d>>}
        /\ \A rec \in DOMAIN n.queues :
             n.queues[rec] = IF rec = <<r, d>> THEN OpenQueue ELSE t.queues[rec]
    BY DEF OpenNfque
  <2> HIDE DEF n
  <2>2. FreshOrKept(t, n)
    BY <2>1 DEF FreshOrKept
  <2> QED
    BY <2>2 DEF n
<1>2. FreshOrKept(s, in) /\ FreshOrKept(in, out)
  BY <1>1
<1>3. added.queues = out.queues
  BY DEF AddEpollEvent
<1>4. o.s \in {s, in, out, added}
  BY DEF Opened
<1>5. \A t : FreshOrKept(t, FreeResource(t, r))
  BY DEF FreshOrKept, FreeResource, Restricted
<1> HIDE DEF in, out, added, o
<1>6. FreshOrKept(s, s) /\ FreshOrKept(s, out)
  BY <1>2 DEF FreshOrKept
<1>7. FreshOrKept(s, o.s)
  BY <1>2, <1>3, <1>4, <1>6 DEF FreshOrKept
<1>8. FreshOrKept(s, FreeResource(o.s, r))
  <2>1. FreshOrKept(o.s, FreeResource(o.s, r))
    BY <1>5
  <2> QED
    BY <1>7, <2>1 DEF FreshOrKept
<1>9. InitNfqueue(s, r, pid, failure).s \in {o.s, FreeResource(o.s, r)}
  BY DEF InitNfqueue, o
<1> QED
  BY <1>7, <1>8, <1>9

\* A step that opens and closes queues but touches no message.
LEMMA KeptStep ==
    ASSUME QueuesInv, hit' = hit,
           \A rec \in DOMAIN queues' :
              queues'[rec] = OpenQueue \/ (rec \in DOMAIN queues /\ queues'[rec] = queues[rec])
    PROVE  QueuesInv'
  BY OpenOk DEF QueuesInv

LEMMA ArriveQueues ==
    ASSUME QueuesInv, NEW p \in Packets, NEW pid \in Pids, NEW d \in Dirs, Arrive(p, pid, d)
    PROVE  QueuesInv'
<1>1. hit' = hit
  BY DEF Arrive
<1>2. CASE queues' = queues
  BY <1>1, <1>2 DEF QueuesInv
<1>3. ASSUME NEW rec, queues' = [queues EXCEPT ![rec] = Enqueue(@, p)]
      PROVE  QueuesInv'
  <2>1. /\ DOMAIN queues' = DOMAIN queues
        /\ \A x \in DOMAIN queues : queues'[x] = IF x = rec THEN Enqueue(queues[x], p) ELSE queues[x]
    BY <1>3
  <2> QED
    BY <1>1, <2>1, EnqueueOk DEF QueuesInv
<1>4. queues' = queues \/ \E rec : queues' = [queues EXCEPT ![rec] = Enqueue(@, p)]
  BY Zenon DEF Arrive
<1> QED
  BY <1>2, <1>3, <1>4

LEMMA RcvQueues ==
    ASSUME QueuesInv, DOMAIN queues = records, RcvEvent
    PROVE  QueuesInv'
<1> DEFINE rec == Head(batch)
           q == queues[rec]
<1>1. rec \in DOMAIN queues
  BY DEF RcvEvent
<1>2. QueueOk(q, Packets, hit)
  BY <1>1 DEF QueuesInv
<1>3. Whole(q) \in 0..Whole(q)
  <2>1. Len(q.socket) \in Nat
    BY <1>2 DEF QueueOk
  <2> QED
    BY <2>1, WholeFits
<1>3a. PICK n \in 0..Whole(q), error \in BOOLEAN :
         \E ends : NfqueueRcvData(rec, n, error, ends) /\ (error \/ DOMAIN ends = 1..n)
  <2>1. CASE \E ends \in Ends(Whole(q)) : NfqueueRcvData(rec, Whole(q), FALSE, ends)
    <3>1. PICK ends \in Ends(Whole(q)) : NfqueueRcvData(rec, Whole(q), FALSE, ends)
      BY <2>1, Zenon
    <3>2. DOMAIN ends = 1..Whole(q)
      BY EndsDomain
    <3> QED
      BY <1>3, <3>1, <3>2, Zenon
  <2>2. CASE \E n \in 0..Whole(q) : NfqueueRcvData(rec, n, TRUE, << >>)
    BY <2>2, Zenon
  <2> QED
    BY <2>1, <2>2, Zenon DEF RcvEvent
<1>4. PICK ends : NfqueueRcvData(rec, n, error, ends) /\ (error \/ DOMAIN ends = 1..n)
  BY <1>3a
<1> DEFINE b == drain_batch(q, n, error)
           q2 == IF error THEN b.queue ELSE Answered(b.queue, b.batch, ends)
           bad == IF error THEN Range(SubSeq(q.socket, 1, n))
                  ELSE {b.batch[i] : i \in {j \in DOMAIN ends : ends[j] # "sent"}}
<1>5. queues' = [queues EXCEPT ![rec] = q2] /\ hit' = hit \cup bad
  BY <1>4, Zenon DEF NfqueueRcvData
<1>6. QueueOk(q2, Packets, hit \cup bad)
  BY <1>2, <1>4, RcvKeeps, Zenon
<1> HIDE DEF q2, bad
<1>7. /\ DOMAIN queues' = DOMAIN queues
      /\ \A x \in DOMAIN queues : queues'[x] = IF x = rec THEN q2 ELSE queues[x]
  BY <1>1, <1>5
<1>8. \A x \in DOMAIN queues : QueueOk(queues[x], Packets, hit \cup bad)
  BY MoreHits DEF QueuesInv
<1> QED
  BY <1>5, <1>6, <1>7, <1>8, Zenon DEF QueuesInv

\* Every step keeps every queue in order.
LEMMA QueuesStep == LifeInv /\ QueuesInv /\ [Next]_vars => QueuesInv'
<1> SUFFICES ASSUME LifeInv, QueuesInv, [Next]_vars PROVE QueuesInv'
  OBVIOUS
<1>1. ASSUME UNCHANGED <<queues, hit>> PROVE QueuesInv'
  BY <1>1 DEF QueuesInv
<1>2. ASSUME NEW pid \in Pids, NEW pod \in PodIds, PodUp(pid, pod) PROVE QueuesInv'
  <2>1. hit' = hit
    BY <1>2, Zenon DEF PodUp
  <2>2. \/ UNCHANGED life
        \/ \E f : SetLife(InitNfqueue(Life, made + 1, pid, f).s)
    BY <1>2, Zenon DEF PodUp
  <2>3. CASE UNCHANGED life
    BY <1>1, <2>1, <2>3 DEF life
  <2>4. ASSUME NEW f, SetLife(InitNfqueue(Life, made + 1, pid, f).s) PROVE QueuesInv'
    <3> DEFINE t == InitNfqueue(Life, made + 1, pid, f).s
    <3>1. FreshOrKept(Life, t)
      BY InitQueues
    <3>2. queues' = t.queues /\ Life.queues = queues
      BY <2>4 DEF SetLife, Life
    <3> HIDE DEF t
    <3> QED
      BY <2>1, <3>1, <3>2, KeptStep DEF FreshOrKept
  <2> QED
    BY <2>2, <2>3, <2>4
<1>3. ASSUME NEW pod \in PodIds, PodDown(pod) PROVE QueuesInv'
  <2>1. hit' = hit /\ queues' = Restricted(queues, DOMAIN queues \ ({pods[pod]} \X Dirs))
    BY <1>3, Zenon DEF PodDown, SetLife, FreeResource, Life
  <2>2. \A rec \in DOMAIN queues' : rec \in DOMAIN queues /\ queues'[rec] = queues[rec]
    BY <2>1 DEF Restricted
  <2> QED
    BY <2>1, <2>2, KeptStep
<1>4. ASSUME NEW p \in Packets, NEW pid \in Pids, NEW d \in Dirs, Arrive(p, pid, d) PROVE QueuesInv'
  BY <1>4, ArriveQueues
<1>5. CASE RcvEvent
  <2>1. DOMAIN queues = records
    BY DEF LifeInv, ListenersAreRead
  <2> QED
    BY <1>5, <2>1, RcvQueues
<1>6. ASSUME NEW r \in Requests, Push(r) PROVE QueuesInv'
  BY <1>1, <1>6 DEF Push, life
<1>7. CASE Wait \/ DrainAll \/ StaleEvent
  BY <1>1, <1>7 DEF Wait, DrainAll, StaleEvent, life
<1>8. CASE UNCHANGED vars
  BY <1>1, <1>8 DEF vars, life
<1> QED
  BY <1>2, <1>3, <1>4, <1>5, <1>6, <1>7, <1>8 DEF Next

(***************************************************************************)
(* For any number of packets and of faults and any MAX_BATCH: recv_batch   *)
(* clears what an earlier call left in pending, and the packets of those   *)
(* messages are lost to the process; all of them had met a fault, and what *)
(* a failed call leaves is at most one batch.                              *)
(***************************************************************************)
THEOREM FaultsStrand == Spec => []OnlyFaultsStrand
<1>1. Init => QueuesInv
  BY DEF Init, QueuesInv
<1>2. QueuesInv => OnlyFaultsStrand
  BY DEF QueuesInv, QueueOk, OnlyFaultsStrand
<1> QED
  BY <1>1, <1>2, QueuesStep, Bookkeeping, PTL DEF Spec
=============================================================================
