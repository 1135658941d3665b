------------------------ MODULE EventProcessing_proofs ------------------------
(***************************************************************************)
(* Proofs about the event loop, for every network, configuration and       *)
(* number of misordered dequeues: its variables keep their types, and the  *)
(* books of the servers agree with the departures in the event queue.      *)
(* What a job has behind it is a walk of the network, a job is in the      *)
(* queue once until it leaves, it leaves where it came in, and one         *)
(* external arrival is ahead of every vertex.  However the queue orders    *)
(* the entries, the busy time of a server is summed up exactly; when it    *)
(* returns them in order, no entry is scheduled in the past, process()     *)
(* does not fail, and every vertex serves first come, first served.        *)
(***************************************************************************)
EXTENDS EventProcessing, FiniteSetTheorems, SequenceTheorems, TLAPS

\* What TypeOK does not say of the entries that are queued.
JobOK(e) ==
    /\ e.type \in {"DEPARTURE", "ARRIVAL", "ACK"} =>
         e.history # <<>> /\ e.history[1].node = EXTERNAL_EVENT
    /\ e.type = "LAST_ARRIVAL" => e.history = <<>> /\ e.origin = EXTERNAL_EVENT
    /\ e.type = "LEAVE" => e.origin \in Vertices

\* Entry::uid is ahead of every entry: a copy is never an entry of the queue.
Numbered == IsFiniteSet(queue) /\ \A e \in queue : e.gid <= uid

-----------------------------------------------------------------------------
(* Facts about counting.                                                   *)

\* The image of a finite set under an injective function has as many elements.
LEMMA ImageCardinality ==
    ASSUME NEW S, IsFiniteSet(S), NEW T, NEW f \in [S -> T],
           \A s, t \in S : s # t => f[s] # f[t],
           \A t \in T : \E s \in S : f[s] = t
    PROVE  IsFiniteSet(T) /\ Cardinality(T) = Cardinality(S)
<1>1. f \in Surjection(S, T)
  BY DEF Surjection
<1>2. f \in Injection(S, T)
  BY DEF Injection, IsInjective
<1> QED
  BY <1>1, <1>2, FS_Surjection

\* Place numbers the elements of a finite set from 1.
LEMMA PlaceInRange ==
    ASSUME NEW S, S \subseteq Nat, IsFiniteSet(S), NEW v \in S
    PROVE  Place(v, S) \in 1 .. Cardinality(S)
<1> DEFINE P == {u \in S : u <= v}
<1>1. P \in SUBSET S /\ v \in P
  OBVIOUS
<1>2. IsFiniteSet(P) /\ Cardinality(P) <= Cardinality(S)
  BY <1>1, FS_Subset
<1>3. Cardinality(P) \in Nat /\ Cardinality(S) \in Nat
  BY <1>2, FS_CardinalityType
<1>4. Cardinality(P) # 0
  BY <1>1, <1>2, FS_EmptySet
<1> QED
  BY <1>2, <1>3, <1>4 DEF Place

-----------------------------------------------------------------------------
(* Facts about one iteration of the loop.                                  *)

\* The entries an iteration pushes are new, and numbered.
LEMMA NumberedStep ==
    ASSUME TypeOK, Numbered, NEW e \in queue, NEW new, IsFiniteSet(new),
           \A n \in new : n.gid \in uid + 1 .. uid + Cardinality(new),
           Iterate(e, new)
    PROVE  Numbered' /\ uid' \in Nat /\ \A n \in new : n \notin queue
<1>1. Cardinality(new) \in Nat /\ uid \in Nat
  BY FS_CardinalityType DEF TypeOK
<1>2. IsFiniteSet(queue \ {e})
  BY FS_RemoveElement DEF Numbered
<1>3. IsFiniteSet(queue')
  BY <1>2, FS_Union DEF Iterate
<1>4. \A f \in queue : f.gid \in Nat
  BY DEF TypeOK, EntryRecord
<1>5. \A f \in queue' : f.gid <= uid'
  BY <1>1, <1>4 DEF Iterate, Numbered
<1> QED
  BY <1>1, <1>3, <1>4, <1>5 DEF Iterate, Numbered

\* An iteration that neither takes nor pushes departures at a vertex leaves
\* the departures there alone.
LEMMA SameDepartures ==
    ASSUME NEW e \in queue, NEW new, Iterate(e, new), NEW v,
           e.type # "DEPARTURE" \/ e.destination # v,
           \A n \in new : n.type # "DEPARTURE" \/ n.destination # v
    PROVE  Departures(v)' = Departures(v)
  BY DEF Departures, Iterate

-----------------------------------------------------------------------------
(* Facts about entries.                                                    *)

Typed(e) == e \in EntryRecord /\ JobOK(e)

LEMMA TimeType ==
    ASSUME TypeOK, NEW e \in queue
    PROVE  Time(e) \in Nat /\ Time(e) >= now /\ e.arrival \in Nat
  BY DEF TypeOK, EntryRecord, Time

LEMMA CopyType ==
    ASSUME TypeOK, NEW e \in EntryRecord, NEW k \in Nat, Time(e) \in Nat
    PROVE  /\ Copy(e, k) \in EntryRecord /\ Copy(e, k).gid = uid + k
           /\ Copy(e, k).type = e.type /\ Copy(e, k).history = e.history
           /\ Copy(e, k).destination = e.destination
           /\ Copy(e, k).origin = e.origin
<1> DEFINE g == uid + k
<1>1. g \in Nat
  BY DEF TypeOK
<1>2. Copy(e, k) = [e EXCEPT !.gid = g, !.arrival = Time(e)]
  BY DEF Copy
<1> HIDE DEF g
<1>3. /\ Copy(e, k) \in EntryRecord /\ Copy(e, k).gid = g
      /\ Copy(e, k).type = e.type /\ Copy(e, k).history = e.history
      /\ Copy(e, k).destination = e.destination /\ Copy(e, k).origin = e.origin
  BY <1>1, <1>2 DEF EntryRecord
<1> QED
  BY <1>3 DEF g

LEMMA FreshType ==
    ASSUME TypeOK, NEW k \in Nat, NEW t \in Nat, NEW destination \in Int,
           NEW origin \in Int, NEW type \in EventTypes \ {"DEPARTURE", "ARRIVAL", "ACK", "LEAVE"},
           type = "LAST_ARRIVAL" => origin = EXTERNAL_EVENT
    PROVE  /\ Typed(Fresh(k, t, destination, origin, type))
           /\ Fresh(k, t, destination, origin, type).gid = uid + k
           /\ Fresh(k, t, destination, origin, type).type = type
<1>1. uid + k \in Nat /\ <<>> \in Seq([node : Int, time : Nat])
  BY DEF TypeOK
<1> QED
  BY <1>1 DEF EntryRecord, Fresh, Typed, JobOK

\* A departure: its history starts outside the network.
LEMMA ServedType ==
    ASSUME NEW e \in EntryRecord, JobOK(e), NEW t \in Nat, NEW departure \in Nat,
           e.type \in {"ARRIVAL", "LAST_ARRIVAL"}
    PROVE  LET d == Served(PushHistory(e, t), departure)
           IN  /\ Typed(d) /\ d.gid = e.gid
               /\ d.type = "DEPARTURE" /\ d.destination = e.destination
<1> DEFINE h == [node |-> e.origin, time |-> t]
           d == Served(PushHistory(e, t), departure)
<1>1. h \in [node : Int, time : Nat] /\ e.history \in Seq([node : Int, time : Nat])
  BY DEF EntryRecord
<1>2. /\ Append(e.history, h) \in Seq([node : Int, time : Nat])
      /\ Append(e.history, h) # <<>>
      /\ e.history # <<>> => Append(e.history, h)[1] = e.history[1]
      /\ e.history = <<>> => Append(e.history, h)[1] = h
  BY <1>1
<1>3. d = [e EXCEPT !.history = Append(e.history, h), !.arrival = departure,
                    !.type = "DEPARTURE", !.origin = e.destination]
  BY DEF Served, PushHistory, EntryRecord
<1>4. d \in EntryRecord
  BY <1>2, <1>3 DEF EntryRecord, EventTypes, JobTypes
<1>5. Append(e.history, h)[1].node = EXTERNAL_EVENT
  BY <1>2 DEF JobOK
<1> QED
  BY <1>2, <1>3, <1>4, <1>5 DEF Typed, JobOK, EntryRecord

LEMMA DepartedType ==
    ASSUME NEW e \in EntryRecord, JobOK(e), NEW w \in Int, e.type = "DEPARTURE"
    PROVE  Typed(Departed(e, w)) /\ Departed(e, w).gid = e.gid
           /\ Departed(e, w).type = "ARRIVAL"
  BY DEF EntryRecord, Departed, Typed, JobOK, EventTypes, JobTypes

\* An acknowledgement of a job with a history.
LEMMA AcknowledgedType ==
    ASSUME NEW e \in EntryRecord, NEW v \in Int, NEW w \in Int,
           NEW type \in {"ACK", "ACK_1HOP"},
           type = "ACK" => e.history # <<>> /\ e.history[1].node = EXTERNAL_EVENT
    PROVE  /\ Typed(Acknowledged(e, v, w, type))
           /\ Acknowledged(e, v, w, type).gid = e.gid
           /\ Acknowledged(e, v, w, type).type = type
           /\ Acknowledged(e, v, w, type).destination = w
  BY DEF EntryRecord, Acknowledged, Typed, JobOK, EventTypes, JobTypes

LEMMA LeavingType ==
    ASSUME NEW e \in EntryRecord, e.destination \in Vertices
    PROVE  Typed(Leaving(e)) /\ Leaving(e).gid = e.gid /\ Leaving(e).type = "LEAVE"
<1>1. /\ Leaving(e) \in EntryRecord /\ Leaving(e).gid = e.gid
      /\ Leaving(e).type = "LEAVE" /\ Leaving(e).origin = e.destination
  <2>1. EXTERNAL_EVENT \in Int /\ "LEAVE" \in EventTypes
    BY DEF EXTERNAL_EVENT, EventTypes, JobTypes
  <2> QED
    BY <2>1 DEF EntryRecord, Leaving
<1> QED
  BY <1>1 DEF Typed, JobOK

\* The stack below the top, of a history that starts outside: if the top is a
\* vertex, the rest still starts outside.
LEMMA PopHistoryType ==
    ASSUME NEW e \in EntryRecord, e.history # <<>>,
           e.history[1].node = EXTERNAL_EVENT
    PROVE  /\ PopHistory(e) \in EntryRecord
           /\ Top(e) \in Int
           /\ Top(e) # EXTERNAL_EVENT =>
                /\ PopHistory(e).history # <<>>
                /\ PopHistory(e).history[1].node = EXTERNAL_EVENT
           /\ PopHistory(e).destination = e.destination
           /\ PopHistory(e).type = e.type /\ PopHistory(e).arrival = e.arrival
<1> DEFINE R == [node : Int, time : Nat]
           h == e.history
           n == Len(h)
           p == SubSeq(h, 1, n - 1)
<1>1. h \in Seq(R) /\ n \in Nat /\ n >= 1
  BY DEF EntryRecord
<1>2. h[n] \in R
  <2> HIDE DEF R, h
  <2> QED  BY <1>1, ElementOfSeq DEF n
<1>3. p \in Seq(R) /\ Len(p) = n - 1 /\ (n > 1 => p[1] = h[1])
  <2> DEFINE k == n - 1
  <2>1. \A i \in 1 .. k : h[i] \in R
    <3> HIDE DEF R, h
    <3> QED  BY <1>1, ElementOfSeq DEF n
  <2>2. k \in Int /\ k >= 0
    BY <1>1
  <2> HIDE DEF R, h, n, k
  <2>3. /\ SubSeq(h, 1, k) \in Seq(R)
        /\ Len(SubSeq(h, 1, k)) = IF 1 <= k THEN k - 1 + 1 ELSE 0
        /\ \A i \in 1 .. k - 1 + 1 : SubSeq(h, 1, k)[i] = h[1 + i - 1]
    BY <2>1, <2>2, SubSeqProperties
  <2>4. /\ SubSeq(h, 1, k) \in Seq(R) /\ Len(SubSeq(h, 1, k)) = k
        /\ k > 0 => SubSeq(h, 1, k)[1] = h[1]
    BY <2>2, <2>3
  <2>5. n \in Nat
    BY <1>1 DEF n
  <2> QED  BY <2>4, <2>5 DEF k
<1>4. PopHistory(e) = [e EXCEPT !.history = p]
  BY DEF PopHistory
<1>5. Top(e) # EXTERNAL_EVENT => n > 1
  BY <1>1 DEF Top
<1>6. Top(e) \in Int
  BY <1>2 DEF Top
<1>7. /\ PopHistory(e) \in EntryRecord /\ PopHistory(e).history = p
      /\ PopHistory(e).destination = e.destination
      /\ PopHistory(e).type = e.type /\ PopHistory(e).arrival = e.arrival
  BY <1>3, <1>4 DEF EntryRecord
<1>8. n > 1 => p # <<>> /\ p[1].node = EXTERNAL_EVENT
  <2>1. n \in Nat
    BY <1>1
  <2>2. Len(<<>>) = 0
    OBVIOUS
  <2> HIDE DEF p, n
  <2>3. n > 1 => Len(p) # 0
    BY <2>1, <1>3
  <2>4. n > 1 => p # <<>>
    BY <2>2, <2>3, Zenon
  <2>5. h[1].node = EXTERNAL_EVENT
    OBVIOUS
  <2> QED  BY <2>4, <2>5, <1>3
<1> QED
  BY <1>5, <1>6, <1>7, <1>8

-----------------------------------------------------------------------------
(* What every iteration does to the queue, the clock and the reference     *)
(* values.                                                                 *)

\* The inductive invariant.
IInv == /\ TypeOK
        /\ Numbered
        /\ \A e \in queue : JobOK(e)
        /\ ServerBooks

Pushes(e, new) ==
    /\ Iterate(e, new)
    /\ IsFiniteSet(new)
    /\ \A n \in new : Typed(n) /\ n.gid \in uid + 1 .. uid + Cardinality(new)

\* The part of the invariant that Iterate takes care of.
LoopInv == /\ queue \subseteq EntryRecord /\ Numbered
           /\ \A e \in queue : JobOK(e)
           /\ now \in Nat /\ misorders \in Nat /\ uid \in Nat
           /\ busyTime \in [Vertices -> Nat] /\ queueTime \in [Vertices -> Nat]

LEMMA ElapseType ==
    ASSUME TypeOK, NEW t \in Nat, t >= now, Elapse(t)
    PROVE  /\ busyTime' \in [Vertices -> Nat]
           /\ queueTime' \in [Vertices -> Nat]
<1>1. t - now \in Nat /\ \A v \in Vertices : /\ busyTime[v] \in Nat
                                             /\ queueTime[v] \in Nat
                                             /\ numberInQueue[v] \in Nat
  BY DEF TypeOK
<1>2. \A m, n \in Nat : m * n \in Nat
  OBVIOUS
<1>3. \A v \in Vertices : /\ queueTime[v] + numberInQueue[v] * (t - now) \in Nat
                          /\ busyTime[v] + (IF busy[v] THEN t - now ELSE 0) \in Nat
  <2> TAKE v \in Vertices
  <2>1. numberInQueue[v] * (t - now) \in Nat
    BY <1>1, <1>2
  <2> QED
    BY <1>1, <2>1
<1> QED
  BY <1>3 DEF Elapse

LEMMA PushesLoopInv ==
    ASSUME IInv, NEW e \in queue, NEW new, Pushes(e, new)
    PROVE  LoopInv' /\ (\A n \in new : n \notin queue)
<1>1. Time(e) \in Nat /\ Time(e) >= now
  BY TimeType DEF IInv
<1>2. busyTime' \in [Vertices -> Nat] /\ queueTime' \in [Vertices -> Nat]
  BY <1>1, ElapseType DEF IInv, Pushes, Iterate
<1>3. Numbered' /\ uid' \in Nat /\ \A n \in new : n \notin queue
  BY NumberedStep DEF IInv, Pushes
<1>4. queue' \subseteq EntryRecord /\ \A f \in queue' : JobOK(f)
  BY DEF IInv, TypeOK, Pushes, Iterate, Typed
<1>5. now' \in Nat /\ misorders' \in Nat
  BY <1>1 DEF IInv, TypeOK, Pushes, Iterate
<1> QED
  BY <1>2, <1>3, <1>4, <1>5 DEF LoopInv

\* One entry is pushed.
LEMMA PushesOne ==
    ASSUME IInv, NEW e \in queue, NEW n, Typed(n), n.gid = uid + 1, Iterate(e, {n})
    PROVE  Pushes(e, {n})
<1>1. IsFiniteSet({n}) /\ Cardinality({n}) = 1
  BY FS_Singleton
<1>2. uid \in Nat
  BY DEF IInv, TypeOK
<1> QED
  BY <1>1, <1>2 DEF Pushes

LEMMA PushesNone ==
    ASSUME NEW e, Iterate(e, {})
    PROVE  Pushes(e, {})
  BY FS_EmptySet DEF Pushes

-----------------------------------------------------------------------------
(* The actions that leave the servers alone.                               *)

\* e is consumed, and no departure comes or goes.
Quiet(e) == /\ e.type # "DEPARTURE"
            /\ \E new : Pushes(e, new) /\ \A n \in new : n.type # "DEPARTURE"

LEMMA QuietNone ==
    ASSUME NEW e, e.type # "DEPARTURE", Iterate(e, {})
    PROVE  Quiet(e)
  BY PushesNone DEF Quiet

LEMMA QuietOne ==
    ASSUME IInv, NEW e \in queue, e.type # "DEPARTURE",
           NEW n, Typed(n), n.gid = uid + 1, n.type # "DEPARTURE", Iterate(e, {n})
    PROVE  Quiet(e)
  BY PushesOne DEF Quiet

\* The acknowledgements to a set S of vertices are typed and numbered from the
\* second entry on.
LEMMA SubworldType ==
    ASSUME IInv, NEW e \in queue, e.type = "ACK", e.destination \in Vertices,
           NEW previous
    PROVE  LET S == In(e.destination) \ {previous}
               new == Subworld(e, previous)
           IN  /\ IsFiniteSet(new) /\ Cardinality(new) = Cardinality(S)
               /\ \A n \in new : /\ Typed(n) /\ n.type = "ACK_1HOP"
                                 /\ n.gid \in uid + 2 .. uid + 1 + Cardinality(S)
<1> DEFINE S == In(e.destination) \ {previous}
           Notice(u) == Acknowledged(Copy(PopHistory(e), 1 + Place(u, S)),
                                     e.destination, u, "ACK_1HOP")
           new == {Notice(u) : u \in S}
<1>1. /\ e \in EntryRecord /\ JobOK(e) /\ Time(e) \in Nat /\ uid \in Nat
      /\ Time(PopHistory(e)) = Time(e)
      /\ PopHistory(e) \in EntryRecord
  <2>1. e \in EntryRecord /\ JobOK(e) /\ Time(e) \in Nat /\ uid \in Nat
    BY TimeType DEF IInv, TypeOK
  <2>2. e.history # <<>> /\ e.history[1].node = EXTERNAL_EVENT
    BY <2>1 DEF JobOK
  <2> QED
    BY <2>1, <2>2, PopHistoryType DEF Time
<1>2. S \subseteq Vertices /\ S \subseteq Nat /\ IsFiniteSet(S)
  BY FS_Subset, NetworkAssumption DEF In
<1>3. ASSUME NEW u \in S
      PROVE  /\ Typed(Notice(u)) /\ Notice(u).type = "ACK_1HOP"
             /\ Notice(u).gid \in uid + 2 .. uid + 1 + Cardinality(S)
             /\ Notice(u).destination = u
  <2>1. Place(u, S) \in 1 .. Cardinality(S) /\ Cardinality(S) \in Nat
    BY <1>2, PlaceInRange, FS_CardinalityType
  <2> DEFINE k == 1 + Place(u, S)
  <2>2. k \in 2 .. 1 + Cardinality(S) /\ k \in Nat
    BY <2>1
  <2> HIDE DEF k, S
  <2>3. /\ Copy(PopHistory(e), k) \in EntryRecord
        /\ Copy(PopHistory(e), k).gid = uid + k
    BY <1>1, <2>2, CopyType DEF IInv
  <2>4. e.destination \in Int /\ u \in Int
    BY <1>1, <1>2 DEF EntryRecord
  <2> DEFINE c == Copy(PopHistory(e), k)
             a == Acknowledged(c, e.destination, u, "ACK_1HOP")
  <2> HIDE DEF c
  <2>5. Typed(a) /\ a.gid = c.gid /\ a.type = "ACK_1HOP" /\ a.destination = u
    BY <2>3, <2>4, AcknowledgedType DEF c
  <2> QED
    BY <1>1, <2>1, <2>2, <2>3, <2>5 DEF k, c
<1>4. IsFiniteSet(new) /\ Cardinality(new) = Cardinality(S)
  <2> DEFINE f == [u \in S |-> Notice(u)]
  <2> HIDE DEF Notice
  <2>1. f \in [S -> new] /\ \A n \in new : \E u \in S : f[u] = n
    OBVIOUS
  <2>2. \A u, w \in S : u # w => f[u] # f[w]
    BY <1>3
  <2> HIDE DEF f, new, S
  <2> QED
    BY <1>2, <2>1, <2>2, ImageCardinality
<1>5. new = Subworld(e, previous)
  BY DEF Subworld
<1> HIDE DEF Notice, S
<1>6. \A n \in new : /\ Typed(n) /\ n.type = "ACK_1HOP"
                     /\ n.gid \in uid + 2 .. uid + 1 + Cardinality(S)
  BY <1>3
<1> QED
  BY <1>4, <1>5, <1>6 DEF S

\* The copy of an acknowledgement whose history has lost its top.
LEMMA PoppedType ==
    ASSUME IInv, NEW e \in queue, e.type = "ACK", e.destination \in Vertices
    PROVE  LET popped == Copy(PopHistory(e), 1)
           IN  /\ popped \in EntryRecord /\ popped.gid = uid + 1
               /\ popped.destination = e.destination
               /\ Top(e) \in Int
               /\ Top(e) # EXTERNAL_EVENT =>
                    popped.history # <<>> /\ popped.history[1].node = EXTERNAL_EVENT
<1>1. e \in EntryRecord /\ JobOK(e) /\ Time(e) \in Nat
  BY TimeType DEF IInv, TypeOK
<1>2. e.history # <<>> /\ e.history[1].node = EXTERNAL_EVENT
  BY <1>1 DEF JobOK
<1>3. /\ PopHistory(e) \in EntryRecord /\ Top(e) \in Int
      /\ Top(e) # EXTERNAL_EVENT =>
           PopHistory(e).history # <<>> /\ PopHistory(e).history[1].node = EXTERNAL_EVENT
      /\ PopHistory(e).destination = e.destination
      /\ PopHistory(e).arrival = e.arrival
  BY <1>1, <1>2, PopHistoryType
<1>4. Time(PopHistory(e)) \in Nat
  BY <1>1, <1>3 DEF Time
<1>5. TypeOK
  BY DEF IInv
<1> QED
  BY <1>3, <1>4, <1>5, CopyType

LEMMA AckQuiet ==
    ASSUME IInv, NEW e \in queue, Ack(e)
    PROVE  Quiet(e)
<1> DEFINE v == e.destination
           previous == Top(e)
           popped == Copy(PopHistory(e), 1)
           back == Acknowledged(popped, v, previous, "ACK")
           acks == Subworld(e, previous)
<1>1. e.type = "ACK" /\ e.type # "DEPARTURE" /\ v \in Vertices
  BY DEF Ack
<1>2. /\ popped \in EntryRecord /\ popped.gid = uid + 1
      /\ popped.destination = v /\ previous \in Int
      /\ previous # EXTERNAL_EVENT =>
           popped.history # <<>> /\ popped.history[1].node = EXTERNAL_EVENT
  BY <1>1, PoppedType
<1>3. CASE previous = EXTERNAL_EVENT /\ Iterate(e, {Leaving(popped)})
  <2> HIDE DEF popped
  <2>1. /\ Typed(Leaving(popped)) /\ Leaving(popped).gid = uid + 1
        /\ Leaving(popped).type # "DEPARTURE"
    BY <1>1, <1>2, LeavingType
  <2> QED
    BY <1>1, <1>3, <2>1, QuietOne
<1>4. CASE /\ previous # EXTERNAL_EVENT
           /\ Iterate(e, {back} \cup IF rl_ci THEN acks ELSE {})
  <2>1. v \in Int
    BY DEF IInv, TypeOK, EntryRecord
  <2>2. Typed(back) /\ back.gid = uid + 1 /\ back.type = "ACK"
    <3> HIDE DEF popped, previous
    <3> QED  BY <1>2, <1>4, <2>1, AcknowledgedType
  <2>3. CASE ~ rl_ci
    <3>1. Iterate(e, {back})
      BY <1>4, <2>3
    <3> HIDE DEF back
    <3> QED
      BY <1>1, <2>2, <3>1, QuietOne
  <2>4. CASE rl_ci
    <3> DEFINE c == Cardinality(acks)
               new == acks \cup {back}
    <3>1. /\ IsFiniteSet(acks)
          /\ \A n \in acks : /\ Typed(n) /\ n.type = "ACK_1HOP"
                             /\ n.gid \in uid + 2 .. uid + 1 + c
      BY <1>1, SubworldType
    <3>2. c \in Nat /\ uid \in Nat
      BY <3>1, FS_CardinalityType DEF IInv, TypeOK
    <3>3. back \notin acks
      BY <2>2, <3>1
    <3> HIDE DEF acks, back
    <3>4. IsFiniteSet(new) /\ Cardinality(new) = c + 1
      BY <3>1, <3>3, FS_AddElement
    <3>5. Iterate(e, new)
      <4>1. new = {back} \cup IF rl_ci THEN acks ELSE {}
        BY <2>4
      <4> QED  BY <1>4, <4>1
    <3> HIDE DEF c
    <3>6. \A n \in acks : n.gid \in uid + 1 .. uid + (c + 1)
      BY <3>1, <3>2
    <3>7. back.gid \in uid + 1 .. uid + (c + 1)
      BY <2>2, <3>2
    <3>8. Pushes(e, new)
      BY <2>2, <3>1, <3>4, <3>5, <3>6, <3>7 DEF Pushes
    <3>9. \A n \in new : n.type # "DEPARTURE"
      BY <2>2, <3>1
    <3> QED
      BY <1>1, <3>8, <3>9 DEF Quiet
  <2> QED
    BY <2>3, <2>4
<1> QED
  BY <1>3, <1>4 DEF Ack

\* An admin event schedules its successor.
LEMMA AgainQuiet ==
    ASSUME IInv, NEW e \in queue, NEW t \in Nat, e.type \in PeriodicTypes,
           NEW more \in BOOLEAN, Iterate(e, IF more THEN Again(e, t) ELSE {})
    PROVE  Quiet(e)
<1> DEFINE n == Fresh(1, t, NoVertex, ADMIN_EVENT, e.type)
<1>1. e.type # "DEPARTURE" /\ e.type \in EventTypes /\ e.type # "LAST_ARRIVAL"
      /\ e.type \notin {"DEPARTURE", "ARRIVAL", "ACK", "LEAVE"}
  BY DEF PeriodicTypes, EventTypes
<1>2. NoVertex \in Int /\ ADMIN_EVENT \in Int
  BY DEF NoVertex, ADMIN_EVENT
<1>3. Typed(n) /\ n.gid = uid + 1 /\ n.type = e.type
  BY <1>1, <1>2, FreshType DEF IInv
<1>4. CASE more
  <2>1. Iterate(e, {n})
    BY <1>4 DEF Again
  <2> HIDE DEF n
  <2> QED
    BY <1>1, <1>3, <2>1, QuietOne
<1>5. CASE ~ more
  BY <1>1, <1>5, QuietNone
<1> QED
  BY <1>4, <1>5

LEMMA GenerateQuiet ==
    ASSUME IInv, NEW e \in queue, Generate(e)
    PROVE  Quiet(e)
<1>1. e.type # "DEPARTURE"
  BY DEF Generate
<1>2. PICK gap \in [Vertices -> Gaps] :
        Iterate(e, {Fresh(Place(v, Vertices), Time(e) + gap[v], v, EXTERNAL_EVENT,
                          "LAST_ARRIVAL") : v \in Vertices})
  BY DEF Generate, FirstArrivals
<1> DEFINE First(v) == Fresh(Place(v, Vertices), Time(e) + gap[v], v, EXTERNAL_EVENT,
                             "LAST_ARRIVAL")
           new == {First(v) : v \in Vertices}
           c == Cardinality(Vertices)
<1>3. TypeOK /\ uid \in Nat /\ Time(e) \in Nat
  BY TimeType DEF IInv, TypeOK
<1>4. IsFiniteSet(Vertices) /\ Vertices \subseteq Nat /\ c \in Nat
  BY NetworkAssumption, FS_CardinalityType
<1>5. ASSUME NEW v \in Vertices
      PROVE  /\ Typed(First(v)) /\ First(v).type = "LAST_ARRIVAL"
             /\ First(v).gid \in uid + 1 .. uid + c
             /\ First(v).destination = v
  <2> DEFINE k == Place(v, Vertices)
             t == Time(e) + gap[v]
  <2>1. k \in 1 .. c
    BY <1>4, PlaceInRange
  <2>2. gap[v] \in Nat
    BY ConfigAssumption
  <2>3. t \in Nat
    BY <1>3, <2>2
  <2>4. k \in Nat /\ v \in Int /\ EXTERNAL_EVENT \in Int
    BY <1>4, <2>1 DEF EXTERNAL_EVENT
  <2>5. "LAST_ARRIVAL" \in EventTypes \ {"DEPARTURE", "ARRIVAL", "ACK", "LEAVE"}
    BY DEF EventTypes, JobTypes
  <2> HIDE DEF k, t, c
  <2>6. /\ Typed(Fresh(k, t, v, EXTERNAL_EVENT, "LAST_ARRIVAL"))
        /\ Fresh(k, t, v, EXTERNAL_EVENT, "LAST_ARRIVAL").gid = uid + k
        /\ Fresh(k, t, v, EXTERNAL_EVENT, "LAST_ARRIVAL").type = "LAST_ARRIVAL"
    BY <1>3, <2>3, <2>4, <2>5, FreshType
  <2>7. Fresh(k, t, v, EXTERNAL_EVENT, "LAST_ARRIVAL").destination = v
    BY DEF Fresh
  <2>8. uid + k \in uid + 1 .. uid + c
    BY <1>3, <1>4, <2>1
  <2> QED
    BY <2>6, <2>7, <2>8 DEF k, t
<1>6. IsFiniteSet(new) /\ Cardinality(new) = c
  <2> DEFINE f == [v \in Vertices |-> First(v)]
  <2> HIDE DEF First
  <2>1. f \in [Vertices -> new] /\ \A n \in new : \E v \in Vertices : f[v] = n
    OBVIOUS
  <2>2. \A v, w \in Vertices : v # w => f[v] # f[w]
    BY <1>5
  <2> HIDE DEF f, new
  <2> QED
    BY <1>4, <2>1, <2>2, ImageCardinality
<1>7. Iterate(e, new)
  BY <1>2
<1> HIDE DEF First, c
<1>8. \A n \in new : Typed(n) /\ n.type # "DEPARTURE" /\ n.gid \in uid + 1 .. uid + c
  BY <1>5
<1>9. Pushes(e, new)
  BY <1>6, <1>7, <1>8 DEF Pushes
<1> QED
  BY <1>1, <1>8, <1>9 DEF Quiet

\* What the actions that leave the servers alone have in common.
Bystander == /\ status' = status
             /\ UNCHANGED <<serverVars, statVars, entered>>
             /\ ticks' \in [PeriodicTypes -> Nat]
             /\ left' \subseteq [id : Nat, at : Vertices]

LEMMA AdminQuiet ==
    ASSUME IInv, NEW e \in queue, Admin(e)
    PROVE  Quiet(e) /\ Bystander
<1>1. /\ TypeOK /\ uid \in Nat /\ Time(e) \in Nat
      /\ ticks \in [PeriodicTypes -> Nat] /\ left \subseteq [id : Nat, at : Vertices]
      /\ e.type \in EventTypes
  BY TimeType DEF IInv, TypeOK, EntryRecord
<1>2. Interval \in [PeriodicTypes -> Nat]
  BY ConfigAssumption
<1>3. \A m, n \in Nat : m * n \in Nat
  OBVIOUS
<1>4. CASE Generate(e)
  <2>1. Bystander
    BY <1>1, <1>4 DEF Generate, Bystander, journeyVars
  <2> QED
    BY <1>4, <2>1, GenerateQuiet
<1>5. CASE LogGraph(e)
  <2>1. e.type \in PeriodicTypes
    BY <1>5 DEF LogGraph, PeriodicTypes
  <2> DEFINE k == ticks[e.type] + 1
             t == k * Interval[e.type]
             more == t <= StopTime
  <2>2. k \in Nat
    BY <1>1, <2>1
  <2>3. t \in Nat
    BY <1>2, <1>3, <2>1, <2>2
  <2>4. Iterate(e, IF more THEN Again(e, t) ELSE {})
    BY <1>5 DEF LogGraph
  <2>5. Bystander
    BY <1>1, <1>5, <2>1, <2>2 DEF LogGraph, Bystander, journeyVars
  <2>6. more \in BOOLEAN
    OBVIOUS
  <2> HIDE DEF t, more
  <2> QED
    BY <2>1, <2>3, <2>4, <2>5, <2>6, AgainQuiet
<1>6. CASE SerialiseArrivals(e)
  <2>1. e.type \in PeriodicTypes
    BY <1>6 DEF SerialiseArrivals, PeriodicTypes
  <2> DEFINE k == ticks[e.type] + 1
             t == k * Interval[e.type]
             more == ticks[e.type] < mfrw_T
  <2>2. k \in Nat
    BY <1>1, <2>1
  <2>3. t \in Nat
    BY <1>2, <1>3, <2>1, <2>2
  <2>4. Iterate(e, IF more THEN Again(e, t) ELSE {})
    BY <1>6 DEF SerialiseArrivals
  <2>5. Bystander
    BY <1>1, <1>6, <2>1, <2>2 DEF SerialiseArrivals, Bystander, journeyVars
  <2>6. more \in BOOLEAN
    OBVIOUS
  <2> HIDE DEF t, more
  <2> QED
    BY <2>1, <2>3, <2>4, <2>5, <2>6, AgainQuiet
<1>7. CASE SystemStatistics(e)
  <2>1. e.type \in PeriodicTypes
    BY <1>7 DEF SystemStatistics, PeriodicTypes
  <2> DEFINE t == Time(e) + Interval[e.type]
             more == t <= StopTime
  <2>2. t \in Nat
    BY <1>1, <1>2, <2>1
  <2>3. Iterate(e, IF more THEN Again(e, t) ELSE {})
    BY <1>7 DEF SystemStatistics
  <2>4. Bystander
    BY <1>1, <1>7 DEF SystemStatistics, Bystander, journeyVars
  <2>5. more \in BOOLEAN
    OBVIOUS
  <2> HIDE DEF t, more
  <2> QED
    BY <2>1, <2>2, <2>3, <2>4, <2>5, AgainQuiet
<1> QED
  BY <1>4, <1>5, <1>6, <1>7 DEF Admin

LEMMA AckOrLeaveQuiet ==
    ASSUME IInv, NEW e \in queue, Ack(e) \/ Ack1Hop(e) \/ Leave(e)
    PROVE  Quiet(e) /\ Bystander
<1>1. /\ ticks \in [PeriodicTypes -> Nat] /\ left \subseteq [id : Nat, at : Vertices]
      /\ e \in EntryRecord /\ JobOK(e)
  BY DEF IInv, TypeOK
<1>2. CASE Ack(e)
  BY <1>1, <1>2, AckQuiet DEF Ack, Bystander, journeyVars
<1>3. CASE Ack1Hop(e)
  <2>1. e.type # "DEPARTURE" /\ Iterate(e, {})
    BY <1>3 DEF Ack1Hop
  <2> QED
    BY <1>1, <1>3, <2>1, QuietNone DEF Ack1Hop, Bystander, journeyVars
<1>4. CASE Leave(e)
  <2>1. e.type # "DEPARTURE" /\ Iterate(e, {})
    BY <1>4 DEF Leave
  <2>2. [id |-> e.id, at |-> e.origin] \in [id : Nat, at : Vertices]
    BY <1>1, <1>4 DEF Leave, JobOK, EntryRecord
  <2> QED
    BY <1>1, <1>4, <2>1, <2>2, QuietNone DEF Leave, Bystander
<1> QED
  BY <1>2, <1>3, <1>4

\* A step that leaves the servers alone preserves the invariant.
LEMMA QuietPreserves ==
    ASSUME IInv, NEW e \in queue, Quiet(e), Bystander
    PROVE  IInv'
<1>1. PICK new : Pushes(e, new) /\ \A n \in new : n.type # "DEPARTURE"
  BY DEF Quiet
<1>2. LoopInv'
  BY <1>1, PushesLoopInv
<1>3. TypeOK'
  BY <1>2 DEF IInv, TypeOK, LoopInv, Bystander, serverVars, statVars
<1>4. \A v \in Vertices : Departures(v)' = Departures(v)
  BY <1>1, SameDepartures DEF Pushes, Quiet
<1>5. ServerBooks'
  <2>1. status' = status /\ busy' = busy /\ numberInQueue' = numberInQueue
    BY DEF Bystander, serverVars
  <2>2. \A v \in Vertices : /\ InStep(v)' = InStep(v)
                            /\ OneShort(v)' = OneShort(v)
    BY <1>4, <2>1 DEF InStep, OneShort
  <2> QED
    BY <2>1, <2>2 DEF IInv, ServerBooks
<1> QED
  BY <1>2, <1>3, <1>5 DEF IInv, LoopInv

-----------------------------------------------------------------------------
(* The actions of the servers.                                             *)

StatTypes == /\ lastEvent \in [Vertices -> Nat]
             /\ Bdt \in [Vertices -> Nat] /\ Qdt \in [Vertices -> Nat]

ServerTypes == /\ busy \in [Vertices -> BOOLEAN]
               /\ numberInQueue \in [Vertices -> Nat]
               /\ serviceEnds \in [Vertices -> Nat]

LEMMA PostAnyType ==
    ASSUME TypeOK, NEW v \in Vertices, NEW t \in Nat, NEW departure \in BOOLEAN,
           numberInQueue' \in [Vertices -> Nat], PostAny(v, t, departure)
    PROVE  StatTypes'
<1> DEFINE waiting == numberInQueue'[v]
           before  == IF departure THEN waiting + 1 ELSE waiting - 1
           counts  == departure \/ waiting > 0
           s == Since(v, t)
           area == s * before
<1>1. /\ StatTypes /\ lastEvent[v] \in Nat /\ Bdt[v] \in Nat /\ Qdt[v] \in Nat
      /\ waiting \in Nat
  BY DEF TypeOK, StatTypes
<1>2. s \in Nat
  BY <1>1 DEF Since
<1>3. counts => before \in Nat
  BY <1>1
<1>4. \A m, n \in Nat : m * n \in Nat
  OBVIOUS
<1>5. counts => area \in Nat
  BY <1>2, <1>3, <1>4
<1>6. /\ Bdt' = [Bdt EXCEPT ![v] = @ + IF counts THEN s ELSE 0]
      /\ Qdt' = [Qdt EXCEPT ![v] = @ + IF counts THEN area ELSE 0]
      /\ lastEvent' = [lastEvent EXCEPT ![v] = t]
  BY DEF PostAny, Utilisation, EventInQueue, LastEvent, Counts
<1> HIDE DEF s, area, counts
<1>7. Bdt[v] + (IF counts THEN s ELSE 0) \in Nat /\ Qdt[v] + (IF counts THEN area ELSE 0) \in Nat
  BY <1>1, <1>2, <1>5
<1> QED
  BY <1>1, <1>6, <1>7 DEF StatTypes

\* A step that consumes e and pushes new is one of the server of v, and leaves
\* its books in order, or one departure short.
ServerMove(e, new, v) ==
    /\ Pushes(e, new)
    /\ ServerTypes' /\ StatTypes'
    /\ status = "running" /\ ticks' = ticks /\ left' = left
    /\ entered' \subseteq [id : Nat, at : Vertices]
    /\ \A w \in Vertices \ {v} :
         busy'[w] = busy[w] /\ numberInQueue'[w] = numberInQueue[w]
    /\ e.type = "DEPARTURE" => e.destination = v
    /\ \A n \in new : n.type = "DEPARTURE" => n.destination = v
    /\ ~ busy'[v] => numberInQueue'[v] = 0
    /\ \/ status' = "running" /\ InStep(v)'
       \/ status' = "failed" /\ OneShort(v)'

LEMMA ServerMovePreserves ==
    ASSUME IInv, NEW e \in queue, NEW new, NEW v \in Vertices, ServerMove(e, new, v)
    PROVE  IInv'
<1>1. LoopInv'
  BY PushesLoopInv DEF ServerMove
<1>2. TypeOK'
  BY <1>1 DEF IInv, TypeOK, LoopInv, ServerTypes, StatTypes, ServerMove
<1>3. \A w \in Vertices \ {v} : Departures(w)' = Departures(w)
  BY SameDepartures DEF Pushes, ServerMove
<1>4. \A w \in Vertices \ {v} : /\ InStep(w)'
                                /\ ~ busy'[w] => numberInQueue'[w] = 0
  <2>1. \A w \in Vertices \ {v} : /\ busy'[w] = busy[w]
                                  /\ numberInQueue'[w] = numberInQueue[w]
    BY DEF ServerMove
  <2>2. \A w \in Vertices : InStep(w) /\ (~ busy[w] => numberInQueue[w] = 0)
    BY DEF IInv, ServerBooks, ServerMove
  <2> QED
    BY <1>3, <2>1, <2>2 DEF InStep
<1>5. /\ ~ busy'[v] => numberInQueue'[v] = 0
      /\ \/ status' = "running" /\ InStep(v)'
         \/ status' = "failed" /\ OneShort(v)'
  BY DEF ServerMove
<1>6. ServerBooks'
  BY <1>4, <1>5 DEF ServerBooks
<1> QED
  BY <1>1, <1>2, <1>6 DEF IInv, LoopInv

LEMMA FiniteDepartures ==
    ASSUME Numbered, NEW v
    PROVE  IsFiniteSet(Departures(v)) /\ Cardinality(Departures(v)) \in Nat
  BY FS_Subset, FS_CardinalityType DEF Numbered, Departures

LEMMA DeparturePreserves ==
    ASSUME IInv, status = "running", NEW e \in queue, Departure(e)
    PROVE  IInv'
<1> DEFINE v == e.destination
           c == Copy(e, 1)
<1>1. /\ e.type = "DEPARTURE" /\ v \in Vertices /\ Release(v)
      /\ PostAny(v, Time(e), TRUE)
      /\ UNCHANGED <<status, serviceEnds, ticks, journeyVars>>
  BY DEF Departure
<1>2. /\ TypeOK /\ Numbered /\ e \in EntryRecord /\ JobOK(e) /\ Time(e) \in Nat
      /\ busy \in [Vertices -> BOOLEAN] /\ numberInQueue \in [Vertices -> Nat]
      /\ numberInQueue[v] \in Nat /\ uid \in Nat
  BY <1>1, TimeType DEF IInv, TypeOK
<1>3. c \in EntryRecord /\ c.gid = uid + 1 /\ c.type = e.type /\ c.history = e.history
      /\ JobOK(c)
  BY <1>1, <1>2, CopyType DEF JobOK
<1>4. PICK n : Iterate(e, {n}) /\ Typed(n) /\ n.gid = uid + 1 /\ n.type # "DEPARTURE"
  <2>1. CASE \E w \in Out(v) : Iterate(e, {Departed(c, w)})
    <3>1. PICK w \in Out(v) : Iterate(e, {Departed(c, w)})
      BY <2>1
    <3>2. w \in Int
      BY NetworkAssumption DEF Out
    <3> HIDE DEF c
    <3>3. Typed(Departed(c, w)) /\ Departed(c, w).gid = c.gid
          /\ Departed(c, w).type = "ARRIVAL"
      BY <1>1, <1>3, <3>2, DepartedType
    <3> QED
      BY <1>3, <3>1, <3>3
  <2>2. CASE Iterate(e, {Acknowledged(c, v, v, "ACK")})
    <3>1. v \in Int
      BY <1>2 DEF EntryRecord
    <3>2. c.history # <<>> /\ c.history[1].node = EXTERNAL_EVENT
      BY <1>1, <1>3 DEF JobOK
    <3> HIDE DEF c, v
    <3>3. /\ Typed(Acknowledged(c, v, v, "ACK"))
          /\ Acknowledged(c, v, v, "ACK").gid = c.gid
          /\ Acknowledged(c, v, v, "ACK").type = "ACK"
      BY <1>3, <3>1, <3>2, AcknowledgedType
    <3> QED
      BY <1>3, <2>2, <3>3
  <2> QED
    BY <2>1, <2>2 DEF Departure
<1>5. Pushes(e, {n})
  BY <1>4, PushesOne
<1>6. /\ busy' \in [Vertices -> BOOLEAN] /\ numberInQueue' \in [Vertices -> Nat]
      /\ \A w \in Vertices \ {v} : /\ busy'[w] = busy[w]
                                   /\ numberInQueue'[w] = numberInQueue[w]
      /\ busy'[v] = IF numberInQueue[v] = 0 THEN FALSE ELSE busy[v]
      /\ numberInQueue'[v] = IF numberInQueue[v] > 0 THEN numberInQueue[v] - 1
                             ELSE numberInQueue[v]
  <2> DEFINE b == IF numberInQueue[v] = 0 THEN FALSE ELSE busy[v]
             m == IF numberInQueue[v] > 0 THEN numberInQueue[v] - 1 ELSE numberInQueue[v]
  <2>1. busy' = [busy EXCEPT ![v] = b] /\ numberInQueue' = [numberInQueue EXCEPT ![v] = m]
    BY <1>1 DEF Release
  <2>2. m \in Nat
    BY <1>2
  <2>5. busy[v] \in BOOLEAN /\ FALSE \in BOOLEAN
    BY <1>1, <1>2
  <2>6. b \in BOOLEAN
    BY <2>5, Zenon
  <2> HIDE DEF b, m, v
  <2>3. /\ busy' \in [Vertices -> BOOLEAN] /\ numberInQueue' \in [Vertices -> Nat]
        /\ \A w \in Vertices \ {v} : /\ busy'[w] = busy[w]
                                     /\ numberInQueue'[w] = numberInQueue[w]
    BY <1>1, <1>2, <2>1, <2>2, <2>6
  <2>4. busy'[v] = b /\ numberInQueue'[v] = m
    BY <1>1, <1>2, <2>1
  <2> QED
    BY <2>3, <2>4 DEF b, m
<1>7. StatTypes'
  BY <1>1, <1>2, <1>6, PostAnyType
<1>8. ServerTypes'
  BY <1>1, <1>2, <1>6 DEF ServerTypes, TypeOK
<1>9. Departures(v)' = Departures(v) \ {e} /\ e \in Departures(v)
  BY <1>1, <1>4 DEF Departures, Iterate
<1>10. /\ Cardinality(Departures(v)') = Cardinality(Departures(v)) - 1
       /\ Cardinality(Departures(v)) \in Nat
       /\ Cardinality(Departures(v)) # 0
  BY <1>2, <1>9, FiniteDepartures, FS_RemoveElement, FS_EmptySet
<1>11. /\ Cardinality(Departures(v)) = numberInQueue[v] + IF busy[v] THEN 1 ELSE 0
       /\ ~ busy[v] => numberInQueue[v] = 0
  BY <1>1 DEF IInv, ServerBooks, InStep
<1>12. /\ InStep(v)'
       /\ ~ busy'[v] => numberInQueue'[v] = 0
  <2> HIDE DEF v
  <2> QED  BY <1>2, <1>6, <1>10, <1>11 DEF InStep
<1>13. /\ status' = status /\ ticks' = ticks /\ left' = left
       /\ entered' \subseteq [id : Nat, at : Vertices]
  BY <1>1, <1>2 DEF TypeOK, journeyVars
<1>14. ServerMove(e, {n}, v)
  <2> HIDE DEF v, c
  <2>1. v = e.destination
    BY DEF v
  <2>2. \A d \in {n} : d.type = "DEPARTURE" => d.destination = v
    BY <1>4
  <2>3. status' = "running"
    BY <1>13
  <2> QED
    BY <1>5, <1>6, <1>7, <1>8, <1>12, <1>13, <2>1, <2>2, <2>3 DEF ServerMove
<1> HIDE DEF v
<1> QED
  BY <1>1, <1>14, ServerMovePreserves

LEMMA OccupyType ==
    ASSUME TypeOK, NEW v \in Vertices, NEW departure \in Nat, Occupy(v, departure)
    PROVE  /\ ServerTypes'
           /\ \A w \in Vertices \ {v} : /\ busy'[w] = busy[w]
                                        /\ numberInQueue'[w] = numberInQueue[w]
           /\ busy'[v]
           /\ numberInQueue'[v] = IF busy[v] THEN numberInQueue[v] + 1 ELSE numberInQueue[v]
<1> DEFINE m == IF busy[v] THEN numberInQueue[v] + 1 ELSE numberInQueue[v]
<1>1. /\ ServerTypes /\ numberInQueue[v] \in Nat
  BY DEF TypeOK, ServerTypes
<1>2. m \in Nat
  BY <1>1
<1>3. /\ busy' = [busy EXCEPT ![v] = TRUE]
      /\ numberInQueue' = [numberInQueue EXCEPT ![v] = m]
      /\ serviceEnds' = [serviceEnds EXCEPT ![v] = departure]
  BY DEF Occupy
<1> HIDE DEF m
<1>4. /\ ServerTypes'
      /\ \A w \in Vertices \ {v} : /\ busy'[w] = busy[w]
                                   /\ numberInQueue'[w] = numberInQueue[w]
  BY <1>1, <1>2, <1>3 DEF ServerTypes
<1>5. busy'[v] = TRUE /\ numberInQueue'[v] = m
  BY <1>1, <1>3 DEF ServerTypes
<1> QED
  BY <1>4, <1>5 DEF m

\* An arrival, with k - 1 entries pushed before its departure.
LEMMA ArrivePreserves ==
    ASSUME IInv, status = "running", NEW e \in queue,
           e.type \in {"ARRIVAL", "LAST_ARRIVAL"},
           NEW scheduled, IsFiniteSet(scheduled),
           NEW k \in Nat, Cardinality(scheduled) = k - 1,
           \A n \in scheduled : Typed(n) /\ n.type # "DEPARTURE" /\ n.gid \in uid + 1 .. uid + (k - 1),
           entered' \subseteq [id : Nat, at : Vertices],
           Arrive(e, scheduled, k)
    PROVE  IInv'
<1> DEFINE v == e.destination
<1>1. PICK service \in Services :
        LET departure == DepartureTime(v, Time(e), service)
        IN  /\ Occupy(v, departure)
            /\ Accept(e, departure, scheduled, k) \/ Refuse(e, departure, scheduled)
  BY DEF Arrive
<1> DEFINE departure == DepartureTime(v, Time(e), service)
           d == Served(PushHistory(Copy(e, k), Time(e)), departure)
           new == scheduled \cup {d}
<1>2. v \in Vertices /\ UNCHANGED <<ticks, left>>
  BY DEF Arrive
<1>3. /\ TypeOK /\ Numbered /\ e \in EntryRecord /\ JobOK(e) /\ Time(e) \in Nat
      /\ uid \in Nat /\ numberInQueue[v] \in Nat
      /\ e.type # "DEPARTURE"
  BY <1>2, TimeType DEF IInv, TypeOK
<1>4. departure \in Nat
  <2>1. serviceEnds[v] \in Nat /\ service \in Nat
    BY <1>2, <1>3, ConfigAssumption DEF TypeOK
  <2> QED
    BY <1>3, <2>1 DEF DepartureTime
<1>5. Typed(d) /\ d.gid = uid + k /\ d.type = "DEPARTURE" /\ d.destination = v
  <2> DEFINE c == Copy(e, k)
  <2>1. /\ c \in EntryRecord /\ c.gid = uid + k /\ c.type = e.type
        /\ c.history = e.history /\ c.destination = v /\ c.origin = e.origin
    BY <1>3, CopyType
  <2>2. JobOK(c)
    BY <1>3, <2>1 DEF JobOK
  <2> HIDE DEF c, departure
  <2> QED
    BY <1>3, <1>4, <2>1, <2>2, ServedType DEF c
<1> HIDE DEF departure, d
<1>6. Occupy(v, departure) /\ (Accept(e, departure, scheduled, k) \/ Refuse(e, departure, scheduled))
  BY <1>1 DEF departure
<1>7. /\ ServerTypes'
      /\ \A w \in Vertices \ {v} : /\ busy'[w] = busy[w]
                                   /\ numberInQueue'[w] = numberInQueue[w]
      /\ busy'[v]
      /\ numberInQueue'[v] = IF busy[v] THEN numberInQueue[v] + 1 ELSE numberInQueue[v]
  BY <1>2, <1>3, <1>4, <1>6, OccupyType
<1>8. /\ Cardinality(Departures(v)) = numberInQueue[v] + IF busy[v] THEN 1 ELSE 0
      /\ ~ busy[v] => numberInQueue[v] = 0
  BY <1>2 DEF IInv, ServerBooks, InStep
<1>9. CASE Accept(e, departure, scheduled, k)
  <2>1. Iterate(e, new) /\ PostAny(v, Time(e), FALSE) /\ status' = status
    BY <1>9 DEF Accept, d
  <2>2. d \notin scheduled
    BY <1>3, <1>5
  <2>3. IsFiniteSet(new) /\ Cardinality(new) = k
    <3>1. IsFiniteSet(new) /\ Cardinality(new) = Cardinality(scheduled) + 1
      BY <2>2, FS_AddElement
    <3> QED
      BY <3>1
  <2>4. \A n \in new : Typed(n) /\ n.gid \in uid + 1 .. uid + k
    <3>1. k >= 1
      BY FS_CardinalityType
    <3> QED
      BY <1>3, <1>5, <3>1
  <2>5. Pushes(e, new)
    BY <2>1, <2>3, <2>4 DEF Pushes
  <2>6. d \notin queue
    BY <2>5, PushesLoopInv
  <2>7. Departures(v)' = Departures(v) \cup {d} /\ d \notin Departures(v)
    BY <1>3, <1>5, <2>1, <2>6 DEF Departures, Iterate
  <2>8. /\ Cardinality(Departures(v)') = Cardinality(Departures(v)) + 1
        /\ Cardinality(Departures(v)) \in Nat
    BY <1>3, <2>7, FiniteDepartures, FS_AddElement
  <2>9. InStep(v)'
    <3> HIDE DEF v
    <3> QED  BY <1>3, <1>7, <1>8, <2>8 DEF InStep
  <2>10. StatTypes'
    BY <1>2, <1>3, <1>7, <2>1, PostAnyType DEF ServerTypes
  <2>11. ServerMove(e, new, v)
    <3> HIDE DEF v
    <3>1. \A n \in new : n.type = "DEPARTURE" => n.destination = v
      BY <1>5
    <3> QED
      BY <1>2, <1>3, <1>7, <2>1, <2>5, <2>9, <2>10, <3>1 DEF ServerMove
  <2> HIDE DEF v, new
  <2> QED
    BY <1>2, <2>11, ServerMovePreserves
<1>10. CASE Refuse(e, departure, scheduled)
  <2>1. Iterate(e, scheduled) /\ status' = "failed" /\ UNCHANGED statVars
    BY <1>10 DEF Refuse
  <2>2. Pushes(e, scheduled)
    BY <2>1 DEF Pushes
  <2>3. StatTypes'
    BY <1>3, <2>1 DEF TypeOK, StatTypes, statVars
  <2>4. OneShort(v)'
    <3> HIDE DEF v
    <3>1. Departures(v)' = Departures(v)
      BY <1>3, <2>1, SameDepartures
    <3> QED
      BY <1>3, <1>7, <1>8, <3>1, FiniteDepartures DEF OneShort
  <2>5. ServerMove(e, scheduled, v)
    <3> HIDE DEF v
    <3> QED
      BY <1>2, <1>3, <1>7, <2>1, <2>2, <2>3, <2>4 DEF ServerMove
  <2> HIDE DEF v
  <2> QED
    BY <1>2, <2>5, ServerMovePreserves
<1> QED
  BY <1>6, <1>9, <1>10

LEMMA ArrivalPreserves ==
    ASSUME IInv, status = "running", NEW e \in queue, Arrival(e)
    PROVE  IInv'
<1>1. /\ e.type \in {"ARRIVAL", "LAST_ARRIVAL"} /\ Arrive(e, {}, 1)
      /\ entered' \subseteq [id : Nat, at : Vertices]
  BY DEF Arrival, IInv, TypeOK
<1>2. IsFiniteSet({}) /\ Cardinality({}) = 1 - 1
  BY FS_EmptySet
<1> QED
  BY <1>1, <1>2, ArrivePreserves

LEMMA LastArrivalPreserves ==
    ASSUME IInv, status = "running", NEW e \in queue, LastArrival(e)
    PROVE  IInv'
<1>1. PICK gap \in Gaps :
        Arrive(e, {Fresh(1, Time(e) + gap, e.destination, EXTERNAL_EVENT,
                         "LAST_ARRIVAL")}, 2)
  BY DEF LastArrival, NextArrivals
<1> DEFINE t == Time(e) + gap
           n == Fresh(1, t, e.destination, EXTERNAL_EVENT, "LAST_ARRIVAL")
<1>2. /\ TypeOK /\ e \in EntryRecord /\ Time(e) \in Nat /\ uid \in Nat
      /\ e.destination \in Vertices /\ e.destination \in Int /\ e.id \in Nat
      /\ e.type \in {"ARRIVAL", "LAST_ARRIVAL"}
  BY <1>1, TimeType DEF IInv, TypeOK, EntryRecord, Arrive, LastArrival
<1>3. t \in Nat
  BY <1>2, ConfigAssumption
<1>4. Typed(n) /\ n.gid = uid + 1 /\ n.type = "LAST_ARRIVAL"
  <2>1. /\ "LAST_ARRIVAL" \in EventTypes \ {"DEPARTURE", "ARRIVAL", "ACK", "LEAVE"}
        /\ EXTERNAL_EVENT \in Int
    BY DEF EventTypes, JobTypes, EXTERNAL_EVENT
  <2> HIDE DEF t
  <2> QED
    BY <1>2, <1>3, <2>1, FreshType
<1>5. entered' \subseteq [id : Nat, at : Vertices]
  BY <1>2 DEF LastArrival, TypeOK
<1>6. IsFiniteSet({n}) /\ Cardinality({n}) = 2 - 1
  <2> HIDE DEF n
  <2>1. IsFiniteSet({n}) /\ Cardinality({n}) = 1
    BY FS_Singleton
  <2> QED  BY <2>1
<1>7. Arrive(e, {n}, 2)
  BY <1>1
<1> HIDE DEF n
<1>8. \A m \in {n} : Typed(m) /\ m.type # "DEPARTURE" /\ m.gid \in uid + 1 .. uid + (2 - 1)
  BY <1>2, <1>4
<1> QED
  BY <1>2, <1>5, <1>6, <1>7, <1>8, ArrivePreserves

\* The loop ends: nothing is queued, and the books are closed.
LEMMA EndPreserves ==
    ASSUME IInv, NEW r, r = NULL \/ r \in queue, End(r)
    PROVE  IInv'
<1>1. now' \in Nat /\ now' >= now
  <2>1. now \in Nat
    BY DEF IInv, TypeOK
  <2>2. CASE r = NULL
    BY <2>1, <2>2 DEF End
  <2>3. CASE r # NULL
    BY <2>3, TimeType DEF End, IInv
  <2> QED
    BY <2>2, <2>3
<1>2. busyTime' \in [Vertices -> Nat] /\ queueTime' \in [Vertices -> Nat]
  BY <1>1, ElapseType DEF End, IInv
<1>3. TypeOK'
  BY <1>1, <1>2 DEF End, IInv, TypeOK, serverVars, statVars, journeyVars
<1>4. Numbered' /\ (\A e \in queue' : JobOK(e))
  BY FS_EmptySet DEF End, Numbered
<1>5. ServerBooks'
  BY DEF IInv, End, ServerBooks, serverVars
<1> QED
  BY <1>3, <1>4, <1>5 DEF IInv

-----------------------------------------------------------------------------
(* The invariant is inductive.                                             *)

LEMMA InitIInv == Init => IInv
<1> SUFFICES ASSUME Init
             PROVE  IInv
  OBVIOUS
<1> DEFINE types == PeriodicTypes \cup {"GENERATE_ARRIVAL"}
           n == Len(Scheduled)
           First(k) == [gid |-> k, id |-> k, arrival |-> 0, destination |-> NoVertex,
                        origin |-> ADMIN_EVENT, type |-> Scheduled[k], history |-> <<>>]
<1>1. Scheduled \in Seq(types)
  <2> DEFINE IfOn(type) == IF type \in Optional THEN <<type>> ELSE <<>>
  <2>1. \A type \in types : IfOn(type) \in Seq(types)
    <3> HIDE DEF types
    <3> TAKE type \in types
    <3>1. <<type>> \in Seq(types) /\ <<>> \in Seq(types)
      OBVIOUS
    <3> QED  BY <3>1
  <2>2. /\ "SERIALISE_ARRIVAL" \in types /\ "LOG_GRAPH" \in types
        /\ "SYSTEM_STATISTICS" \in types /\ <<"GENERATE_ARRIVAL">> \in Seq(types)
    BY DEF PeriodicTypes
  <2>3. Scheduled = IfOn("SERIALISE_ARRIVAL") \o <<"GENERATE_ARRIVAL">>
                      \o IfOn("LOG_GRAPH") \o IfOn("SYSTEM_STATISTICS")
    BY DEF Scheduled
  <2> HIDE DEF IfOn, types
  <2> QED
    BY <2>1, <2>2, <2>3
<1>2. n \in Nat /\ DOMAIN Scheduled = 1 .. n /\ \A k \in 1 .. n : Scheduled[k] \in types
  <2> HIDE DEF types
  <2> QED  BY <1>1, ElementOfSeq
<1>3. queue = {First(k) : k \in 1 .. n} /\ uid = n
  BY <1>2 DEF Init
<1>4. ASSUME NEW k \in 1 .. n
      PROVE  /\ First(k) \in EntryRecord /\ First(k).gid <= n
             /\ First(k).type \notin {"DEPARTURE", "ARRIVAL", "LAST_ARRIVAL", "ACK", "LEAVE"}
  <2>1. Scheduled[k] \in types /\ k \in Nat /\ k <= n
    BY <1>2
  <2>2. types \subseteq EventTypes
        /\ types \cap {"DEPARTURE", "ARRIVAL", "LAST_ARRIVAL", "ACK", "LEAVE"} = {}
    BY DEF EventTypes, PeriodicTypes
  <2>3. NoVertex \in Int /\ ADMIN_EVENT \in Int /\ <<>> \in Seq([node : Int, time : Nat])
    BY DEF NoVertex, ADMIN_EVENT
  <2> HIDE DEF types, n
  <2> QED
    BY <2>1, <2>2, <2>3 DEF EntryRecord
<1> HIDE DEF First, n
<1>5. /\ queue \subseteq EntryRecord
      /\ \A e \in queue : /\ e.gid <= uid
                          /\ e.type \notin {"DEPARTURE", "ARRIVAL", "LAST_ARRIVAL", "ACK", "LEAVE"}
  BY <1>3, <1>4
<1>6. IsFiniteSet(queue)
  <2> DEFINE f == [k \in 1 .. n |-> First(k)]
  <2>1. IsFiniteSet(1 .. n)
    BY <1>2, FS_Interval
  <2>2. f \in [1 .. n -> queue] /\ \A q \in queue : \E k \in 1 .. n : f[k] = q
    BY <1>3
  <2> HIDE DEF f
  <2>3. f \in Surjection(1 .. n, queue)
    BY <2>2 DEF Surjection
  <2> QED
    BY <2>1, <2>3, FS_Surjection
<1>7. TypeOK
  BY <1>2, <1>3, <1>5 DEF Init, TypeOK
<1>8. \A v \in Vertices : Departures(v) = {}
  BY <1>5 DEF Departures
<1>9. ServerBooks
  <2>1. \A v \in Vertices : Cardinality(Departures(v)) = 0
    BY <1>8, FS_EmptySet
  <2>2. \A v \in Vertices : ~ busy[v] /\ numberInQueue[v] = 0
    BY DEF Init
  <2> QED
    BY <2>1, <2>2 DEF ServerBooks, InStep, Init
<1> QED
  BY <1>5, <1>6, <1>7, <1>9 DEF IInv, Numbered, JobOK

LEMMA NextIInv == IInv /\ [Next]_vars => IInv'
<1> SUFFICES ASSUME IInv, [Next]_vars
             PROVE  IInv'
  OBVIOUS
<1>1. CASE UNCHANGED vars
  BY <1>1 DEF IInv, TypeOK, Numbered, ServerBooks, InStep, OneShort, Departures,
              vars, serverVars, statVars, journeyVars, JobOK
<1>2. CASE Terminated
  BY <1>1, <1>2 DEF Terminated
<1>3. CASE Running
  <2>1. PICK r \in Dequeued : Process(r)
    BY <1>3 DEF Running
  <2>2. status = "running" /\ (r = NULL \/ r \in queue) /\ (queue = {} => r = NULL)
    BY <1>3 DEF Running, Dequeued
  <2>3. CASE End(r)
    BY <2>2, <2>3, EndPreserves
  <2>4. CASE r # NULL /\ Admin(r)
    BY <2>2, <2>4, AdminQuiet, QuietPreserves
  <2>5. CASE r # NULL /\ Job(r)
    <3>1. CASE Arrival(r)
      BY <2>2, <2>5, <3>1, ArrivalPreserves
    <3>2. CASE LastArrival(r)
      BY <2>2, <2>5, <3>2, LastArrivalPreserves
    <3>3. CASE Departure(r)
      BY <2>2, <2>5, <3>3, DeparturePreserves
    <3>4. CASE Ack(r) \/ Ack1Hop(r) \/ Leave(r)
      BY <2>2, <2>5, <3>4, AckOrLeaveQuiet, QuietPreserves
    <3> QED
      BY <2>5, <3>1, <3>2, <3>3, <3>4 DEF Job
  <2> QED
    BY <2>1, <2>3, <2>4, <2>5 DEF Process
<1> QED
  BY <1>1, <1>2, <1>3 DEF Next

\* In every network, configuration and order of the queue the variables of the
\* loop and of its handlers keep their types: no count or sum goes below zero,
\* and every job that leaves is filed under a vertex.
THEOREM TypeCorrect == Spec => []TypeOK
<1>1. IInv => TypeOK
  BY DEF IInv
<1> QED
  BY <1>1, InitIInv, NextIInv, PTL DEF Spec

\* In every network, configuration and order of the queue busy and
\* number_in_queue count the departures scheduled at a vertex while the loop
\* runs, and a refused departure leaves the books of one vertex, and of no other,
\* one departure short.
THEOREM ServerBooksHold == Spec => []ServerBooks
<1>1. IInv => ServerBooks
  BY DEF IInv
<1> QED
  BY <1>1, InitIInv, NextIInv, PTL DEF Spec

-----------------------------------------------------------------------------
(* The journeys of the jobs.                                               *)


\* The types of the entries that carry a job through the network.
Moving == {"ARRIVAL", "DEPARTURE", "ACK", "LEAVE"}

\* What the iteration has pushed.
Pushed == queue' \ queue

-----------------------------------------------------------------------------
(* How an entry n that is pushed comes from the entry e that is dequeued.  *)

NextArrival(e, n) ==
    /\ n.type = "LAST_ARRIVAL" /\ n.id = n.gid /\ n.arrival >= Time(e)
    /\ n.destination \in Vertices
    /\ \/ e.type = "LAST_ARRIVAL" /\ n.destination = e.destination
       \/ e.type = "GENERATE_ARRIVAL"

NextAdmin(e, n) ==
    /\ n.type = e.type /\ e.type \in PeriodicTypes /\ n.id = n.gid
    /\ n.arrival = IF e.type = "SYSTEM_STATISTICS" THEN Time(e) + Interval[e.type]
                   ELSE ticks'[e.type] * Interval[e.type]

ItsDeparture(e, n) ==
    /\ e.type \in {"ARRIVAL", "LAST_ARRIVAL"} /\ n.type = "DEPARTURE"
    /\ n.id = e.id /\ n.arrival = serviceEnds'[e.destination]
    /\ n.origin = e.destination /\ n.destination = e.destination
    /\ n.history = Append(e.history, [node |-> e.origin, time |-> Time(e)])

ItsHop(e, n) ==
    /\ e.type = "DEPARTURE" /\ n.type = "ARRIVAL"
    /\ n.id = e.id /\ n.arrival = Time(e) /\ n.history = e.history
    /\ n.origin = e.origin /\ <<e.destination, n.destination>> \in Edges

ItsTurn(e, n) ==
    /\ e.type = "DEPARTURE" /\ n.type = "ACK"
    /\ n.id = e.id /\ n.arrival = Time(e) /\ n.history = e.history
    /\ n.destination = e.destination /\ Out(e.destination) = {}

ItsAck(e, n) ==
    /\ e.type = "ACK" /\ n.type = "ACK" /\ Top(e) # EXTERNAL_EVENT
    /\ n.id = e.id /\ n.arrival = Time(e) /\ n.history = PopHistory(e).history
    /\ n.origin = e.destination /\ n.destination = Top(e)

ItsNotice(e, n) ==
    /\ e.type = "ACK" /\ n.type = "ACK_1HOP" /\ Top(e) # EXTERNAL_EVENT
    /\ n.id = e.id /\ n.arrival = Time(e) /\ n.history = PopHistory(e).history
    /\ n.origin = e.destination /\ <<n.destination, e.destination>> \in Edges

ItsLeave(e, n) ==
    /\ e.type = "ACK" /\ n.type = "LEAVE" /\ Top(e) = EXTERNAL_EVENT
    /\ n.id = e.id /\ n.arrival = Time(e) /\ n.origin = e.destination

Offspring(e, n) ==
    /\ n.gid \in Nat /\ n.gid > uid
    /\ \/ NextArrival(e, n) \/ NextAdmin(e, n)
       \/ ItsDeparture(e, n) \/ ItsHop(e, n) \/ ItsTurn(e, n)
       \/ ItsAck(e, n) \/ ItsNotice(e, n) \/ ItsLeave(e, n)

\* What an iteration does to the queue and to the record of the journeys.
StepOf(e) ==
    /\ e \in queue /\ e \notin queue' /\ queue \ {e} \subseteq queue'
    /\ now' = Time(e) /\ uid' >= uid
    /\ \A n \in Pushed : Offspring(e, n)
    /\ \A m, n \in Pushed :
         m.id = n.id /\ m.type # "ACK_1HOP" /\ n.type # "ACK_1HOP" => m = n
    /\ \A m, n \in Pushed :
         m.destination = n.destination /\ m.type = "LAST_ARRIVAL" /\ n.type = "LAST_ARRIVAL"
           => m = n
    /\ entered' = entered \cup
         IF e.type = "LAST_ARRIVAL" THEN {[id |-> e.id, at |-> e.destination]} ELSE {}
    /\ left' = left \cup
         IF e.type = "LEAVE" THEN {[id |-> e.id, at |-> e.origin]} ELSE {}

\* What it must push unless process() fails.
StepGoesOn(e) ==
    status' = "running" =>
      /\ status = "running"
      /\ e.type \in {"LAST_ARRIVAL", "ARRIVAL", "DEPARTURE", "ACK"} =>
           \E n \in Pushed : n.id = e.id /\ n.type \in Moving
      /\ e.type = "LAST_ARRIVAL" =>
           \E n \in Pushed : n.type = "LAST_ARRIVAL" /\ n.destination = e.destination
      /\ e.type = "GENERATE_ARRIVAL" =>
           \A v \in Vertices :
             \E n \in Pushed : n.type = "LAST_ARRIVAL" /\ n.destination = v

-----------------------------------------------------------------------------
(* The inductive invariants.                                               *)

\* History h and then x are a walk from outside through the network, of a job
\* that is in E.
WalkTo(E, id, h, x) ==
    /\ h # <<>> /\ h[1].node = EXTERNAL_EVENT
    /\ [id |-> id, at |-> IF Len(h) = 1 THEN x ELSE h[2].node] \in E
    /\ \A i \in 2 .. Len(h) :
         <<h[i].node, IF i = Len(h) THEN x ELSE h[i + 1].node>> \in Edges

JourneyOK(e) ==
    /\ e.type \in {"DEPARTURE", "ACK"} => WalkTo(entered, e.id, e.history, e.destination)
    /\ e.type = "DEPARTURE" => e.origin = e.destination
    /\ e.type = "ARRIVAL" => /\ WalkTo(entered, e.id, e.history, e.origin)
                             /\ <<e.origin, e.destination>> \in Edges
    /\ e.type \in {"ACK", "ACK_1HOP"} =>
         /\ Out(e.destination) # {} => <<e.destination, e.origin>> \in Edges
         /\ e.history # <<>>
    /\ e.type = "LEAVE" => [id |-> e.id, at |-> e.origin] \in entered

JourneyInv == /\ \A e \in queue : JourneyOK(e)
              /\ left \subseteq entered

\* Identities are taken from uid, and no two entries but notices share one.
JobInv ==
    /\ \A e \in queue : e.id <= uid
    /\ \A job \in entered : job.id <= uid
    /\ \A e, f \in queue :
         e.id = f.id /\ e.type # "ACK_1HOP" /\ f.type # "ACK_1HOP" => e = f
    /\ \A gone \in left, e \in queue : e.type # "ACK_1HOP" => e.id # gone.id
    /\ status = "running" =>
         \A job \in entered : \/ \E gone \in left : gone.id = job.id
                              \/ \E e \in queue : e.id = job.id /\ e.type \in Moving

\* Until the first arrivals are generated there are none, and one each then.
ArrivalInv ==
    status = "running" =>
      /\ \A e, f \in queue : e.type = "GENERATE_ARRIVAL" /\ f.type = "GENERATE_ARRIVAL" => e = f
      /\ \/ \E e \in queue : e.type = "GENERATE_ARRIVAL"
         \/ \A v \in Vertices : Pending("LAST_ARRIVAL", v) # {}
      /\ (\E e \in queue : e.type = "GENERATE_ARRIVAL") =>
           \A e \in queue : e.type # "LAST_ARRIVAL"
      /\ \A e, f \in queue :
           /\ e.type = "LAST_ARRIVAL" /\ f.type = "LAST_ARRIVAL"
           /\ e.destination = f.destination
           => e = f

-----------------------------------------------------------------------------
(* What an iteration pushes, from the definitions of the actions.          *)

\* The entries an iteration pushes are what the queue gains.
LEMMA Consumes ==
    ASSUME IInv, IInv', NEW e \in queue, NEW new, Iterate(e, new),
           \A n \in new : n.gid \in Nat /\ n.gid > uid
    PROVE  /\ Pushed = new /\ now' = Time(e) /\ uid' >= uid
           /\ e \notin queue' /\ queue \ {e} \subseteq queue'
<1>1. \A f \in queue : f.gid \in Nat /\ f.gid <= uid
  BY DEF IInv, TypeOK, EntryRecord, Numbered
<1>2. uid \in Nat
  BY DEF IInv, TypeOK
<1>3. \A n \in new : n \notin queue
  BY <1>1, <1>2
<1>4. Cardinality(new) \in Nat
  BY FS_Subset, FS_CardinalityType DEF IInv, Numbered, Iterate
<1>5. uid' >= uid
  BY <1>2, <1>4 DEF Iterate
<1> QED
  BY <1>3, <1>5 DEF Iterate, Pushed

\* A copy keeps what is not its number or its time.
LEMMA CopyShape ==
    ASSUME IInv, NEW e \in EntryRecord, NEW k \in Nat, Time(e) \in Nat
    PROVE  LET c == Copy(e, k)
           IN  /\ c \in EntryRecord /\ c.gid = uid + k /\ c.id = e.id
               /\ c.arrival = Time(e) /\ c.type = e.type /\ c.history = e.history
               /\ c.destination = e.destination /\ c.origin = e.origin
<1> DEFINE g == uid + k
           t == Time(e)
<1>1. g \in Nat /\ t \in Nat
  BY DEF IInv, TypeOK
<1>2. Copy(e, k) = [e EXCEPT !.gid = g, !.arrival = t]
  BY DEF Copy
<1> HIDE DEF g, t
<1>3. LET c == Copy(e, k)
      IN  /\ c \in EntryRecord /\ c.gid = g /\ c.id = e.id
          /\ c.arrival = t /\ c.type = e.type /\ c.history = e.history
          /\ c.destination = e.destination /\ c.origin = e.origin
  BY <1>1, <1>2 DEF EntryRecord
<1> QED
  BY <1>3 DEF g, t

\* The departure of an entry with history h.
LEMMA ServedShape ==
    ASSUME NEW e \in EntryRecord, NEW t, NEW departure
    PROVE  LET d == Served(PushHistory(e, t), departure)
           IN  /\ d.gid = e.gid /\ d.id = e.id /\ d.type = "DEPARTURE"
               /\ d.arrival = departure
               /\ d.origin = e.destination /\ d.destination = e.destination
               /\ d.history = Append(e.history, [node |-> e.origin, time |-> t])
<1> DEFINE h == Append(e.history, [node |-> e.origin, time |-> t])
<1>1. PushHistory(e, t) = [e EXCEPT !.history = h]
  BY DEF PushHistory
<1> HIDE DEF h
<1>2. LET d == Served(PushHistory(e, t), departure)
      IN  /\ d.gid = e.gid /\ d.id = e.id /\ d.type = "DEPARTURE"
          /\ d.arrival = departure /\ d.history = h
          /\ d.origin = e.destination /\ d.destination = e.destination
  BY <1>1 DEF Served, EntryRecord
<1> QED
  BY <1>2 DEF h

\* The stack without its top, in an entry of the same job.
LEMMA PopShape ==
    ASSUME NEW e \in EntryRecord
    PROVE  LET p == PopHistory(e)
           IN  /\ p.gid = e.gid /\ p.id = e.id /\ p.arrival = e.arrival /\ p.type = e.type
               /\ p.destination = e.destination /\ p.origin = e.origin
               /\ p.history = SubSeq(e.history, 1, Len(e.history) - 1)
<1> DEFINE h == SubSeq(e.history, 1, Len(e.history) - 1)
<1>1. PopHistory(e) = [e EXCEPT !.history = h]
  BY DEF PopHistory
<1> HIDE DEF h
<1>2. LET p == PopHistory(e)
      IN  /\ p.gid = e.gid /\ p.id = e.id /\ p.arrival = e.arrival /\ p.type = e.type
          /\ p.destination = e.destination /\ p.origin = e.origin /\ p.history = h
  BY <1>1 DEF EntryRecord
<1> QED
  BY <1>2 DEF h

\* Vertices with different indices have different places.
LEMMA PlaceDiffers ==
    ASSUME NEW S, S \subseteq Nat, IsFiniteSet(S), NEW v \in S, NEW w \in S, v # w
    PROVE  Place(v, S) # Place(w, S)
<1>1. ASSUME NEW a \in S, NEW b \in S, a < b
      PROVE  Place(a, S) # Place(b, S)
  <2> DEFINE A == {u \in S : u <= a}
             B == {u \in S : u <= b}
  <2>1. A \in SUBSET B /\ b \in B /\ b \notin A
    <3>1. a \in Nat /\ b \in Nat /\ \A u \in S : u \in Nat
      OBVIOUS
    <3>2. \A u \in Nat : u <= a => u <= b
      BY <1>1, <3>1
    <3>3. b <= b /\ ~ (b <= a)
      BY <1>1, <3>1
    <3> QED  BY <3>1, <3>2, <3>3
  <2>2. B \in SUBSET S
    OBVIOUS
  <2>3. IsFiniteSet(B)
    BY <2>2, FS_Subset
  <2>4. Cardinality(A) # Cardinality(B)
    <3> HIDE DEF A, B
    <3> QED  BY <2>1, <2>3, FS_Subset
  <2> QED
    BY <2>4 DEF Place
<1>2. v < w \/ w < v
  OBVIOUS
<1> QED
  BY <1>1, <1>2

\* An arrival pushes the departure of its job, unless process() fails.
LEMMA ArriveStep ==
    ASSUME IInv, IInv', NEW e \in queue, e.type \in {"ARRIVAL", "LAST_ARRIVAL"},
           NEW scheduled, NEW k \in Nat, k >= 1,
           \A n \in scheduled : n.gid \in Nat /\ n.gid > uid,
           Arrive(e, scheduled, k)
    PROVE  /\ now' = Time(e) /\ uid' >= uid /\ e \notin queue' /\ queue \ {e} \subseteq queue'
           /\ \/ /\ status' = status
                 /\ \E d : /\ Pushed = scheduled \cup {d}
                           /\ d.gid = uid + k /\ ItsDeparture(e, d)
              \/ status' = "failed" /\ Pushed = scheduled
<1> DEFINE v == e.destination
<1>1. PICK service \in Services :
        LET departure == DepartureTime(v, Time(e), service)
        IN  /\ Occupy(v, departure)
            /\ Accept(e, departure, scheduled, k) \/ Refuse(e, departure, scheduled)
  BY DEF Arrive
<1> DEFINE departure == DepartureTime(v, Time(e), service)
           c == Copy(e, k)
           d == Served(PushHistory(c, Time(e)), departure)
<1>2. /\ v \in Vertices /\ e \in EntryRecord /\ Time(e) \in Nat /\ uid \in Nat
      /\ serviceEnds \in [Vertices -> Nat]
  BY TimeType DEF IInv, TypeOK, Arrive
<1>3. serviceEnds'[v] = departure
  <2> HIDE DEF departure
  <2>1. serviceEnds' = [serviceEnds EXCEPT ![v] = departure]
    BY <1>1 DEF Occupy, departure
  <2> QED  BY <1>2, <2>1
<1>4. d.gid = uid + k /\ ItsDeparture(e, d)
  <2>1. /\ c \in EntryRecord /\ c.gid = uid + k /\ c.id = e.id /\ c.history = e.history
        /\ c.destination = v /\ c.origin = e.origin
    BY <1>2, CopyShape
  <2> HIDE DEF c, departure
  <2>2. /\ d.gid = uid + k /\ d.id = e.id /\ d.type = "DEPARTURE" /\ d.arrival = departure
        /\ d.origin = v /\ d.destination = v
        /\ d.history = Append(e.history, [node |-> e.origin, time |-> Time(e)])
    BY <2>1, ServedShape
  <2> HIDE DEF d
  <2> QED
    BY <1>3, <2>2 DEF ItsDeparture
<1>5. Accept(e, departure, scheduled, k) \/ Refuse(e, departure, scheduled)
  BY <1>1
<1> HIDE DEF departure
<1>6. CASE Accept(e, departure, scheduled, k)
  <2>1. Iterate(e, scheduled \cup {d}) /\ status' = status
    BY <1>6 DEF Accept
  <2> HIDE DEF d, v
  <2>2. \A n \in scheduled \cup {d} : n.gid \in Nat /\ n.gid > uid
    BY <1>2, <1>4
  <2> QED
    BY <1>4, <2>1, <2>2, Consumes
<1>7. CASE Refuse(e, departure, scheduled)
  <2>1. Iterate(e, scheduled) /\ status' = "failed"
    BY <1>7 DEF Refuse
  <2> QED
    BY <2>1, Consumes
<1> QED
  BY <1>5, <1>6, <1>7

LEMMA ArrivalStep ==
    ASSUME IInv, IInv', status = "running", NEW e \in queue, Arrival(e)
    PROVE  StepOf(e) /\ StepGoesOn(e)
<1>1. /\ e.type = "ARRIVAL" /\ Arrive(e, {}, 1) /\ entered' = entered /\ left' = left
  BY DEF Arrival, Arrive
<1>2. /\ now' = Time(e) /\ uid' >= uid /\ e \notin queue' /\ queue \ {e} \subseteq queue'
      /\ \/ /\ status' = status
            /\ \E d : Pushed = {} \cup {d} /\ d.gid = uid + 1 /\ ItsDeparture(e, d)
         \/ status' = "failed" /\ Pushed = {}
  BY <1>1, ArriveStep
<1>3. uid + 1 \in Nat /\ uid + 1 > uid
  BY DEF IInv, TypeOK
<1>4. CASE status' = status /\ \E d : Pushed = {} \cup {d} /\ d.gid = uid + 1 /\ ItsDeparture(e, d)
  <2>1. PICK d : Pushed = {d} /\ d.gid = uid + 1 /\ ItsDeparture(e, d)
    BY <1>4
  <2>2. Offspring(e, d) /\ d.id = e.id /\ d.type \in Moving
    BY <1>3, <2>1 DEF Offspring, ItsDeparture, Moving
  <2> QED
    BY <1>1, <1>2, <2>1, <2>2 DEF StepOf, StepGoesOn
<1>5. CASE status' = "failed" /\ Pushed = {}
  BY <1>1, <1>2, <1>5 DEF StepOf, StepGoesOn
<1> QED
  BY <1>2, <1>4, <1>5

\* The fields of an entry that is new.
LEMMA FreshShape ==
    ASSUME NEW k, NEW t, NEW destination, NEW origin, NEW type
    PROVE  LET n == Fresh(k, t, destination, origin, type)
           IN  /\ n.gid = uid + k /\ n.id = uid + k /\ n.arrival = t /\ n.type = type
               /\ n.destination = destination /\ n.origin = origin
  BY DEF Fresh

LEMMA LastArrivalStep ==
    ASSUME IInv, IInv', status = "running", NEW e \in queue, e.id <= uid, LastArrival(e)
    PROVE  StepOf(e) /\ StepGoesOn(e)
<1>1. PICK gap \in Gaps :
        Arrive(e, {Fresh(1, Time(e) + gap, e.destination, EXTERNAL_EVENT,
                         "LAST_ARRIVAL")}, 2)
  BY DEF LastArrival, NextArrivals
<1> DEFINE t == Time(e) + gap
           a == Fresh(1, t, e.destination, EXTERNAL_EVENT, "LAST_ARRIVAL")
<1>2. /\ e.type = "LAST_ARRIVAL" /\ Arrive(e, {a}, 2) /\ left' = left
      /\ e.destination \in Vertices
      /\ entered' = entered \cup {[id |-> e.id, at |-> e.destination]}
  BY <1>1 DEF LastArrival, Arrive
<1>3. uid \in Nat /\ uid + 1 \in Nat /\ uid + 1 > uid /\ uid + 2 > uid /\ uid + 2 \in Nat
  BY DEF IInv, TypeOK
<1>4. t >= Time(e)
  BY ConfigAssumption, TimeType DEF IInv
<1>5. a.gid = uid + 1 /\ a.type = "LAST_ARRIVAL" /\ NextArrival(e, a)
  <2> HIDE DEF t
  <2>1. /\ a.gid = uid + 1 /\ a.id = uid + 1 /\ a.arrival = t /\ a.type = "LAST_ARRIVAL"
        /\ a.destination = e.destination
    BY FreshShape
  <2> HIDE DEF a
  <2> QED
    BY <1>2, <1>4, <2>1 DEF NextArrival
<1> HIDE DEF a
<1>6. Offspring(e, a) /\ \A n \in {a} : n.gid \in Nat /\ n.gid > uid
  BY <1>3, <1>5 DEF Offspring
<1>7. /\ now' = Time(e) /\ uid' >= uid /\ e \notin queue' /\ queue \ {e} \subseteq queue'
      /\ \/ /\ status' = status
            /\ \E d : Pushed = {a} \cup {d} /\ d.gid = uid + 2 /\ ItsDeparture(e, d)
         \/ status' = "failed" /\ Pushed = {a}
  BY <1>2, <1>6, ArriveStep
<1>8. CASE status' = status /\ \E d : Pushed = {a} \cup {d} /\ d.gid = uid + 2 /\ ItsDeparture(e, d)
  <2>1. PICK d : Pushed = {a, d} /\ d.gid = uid + 2 /\ ItsDeparture(e, d)
    BY <1>8
  <2>2. /\ Offspring(e, d) /\ d.id = e.id /\ d.type \in Moving /\ d.type # "LAST_ARRIVAL"
    BY <1>3, <2>1 DEF Offspring, ItsDeparture, Moving
  <2>3. a.id # d.id
    <3>1. a.id = uid + 1
      BY <1>5 DEF NextArrival
    <3>2. e.id \in Nat
      BY DEF IInv, TypeOK, EntryRecord
    <3> QED
      BY <1>3, <2>2, <3>1, <3>2
  <2> QED
    BY <1>2, <1>5, <1>6, <1>7, <2>1, <2>2, <2>3 DEF StepOf, StepGoesOn, NextArrival
<1>9. CASE status' = "failed" /\ Pushed = {a}
  BY <1>2, <1>5, <1>6, <1>7, <1>9 DEF StepOf, StepGoesOn
<1> QED
  BY <1>7, <1>8, <1>9

LEMMA DepartureStep ==
    ASSUME IInv, IInv', status = "running", NEW e \in queue, Departure(e)
    PROVE  StepOf(e) /\ StepGoesOn(e)
<1> DEFINE v == e.destination
           c == Copy(e, 1)
<1>1. /\ e.type = "DEPARTURE" /\ v \in Vertices /\ entered' = entered /\ left' = left
      /\ status' = status
  BY DEF Departure, journeyVars
<1>2. e \in EntryRecord /\ Time(e) \in Nat /\ uid \in Nat /\ uid + 1 \in Nat /\ uid + 1 > uid
  BY TimeType DEF IInv, TypeOK
<1>3. /\ c \in EntryRecord /\ c.gid = uid + 1 /\ c.id = e.id /\ c.arrival = Time(e)
      /\ c.history = e.history /\ c.destination = v /\ c.origin = e.origin
  BY <1>2, CopyShape
<1>4. \E n : Iterate(e, {n}) /\ n.gid = uid + 1 /\ (ItsHop(e, n) \/ ItsTurn(e, n))
  <2>1. CASE \E w \in Out(v) : Iterate(e, {Departed(c, w)})
    <3>1. PICK w \in Out(v) : Iterate(e, {Departed(c, w)})
      BY <2>1
    <3> HIDE DEF c
    <3>2. LET n == Departed(c, w)
          IN  /\ n.gid = c.gid /\ n.id = c.id /\ n.arrival = c.arrival
              /\ n.history = c.history /\ n.origin = c.origin
              /\ n.type = "ARRIVAL" /\ n.destination = w
      BY <1>3 DEF Departed, EntryRecord
    <3>3. <<v, w>> \in Edges
      BY DEF Out
    <3>4. ItsHop(e, Departed(c, w)) /\ Departed(c, w).gid = uid + 1
      BY <1>1, <1>3, <3>2, <3>3 DEF ItsHop
    <3> QED
      BY <3>1, <3>4
  <2>2. CASE Out(v) = {} /\ Iterate(e, {Acknowledged(c, v, v, "ACK")})
    <3> HIDE DEF c
    <3>1. LET n == Acknowledged(c, v, v, "ACK")
          IN  /\ n.gid = c.gid /\ n.id = c.id /\ n.arrival = c.arrival
              /\ n.history = c.history /\ n.type = "ACK" /\ n.destination = v
      BY <1>3 DEF Acknowledged, EntryRecord
    <3>2. ItsTurn(e, Acknowledged(c, v, v, "ACK")) /\ Acknowledged(c, v, v, "ACK").gid = uid + 1
      BY <1>1, <1>3, <2>2, <3>1 DEF ItsTurn
    <3> QED
      BY <2>2, <3>2
  <2> QED
    BY <2>1, <2>2 DEF Departure
<1>5. PICK n : Iterate(e, {n}) /\ n.gid = uid + 1 /\ (ItsHop(e, n) \/ ItsTurn(e, n))
  BY <1>4
<1>6. Pushed = {n} /\ now' = Time(e) /\ uid' >= uid /\ e \notin queue' /\ queue \ {e} \subseteq queue'
  BY <1>2, <1>5, Consumes
<1>7. Offspring(e, n) /\ n.id = e.id /\ n.type \in Moving
  BY <1>2, <1>5 DEF Offspring, ItsHop, ItsTurn, Moving
<1> QED
  BY <1>1, <1>6, <1>7 DEF StepOf, StepGoesOn

LEMMA AckStep ==
    ASSUME IInv, IInv', status = "running", NEW e \in queue, Ack(e)
    PROVE  StepOf(e) /\ StepGoesOn(e)
<1> DEFINE v == e.destination
           previous == Top(e)
           p == PopHistory(e)
           popped == Copy(p, 1)
           back == Acknowledged(popped, v, previous, "ACK")
           out == Leaving(popped)
           acks == Subworld(e, previous)
<1>1. /\ e.type = "ACK" /\ v \in Vertices /\ entered' = entered /\ left' = left
      /\ status' = status
  BY DEF Ack, journeyVars
<1>2. /\ e \in EntryRecord /\ JobOK(e) /\ Time(e) \in Nat /\ uid \in Nat
      /\ uid + 1 \in Nat /\ uid + 1 > uid
  BY TimeType DEF IInv, TypeOK
<1>3. /\ p \in EntryRecord /\ p.id = e.id /\ p.arrival = e.arrival
      /\ p.destination = v /\ Time(p) = Time(e)
  <2>1. e.history # <<>> /\ e.history[1].node = EXTERNAL_EVENT
    BY <1>1, <1>2 DEF JobOK
  <2>2. p \in EntryRecord
    BY <1>2, <2>1, PopHistoryType
  <2>3. p.id = e.id /\ p.arrival = e.arrival /\ p.destination = v
    BY <1>2, PopShape
  <2> HIDE DEF p
  <2> QED
    BY <2>2, <2>3 DEF Time
<1>4. ASSUME NEW k \in Nat
      PROVE  LET c == Copy(p, k)
             IN  /\ c \in EntryRecord /\ c.gid = uid + k /\ c.id = e.id
                 /\ c.arrival = Time(e) /\ c.history = p.history /\ c.destination = v
  <2> HIDE DEF p
  <2> QED  BY <1>2, <1>3, CopyShape
<1>5. /\ popped \in EntryRecord /\ popped.gid = uid + 1 /\ popped.id = e.id
      /\ popped.arrival = Time(e) /\ popped.history = p.history
      /\ popped.destination = v
  <2> HIDE DEF p
  <2> QED  BY <1>4
<1>6. CASE previous = EXTERNAL_EVENT /\ Iterate(e, {out})
  <2> HIDE DEF popped
  <2>1. /\ out.gid = uid + 1 /\ out.id = e.id /\ out.arrival = Time(e)
        /\ out.type = "LEAVE" /\ out.origin = v
    BY <1>5 DEF Leaving, EntryRecord
  <2> HIDE DEF out
  <2>2. Offspring(e, out) /\ out.id = e.id /\ out.type \in Moving /\ out.type # "ACK_1HOP"
    BY <1>1, <1>2, <1>6, <2>1 DEF Offspring, ItsLeave, Moving
  <2>3. Pushed = {out} /\ now' = Time(e) /\ uid' >= uid /\ e \notin queue' /\ queue \ {e} \subseteq queue'
    BY <1>2, <1>6, <2>1, Consumes
  <2> QED
    BY <1>1, <2>2, <2>3 DEF StepOf, StepGoesOn
<1>7. CASE /\ previous # EXTERNAL_EVENT
           /\ Iterate(e, {back} \cup IF rl_ci THEN acks ELSE {})
  <2> DEFINE new == {back} \cup IF rl_ci THEN acks ELSE {}
  <2>1. /\ back.gid = uid + 1 /\ back.id = e.id /\ back.arrival = Time(e)
        /\ back.history = p.history
        /\ back.type = "ACK" /\ back.origin = v /\ back.destination = previous
    <3> HIDE DEF popped, p, previous
    <3> QED  BY <1>5 DEF Acknowledged, EntryRecord
  <2>2. Offspring(e, back) /\ back.id = e.id /\ back.type \in Moving
    <3> HIDE DEF back
    <3> QED  BY <1>1, <1>2, <1>7, <2>1 DEF Offspring, ItsAck, Moving
  <2>3. ASSUME NEW n \in acks
        PROVE  Offspring(e, n) /\ n.type = "ACK_1HOP"
    <3> DEFINE S == In(v) \ {previous}
    <3>1. PICK u \in S : n = Acknowledged(Copy(p, 1 + Place(u, S)), v, u, "ACK_1HOP")
      BY DEF Subworld
    <3> DEFINE k == 1 + Place(u, S)
               c == Copy(p, k)
    <3>2. k \in Nat /\ k >= 1
      <4>1. S \subseteq Nat /\ IsFiniteSet(S)
        BY FS_Subset, NetworkAssumption DEF In
      <4>2. Place(u, S) \in 1 .. Cardinality(S)
        BY <4>1, PlaceInRange
      <4> QED
        BY <4>1, <4>2, FS_CardinalityType
    <3>3. /\ c \in EntryRecord /\ c.gid = uid + k /\ c.id = e.id
          /\ c.arrival = Time(e) /\ c.history = p.history
      <4> HIDE DEF p, k
      <4> QED  BY <1>4, <3>2
    <3>4. <<u, v>> \in Edges
      BY DEF In
    <3>5. n = Acknowledged(c, v, u, "ACK_1HOP")
      BY <3>1
    <3> HIDE DEF c, k, S, p
    <3>6. /\ n.gid = uid + k /\ n.id = e.id /\ n.arrival = Time(e)
          /\ n.history = p.history /\ n.origin = v
          /\ n.type = "ACK_1HOP" /\ n.destination = u
      BY <3>3, <3>5 DEF Acknowledged, EntryRecord
    <3>7. n.gid \in Nat /\ n.gid > uid
      BY <1>2, <3>2, <3>6
    <3> QED
      BY <1>1, <1>7, <3>4, <3>6, <3>7 DEF Offspring, ItsNotice, p
  <2> HIDE DEF back, acks
  <2>4. \A n \in new : Offspring(e, n) /\ (n = back \/ n.type = "ACK_1HOP")
    BY <2>2, <2>3
  <2>5. \A n \in new : n.gid \in Nat /\ n.gid > uid
    BY <2>4 DEF Offspring
  <2>6. Iterate(e, new) /\ back \in new
    BY <1>7
  <2> HIDE DEF new
  <2>7. Pushed = new /\ now' = Time(e) /\ uid' >= uid /\ e \notin queue' /\ queue \ {e} \subseteq queue'
    BY <2>5, <2>6, Consumes
  <2>8. \A n \in new : n.type # "LAST_ARRIVAL"
    BY <2>1, <2>4
  <2> QED
    BY <1>1, <2>2, <2>4, <2>6, <2>7, <2>8 DEF StepOf, StepGoesOn
<1> QED
  BY <1>6, <1>7 DEF Ack

\* A notice is read, and a job that leaves is filed.
LEMMA LastStep ==
    ASSUME IInv, IInv', status = "running", NEW e \in queue, Ack1Hop(e) \/ Leave(e)
    PROVE  StepOf(e) /\ StepGoesOn(e)
<1>1. Iterate(e, {}) /\ entered' = entered
  BY DEF Ack1Hop, Leave, journeyVars
<1>2. Pushed = {} /\ now' = Time(e) /\ uid' >= uid /\ e \notin queue' /\ queue \ {e} \subseteq queue'
  BY <1>1, Consumes
<1>3. CASE Ack1Hop(e)
  BY <1>1, <1>2, <1>3 DEF Ack1Hop, StepOf, StepGoesOn, journeyVars
<1>4. CASE Leave(e)
  BY <1>1, <1>2, <1>4 DEF Leave, StepOf, StepGoesOn
<1> QED
  BY <1>3, <1>4

LEMMA GenerateStep ==
    ASSUME IInv, IInv', status = "running", NEW e \in queue, Generate(e)
    PROVE  StepOf(e) /\ StepGoesOn(e)
<1>1. /\ e.type = "GENERATE_ARRIVAL" /\ entered' = entered /\ left' = left
      /\ status' = status
  BY DEF Generate, journeyVars
<1>2. PICK gap \in [Vertices -> Gaps] :
        Iterate(e, {Fresh(Place(v, Vertices), Time(e) + gap[v], v, EXTERNAL_EVENT,
                          "LAST_ARRIVAL") : v \in Vertices})
  BY DEF Generate, FirstArrivals
<1> DEFINE First(v) == Fresh(Place(v, Vertices), Time(e) + gap[v], v, EXTERNAL_EVENT,
                             "LAST_ARRIVAL")
           new == {First(v) : v \in Vertices}
<1>3. uid \in Nat /\ Time(e) \in Nat
  BY TimeType DEF IInv, TypeOK
<1>4. IsFiniteSet(Vertices) /\ Vertices \subseteq Nat /\ Cardinality(Vertices) \in Nat
  BY NetworkAssumption, FS_CardinalityType
<1>5. ASSUME NEW v \in Vertices
      PROVE  /\ Offspring(e, First(v)) /\ First(v).type = "LAST_ARRIVAL"
             /\ First(v).destination = v /\ First(v).id = uid + Place(v, Vertices)
  <2> DEFINE k == Place(v, Vertices)
             t == Time(e) + gap[v]
             n == Fresh(k, t, v, EXTERNAL_EVENT, "LAST_ARRIVAL")
  <2>1. k \in Nat /\ k >= 1
    <3>1. k \in 1 .. Cardinality(Vertices)
      BY <1>4, PlaceInRange
    <3> HIDE DEF k
    <3> QED  BY <1>4, <3>1
  <2>2. t >= Time(e)
    <3>1. gap[v] \in Nat
      BY ConfigAssumption
    <3> QED  BY <1>3, <3>1
  <2> HIDE DEF k, t
  <2>3. /\ n.gid = uid + k /\ n.id = uid + k /\ n.arrival = t /\ n.type = "LAST_ARRIVAL"
        /\ n.destination = v
    BY FreshShape
  <2>4. uid + k \in Nat /\ uid + k > uid
    BY <1>3, <2>1
  <2> HIDE DEF n
  <2>5. Offspring(e, n)
    BY <1>1, <2>2, <2>3, <2>4 DEF Offspring, NextArrival
  <2> QED
    BY <2>3, <2>5 DEF n, k, t
<1>6. Iterate(e, new)
  BY <1>2
<1> HIDE DEF First
<1>7. \A n \in new : Offspring(e, n) /\ n.gid \in Nat /\ n.gid > uid
  BY <1>5 DEF Offspring
<1>8. Pushed = new /\ now' = Time(e) /\ uid' >= uid /\ e \notin queue' /\ queue \ {e} \subseteq queue'
  <2> HIDE DEF new
  <2> QED  BY <1>6, <1>7, Consumes
<1>9. \A m, n \in new : m.id = n.id => m = n
  <2> SUFFICES ASSUME NEW u \in Vertices, NEW w \in Vertices, First(u).id = First(w).id
               PROVE  u = w
    OBVIOUS
  <2>1. Place(u, Vertices) \in Nat /\ Place(w, Vertices) \in Nat
    <3>1. /\ Place(u, Vertices) \in 1 .. Cardinality(Vertices)
          /\ Place(w, Vertices) \in 1 .. Cardinality(Vertices)
      BY <1>4, PlaceInRange
    <3> QED  BY <1>4, <3>1
  <2>2. Place(u, Vertices) = Place(w, Vertices)
    BY <1>3, <1>5, <2>1
  <2> QED
    BY <1>4, <2>2, PlaceDiffers
<1>10. \A m, n \in new : m.destination = n.destination => m = n
  BY <1>5
<1>11. \A v \in Vertices : \E n \in new : n.type = "LAST_ARRIVAL" /\ n.destination = v
  BY <1>5
<1> HIDE DEF new
<1> QED
  BY <1>1, <1>7, <1>8, <1>9, <1>10, <1>11 DEF StepOf, StepGoesOn

\* A periodic event pushes its successor, or nothing.
LEMMA AgainStep ==
    ASSUME IInv, IInv', status = "running", NEW e \in queue, e.type \in PeriodicTypes,
           NEW t, NEW more \in BOOLEAN, Iterate(e, IF more THEN Again(e, t) ELSE {}),
           more => t = IF e.type = "SYSTEM_STATISTICS" THEN Time(e) + Interval[e.type]
                       ELSE ticks'[e.type] * Interval[e.type],
           UNCHANGED <<status, journeyVars>>
    PROVE  StepOf(e) /\ StepGoesOn(e)
<1> DEFINE n == Fresh(1, t, NoVertex, ADMIN_EVENT, e.type)
<1>1. /\ entered' = entered /\ left' = left /\ status' = status
      /\ e.type \notin Moving \cup {"LAST_ARRIVAL", "GENERATE_ARRIVAL"}
  BY DEF journeyVars, PeriodicTypes, Moving
<1>2. uid + 1 \in Nat /\ uid + 1 > uid
  BY DEF IInv, TypeOK
<1>3. CASE more
  <2>1. Iterate(e, {n})
    BY <1>3 DEF Again
  <2>2. n.gid = uid + 1 /\ n.id = n.gid /\ n.arrival = t /\ n.type = e.type
    BY FreshShape
  <2> HIDE DEF n
  <2>3. Offspring(e, n)
    BY <1>2, <1>3, <2>2 DEF Offspring, NextAdmin
  <2>4. Pushed = {n} /\ now' = Time(e) /\ uid' >= uid /\ e \notin queue' /\ queue \ {e} \subseteq queue'
    BY <1>2, <2>1, <2>2, Consumes
  <2> QED
    BY <1>1, <2>3, <2>4 DEF StepOf, StepGoesOn, Moving
<1>4. CASE ~ more
  <2>1. Pushed = {} /\ now' = Time(e) /\ uid' >= uid /\ e \notin queue' /\ queue \ {e} \subseteq queue'
    BY <1>4, Consumes
  <2> QED
    BY <1>1, <2>1 DEF StepOf, StepGoesOn, Moving
<1> QED
  BY <1>3, <1>4

LEMMA AdminStep ==
    ASSUME IInv, IInv', status = "running", NEW e \in queue, Admin(e)
    PROVE  StepOf(e) /\ StepGoesOn(e)
<1>1. ticks \in [PeriodicTypes -> Nat]
  BY DEF IInv, TypeOK
<1>2. CASE Generate(e)
  BY <1>2, GenerateStep
<1>3. CASE LogGraph(e)
  <2> DEFINE t == (ticks[e.type] + 1) * Interval[e.type]
             more == t <= StopTime
  <2>1. /\ e.type \in PeriodicTypes /\ e.type # "SYSTEM_STATISTICS"
        /\ UNCHANGED <<status, journeyVars>>
        /\ ticks'[e.type] = ticks[e.type] + 1
    BY <1>1, <1>3 DEF LogGraph, PeriodicTypes
  <2>2. t = ticks'[e.type] * Interval[e.type]
    BY <2>1
  <2>3. Iterate(e, IF more THEN Again(e, t) ELSE {}) /\ more \in BOOLEAN
    BY <1>3 DEF LogGraph
  <2> HIDE DEF t, more
  <2> QED
    BY <2>1, <2>2, <2>3, AgainStep
<1>4. CASE SerialiseArrivals(e)
  <2> DEFINE t == (ticks[e.type] + 1) * Interval[e.type]
             more == ticks[e.type] < mfrw_T
  <2>1. /\ e.type \in PeriodicTypes /\ e.type # "SYSTEM_STATISTICS"
        /\ UNCHANGED <<status, journeyVars>>
        /\ more => ticks'[e.type] = ticks[e.type] + 1
    BY <1>1, <1>4 DEF SerialiseArrivals, PeriodicTypes
  <2>2. more => t = ticks'[e.type] * Interval[e.type]
    BY <2>1
  <2>3. Iterate(e, IF more THEN Again(e, t) ELSE {}) /\ more \in BOOLEAN
    BY <1>4 DEF SerialiseArrivals
  <2> HIDE DEF t, more
  <2> QED
    BY <2>1, <2>2, <2>3, AgainStep
<1>5. CASE SystemStatistics(e)
  <2> DEFINE t == Time(e) + Interval[e.type]
             more == t <= StopTime
  <2>1. /\ e.type \in PeriodicTypes /\ e.type = "SYSTEM_STATISTICS"
        /\ UNCHANGED <<status, journeyVars>>
    BY <1>5 DEF SystemStatistics, PeriodicTypes
  <2>2. t = IF e.type = "SYSTEM_STATISTICS" THEN Time(e) + Interval[e.type]
            ELSE ticks'[e.type] * Interval[e.type]
    BY <2>1
  <2>3. Iterate(e, IF more THEN Again(e, t) ELSE {}) /\ more \in BOOLEAN
    BY <1>5 DEF SystemStatistics
  <2> HIDE DEF t, more
  <2> QED
    BY <2>1, <2>2, <2>3, AgainStep
<1> QED
  BY <1>2, <1>3, <1>4, <1>5 DEF Admin

\* Every step of the loop ends it, or is an iteration with these facts.
LEMMA RunningStep ==
    ASSUME IInv, IInv', \A e \in queue : e.id <= uid, Running
    PROVE  \/ \E r : End(r)
           \/ \E e \in queue : StepOf(e) /\ StepGoesOn(e)
<1>1. PICK r \in Dequeued : Process(r)
  BY DEF Running
<1>2. status = "running" /\ (r = NULL \/ r \in queue) /\ (queue = {} => r = NULL)
  BY DEF Running, Dequeued
<1>3. CASE End(r)
  BY <1>3
<1>4. CASE r # NULL /\ Admin(r)
  BY <1>2, <1>4, AdminStep
<1>5. CASE r # NULL /\ Job(r)
  BY <1>2, <1>5, ArrivalStep, LastArrivalStep, DepartureStep, AckStep, LastStep DEF Job
<1> QED
  BY <1>1, <1>3, <1>4, <1>5 DEF Process

-----------------------------------------------------------------------------
(* Walks.                                                                  *)

Histories == Seq([node : Int, time : Nat])

LEMMA WalkStart ==
    ASSUME NEW E, NEW id, NEW v, [id |-> id, at |-> v] \in E, NEW t \in Nat
    PROVE  WalkTo(E, id, Append(<<>>, [node |-> EXTERNAL_EVENT, time |-> t]), v)
<1> DEFINE h == Append(<<>>, [node |-> EXTERNAL_EVENT, time |-> t])
<1>1. Len(h) = 1 /\ h[1] = [node |-> EXTERNAL_EVENT, time |-> t] /\ h # <<>>
  OBVIOUS
<1>2. h[1].node = EXTERNAL_EVENT
  BY <1>1
<1> HIDE DEF h
<1> QED
  BY <1>1, <1>2 DEF WalkTo, h

LEMMA WalkExtend ==
    ASSUME NEW E, NEW id, NEW h \in Histories, NEW x \in Int, NEW y, NEW t \in Nat,
           WalkTo(E, id, h, x), <<x, y>> \in Edges
    PROVE  WalkTo(E, id, Append(h, [node |-> x, time |-> t]), y)
<1> DEFINE r == [node |-> x, time |-> t]
           g == Append(h, r)
           n == Len(h)
<1>1. r \in [node : Int, time : Nat] /\ r.node = x
  OBVIOUS
<1>2. n \in Nat /\ n # 0
  BY EmptySeq DEF WalkTo, Histories
<1> HIDE DEF r
<1>3. /\ Len(g) = n + 1 /\ g # <<>> /\ g[n + 1] = r
      /\ \A i \in 1 .. n : g[i] = h[i]
  <2> DEFINE R == [node : Int, time : Nat]
  <2>1. h \in Seq(R) /\ r \in R
    BY <1>1 DEF Histories
  <2> HIDE DEF R
  <2> QED  BY <2>1, AppendProperties
<1> HIDE DEF g, n
<1>4. g[1] = h[1] /\ h[1].node = EXTERNAL_EVENT
  BY <1>2, <1>3 DEF WalkTo
<1>5. [id |-> id, at |-> IF Len(g) = 1 THEN y ELSE g[2].node] \in E
  <2>1. Len(g) # 1
    BY <1>2, <1>3
  <2>2. CASE n = 1
    <3>1. g[2].node = x
      BY <1>1, <1>3, <2>2
    <3>2. [id |-> id, at |-> x] \in E
      BY <2>2 DEF WalkTo, n
    <3> QED  BY <2>1, <3>1, <3>2
  <2>3. CASE n # 1
    <3>1. g[2] = h[2]
      BY <1>2, <1>3, <2>3
    <3>2. [id |-> id, at |-> h[2].node] \in E
      BY <2>3 DEF WalkTo, n
    <3> QED  BY <2>1, <3>1, <3>2
  <2> QED  BY <2>2, <2>3
<1>6. ASSUME NEW i \in 2 .. Len(g)
      PROVE  <<g[i].node, IF i = Len(g) THEN y ELSE g[i + 1].node>> \in Edges
  <2>1. CASE i = n + 1
    BY <1>1, <1>3, <2>1
  <2>2. CASE i = n
    <3>1. i \in 2 .. Len(h) /\ i = Len(h) /\ i # n + 1
      BY <1>2, <1>3, <2>2 DEF n
    <3>2. <<h[i].node, x>> \in Edges
      BY <3>1 DEF WalkTo
    <3>3. g[i] = h[i] /\ g[i + 1].node = x
      BY <1>1, <1>2, <1>3, <2>2
    <3> QED  BY <1>3, <3>1, <3>2, <3>3
  <2>3. CASE i # n /\ i # n + 1
    <3>1. i \in 2 .. n /\ i + 1 \in 1 .. n /\ i \in 1 .. n
      BY <1>2, <1>3, <2>3
    <3>2. <<h[i].node, h[i + 1].node>> \in Edges
      BY <3>1, <2>3 DEF WalkTo, n
    <3>3. g[i] = h[i] /\ g[i + 1] = h[i + 1]
      BY <1>3, <3>1
    <3> QED  BY <1>3, <2>3, <3>2, <3>3
  <2> QED  BY <2>1, <2>2, <2>3
<1> QED
  BY <1>3, <1>4, <1>5, <1>6 DEF WalkTo, g, r

\* From the top of a history the job came outside, or over an edge.
LEMMA WalkBack ==
    ASSUME NEW E, NEW id, NEW h \in Histories, NEW x, WalkTo(E, id, h, x)
    PROVE  LET top == h[Len(h)].node
           IN  /\ top = EXTERNAL_EVENT => [id |-> id, at |-> x] \in E
               /\ top # EXTERNAL_EVENT =>
                    /\ WalkTo(E, id, SubSeq(h, 1, Len(h) - 1), top)
                    /\ <<top, x>> \in Edges
<1> DEFINE n == Len(h)
           top == h[n].node
           k == n - 1
           g == SubSeq(h, 1, k)
<1>1. n \in Nat /\ n # 0
  BY EmptySeq DEF WalkTo, Histories
<1>2. n # 1 => <<top, x>> \in Edges /\ top \in Vertices /\ top # EXTERNAL_EVENT
  <2>1. ASSUME n # 1
        PROVE  <<top, x>> \in Edges
    <3>1. n \in 2 .. n
      <4> HIDE DEF n
      <4> QED  BY <1>1, <2>1
    <3> QED  BY <3>1 DEF WalkTo
  <2> HIDE DEF top
  <2>2. \A v \in Vertices : v # EXTERNAL_EVENT
    BY NetworkAssumption DEF EXTERNAL_EVENT
  <2> QED
    BY <2>1, <2>2, NetworkAssumption
<1>3. n = 1 => top = EXTERNAL_EVENT /\ [id |-> id, at |-> x] \in E
  BY DEF WalkTo
<1>4. ASSUME n # 1
      PROVE  WalkTo(E, id, g, top)
  <2>1. k \in Int /\ k >= 1 /\ k = n - 1
    <3> HIDE DEF n
    <3> QED  BY <1>1, <1>4
  <2>2. \A i \in 1 .. k : h[i] \in [node : Int, time : Nat]
    <3> TAKE i \in 1 .. k
    <3>1. i \in 1 .. Len(h)
      BY <1>1, <2>1
    <3> QED  BY <3>1, ElementOfSeq DEF Histories
  <2> HIDE DEF k
  <2>3. /\ Len(g) = k /\ g \in Seq([node : Int, time : Nat])
        /\ \A i \in 1 .. k : g[i] = h[i]
    <3>1. /\ g \in Seq([node : Int, time : Nat])
          /\ Len(g) = IF 1 <= k THEN k - 1 + 1 ELSE 0
          /\ \A i \in 1 .. k - 1 + 1 : g[i] = h[1 + i - 1]
      BY <2>1, <2>2, SubSeqProperties
    <3> HIDE DEF g
    <3> QED  BY <2>1, <3>1
  <2> HIDE DEF g, n
  <2>4. g # <<>>
    <3>1. Len(g) # 0
      BY <2>1, <2>3
    <3> QED  BY <3>1, EmptySeq
  <2>5. g[1].node = EXTERNAL_EVENT
    BY <2>1, <2>3 DEF WalkTo
  <2>6. [id |-> id, at |-> IF Len(g) = 1 THEN top ELSE g[2].node] \in E
    <3>1. [id |-> id, at |-> h[2].node] \in E
      BY <1>4 DEF WalkTo, n
    <3>2. CASE k = 1
      <4>1. n = 2
        BY <1>1, <2>1, <3>2
      <4> QED  BY <2>3, <3>1, <3>2, <4>1
    <3>3. CASE k # 1
      <4>1. 2 \in 1 .. k
        <5>1. k \in Int /\ k >= 1
          BY <2>1
        <5> QED  BY <3>3, <5>1
      <4>2. g[2] = h[2]
        BY <2>3, <4>1
      <4> QED  BY <2>3, <3>1, <3>3, <4>2
    <3> QED  BY <3>2, <3>3
  <2>7. ASSUME NEW i \in 2 .. Len(g)
        PROVE  <<g[i].node, IF i = Len(g) THEN top ELSE g[i + 1].node>> \in Edges
    <3>1. i \in 2 .. Len(h) /\ i # n /\ i \in 1 .. k
      BY <1>1, <2>1, <2>3 DEF n
    <3>2. <<h[i].node, h[i + 1].node>> \in Edges
      BY <3>1 DEF WalkTo, n
    <3>3. g[i] = h[i]
      BY <2>3, <3>1
    <3>4. CASE i = Len(g)
      <4>1. i + 1 = n
        BY <1>1, <2>1, <2>3, <3>4
      <4> QED  BY <3>2, <3>3, <3>4, <4>1
    <3>5. CASE i # Len(g)
      <4>1. g[i + 1] = h[i + 1]
        BY <2>1, <2>3, <3>1, <3>5
      <4> QED  BY <3>2, <3>3, <3>5, <4>1
    <3> QED  BY <3>4, <3>5
  <2> QED
    BY <2>4, <2>5, <2>6, <2>7 DEF WalkTo
<1> QED
  BY <1>2, <1>3, <1>4 DEF g, k, n

LEMMA WalkMonotonic ==
    ASSUME NEW E, NEW F, E \subseteq F, NEW id, NEW h, NEW x, WalkTo(E, id, h, x)
    PROVE  WalkTo(F, id, h, x)
  BY DEF WalkTo

\* An iteration makes walks of walks.
LEMMA JourneyStep ==
    ASSUME IInv, JourneyInv, NEW e \in queue, StepOf(e)
    PROVE  JourneyInv'
<1>1. /\ e \in EntryRecord /\ JobOK(e) /\ JourneyOK(e) /\ Time(e) \in Nat
      /\ e.history \in Histories /\ e.origin \in Int
  BY TimeType DEF IInv, TypeOK, EntryRecord, JourneyInv, Histories
<1>2. entered \subseteq entered'
  BY DEF StepOf
<1>3. ASSUME NEW f \in queue
      PROVE  JourneyOK(f)'
  <2>1. JourneyOK(f)
    BY DEF JourneyInv
  <2>2. \A id, h, x : WalkTo(entered, id, h, x) => WalkTo(entered', id, h, x)
    BY <1>2, WalkMonotonic
  <2> QED
    BY <1>2, <2>1, <2>2 DEF JourneyOK
<1>4. ASSUME NEW n \in Pushed
      PROVE  JourneyOK(n)'
  <2>1. Offspring(e, n)
    BY DEF StepOf
  <2>2. CASE NextArrival(e, n)
    BY <2>2 DEF NextArrival, JourneyOK
  <2>3. CASE NextAdmin(e, n)
    BY <2>3 DEF NextAdmin, JourneyOK, PeriodicTypes
  <2>4. CASE ItsDeparture(e, n)
    <3>1. WalkTo(entered', e.id, n.history, e.destination)
      <4>1. CASE e.type = "LAST_ARRIVAL"
        <5>1. e.history = <<>> /\ e.origin = EXTERNAL_EVENT
          BY <1>1, <4>1 DEF JobOK
        <5>2. [id |-> e.id, at |-> e.destination] \in entered'
          BY <4>1 DEF StepOf
        <5>3. n.history = Append(<<>>, [node |-> EXTERNAL_EVENT, time |-> Time(e)])
          BY <2>4, <5>1 DEF ItsDeparture
        <5> QED
          BY <1>1, <5>2, <5>3, WalkStart
      <4>2. CASE e.type = "ARRIVAL"
        <5>1. WalkTo(entered, e.id, e.history, e.origin) /\ <<e.origin, e.destination>> \in Edges
          BY <1>1, <4>2 DEF JourneyOK
        <5>2. WalkTo(entered', e.id, e.history, e.origin)
          BY <1>2, <5>1, WalkMonotonic
        <5>3. n.history = Append(e.history, [node |-> e.origin, time |-> Time(e)])
          BY <2>4 DEF ItsDeparture
        <5> QED
          BY <1>1, <5>1, <5>2, <5>3, WalkExtend
      <4> QED
        BY <2>4, <4>1, <4>2 DEF ItsDeparture
    <3> QED
      BY <2>4, <3>1 DEF ItsDeparture, JourneyOK
  <2>5. CASE ItsHop(e, n) \/ ItsTurn(e, n)
    <3>1. WalkTo(entered', e.id, e.history, e.destination) /\ e.origin = e.destination
      BY <1>1, <1>2, <2>5, WalkMonotonic DEF JourneyOK, ItsHop, ItsTurn
    <3>2. e.history # <<>>
      BY <3>1 DEF WalkTo
    <3> QED
      BY <2>5, <3>1, <3>2 DEF ItsHop, ItsTurn, JourneyOK
  <2>6. CASE ItsAck(e, n) \/ ItsNotice(e, n)
    <3>1. e.type = "ACK" /\ Top(e) # EXTERNAL_EVENT /\ n.history = PopHistory(e).history
      BY <2>6 DEF ItsAck, ItsNotice
    <3>2. WalkTo(entered', e.id, e.history, e.destination)
      BY <1>1, <1>2, <3>1, WalkMonotonic DEF JourneyOK
    <3>3. n.history = SubSeq(e.history, 1, Len(e.history) - 1)
      BY <1>1, <3>1, PopShape
    <3>4. WalkTo(entered', e.id, n.history, Top(e)) /\ <<Top(e), e.destination>> \in Edges
      BY <1>1, <3>1, <3>2, <3>3, WalkBack DEF Top
    <3>5. n.history # <<>>
      BY <3>4 DEF WalkTo
    <3> QED
      BY <2>6, <3>4, <3>5 DEF ItsAck, ItsNotice, JourneyOK
  <2>7. CASE ItsLeave(e, n)
    <3>1. WalkTo(entered', e.id, e.history, e.destination) /\ Top(e) = EXTERNAL_EVENT
      BY <1>1, <1>2, <2>7, WalkMonotonic DEF JourneyOK, ItsLeave
    <3>2. [id |-> e.id, at |-> e.destination] \in entered'
      BY <1>1, <3>1, WalkBack DEF Top
    <3> QED
      BY <2>7, <3>2 DEF ItsLeave, JourneyOK
  <2> QED
    BY <2>1, <2>2, <2>3, <2>4, <2>5, <2>6, <2>7 DEF Offspring
<1>5. left' \subseteq entered'
  BY <1>1, <1>2 DEF StepOf, JourneyInv, JourneyOK
<1>6. \A f \in queue' : f \in queue \/ f \in Pushed
  BY DEF Pushed
<1> QED
  BY <1>3, <1>4, <1>5, <1>6 DEF JourneyInv

\* An iteration hands an identity on, or takes a new one.
LEMMA JobStep ==
    ASSUME IInv, IInv', JourneyInv, JobInv, NEW e \in queue, StepOf(e), StepGoesOn(e)
    PROVE  JobInv'
<1>1. /\ uid \in Nat /\ uid' \in Nat /\ uid' >= uid
      /\ \A f \in queue : f.id \in Nat /\ f.id <= uid
      /\ \A job \in entered : job.id \in Nat /\ job.id <= uid
      /\ \A gone \in left : gone.id \in Nat
  BY DEF IInv, TypeOK, EntryRecord, JobInv, StepOf
<1>2. ASSUME NEW n \in Pushed
      PROVE  /\ n \in queue' /\ n.gid \in Nat /\ n.gid > uid /\ n.gid <= uid'
             /\ n.id = n.gid \/ (n.id = e.id /\ e.type # "ACK_1HOP")
  <2>1. Offspring(e, n) /\ n \in queue'
    BY DEF StepOf, Pushed
  <2>2. n.gid <= uid'
    BY <2>1 DEF IInv, Numbered
  <2> QED
    BY <2>1, <2>2 DEF Offspring, NextArrival, NextAdmin, ItsDeparture, ItsHop, ItsTurn,
                      ItsAck, ItsNotice, ItsLeave
<1>3. \A f \in queue' : f \in Pushed \/ (f \in queue /\ f # e)
  BY DEF StepOf, Pushed
<1>4. \A f \in queue' : f.id <= uid'
  BY <1>1, <1>2, <1>3
<1>5. \A job \in entered' : job.id <= uid'
  <2>1. \A job \in entered' : job \in entered \/ job.id = e.id
    BY DEF StepOf
  <2> QED
    BY <1>1, <2>1
<1>6. ASSUME NEW f \in queue', NEW g \in queue', f.id = g.id,
             f.type # "ACK_1HOP", g.type # "ACK_1HOP"
      PROVE  f = g
  <2>1. CASE f \in Pushed /\ g \in Pushed
    BY <1>6, <2>1 DEF StepOf
  <2>2. CASE f \in queue \ {e} /\ g \in queue \ {e}
    BY <1>6, <2>2 DEF JobInv
  <2>3. ASSUME NEW a \in Pushed, NEW b \in queue \ {e}, b.type # "ACK_1HOP"
        PROVE  a.id # b.id
    <3>1. CASE a.id = a.gid
      BY <1>1, <1>2, <3>1
    <3>2. CASE a.id = e.id /\ e.type # "ACK_1HOP"
      BY <2>3, <3>2 DEF JobInv
    <3> QED
      BY <1>2, <3>1, <3>2
  <2> QED
    BY <1>3, <1>6, <2>1, <2>2, <2>3
<1>7. ASSUME NEW gone \in left', NEW f \in queue', f.type # "ACK_1HOP"
      PROVE  f.id # gone.id
  <2>1. CASE gone \in left
    <3>1. CASE f \in queue
      BY <1>7, <2>1, <3>1 DEF JobInv
    <3>2. CASE f \in Pushed
      <4>1. e.type # "ACK_1HOP" => e.id # gone.id
        BY <2>1 DEF JobInv
      <4>2. gone.id <= uid
        <5>1. \E job \in entered : job.id = gone.id
          <6>1. left \subseteq entered
            BY DEF JourneyInv
          <6> QED  BY <2>1, <6>1
        <5> QED  BY <1>1, <5>1
      <4> QED
        BY <1>1, <1>2, <2>1, <3>2, <4>1, <4>2
    <3> QED  BY <1>3, <3>1, <3>2
  <2>2. CASE gone \notin left
    <3>1. e.type = "LEAVE" /\ gone.id = e.id
      BY <2>2 DEF StepOf
    <3>2. Pushed = {}
      BY <3>1 DEF StepOf, Offspring, NextArrival, NextAdmin, ItsDeparture, ItsHop, ItsTurn,
                  ItsAck, ItsNotice, ItsLeave, PeriodicTypes
    <3>3. f \in queue /\ f # e
      BY <1>3, <3>2
    <3> QED
      BY <1>7, <3>1, <3>3 DEF JobInv
  <2> QED
    BY <2>1, <2>2
<1>8. ASSUME status' = "running", NEW job \in entered',
             \A gone \in left' : gone.id # job.id
      PROVE  \E f \in queue' : f.id = job.id /\ f.type \in Moving
  <2>1. CASE job.id = e.id /\ e.type \in {"LAST_ARRIVAL", "ARRIVAL", "DEPARTURE", "ACK"}
    BY <1>2, <1>8, <2>1 DEF StepGoesOn
  <2>2. CASE job \in entered /\ ~ (job.id = e.id /\ e.type \in {"LAST_ARRIVAL", "ARRIVAL", "DEPARTURE", "ACK"})
    <3>1. PICK f \in queue : f.id = job.id /\ f.type \in Moving
      BY <1>8, <2>2 DEF JobInv, StepGoesOn, StepOf
    <3>2. f # e
      <4>1. ASSUME f = e
            PROVE  FALSE
        <5>1. e.type = "LEAVE" /\ e.id = job.id
          BY <2>2, <3>1, <4>1 DEF Moving
        <5>2. [id |-> e.id, at |-> e.origin] \in left'
          BY <5>1 DEF StepOf
        <5> QED
          BY <1>8, <5>1, <5>2
      <4> QED  BY <4>1
    <3> QED
      BY <3>1, <3>2 DEF StepOf
  <2> QED
    BY <2>1, <2>2 DEF StepOf
<1> QED
  BY <1>4, <1>5, <1>6, <1>7, <1>8 DEF JobInv

\* An external arrival is consumed by the one that pushes its successor.
LEMMA PendingStep ==
    ASSUME ArrivalInv, NEW e \in queue, StepOf(e), StepGoesOn(e)
    PROVE  ArrivalInv'
<1> SUFFICES ASSUME status' = "running"
             PROVE  ArrivalInv'
  BY DEF ArrivalInv
<1>1. \A f \in queue' : f \in Pushed \/ (f \in queue /\ f # e)
  BY DEF StepOf, Pushed
<1>2. \A n \in Pushed : n \in queue' /\ n.type # "GENERATE_ARRIVAL"
  BY DEF StepOf, Offspring, NextArrival, NextAdmin, ItsDeparture, ItsHop, ItsTurn,
         ItsAck, ItsNotice, ItsLeave, PeriodicTypes, Pushed
<1>3. ASSUME NEW n \in Pushed, n.type = "LAST_ARRIVAL"
      PROVE  /\ n.destination \in Vertices
             /\ \/ e.type = "LAST_ARRIVAL" /\ n.destination = e.destination
                \/ e.type = "GENERATE_ARRIVAL"
  BY <1>3 DEF StepOf, Offspring, NextArrival, NextAdmin, ItsDeparture, ItsHop, ItsTurn,
              ItsAck, ItsNotice, ItsLeave, PeriodicTypes
<1>4. status = "running"
  BY DEF StepGoesOn
<1>5. \A f, g \in queue' :
        f.type = "GENERATE_ARRIVAL" /\ g.type = "GENERATE_ARRIVAL" => f = g
  BY <1>1, <1>2, <1>4 DEF ArrivalInv
<1>6. \/ \E f \in queue' : f.type = "GENERATE_ARRIVAL"
      \/ \A v \in Vertices : Pending("LAST_ARRIVAL", v)' # {}
  <2>1. CASE e.type = "GENERATE_ARRIVAL"
    BY <1>2, <1>4, <2>1 DEF StepGoesOn, Pending
  <2>2. CASE e.type # "GENERATE_ARRIVAL" /\ \E f \in queue : f.type = "GENERATE_ARRIVAL"
    BY <2>2 DEF StepOf
  <2>3. CASE \A v \in Vertices : Pending("LAST_ARRIVAL", v) # {}
    <3> SUFFICES ASSUME NEW v \in Vertices
                 PROVE  \E f \in queue' : f.type = "LAST_ARRIVAL" /\ f.destination = v
      BY DEF Pending
    <3>1. PICK f \in queue : f.type = "LAST_ARRIVAL" /\ f.destination = v
      BY <2>3 DEF Pending
    <3>2. CASE f = e
      BY <1>2, <1>4, <3>1, <3>2 DEF StepGoesOn
    <3>3. CASE f # e
      BY <3>1, <3>3 DEF StepOf
    <3> QED  BY <3>2, <3>3
  <2> QED
    BY <1>4, <2>1, <2>2, <2>3 DEF ArrivalInv
<1>7. (\E f \in queue' : f.type = "GENERATE_ARRIVAL") =>
        \A f \in queue' : f.type # "LAST_ARRIVAL"
  <2> SUFFICES ASSUME NEW g \in queue', g.type = "GENERATE_ARRIVAL",
                      NEW f \in queue', f.type = "LAST_ARRIVAL"
               PROVE  FALSE
    OBVIOUS
  <2>1. g \in queue /\ g # e
    BY <1>1, <1>2
  <2>2. e.type # "GENERATE_ARRIVAL" /\ e.type # "LAST_ARRIVAL"
    BY <1>4, <2>1 DEF ArrivalInv
  <2>3. f \in queue
    BY <1>1, <1>3, <2>2
  <2> QED
    BY <1>4, <2>1, <2>3 DEF ArrivalInv
<1>8. ASSUME NEW f \in queue', NEW g \in queue', f.type = "LAST_ARRIVAL",
             g.type = "LAST_ARRIVAL", f.destination = g.destination
      PROVE  f = g
  <2>1. CASE f \in Pushed /\ g \in Pushed
    BY <1>8, <2>1 DEF StepOf
  <2>2. CASE f \in queue \ {e} /\ g \in queue \ {e}
    BY <1>4, <1>8, <2>2 DEF ArrivalInv
  <2>3. ASSUME NEW a \in Pushed, NEW b \in queue \ {e}, a.type = "LAST_ARRIVAL",
               b.type = "LAST_ARRIVAL"
        PROVE  a.destination # b.destination
    BY <1>3, <1>4, <2>3 DEF ArrivalInv
  <2> QED
    BY <1>1, <1>8, <2>1, <2>2, <2>3
<1> QED
  BY <1>5, <1>6, <1>7, <1>8 DEF ArrivalInv

-----------------------------------------------------------------------------
(* The invariants are inductive.                                           *)

\* The entries the loop starts with.
LEMMA InitQueue ==
    ASSUME Init
    PROVE  /\ \A e \in queue : e.id = e.gid /\ e.id <= uid
                               /\ e.type \in PeriodicTypes \cup {"GENERATE_ARRIVAL"}
           /\ \A e, f \in queue : e.id = f.id => e = f
           /\ \E e \in queue : e.type = "GENERATE_ARRIVAL"
           /\ \A e, f \in queue :
                e.type = "GENERATE_ARRIVAL" /\ f.type = "GENERATE_ARRIVAL" => e = f
<1> DEFINE types == PeriodicTypes \cup {"GENERATE_ARRIVAL"}
           IfOn(type) == IF type \in Optional THEN <<type>> ELSE <<>>
           a == IfOn("SERIALISE_ARRIVAL")
           b == IfOn("LOG_GRAPH")
           c == IfOn("SYSTEM_STATISTICS")
           n == Len(Scheduled)
           First(k) == [gid |-> k, id |-> k, arrival |-> 0, destination |-> NoVertex,
                        origin |-> ADMIN_EVENT, type |-> Scheduled[k], history |-> <<>>]
<1>1. Scheduled = a \o <<"GENERATE_ARRIVAL">> \o b \o c
  BY DEF Scheduled
<1>2. /\ a = <<>> \/ a = <<"SERIALISE_ARRIVAL">>
      /\ b = <<>> \/ b = <<"LOG_GRAPH">>
      /\ c = <<>> \/ c = <<"SYSTEM_STATISTICS">>
  OBVIOUS
<1> HIDE DEF a, b, c, n
<1>3. /\ n \in Nat /\ DOMAIN Scheduled = 1 .. n
      /\ \A k \in 1 .. n : Scheduled[k] \in types
      /\ \A k \in 1 .. n : Scheduled[k] = "GENERATE_ARRIVAL" <=> k = Len(a) + 1
      /\ Len(a) + 1 \in 1 .. n
  <2>1. CASE a = <<>>
    BY <1>1, <1>2, <2>1 DEF n, PeriodicTypes
  <2>2. CASE a = <<"SERIALISE_ARRIVAL">>
    BY <1>1, <1>2, <2>2 DEF n, PeriodicTypes
  <2> QED
    BY <1>2, <2>1, <2>2
<1>4. queue = {First(k) : k \in 1 .. n} /\ uid = n
  BY <1>3 DEF Init, n
<1>5. \A k \in 1 .. n : First(k).id = k /\ First(k).gid = k /\ First(k).type = Scheduled[k]
  OBVIOUS
<1> HIDE DEF First
<1>6. \A k \in 1 .. n : k <= n
  BY <1>3
<1> QED
  BY <1>3, <1>4, <1>5, <1>6

JInv == IInv /\ JourneyInv /\ JobInv /\ ArrivalInv

LEMMA InitJInv == Init => JInv
<1> SUFFICES ASSUME Init
             PROVE  JInv
  OBVIOUS
<1>1. entered = {} /\ left = {}
  BY DEF Init
<1>2. \A e \in queue : e.type \notin Moving \cup {"LAST_ARRIVAL", "ACK_1HOP"}
  BY InitQueue DEF PeriodicTypes, Moving
<1>3. JourneyInv
  BY <1>1, <1>2 DEF JourneyInv, JourneyOK, Moving
<1>4. JobInv
  BY <1>1, InitQueue DEF JobInv
<1>5. ArrivalInv
  BY <1>2, InitQueue DEF ArrivalInv
<1> QED
  BY <1>3, <1>4, <1>5, InitIInv DEF JInv

LEMMA NextJInv == JInv /\ [Next]_vars => JInv'
<1> SUFFICES ASSUME JInv, [Next]_vars
             PROVE  JInv'
  OBVIOUS
<1>1. IInv'
  BY NextIInv DEF JInv
<1>2. CASE UNCHANGED vars
  <2>1. JourneyInv'
    BY <1>2 DEF JInv, JourneyInv, JourneyOK, vars, journeyVars
  <2>2. JobInv'
    BY <1>2 DEF JInv, JobInv, vars, journeyVars
  <2>3. ArrivalInv'
    BY <1>2 DEF JInv, ArrivalInv, Pending, vars
  <2> QED
    BY <1>1, <2>1, <2>2, <2>3 DEF JInv
<1>3. CASE \E r : End(r)
  BY <1>1, <1>3 DEF End, JInv, JourneyInv, JobInv, ArrivalInv, journeyVars
<1>4. CASE \E e \in queue : StepOf(e) /\ StepGoesOn(e)
  BY <1>1, <1>4, JourneyStep, JobStep, PendingStep DEF JInv
<1>5. CASE Running
  BY <1>1, <1>3, <1>4, <1>5, RunningStep DEF JInv, JobInv
<1> QED
  BY <1>2, <1>5 DEF Next, Terminated

LEMMA JInvAlways == Spec => []JInv
  BY InitJInv, NextJInv, PTL DEF Spec

\* In every network, configuration and order of the queue the history of an
\* entry that departs or is acknowledged is the walk its job took: the
\* handlers push and pop the stack in step with the moves.
THEOREM HistoryIsWalkHolds == Spec => []HistoryIsWalk
<1>1. ASSUME JInv
      PROVE  HistoryIsWalk
  <2> SUFFICES ASSUME NEW e \in queue, e.type \in {"DEPARTURE", "ACK"}
               PROVE  /\ e.history # <<>>
                      /\ Walk(e)[1] = EXTERNAL_EVENT
                      /\ [id |-> e.id, at |-> Walk(e)[2]] \in entered
                      /\ \A i \in 2 .. Len(e.history) : <<Walk(e)[i], Walk(e)[i + 1]>> \in Edges
    BY DEF HistoryIsWalk
  <2> DEFINE h == e.history
             n == Len(h)
  <2>1. WalkTo(entered, e.id, h, e.destination)
    BY <1>1 DEF JInv, JourneyInv, JourneyOK
  <2>2. h \in Histories
    BY <1>1 DEF JInv, IInv, TypeOK, EntryRecord, Histories
  <2> HIDE DEF h
  <2>3. n \in Nat /\ n # 0
    BY <2>1, <2>2, EmptySeq DEF WalkTo, Histories
  <2> HIDE DEF n
  <2>4. \A i \in 1 .. n + 1 : Walk(e)[i] = IF i <= n THEN h[i].node ELSE e.destination
    BY DEF Walk, h, n
  <2>5. Walk(e)[1] = h[1].node /\ Walk(e)[2] = IF n = 1 THEN e.destination ELSE h[2].node
    BY <2>3, <2>4
  <2>6. ASSUME NEW i \in 2 .. n
        PROVE  <<Walk(e)[i], Walk(e)[i + 1]>> \in Edges
    <3>1. <<h[i].node, IF i = n THEN e.destination ELSE h[i + 1].node>> \in Edges
      BY <2>1 DEF WalkTo, n
    <3>2. Walk(e)[i] = h[i].node
      BY <2>3, <2>4
    <3>3. Walk(e)[i + 1] = IF i = n THEN e.destination ELSE h[i + 1].node
      BY <2>3, <2>4
    <3> QED  BY <3>1, <3>2, <3>3
  <2> QED
    BY <2>1, <2>5, <2>6 DEF WalkTo, n, h
<1> QED
  BY <1>1, JInvAlways, PTL

\* The edge and the history that the response handlers look up are there.
THEOREM AckFromSuccessorHolds == Spec => []AckFromSuccessor
<1>1. JInv => AckFromSuccessor
  BY DEF JInv, JourneyInv, JourneyOK, AckFromSuccessor
<1> QED
  BY <1>1, JInvAlways, PTL

\* A job is filed by LeaveHandler under the vertex where it came in.
THEOREM LeavesWhereItEnteredHolds == Spec => []LeavesWhereItEntered
<1>1. JInv => LeavesWhereItEntered
  BY DEF JInv, JourneyInv, LeavesWhereItEntered
<1> QED
  BY <1>1, JInvAlways, PTL

\* A job that has entered and not left is in the queue as exactly one entry.
THEOREM OneEntryPerJobHolds == Spec => []OneEntryPerJob
<1>1. ASSUME JInv
      PROVE  OneEntryPerJob
  <2> SUFFICES ASSUME status = "running", NEW job \in entered
               PROVE  Cardinality({e \in queue : e.id = job.id /\ e.type # "ACK_1HOP"}) =
                        IF \E gone \in left : gone.id = job.id THEN 0 ELSE 1
    BY DEF OneEntryPerJob
  <2> DEFINE E == {e \in queue : e.id = job.id /\ e.type # "ACK_1HOP"}
  <2>1. CASE \E gone \in left : gone.id = job.id
    <3>1. E = {}
      BY <1>1, <2>1 DEF JInv, JobInv
    <3> QED  BY <2>1, <3>1, FS_EmptySet
  <2>2. CASE ~ \E gone \in left : gone.id = job.id
    <3>1. PICK e \in queue : e.id = job.id /\ e.type \in Moving
      BY <1>1, <2>2 DEF JInv, JobInv
    <3>2. E = {e}
      BY <1>1, <3>1 DEF JInv, JobInv, Moving
    <3> QED  BY <2>2, <3>2, FS_Singleton
  <2> QED
    BY <2>1, <2>2
<1> QED
  BY <1>1, JInvAlways, PTL

\* Once the first arrivals are generated, one external arrival is ahead of
\* every vertex.
THEOREM OneArrivalAheadHolds == Spec => []OneArrivalAhead
<1>1. ASSUME JInv
      PROVE  OneArrivalAhead
  <2> SUFFICES ASSUME status = "running", NEW v \in Vertices,
                      ~ \E e \in queue : e.type = "GENERATE_ARRIVAL"
               PROVE  Cardinality(Pending("LAST_ARRIVAL", v)) = 1
    BY DEF OneArrivalAhead
  <2>1. PICK e : e \in Pending("LAST_ARRIVAL", v)
    BY <1>1 DEF JInv, ArrivalInv
  <2>2. Pending("LAST_ARRIVAL", v) = {e}
    BY <1>1, <2>1 DEF JInv, ArrivalInv, Pending
  <2> QED
    BY <2>2, FS_Singleton
<1> QED
  BY <1>1, JInvAlways, PTL

-----------------------------------------------------------------------------
(* The statistics of the servers.                                          *)

\* The inductive invariant: no event at a vertex lies ahead of the loop.
StatInv ==
    /\ \A v \in Vertices : lastEvent[v] <= now
    /\ BusyTimeExact

\* How an iteration at time t changes the sums of vertex v: the time since the
\* last event there counts if the server was busy.
Settles(v, t) ==
    /\ lastEvent' = [lastEvent EXCEPT ![v] = t]
    /\ Bdt' = [Bdt EXCEPT ![v] = @ + IF busy[v] THEN t - lastEvent[v] ELSE 0]
    /\ \A w \in Vertices \ {v} : busy'[w] = busy[w]

\* The reference value of a vertex where nothing happens goes on.
LEMMA BystanderStat ==
    ASSUME IInv, StatInv, NEW t \in Nat, t >= now, now' = t,
           Elapse(t), NEW w \in Vertices, busy'[w] = busy[w],
           Bdt'[w] = Bdt[w], lastEvent'[w] = lastEvent[w]
    PROVE  /\ lastEvent'[w] <= now'
           /\ Bdt'[w] = busyTime'[w] - IF busy'[w] THEN now' - lastEvent'[w] ELSE 0
<1>1. /\ busyTime'[w] = busyTime[w] + IF busy[w] THEN t - now ELSE 0
      /\ Bdt[w] = busyTime[w] - IF busy[w] THEN now - lastEvent[w] ELSE 0
      /\ lastEvent[w] <= now
  BY DEF Elapse, StatInv, BusyTimeExact
<1>2. now \in Nat /\ lastEvent[w] \in Nat /\ busyTime[w] \in Nat /\ Bdt[w] \in Nat
  BY DEF IInv, TypeOK
<1> QED
  BY <1>1, <1>2

\* Nothing happens at the servers, and time goes on.
LEMMA IdleKeepsStat ==
    ASSUME IInv, StatInv, NEW t \in Nat, t >= now, now' = t, Elapse(t),
           \A w \in Vertices : busy'[w] = busy[w], UNCHANGED statVars
    PROVE  StatInv'
<1>1. \A w \in Vertices :
        /\ lastEvent'[w] <= now'
        /\ Bdt'[w] = busyTime'[w] - IF busy'[w] THEN now' - lastEvent'[w] ELSE 0
  BY BystanderStat DEF statVars
<1> QED
  BY <1>1 DEF StatInv, BusyTimeExact

LEMMA SettlesStat ==
    ASSUME IInv, StatInv, NEW t \in Nat, t >= now, now' = t,
           Elapse(t), NEW v \in Vertices, Settles(v, t)
    PROVE  StatInv'
<1>1. /\ now \in Nat /\ lastEvent \in [Vertices -> Nat] /\ Bdt \in [Vertices -> Nat]
      /\ busyTime \in [Vertices -> Nat]
  BY DEF IInv, TypeOK
<1>2. ASSUME NEW w \in Vertices \ {v}
      PROVE  /\ lastEvent'[w] <= now'
             /\ Bdt'[w] = busyTime'[w] - IF busy'[w] THEN now' - lastEvent'[w] ELSE 0
  BY <1>1, BystanderStat DEF Settles
<1>3. /\ lastEvent'[v] <= now'
      /\ Bdt'[v] = busyTime'[v] - IF busy'[v] THEN now' - lastEvent'[v] ELSE 0
  <2>1. /\ lastEvent'[v] = t
        /\ Bdt'[v] = Bdt[v] + IF busy[v] THEN t - lastEvent[v] ELSE 0
        /\ busyTime'[v] = busyTime[v] + IF busy[v] THEN t - now ELSE 0
        /\ Bdt[v] = busyTime[v] - IF busy[v] THEN now - lastEvent[v] ELSE 0
    BY <1>1 DEF Settles, Elapse, StatInv, BusyTimeExact
  <2>2. lastEvent[v] \in Nat /\ Bdt[v] \in Nat /\ busyTime[v] \in Nat
    BY <1>1
  <2> QED
    BY <1>1, <2>1, <2>2
<1> QED
  BY <1>2, <1>3 DEF StatInv, BusyTimeExact

LEMMA BystanderKeepsStat ==
    ASSUME IInv, StatInv, status = "running", NEW e \in queue, Quiet(e), Bystander
    PROVE  StatInv'
<1>1. Elapse(Time(e)) /\ now' = Time(e) /\ Time(e) \in Nat /\ Time(e) >= now
  BY TimeType DEF IInv, Quiet, Pushes, Iterate
<1>2. busy' = busy /\ UNCHANGED statVars
  BY DEF Bystander, serverVars
<1> QED
  BY <1>1, <1>2, IdleKeepsStat

\* An arrival settles the sums of its vertex.  The departure of an idle server
\* lies after its arrival: a push that is refused finds the server busy, and no
\* time of it goes uncounted.
LEMMA ArriveKeepsStat ==
    ASSUME IInv, StatInv, status = "running", NEW e \in queue, NEW scheduled,
           NEW k, Arrive(e, scheduled, k)
    PROVE  StatInv'
<1> DEFINE v == e.destination
           t == Time(e)
<1>1. PICK service \in Services :
        LET departure == DepartureTime(v, t, service)
        IN  /\ Occupy(v, departure)
            /\ Accept(e, departure, scheduled, k) \/ Refuse(e, departure, scheduled)
  BY DEF Arrive
<1> DEFINE departure == DepartureTime(v, t, service)
<1>2. /\ v \in Vertices /\ t \in Nat /\ t >= now
      /\ busy \in [Vertices -> BOOLEAN] /\ numberInQueue \in [Vertices -> Nat]
      /\ lastEvent[v] \in Nat /\ now \in Nat /\ lastEvent[v] <= now
      /\ ~ busy[v] => numberInQueue[v] = 0
  BY TimeType DEF IInv, TypeOK, Arrive, StatInv, ServerBooks
<1>3. CASE Refuse(e, departure, scheduled)
  <2>1. /\ departure < e.arrival /\ Elapse(t) /\ now' = t /\ UNCHANGED statVars
        /\ busy' = [busy EXCEPT ![v] = TRUE]
    BY <1>1, <1>3 DEF Refuse, Iterate, Occupy
  <2>2. busy[v]
    <3>1. service \in Nat /\ e.arrival \in Nat
      BY ConfigAssumption DEF IInv, TypeOK, EntryRecord
    <3>2. t >= e.arrival
      BY <1>2, <3>1 DEF Time
    <3>3. ~ busy[v] => departure = t + service
      BY DEF DepartureTime
    <3> HIDE DEF v, t, departure
    <3> QED
      BY <1>2, <2>1, <3>1, <3>2, <3>3
  <2>3. \A w \in Vertices : busy'[w] = busy[w]
    BY <1>2, <2>1, <2>2
  <2> HIDE DEF v, t, departure
  <2> QED
    BY <1>2, <2>1, <2>3, IdleKeepsStat
<1>4. CASE Accept(e, departure, scheduled, k)
  <2>1. PostAny(v, t, FALSE) /\ Elapse(t) /\ now' = t
    BY <1>4 DEF Accept, Iterate
  <2>2. /\ numberInQueue'[v] = IF busy[v] THEN numberInQueue[v] + 1 ELSE numberInQueue[v]
        /\ \A w \in Vertices \ {v} : busy'[w] = busy[w]
    <3>1. busy' = [busy EXCEPT ![v] = TRUE]
      BY <1>1 DEF Occupy
    <3>2. numberInQueue' = [numberInQueue EXCEPT ![v] =
                              IF busy[v] THEN numberInQueue[v] + 1 ELSE numberInQueue[v]]
      BY <1>1 DEF Occupy
    <3> HIDE DEF v
    <3> QED  BY <1>2, <3>1, <3>2
  <2>3. Counts(v, FALSE) <=> busy[v]
    <3>1. numberInQueue[v] \in Nat
      BY <1>2
    <3> HIDE DEF v
    <3>2. Counts(v, FALSE) <=> numberInQueue'[v] > 0
      BY DEF Counts
    <3>3. busy[v] => numberInQueue'[v] > 0
      BY <2>2, <3>1
    <3>4. ~ busy[v] => ~ (numberInQueue'[v] > 0)
      BY <1>2, <2>2
    <3> QED  BY <3>2, <3>3, <3>4, Zenon
  <2>4. Since(v, t) = t - lastEvent[v]
    BY <1>2 DEF Since
  <2>5. /\ lastEvent' = [lastEvent EXCEPT ![v] = t]
        /\ Bdt' = [Bdt EXCEPT ![v] = @ + IF Counts(v, FALSE) THEN Since(v, t) ELSE 0]
    BY <2>1 DEF PostAny, Utilisation, LastEvent
  <2>6. Settles(v, t)
    BY <2>2, <2>3, <2>4, <2>5 DEF Settles
  <2> HIDE DEF v, t
  <2> QED
    BY <1>2, <2>1, <2>6, SettlesStat
<1> QED
  BY <1>1, <1>3, <1>4

\* A departure settles the sums of its vertex: its server is busy.
LEMMA DepartureKeepsStat ==
    ASSUME IInv, StatInv, status = "running", NEW e \in queue, Departure(e)
    PROVE  StatInv'
<1> DEFINE v == e.destination
           t == Time(e)
<1>1. e.type = "DEPARTURE" /\ v \in Vertices /\ Release(v) /\ PostAny(v, t, TRUE)
  BY DEF Departure
<1>2. /\ t \in Nat /\ t >= now
      /\ busy \in [Vertices -> BOOLEAN] /\ numberInQueue \in [Vertices -> Nat]
      /\ lastEvent[v] \in Nat /\ now \in Nat /\ lastEvent[v] <= now
  BY <1>1, TimeType DEF IInv, TypeOK, StatInv
<1>3. Elapse(t) /\ now' = t
  BY DEF Departure, Iterate
<1>4. busy[v]
  <2>1. e \in Departures(v)
    BY <1>1 DEF Departures
  <2>2. Cardinality(Departures(v)) # 0
    BY <2>1, FiniteDepartures, FS_EmptySet DEF IInv
  <2>3. /\ Cardinality(Departures(v)) = numberInQueue[v] + IF busy[v] THEN 1 ELSE 0
        /\ ~ busy[v] => numberInQueue[v] = 0
    BY <1>1 DEF IInv, ServerBooks, InStep
  <2> QED
    BY <2>2, <2>3
<1>5. \A w \in Vertices \ {v} : busy'[w] = busy[w]
  BY <1>1, <1>2 DEF Release
<1>6. Since(v, t) = t - lastEvent[v]
  BY <1>2 DEF Since
<1>7. /\ lastEvent' = [lastEvent EXCEPT ![v] = t]
      /\ Bdt' = [Bdt EXCEPT ![v] = @ + Since(v, t)]
  BY <1>1 DEF PostAny, Utilisation, LastEvent, Counts
<1>8. Settles(v, t)
  BY <1>4, <1>5, <1>6, <1>7 DEF Settles
<1> HIDE DEF v, t
<1> QED
  BY <1>1, <1>2, <1>3, <1>8, SettlesStat

LEMMA NextStatInv == IInv /\ StatInv /\ [Next]_vars => StatInv'
<1> SUFFICES ASSUME IInv, StatInv, [Next]_vars
             PROVE  StatInv'
  OBVIOUS
<1>1. CASE UNCHANGED vars
  BY <1>1 DEF StatInv, BusyTimeExact, vars, statVars, serverVars
<1>2. CASE Running
  <2>1. PICK r \in Dequeued : Process(r)
    BY <1>2 DEF Running
  <2>2. status = "running" /\ (r = NULL \/ r \in queue) /\ (queue = {} => r = NULL)
    BY <1>2 DEF Running, Dequeued
  <2>3. CASE End(r)
    <3>1. now' \in Nat /\ now' >= now
      <4>1. now \in Nat
        BY DEF IInv, TypeOK
      <4>2. CASE r = NULL
        BY <2>3, <4>1, <4>2 DEF End
      <4>3. CASE r # NULL
        BY <2>2, <2>3, <4>3, TimeType DEF End, IInv
      <4> QED
        BY <4>2, <4>3
    <3> QED
      BY <2>3, <3>1, IdleKeepsStat DEF End, serverVars
  <2>4. CASE r # NULL /\ Admin(r)
    BY <2>2, <2>4, AdminQuiet, BystanderKeepsStat
  <2>5. CASE r # NULL /\ Job(r)
    <3>1. CASE Ack(r) \/ Ack1Hop(r) \/ Leave(r)
      BY <2>2, <2>5, <3>1, AckOrLeaveQuiet, BystanderKeepsStat
    <3>2. CASE Arrival(r) \/ LastArrival(r)
      BY <2>2, <2>5, <3>2, ArriveKeepsStat DEF Arrival, LastArrival
    <3>3. CASE Departure(r)
      BY <2>2, <2>5, <3>3, DepartureKeepsStat
    <3> QED
      BY <2>5, <3>1, <3>2, <3>3 DEF Job
  <2> QED
    BY <2>1, <2>3, <2>4, <2>5 DEF Process
<1> QED
  BY <1>1, <1>2 DEF Next, Terminated

\* In every network, configuration and order of the queue Bdt is the time the
\* server has been busy, up to its last event: while the loop runs, after a
\* refused departure has ended it, and when it has reached its stop time.
THEOREM BusyTimeExactHolds == Spec => []BusyTimeExact
<1>1. Init => StatInv
  BY DEF Init, StatInv, BusyTimeExact
<1>2. StatInv => BusyTimeExact
  BY DEF StatInv
<1> QED
  BY <1>1, <1>2, NextStatInv, InitIInv, NextIInv, PTL DEF Spec

-----------------------------------------------------------------------------
(* The times of the entries, when the queue returns them in order.         *)

\* The last departure of a busy server is at serviceEnds, and the periodic
\* events lie where their counters say.
TimeInv ==
    /\ NoPastSchedule
    /\ \A e \in queue : e.type \in {"LOG_GRAPH", "SERIALISE_ARRIVAL"} =>
                          e.arrival <= ticks[e.type] * Interval[e.type]
    /\ \A v \in Vertices :
         /\ \A d \in Departures(v) : d.arrival <= serviceEnds[v]
         /\ status = "running" /\ busy[v] =>
              \E d \in Departures(v) : d.arrival = serviceEnds[v]
         /\ \A c, d \in Departures(v) : c.gid = d.gid => c = d

\* The entry of an iteration is the first of the queue.
Ordered(e) == /\ IsFirst(e) /\ Time(e) = e.arrival
              /\ \A f \in queue : e.arrival <= f.arrival

LEMMA FirstIsOrdered ==
    ASSUME MaxMisorders = 0, IInv, TimeInv, NEW e \in Dequeued, e \in queue
    PROVE  Ordered(e)
<1>1. misorders \in Nat /\ \A f \in queue : f.arrival \in Nat
  BY DEF IInv, TypeOK, EntryRecord
<1>2. IsFirst(e)
  BY <1>1 DEF Dequeued
<1>3. \A f \in queue : e.arrival <= f.arrival
  BY <1>1, <1>2 DEF IsFirst, Before
<1>4. e.arrival >= now /\ now \in Nat
  BY DEF TimeInv, NoPastSchedule, IInv, TypeOK
<1> QED
  BY <1>1, <1>2, <1>3, <1>4 DEF Ordered, Time

\* The counters of the periodic events do not go back.
LEMMA TicksGrow ==
    ASSUME IInv, NEW e \in queue, Admin(e) \/ Job(e), NEW type \in PeriodicTypes
    PROVE  ticks'[type] >= ticks[type]
<1>1. ticks \in [PeriodicTypes -> Nat]
  BY DEF IInv, TypeOK
<1>2. CASE ticks' = ticks
  BY <1>1, <1>2
<1>3. CASE LogGraph(e)
  BY <1>1, <1>3 DEF LogGraph, PeriodicTypes
<1>4. CASE SerialiseArrivals(e)
  BY <1>1, <1>4 DEF SerialiseArrivals, PeriodicTypes
<1>5. ticks' = ticks \/ LogGraph(e) \/ SerialiseArrivals(e)
  BY DEF Admin, Job, Generate, SystemStatistics, Arrival, LastArrival, Arrive, Departure,
         Ack, Ack1Hop, Leave
<1> QED
  BY <1>2, <1>3, <1>4, <1>5

LEMMA ProductGrows ==
    ASSUME NEW m \in Nat, NEW n \in Nat, m <= n, NEW k \in Nat
    PROVE  m * k <= n * k /\ m * k \in Nat /\ n * k \in Nat
<1>1. \A i, j \in Nat : i * j \in Nat
  OBVIOUS
<1>2. n - m \in Nat /\ n = m + (n - m)
  OBVIOUS
<1>3. n * k = m * k + (n - m) * k
  OBVIOUS
<1> QED
  BY <1>1, <1>2, <1>3

\* How the queue gains and loses departures.
LEMMA DeparturesStep ==
    ASSUME NEW e \in queue, StepOf(e), NEW v \in Vertices
    PROVE  /\ e.type \in {"ARRIVAL", "LAST_ARRIVAL"} /\ e.destination = v =>
                \/ Departures(v)' = Departures(v)
                \/ \E d \in Pushed : /\ Departures(v)' = Departures(v) \cup {d}
                                     /\ ItsDeparture(e, d)
           /\ ~ (e.type \in {"ARRIVAL", "LAST_ARRIVAL"} /\ e.destination = v) =>
                Departures(v)' = Departures(v) \ {e}
<1>1. \A f : f \in Departures(v)' <=> \/ f \in Departures(v) /\ f # e
                                      \/ f \in Pushed /\ f.type = "DEPARTURE" /\ f.destination = v
  BY DEF StepOf, Pushed, Departures
<1>2. \A n \in Pushed : n.type = "DEPARTURE" => ItsDeparture(e, n)
  BY DEF StepOf, Offspring, NextArrival, NextAdmin, ItsHop, ItsTurn, ItsAck, ItsNotice,
         ItsLeave, PeriodicTypes
<1>3. CASE e.type \in {"ARRIVAL", "LAST_ARRIVAL"} /\ e.destination = v
  <2>1. e \notin Departures(v)
    BY <1>3 DEF Departures
  <2>2. \A m, n \in Pushed : m.type = "DEPARTURE" /\ n.type = "DEPARTURE" => m = n
    BY <1>2 DEF StepOf, ItsDeparture
  <2>3. CASE \E d \in Pushed : d.type = "DEPARTURE" /\ d.destination = v
    <3>1. PICK d \in Pushed : d.type = "DEPARTURE" /\ d.destination = v
      BY <2>3
    <3>2. Departures(v)' = Departures(v) \cup {d}
      BY <1>1, <2>1, <2>2, <3>1
    <3> QED  BY <1>2, <1>3, <3>1, <3>2
  <2>4. CASE ~ \E d \in Pushed : d.type = "DEPARTURE" /\ d.destination = v
    <3>1. Departures(v)' = Departures(v)
      BY <1>1, <2>1, <2>4
    <3> QED  BY <1>3, <3>1
  <2> QED  BY <2>3, <2>4
<1>4. CASE ~ (e.type \in {"ARRIVAL", "LAST_ARRIVAL"} /\ e.destination = v)
  <2>1. \A n \in Pushed : ~ (n.type = "DEPARTURE" /\ n.destination = v)
    BY <1>2, <1>4 DEF ItsDeparture
  <2>2. Departures(v)' = Departures(v) \ {e}
    BY <1>1, <2>1
  <2> QED  BY <1>4, <2>2
<1> QED
  BY <1>3, <1>4

\* An arrival that is the first of the queue never fails, and its service ends
\* no earlier than it begins and than the one before it.
LEMMA ArriveInOrder ==
    ASSUME IInv, TimeInv, status = "running", NEW e \in queue, Ordered(e),
           NEW scheduled, NEW k, Arrive(e, scheduled, k)
    PROVE  /\ status' = status /\ e.destination \in Vertices
           /\ serviceEnds'[e.destination] \in Nat
           /\ serviceEnds'[e.destination] >= e.arrival
           /\ busy[e.destination] => serviceEnds'[e.destination] >= serviceEnds[e.destination]
           /\ \A w \in Vertices \ {e.destination} : /\ serviceEnds'[w] = serviceEnds[w]
                                                    /\ busy'[w] = busy[w]
<1> DEFINE v == e.destination
<1>1. PICK service \in Services :
        LET departure == DepartureTime(v, Time(e), service)
        IN  /\ Occupy(v, departure)
            /\ Accept(e, departure, scheduled, k) \/ Refuse(e, departure, scheduled)
  BY DEF Arrive
<1> DEFINE departure == DepartureTime(v, Time(e), service)
<1>2. /\ v \in Vertices /\ e.arrival \in Nat /\ Time(e) = e.arrival /\ service \in Nat
      /\ serviceEnds \in [Vertices -> Nat] /\ busy \in [Vertices -> BOOLEAN]
  BY ConfigAssumption, TimeType DEF IInv, TypeOK, Arrive, Ordered
<1>3. busy[v] => serviceEnds[v] >= e.arrival
  BY <1>2 DEF TimeInv, Ordered, Departures
<1>4. /\ departure \in Nat /\ departure >= e.arrival
      /\ busy[v] => departure >= serviceEnds[v]
  <2>1. CASE busy[v]
    <3>1. departure = serviceEnds[v] + service /\ serviceEnds[v] \in Nat
      BY <1>2, <2>1 DEF DepartureTime
    <3> HIDE DEF departure, v
    <3> QED  BY <1>2, <1>3, <2>1, <3>1
  <2>2. CASE ~ busy[v]
    <3>1. departure = e.arrival + service
      BY <1>2, <2>2 DEF DepartureTime
    <3> HIDE DEF departure, v
    <3> QED  BY <1>2, <2>2, <3>1
  <2> QED  BY <2>1, <2>2
<1> HIDE DEF departure
<1>5. /\ Occupy(v, departure)
      /\ Accept(e, departure, scheduled, k) \/ Refuse(e, departure, scheduled)
  BY <1>1 DEF departure
<1>6. ~ Refuse(e, departure, scheduled)
  BY <1>2, <1>4 DEF Refuse
<1>7. status' = status
  BY <1>5, <1>6 DEF Accept
<1>8. /\ serviceEnds'[v] = departure
      /\ \A w \in Vertices \ {v} : serviceEnds'[w] = serviceEnds[w] /\ busy'[w] = busy[w]
  <2>1. serviceEnds' = [serviceEnds EXCEPT ![v] = departure] /\ busy' = [busy EXCEPT ![v] = TRUE]
    BY <1>5 DEF Occupy
  <2> HIDE DEF v
  <2> QED  BY <1>2, <2>1
<1> QED
  BY <1>2, <1>4, <1>7, <1>8

\* What an iteration does to the servers besides the queue.
ServersStep(e) ==
    /\ status' = status
    /\ e.type \in {"ARRIVAL", "LAST_ARRIVAL"} =>
         /\ e.destination \in Vertices
         /\ serviceEnds'[e.destination] \in Nat
         /\ serviceEnds'[e.destination] >= e.arrival
         /\ busy[e.destination] => serviceEnds'[e.destination] >= serviceEnds[e.destination]
    /\ \A w \in Vertices :
         ~ (e.type \in {"ARRIVAL", "LAST_ARRIVAL"} /\ w = e.destination) =>
           serviceEnds'[w] = serviceEnds[w]
    /\ \A w \in Vertices :
         ~ (e.type \in {"ARRIVAL", "LAST_ARRIVAL", "DEPARTURE"} /\ w = e.destination) =>
           busy'[w] = busy[w]

LEMMA ServersInOrder ==
    ASSUME IInv, TimeInv, status = "running", NEW e \in queue, Ordered(e),
           Admin(e) \/ Job(e)
    PROVE  ServersStep(e)
<1>1. CASE Arrival(e) \/ LastArrival(e)
  <2>1. e.type \in {"ARRIVAL", "LAST_ARRIVAL"} /\ \E scheduled, k : Arrive(e, scheduled, k)
    BY <1>1 DEF Arrival, LastArrival
  <2> QED
    BY <2>1, ArriveInOrder DEF ServersStep
<1>2. CASE Departure(e)
  BY <1>2 DEF Departure, Release, ServersStep, IInv, TypeOK
<1>3. CASE Admin(e)
  <2>1. e.type \notin {"ARRIVAL", "LAST_ARRIVAL"} /\ status' = status /\ UNCHANGED serverVars
    BY <1>3 DEF Admin, Generate, LogGraph, SerialiseArrivals, SystemStatistics
  <2> QED
    BY <2>1 DEF ServersStep, serverVars
<1>4. CASE Ack(e) \/ Ack1Hop(e) \/ Leave(e)
  <2>1. e.type \notin {"ARRIVAL", "LAST_ARRIVAL"} /\ status' = status /\ UNCHANGED serverVars
    BY <1>4 DEF Ack, Ack1Hop, Leave
  <2> QED
    BY <2>1 DEF ServersStep, serverVars
<1> QED
  BY <1>1, <1>2, <1>3, <1>4 DEF Job

\* What is pushed lies at or after the time of the iteration.
LEMMA PushedInOrder ==
    ASSUME IInv, TimeInv, NEW e \in queue, Ordered(e), StepOf(e), ServersStep(e),
           Admin(e) \/ Job(e), NEW n \in Pushed
    PROVE  /\ n.arrival >= now'
           /\ n.type \in {"LOG_GRAPH", "SERIALISE_ARRIVAL"} =>
                n.arrival <= ticks'[n.type] * Interval[n.type]
<1>1. /\ now' = e.arrival /\ Time(e) = e.arrival /\ e.arrival \in Nat
      /\ Offspring(e, n)
  BY TimeType DEF IInv, Ordered, StepOf
<1>2. CASE NextArrival(e, n)
  BY <1>1, <1>2 DEF NextArrival
<1>3. CASE NextAdmin(e, n)
  <2> DEFINE type == e.type
  <2>1. /\ type \in PeriodicTypes /\ n.type = type /\ Interval[type] \in Nat
        /\ ticks[type] \in Nat /\ ticks'[type] >= ticks[type]
    BY <1>3, ConfigAssumption, TicksGrow DEF NextAdmin, IInv, TypeOK
  <2>2. CASE type = "SYSTEM_STATISTICS"
    BY <1>1, <1>3, <2>1, <2>2 DEF NextAdmin
  <2>3. CASE type # "SYSTEM_STATISTICS"
    <3>1. n.arrival = ticks'[type] * Interval[type]
      BY <1>3, <2>3 DEF NextAdmin
    <3>2. e.arrival <= ticks[type] * Interval[type]
      BY <2>1, <2>3 DEF TimeInv, PeriodicTypes
    <3>3. ticks'[type] \in Nat
      <4>1. ticks' = ticks \/ ticks'[type] \in Nat
        BY AdminQuiet, <2>1 DEF Bystander, Job, Arrival, LastArrival, Arrive, Departure, Ack,
           Ack1Hop, Leave
      <4> QED  BY <2>1, <4>1
    <3> HIDE DEF type
    <3>4. /\ ticks[type] * Interval[type] <= ticks'[type] * Interval[type]
          /\ ticks[type] * Interval[type] \in Nat /\ ticks'[type] * Interval[type] \in Nat
      BY <2>1, <3>3, ProductGrows
    <3> DEFINE a == ticks[type] * Interval[type]
               b == ticks'[type] * Interval[type]
    <3>5. a \in Nat /\ b \in Nat /\ a <= b /\ e.arrival <= a /\ n.arrival = b
      BY <3>1, <3>2, <3>4
    <3> HIDE DEF a, b
    <3>6. e.arrival <= n.arrival /\ n.arrival <= b
      BY <1>1, <3>5
    <3> QED
      BY <1>1, <2>1, <3>6 DEF b
  <2> QED  BY <2>2, <2>3
<1>4. CASE ItsDeparture(e, n)
  BY <1>1, <1>4 DEF ItsDeparture, ServersStep
<1>5. CASE \/ ItsHop(e, n) \/ ItsTurn(e, n) \/ ItsAck(e, n) \/ ItsNotice(e, n)
           \/ ItsLeave(e, n)
  BY <1>1, <1>5 DEF ItsHop, ItsTurn, ItsAck, ItsNotice, ItsLeave
<1> QED
  BY <1>1, <1>2, <1>3, <1>4, <1>5 DEF Offspring

\* The departures of a vertex stay at or before the end of its last service.
LEMMA ServiceEndsStep ==
    ASSUME IInv, IInv', TimeInv, status = "running", NEW e \in queue, Ordered(e),
           StepOf(e), StepGoesOn(e), ServersStep(e), NEW v \in Vertices
    PROVE  /\ \A d \in Departures(v)' : d.arrival <= serviceEnds'[v]
           /\ status' = "running" /\ busy'[v] =>
                \E d \in Departures(v)' : d.arrival = serviceEnds'[v]
           /\ \A c, d \in Departures(v)' : c.gid = d.gid => c = d
<1>1. /\ \A d \in queue : d.arrival \in Nat /\ d.gid \in Nat /\ d.gid <= uid /\ e.arrival <= d.arrival
      /\ uid \in Nat /\ serviceEnds[v] \in Nat
      /\ Departures(v) \subseteq queue
  BY DEF IInv, TypeOK, EntryRecord, Ordered, Departures, Numbered
<1>2. /\ \A d \in Departures(v) : d.arrival <= serviceEnds[v]
      /\ busy[v] => \E d \in Departures(v) : d.arrival = serviceEnds[v]
      /\ \A c, d \in Departures(v) : c.gid = d.gid => c = d
  BY DEF TimeInv
<1>3. /\ Cardinality(Departures(v)) = numberInQueue[v] + IF busy[v] THEN 1 ELSE 0
      /\ ~ busy[v] => numberInQueue[v] = 0
  BY DEF IInv, ServerBooks, InStep
<1>4. CASE e.type \in {"ARRIVAL", "LAST_ARRIVAL"} /\ e.destination = v
  <2>1. /\ serviceEnds'[v] \in Nat
        /\ busy[v] => serviceEnds'[v] >= serviceEnds[v]
    BY <1>4 DEF ServersStep
  <2>2. PICK d \in Pushed : ItsDeparture(e, d) /\ Departures(v)' = Departures(v) \cup {d}
    <3>1. PICK n \in Pushed : n.id = e.id /\ n.type \in Moving
      BY <1>4 DEF StepGoesOn, ServersStep
    <3>2. ItsDeparture(e, n) /\ n \in Departures(v)'
      BY <1>4, <3>1 DEF StepOf, Offspring, NextArrival, NextAdmin, ItsDeparture, ItsHop, ItsTurn,
         ItsAck, ItsNotice, ItsLeave, PeriodicTypes, Departures, Pushed, Moving
    <3>3. n \notin Departures(v)
      BY <1>1 DEF Pushed
    <3> QED
      BY <1>4, <3>2, <3>3, DeparturesStep
  <2>3. d.arrival = serviceEnds'[v] /\ d.gid > uid /\ d.gid \in Nat
    BY <1>4, <2>2 DEF ItsDeparture, StepOf, Offspring
  <2>4. ASSUME NEW c \in Departures(v)
        PROVE  c.arrival <= serviceEnds'[v]
    <3>1. busy[v]
      <4>1. Cardinality(Departures(v)) # 0
        BY FiniteDepartures, FS_EmptySet DEF IInv
      <4> QED  BY <1>3, <4>1
    <3>2. c.arrival \in Nat
      BY <1>1
    <3> QED  BY <1>1, <1>2, <2>1, <3>1, <3>2
  <2>5. \A c \in Departures(v) : c.gid # d.gid
    BY <1>1, <2>3
  <2> QED
    BY <1>2, <2>1, <2>2, <2>3, <2>4, <2>5
<1>5. CASE ~ (e.type \in {"ARRIVAL", "LAST_ARRIVAL"} /\ e.destination = v)
  <2>1. Departures(v)' = Departures(v) \ {e} /\ serviceEnds'[v] = serviceEnds[v]
    BY <1>5, DeparturesStep DEF ServersStep
  <2>2. ASSUME status' = "running", busy'[v]
        PROVE  \E d \in Departures(v)' : d.arrival = serviceEnds'[v]
    <3>1. CASE e \notin Departures(v)
      <4>1. busy[v]
        BY <1>5, <2>2, <3>1 DEF ServersStep, Departures
      <4> QED
        BY <1>2, <2>1, <3>1, <4>1
    <3>2. CASE e \in Departures(v)
      <4>1. busy[v]
        <5>1. Cardinality(Departures(v)) # 0
          BY <3>2, FiniteDepartures, FS_EmptySet DEF IInv
        <5> QED  BY <1>3, <5>1
      <4>2. PICK d0 \in Departures(v) : d0.arrival = serviceEnds[v]
        BY <1>2, <4>1
      <4>3. CASE d0 # e
        BY <2>1, <4>2, <4>3
      <4>4. CASE d0 = e
        <5>1. /\ Cardinality(Departures(v)') = numberInQueue'[v] + IF busy'[v] THEN 1 ELSE 0
              /\ numberInQueue'[v] \in Nat
          BY <2>2 DEF IInv, ServerBooks, InStep, TypeOK
        <5>2. Cardinality(Departures(v)') # 0
          BY <2>2, <5>1
        <5>3. PICK d : d \in Departures(v)'
          BY <5>2, FS_EmptySet
        <5>4. d \in Departures(v) /\ d.arrival >= e.arrival /\ d.arrival <= serviceEnds[v]
              /\ d.arrival \in Nat
          BY <1>1, <1>2, <2>1, <5>3
        <5> QED
          BY <1>1, <2>1, <4>2, <4>4, <5>3, <5>4
      <4> QED  BY <4>3, <4>4
    <3> QED  BY <3>1, <3>2
  <2> QED
    BY <1>2, <2>1, <2>2
<1> QED
  BY <1>4, <1>5

LEMMA TimeStep ==
    ASSUME IInv, IInv', TimeInv, status = "running", NEW e \in queue, Ordered(e),
           StepOf(e), StepGoesOn(e), Admin(e) \/ Job(e)
    PROVE  TimeInv'
<1>1. ServersStep(e)
  BY ServersInOrder
<1>2. \A f \in queue' : f \in queue \/ f \in Pushed
  BY DEF Pushed
<1>3. now' = e.arrival /\ \A f \in queue : e.arrival <= f.arrival
  BY DEF StepOf, Ordered
<1>4. status' # "failed"
  BY <1>1 DEF ServersStep
<1>5. \A f \in queue' : f.arrival >= now'
  <2>1. \A f \in queue : f.arrival \in Nat
    BY DEF IInv, TypeOK, EntryRecord
  <2>2. \A f \in queue : f.arrival >= now'
    BY <1>3, <2>1
  <2> QED
    BY <1>1, <1>2, <2>2, PushedInOrder
<1>6. ASSUME NEW f \in queue', f.type \in {"LOG_GRAPH", "SERIALISE_ARRIVAL"}
      PROVE  f.arrival <= ticks'[f.type] * Interval[f.type]
  <2>1. CASE f \in Pushed
    BY <1>1, <1>6, <2>1, PushedInOrder
  <2>2. CASE f \in queue
    <3> DEFINE type == f.type
               a == ticks[type] * Interval[type]
               b == ticks'[type] * Interval[type]
    <3>1. /\ type \in PeriodicTypes /\ Interval[type] \in Nat
          /\ ticks[type] \in Nat /\ ticks'[type] \in Nat
      BY <1>6, ConfigAssumption DEF PeriodicTypes, IInv, TypeOK
    <3>2. ticks'[type] >= ticks[type]
      BY <3>1, TicksGrow
    <3>3. f.arrival <= a /\ f.arrival \in Nat
      BY <1>6, <2>2 DEF TimeInv, IInv, TypeOK, EntryRecord
    <3> HIDE DEF type
    <3>4. a <= b /\ a \in Nat /\ b \in Nat
      BY <3>1, <3>2, ProductGrows
    <3> HIDE DEF a, b
    <3>5. f.arrival <= b
      BY <3>3, <3>4
    <3> QED  BY <3>5 DEF a, b, type
  <2> QED
    BY <1>2, <2>1, <2>2
<1> QED
  BY <1>1, <1>4, <1>5, <1>6, ServiceEndsStep DEF TimeInv, NoPastSchedule

LEMMA InitTimeInv ==
    ASSUME Init
    PROVE  TimeInv
<1>1. \A e \in queue : e.arrival = 0 /\ e.type \in PeriodicTypes \cup {"GENERATE_ARRIVAL"}
  BY InitQueue DEF Init
<1>2. IInv
  BY InitIInv
<1>3. \A e \in queue : e.type \in {"LOG_GRAPH", "SERIALISE_ARRIVAL"} =>
                         e.arrival <= ticks[e.type] * Interval[e.type]
  <2> SUFFICES ASSUME NEW e \in queue, e.type \in {"LOG_GRAPH", "SERIALISE_ARRIVAL"}
               PROVE  e.arrival <= ticks[e.type] * Interval[e.type]
    OBVIOUS
  <2>1. e.type \in PeriodicTypes /\ Interval[e.type] \in Nat /\ ticks[e.type] = 0
    BY ConfigAssumption DEF PeriodicTypes, Init
  <2>2. \A k \in Nat : 0 * k = 0
    OBVIOUS
  <2> QED
    BY <1>1, <2>1, <2>2
<1>4. \A v \in Vertices : Departures(v) = {} /\ ~ busy[v]
  BY <1>1 DEF Departures, PeriodicTypes, Init
<1> QED
  BY <1>1, <1>3, <1>4 DEF TimeInv, NoPastSchedule, Init

\* A step of a queue that returns its entries in order.
LEMMA OrderedStep ==
    ASSUME MaxMisorders = 0, JInv, JInv', TimeInv, Running
    PROVE  \/ \E r : End(r)
           \/ /\ status = "running"
              /\ \E e \in queue : /\ Ordered(e) /\ StepOf(e) /\ StepGoesOn(e)
                                  /\ Admin(e) \/ Job(e)
<1>1. PICK r \in Dequeued : Process(r)
  BY DEF Running
<1>2. status = "running" /\ (r = NULL \/ r \in queue) /\ (queue = {} => r = NULL)
  BY DEF Running, Dequeued
<1>3. IInv /\ IInv' /\ \A e \in queue : e.id <= uid
  BY DEF JInv, JobInv
<1>4. CASE End(r)
  BY <1>4
<1>5. CASE r # NULL /\ (Admin(r) \/ Job(r))
  <2>1. r \in queue /\ Ordered(r)
    BY <1>1, <1>2, <1>3, <1>5, FirstIsOrdered
  <2>2. StepOf(r) /\ StepGoesOn(r)
    BY <1>2, <1>3, <1>5, <2>1, AdminStep, ArrivalStep, LastArrivalStep, DepartureStep, AckStep,
       LastStep DEF Job
  <2> QED
    BY <1>2, <1>5, <2>1, <2>2
<1> QED
  BY <1>1, <1>4, <1>5 DEF Process

LEMMA NextTimeInv ==
    ASSUME MaxMisorders = 0, JInv, JInv', TimeInv, [Next]_vars
    PROVE  TimeInv'
<1>1. CASE UNCHANGED vars
  BY <1>1 DEF TimeInv, NoPastSchedule, Departures, vars, serverVars
<1>2. CASE \E r : End(r)
  BY <1>2 DEF End, TimeInv, NoPastSchedule, Departures
<1>3. CASE Running
  <2>1. CASE \E r : End(r)
    BY <1>2, <2>1
  <2>2. CASE /\ status = "running"
             /\ \E e \in queue : /\ Ordered(e) /\ StepOf(e) /\ StepGoesOn(e)
                                 /\ Admin(e) \/ Job(e)
    BY <2>2, TimeStep DEF JInv
  <2> QED
    BY <1>3, <2>1, <2>2, OrderedStep
<1> QED
  BY <1>1, <1>3 DEF Next, Terminated

\* If the queue returns its entries in order, no handler ever leaves an entry
\* in the past of the loop, and process() does not fail.
THEOREM NoPastScheduleHolds ==
    ASSUME MaxMisorders = 0
    PROVE  Spec => []NoPastSchedule
<1>1. Init => TimeInv
  BY InitTimeInv
<1>2. JInv /\ JInv' /\ TimeInv /\ [Next]_vars => TimeInv'
  BY NextTimeInv
<1>3. TimeInv => NoPastSchedule
  BY DEF TimeInv
<1> QED
  BY <1>1, <1>2, <1>3, JInvAlways, PTL DEF Spec

-----------------------------------------------------------------------------
(* Sorting.  A list sorted by SortList is determined by the ranks of its   *)
(* elements.                                                               *)

Earlier(S, e) == {f \in S : Before(f, e)}

Rank(S, e) == Cardinality(Earlier(S, e))

\* Entries that Before orders totally.
Sortable(S) == /\ IsFiniteSet(S)
               /\ \A e \in S : e.arrival \in Nat /\ e.gid \in Nat
               /\ \A e, f \in S : e.gid = f.gid => e = f

\* Rank numbers a set from 0, in the order of Before.
LEMMA RankIsNumbering ==
    ASSUME NEW S, Sortable(S)
    PROVE  /\ Cardinality(S) \in Nat
           /\ \A e \in S : Rank(S, e) \in 0 .. Cardinality(S) - 1
           /\ \A e, f \in S : Rank(S, e) = Rank(S, f) => e = f
           /\ \A i \in 1 .. Cardinality(S) : \E e \in S : Rank(S, e) = i - 1
<1> DEFINE n == Cardinality(S)
<1>1. n \in Nat
  BY FS_CardinalityType DEF Sortable
<1>2. ASSUME NEW e \in S
      PROVE  IsFiniteSet(Earlier(S, e)) /\ Rank(S, e) \in 0 .. n - 1
  <2>1. Earlier(S, e) \in SUBSET S /\ e \notin Earlier(S, e)
    BY DEF Earlier, Before, Sortable
  <2>2. /\ IsFiniteSet(Earlier(S, e)) /\ Rank(S, e) <= n /\ Rank(S, e) # n
    BY <2>1, FS_Subset DEF Rank, Sortable
  <2>3. Rank(S, e) \in Nat
    BY <2>2, FS_CardinalityType DEF Rank
  <2> HIDE DEF n
  <2> QED  BY <1>1, <2>2, <2>3
<1>3. ASSUME NEW e \in S, NEW f \in S, Before(e, f)
      PROVE  Rank(S, e) # Rank(S, f)
  <2>1. Earlier(S, e) \in SUBSET Earlier(S, f)
    BY <1>3 DEF Earlier, Before, Sortable
  <2>2. e \in Earlier(S, f) /\ e \notin Earlier(S, e)
    BY <1>3 DEF Earlier, Before, Sortable
  <2> QED
    BY <1>2, <2>1, <2>2, FS_Subset DEF Rank
<1>4. \A e, f \in S : e # f => Before(e, f) \/ Before(f, e)
  BY DEF Before, Sortable
<1>5. \A e, f \in S : Rank(S, e) = Rank(S, f) => e = f
  BY <1>3, <1>4
<1>6. \A i \in 1 .. n : \E e \in S : Rank(S, e) = i - 1
  <2> DEFINE r == [e \in S |-> Rank(S, e) + 1]
  <2>1. r \in [S -> 1 .. n]
    <3> HIDE DEF n
    <3> QED  BY <1>1, <1>2
  <2>2. \A e, f \in S : r[e] = r[f] => e = f
    <3> HIDE DEF n
    <3> QED  BY <1>1, <1>2, <1>5
  <2>3. r \in Injection(S, 1 .. n)
    <3> HIDE DEF r
    <3> QED  BY <2>1, <2>2 DEF Injection, IsInjective
  <2>4. IsFiniteSet(1 .. n) /\ Cardinality(1 .. n) = n
    <3> HIDE DEF n
    <3>1. IsFiniteSet(1 .. n) /\ Cardinality(1 .. n) = IF 1 > n THEN 0 ELSE n - 1 + 1
      BY <1>1, FS_Interval
    <3> QED  BY <1>1, <3>1
  <2>5. r \in Surjection(S, 1 .. n)
    <3> HIDE DEF r
    <3> QED  BY <2>3, <2>4, FS_Injection
  <2>6. ASSUME NEW i \in 1 .. n
        PROVE  \E e \in S : Rank(S, e) = i - 1
    <3>1. PICK e \in S : r[e] = i
      <4> HIDE DEF r
      <4> QED  BY <2>5 DEF Surjection
    <3>2. Rank(S, e) + 1 = i /\ Rank(S, e) \in Int
      <4> HIDE DEF n
      <4> QED  BY <1>1, <1>2, <3>1
    <3> QED  BY <3>2
  <2> QED  BY <2>6
<1> QED
  BY <1>1, <1>2, <1>5, <1>6

\* SortList puts the entry of rank i - 1 in place i.
LEMMA SortListRank ==
    ASSUME NEW S, Sortable(S)
    PROVE  /\ DOMAIN SortList(S) = 1 .. Cardinality(S)
           /\ SortList(S) \in Seq(S) /\ Len(SortList(S)) = Cardinality(S)
           /\ \A i \in 1 .. Cardinality(S) :
                SortList(S)[i] \in S /\ Rank(S, SortList(S)[i]) = i - 1
           /\ \A e \in S, i \in 1 .. Cardinality(S) :
                Rank(S, e) = i - 1 => SortList(S)[i] = e
<1> DEFINE n == Cardinality(S)
           Place_(i) == CHOOSE e \in S : Rank(S, e) = i - 1
<1>1. SortList(S) = [i \in 1 .. n |-> Place_(i)]
  BY DEF SortList, Rank, Earlier
<1>2. ASSUME NEW i \in 1 .. n
      PROVE  Place_(i) \in S /\ Rank(S, Place_(i)) = i - 1
  BY RankIsNumbering
<1>3. n \in Nat
  BY RankIsNumbering
<1> HIDE DEF n, Place_
<1>4. /\ DOMAIN SortList(S) = 1 .. n
      /\ \A i \in 1 .. n : SortList(S)[i] \in S /\ Rank(S, SortList(S)[i]) = i - 1
  BY <1>1, <1>2
<1>5. SortList(S) \in Seq(S) /\ Len(SortList(S)) = n
  BY <1>1, <1>2, <1>3
<1>6. \A e \in S, i \in 1 .. n : Rank(S, e) = i - 1 => SortList(S)[i] = e
  BY <1>4, RankIsNumbering
<1> QED
  BY <1>4, <1>5, <1>6 DEF n

\* A last entry is appended.
LEMMA SortListAppend ==
    ASSUME NEW S, NEW d, d \notin S, Sortable(S \cup {d}), \A f \in S : Before(f, d)
    PROVE  SortList(S \cup {d}) = Append(SortList(S), d)
<1> DEFINE T == S \cup {d}
           n == Cardinality(S)
<1>1. Sortable(S) /\ n \in Nat
  BY FS_Subset, FS_CardinalityType DEF Sortable
<1>2. Cardinality(T) = n + 1
  BY <1>1, FS_AddElement DEF Sortable
<1>3. \A f \in S : Rank(T, f) = Rank(S, f)
  <2> SUFFICES ASSUME NEW f \in S
               PROVE  Earlier(T, f) = Earlier(S, f)
    BY DEF Rank
  <2>1. ~ Before(d, f)
    BY DEF Before, Sortable
  <2> QED
    BY <2>1 DEF Earlier
<1>4. Rank(T, d) = n
  <2>1. ~ Before(d, d)
    BY DEF Before, Sortable
  <2>2. Earlier(T, d) = S
    BY <2>1 DEF Earlier
  <2> QED  BY <2>2 DEF Rank
<1>5. /\ SortList(S) \in Seq(S) /\ Len(SortList(S)) = n
      /\ SortList(T) \in Seq(T) /\ Len(SortList(T)) = n + 1
  BY <1>1, <1>2, SortListRank
<1>6. ASSUME NEW i \in 1 .. n
      PROVE  SortList(T)[i] = SortList(S)[i]
  <2> DEFINE x == SortList(S)[i]
  <2>1. x \in S /\ Rank(S, x) = i - 1
    BY <1>1, SortListRank
  <2> HIDE DEF x
  <2>2. x \in T /\ Rank(T, x) = i - 1 /\ i \in 1 .. Cardinality(T)
    <3>1. i \in 1 .. n + 1
      <4> HIDE DEF n
      <4> QED  BY <1>1
    <3>2. x \in T /\ Rank(T, x) = i - 1
      <4> HIDE DEF n
      <4> QED  BY <1>3, <2>1
    <3> QED  BY <1>2, <3>1, <3>2
  <2>3. SortList(T)[i] = x
    <3> HIDE DEF T, n
    <3> QED  BY <2>2, SortListRank DEF T
  <2> QED  BY <2>3 DEF x
<1>7. SortList(T)[n + 1] = d
  <2>1. d \in T /\ Rank(T, d) = (n + 1) - 1 /\ n + 1 \in 1 .. Cardinality(T)
    <3> HIDE DEF n
    <3> QED  BY <1>1, <1>2, <1>4
  <2> HIDE DEF T, n
  <2> QED  BY <2>1, SortListRank DEF T
<1> DEFINE a == SortList(S)
           b == SortList(T)
<1>8. a \in Seq(T) /\ b \in Seq(T) /\ Len(a) = n /\ Len(b) = n + 1 /\ d \in T
      /\ b[n + 1] = d /\ \A i \in 1 .. n : b[i] = a[i]
  BY <1>5, <1>6, <1>7, SeqMonotonic
<1> HIDE DEF a, b, n, T
<1>9. /\ Append(a, d) \in Seq(T) /\ Len(Append(a, d)) = n + 1
      /\ \A i \in 1 .. n : Append(a, d)[i] = a[i]
      /\ Append(a, d)[n + 1] = d
  BY <1>8, AppendProperties
<1>10. \A i \in 1 .. n + 1 : b[i] = Append(a, d)[i]
  BY <1>1, <1>8, <1>9
<1>11. b = Append(a, d)
  BY <1>8, <1>9, <1>10, SeqEqual
<1> QED
  BY <1>11 DEF a, b, T

\* Without its first entry a list is its tail.
LEMMA SortListTail ==
    ASSUME NEW S, NEW e \in S, Sortable(S), \A f \in S \ {e} : Before(e, f)
    PROVE  SortList(S) # <<>> /\ SortList(S \ {e}) = Tail(SortList(S))
<1> DEFINE T == S \ {e}
           n == Cardinality(T)
<1>1. Sortable(T) /\ n \in Nat
  BY FS_Subset, FS_CardinalityType DEF Sortable
<1>2. Cardinality(S) = n + 1
  <2>1. n = Cardinality(S) - 1 /\ Cardinality(S) \in Nat
    BY FS_RemoveElement, FS_CardinalityType DEF Sortable
  <2> HIDE DEF n
  <2> QED  BY <2>1
<1>3. ASSUME NEW f \in T
      PROVE  Rank(S, f) = Rank(T, f) + 1
  <2>1. Earlier(S, f) = Earlier(T, f) \cup {e} /\ e \notin Earlier(T, f)
    BY DEF Earlier
  <2>2. IsFiniteSet(Earlier(T, f))
    BY <1>1, FS_Subset DEF Earlier, Sortable
  <2> QED
    BY <2>1, <2>2, FS_AddElement DEF Rank
<1>4. /\ SortList(T) \in Seq(T) /\ Len(SortList(T)) = n
      /\ SortList(S) \in Seq(S) /\ Len(SortList(S)) = n + 1
  BY <1>1, <1>2, SortListRank
<1>5. ASSUME NEW i \in 1 .. n
      PROVE  SortList(S)[i + 1] = SortList(T)[i]
  <2> DEFINE x == SortList(T)[i]
  <2>1. x \in T /\ Rank(T, x) = i - 1
    <3> HIDE DEF T
    <3> QED  BY <1>1, SortListRank
  <2> HIDE DEF x
  <2>2. x \in S /\ Rank(S, x) = (i + 1) - 1 /\ i + 1 \in 1 .. Cardinality(S)
    <3> HIDE DEF n
    <3> QED  BY <1>1, <1>2, <1>3, <2>1
  <2>3. SortList(S)[i + 1] = x
    <3> HIDE DEF n
    <3> QED  BY <2>2, SortListRank
  <2> QED  BY <2>3 DEF x
<1> DEFINE a == SortList(T)
           b == SortList(S)
<1>6. a \in Seq(S) /\ b \in Seq(S) /\ Len(a) = n /\ Len(b) = n + 1
      /\ \A i \in 1 .. n : b[i + 1] = a[i]
  BY <1>4, <1>5, SeqMonotonic
<1> HIDE DEF a, b, n, T
<1>7. b # <<>>
  BY <1>1, <1>6, EmptySeq
<1>8. /\ Tail(b) \in Seq(S) /\ Len(Tail(b)) = Len(b) - 1
      /\ \A i \in 1 .. Len(Tail(b)) : Tail(b)[i] = b[i + 1]
  BY <1>6, <1>7, HeadTailProperties
<1>9. Len(Tail(b)) = n
  BY <1>1, <1>6, <1>8
<1>10. \A i \in 1 .. n : a[i] = Tail(b)[i]
  BY <1>6, <1>8, <1>9
<1>11. a = Tail(b)
  BY <1>6, <1>8, <1>9, <1>10, SeqEqual
<1> QED
  BY <1>7, <1>11 DEF a, b, T

-----------------------------------------------------------------------------
(* The servers implement first come, first served.                         *)

Ids(list) == [i \in DOMAIN list |-> list[i].id]

LEMMA IdsAppend ==
    ASSUME NEW T, NEW a \in Seq(T), NEW d \in T
    PROVE  Ids(Append(a, d)) = Append(Ids(a), d.id)
<1> DEFINE b == Append(a, d)
<1>1. /\ b \in Seq(T) /\ Len(b) = Len(a) + 1 /\ Len(a) \in Nat
      /\ (\A i \in 1 .. Len(a) : b[i] = a[i]) /\ b[Len(a) + 1] = d
      /\ DOMAIN a = 1 .. Len(a) /\ DOMAIN b = 1 .. Len(b)
  BY AppendProperties, LenProperties
<1> HIDE DEF b
<1>2. Ids(b) = [i \in 1 .. Len(a) + 1 |-> b[i].id] /\ Ids(a) = [i \in 1 .. Len(a) |-> a[i].id]
  BY <1>1 DEF Ids
<1> DEFINE n == Len(a)
<1> HIDE DEF n
<1>3. Append([i \in 1 .. n |-> a[i].id], d.id) =
        [i \in 1 .. n + 1 |-> IF i = n + 1 THEN d.id ELSE a[i].id]
  BY <1>1 DEF n
<1>4. \A i \in 1 .. n + 1 : b[i].id = IF i = n + 1 THEN d.id ELSE a[i].id
  BY <1>1 DEF n
<1> QED
  BY <1>2, <1>3, <1>4 DEF b, n

LEMMA IdsTail ==
    ASSUME NEW T, NEW b \in Seq(T), b # <<>>
    PROVE  Ids(Tail(b)) = Tail(Ids(b)) /\ Ids(b) # <<>>
<1> DEFINE a == Tail(b)
           n == Len(b)
<1>1. /\ a \in Seq(T) /\ Len(a) = n - 1 /\ n \in Nat /\ n # 0
      /\ \A i \in 1 .. n - 1 : a[i] = b[i + 1]
      /\ DOMAIN a = 1 .. n - 1 /\ DOMAIN b = 1 .. n
  BY HeadTailProperties, LenProperties, EmptySeq
<1> HIDE DEF a
<1>2. Ids(a) = [i \in 1 .. n - 1 |-> a[i].id] /\ Ids(b) = [i \in 1 .. n |-> b[i].id]
  BY <1>1 DEF Ids
<1> HIDE DEF n
<1>3. Tail([i \in 1 .. n |-> b[i].id]) = [i \in 1 .. n - 1 |-> b[i + 1].id]
  BY <1>1
<1>4. \A i \in 1 .. n - 1 : a[i].id = b[i + 1].id
  BY <1>1
<1>5. [i \in 1 .. n |-> b[i].id] # <<>>
  <2> DEFINE f == [i \in 1 .. n |-> b[i].id]
  <2>1. Len(f) = n /\ Len(<<>>) = 0
    BY <1>1
  <2> HIDE DEF f
  <2> QED  BY <1>1, <2>1
<1> QED
  BY <1>2, <1>3, <1>4, <1>5 DEF a

\* Nobody waits where no departure is scheduled.
LEMMA EmptyLine == Ids(SortList({})) = <<>>
<1>1. Sortable({}) /\ Cardinality({}) = 0
  BY FS_EmptySet DEF Sortable
<1> DEFINE a == SortList({})
<1>2. a \in Seq({}) /\ Len(a) = 0
  BY <1>1, SortListRank
<1> HIDE DEF a
<1>3. a = <<>>
  BY <1>2, EmptySeq
<1> QED
  BY <1>3 DEF a, Ids

\* An iteration is a step of one line, or of none.
LEMMA LineStep ==
    ASSUME IInv, IInv', TimeInv, TimeInv', status = "running", NEW e \in queue,
           Ordered(e), StepOf(e)
    PROVE  [Fifo!FifoNext]_Line
<1> DEFINE D(w) == Departures(w)
           v == e.destination
<1>1. ASSUME NEW w \in Vertices
      PROVE  Sortable(Departures(w)) /\ Sortable(Departures(w)')
  <2>1. Sortable(Departures(w))
    <3>1. IsFiniteSet(Departures(w))
      BY FiniteDepartures DEF IInv
    <3>2. \A d \in Departures(w) : d.arrival \in Nat /\ d.gid \in Nat
      BY DEF IInv, TypeOK, EntryRecord, Departures
    <3>3. \A c, d \in Departures(w) : c.gid = d.gid => c = d
      BY DEF TimeInv
    <3> QED  BY <3>1, <3>2, <3>3 DEF Sortable
  <2>2. IsFiniteSet(Departures(w)')
    BY FS_Subset DEF IInv, Numbered, Departures
  <2>3. \A d \in Departures(w)' : d.arrival \in Nat /\ d.gid \in Nat
    BY DEF IInv, TypeOK, EntryRecord, Departures
  <2>4. \A c, d \in Departures(w)' : c.gid = d.gid => c = d
    BY DEF TimeInv
  <2> QED
    BY <2>1, <2>2, <2>3, <2>4 DEF Sortable
<1>2. /\ Line = [w \in Vertices |-> Ids(SortList(Departures(w)))]
      /\ Line' = [w \in Vertices |-> Ids(SortList(Departures(w)'))]
  <2>1. Line = [w \in Vertices |-> Ids(SortList(Departures(w)))]
    BY DEF Line, Ids
  <2>2. Line' = [w \in Vertices |-> Ids(SortList(Departures(w)'))]
    BY DEF Line, Ids, SortList, Before
  <2> QED  BY <2>1, <2>2
<1>3. CASE v \in Vertices /\ Departures(v)' # Departures(v)
  <2>1. \A w \in Vertices \ {v} : Departures(w)' = Departures(w)
    <3> SUFFICES ASSUME NEW w \in Vertices, w # v
                 PROVE  Departures(w)' = Departures(w)
      OBVIOUS
    <3>1. e \notin Departures(w)
      BY DEF Departures
    <3> QED  BY <3>1, DeparturesStep
  <2>2. \A w \in Vertices \ {v} : Line'[w] = Line[w]
    BY <1>2, <2>1
  <2>3. CASE e.type \in {"ARRIVAL", "LAST_ARRIVAL"}
    <3>1. PICK d \in Pushed : Departures(v)' = Departures(v) \cup {d} /\ ItsDeparture(e, d)
      BY <1>3, <2>3, DeparturesStep
    <3> DEFINE S == Departures(v)
               a == SortList(S)
               job == d.id
    <3>2. d \notin S
      BY DEF Departures, Pushed
    <3>3. ASSUME NEW f \in S
          PROVE  Before(f, d)
      <4>1. /\ f.gid <= uid /\ f.gid \in Nat /\ f.arrival \in Nat /\ uid \in Nat
            /\ f.arrival <= serviceEnds[v]
        <5>1. f \in queue
          BY DEF Departures
        <5>2. f.gid \in Nat /\ f.arrival \in Nat /\ uid \in Nat
          BY <5>1 DEF IInv, TypeOK, EntryRecord
        <5>3. f.gid <= uid
          BY <5>1 DEF IInv, Numbered
        <5>4. f.arrival <= serviceEnds[v]
          BY <1>3 DEF TimeInv
        <5> QED  BY <5>2, <5>3, <5>4
      <4>2. d.gid > uid /\ d.gid \in Nat
        BY DEF StepOf, Offspring
      <4>3. f.arrival <= d.arrival /\ d.arrival \in Nat
        <5>1. f \in Departures(v)' /\ d \in Departures(v)'
          BY <3>1
        <5>2. \A c \in Departures(v)' : c.arrival <= serviceEnds'[v]
          BY <1>3 DEF TimeInv
        <5>3. d.arrival = serviceEnds'[v]
          BY <3>1 DEF ItsDeparture
        <5>4. d.arrival \in Nat
          BY <1>1, <1>3, <5>1 DEF Sortable
        <5> QED  BY <5>1, <5>2, <5>3, <5>4
      <4> QED
        BY <4>1, <4>2, <4>3 DEF Before
    <3>4. Sortable(S \cup {d})
      BY <1>1, <1>3, <3>1
    <3> HIDE DEF S
    <3>5. SortList(S \cup {d}) = Append(a, d)
      BY <3>2, <3>3, <3>4, SortListAppend
    <3>6. a \in Seq(S \cup {d})
      <4>1. Sortable(S)
        BY <1>1, <1>3 DEF S
      <4>2. a \in Seq(S)
        BY <4>1, SortListRank
      <4> HIDE DEF a
      <4> QED  BY <4>2, SeqMonotonic
    <3>7. Line'[v] = Append(Line[v], job)
      <4>1. Line'[v] = Ids(Append(a, d)) /\ Line[v] = Ids(a)
        BY <1>2, <1>3, <3>1, <3>5 DEF S
      <4> HIDE DEF a
      <4>2. Ids(Append(a, d)) = Append(Ids(a), d.id)
        BY <3>6, IdsAppend
      <4> QED  BY <4>1, <4>2
    <3>8. \E n \in Nat : Line[v] \in [1 .. n -> {c.id : c \in S}]
      <4>1. Line[v] = Ids(a)
        BY <1>2, <1>3 DEF S
      <4>2. /\ DOMAIN a = 1 .. Cardinality(S) /\ Cardinality(S) \in Nat
            /\ \A i \in 1 .. Cardinality(S) : a[i] \in S
        BY <1>1, <1>3, SortListRank, RankIsNumbering DEF S
      <4> HIDE DEF a
      <4> QED  BY <4>1, <4>2 DEF Ids
    <3> DEFINE J == {c.id : c \in S} \cup {job}
    <3>9. Line[v] \in Seq(J) /\ job \in J
      <4>1. PICK n \in Nat : Line[v] \in [1 .. n -> {c.id : c \in S}]
        BY <3>8
      <4>2. Line[v] \in [1 .. n -> J]
        BY <4>1
      <4> HIDE DEF J
      <4>3. Line[v] \in Seq(J)
        BY <4>2
      <4> QED  BY <4>3 DEF J
    <3> HIDE DEF J, job, a
    <3>10. Line'[v] # <<>> /\ Line'[v][Len(Line'[v])] = job
      <4>1. /\ Append(Line[v], job) # <<>> /\ Len(Append(Line[v], job)) = Len(Line[v]) + 1
            /\ Append(Line[v], job)[Len(Line[v]) + 1] = job
        BY <3>9, AppendProperties
      <4> QED  BY <3>7, <4>1
    <3>11. Line' = [Line EXCEPT ![v] = Append(@, Line'[v][Len(Line'[v])])]
      <4> HIDE DEF v
      <4> QED  BY <1>2, <2>2, <3>7, <3>10
    <3>12. Fifo!Join(v)
      BY <3>10, <3>11 DEF Fifo!Join
    <3> QED  BY <1>3, <3>12 DEF Fifo!FifoNext
  <2>4. CASE e.type \notin {"ARRIVAL", "LAST_ARRIVAL"}
    <3> DEFINE S == Departures(v)
               b == SortList(S)
    <3>1. Departures(v)' = S \ {e} /\ e \in S
      BY <1>3, <2>4, DeparturesStep
    <3>2. \A f \in S \ {e} : Before(e, f)
      BY DEF Ordered, IsFirst, Departures
    <3>3. Sortable(S)
      BY <1>1, <1>3
    <3> HIDE DEF S
    <3>4. b # <<>> /\ SortList(S \ {e}) = Tail(b) /\ b \in Seq(S)
      BY <3>1, <3>2, <3>3, SortListTail, SortListRank
    <3>5. Line'[v] = Ids(Tail(b)) /\ Line[v] = Ids(b)
      BY <1>2, <1>3, <3>1, <3>4 DEF S
    <3> HIDE DEF b
    <3>6. Line[v] # <<>> /\ Line'[v] = Tail(Line[v])
      BY <3>4, <3>5, IdsTail
    <3>7. Line' = [Line EXCEPT ![v] = Tail(@)]
      <4> HIDE DEF v
      <4> QED  BY <1>2, <2>2, <3>6
    <3>8. Fifo!Leave(v)
      BY <3>6, <3>7 DEF Fifo!Leave
    <3> QED  BY <1>3, <3>8 DEF Fifo!FifoNext
  <2> QED  BY <2>3, <2>4
<1>4. CASE ~ (v \in Vertices /\ Departures(v)' # Departures(v))
  <2>1. \A w \in Vertices : Departures(w)' = Departures(w)
    <3> SUFFICES ASSUME NEW w \in Vertices, w # v
                 PROVE  Departures(w)' = Departures(w)
      BY <1>4
    <3>1. e \notin Departures(w)
      BY DEF Departures
    <3> QED  BY <3>1, DeparturesStep
  <2> QED  BY <1>2, <2>1
<1> QED
  BY <1>3, <1>4

\* If the queue returns its entries in order, the departures scheduled at a
\* vertex, in the order of the queue, are a line that is served first come,
\* first served.
THEOREM FifoSpecHolds ==
    ASSUME MaxMisorders = 0
    PROVE  Spec => FifoSpec
<1>1. ASSUME \A w \in Vertices : Departures(w) = {}
      PROVE  Line = Fifo!Empty
  <2>1. \A w \in Vertices : Ids(SortList(Departures(w))) = <<>>
    BY <1>1, EmptyLine
  <2> QED
    BY <2>1 DEF Line, Ids, Fifo!Empty
<1>2. ASSUME Init
      PROVE  Line = Fifo!Empty
  <2>1. \A w \in Vertices : Departures(w) = {}
    BY <1>2, InitQueue DEF Departures, PeriodicTypes
  <2> QED  BY <1>1, <2>1
<1>3. ASSUME JInv, JInv', TimeInv, TimeInv', [Next]_vars
      PROVE  [Fifo!FifoNext]_Line
  <2>1. CASE UNCHANGED vars
    BY <2>1 DEF Line, Departures, SortList, Before, vars
  <2>2. CASE \E r : End(r)
    <3>1. \A w \in Vertices : Departures(w)' = {}
      BY <2>2 DEF End, Departures
    <3>2. Ids(SortList({})) = <<>>
      BY EmptyLine
    <3>3. Line' = [w \in Vertices |-> Ids(SortList(Departures(w)'))]
      BY DEF Line, Ids, SortList, Before
    <3>4. Line' = Fifo!Empty
      BY <3>1, <3>2, <3>3 DEF Fifo!Empty
    <3> QED  BY <3>4 DEF Fifo!FifoNext, Fifo!Close
  <2>3. CASE Running
    <3>1. CASE \E r : End(r)
      BY <2>2, <3>1
    <3>2. CASE /\ status = "running"
               /\ \E e \in queue : /\ Ordered(e) /\ StepOf(e) /\ StepGoesOn(e)
                                   /\ Admin(e) \/ Job(e)
      BY <1>3, <3>2, LineStep DEF JInv
    <3> QED
      BY <1>3, <2>3, <3>1, <3>2, OrderedStep
  <2> QED
    BY <1>3, <2>1, <2>3 DEF Next, Terminated
<1>4. JInv /\ JInv' /\ TimeInv /\ [Next]_vars => TimeInv'
  BY NextTimeInv
<1>5. Init => TimeInv
  BY InitTimeInv
<1> QED
  BY <1>2, <1>3, <1>4, <1>5, JInvAlways, PTL DEF Spec, FifoSpec, Fifo!FifoSpec

===============================================================================
