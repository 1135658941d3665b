----------------------------- MODULE LadderQueue -----------------------------
(***************************************************************************)
(* The ladder queue of src/common/queue: Top, Ladder and Bottom composed   *)
(* by LadderQueue::push and LadderQueue::dequeue.                          *)
(*                                                                         *)
(* Times are integers in units of 1/Unit, so that every bucket width the   *)
(* code computes by dividing doubles is an exact integer here.  The lists  *)
(* of Top and of the buckets are sets: they reach a client only through    *)
(* Bottom, which sorts them by the total order Entry::operator<.           *)
(***************************************************************************)
EXTENDS Integers, Sequences, FiniteSets, FiniteSetsExt, Bottom

CONSTANTS
    Times,      \* the arrival times a client pushes
    Unit,       \* the integer that stands for the time 1.0
    DblMax,     \* std::numeric_limits<double>::max()
    Thres,      \* m_Thres, DEFAULT_THRES = 50 in Ladder.hh
    MAX_RUNGS,  \* MAX_RUNGS = 5 in Ladder.hh
    MaxPushes,  \* bound: how many entries a behaviour may push
    NULL        \* the entry returned when the queue is empty

ASSUME LadderAssumption ==
    /\ Unit \in Nat \ {0} /\ DblMax \in Nat
    /\ Times \subseteq 0 .. DblMax
    /\ Thres \in Nat \ {0, 1}
    /\ MAX_RUNGS \in Nat \ {0}
    /\ MaxPushes \in Nat

Rungs == 0 .. MAX_RUNGS - 1

\* The unit of time is so fine that no width below is rounded: the gap between
\* two arrivals, spread over the entries of an epoch, leaves a width that every
\* rung can divide by Thres - 1, down to the last.
ASSUME ExactWidths ==
    \E fine \in [Rungs -> 1 .. Unit] :
        /\ \A r \in Rungs : r + 1 \in Rungs => fine[r] = (Thres - 1) * fine[r + 1]
        /\ Unit % fine[0] = 0
        /\ \A s, t \in Times, n \in 1 .. MaxPushes : s < t => (t - s) % (n * fine[0]) = 0

VARIABLES
    top,        \* Top: m_fifo
    maxTS,      \* Top: m_maxTS
    minTS,      \* Top: m_minTS
    topStart,   \* Top: m_topStart
    ladder,     \* Ladder: the record InitLadder describes
    bottom,     \* Bottom: m_list
    lastEvent,  \* Bottom: m_lastEvent
    inEvents,   \* LadderQueue: in_events
    outEvents,  \* LadderQueue: out_events
    result,     \* the value the last dequeue returned
    pushedBack  \* history: Ladder::pushBack has put entries on a new rung

topVars  == <<top, maxTS, minTS, topStart>>
vars == <<top, maxTS, minTS, topStart, ladder, bottom, lastEvent,
          inEvents, outEvents, result, pushedBack>>

-----------------------------------------------------------------------------
(* Ladder: every operator maps a ladder to the ladder the method leaves.   *)

InitLadder ==
    [lowest  |-> 0,                                  \* m_lowestRung
     NBC     |-> 0,                                  \* m_NBC
     events  |-> [r \in Rungs |-> 0],                \* m_events
     cur     |-> [r \in Rungs |-> 0],                \* m_currentBucket
     width   |-> [r \in Rungs |-> 0],                \* m_bucketwidth
     RCur    |-> [r \in Rungs |-> DblMax],           \* m_RCur
     RStart  |-> [r \in Rungs |-> DblMax],           \* m_RStart
     rungs   |-> [r \in Rungs |-> [b \in 0 .. Thres - 1 |-> {}]]]

Buckets(L, r) == Cardinality(DOMAIN L.rungs[r])      \* m_buckets[r]

RungEvents(L, r) == UNION {L.rungs[r][b] : b \in DOMAIN L.rungs[r]}
LadderEvents(L) == UNION {RungEvents(L, r) : r \in Rungs}

bucketwidth(max, min, n) == IF max = min THEN Unit ELSE (max - min) \div n

\* Ladder::bucket, with its three corrections in the order of the code.
bucket(L, ts, r) ==
    LET exact  == IF ts <= L.RStart[r] THEN 0
                  ELSE (ts - L.RStart[r]) \div L.width[r]
        raised == IF exact < L.cur[r] THEN exact + 1 ELSE exact
        capped == IF raised >= Buckets(L, r) THEN Buckets(L, r) - 1 ELSE raised
    IN  IF capped > L.cur[r] THEN L.cur[r] ELSE capped

\* push(rung, list): each entry into its bucket, updateNEvents(rung, 1).
PutAll(L, r, S) ==
    [L EXCEPT
       !.rungs[r]  = [b \in DOMAIN @ |->
                        @[b] \cup {e \in S : bucket(L, e.arrival, r) = b}],
       !.events[r] = @ + Cardinality(S),
       !.NBC       = @ + Cardinality(S)]

\* push(Entry) throws NO_EPOCH_INIT or RUNG_NOT_FOUND otherwise.
Accepts(L, ts) == L.NBC # 0 /\ ts >= L.RCur[L.lowest]

FindRung(L, ts) == Min({r \in 0 .. L.lowest : ts >= L.RCur[r] \/ r = L.lowest})

PushEntry(L, e) == PutAll(L, FindRung(L, e.arrival), {e})

resizeFirstRung(L, base) ==
    [L EXCEPT !.rungs[0] = [b \in 0 .. 2 * base - 1 |-> {}]]

\* push(list, max, min) of a non-empty list into a ladder with m_NBC = 0.
NewEpoch(L, S, max, min) ==
    LET w  == bucketwidth(max, min, Cardinality(S))
        n  == (max - min) \div w
        L1 == [L EXCEPT !.lowest = 0, !.width[0] = w,
                        !.RStart[0] = min, !.RCur[0] = min,
                        !.cur = [r \in Rungs |-> 0]]
        L2 == IF n >= Buckets(L, 0) THEN resizeFirstRung(L1, n) ELSE L1
    IN  PutAll(L2, 0, S)

CanSpawn(L) == L.lowest < MAX_RUNGS - 1

\* The new rung of spawn, before any entry moves to it.
AddRung(L) ==
    LET p == L.lowest IN
    [L EXCEPT !.lowest = p + 1,
              !.width[p + 1]  = L.width[p] \div (Thres - 1),
              !.RStart[p + 1] = L.RCur[p] - L.width[p],
              !.RCur[p + 1]   = L.RCur[p] - L.width[p],
              !.cur[p + 1]    = 0]

\* Mutant: m_NBC is not lowered before the entries are pushed again.
SpawnEnlistCountsTwice(L) ==
    LET p == L.lowest
        S == L.rungs[p][L.cur[p]]
    IN  PutAll([AddRung(L) EXCEPT !.cur[p] = @ + 1, !.rungs[p][L.cur[p]] = {},
                                  !.events[p] = @ - Cardinality(S)], p + 1, S)

\* spawn(true): the current bucket of the old lowest rung is spread over the
\* new one.
SpawnEnlist(L) ==
    LET p == L.lowest
        S == L.rungs[p][L.cur[p]]
        L1 == [AddRung(L) EXCEPT !.cur[p] = @ + 1,
                                 !.rungs[p][L.cur[p]] = {},
                                 !.events[p] = @ - Cardinality(S),
                                 !.NBC = @ - Cardinality(S)]
    IN  PutAll(L1, p + 1, S)

\* pushBack(list) = spawn(false) and push(lowest, list).
PushBack(L, S) == LET L1 == AddRung(L) IN PutAll(L1, L1.lowest, S)

ResetRungs(L, R) ==
    [L EXCEPT !.RCur   = [r \in Rungs |-> IF r \in R THEN DblMax ELSE @[r]],
              !.RStart = [r \in Rungs |-> IF r \in R THEN DblMax ELSE @[r]],
              !.cur    = [r \in Rungs |-> IF r \in R THEN 0 ELSE @[r]]]

\* First loop of advanceDequeueBucket: leave the empty lower rungs.
DropEmptyRungs(L) ==
    LET low == Max({r \in 0 .. L.lowest : L.events[r] # 0 \/ r = 0})
    IN  [ResetRungs(L, low + 1 .. L.lowest) EXCEPT !.lowest = low]

NonEmptyFrom(L, r) ==
    {b \in DOMAIN L.rungs[r] : b >= L.cur[r] /\ L.rungs[r][b] # {}}

\* Second loop: step over empty buckets.  It ends only if there is one to
\* stop at; DequeueBucketExists states that there is.
SkipEmptyBuckets(L) ==
    LET r == L.lowest
        b == IF NonEmptyFrom(L, r) = {} THEN L.cur[r] ELSE Min(NonEmptyFrom(L, r))
    IN  [L EXCEPT !.cur[r] = b, !.RCur[r] = @ + L.width[r] * (b - L.cur[r])]

CurrentBucket(L) ==
    IF L.cur[L.lowest] \in DOMAIN L.rungs[L.lowest]
    THEN L.rungs[L.lowest][L.cur[L.lowest]] ELSE {}

Advance(L) == SkipEmptyBuckets(DropEmptyRungs(L))

\* advanceDequeueBucket(true).  A failed spawn leaves m_RCur advanced.
AdvanceAndSpawn(L) ==
    LET L1 == Advance(L)
        L2 == [L1 EXCEPT !.RCur[L1.lowest] = @ + L1.width[L1.lowest]]
    IN  IF Cardinality(CurrentBucket(L1)) <= Thres THEN L1
        ELSE Advance(IF CanSpawn(L2) THEN SpawnEnlist(L2) ELSE L2)

\* delist() takes the current bucket of AdvanceAndSpawn(L) and leaves this.
AfterDelist(L) ==
    LET L1 == AdvanceAndSpawn(L)
        r  == L1.lowest
        S  == CurrentBucket(L1)
        L2 == [L1 EXCEPT !.events[r] = @ - Cardinality(S),
                         !.NBC = @ - Cardinality(S),
                         !.rungs[r] = [b \in DOMAIN @ |-> IF b = L1.cur[r] THEN {} ELSE @[b]],
                         !.RCur[r] = @ + L1.width[r],
                         !.cur[r] = @ + 1]
    IN  IF r > 0 /\ L2.events[r] = 0
        THEN [ResetRungs(L2, {r}) EXCEPT !.lowest = r - 1]
        ELSE L2

Delisted(L) == CurrentBucket(AdvanceAndSpawn(L))

-----------------------------------------------------------------------------
(* Bottom: getMaxTS and getMinTS.                                          *)

BottomMaxTS == IF bottom = <<>> THEN lastEvent ELSE bottom[Len(bottom)].arrival
BottomMinTS == IF bottom = <<>> THEN lastEvent ELSE bottom[1].arrival

-----------------------------------------------------------------------------
Init ==
    /\ top = {} /\ maxTS = 0 /\ minTS = DblMax /\ topStart = 0
    /\ ladder = InitLadder
    /\ bottom = <<>> /\ lastEvent = 0
    /\ inEvents = 0 /\ outEvents = 0
    /\ result = NULL /\ pushedBack = FALSE

\* Every push that does not throw counts the entry.
Counted == /\ inEvents' = inEvents + 1
           /\ UNCHANGED <<lastEvent, outEvents, result>>

PushTop(e) ==
    /\ e.arrival >= topStart
    /\ top' = top \cup {e}
    /\ maxTS' = Max({maxTS, e.arrival})
    /\ minTS' = Min({minTS, e.arrival})
    /\ UNCHANGED <<topStart, ladder, bottom, pushedBack>>
    /\ Counted

\* LadderQueue::push sends an entry to Bottom when it lies in Bottom's range,
\* and when the ladder throws NO_EPOCH_INIT or RUNG_NOT_FOUND.
ForBottom(e) ==
    /\ e.arrival < topStart
    /\ \/ BottomMinTS <= e.arrival /\ e.arrival <= BottomMaxTS
       \/ ~ Accepts(ladder, e.arrival)

PushLadder(e) ==
    /\ e.arrival < topStart
    /\ ~ ForBottom(e)
    /\ ladder' = PushEntry(ladder, e)
    /\ UNCHANGED <<topVars, bottom, pushedBack>>
    /\ Counted

\* Bottom::push refuses an entry earlier than the last dequeued one with
\* PAST_EVENT_NOT_ALLOWED.
NotPast(e) == e.arrival >= lastEvent

PushBottom(e) ==
    /\ ForBottom(e) /\ NotPast(e)
    /\ Len(bottom) < Thres
    /\ bottom' = Insert(bottom, e)
    /\ UNCHANGED <<topVars, ladder, pushedBack>>
    /\ Counted

\* Bottom outgrows the threshold while the ladder is empty: a new epoch.
PushBottomNewEpoch(e) ==
    /\ ForBottom(e) /\ NotPast(e)
    /\ Len(bottom) >= Thres
    /\ ladder.NBC = 0
    /\ LET list == Insert(bottom, e)
       IN  ladder' = NewEpoch(ladder, Entries(list),
                              list[Len(list)].arrival, list[1].arrival)
    /\ bottom' = <<>>
    /\ UNCHANGED <<topVars, pushedBack>>
    /\ Counted

\* Mutant: the list stays in Bottom too.
PushBottomPushBackCopies(e) ==
    /\ ForBottom(e) /\ NotPast(e)
    /\ Len(bottom) >= Thres /\ ladder.NBC # 0 /\ CanSpawn(ladder)
    /\ ladder' = PushBack(ladder, Entries(bottom) \cup {e})
    /\ pushedBack' = TRUE
    /\ UNCHANGED <<topVars, bottom>>
    /\ Counted

\* Bottom outgrows the threshold while the ladder holds entries: a new rung.
PushBottomPushBack(e) ==
    /\ ForBottom(e) /\ NotPast(e)
    /\ Len(bottom) >= Thres
    /\ ladder.NBC # 0
    /\ CanSpawn(ladder)
    /\ ladder' = PushBack(ladder, Entries(bottom) \cup {e})
    /\ bottom' = <<>>
    /\ pushedBack' = TRUE
    /\ UNCHANGED topVars
    /\ Counted

\* RUNG_OUT_OF_BOUNDS is caught: the entries stay in Bottom.
PushBottomOverflow(e) ==
    /\ ForBottom(e) /\ NotPast(e)
    /\ Len(bottom) >= Thres
    /\ ladder.NBC # 0
    /\ ~ CanSpawn(ladder)
    /\ bottom' = Insert(bottom, e)
    /\ UNCHANGED <<topVars, ladder, pushedBack>>
    /\ Counted

Push(e) ==
    \/ PushTop(e) \/ PushLadder(e) \/ PushBottom(e)
    \/ PushBottomNewEpoch(e) \/ PushBottomPushBack(e) \/ PushBottomOverflow(e)

\* pop_front of a Bottom that holds the list.
PopFront(list) ==
    /\ list # <<>>
    /\ bottom' = Tail(list)
    /\ lastEvent' = Head(list).arrival
    /\ result' = Head(list)
    /\ outEvents' = outEvents + 1
    /\ UNCHANGED inEvents

DequeueBottom ==
    /\ PopFront(bottom)
    /\ UNCHANGED <<topVars, ladder, pushedBack>>

DequeueLadder ==
    /\ bottom = <<>>
    /\ ladder.NBC # 0
    /\ ladder' = AfterDelist(ladder)
    /\ PopFront(SortList(Delisted(ladder)))
    /\ UNCHANGED <<topVars, pushedBack>>

\* Mutant: the earliest entry in place of the latest.
NewTopStartFromMin == minTS + Cardinality(top)

\* Top::delist sets m_topStart one width above the latest entry.
NewTopStart ==
    maxTS + IF maxTS > minTS THEN (maxTS - minTS) \div Cardinality(top) ELSE 0

DequeueTop ==
    /\ bottom = <<>>
    /\ ladder.NBC = 0
    /\ top # {}
    /\ topStart' = NewTopStart
    /\ LET L == NewEpoch(ladder, top, maxTS, minTS)
       IN  /\ ladder' = AfterDelist(L)
           /\ PopFront(SortList(Delisted(L)))
    /\ top' = {} /\ maxTS' = 0 /\ minTS' = DblMax
    /\ UNCHANGED pushedBack

DequeueEmpty ==
    /\ bottom = <<>>
    /\ ladder.NBC = 0
    /\ top = {}
    /\ result' = NULL
    /\ UNCHANGED <<topVars, ladder, bottom, lastEvent, inEvents, outEvents, pushedBack>>

Dequeue == DequeueBottom \/ DequeueLadder \/ DequeueTop \/ DequeueEmpty

NewEntry(ts) == [arrival |-> ts, gid |-> inEvents + 1]

Next == \/ \E ts \in Times : inEvents < MaxPushes /\ Push(NewEntry(ts))
        \/ Dequeue

Spec == Init /\ [][Next]_vars

\* The simulator's use of the queue: a handler never schedules an entry
\* before the one it was dequeued for.
SimNext == \/ \E ts \in Times : /\ inEvents < MaxPushes
                                /\ ts >= lastEvent
                                /\ Push(NewEntry(ts))
           \/ Dequeue

SimSpec == Init /\ [][SimNext]_vars

-----------------------------------------------------------------------------
(* Properties.                                                             *)

Stored == top \cup LadderEvents(ladder) \cup Entries(bottom)

\* What the ladder keeps by hand beside its lists tells where its entries are: the
\* counters (m_NBC, m_events) are their numbers, and no entry lies behind the
\* dequeue bucket of its rung, so that the scan of advanceDequeueBucket, which has
\* no bound of its own, and the next push stay inside the arrays.  LadderQueue::
\* size() adds the tiers up: they hold what was pushed and not yet dequeued.
Accounting ==
    /\ \A r \in Rungs :
        /\ ladder.events[r] = Cardinality(RungEvents(ladder, r))
        /\ ladder.events[r] # 0 => r <= ladder.lowest /\ ladder.cur[r] < Buckets(ladder, r)
        /\ \A b \in DOMAIN ladder.rungs[r] :
              ladder.rungs[r][b] # {} => b >= ladder.cur[r]
    /\ ladder.NBC # 0 => \A r \in 0 .. ladder.lowest : ladder.cur[r] < Buckets(ladder, r)
    /\ ladder.NBC = Cardinality(LadderEvents(ladder))
    /\ inEvents - outEvents = Cardinality(top) + ladder.NBC + Len(bottom)

\* Bottom is sorted by arrival, then by gid: the entries of one time leave it
\* in the order they were created.
BottomSorted == Sorted(bottom)

\* Top is a later epoch: nothing in the ladder or in Bottom comes after an
\* entry of Top, whatever the clients pushed in between.
EpochSeparation ==
    \A e \in LadderEvents(ladder) \cup Entries(bottom), f \in top : e.arrival <= f.arrival

\* Times never run backwards, whatever a client pushes, as long as Bottom has
\* not been pushed back into the ladder: an entry in the past is refused.
OrderedUntilPushBack == [][~ pushedBack => lastEvent' >= lastEvent]_vars

\* LadderQueueTest::testEnqueueDequeue20: entries leave in the order of their
\* arrival times.
DequeueInOrder == [][lastEvent' >= lastEvent]_vars

\* The scheduler neither loses nor invents nor repeats an entry, and reports
\* an empty queue only when it is empty.
Pool == INSTANCE EventPool WITH pending <- Stored,
    Entry <- [arrival : Times, gid : 1 .. MaxPushes]
PoolSpec == Pool!PoolSpec
=============================================================================
