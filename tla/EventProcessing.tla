--------------------------- MODULE EventProcessing ---------------------------
(***************************************************************************)
(* The event loop of src/core/event/EventProcessor.cc and the handlers     *)
(* Simulation.cc attaches to it.  One step is one iteration of the loop:   *)
(* an entry is dequeued, its handlers run in the order they are attached,  *)
(* and the entries they push are in the queue when the step ends.          *)
(*                                                                         *)
(* The queue is a set and returns its least entry by Entry::operator<, as  *)
(* EventProcessor expects, except that up to MaxMisorders times it returns *)
(* another one: LadderQueue grants no more.                                *)
(* Times are integers; the build is the one with NDEBUG.                   *)
(***************************************************************************)
EXTENDS Bottom

CONSTANTS
    Vertices,   \* the vertices of the network, by index
    Edges,      \* its directed edges
    Gaps,       \* the times between two external arrivals at a vertex
    Services,   \* the service times
    StopTime,   \* desArgs_t::stop_time
    Optional,   \* the admin events the configuration turns on
    Interval,   \* the time between two admin events of a type
    mfrw_T,     \* the number of steps of the arrival process
    rl_ci,      \* desArgs_t::rl_ci, collective intelligence
    MaxMisorders, \* bound: how often the queue returns a later entry first
    NULL        \* what a dequeue of an empty queue returns

EXTERNAL_EVENT == -1
ADMIN_EVENT == -2
NoVertex == -99

PeriodicTypes == {"SERIALISE_ARRIVAL", "LOG_GRAPH", "SYSTEM_STATISTICS"}
JobTypes == {"LAST_ARRIVAL", "ARRIVAL", "DEPARTURE", "ACK", "LEAVE"}
EventTypes == PeriodicTypes \cup JobTypes \cup {"GENERATE_ARRIVAL", "ACK_1HOP"}

ASSUME NetworkAssumption ==
    /\ Vertices \subseteq Nat /\ IsFiniteSet(Vertices)
    /\ Edges \subseteq Vertices \X Vertices

ASSUME ConfigAssumption ==
    /\ Gaps \subseteq Nat \ {0} /\ Services \subseteq Nat
    /\ StopTime \in Nat
    /\ Optional \subseteq PeriodicTypes
    /\ Interval \in [PeriodicTypes -> Nat \ {0}]
    /\ mfrw_T \in Nat
    /\ rl_ci \in BOOLEAN /\ MaxMisorders \in Nat

Out(v) == {w \in Vertices : <<v, w>> \in Edges}
In(v)  == {u \in Vertices : <<u, v>> \in Edges}

\* An Entry.  history is the stack event_path with event_arrivals.
EntryRecord == [gid : Nat, id : Nat, arrival : Nat, destination : Int,
                origin : Int, type : EventTypes,
                history : Seq([node : Int, time : Nat])]

VARIABLES
    status,        \* where process() is: "running", "done" or "failed"
    now,           \* m_oldTime
    queue,         \* the entries in the queue
    misorders,     \* how often the queue returned a later entry first
    uid,           \* Entry::uid
    busy,          \* vertex_busy
    numberInQueue, \* vertex_number_in_queue
    serviceEnds,   \* vertex_time_service_ends
    lastEvent,     \* vertex_last_event_time
    Bdt,           \* vertex_Bdt
    Qdt,           \* vertex_Qdt
    ticks,         \* the counters of the periodic admin handlers
    busyTime,      \* history: how long each server has been busy
    queueTime,     \* history: the time integral of each waiting line
    entered,       \* history: the jobs that entered, and where
    left           \* history: the jobs that left, and where from

serverVars  == <<busy, numberInQueue, serviceEnds>>
statVars    == <<lastEvent, Bdt, Qdt>>
journeyVars == <<entered, left>>
vars == <<status, now, queue, misorders, uid, serverVars, statVars, ticks,
          busyTime, queueTime, journeyVars>>

-----------------------------------------------------------------------------
(* The queue and the time of an iteration.                                 *)

IsFirst(e) == \A f \in queue \ {e} : Before(e, f)

\* What m_queue.dequeue() may return.
Dequeued ==
    IF queue = {} THEN {NULL}
    ELSE {e \in queue : IsFirst(e) \/ misorders < MaxMisorders}

\* The correction of an entry that lies in the past: epsilon is below the
\* resolution of the model.
Time(e) == IF e.arrival < now THEN now ELSE e.arrival

\* The time-weighted sums as they really are: reference values.
Elapse(t) ==
    /\ busyTime'  = [v \in Vertices |-> busyTime[v] + IF busy[v] THEN t - now ELSE 0]
    /\ queueTime' = [v \in Vertices |-> queueTime[v] + numberInQueue[v] * (t - now)]

\* An iteration that removes e and pushes the entries new.
Iterate(e, new) ==
    /\ queue' = (queue \ {e}) \cup new
    /\ uid' = uid + Cardinality(new)
    /\ now' = Time(e)
    /\ misorders' = IF IsFirst(e) THEN misorders ELSE misorders + 1
    /\ Elapse(Time(e))

\* The k-th entry an iteration creates as a copy of e.
Copy(e, k) == [e EXCEPT !.gid = uid + k, !.arrival = Time(e)]

\* The k-th entry an iteration creates that is new.
Fresh(k, t, destination, origin, type) ==
    [gid |-> uid + k, id |-> uid + k, arrival |-> t, destination |-> destination,
     origin |-> origin, type |-> type, history |-> <<>>]

\* The place of v when the vertices of S are enumerated by index.
Place(v, S) == Cardinality({u \in S : u <= v})

-----------------------------------------------------------------------------
(* Entry: the operations that turn a copy into the next event of its job.  *)

\* Mutant: the copy keeps its origin.
ServedKeepsOrigin(e, departure) ==
    [e EXCEPT !.arrival = departure, !.type = "DEPARTURE"]

\* service() and delayed(), which differ only in the delay they sum up.
Served(e, departure) ==
    [e EXCEPT !.arrival = departure, !.type = "DEPARTURE", !.origin = e.destination]

Departed(e, destination) ==
    [e EXCEPT !.destination = destination, !.type = "ARRIVAL"]

\* Mutant: an acknowledgement keeps the origin of the one before.
AcknowledgedByLast(e, origin, destination, type) ==
    [e EXCEPT !.destination = destination, !.type = type]

Acknowledged(e, origin, destination, type) ==
    [e EXCEPT !.origin = origin, !.destination = destination, !.type = type]

\* Mutant: the copy leaves with the origin of the acknowledgement.
LeavingKeepsOrigin(e) == [e EXCEPT !.destination = EXTERNAL_EVENT, !.type = "LEAVE"]

Leaving(e) == [e EXCEPT !.origin = e.destination,
                        !.destination = EXTERNAL_EVENT, !.type = "LEAVE"]

PushHistory(e, t) == [e EXCEPT !.history = Append(@, [node |-> e.origin, time |-> t])]

Top(e) == e.history[Len(e.history)].node

PopHistory(e) == [e EXCEPT !.history = SubSeq(@, 1, Len(@) - 1)]

-----------------------------------------------------------------------------
(* The handlers of the postAny event, after the handler of the event type: *)
(* UtilisationHandler, ExpectedAverageEventInQueueHandler, LastEventHandler.*)

Since(v, t) == IF t < lastEvent[v] THEN 0 ELSE t - lastEvent[v]

\* Mutant: LastEventHandler is attached first.
PostAnyLastEventFirst(v, t, departure) ==
    LET now_v == IF departure \/ numberInQueue'[v] > 0 THEN Since(v, t) - Since(v, t) ELSE 0
    IN  /\ Bdt' = [Bdt EXCEPT ![v] = @ + now_v]
        /\ Qdt' = [Qdt EXCEPT ![v] = @ + now_v * numberInQueue'[v]]
        /\ lastEvent' = [lastEvent EXCEPT ![v] = t]

\* An arrival counts the time since the last event if someone waits after it,
\* a departure always.
Counts(v, departure) == departure \/ numberInQueue'[v] > 0

Utilisation(v, t, departure) ==
    Bdt' = [Bdt EXCEPT ![v] = @ + IF Counts(v, departure) THEN Since(v, t) ELSE 0]

\* The area gains the line as it was before the event.
EventInQueue(v, t, departure) ==
    LET waiting == numberInQueue'[v]
        before  == IF departure THEN waiting + 1 ELSE waiting - 1
    IN  Qdt' = [Qdt EXCEPT ![v] =
                @ + IF Counts(v, departure) THEN Since(v, t) * before ELSE 0]

LastEvent(v, t) == lastEvent' = [lastEvent EXCEPT ![v] = t]

PostAny(v, t, departure) ==
    Utilisation(v, t, departure) /\ EventInQueue(v, t, departure) /\ LastEvent(v, t)

-----------------------------------------------------------------------------
(* ArrivalHandler.                                                         *)

\* Mutant: an idle server starts where its last service ended.
DepartureTimeFromEnds(v, t, service) == serviceEnds[v] + service

\* Mutant: the service of an entry that waits starts when it arrives.
DepartureTimeFromNow(v, t, service) == t + service

DepartureTime(v, t, service) ==
    IF busy[v] THEN serviceEnds[v] + service ELSE t + service

Occupy(v, departure) ==
    /\ numberInQueue' = [numberInQueue EXCEPT ![v] = IF busy[v] THEN @ + 1 ELSE @]
    /\ busy' = [busy EXCEPT ![v] = TRUE]
    /\ serviceEnds' = [serviceEnds EXCEPT ![v] = departure]

\* The queue may refuse the departure only when it lies before the entry that
\* was dequeued last.
Accept(e, departure, scheduled, k) ==
    LET v == e.destination
    IN  /\ Iterate(e, scheduled \cup
                      {Served(PushHistory(Copy(e, k), Time(e)), departure)})
        /\ PostAny(v, Time(e), FALSE)
        /\ UNCHANGED status

\* Mutant: the exception is caught and dropped.
RefuseSwallowed(e, departure, scheduled) ==
    /\ departure < e.arrival
    /\ Iterate(e, scheduled)
    /\ PostAny(e.destination, Time(e), FALSE)
    /\ UNCHANGED status

\* The exception leaves the handlers that are still to run undone, and ends
\* process().
Refuse(e, departure, scheduled) ==
    /\ departure < e.arrival
    /\ Iterate(e, scheduled)
    /\ status' = "failed"
    /\ UNCHANGED statVars

\* arrival(entry), after the entries in scheduled have been pushed.
Arrive(e, scheduled, k) ==
    /\ e.destination \in Vertices
    /\ \E service \in Services :
         LET departure == DepartureTime(e.destination, Time(e), service)
         IN  /\ Occupy(e.destination, departure)
             /\ Accept(e, departure, scheduled, k) \/ Refuse(e, departure, scheduled)
    /\ UNCHANGED <<ticks, left>>

Arrival(e) ==
    /\ e.type = "ARRIVAL"
    /\ Arrive(e, {}, 1)
    /\ UNCHANGED entered

\* Mutant: a busy server schedules no further external arrival.
NextArrivalsIfIdle(e) ==
    IF busy[e.destination] THEN {{}}
    ELSE {{Fresh(1, Time(e) + gap, e.destination, EXTERNAL_EVENT, "LAST_ARRIVAL")} :
            gap \in Gaps}

\* GenerateArrivalsHandler schedules the next external arrival at the vertex.
NextArrivals(e) ==
    {{Fresh(1, Time(e) + gap, e.destination, EXTERNAL_EVENT, "LAST_ARRIVAL")} :
       gap \in Gaps}

\* lastArrival(entry) falls through to arrival(entry).
LastArrival(e) ==
    /\ e.type = "LAST_ARRIVAL"
    /\ \E scheduled \in NextArrivals(e) : Arrive(e, scheduled, 2)
    /\ entered' = entered \cup {[id |-> e.id, at |-> e.destination]}

-----------------------------------------------------------------------------
(* DepartureHandler.                                                       *)

\* Mutant: the count of waiting entries is not guarded.
ReleaseUnguarded(v) ==
    /\ busy' = [busy EXCEPT ![v] = IF numberInQueue[v] = 0 THEN FALSE ELSE @]
    /\ numberInQueue' = [numberInQueue EXCEPT ![v] = @ - 1]

Release(v) ==
    /\ busy' = [busy EXCEPT ![v] = IF numberInQueue[v] = 0 THEN FALSE ELSE @]
    /\ numberInQueue' = [numberInQueue EXCEPT ![v] = IF @ > 0 THEN @ - 1 ELSE @]

\* The selection returns some out-neighbour; the last vertex of a path
\* acknowledges to itself.
Departure(e) ==
    LET v == e.destination IN
    /\ e.type = "DEPARTURE"
    /\ v \in Vertices
    /\ Release(v)
    /\ \/ \E w \in Out(v) : Iterate(e, {Departed(Copy(e, 1), w)})
       \/ /\ Out(v) = {}
          /\ Iterate(e, {Acknowledged(Copy(e, 1), v, v, "ACK")})
    /\ PostAny(v, Time(e), TRUE)
    /\ UNCHANGED <<status, serviceEnds, ticks, journeyVars>>

-----------------------------------------------------------------------------
(* AckHandler and LeaveHandler.                                            *)

\* Mutant: the neighbours are sent acknowledgements of the job itself.
SubworldAcks(e, previous) ==
    LET v == e.destination
    IN  {Acknowledged(Copy(PopHistory(e), 1 + Place(u, In(v) \ {previous})), v, u, "ACK") :
           u \in In(v) \ {previous}}

\* With collective intelligence the other in-neighbours hear of it too.
Subworld(e, previous) ==
    LET v == e.destination
    IN  {Acknowledged(Copy(PopHistory(e), 1 + Place(u, In(v) \ {previous})), v, u, "ACK_1HOP") :
           u \in In(v) \ {previous}}

Ack(e) ==
    LET v == e.destination
        previous == Top(e)
        popped == Copy(PopHistory(e), 1)
    IN  /\ e.type = "ACK"
        /\ v \in Vertices
        /\ \/ /\ previous = EXTERNAL_EVENT
              /\ Iterate(e, {Leaving(popped)})
           \/ /\ previous # EXTERNAL_EVENT
              /\ Iterate(e, {Acknowledged(popped, v, previous, "ACK")} \cup
                            IF rl_ci THEN Subworld(e, previous) ELSE {})
        /\ UNCHANGED <<status, serverVars, statVars, ticks, journeyVars>>

Ack1Hop(e) ==
    /\ e.type = "ACK_1HOP"
    /\ Iterate(e, {})
    /\ UNCHANGED <<status, serverVars, statVars, ticks, journeyVars>>

\* LeaveHandler files the job's time in the system under the entry's origin.
Leave(e) ==
    /\ e.type = "LEAVE"
    /\ Iterate(e, {})
    /\ left' = left \cup {[id |-> e.id, at |-> e.origin]}
    /\ UNCHANGED <<status, serverVars, statVars, ticks, entered>>

-----------------------------------------------------------------------------
(* The admin event: SerialiseArrivalsHandler, GenerateArrivalsAdminHandler, *)
(* LogGraphHandler, RollingSystemStatsAdminHandler.                        *)

\* One external arrival for every vertex.
FirstArrivals(t) ==
    {{Fresh(Place(v, Vertices), t + gap[v], v, EXTERNAL_EVENT, "LAST_ARRIVAL") :
        v \in Vertices} : gap \in [Vertices -> Gaps]}

Generate(e) ==
    /\ e.type = "GENERATE_ARRIVAL"
    /\ \E new \in FirstArrivals(Time(e)) : Iterate(e, new)
    /\ UNCHANGED <<status, serverVars, statVars, ticks, journeyVars>>

Again(e, t) == {Fresh(1, t, NoVertex, ADMIN_EVENT, e.type)}

LogGraph(e) ==
    LET t == (ticks[e.type] + 1) * Interval[e.type] IN
    /\ e.type = "LOG_GRAPH"
    /\ ticks' = [ticks EXCEPT ![e.type] = @ + 1]
    /\ Iterate(e, IF t <= StopTime THEN Again(e, t) ELSE {})
    /\ UNCHANGED <<status, serverVars, statVars, journeyVars>>

SerialiseArrivals(e) ==
    LET more == ticks[e.type] < mfrw_T IN
    /\ e.type = "SERIALISE_ARRIVAL"
    /\ ticks' = [ticks EXCEPT ![e.type] = IF more THEN @ + 1 ELSE @]
    /\ Iterate(e, IF more THEN Again(e, (ticks[e.type] + 1) * Interval[e.type]) ELSE {})
    /\ UNCHANGED <<status, serverVars, statVars, journeyVars>>

SystemStatistics(e) ==
    LET t == Time(e) + Interval[e.type] IN
    /\ e.type = "SYSTEM_STATISTICS"
    /\ Iterate(e, IF t <= StopTime THEN Again(e, t) ELSE {})
    /\ UNCHANGED <<status, serverVars, statVars, ticks, journeyVars>>

Admin(e) ==
    /\ e.origin = ADMIN_EVENT
    /\ Generate(e) \/ LogGraph(e) \/ SerialiseArrivals(e) \/ SystemStatistics(e)

-----------------------------------------------------------------------------
(* EventProcessor::process.                                                *)

\* The admin events Simulation.cc schedules, in its order.
Scheduled ==
    LET IfOn(type) == IF type \in Optional THEN <<type>> ELSE <<>>
    IN  IfOn("SERIALISE_ARRIVAL") \o <<"GENERATE_ARRIVAL">>
          \o IfOn("LOG_GRAPH") \o IfOn("SYSTEM_STATISTICS")

Init ==
    /\ status = "running" /\ now = 0
    /\ queue = {[gid |-> k, id |-> k, arrival |-> 0, destination |-> NoVertex,
                 origin |-> ADMIN_EVENT, type |-> Scheduled[k], history |-> <<>>] :
                  k \in DOMAIN Scheduled}
    /\ misorders = 0 /\ uid = Len(Scheduled)
    /\ busy = [v \in Vertices |-> FALSE]
    /\ numberInQueue = [v \in Vertices |-> 0]
    /\ serviceEnds = [v \in Vertices |-> 0]
    /\ lastEvent = [v \in Vertices |-> 0]
    /\ Bdt = [v \in Vertices |-> 0] /\ Qdt = [v \in Vertices |-> 0]
    /\ ticks = [type \in PeriodicTypes |-> 0]
    /\ busyTime = [v \in Vertices |-> 0] /\ queueTime = [v \in Vertices |-> 0]
    /\ entered = {} /\ left = {}

\* Mutant: the loop goes on after the stop time.
EndSkips(r) ==
    /\ queue' = queue \ {r}
    /\ UNCHANGED <<status, now, misorders, uid, serverVars, statVars, ticks,
                   busyTime, queueTime, journeyVars>>

\* The loop ends and the handler of the post event drops what is queued.
End(r) ==
    /\ status' = "done"
    /\ queue' = {}
    /\ now' = IF r = NULL THEN now ELSE Time(r)
    /\ Elapse(now')
    /\ UNCHANGED <<misorders, uid, serverVars, statVars, ticks, journeyVars>>

Job(e) ==
    /\ e.origin # ADMIN_EVENT
    /\ Time(e) <= StopTime
    /\ \/ Arrival(e) \/ LastArrival(e) \/ Departure(e)
       \/ Ack(e) \/ Ack1Hop(e) \/ Leave(e)

Process(r) ==
    \/ /\ IF r = NULL THEN TRUE ELSE r.origin # ADMIN_EVENT /\ Time(r) > StopTime
       /\ End(r)
    \/ r # NULL /\ (Admin(r) \/ Job(r))

Running == status = "running" /\ \E r \in Dequeued : Process(r)

Terminated == status # "running" /\ UNCHANGED vars

Next == Running \/ Terminated

Spec == Init /\ [][Next]_vars

\* process() is one thread that runs until the loop ends.
FairSpec == Spec /\ WF_vars(Running)

-----------------------------------------------------------------------------
(* Properties.                                                             *)

Departures(v) == {e \in queue : e.type = "DEPARTURE" /\ e.destination = v}

Pending(type, v) == {e \in queue : e.type = type /\ e.destination = v}

TypeOK ==
    /\ status \in {"running", "done", "failed"} /\ now \in Nat
    /\ queue \subseteq EntryRecord /\ misorders \in Nat /\ uid \in Nat
    /\ busy \in [Vertices -> BOOLEAN]
    /\ numberInQueue \in [Vertices -> Nat] /\ serviceEnds \in [Vertices -> Nat]
    /\ lastEvent \in [Vertices -> Nat]
    /\ Bdt \in [Vertices -> Nat] /\ Qdt \in [Vertices -> Nat]
    /\ ticks \in [PeriodicTypes -> Nat]
    /\ busyTime \in [Vertices -> Nat] /\ queueTime \in [Vertices -> Nat]
    /\ entered \subseteq [id : Nat, at : Vertices]
    /\ left \subseteq [id : Nat, at : Vertices]

\* The departures scheduled at a vertex are those its server counts on.
InStep(v) == Cardinality(Departures(v)) = numberInQueue[v] + IF busy[v] THEN 1 ELSE 0
OneShort(v) == Cardinality(Departures(v)) + 1 = numberInQueue[v] + IF busy[v] THEN 1 ELSE 0

\* ArrivalHandler and DepartureHandler keep busy and number_in_queue on either
\* side of the event queue: together they count the departures scheduled at a
\* vertex, whatever the order they come back in.  A server is booked before the
\* push of its departure is refused (ArrivalHandler.cc:201): the loop then ends
\* with that one service too many, at that vertex alone.
ServerBooks ==
    /\ \A v \in Vertices : ~ busy[v] => numberInQueue[v] = 0
    /\ status = "running" => \A v \in Vertices : InStep(v)
    /\ status = "failed" =>
          \E v \in Vertices : OneShort(v) /\ \A w \in Vertices \ {v} : InStep(w)

\* The assertion of EventProcessor that newTime >= m_oldTime, and the push that
\* Bottom would refuse: no handler leaves an entry in the queue that lies
\* before the time the loop has reached, and process() never fails.
NoPastSchedule ==
    /\ status # "failed"
    /\ \A e \in queue : e.arrival >= now

\* What a job has behind it, from outside to its present destination, is a walk
\* of the network: an acknowledgement that retraces it takes edges that exist.
Walk(e) == [i \in 1 .. Len(e.history) + 1 |->
              IF i <= Len(e.history) THEN e.history[i].node ELSE e.destination]

HistoryIsWalk ==
    \A e \in queue :
        e.type \in {"DEPARTURE", "ACK"} =>
            /\ e.history # <<>>
            /\ Walk(e)[1] = EXTERNAL_EVENT
            /\ [id |-> e.id, at |-> Walk(e)[2]] \in entered
            /\ \A i \in 2 .. Len(e.history) : <<Walk(e)[i], Walk(e)[i + 1]>> \in Edges

\* The response handlers look up boost::edge(destination, origin) of every
\* acknowledgement at a vertex with successors, and read the top of its history,
\* without asking whether there is one.
AckFromSuccessor ==
    \A e \in queue :
        e.type \in {"ACK", "ACK_1HOP"} =>
            /\ Out(e.destination) # {} => <<e.destination, e.origin>> \in Edges
            /\ e.history # <<>>

\* A job is in the queue as one entry from its arrival until it leaves: the
\* copies the handlers make never lose it or double it.
OneEntryPerJob ==
    status = "running" =>
        \A job \in entered :
            Cardinality({e \in queue : e.id = job.id /\ e.type # "ACK_1HOP"}) =
                IF \E gone \in left : gone.id = job.id THEN 0 ELSE 1

\* LeaveHandler files a job under the vertex where it came in from outside.
LeavesWhereItEntered == left \subseteq entered

\* The stream of external arrivals neither dries up nor doubles.
OneArrivalAhead ==
    status = "running" =>
        \A v \in Vertices :
            \/ Cardinality(Pending("LAST_ARRIVAL", v)) = 1
            \/ \E e \in queue : e.type = "GENERATE_ARRIVAL"

\* UtilisationHandler: Bdt is the integral of B(t), the server being busy, up
\* to the last event at the vertex.  That also holds when a refused departure has
\* ended the loop before UtilisationHandler ran: the server is marked as busy by
\* then, but only the departure of a server that was busy before is refused.
BusyTimeExact ==
    \A v \in Vertices :
        Bdt[v] = busyTime[v] - IF busy[v] THEN now - lastEvent[v] ELSE 0

\* ExpectedAverageEventInQueueHandler: Qdt is the integral of Q(t), the number
\* in the queue "immediately before the event arrived".
QueueTimeExact ==
    status = "running" =>
        \A v \in Vertices :
            Qdt[v] = queueTime[v] - numberInQueue[v] * (now - lastEvent[v])

\* Each vertex serves its jobs first come, first served: the departures in the
\* queue, in time order, are the line of the server.
Line == [v \in Vertices |->
           LET list == SortList(Departures(v))
           IN  [i \in DOMAIN list |-> list[i].id]]

Fifo == INSTANCE FifoServers WITH line <- Line
FifoSpec == Fifo!FifoSpec

\* The loop ends: the stop time is reached, however the entries interleave.
Termination == <>(status = "done")
===============================================================================
