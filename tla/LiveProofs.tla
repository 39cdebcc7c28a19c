----------------------------- MODULE LiveProofs -----------------------------
(***************************************************************************)
(* Proofs about the live feed for every value of the constants. StreamHub: *)
(* a session is handed each trade at most once and in order, and sleeps    *)
(* through nothing. LivePage: only trades of this stream come to the tape, *)
(* the guard of the chart is its end, and nothing that was stored when the *)
(* stream opened stays missing.                                            *)
(***************************************************************************)
EXTENDS StreamHub, LivePage, TLAPS, FiniteSetTheorems, SequenceTheorems, WellFoundedInduction

\* The distances to n are natural numbers, and the least of them is that of
\* the newest entry.
LEMMA MaximumExists ==
  ASSUME NEW n \in Nat, NEW S \in SUBSET (1..n), S # {}
  PROVE  \E i \in S : \A j \in S : j <= i
<1> DEFINE Distances == {n - i : i \in S}
           Less == OpToRel(<, Nat)
<1>1. Distances \subseteq Nat /\ Distances # {}
  <2>1. \A i \in S : n - i \in Nat
    OBVIOUS
  <2>2. PICK i \in S : TRUE
    OBVIOUS
  <2>3. n - i \in Distances
    OBVIOUS
  <2> QED BY <2>1, <2>3
<1>2. PICK d \in Distances : \A e \in Distances : ~ (<<e, d>> \in Less)
  <2> HIDE DEF Distances, Less
  <2> QED BY <1>1, NatLessThanWellFounded, WFMin DEF Less
<1>3. PICK i \in S : d = n - i
  BY <1>2
<1>4. ASSUME NEW j \in S
      PROVE  j <= i
  <2>1. n - j \in Distances /\ n - j \in Nat /\ d \in Nat
    BY <1>1
  <2>2. ~ (n - j < d)
    BY <1>2, <2>1 DEF OpToRel
  <2>3. i \in Nat /\ j \in Nat
    OBVIOUS
  <2> HIDE DEF Distances, Less
  <2> QED BY <1>3, <2>2, <2>3
<1> QED BY <1>4

\* Where the shared reader is; 0 before it knows the tail.
Reach == IF cursor = NoCursor THEN 0 ELSE cursor

\* The types of the hub and of its sessions, without the counts of the groups.
HubTypes ==
    /\ stream \in Seq(Groups \union {Malformed})
    /\ cursor \in {NoCursor} \union 0..Len(stream)
    /\ buffer \in SUBSET (1..Len(stream))

SessionTypes ==
    /\ phase \in [Clients -> {"idle", "waiting", "sending"}]
    /\ wanted \in [Clients -> SUBSET Groups]
    /\ pending \in [Clients -> SUBSET (1..Len(stream))]
    /\ event \in [Clients -> BOOLEAN] /\ closed \in [Clients -> BOOLEAN]
    /\ seen \in [Clients -> 0..Len(stream)]

Types == HubTypes /\ SessionTypes

\* A client without a session has nothing left of the last one: the next one
\* starts with an empty cell and an empty past.
Fresh(c) ==
    phase[c] = "idle" => pending[c] = {} /\ seen[c] = 0 /\ ~ event[c] /\ ~ closed[c]

\* The event is set exactly for what the session must not sleep through.
Rung(c) == event[c] <=> (pending[c] # {} \/ closed[c])

\* Nothing that is collected, on its way or handed out lies beyond the reader,
\* so what is read next is newer than all of it.
Behind(c) == pending[c] \subseteq 1..Reach /\ seen[c] <= Reach

\* InOrderOnce, of one session.
Ordered(c) ==
    /\ \A i \in pending[c] \union buffer : stream[i] \in wanted[c] => seen[c] < i
    /\ \A i \in pending[c], j \in buffer : i < j

Session(c) == Fresh(c) /\ Rung(c) /\ Behind(c) /\ Ordered(c)

HubInv ==
    /\ Types
    /\ buffer \subseteq 1..Reach
    /\ \A c \in Clients : Session(c)

\* The reader's place is a position in the stream.
LEMMA ReachIsNatural ==
  ASSUME HubTypes
  PROVE  Reach \in 0..Len(stream) /\ Len(stream) \in Nat
<1>1. Len(stream) \in Nat
  BY DEF HubTypes
<1> QED BY <1>1 DEF HubTypes, Reach, NoCursor

-----------------------------------------------------------------------------
\* Nothing is read and nobody is there.
LEMMA InitHub == Init => HubInv
<1> SUFFICES ASSUME Init
             PROVE  HubInv
  OBVIOUS
<1>1. stream = <<>> /\ Len(stream) = 0 /\ stream \in Seq(Groups \union {Malformed})
  BY DEF Init
<1>2. Types
  BY <1>1 DEF Init, Types, HubTypes, SessionTypes
<1>3. ASSUME NEW c \in Clients
      PROVE  Session(c)
  BY <1>3 DEF Init, Session, Fresh, Rung, Behind, Ordered, Reach, NoCursor
<1> QED BY <1>2, <1>3 DEF HubInv, Init

\* The producer adds to the stream what no one has read.
LEMMA PublishKeepsHub ==
  ASSUME HubInv, NEW g \in Groups \union {Malformed}, Publish(g)
  PROVE  HubInv'
<1>1. /\ Len(stream) \in Nat /\ Len(stream') = Len(stream) + 1
      /\ stream' \in Seq(Groups \union {Malformed})
      /\ \A i \in 1..Len(stream) : stream'[i] = stream[i]
  BY DEF HubInv, Types, HubTypes, Publish
<1>2. UNCHANGED <<cursor, buffer, phase, wanted, pending, event, closed, seen>>
  BY DEF Publish, reader, sessions
<1>3. Types'
  <2>1. HubTypes'
    BY <1>1, <1>2 DEF HubInv, Types, HubTypes, NoCursor
  <2>2. SessionTypes'
    BY <1>1, <1>2 DEF HubInv, Types, SessionTypes
  <2> QED BY <2>1, <2>2 DEF Types
<1>4. Reach' = Reach
  BY <1>2 DEF Reach
<1>5. ASSUME NEW c \in Clients
      PROVE  Session(c)'
  <2>1. pending[c] \subseteq 1..Len(stream) /\ buffer \subseteq 1..Len(stream)
    BY DEF HubInv, Types, HubTypes, SessionTypes
  <2>2. Ordered(c)'
    BY <1>1, <1>2, <2>1 DEF HubInv, Session, Ordered
  <2> QED BY <1>2, <1>4, <2>2 DEF HubInv, Session, Fresh, Rung, Behind
<1> QED BY <1>2, <1>3, <1>4, <1>5 DEF HubInv

\* A session that joins inside a window may be handed what was collected
\* before it came: its past is empty.
LEMMA ConnectKeepsHub ==
  ASSUME HubInv, NEW c \in Clients, NEW groups \in SUBSET Groups, Connect(c, groups)
  PROVE  HubInv'
<1>1. UNCHANGED <<stream, cursor, buffer, pending, event, closed, seen>>
  BY DEF Connect
<1>2. /\ phase' = [phase EXCEPT ![c] = "waiting"]
      /\ wanted' = [wanted EXCEPT ![c] = groups]
  BY DEF Connect
<1>3. Types'
  BY <1>1, <1>2 DEF HubInv, Types, HubTypes, SessionTypes
<1>4. Reach' = Reach
  BY <1>1 DEF Reach
<1>5. ASSUME NEW d \in Clients
      PROVE  Session(d)'
  <2>1. Session(d) /\ Fresh(d)' /\ Rung(d)' /\ Behind(d)'
    BY <1>1, <1>2, <1>4 DEF HubInv, Types, SessionTypes, Session, Fresh, Rung, Behind
  <2>2. CASE d = c
    <3>1. pending[c] = {} /\ seen[c] = 0
      BY DEF HubInv, Session, Fresh, Connect
    <3>2. \A i \in buffer : 0 < i
      BY DEF HubInv, Types, HubTypes
    <3>3. Ordered(c)'
      BY <1>1, <3>1, <3>2 DEF Ordered
    <3> QED BY <2>1, <2>2, <3>3 DEF Session
  <2>3. CASE d # c
    <3>1. wanted'[d] = wanted[d]
      BY <1>2, <2>3 DEF HubInv, Types, SessionTypes
    <3> QED BY <1>1, <2>1, <3>1 DEF Session, Ordered
  <2> QED BY <2>2, <2>3
<1> QED BY <1>1, <1>3, <1>4, <1>5 DEF HubInv

\* A session that leaves takes its cell with it. If it was the last one, the
\* reader forgets where it was, and nobody is left who was handed anything.
LEMMA UnregisterKeepsHub ==
  ASSUME HubInv, NEW c \in Clients, Unregister(c)
  PROVE  HubInv'
<1>1. /\ stream' = stream
      /\ phase' = [phase EXCEPT ![c] = "idle"]
      /\ wanted' = [wanted EXCEPT ![c] = {}] /\ pending' = [pending EXCEPT ![c] = {}]
      /\ event' = [event EXCEPT ![c] = FALSE] /\ closed' = [closed EXCEPT ![c] = FALSE]
      /\ seen' = [seen EXCEPT ![c] = 0]
  BY DEF Unregister
<1>2. \/ Registered = {c} /\ cursor' = NoCursor /\ buffer' = {}
      \/ UNCHANGED <<cursor, buffer>>
  BY DEF Unregister
<1>3. Types'
  <2>1. SessionTypes'
    BY <1>1 DEF HubInv, Types, SessionTypes
  <2>2. HubTypes'
    BY <1>1, <1>2 DEF HubInv, Types, HubTypes
  <2> QED BY <2>1, <2>2 DEF Types
<1>4. ASSUME NEW d \in Clients, d # c
      PROVE  /\ phase'[d] = phase[d] /\ wanted'[d] = wanted[d] /\ pending'[d] = pending[d]
             /\ event'[d] = event[d] /\ closed'[d] = closed[d] /\ seen'[d] = seen[d]
  BY <1>1, <1>4 DEF HubInv, Types, SessionTypes
<1>5. /\ phase'[c] = "idle" /\ pending'[c] = {} /\ seen'[c] = 0
      /\ event'[c] = FALSE /\ closed'[c] = FALSE /\ wanted'[c] = {}
  BY <1>1 DEF HubInv, Types, SessionTypes
<1>6. Reach' \in Nat
  BY <1>3, ReachIsNatural DEF Types, HubTypes, Reach, NoCursor
<1>7. Session(c)'
  BY <1>5, <1>6 DEF Session, Fresh, Rung, Behind, Ordered
<1>8. CASE Registered = {c} /\ cursor' = NoCursor /\ buffer' = {}
  <2>1. ASSUME NEW d \in Clients, d # c
        PROVE  Session(d)'
    <3>1. phase[d] = "idle"
      BY <1>8, <2>1 DEF Registered
    <3>2. pending[d] = {} /\ seen[d] = 0 /\ Session(d)
      BY <3>1 DEF HubInv, Session, Fresh
    <3> QED BY <1>4, <1>6, <1>8, <2>1, <3>2 DEF Session, Fresh, Rung, Behind, Ordered
  <2> QED BY <1>3, <1>7, <1>8, <2>1 DEF HubInv
<1>9. CASE UNCHANGED <<cursor, buffer>>
  <2>1. Reach' = Reach
    BY <1>9 DEF Reach
  <2>2. ASSUME NEW d \in Clients, d # c
        PROVE  Session(d)'
    BY <1>1, <1>4, <1>9, <2>1, <2>2 DEF HubInv, Session, Fresh, Rung, Behind, Ordered
  <2> QED BY <1>3, <1>7, <1>9, <2>1, <2>2 DEF HubInv
<1> QED BY <1>2, <1>8, <1>9

\* A session that takes its batch has then been handed the newest of it, and
\* what the window collects meanwhile is newer still.
LEMMA TakingKeepsHub ==
  ASSUME HubInv, NEW c \in Clients, phase[c] = "waiting", event[c], ~ closed[c],
         phase' = [phase EXCEPT ![c] = "sending"],
         event' = [event EXCEPT ![c] = FALSE],
         pending' = [pending EXCEPT ![c] = {}],
         seen' = [seen EXCEPT ![c] = NewestOf(pending[c])],
         UNCHANGED <<stream, reader, wanted, closed>>
  PROVE  HubInv'
<1>1. UNCHANGED <<cursor, buffer>> /\ Reach' = Reach
  BY DEF reader, Reach
<1>2. Session(c) /\ pending[c] # {} /\ pending[c] \in SUBSET (1..Len(stream)) /\ Len(stream) \in Nat
  BY DEF HubInv, Session, Rung, Types, HubTypes, SessionTypes
<1>3. NewestOf(pending[c]) \in pending[c] /\ \A j \in pending[c] : j <= NewestOf(pending[c])
  BY <1>2, MaximumExists DEF NewestOf
<1>4. /\ phase'[c] = "sending" /\ ~ event'[c] /\ pending'[c] = {}
      /\ seen'[c] = NewestOf(pending[c])
  BY DEF HubInv, Types, SessionTypes
<1>5. Types'
  BY <1>1, <1>2, <1>3 DEF HubInv, Types, HubTypes, SessionTypes
<1>6. Session(c)'
  <2>1. Behind(c)'
    BY <1>1, <1>2, <1>3, <1>4 DEF Session, Behind
  <2>2. Ordered(c)'
    BY <1>1, <1>2, <1>3, <1>4 DEF Session, Ordered
  <2> QED BY <1>4, <2>1, <2>2 DEF Session, Fresh, Rung
<1>7. ASSUME NEW d \in Clients, d # c
      PROVE  Session(d)'
  <2>1. /\ phase'[d] = phase[d] /\ pending'[d] = pending[d]
        /\ event'[d] = event[d] /\ seen'[d] = seen[d]
    BY <1>7 DEF HubInv, Types, SessionTypes
  <2> QED BY <1>1, <1>7, <2>1 DEF HubInv, Session, Fresh, Rung, Behind, Ordered
<1> QED BY <1>1, <1>5, <1>6, <1>7 DEF HubInv

\* Moves between waiting and sending leave everything else where it is.
LEMMA MovingKeepsHub ==
  ASSUME HubInv, NEW c \in Clients, NEW place \in {"waiting", "sending"},
         phase' = [phase EXCEPT ![c] = place],
         UNCHANGED <<stream, reader, wanted, pending, event, closed, seen>>
  PROVE  HubInv'
<1>1. UNCHANGED <<cursor, buffer>> /\ Reach' = Reach
  BY DEF reader, Reach
<1>2. Types'
  BY <1>1 DEF HubInv, Types, HubTypes, SessionTypes
<1>3. ASSUME NEW d \in Clients
      PROVE  Session(d)'
  <2>1. Fresh(d)'
    BY DEF HubInv, Types, SessionTypes, Session, Fresh
  <2> QED BY <1>1, <2>1 DEF HubInv, Session, Rung, Behind, Ordered
<1> QED BY <1>1, <1>2, <1>3 DEF HubInv

\* The turns of a session's generator.
LEMMA TurnKeepsHub ==
  ASSUME HubInv, NEW c \in Clients, Wake(c) \/ Timeout(c) \/ Sent(c) \/ Disconnect(c)
  PROVE  HubInv'
<1>1. CASE Unregister(c)
  BY <1>1, UnregisterKeepsHub
<1>2. CASE Wake(c) /\ ~ Unregister(c)
  BY <1>2, TakingKeepsHub DEF Wake
<1>3. CASE (Timeout(c) /\ ~ Unregister(c)) \/ Sent(c)
  BY <1>3, MovingKeepsHub DEF Timeout, Sent
<1> QED BY <1>1, <1>2, <1>3 DEF Disconnect

-----------------------------------------------------------------------------
\* The tail is looked up only by a reader that has collected nothing and whose
\* sessions have been handed nothing.
LEMMA ReadTailKeepsHub ==
  ASSUME HubInv, ReadTail
  PROVE  HubInv'
<1>1. UNCHANGED <<stream, buffer, phase, wanted, pending, event, closed, seen>>
  BY DEF ReadTail, sessions
<1>2. Reach = 0 /\ Len(stream) \in Nat /\ cursor' = Len(stream)
  BY DEF ReadTail, Reach, HubInv, Types, HubTypes
<1>3. Reach' = Len(stream)
  BY <1>2 DEF Reach, NoCursor
<1>4. buffer = {}
  BY <1>2 DEF HubInv
<1>5. Types'
  BY <1>1, <1>2 DEF HubInv, Types, HubTypes, SessionTypes
<1>6. ASSUME NEW c \in Clients
      PROVE  Session(c)'
  <2>1. Behind(c)'
    BY <1>1, <1>3 DEF HubInv, Types, SessionTypes, Behind
  <2> QED BY <1>1, <2>1 DEF HubInv, Session, Fresh, Rung, Ordered
<1> QED BY <1>1, <1>4, <1>5, <1>6 DEF HubInv

\* What one XREAD gives is newer than all there is.
LEMMA ReadKeepsHub ==
  ASSUME HubInv, NEW windowEnds \in BOOLEAN, Read(windowEnds)
  PROVE  HubInv'
<1> DEFINE last == IF cursor + ReadCount < Len(stream) THEN cursor + ReadCount ELSE Len(stream)
           got == Collected((cursor + 1)..last)
           entries == buffer \union got
<1>1. /\ Len(stream) \in Nat /\ cursor \in 0..Len(stream) /\ Reach = cursor
      /\ ReadCount \in Nat \ {0}
  BY SettingsAssumption DEF ValidSseSettings, Read, HubInv, Types, HubTypes, Reach
<1>2. /\ last \in cursor..Len(stream)
      /\ UNCHANGED <<stream, phase, wanted, closed, seen>> /\ cursor' = last
  BY <1>1 DEF Read
<1>3. Reach' = last /\ last \in Nat
  BY <1>1, <1>2 DEF Reach, NoCursor
<1>4. \A i \in got : cursor < i /\ i <= last /\ i \in Nat
  BY <1>1, <1>2 DEF Collected
<1>5. \/ FlushWindow(entries)
      \/ buffer' = entries /\ UNCHANGED <<pending, event>>
  BY DEF Read
<1> HIDE DEF last, got
<1>6. buffer \subseteq 1..cursor /\ entries \subseteq 1..last
  <2>1. buffer \subseteq 1..cursor
    BY <1>1 DEF HubInv
  <2>2. cursor \in Nat /\ last \in Nat /\ cursor <= last
    BY <1>1, <1>2
  <2>3. buffer \subseteq 1..last
    BY <2>1, <2>2
  <2>4. got \subseteq 1..last
    BY <1>4, <2>2
  <2> QED BY <2>1, <2>3, <2>4
<1>7. ASSUME NEW c \in Clients
      PROVE  /\ Session(c) /\ pending[c] \subseteq 1..cursor /\ seen[c] \in 0..cursor
             /\ \A i \in entries : stream[i] \in wanted[c] => seen[c] < i
  <2>1. Session(c) /\ pending[c] \subseteq 1..cursor /\ seen[c] \in 0..cursor
    BY <1>1 DEF HubInv, Types, SessionTypes, Session, Behind
  <2>2. \A i \in entries : stream[i] \in wanted[c] => seen[c] < i
    BY <1>1, <1>4, <2>1 DEF Session, Ordered
  <2> QED BY <2>1, <2>2
<1>8. CASE buffer' = entries /\ UNCHANGED <<pending, event>>
  <2>1. Types'
    BY <1>1, <1>2, <1>6, <1>8 DEF HubInv, Types, HubTypes, SessionTypes
  <2>2. ASSUME NEW c \in Clients
        PROVE  Session(c)'
    <3>1. Behind(c)'
      BY <1>1, <1>2, <1>3, <1>7, <1>8 DEF Behind
    <3>2. \A i \in pending[c], j \in entries : i < j
      BY <1>1, <1>4, <1>7 DEF Session, Ordered
    <3>3. Ordered(c)'
      BY <1>2, <1>7, <1>8, <3>2 DEF Session, Ordered
    <3> QED BY <1>2, <1>7, <1>8, <3>1, <3>3 DEF Session, Fresh, Rung
  <2> QED BY <1>3, <1>6, <1>8, <2>1, <2>2 DEF HubInv
<1>9. CASE FlushWindow(entries)
  <2>1. buffer' = {}
    BY <1>9 DEF FlushWindow, AfterFlush
  <2>2. ASSUME NEW c \in Clients
        PROVE  /\ Relevant(c, entries) \subseteq entries
               /\ \/ /\ phase[c] # "idle" /\ Relevant(c, entries) # {}
                     /\ pending'[c] = Relevant(c, entries) /\ event'[c]
                  \/ pending'[c] = pending[c] /\ event'[c] = event[c]
    <3>1. event[c] \in BOOLEAN
      BY DEF HubInv, Types, SessionTypes
    <3> QED BY <1>9, <2>2, <3>1 DEF FlushWindow, Notified, Registered, Relevant, Selected
  <2>3. pending' \in [Clients -> SUBSET (1..Len(stream))] /\ event' \in [Clients -> BOOLEAN]
    <3>1. \A c \in Clients : pending'[c] \in SUBSET (1..Len(stream))
      BY <1>1, <1>2, <1>6, <1>7, <2>2
    <3>2. DOMAIN pending' = Clients /\ pending' = [c \in Clients |-> pending'[c]]
      BY <1>9 DEF FlushWindow
    <3>3. event' \in [Clients -> BOOLEAN]
      BY <1>9 DEF FlushWindow, HubInv, Types, SessionTypes
    <3> QED BY <3>1, <3>2, <3>3
  <2>4. Types'
    BY <1>1, <1>2, <2>1, <2>3 DEF HubInv, Types, HubTypes, SessionTypes
  <2>5. ASSUME NEW c \in Clients
        PROVE  Session(c)'
    <3>1. Behind(c)'
      BY <1>1, <1>2, <1>3, <1>6, <1>7, <2>2 DEF Behind
    <3>2. Ordered(c)'
      BY <1>2, <1>7, <2>1, <2>2 DEF Session, Ordered
    <3> QED BY <1>2, <1>7, <2>2, <3>1, <3>2 DEF Session, Fresh, Rung
  <2> QED BY <2>1, <2>4, <2>5 DEF HubInv
<1> QED BY <1>5, <1>8, <1>9

\* An unexpected error closes the sessions of the moment and rings for each.
LEMMA StopKeepsHub ==
  ASSUME HubInv, Stop
  PROVE  HubInv'
<1>1. UNCHANGED <<stream, cursor, buffer, phase, wanted, pending, seen>> /\ Reach' = Reach
  BY DEF Stop, Reach
<1>2. ASSUME NEW c \in Clients
      PROVE  \/ phase[c] # "idle" /\ closed'[c] /\ event'[c]
             \/ phase[c] = "idle" /\ closed'[c] = closed[c] /\ event'[c] = event[c]
  <2>1. closed[c] \in BOOLEAN /\ event[c] \in BOOLEAN
    BY DEF HubInv, Types, SessionTypes
  <2> QED BY <2>1 DEF Stop, Notified, Registered
<1>3. Types'
  BY <1>1 DEF Stop, HubInv, Types, HubTypes, SessionTypes
<1>4. ASSUME NEW c \in Clients
      PROVE  Session(c)'
  BY <1>1, <1>2 DEF HubInv, Session, Fresh, Rung, Behind, Ordered
<1> QED BY <1>1, <1>3, <1>4 DEF HubInv

\* Every step of the feed.
LEMMA StepKeepsHub == HubInv /\ [Next]_vars => HubInv'
<1> SUFFICES ASSUME HubInv, [Next]_vars
             PROVE  HubInv'
  OBVIOUS
<1>1. ASSUME UNCHANGED <<stream, cursor, buffer, sessions>>
      PROVE  HubInv'
  BY <1>1 DEF HubInv, Types, HubTypes, SessionTypes, sessions, Reach, Session, Fresh, Rung,
              Behind, Ordered
<1>2. CASE UNCHANGED vars \/ Fail \/ Retry
  BY <1>1, <1>2 DEF vars, reader, Fail, CursorKept, Retry
<1>3. ASSUME NEW g \in Groups \union {Malformed}, Publish(g)
      PROVE  HubInv'
  BY <1>3, PublishKeepsHub
<1>4. ASSUME NEW c \in Clients, NEW filter \in Filters, NEW streamed \in SUBSET Groups,
             Request(c, filter, streamed)
      PROVE  HubInv'
  <2>1. Targets(filter, streamed) \in SUBSET Groups
    BY DEF Targets
  <2> QED BY <1>4, <2>1, ConnectKeepsHub DEF Request
<1>5. ASSUME NEW c \in Clients, Wake(c) \/ Timeout(c) \/ Sent(c) \/ Disconnect(c)
      PROVE  HubInv'
  BY <1>5, TurnKeepsHub
<1>6. ASSUME NEW windowEnds \in BOOLEAN, Read(windowEnds)
      PROVE  HubInv'
  BY <1>6, ReadKeepsHub
<1> QED BY <1>2, <1>3, <1>4, <1>5, <1>6, ReadTailKeepsHub, StopKeepsHub DEF Next

-----------------------------------------------------------------------------
\* Across windows, slow reads, replaced batches and reconnections of the hub a
\* session is handed no trade twice and none after a newer one.
THEOREM InOrderOnceHolds == Spec => []InOrderOnce
<1>1. HubInv => InOrderOnce
  BY DEF HubInv, Session, Ordered, InOrderOnce, Registered
<1> QED BY <1>1, InitHub, StepKeepsHub, PTL DEF Spec

\* wait() can sleep neither through a batch nor through the end of its hub.
THEOREM NoLostWakeupHolds == Spec => []NoLostWakeup
<1>1. HubInv => NoLostWakeup
  BY DEF HubInv, Session, Rung, NoLostWakeup, Registered
<1> QED BY <1>1, InitHub, StepKeepsHub, PTL DEF Spec

-----------------------------------------------------------------------------
(* The registry and the counts of the groups.                              *)

\* The sessions that want a group.
Wanting(g) == {c \in Registered : g \in wanted[c]}

RegistryInv ==
    /\ hub \in {"none", "run", "backoff", "stopped"}
    /\ faults \in 0..MaxFaults
    /\ hub = "none" <=> Registered = {}
    /\ active = [g \in Groups |-> Cardinality(Wanting(g))]

\* Counts are numbers.
LEMMA WantingIsFinite ==
  ASSUME NEW g \in Groups
  PROVE  IsFiniteSet(Wanting(g)) /\ Cardinality(Wanting(g)) \in Nat
<1>1. Wanting(g) \in SUBSET Clients
  BY DEF Wanting, Registered
<1> QED BY <1>1, HubBoundsAssumption, FS_Subset, FS_CardinalityType

\* A new session is counted in each of its groups.
LEMMA ConnectCounts ==
  ASSUME HubInv, RegistryInv, NEW c \in Clients, NEW groups \in SUBSET Groups,
         Connect(c, groups)
  PROVE  RegistryInv'
<1>1. /\ phase[c] = "idle" /\ phase' = [phase EXCEPT ![c] = "waiting"]
      /\ wanted' = [wanted EXCEPT ![c] = groups]
      /\ phase \in [Clients -> {"idle", "waiting", "sending"}]
      /\ wanted \in [Clients -> SUBSET Groups]
  BY DEF Connect, HubInv, Types, SessionTypes
<1>2. Registered' = Registered \union {c} /\ c \notin Registered
  BY <1>1 DEF Registered
<1>3. ASSUME NEW g \in Groups
      PROVE  Cardinality(Wanting(g)') = Cardinality(Wanting(g)) + (IF g \in groups THEN 1 ELSE 0)
  <2>1. Wanting(g)' = IF g \in groups THEN Wanting(g) \union {c} ELSE Wanting(g)
    BY <1>1, <1>2 DEF Wanting, Registered
  <2>2. c \notin Wanting(g)
    BY <1>2 DEF Wanting
  <2>3. Cardinality(Wanting(g) \union {c}) = Cardinality(Wanting(g)) + 1
    BY <2>2, WantingIsFinite, FS_AddElement
  <2>4. Cardinality(Wanting(g)) \in Nat
    BY WantingIsFinite
  <2> QED BY <2>1, <2>3, <2>4
<1>4. active' = [g \in Groups |-> Cardinality(Wanting(g)')]
  <2>1. active' = [g \in Groups |-> active[g] + (IF g \in groups THEN 1 ELSE 0)]
    BY DEF Connect, Joined
  <2> QED BY <1>3, <2>1 DEF RegistryInv
<1>5. hub' # "none" /\ hub' \in {"none", "run", "backoff", "stopped"} /\ faults' = faults
  BY DEF Connect, RegistryInv
<1> QED BY <1>2, <1>4, <1>5 DEF RegistryInv

\* A session that leaves is taken off the counts it was in, which are positive,
\* and the hub leaves the registry with the last one.
LEMMA UnregisterCounts ==
  ASSUME HubInv, RegistryInv, NEW c \in Clients, phase[c] # "idle", Unregister(c)
  PROVE  RegistryInv'
<1>1. /\ phase' = [phase EXCEPT ![c] = "idle"] /\ wanted' = [wanted EXCEPT ![c] = {}]
      /\ phase \in [Clients -> {"idle", "waiting", "sending"}]
      /\ wanted \in [Clients -> SUBSET Groups]
  BY DEF Unregister, HubInv, Types, SessionTypes
<1>2. Registered' = Registered \ {c} /\ c \in Registered
  BY <1>1 DEF Registered
<1>3. ASSUME NEW g \in Groups
      PROVE  /\ Cardinality(Wanting(g)')
                 = Cardinality(Wanting(g)) - (IF g \in wanted[c] THEN 1 ELSE 0)
             /\ g \in wanted[c] => Cardinality(Wanting(g)) > 0
  <2>1. Wanting(g)' = Wanting(g) \ {c} /\ (c \in Wanting(g) <=> g \in wanted[c])
    BY <1>1, <1>2 DEF Wanting, Registered
  <2>2. /\ Cardinality(Wanting(g) \ {c})
            = IF c \in Wanting(g) THEN Cardinality(Wanting(g)) - 1 ELSE Cardinality(Wanting(g))
        /\ IsFiniteSet(Wanting(g) \ {c})
    BY WantingIsFinite, FS_RemoveElement
  <2>3. c \in Wanting(g) => Cardinality(Wanting(g)) # 0
    BY WantingIsFinite, FS_EmptySet
  <2>4. Cardinality(Wanting(g)) \in Nat
    BY WantingIsFinite
  <2> QED BY <2>1, <2>2, <2>3, <2>4
<1>4. active' = [g \in Groups |-> Cardinality(Wanting(g)')]
  <2>1. active' = [g \in Groups |-> active[g]
                     - (IF g \in wanted[c] /\ active[g] > 0 THEN 1 ELSE 0)]
    BY DEF Unregister, Released
  <2> QED BY <1>3, <2>1 DEF RegistryInv
<1>5. /\ hub' = IF Registered = {c} THEN "none" ELSE hub
      /\ faults' = faults /\ hub # "none"
  BY <1>2 DEF Unregister, RegistryInv
<1>6. hub' = "none" <=> Registered' = {}
  BY <1>2, <1>5
<1> QED BY <1>4, <1>5, <1>6 DEF RegistryInv

\* All other steps leave the registered sessions as they are.
LEMMA OthersCount ==
  ASSUME HubInv, RegistryInv, UNCHANGED <<active, wanted>>, Registered' = Registered,
         hub' = hub \/ {hub, hub'} \subseteq {"run", "backoff", "stopped"},
         faults' = faults \/ (faults > 0 /\ faults' = faults - 1)
  PROVE  RegistryInv'
<1>1. \A g \in Groups : Wanting(g)' = Wanting(g)
  BY DEF Wanting
<1>2. active' = [g \in Groups |-> Cardinality(Wanting(g)')]
  BY <1>1 DEF RegistryInv
<1>3. faults' \in 0..MaxFaults
  BY HubBoundsAssumption DEF RegistryInv
<1>4. (hub' = "none" <=> hub = "none") /\ hub' \in {"none", "run", "backoff", "stopped"}
  BY DEF RegistryInv
<1> QED BY <1>2, <1>3, <1>4 DEF RegistryInv

\* Only sessions that come or go touch the registry and the counts.
LEMMA StepCounts ==
  ASSUME HubInv, RegistryInv, [Next]_vars
  PROVE  RegistryInv'
<1>1. ASSUME NEW c \in Clients, NEW filter \in Filters, NEW streamed \in SUBSET Groups,
             Request(c, filter, streamed)
      PROVE  RegistryInv'
  <2>1. Targets(filter, streamed) \in SUBSET Groups
    BY DEF Targets
  <2> QED BY <1>1, <2>1, ConnectCounts DEF Request
<1>2. ASSUME NEW c \in Clients, Wake(c) \/ Timeout(c) \/ Sent(c) \/ Disconnect(c)
      PROVE  RegistryInv'
  <2>1. phase[c] # "idle"
    BY <1>2 DEF Wake, Timeout, Sent, Disconnect
  <2>2. CASE Unregister(c)
    BY <2>1, <2>2, UnregisterCounts
  <2>3. CASE ~ Unregister(c)
    <3>1. /\ UNCHANGED <<hub, active, wanted, faults>>
          /\ \E place \in {"waiting", "sending"} : phase' = [phase EXCEPT ![c] = place]
      BY <1>2, <2>3 DEF Wake, Timeout, Sent, Disconnect, reader
    <3>2. Registered' = Registered
      BY <2>1, <3>1 DEF Registered, HubInv, Types, SessionTypes
    <3> QED BY <3>1, <3>2, OthersCount
  <2> QED BY <2>2, <2>3
<1>3. ASSUME UNCHANGED <<active, phase, wanted>>,
             hub' = hub \/ {hub, hub'} \subseteq {"run", "backoff", "stopped"},
             faults' = faults \/ (faults > 0 /\ faults' = faults - 1)
      PROVE  RegistryInv'
  <2>1. Registered' = Registered
    BY <1>3 DEF Registered
  <2> QED BY <1>3, <2>1, OthersCount
<1>4. ASSUME NEW g \in Groups \union {Malformed}, Publish(g)
      PROVE  RegistryInv'
  BY <1>3, <1>4 DEF Publish, reader, sessions
<1>5. ASSUME NEW windowEnds \in BOOLEAN, Read(windowEnds)
      PROVE  RegistryInv'
  BY <1>3, <1>5 DEF Read
<1>6. CASE ReadTail \/ UNCHANGED vars
  BY <1>3, <1>6 DEF ReadTail, sessions, vars, reader
<1>7. CASE Fail \/ Retry
  BY <1>3, <1>7 DEF Fail, Retry, sessions
<1>8. CASE Stop
  BY <1>3, <1>8 DEF Stop
<1> QED BY <1>1, <1>2, <1>4, <1>5, <1>6, <1>7, <1>8 DEF Next

\* At first no group is wanted.
LEMMA InitCounts == Init => RegistryInv
<1> SUFFICES ASSUME Init
             PROVE  RegistryInv
  OBVIOUS
<1>1. Registered = {} /\ \A g \in Groups : Wanting(g) = {}
  BY DEF Init, Registered, Wanting
<1>2. active = [g \in Groups |-> Cardinality(Wanting(g))]
  BY <1>1, FS_EmptySet DEF Init
<1>3. hub = "none" /\ faults \in 0..MaxFaults
  BY HubBoundsAssumption DEF Init
<1> QED BY <1>1, <1>2, <1>3 DEF RegistryInv

\* A hub is in the registry exactly while it has sessions, and the groups its
\* reader collects for are counted once for each session that wants them.
THEOREM RegistryIsTrue == Spec => []TypeOK
<1>1. HubInv /\ RegistryInv => TypeOK
  BY DEF HubInv, Types, HubTypes, SessionTypes, RegistryInv, Wanting, TypeOK
<1>2. Init => HubInv /\ RegistryInv
  BY InitHub, InitCounts
<1>3. HubInv /\ RegistryInv /\ [Next]_vars => (HubInv /\ RegistryInv)'
  BY StepKeepsHub, StepCounts
<1> QED BY <1>1, <1>2, <1>3, PTL DEF Spec

-----------------------------------------------------------------------------
(* The page. Orders first: a batch is sent in the order of its trades.      *)

\* What comes before each of a set of trades, in a strict total order of them.
Orders(before, S) ==
  /\ before \in [S -> SUBSET S]
  /\ \A x \in S : x \notin before[x]
  /\ \A x, y \in S : x # y => \/ x \in before[y] /\ before[x] \subseteq before[y]
                              \/ y \in before[x] /\ before[y] \subseteq before[x]

Place(before, S) == [x \in S |-> Cardinality(before[x])]

LEMMA FewerBefore ==
  ASSUME NEW S, IsFiniteSet(S), NEW before, Orders(before, S),
         NEW x \in S, NEW y \in S, x \in before[y], before[x] \subseteq before[y]
  PROVE  Cardinality(before[x]) < Cardinality(before[y])
<1>1. before[y] \in SUBSET S /\ before[x] \in SUBSET S /\ x \notin before[x]
  BY DEF Orders
<1>2. IsFiniteSet(before[y])
  BY <1>1, FS_Subset
<1>3. before[x] \in SUBSET before[y] /\ before[x] # before[y]
  BY <1>1
<1>4. IsFiniteSet(before[x]) /\ Cardinality(before[x]) <= Cardinality(before[y])
      /\ Cardinality(before[y]) # Cardinality(before[x])
  BY <1>2, <1>3, FS_Subset
<1>5. Cardinality(before[x]) \in Nat /\ Cardinality(before[y]) \in Nat
  BY <1>2, <1>4, FS_CardinalityType
<1> QED BY <1>4, <1>5

\* Every place is taken, by one trade: the numbers of trades before are 0 .. n - 1.
LEMMA PlacesAreTaken ==
  ASSUME NEW S, IsFiniteSet(S), NEW before, Orders(before, S)
  PROVE  /\ Cardinality(S) \in Nat
         /\ Place(before, S) \in Bijection(S, 0..(Cardinality(S) - 1))
<1> DEFINE n == Cardinality(S)
           T == 0..(n - 1)
           f == Place(before, S)
<1>1. n \in Nat
  BY FS_CardinalityType
<1>2. ASSUME NEW x \in S
      PROVE  f[x] = Cardinality(before[x]) /\ f[x] \in T
  <2>1. before[x] \in SUBSET S /\ before[x] # S
    BY DEF Orders
  <2>2. IsFiniteSet(before[x]) /\ Cardinality(before[x]) <= n /\ n # Cardinality(before[x])
    BY <2>1, FS_Subset
  <2>3. Cardinality(before[x]) \in Nat
    BY <2>2, FS_CardinalityType
  <2>4. f[x] = Cardinality(before[x])
    BY DEF Place
  <2> QED BY <1>1, <2>2, <2>3, <2>4
<1>3. f \in [S -> T]
  <2>1. f = [x \in S |-> f[x]]
    BY DEF Place
  <2> HIDE DEF f, T
  <2> QED BY <1>2, <2>1
<1>4. ASSUME NEW x \in S, NEW y \in S, f[x] = f[y]
      PROVE  x = y
  <2> SUFFICES ASSUME x # y PROVE FALSE
    OBVIOUS
  <2>1. f[x] \in Int /\ f[y] \in Int
    BY <1>2
  <2>2. CASE x \in before[y] /\ before[x] \subseteq before[y]
    <3>1. f[x] < f[y]
      BY <1>2, <2>2, FewerBefore
    <3> QED BY <1>4, <2>1, <3>1
  <2>3. CASE y \in before[x] /\ before[y] \subseteq before[x]
    <3>1. f[y] < f[x]
      BY <1>2, <2>3, FewerBefore
    <3> QED BY <1>4, <2>1, <3>1
  <2> QED BY <2>2, <2>3 DEF Orders
<1>5. f \in Injection(S, T)
  <2> HIDE DEF f, T
  <2> QED BY <1>3, <1>4 DEF Injection, IsInjective
<1>6. IsFiniteSet(T) /\ Cardinality(T) = n
  <2>1. IsFiniteSet(T) /\ Cardinality(T) = IF 0 > n - 1 THEN 0 ELSE (n - 1) - 0 + 1
    BY <1>1, FS_Interval
  <2> QED BY <1>1, <2>1
<1>7. f \in Surjection(S, T)
  <2> HIDE DEF f, T, n
  <2>1. Cardinality(S) = Cardinality(T)
    BY <1>6 DEF n
  <2> QED BY <1>5, <1>6, <2>1, FS_Injection
<1> QED BY <1>1, <1>5, <1>7 DEF Bijection

\* So a result that puts at each place the row with so many before it is in
\* order and whole.
LEMMA PlacedIsWhole ==
  ASSUME NEW S, IsFiniteSet(S), NEW before, Orders(before, S),
         NEW s, s = [k \in 1..Cardinality(S) |-> s[k]],
         \A k \in 1..Cardinality(S) :
            (\E d \in S : Cardinality(before[d]) = k - 1)
               => s[k] \in S /\ Cardinality(before[s[k]]) = k - 1
  PROVE  /\ Cardinality(S) \in Nat
         /\ s \in [1..Cardinality(S) -> S]
         /\ \A x \in S : \E k \in 1..Cardinality(S) : s[k] = x
         /\ \A k, l \in 1..Cardinality(S) : k < l => s[k] \in before[s[l]]
<1> DEFINE n == Cardinality(S)
           f == Place(before, S)
<1>1. n \in Nat /\ f \in Bijection(S, 0..(n - 1))
  BY PlacesAreTaken
<1>2. \A x \in S : f[x] = Cardinality(before[x]) /\ f[x] \in 0..(n - 1)
  <2>1. \A x \in S : f[x] = Cardinality(before[x])
    BY DEF Place
  <2>2. \A x \in S : f[x] \in 0..(n - 1)
    <3> HIDE DEF f, n
    <3> QED BY <1>1 DEF Bijection, Injection
  <2> QED BY <2>1, <2>2
<1>3. \A p \in 0..(n - 1) : \E x \in S : f[x] = p
  <2> HIDE DEF f, n
  <2> QED BY <1>1 DEF Bijection, Surjection
<1>4. \A x, y \in S : f[x] = f[y] => x = y
  <2> HIDE DEF f, n
  <2> QED BY <1>1 DEF Bijection, Injection, IsInjective
<1>5. ASSUME NEW k \in 1..n
      PROVE  s[k] \in S /\ Cardinality(before[s[k]]) = k - 1
  <2>1. k - 1 \in 0..(n - 1)
    BY <1>1
  <2>2. \E x \in S : Cardinality(before[x]) = k - 1
    BY <1>2, <1>3, <2>1
  <2> QED BY <2>2
<1>6. s \in [1..n -> S]
  <2>1. s = [k \in 1..n |-> s[k]]
    OBVIOUS
  <2> QED BY <1>5, <2>1
<1>7. ASSUME NEW x \in S
      PROVE  \E k \in 1..n : s[k] = x
  <2>1. f[x] \in 0..(n - 1) /\ f[x] + 1 \in 1..n /\ (f[x] + 1) - 1 = f[x]
    BY <1>1, <1>2
  <2> DEFINE k == f[x] + 1
  <2>2. s[k] \in S /\ Cardinality(before[s[k]]) = f[x]
    BY <1>5, <2>1
  <2>3. f[s[k]] = f[x]
    BY <1>2, <2>2
  <2> QED BY <1>4, <2>1, <2>2, <2>3
<1>8. ASSUME NEW k \in 1..n, NEW l \in 1..n, k < l
      PROVE  s[k] \in before[s[l]]
  <2>1. /\ s[k] \in S /\ Cardinality(before[s[k]]) = k - 1
        /\ s[l] \in S /\ Cardinality(before[s[l]]) = l - 1
    BY <1>5
  <2>2. ~ (l - 1 < k - 1) /\ k - 1 # l - 1
    BY <1>8
  <2>3. s[k] # s[l]
    BY <2>1, <2>2
  <2>4. ~ (s[l] \in before[s[k]] /\ before[s[l]] \subseteq before[s[k]])
    BY <2>1, <2>2, FewerBefore
  <2> QED BY <2>1, <2>3, <2>4 DEF Orders
<1> QED BY <1>1, <1>6, <1>7, <1>8

\* The trades of a batch in their order.
LEMMA AscendingIs ==
  ASSUME NEW S \in SUBSET Int, IsFiniteSet(S)
  PROVE  /\ Cardinality(S) \in Nat
         /\ Ascending(S) \in [1..Cardinality(S) -> S]
         /\ \A x \in S : \E k \in 1..Cardinality(S) : Ascending(S)[k] = x
         /\ \A k, l \in 1..Cardinality(S) : k < l => Ascending(S)[k] < Ascending(S)[l]
<1> DEFINE before == [d \in S |-> {e \in S : e < d}]
           s == Ascending(S)
<1>1. Orders(before, S)
  <2>1. \A x, y \in S : x # y => x < y \/ y < x
    OBVIOUS
  <2>2. ASSUME NEW x \in S, NEW y \in S, x < y
        PROVE  x \in before[y] /\ before[x] \subseteq before[y]
    <3>1. \A e \in S : e < x => e < y
      BY <2>2
    <3> QED BY <2>2, <3>1
  <2>3. before \in [S -> SUBSET S] /\ \A x \in S : x \notin before[x]
    OBVIOUS
  <2> HIDE DEF before
  <2> QED BY <2>1, <2>2, <2>3 DEF Orders
<1>2. s = [k \in 1..Cardinality(S) |-> s[k]]
  <2> DEFINE Row(k) == CHOOSE d \in S : Cardinality({e \in S : e < d}) = k - 1
  <2>1. s = [k \in 1..Cardinality(S) |-> Row(k)]
    BY Zenon DEF Ascending, Rank
  <2> HIDE DEF Row, s
  <2> QED BY <2>1
<1>3. ASSUME NEW k \in 1..Cardinality(S), \E d \in S : Cardinality(before[d]) = k - 1
      PROVE  s[k] \in S /\ Cardinality(before[s[k]]) = k - 1
  <2>1. s[k] = CHOOSE d \in S : Cardinality({e \in S : e < d}) = k - 1
    BY DEF Ascending, Rank
  <2>2. \A d \in S : before[d] = {e \in S : e < d}
    OBVIOUS
  <2>3. \E d \in S : Cardinality({e \in S : e < d}) = k - 1
    <3> HIDE DEF before
    <3> QED BY <1>3, <2>2
  <2>4. s[k] \in S /\ Cardinality({e \in S : e < s[k]}) = k - 1
    <3> HIDE DEF s
    <3> QED BY <2>1, <2>3
  <2> HIDE DEF s, before
  <2> QED BY <2>2, <2>4
<1>4. \A x, y \in S : x \in before[y] => x < y
  OBVIOUS
<1>5. /\ Cardinality(S) \in Nat
      /\ s \in [1..Cardinality(S) -> S]
      /\ \A x \in S : \E k \in 1..Cardinality(S) : s[k] = x
      /\ \A k, l \in 1..Cardinality(S) : k < l => s[k] \in before[s[l]]
  <2> HIDE DEF s, before
  <2> QED BY <1>1, <1>2, <1>3, PlacedIsWhole
<1>6. \A k, l \in 1..Cardinality(S) : k < l => s[k] < s[l]
  <2> HIDE DEF s, before
  <2> QED BY <1>4, <1>5
<1> QED BY <1>5, <1>6

-----------------------------------------------------------------------------
(* The page's state.                                                        *)

Ticks       == [symbol : Symbols, minute : Minutes]
Places      == {"closed", "connecting", "accepted", "live"}
Kinds       == {"open", "closed", "error", "trade"}
Events      == [source : Nat, kind : Kinds, trade : Nat]
RestAnswers == [rows : SUBSET Nat, points : SUBSET Nat]
Links       == [source : Nat, symbol : Symbols \union {None}, state : Places]
Queries     == [fetch : {"idle", "asked", "read"}, answer : RestAnswers \union {None},
                data : RestAnswers \union {None}, invalid : BOOLEAN, failed : BOOLEAN]

PageTypes ==
  /\ published \in Seq(Ticks)
  /\ stored \in 0..Len(published) /\ hubAt \in 0..Len(published) /\ opened \in 0..stored
  /\ link \in Links
  /\ tasks \in Seq(Events) /\ trades \in Seq(Nat)
  /\ shown \in Symbols /\ query \in [Symbols -> Queries]
  /\ \A s \in Symbols : query[s].fetch = "read" => query[s].answer # None

Settings ==
  /\ SessionTopN \in Nat \ {0} /\ Buffer \in Nat \ {0} /\ RestLimit \in Nat \ {0}
  /\ First \in Symbols /\ Minutes \subseteq Nat
  /\ None \notin Nat /\ None \notin RestAnswers

LEMMA SettingsHold == Settings
BY PageAssumption DEF Settings, RestAnswers

LEMMA TicksAre ==
  ASSUME PageTypes
  PROVE  /\ Len(published) \in Nat /\ stored \in Nat /\ hubAt \in Nat /\ opened \in Nat
         /\ opened <= stored /\ stored <= Len(published) /\ hubAt <= Len(published)
         /\ DOMAIN published = 1..Len(published)
         /\ \A i \in 1..Len(published) : published[i].minute \in Nat /\ published[i].symbol \in Symbols
<1>1. /\ published \in Seq(Ticks) /\ stored \in 0..Len(published) /\ hubAt \in 0..Len(published)
      /\ opened \in 0..stored
  BY DEF PageTypes
<1>2. Len(published) \in Nat /\ DOMAIN published = 1..Len(published)
  BY <1>1
<1>3. \A t \in Ticks : t.minute \in Nat /\ t.symbol \in Symbols
  BY SettingsHold DEF Ticks, Settings
<1>4. \A i \in 1..Len(published) : published[i] \in Ticks
  BY <1>1
<1> QED BY <1>1, <1>2, <1>3, <1>4

\* What is published stays as it is.
Grows ==
  /\ published' \in Seq(Ticks) /\ Len(published') >= Len(published)
  /\ \A i \in 1..Len(published) : published'[i] = published[i]

LEMMA Grown ==
  ASSUME PageTypes, PageNext \/ UNCHANGED page
  PROVE  Grows
<1>1. published \in Seq(Ticks) /\ Len(published) \in Nat
  BY DEF PageTypes
<1>2. CASE UNCHANGED published
  BY <1>1, <1>2 DEF Grows
<1>3. CASE AppendTrade
  <2>1. PICK s \in Symbols, m \in Minutes : published' = Append(published, [symbol |-> s, minute |-> m])
    BY <1>3 DEF AppendTrade
  <2>2. [symbol |-> s, minute |-> m] \in Ticks
    BY DEF Ticks
  <2> QED BY <1>1, <2>1, <2>2 DEF Grows
<1>4. Store \/ HubReads \/ Switch \/ Accept \/ Register \/ Lose \/ Refuse \/ Choose \/ RunEffects
        => UNCHANGED published
  BY DEF Store, HubReads, Switch, Accept, Register, Lose, Refuse, Choose, RunEffects, server
<1>5. Disposed \/ OnOpen \/ OnTrade \/ OnReconnecting \/ OnFatal => UNCHANGED published
  BY DEF Disposed, OnOpen, OnTrade, OnReconnecting, OnFatal, server
<1>6. (\E s \in Symbols : ReadRest(s) \/ RestFails(s) \/ Arrive(s)) => UNCHANGED published
  BY DEF ReadRest, RestFails, Arrive, server
<1>7. UNCHANGED page => UNCHANGED published
  BY DEF page, server
<1> QED BY <1>2, <1>3, <1>4, <1>5, <1>6, <1>7 DEF PageNext

\* What of the earlier trades is the symbol's.
LEMMA OfSymbolStays ==
  ASSUME PageTypes, Grows, NEW s, NEW n \in 0..Len(published)
  PROVE  OfSymbol(s, n)' = OfSymbol(s, n)
<1>1. \A i \in 1..n : published'[i] = published[i]
  BY DEF PageTypes, Grows
<1> QED BY <1>1 DEF OfSymbol

LEMMA OfSymbolIs ==
  ASSUME NEW s, NEW n \in Nat
  PROVE  OfSymbol(s, n) \in SUBSET (1..n) /\ IsFiniteSet(OfSymbol(s, n))
<1>1. OfSymbol(s, n) \in SUBSET (1..n)
  BY DEF OfSymbol
<1> QED BY <1>1, FS_Interval, FS_Subset

\* Each query after a step is a query.
LEMMA RequestedIs ==
  ASSUME NEW q \in Queries
  PROVE  /\ Requested(q) \in Queries /\ Requested(q).fetch = "asked"
         /\ Requested(q).data = q.data /\ Requested(q).failed = q.failed
BY DEF Requested, Queries

LEMMA MinutesAre ==
  ASSUME PageTypes, NEW s \in Symbols
  PROVE  [rows |-> NewestIn(OfSymbol(s, stored), RestLimit), points |-> MinutesOf(s)] \in RestAnswers
<1>1. stored \in Nat /\ \A i \in 1..stored : published[i].minute \in Nat
  BY TicksAre
<1>2. MinutesOf(s) \subseteq Nat
  BY <1>1, OfSymbolIs DEF MinutesOf
<1>3. NewestIn(OfSymbol(s, stored), RestLimit) \subseteq Nat
  BY <1>1, OfSymbolIs DEF NewestIn
<1> QED BY <1>2, <1>3 DEF RestAnswers

\* An event appended to the tasks.
LEMMA AppendedIs ==
  ASSUME PageTypes, NEW e \in Events, tasks' = Append(tasks, e)
  PROVE  /\ tasks' \in Seq(Events)
         /\ DOMAIN tasks' = 1..(Len(tasks) + 1) /\ DOMAIN tasks = 1..Len(tasks) /\ Len(tasks) \in Nat
         /\ \A n \in DOMAIN tasks : tasks'[n] = tasks[n]
         /\ tasks'[Len(tasks) + 1] = e
BY DEF PageTypes

\* The head of the tasks taken off.
LEMMA TailIs ==
  ASSUME PageTypes, tasks # <<>>, tasks' = Tail(tasks)
  PROVE  /\ tasks' \in Seq(Events)
         /\ DOMAIN tasks' = 1..(Len(tasks) - 1) /\ DOMAIN tasks = 1..Len(tasks) /\ Len(tasks) \in Nat
         /\ 1 \in DOMAIN tasks /\ Head(tasks) = tasks[1]
         /\ \A n \in DOMAIN tasks' : n + 1 \in DOMAIN tasks /\ tasks'[n] = tasks[n + 1]
BY DEF PageTypes

LEMMA DispatchIs ==
  ASSUME PageTypes, NEW kind \in Kinds, NEW trade \in Nat
  PROVE  /\ Dispatch(kind, trade) \in Events
         /\ Dispatch(kind, trade).source = Source
         /\ Dispatch(kind, trade).kind = kind
         /\ Dispatch(kind, trade).trade = trade
<1>1. Source \in Nat
  BY DEF PageTypes, Links, Source
<1> QED BY <1>1 DEF Dispatch, Events

\* The batch the hub's session is sent, in the order of the stream.
Batch(k) == NewestIn(OfSymbol(link.symbol, k) \ (1..hubAt), SessionTopN)
ToSend(k) == IF link.state = "live" THEN Ascending(Batch(k)) ELSE <<>>

LEMMA ToSendIs ==
  ASSUME PageTypes, NEW k \in (hubAt + 1)..Len(published)
  PROVE  /\ ToSend(k) \in Seq(Nat)
         /\ \A n \in DOMAIN ToSend(k) :
               /\ ToSend(k)[n] \in (hubAt + 1)..k
               /\ published[ToSend(k)[n]].symbol = link.symbol
         /\ \A n, m \in DOMAIN ToSend(k) : n < m => ToSend(k)[n] < ToSend(k)[m]
<1> DEFINE B == Batch(k)
           A == Ascending(B)
<1>1. k \in Nat /\ hubAt \in Nat
  BY TicksAre
<1>2. B \in SUBSET OfSymbol(link.symbol, k) /\ \A i \in B : i \notin 1..hubAt
  BY DEF Batch, NewestIn
<1>3. OfSymbol(link.symbol, k) \in SUBSET (1..k) /\ IsFiniteSet(OfSymbol(link.symbol, k))
  BY <1>1, OfSymbolIs
<1>4. IsFiniteSet(B)
  BY <1>2, <1>3, FS_Subset
<1> HIDE DEF B
<1>5. B \in SUBSET Int /\ B \in SUBSET ((hubAt + 1)..k)
  BY <1>1, <1>2, <1>3
<1>6. /\ Cardinality(B) \in Nat
      /\ A \in [1..Cardinality(B) -> B]
      /\ \A n, m \in 1..Cardinality(B) : n < m => A[n] < A[m]
  BY <1>4, <1>5, AscendingIs
<1>7. \A i \in B : published[i].symbol = link.symbol
  BY <1>2 DEF OfSymbol
<1> HIDE DEF A
<1>8. CASE link.state = "live"
  <2>1. ToSend(k) = A
    BY <1>8 DEF ToSend, A, B
  <2> DEFINE c == Cardinality(B)
  <2>2. c \in Nat /\ A \in [1..c -> B] /\ B \subseteq Nat
    BY <1>1, <1>5, <1>6
  <2> HIDE DEF c
  <2>3. A \in [1..c -> Nat]
    BY <2>2
  <2>4. A \in Seq(Nat) /\ DOMAIN A = 1..c
    BY <2>2, <2>3
  <2>5. A \in Seq(Nat) /\ DOMAIN A = 1..Cardinality(B)
    BY <2>4 DEF c
  <2> QED BY <1>5, <1>6, <1>7, <2>1, <2>5
<1>9. CASE link.state # "live"
  BY <1>9 DEF ToSend
<1> QED BY <1>8, <1>9

LEMMA ConcatIs ==
  ASSUME NEW E, NEW a \in Seq(E), NEW b \in Seq(E)
  PROVE  /\ a \o b \in Seq(E) /\ Len(a) \in Nat /\ Len(b) \in Nat
         /\ DOMAIN (a \o b) = 1..(Len(a) + Len(b))
         /\ \A n \in 1..Len(a) : (a \o b)[n] = a[n]
         /\ \A n \in 1..Len(b) : (a \o b)[Len(a) + n] = b[n]
<1>1. Len(a) \in Nat /\ Len(b) \in Nat
  OBVIOUS
<1>2. a \o b \in Seq(E) /\ DOMAIN (a \o b) = 1..(Len(a) + Len(b))
  OBVIOUS
<1>3. \A n \in 1..Len(a) : (a \o b)[n] = a[n]
  BY <1>1
<1>4. \A n \in 1..Len(b) : (a \o b)[Len(a) + n] = b[n]
  BY <1>1
<1> QED BY <1>1, <1>2, <1>3, <1>4

\* What one reading of the hub appends.
LEMMA HubReadsIs ==
  ASSUME PageTypes, HubReads
  PROVE  \E k \in (hubAt + 1)..Len(published) :
            /\ hubAt' = k
            /\ tasks' \in Seq(Events)
            /\ DOMAIN tasks = 1..Len(tasks) /\ Len(tasks) \in Nat
            /\ DOMAIN tasks' = 1..(Len(tasks) + Len(ToSend(k))) /\ Len(ToSend(k)) \in Nat
            /\ \A n \in DOMAIN tasks : tasks'[n] = tasks[n]
            /\ \A n \in 1..Len(ToSend(k)) : /\ tasks'[Len(tasks) + n].trade = ToSend(k)[n]
                                            /\ tasks'[Len(tasks) + n].source = Source
<1>1. PICK k \in (hubAt + 1)..Len(published) :
        hubAt' = k /\ tasks' = tasks \o [n \in DOMAIN ToSend(k) |-> Dispatch("trade", ToSend(k)[n])]
  BY DEF HubReads, ToSend, Batch
<1> DEFINE more == [n \in DOMAIN ToSend(k) |-> Dispatch("trade", ToSend(k)[n])]
<1>2. ToSend(k) \in Seq(Nat)
  BY ToSendIs
<1>3. /\ DOMAIN ToSend(k) = 1..Len(ToSend(k)) /\ Len(ToSend(k)) \in Nat
      /\ \A n \in 1..Len(ToSend(k)) : ToSend(k)[n] \in Nat
  BY <1>2
<1>4. \A n \in 1..Len(ToSend(k)) : /\ more[n] \in Events
                                   /\ more[n].trade = ToSend(k)[n] /\ more[n].source = Source
  BY <1>3, DispatchIs DEF Kinds
<1>5. more = [n \in 1..Len(ToSend(k)) |-> more[n]]
  BY <1>3
<1> HIDE DEF more
<1>6. more \in Seq(Events) /\ Len(more) = Len(ToSend(k))
  BY <1>3, <1>4, <1>5
<1>7. tasks \in Seq(Events) /\ tasks' = tasks \o more
  BY <1>1 DEF PageTypes, more
<1>8. /\ tasks \o more \in Seq(Events)
      /\ DOMAIN tasks = 1..Len(tasks) /\ Len(tasks) \in Nat
      /\ DOMAIN (tasks \o more) = 1..(Len(tasks) + Len(more))
      /\ \A n \in 1..Len(tasks) : (tasks \o more)[n] = tasks[n]
      /\ \A n \in 1..Len(more) : (tasks \o more)[Len(tasks) + n] = more[n]
  <2>1. DOMAIN tasks = 1..Len(tasks) /\ tasks \in Seq(Events) /\ more \in Seq(Events)
    BY <1>6, <1>7
  <2> QED BY <2>1, ConcatIs
<1>9. /\ tasks' \in Seq(Events)
      /\ DOMAIN tasks' = 1..(Len(tasks) + Len(ToSend(k)))
      /\ \A n \in DOMAIN tasks : tasks'[n] = tasks[n]
      /\ \A n \in 1..Len(ToSend(k)) : tasks'[Len(tasks) + n] = more[n]
  BY <1>6, <1>7, <1>8, Zenon
<1> QED BY <1>1, <1>3, <1>4, <1>8, <1>9

\* Every step keeps the types, given that it appends and takes tasks as it does.
LEMMA TypesStay ==
  ASSUME PageTypes, Grows, tasks' \in Seq(Events), trades' \in Seq(Nat), link' \in Links,
         UNCHANGED <<stored, hubAt, opened, shown, query>>
  PROVE  PageTypes'
<1>1. \A n \in Nat : n <= Len(published) => n <= Len(published')
  BY TicksAre DEF Grows
<1>2. Len(published') \in Nat /\ published' \in Seq(Ticks)
  BY DEF Grows
<1> QED BY <1>1, <1>2, TicksAre DEF PageTypes, Grows

LEMMA QueriesStay ==
  ASSUME PageTypes, NEW new, query' = new, new \in [Symbols -> Queries],
         \A s \in Symbols : new[s].fetch = "read" => new[s].answer # None,
         UNCHANGED <<published, stored, hubAt, opened, link, tasks, trades, shown>>
  PROVE  PageTypes'
BY DEF PageTypes

LEMMA MountedAre ==
  ASSUME PageTypes, NEW s \in Symbols, NEW q \in Mounted(query[s])
  PROVE  /\ q \in Queries
         /\ q.fetch = "read" => q.answer # None
         /\ q.data = query[s].data
<1>1. query[s] \in Queries /\ (query[s].fetch = "read" => query[s].answer # None)
  BY DEF PageTypes
<1>2. q = query[s] \/ q = Requested(query[s])
  BY DEF Mounted
<1> QED BY <1>1, <1>2, RequestedIs

LEMMA InvalidatedIs ==
  ASSUME PageTypes, NEW s \in Symbols
  PROVE  /\ Invalidated(s, query[s]) \in Queries
         /\ Invalidated(s, query[s]).data = query[s].data
         /\ Invalidated(s, query[s]).fetch = "read" =>
               Invalidated(s, query[s]).answer = query[s].answer /\ query[s].fetch = "read"
         /\ s = shown /\ ~effects =>
               \/ Invalidated(s, query[s]).fetch = "asked"
               \/ query[s].fetch = "read" /\ query[s].data = None
<1> DEFINE q == query[s]
           late == [q EXCEPT !.invalid = TRUE]
           again == [Requested(q) EXCEPT !.invalid = TRUE]
<1>1. q \in Queries /\ q.fetch \in {"idle", "asked", "read"}
  BY DEF PageTypes, Queries
<1>2. /\ late \in Queries /\ late.data = q.data /\ late.fetch = q.fetch /\ late.answer = q.answer
  BY <1>1 DEF Queries
<1>3. again \in Queries /\ again.data = q.data /\ again.fetch = "asked"
  <2>1. Requested(q) \in Queries /\ Requested(q).fetch = "asked" /\ Requested(q).data = q.data
    BY <1>1, RequestedIs
  <2> QED BY <2>1 DEF Queries
<1>4. Invalidated(s, q) = IF s # shown \/ effects \/ (q.fetch # "idle" /\ q.data = None) THEN late ELSE again
  BY DEF Invalidated
<1> HIDE DEF late, again, q
<1>5. Invalidated(s, q) = late \/ Invalidated(s, q) = again
  BY <1>4
<1>6. ASSUME s = shown, ~effects
      PROVE  Invalidated(s, q).fetch = "asked" \/ (q.fetch = "read" /\ q.data = None)
  BY <1>1, <1>2, <1>3, <1>4, <1>6
<1>7. Invalidated(s, q) \in Queries /\ Invalidated(s, q).data = q.data
  BY <1>2, <1>3, <1>5
<1>8. Invalidated(s, q).fetch = "read" => Invalidated(s, q).answer = q.answer /\ q.fetch = "read"
  BY <1>2, <1>3, <1>5
<1> QED BY <1>6, <1>7, <1>8 DEF q

\* What an answer of the server makes of a query.
LEMMA ReadIs ==
  ASSUME PageTypes, NEW s \in Symbols, ReadRest(s)
  PROVE  \E q \in Queries :
           /\ query' = [query EXCEPT ![s] = q]
           /\ q.data = query[s].data
           /\ \/ /\ q.fetch = "read"
                 /\ q.answer = [rows |-> NewestIn(OfSymbol(s, stored), RestLimit), points |-> MinutesOf(s)]
              \/ q.fetch = "idle" /\ q.failed
<1> DEFINE a == [rows |-> NewestIn(OfSymbol(s, stored), RestLimit), points |-> MinutesOf(s)]
           q == IF activePairs[s] THEN [query[s] EXCEPT !.fetch = "read", !.answer = a]
                ELSE [query[s] EXCEPT !.fetch = "idle", !.failed = TRUE]
<1>1. query[s] \in Queries /\ a \in RestAnswers
  BY MinutesAre DEF PageTypes
<1>2. query' = [query EXCEPT ![s] = q]
  BY DEF ReadRest
<1> HIDE DEF a
<1>3. q \in Queries /\ q.data = query[s].data
  BY <1>1 DEF Queries
<1>4. (q.fetch = "read" /\ q.answer = a) \/ (q.fetch = "idle" /\ q.failed)
  BY <1>1 DEF Queries
<1> HIDE DEF q
<1> QED BY <1>2, <1>3, <1>4 DEF a

LEMMA FailsIs ==
  ASSUME PageTypes, NEW s \in Symbols, RestFails(s)
  PROVE  \E q \in Queries :
           /\ query' = [query EXCEPT ![s] = q]
           /\ q.data = query[s].data /\ q.fetch = "idle" /\ q.failed
<1> DEFINE q == [query[s] EXCEPT !.fetch = "idle", !.answer = None, !.failed = TRUE]
<1>1. query[s] \in Queries
  BY DEF PageTypes
<1>2. query' = [query EXCEPT ![s] = q]
  BY DEF RestFails
<1>3. q \in Queries /\ q.data = query[s].data /\ q.fetch = "idle" /\ q.failed
  BY <1>1 DEF Queries
<1> HIDE DEF q
<1> QED BY <1>2, <1>3

LEMMA ArriveIs ==
  ASSUME PageTypes, NEW s \in Symbols, Arrive(s)
  PROVE  /\ query[s].answer \in RestAnswers
         /\ \E q \in Queries :
              /\ query' = [query EXCEPT ![s] = q]
              /\ q.data = query[s].answer /\ q.fetch = "idle" /\ ~q.failed
<1> DEFINE q == [query[s] EXCEPT !.fetch = "idle", !.answer = None, !.data = query[s].answer,
                                 !.invalid = FALSE, !.failed = FALSE]
<1>1. query[s] \in Queries /\ query[s].answer \in RestAnswers
  BY DEF PageTypes, Arrive, Queries
<1>2. query' = [query EXCEPT ![s] = q]
  BY DEF Arrive
<1>3. q \in Queries /\ q.data = query[s].answer /\ q.fetch = "idle" /\ ~q.failed
  BY <1>1 DEF Queries
<1> HIDE DEF q
<1> QED BY <1>1, <1>2, <1>3

\* Every step keeps the types.
LEMMA LinkMoves ==
  ASSUME PageTypes, NEW place \in Places
  PROVE  /\ [link EXCEPT !.state = place] \in Links
         /\ [link EXCEPT !.state = place].source = Source
         /\ [link EXCEPT !.state = place].symbol = link.symbol
BY DEF PageTypes, Links, Source

\* A connection whose state changes, with an event of it for the page.
LEMMA Answered ==
  ASSUME PageTypes, Accept \/ Lose \/ Refuse
  PROVE  /\ \E kind \in Kinds \ {"trade"} : tasks' = Append(tasks, Dispatch(kind, 0))
         /\ link' \in Links /\ link'.source = Source /\ link'.symbol = link.symbol
<1>1. \E place \in Places : link' = [link EXCEPT !.state = place]
  BY DEF Accept, Lose, Refuse, Places
<1>2. Accept \/ Lose \/ Refuse => \E kind \in Kinds \ {"trade"} : tasks' = Append(tasks, Dispatch(kind, 0))
  BY DEF Accept, Lose, Refuse, Kinds
<1>3. link' \in Links /\ link'.source = Source /\ link'.symbol = link.symbol
  BY <1>1, LinkMoves
<1> QED BY <1>2, <1>3

\* A task that is run, or left out because its source is closed.
LEMMA TaskTaken ==
  ASSUME PageTypes, Disposed \/ OnOpen \/ OnTrade \/ OnReconnecting \/ OnFatal
  PROVE  tasks # <<>> /\ tasks' = Tail(tasks) /\ link' = link
BY DEF Disposed, OnOpen, OnTrade, OnReconnecting, OnFatal, Handles, AfterError

\* The tape after a trade: it is put in front, and the oldest may go.
LEMMA Taped ==
  ASSUME PageTypes, OnTrade
  PROVE  /\ Listens(Head(tasks)) /\ Head(tasks).kind = "trade" /\ tasks # <<>>
         /\ trades' \in Seq(Nat) /\ DOMAIN trades = 1..Len(trades) /\ Len(trades) \in Nat
         /\ 1 \in DOMAIN trades' /\ trades'[1] = Head(tasks).trade
         /\ \A n \in DOMAIN trades' : /\ n \in Nat
                                      /\ n # 1 => n - 1 \in DOMAIN trades /\ trades'[n] = trades[n - 1]
<1> DEFINE i == Head(tasks).trade
           all == <<i>> \o trades
<1>1. /\ Listens(Head(tasks)) /\ Head(tasks).kind = "trade" /\ tasks # <<>>
      /\ trades' = IF Len(all) > Buffer THEN SubSeq(all, 1, Buffer) ELSE all
  BY DEF OnTrade, Handles
<1>2. tasks \in Seq(Events) /\ trades \in Seq(Nat) /\ Buffer \in Nat \ {0}
  BY SettingsHold DEF PageTypes, Settings
<1>3. Head(tasks) \in Events
  BY <1>1, <1>2
<1>4. i \in Nat
  BY <1>3 DEF Events
<1> HIDE DEF i
<1>5. /\ all \in Seq(Nat) /\ Len(all) = Len(trades) + 1 /\ all[1] = i
      /\ \A n \in 2..(Len(trades) + 1) : all[n] = trades[n - 1]
  BY <1>2, <1>4
<1>6. DOMAIN trades = 1..Len(trades) /\ Len(trades) \in Nat
  BY <1>2
<1> HIDE DEF all
<1>7. CASE Len(all) > Buffer
  <2>1. /\ SubSeq(all, 1, Buffer) \in Seq(Nat) /\ Len(SubSeq(all, 1, Buffer)) = Buffer
        /\ \A n \in 1..Buffer : SubSeq(all, 1, Buffer)[n] = all[n]
    <3>1. Buffer \in Int /\ 1 <= Buffer /\ Buffer <= Len(all) /\ Len(all) \in Nat
      BY <1>2, <1>5, <1>7
    <3>2. \A n \in 1..Buffer : all[n] \in Nat
      BY <1>5, <3>1
    <3>3. /\ SubSeq(all, 1, Buffer) \in Seq(Nat)
          /\ Len(SubSeq(all, 1, Buffer)) = IF 1 <= Buffer THEN Buffer - 1 + 1 ELSE 0
          /\ \A n \in 1..(Buffer - 1 + 1) : SubSeq(all, 1, Buffer)[n] = all[1 + n - 1]
      BY <3>1, <3>2, SubSeqProperties
    <3>4. Buffer - 1 + 1 = Buffer /\ \A n \in 1..Buffer : 1 + n - 1 = n
      BY <3>1
    <3> QED BY <3>1, <3>3, <3>4
  <2>2. trades' = SubSeq(all, 1, Buffer)
    BY <1>1, <1>7
  <2>3. /\ trades' \in Seq(Nat) /\ DOMAIN trades' = 1..Buffer
        /\ \A n \in 1..Buffer : trades'[n] = all[n]
    BY <2>1, <2>2
  <2>4. \A n \in 1..Buffer : n = 1 \/ (n \in 2..(Len(trades) + 1) /\ n - 1 \in 1..Len(trades))
    BY <1>2, <1>5, <1>6, <1>7
  <2>5. 1 \in 1..Buffer /\ trades'[1] = i
    BY <1>2, <1>5, <2>3
  <2>6. \A n \in 1..Buffer : n \in Nat /\ (n # 1 => n - 1 \in 1..Len(trades) /\ trades'[n] = trades[n - 1])
    BY <1>5, <2>3, <2>4
  <2> QED BY <1>1, <1>6, <2>3, <2>5, <2>6 DEF i
<1>8. CASE ~ (Len(all) > Buffer)
  <2>1. trades' = all
    BY <1>1, <1>8
  <2>2. DOMAIN trades' = 1..(Len(trades) + 1)
    BY <1>5, <2>1
  <2>3. \A n \in 1..(Len(trades) + 1) : n = 1 \/ (n \in 2..(Len(trades) + 1) /\ n - 1 \in 1..Len(trades))
    BY <1>6
  <2>4. 1 \in 1..(Len(trades) + 1) /\ trades'[1] = i
    BY <1>5, <1>6, <2>1
  <2>5. \A n \in 1..(Len(trades) + 1) :
          n \in Nat /\ (n # 1 => n - 1 \in 1..Len(trades) /\ trades'[n] = trades[n - 1])
    BY <1>5, <2>1, <2>3
  <2>6. trades' \in Seq(Nat)
    BY <1>5, <2>1
  <2> QED BY <1>1, <1>6, <2>2, <2>4, <2>5, <2>6 DEF i
<1> QED BY <1>7, <1>8

LEMMA TypesOfServer ==
  ASSUME PageTypes, Grows, AppendTrade \/ Store \/ Switch \/ Accept \/ Register \/ Lose \/ Refuse
  PROVE  PageTypes'
<1>0. /\ tasks \in Seq(Events) /\ trades \in Seq(Nat) /\ link \in Links
      /\ \A n \in Nat : n <= Len(published) => n <= Len(published')
  BY TicksAre DEF PageTypes, Grows
<1>1. CASE AppendTrade
  BY <1>0, <1>1, TypesStay DEF AppendTrade, view
<1>2. CASE Store
  <2>1. stored' \in 0..Len(published) /\ stored' >= stored /\ stored \in Nat
    BY <1>2, TicksAre DEF Store
  <2>2. opened \in 0..stored'
    BY <2>1 DEF PageTypes
  <2> QED BY <1>2, <2>1, <2>2 DEF PageTypes, Store, view
<1>3. CASE Switch
  BY <1>0, <1>3, TypesStay DEF Switch, view
<1>4. CASE Accept \/ Lose \/ Refuse
  <2>1. PICK kind \in Kinds \ {"trade"} : tasks' = Append(tasks, Dispatch(kind, 0))
    BY <1>4, Answered
  <2>2. Dispatch(kind, 0) \in Events
    BY <2>1, DispatchIs
  <2>3. tasks' \in Seq(Events) /\ link' \in Links
    BY <1>4, <2>1, <2>2, Answered, AppendedIs
  <2>4. UNCHANGED <<stored, hubAt, opened, shown, query, trades>>
    BY <1>4 DEF Accept, Lose, Refuse, server, view
  <2> QED BY <1>0, <2>3, <2>4, TypesStay
<1>5. CASE Register
  <2>1. link' \in Links
    BY <1>5, LinkMoves DEF Register, Places
  <2> QED BY <1>0, <1>5, <2>1, TypesStay DEF Register, server, view
<1> QED BY <1>1, <1>2, <1>3, <1>4, <1>5

LEMMA TypesOfReading ==
  ASSUME PageTypes, HubReads
  PROVE  PageTypes'
<1>1. PICK k \in (hubAt + 1)..Len(published) : hubAt' = k /\ tasks' \in Seq(Events)
  BY HubReadsIs
<1>2. hubAt' \in 0..Len(published)
  BY <1>1, TicksAre
<1> QED BY <1>1, <1>2 DEF PageTypes, HubReads, view

\* One query changes.
LEMMA OneQuery ==
  ASSUME PageTypes, NEW s \in Symbols, NEW q \in Queries, q.fetch = "read" => q.answer # None,
         query' = [query EXCEPT ![s] = q]
  PROVE  /\ query' \in [Symbols -> Queries] /\ query'[s] = q
         /\ \A t \in Symbols : t # s => query'[t] = query[t]
         /\ \A t \in Symbols : query'[t].fetch = "read" => query'[t].answer # None
<1>1. query \in [Symbols -> Queries] /\ \A t \in Symbols : query[t].fetch = "read" => query[t].answer # None
  BY DEF PageTypes
<1> QED BY <1>1

LEMMA TypesOfQueries ==
  ASSUME PageTypes, NEW s \in Symbols, ReadRest(s) \/ RestFails(s) \/ Arrive(s)
  PROVE  PageTypes'
<1>1. \E q \in Queries : query' = [query EXCEPT ![s] = q] /\ (q.fetch = "read" => q.answer # None)
  <2>1. CASE ReadRest(s)
    <3>1. [rows |-> NewestIn(OfSymbol(s, stored), RestLimit), points |-> MinutesOf(s)] # None
      BY MinutesAre, SettingsHold DEF Settings
    <3> QED BY <2>1, <3>1, ReadIs
  <2>2. CASE RestFails(s)
    BY <2>2, FailsIs
  <2>3. CASE Arrive(s)
    BY <2>3, ArriveIs
  <2> QED BY <2>1, <2>2, <2>3
<1>2. UNCHANGED <<published, stored, hubAt, opened, link, tasks, trades, shown>>
  BY DEF ReadRest, RestFails, Arrive, server, view
<1>3. /\ query' \in [Symbols -> Queries]
      /\ \A t \in Symbols : query'[t].fetch = "read" => query'[t].answer # None
  BY <1>1, OneQuery
<1> QED BY <1>2, <1>3 DEF PageTypes

LEMMA TypesOfPage ==
  ASSUME PageTypes, Choose \/ RunEffects \/ Disposed \/ OnOpen \/ OnTrade \/ OnReconnecting \/ OnFatal
  PROVE  PageTypes'
<1>1. CASE Choose
  BY <1>1 DEF PageTypes, Choose, server
<1>2. CASE RunEffects
  <2>1. PICK q \in Mounted(query[shown]) : query' = [query EXCEPT ![shown] = q]
    BY <1>2 DEF RunEffects
  <2>2. shown \in Symbols
    BY DEF PageTypes
  <2>3. q \in Queries /\ (q.fetch = "read" => q.answer # None)
    BY <2>1, <2>2, MountedAre
  <2>4. /\ query' \in [Symbols -> Queries]
        /\ \A t \in Symbols : query'[t].fetch = "read" => query'[t].answer # None
    BY <2>1, <2>2, <2>3, OneQuery
  <2>5. link' \in Links
    <3>1. Source + 1 \in Nat /\ shown \in Symbols
      BY DEF PageTypes, Links, Source
    <3> QED BY <1>2, <3>1 DEF RunEffects, Links, Places
  <2>6. trades' \in Seq(Nat) /\ opened' \in 0..stored
    BY <1>2, TicksAre DEF RunEffects
  <2> QED BY <1>2, <2>4, <2>5, <2>6 DEF PageTypes, RunEffects, server
<1>3. CASE Disposed \/ OnOpen \/ OnTrade \/ OnReconnecting \/ OnFatal
  <2>1. tasks' \in Seq(Events) /\ link' = link
    BY <1>3, TaskTaken, TailIs
  <2>2. trades' \in Seq(Nat)
    <3>1. CASE OnTrade
      BY <3>1, Taped
    <3>2. CASE ~ OnTrade
      BY <1>3, <3>2 DEF Disposed, OnOpen, OnReconnecting, OnFatal, PageTypes
    <3> QED BY <3>1, <3>2
  <2>3. UNCHANGED <<published, stored, hubAt, shown>>
    BY <1>3 DEF Disposed, OnOpen, OnTrade, OnReconnecting, OnFatal, server, view
  <2>4. /\ query' \in [Symbols -> Queries] /\ opened' \in 0..stored
        /\ \A s \in Symbols : query'[s].fetch = "read" => query'[s].answer # None
    <3>1. CASE OnOpen
      <4>1. query' = [s \in Symbols |-> Invalidated(s, query[s])] /\ opened' = stored
        BY <3>1 DEF OnOpen
      <4>2. \A s \in Symbols : query[s].fetch = "read" => query[s].answer # None
        BY DEF PageTypes
      <4> QED BY <4>1, <4>2, InvalidatedIs, TicksAre
    <3>2. CASE ~ OnOpen
      BY <1>3, <3>2 DEF Disposed, OnTrade, OnReconnecting, OnFatal, PageTypes
    <3> QED BY <3>1, <3>2
  <2> QED BY <2>1, <2>2, <2>3, <2>4 DEF PageTypes
<1> QED BY <1>1, <1>2, <1>3

LEMMA TypesKept ==
  ASSUME PageTypes, PageNext \/ UNCHANGED page
  PROVE  PageTypes'
<1>1. Grows
  BY Grown
<1>2. ASSUME NEW s \in Symbols, ReadRest(s) \/ RestFails(s) \/ Arrive(s)
      PROVE  PageTypes'
  BY <1>2, TypesOfQueries
<1>3. CASE UNCHANGED page
  BY <1>3 DEF page, server, view, PageTypes
<1> QED BY <1>1, <1>2, <1>3, TypesOfServer, TypesOfReading, TypesOfPage DEF PageNext

LEMMA TypesBegin ==
  ASSUME PageInit
  PROVE  PageTypes
<1>1. published = <<>> /\ tasks = <<>> /\ trades = <<>> /\ stored = 0 /\ hubAt = 0 /\ opened = 0
  BY DEF PageInit
<1>2. <<>> \in Seq(Ticks) /\ <<>> \in Seq(Events) /\ <<>> \in Seq(Nat) /\ Len(<<>>) = 0
  OBVIOUS
<1>3. NoQuery \in Queries /\ NoQuery.fetch = "idle"
  BY DEF NoQuery, Queries
<1>4. query = [s \in Symbols |-> NoQuery] /\ shown \in Symbols
  BY SettingsHold DEF PageInit, Settings
<1>5. query \in [Symbols -> Queries] /\ \A s \in Symbols : query[s].fetch = "idle"
  BY <1>3, <1>4
<1>6. link \in Links
  BY DEF PageInit, Links, Places
<1> QED BY <1>1, <1>2, <1>4, <1>5, <1>6 DEF PageTypes

-----------------------------------------------------------------------------
(* OnlyThisStream.                                                          *)

\* A trade of the source that is listened to, still on its way to the page.
Coming(t) == t.kind = "trade" /\ t.source = Source

\* No source to come has a task yet.
NoTaskAhead == \A n \in DOMAIN tasks : tasks[n].source <= Source

\* What is on the tape, and what comes, the hub has read for this symbol.
Heard(i)   == i \in 1..hubAt /\ published[i].symbol = link.symbol
TapeHeard  == \A n \in DOMAIN trades : Heard(trades[n])
TasksHeard == \A n \in DOMAIN tasks : Coming(tasks[n]) => Heard(tasks[n].trade)

\* The tape is newest first; what comes is newer, in the order it comes.
TapeFalls  == \A n, k \in DOMAIN trades : n < k => trades[n] > trades[k]
TasksNewer == \A n \in DOMAIN tasks : Coming(tasks[n]) =>
                 \A k \in DOMAIN trades : trades[k] < tasks[n].trade
TasksRise  == \A n, k \in DOMAIN tasks :
                 n < k /\ Coming(tasks[n]) /\ Coming(tasks[k]) => tasks[n].trade < tasks[k].trade

TapeInv == NoTaskAhead /\ TapeHeard /\ TasksHeard /\ TapeFalls /\ TasksNewer /\ TasksRise

LEMMA TaskTypes ==
  ASSUME PageTypes, NEW n \in DOMAIN tasks
  PROVE  tasks[n].source \in Nat /\ tasks[n].trade \in Nat /\ n \in Nat
<1>1. tasks[n] \in Events /\ n \in Nat
  BY DEF PageTypes
<1> QED BY <1>1 DEF Events

\* What the hub has read stays the symbol's.
LEMMA HeardStays ==
  ASSUME PageTypes, Grows, hubAt' >= hubAt, hubAt' \in Nat, link'.symbol = link.symbol,
         NEW i, Heard(i)
  PROVE  i \in 1..hubAt' /\ published'[i].symbol = link'.symbol
<1>1. i \in 1..hubAt' /\ i \in 1..Len(published)
  BY TicksAre DEF Heard
<1> QED BY <1>1 DEF Heard, Grows

\* A step that moves the tasks up by d places and adds no trade.
LEMMA TapeWaits ==
  ASSUME PageTypes, TapeInv, Grows, NEW d \in Nat,
         \A n \in DOMAIN tasks' : \/ n + d \in DOMAIN tasks /\ tasks'[n] = tasks[n + d]
                                  \/ tasks'[n].kind # "trade" /\ tasks'[n].source = Source,
         DOMAIN tasks' \subseteq Nat,
         UNCHANGED <<hubAt, trades>>, link'.source = Source, link'.symbol = link.symbol
  PROVE  TapeInv'
<1>1. Source \in Nat /\ hubAt \in Nat /\ Source' = Source
  BY TicksAre DEF PageTypes, Links, Source
<1>2. ASSUME NEW n \in DOMAIN tasks', tasks'[n].kind = "trade" /\ tasks'[n].source = Source
      PROVE  n + d \in DOMAIN tasks /\ tasks'[n] = tasks[n + d] /\ Coming(tasks[n + d])
  BY <1>2 DEF Coming
<1>3. NoTaskAhead'
  BY <1>1 DEF TapeInv, NoTaskAhead
<1>4. TapeHeard'
  BY <1>1, HeardStays DEF TapeInv, TapeHeard, Heard
<1>5. TasksHeard'
  <2> SUFFICES ASSUME NEW n \in DOMAIN tasks', tasks'[n].kind = "trade" /\ tasks'[n].source = Source
               PROVE  tasks'[n].trade \in 1..hubAt' /\ published'[tasks'[n].trade].symbol = link'.symbol
    BY <1>1 DEF TasksHeard, Coming, Heard
  <2> QED BY <1>1, <1>2, HeardStays DEF TapeInv, TasksHeard
<1>6. TapeFalls'
  BY DEF TapeInv, TapeFalls
<1>7. TasksNewer'
  <2> SUFFICES ASSUME NEW n \in DOMAIN tasks', tasks'[n].kind = "trade" /\ tasks'[n].source = Source,
                      NEW k \in DOMAIN trades
               PROVE  trades[k] < tasks'[n].trade
    BY <1>1 DEF TasksNewer, Coming
  <2> QED BY <1>2 DEF TapeInv, TasksNewer
<1>8. TasksRise'
  <2> SUFFICES ASSUME NEW n \in DOMAIN tasks', NEW k \in DOMAIN tasks', n < k,
                      tasks'[n].kind = "trade" /\ tasks'[n].source = Source,
                      tasks'[k].kind = "trade" /\ tasks'[k].source = Source
               PROVE  tasks'[n].trade < tasks'[k].trade
    BY <1>1 DEF TasksRise, Coming
  <2>1. n + d < k + d
    OBVIOUS
  <2> QED BY <1>2, <2>1 DEF TapeInv, TasksRise
<1> QED BY <1>3, <1>4, <1>5, <1>6, <1>7, <1>8 DEF TapeInv

\* The hub reads on: the session's trades are newer than all it had read.
LEMMA TapeOfReading ==
  ASSUME PageTypes, TapeInv, HubReads
  PROVE  TapeInv'
<1>1. PICK k \in (hubAt + 1)..Len(published) :
            /\ hubAt' = k
            /\ tasks' \in Seq(Events)
            /\ DOMAIN tasks = 1..Len(tasks) /\ Len(tasks) \in Nat
            /\ DOMAIN tasks' = 1..(Len(tasks) + Len(ToSend(k))) /\ Len(ToSend(k)) \in Nat
            /\ \A n \in DOMAIN tasks : tasks'[n] = tasks[n]
            /\ \A n \in 1..Len(ToSend(k)) : /\ tasks'[Len(tasks) + n].trade = ToSend(k)[n]
                                            /\ tasks'[Len(tasks) + n].source = Source
  BY HubReadsIs
<1> DEFINE l == Len(tasks)
           sent == ToSend(k)
<1>2. UNCHANGED <<published, link, trades>> /\ Source \in Nat /\ hubAt \in Nat /\ k \in Nat /\ k > hubAt
      /\ Source' = Source
  BY TicksAre DEF HubReads, view, PageTypes, Links, Source
<1>3. /\ sent \in Seq(Nat) /\ DOMAIN sent = 1..Len(sent)
      /\ \A n \in 1..Len(sent) : sent[n] \in (hubAt + 1)..k /\ published[sent[n]].symbol = link.symbol
      /\ \A n, m \in 1..Len(sent) : n < m => sent[n] < sent[m]
  <2>1. sent \in Seq(Nat)
    BY ToSendIs
  <2>2. DOMAIN sent = 1..Len(sent)
    BY <2>1
  <2> QED BY <2>1, <2>2, ToSendIs
<1> HIDE DEF sent
\* The new tasks are the trades sent, one after the other.
<1>4. ASSUME NEW n \in DOMAIN tasks', n \notin DOMAIN tasks
      PROVE  /\ n - l \in 1..Len(sent) /\ tasks'[n].trade = sent[n - l] /\ tasks'[n].source = Source
             /\ tasks'[n].trade \in (hubAt + 1)..k /\ published[tasks'[n].trade].symbol = link.symbol
  <2>1. n - l \in 1..Len(sent) /\ l + (n - l) = n
    BY <1>1, <1>4 DEF sent
  <2>2. tasks'[l + (n - l)].trade = sent[n - l] /\ tasks'[l + (n - l)].source = Source
    BY <1>1, <2>1 DEF sent
  <2> QED BY <1>3, <2>1, <2>2
<1>5. \A n \in DOMAIN tasks : n \in DOMAIN tasks' /\ tasks'[n] = tasks[n]
  BY <1>1 DEF sent
<1>6. NoTaskAhead'
  BY <1>2, <1>4, <1>5 DEF TapeInv, NoTaskAhead
<1>7. TapeHeard'
  BY <1>1, <1>2 DEF TapeInv, TapeHeard, Heard
<1>8. TasksHeard'
  <2> SUFFICES ASSUME NEW n \in DOMAIN tasks', tasks'[n].kind = "trade" /\ tasks'[n].source = Source
               PROVE  tasks'[n].trade \in 1..hubAt' /\ published[tasks'[n].trade].symbol = link.symbol
    BY <1>2 DEF TasksHeard, Coming, Heard
  <2>1. CASE n \in DOMAIN tasks
    BY <1>1, <1>2, <1>5, <2>1 DEF TapeInv, TasksHeard, Coming, Heard
  <2>2. CASE n \notin DOMAIN tasks
    BY <1>1, <1>2, <1>4, <2>2
  <2> QED BY <2>1, <2>2
<1>9. TapeFalls'
  BY <1>2 DEF TapeInv, TapeFalls
<1>10. TasksNewer'
  <2> SUFFICES ASSUME NEW n \in DOMAIN tasks', tasks'[n].kind = "trade" /\ tasks'[n].source = Source,
                      NEW m \in DOMAIN trades
               PROVE  trades[m] < tasks'[n].trade
    BY <1>2 DEF TasksNewer, Coming
  <2>1. CASE n \in DOMAIN tasks
    BY <1>5, <2>1 DEF TapeInv, TasksNewer, Coming
  <2>2. CASE n \notin DOMAIN tasks
    <3>1. trades[m] \in 1..hubAt
      BY DEF TapeInv, TapeHeard, Heard
    <3> QED BY <1>2, <1>4, <2>2, <3>1
  <2> QED BY <2>1, <2>2
<1>11. TasksRise'
  <2> SUFFICES ASSUME NEW n \in DOMAIN tasks', NEW m \in DOMAIN tasks', n < m,
                      tasks'[n].kind = "trade" /\ tasks'[n].source = Source,
                      tasks'[m].kind = "trade" /\ tasks'[m].source = Source
               PROVE  tasks'[n].trade < tasks'[m].trade
    BY <1>2 DEF TasksRise, Coming
  <2>1. CASE m \in DOMAIN tasks
    <3>1. n \in DOMAIN tasks
      BY <1>1, <2>1
    <3> QED BY <1>5, <2>1, <3>1 DEF TapeInv, TasksRise, Coming
  <2>2. CASE n \in DOMAIN tasks /\ m \notin DOMAIN tasks
    <3>1. tasks'[n].trade \in 1..hubAt
      BY <1>5, <2>2 DEF TapeInv, TasksHeard, Coming, Heard
    <3> QED BY <1>2, <1>4, <2>2, <3>1
  <2>3. CASE n \notin DOMAIN tasks /\ m \notin DOMAIN tasks
    <3>1. n - l < m - l
      BY <1>1
    <3> QED BY <1>3, <1>4, <2>3, <3>1
  <2> QED BY <2>1, <2>2, <2>3
<1> QED BY <1>6, <1>7, <1>8, <1>9, <1>10, <1>11 DEF TapeInv

\* A new source: nothing of it is under way, and the tape is empty.
LEMMA TapeOfEffects ==
  ASSUME PageTypes, TapeInv, RunEffects
  PROVE  TapeInv'
<1>1. /\ trades' = <<>> /\ UNCHANGED <<tasks, hubAt, published>> /\ Source \in Nat
      /\ Source' = Source + 1 /\ link' = [source |-> Source + 1, symbol |-> shown, state |-> "connecting"]
  BY DEF RunEffects, server, PageTypes, Links, Source
<1>2. \A n \in DOMAIN tasks : tasks[n].source <= Source /\ tasks[n].source \in Nat
  BY TaskTypes DEF TapeInv, NoTaskAhead
<1>3. NoTaskAhead' /\ \A n \in DOMAIN tasks' : ~ (tasks'[n].kind = "trade" /\ tasks'[n].source = Source')
  BY <1>1, <1>2 DEF NoTaskAhead
<1>4. TasksHeard' /\ TasksNewer' /\ TasksRise'
  BY <1>3 DEF TasksHeard, TasksNewer, TasksRise, Coming
<1>5. DOMAIN trades' = {}
  BY <1>1
<1>6. TapeHeard' /\ TapeFalls'
  BY <1>5 DEF TapeHeard, TapeFalls
<1> QED BY <1>3, <1>4, <1>6 DEF TapeInv

\* The oldest task is a trade of this stream: it is the newest of the tape.
LEMMA TapeOfTrade ==
  ASSUME PageTypes, TapeInv, OnTrade
  PROVE  TapeInv'
<1>1. /\ tasks' \in Seq(Events)
      /\ DOMAIN tasks' = 1..(Len(tasks) - 1) /\ DOMAIN tasks = 1..Len(tasks) /\ Len(tasks) \in Nat
      /\ 1 \in DOMAIN tasks /\ Head(tasks) = tasks[1]
      /\ \A n \in DOMAIN tasks' : n + 1 \in DOMAIN tasks /\ tasks'[n] = tasks[n + 1]
  BY TaskTaken, TailIs
<1>2. /\ Listens(Head(tasks)) /\ Head(tasks).kind = "trade"
      /\ 1 \in DOMAIN trades' /\ trades'[1] = Head(tasks).trade
      /\ \A n \in DOMAIN trades' : /\ n \in Nat
                                   /\ n # 1 => n - 1 \in DOMAIN trades /\ trades'[n] = trades[n - 1]
      /\ DOMAIN trades = 1..Len(trades) /\ Len(trades) \in Nat
  BY Taped
<1>3. UNCHANGED <<published, hubAt, link>> /\ Source' = Source
  BY DEF OnTrade, server, Source
<1> DEFINE i == tasks[1].trade
<1>4. Coming(tasks[1]) /\ trades'[1] = i
  BY <1>1, <1>2 DEF Coming, Listens
<1>5. Heard(i) /\ (\A k \in DOMAIN trades : trades[k] < i) /\ i \in Nat
  BY <1>1, <1>4, TaskTypes DEF TapeInv, TasksHeard, TasksNewer
<1>6. ASSUME NEW n \in DOMAIN tasks', tasks'[n].kind = "trade" /\ tasks'[n].source = Source
      PROVE  /\ n + 1 \in DOMAIN tasks /\ tasks'[n] = tasks[n + 1] /\ Coming(tasks[n + 1])
             /\ i < tasks[n + 1].trade
  <2>1. n + 1 \in DOMAIN tasks /\ tasks'[n] = tasks[n + 1] /\ 1 < n + 1 /\ 1 \in DOMAIN tasks
    BY <1>1
  <2>2. Coming(tasks[n + 1])
    BY <1>6, <2>1 DEF Coming
  <2> QED BY <1>4, <2>1, <2>2 DEF TapeInv, TasksRise
<1> HIDE DEF i
<1>7. NoTaskAhead'
  BY <1>1, <1>3 DEF TapeInv, NoTaskAhead
<1>8. TapeHeard'
  <2> SUFFICES ASSUME NEW n \in DOMAIN trades'
               PROVE  trades'[n] \in 1..hubAt /\ published[trades'[n]].symbol = link.symbol
    BY <1>3 DEF TapeHeard, Heard
  <2> QED BY <1>2, <1>4, <1>5 DEF TapeInv, TapeHeard, Heard
<1>9. TasksHeard'
  <2> SUFFICES ASSUME NEW n \in DOMAIN tasks', tasks'[n].kind = "trade" /\ tasks'[n].source = Source
               PROVE  tasks'[n].trade \in 1..hubAt /\ published[tasks'[n].trade].symbol = link.symbol
    BY <1>3 DEF TasksHeard, Coming, Heard
  <2> QED BY <1>6 DEF TapeInv, TasksHeard, Heard
<1>10. TapeFalls'
  <2> SUFFICES ASSUME NEW n \in DOMAIN trades', NEW k \in DOMAIN trades', n < k
               PROVE  trades'[n] > trades'[k]
    BY DEF TapeFalls
  <2>1. n \in Nat /\ k \in Nat /\ k # 1 => k - 1 \in DOMAIN trades /\ trades'[k] = trades[k - 1]
    BY <1>2
  <2>2. n # 0
    BY <1>2
  <2>3. k # 1
    BY <1>2, <2>2
  <2>4. CASE n = 1
    BY <1>2, <1>4, <1>5, <2>3, <2>4
  <2>5. CASE n # 1
    <3>1. n - 1 < k - 1 /\ n - 1 \in DOMAIN trades /\ k - 1 \in DOMAIN trades
          /\ trades'[n] = trades[n - 1] /\ trades'[k] = trades[k - 1]
      BY <1>2, <2>3, <2>5
    <3> QED BY <3>1 DEF TapeInv, TapeFalls
  <2> QED BY <2>4, <2>5
<1>11. TasksNewer'
  <2> SUFFICES ASSUME NEW n \in DOMAIN tasks', tasks'[n].kind = "trade" /\ tasks'[n].source = Source,
                      NEW k \in DOMAIN trades'
               PROVE  trades'[k] < tasks'[n].trade
    BY <1>3 DEF TasksNewer, Coming
  <2>1. CASE k = 1
    BY <1>4, <1>6, <2>1
  <2>2. CASE k # 1
    <3>1. k - 1 \in DOMAIN trades /\ trades'[k] = trades[k - 1]
      BY <1>2, <2>2
    <3> QED BY <1>6, <3>1 DEF TapeInv, TasksNewer
  <2> QED BY <2>1, <2>2
<1>12. TasksRise'
  <2> SUFFICES ASSUME NEW n \in DOMAIN tasks', NEW k \in DOMAIN tasks', n < k,
                      tasks'[n].kind = "trade" /\ tasks'[n].source = Source,
                      tasks'[k].kind = "trade" /\ tasks'[k].source = Source
               PROVE  tasks'[n].trade < tasks'[k].trade
    BY <1>3 DEF TasksRise, Coming
  <2>1. n + 1 < k + 1
    BY <1>1
  <2> QED BY <1>6, <2>1 DEF TapeInv, TasksRise
<1> QED BY <1>7, <1>8, <1>9, <1>10, <1>11, <1>12 DEF TapeInv

LEMMA TapeKept ==
  ASSUME PageTypes, TapeInv, PageNext \/ UNCHANGED page
  PROVE  TapeInv'
<1>0. Grows /\ DOMAIN tasks \subseteq Nat /\ link.source = Source /\ hubAt \in Nat
  BY Grown, TicksAre DEF PageTypes, Source
<1>1. CASE UNCHANGED <<tasks, trades, hubAt>> /\ link'.source = Source /\ link'.symbol = link.symbol
  <2>1. \A n \in DOMAIN tasks' : n + 0 \in DOMAIN tasks /\ tasks'[n] = tasks[n + 0]
    BY <1>0, <1>1
  <2> QED BY <1>0, <1>1, <2>1, TapeWaits
<1>2. CASE Accept \/ Lose \/ Refuse
  <2>1. PICK kind \in Kinds \ {"trade"} : tasks' = Append(tasks, Dispatch(kind, 0))
    BY <1>2, Answered
  <2>2. Dispatch(kind, 0) \in Events /\ Dispatch(kind, 0).source = Source /\ Dispatch(kind, 0).kind # "trade"
    BY <2>1, DispatchIs
  <2>3. /\ DOMAIN tasks' = 1..(Len(tasks) + 1) /\ DOMAIN tasks = 1..Len(tasks) /\ Len(tasks) \in Nat
        /\ \A n \in DOMAIN tasks : tasks'[n] = tasks[n]
        /\ tasks'[Len(tasks) + 1] = Dispatch(kind, 0)
    BY <2>1, <2>2, AppendedIs
  <2>4. ASSUME NEW n \in DOMAIN tasks'
        PROVE  \/ n + 0 \in DOMAIN tasks /\ tasks'[n] = tasks[n + 0]
               \/ tasks'[n].kind # "trade" /\ tasks'[n].source = Source
    <3>1. CASE n = Len(tasks) + 1
      BY <2>2, <2>3, <3>1
    <3>2. CASE n # Len(tasks) + 1
      <4>1. n \in DOMAIN tasks /\ n + 0 = n
        BY <2>3, <3>2
      <4> QED BY <2>3, <4>1
    <3> QED BY <3>1, <3>2
  <2>5. /\ UNCHANGED <<hubAt, trades>> /\ link'.source = Source /\ link'.symbol = link.symbol
        /\ DOMAIN tasks' \subseteq Nat
    <3>1. UNCHANGED <<hubAt, trades>>
      BY <1>2 DEF Accept, Lose, Refuse, server
    <3>2. link'.source = Source /\ link'.symbol = link.symbol
      BY <1>2, Answered
    <3>3. DOMAIN tasks' \subseteq Nat
      BY <2>3
    <3> QED BY <3>1, <3>2, <3>3
  <2> QED BY <1>0, <2>4, <2>5, TapeWaits
<1>3. CASE Disposed \/ OnOpen \/ OnReconnecting \/ OnFatal
  <2>1. /\ DOMAIN tasks' = 1..(Len(tasks) - 1) /\ Len(tasks) \in Nat
        /\ \A n \in DOMAIN tasks' : n + 1 \in DOMAIN tasks /\ tasks'[n] = tasks[n + 1]
    BY <1>3, TaskTaken, TailIs
  <2>2. /\ UNCHANGED <<hubAt, trades>> /\ link'.source = Source /\ link'.symbol = link.symbol
        /\ DOMAIN tasks' \subseteq Nat
    BY <1>0, <1>3, <2>1, TaskTaken DEF Disposed, OnOpen, OnReconnecting, OnFatal, server
  <2> QED BY <1>0, <2>1, <2>2, TapeWaits
<1>4. AppendTrade \/ Store \/ Switch \/ Register \/ Choose
         => UNCHANGED <<tasks, trades, hubAt>> /\ link'.source = Source /\ link'.symbol = link.symbol
  <2>1. Register => link'.source = Source /\ link'.symbol = link.symbol
    BY LinkMoves DEF Register, Places
  <2> QED BY <1>0, <2>1 DEF AppendTrade, Store, Switch, Register, Choose, server, view
<1>5. (\E s \in Symbols : ReadRest(s) \/ RestFails(s) \/ Arrive(s))
         => UNCHANGED <<tasks, trades, hubAt>> /\ link'.source = Source /\ link'.symbol = link.symbol
  BY <1>0 DEF ReadRest, RestFails, Arrive, server
<1>6. UNCHANGED page => UNCHANGED <<tasks, trades, hubAt>> /\ link'.source = Source /\ link'.symbol = link.symbol
  BY <1>0 DEF page, server
<1> QED BY <1>1, <1>2, <1>3, <1>4, <1>5, <1>6, TapeOfReading, TapeOfEffects, TapeOfTrade DEF PageNext

(* The live part of the tape is of the symbol whose stream is open, newest  *)
(* first and each trade once, for every number of sources, reconnections,   *)
(* tasks left over and sizes of a reading (api/stream.ts:97-129).           *)
THEOREM ThisStreamHolds == PageSpec => []OnlyThisStream
<1>1. PageInit => PageTypes /\ TapeInv
  <2>1. PageInit => TapeInv
    BY DEF PageInit, TapeInv, NoTaskAhead, TapeHeard, TasksHeard, TapeFalls, TasksNewer, TasksRise
  <2> QED BY <2>1, TypesBegin
<1>2. PageTypes /\ TapeInv /\ [PageNext]_page => (PageTypes /\ TapeInv)'
  BY TypesKept, TapeKept
<1>3. TapeInv => OnlyThisStream
  BY DEF TapeInv, TapeHeard, TapeFalls, Heard, OnlyThisStream
<1> QED BY <1>1, <1>2, <1>3, PTL DEF PageSpec

-----------------------------------------------------------------------------
(* GuardIsChartEnd.                                                         *)

\* The minutes of a series: a finite set has an end.
Series(points) == points \subseteq Nat /\ IsFiniteSet(points)

LEMMA SeriesEnds ==
  ASSUME NEW points, Series(points), points # {}
  PROVE  /\ LastMinute(points) \in points /\ LastMinute(points) \in Nat
         /\ \A m \in points : m <= LastMinute(points)
<1> DEFINE A == Ascending(points)
           c == Cardinality(points)
<1>1. points \in SUBSET Int /\ IsFiniteSet(points)
  BY DEF Series
<1>2. /\ c \in Nat /\ A \in [1..c -> points]
      /\ \A x \in points : \E k \in 1..c : A[k] = x
      /\ \A k, l \in 1..c : k < l => A[k] < A[l]
  BY <1>1, AscendingIs
<1> HIDE DEF A, c
<1>3. c \in 1..c
  <2>1. PICK x \in points : TRUE
    OBVIOUS
  <2>2. \E k \in 1..c : A[k] = x
    BY <1>2
  <2> QED BY <1>2, <2>2
<1>4. A[c] \in points /\ \A m \in points : m <= A[c]
  <2>1. A[c] \in points
    BY <1>2, <1>3
  <2>2. ASSUME NEW m \in points
        PROVE  m <= A[c]
    <3>1. PICK k \in 1..c : A[k] = m
      BY <1>2
    <3>2. k = c \/ k < c
      BY <1>2
    <3>3. m \in Nat /\ A[c] \in Nat
      BY <2>1 DEF Series
    <3> QED BY <1>2, <1>3, <3>1, <3>2, <3>3
  <2> QED BY <2>1, <2>2
<1>5. LastMinute(points) = CHOOSE x \in points : \A y \in points : x >= y
  BY DEF LastMinute, Max
<1>6. points \subseteq Nat
  BY DEF Series
<1>7. \A y \in points : A[c] >= y
  BY <1>4, <1>6
<1>8. LastMinute(points) \in points /\ \A y \in points : LastMinute(points) >= y
  BY <1>4, <1>5, <1>7
<1> QED BY <1>6, <1>8

\* A later minute becomes the end.
LEMMA SeriesGrows ==
  ASSUME NEW points, Series(points), NEW m \in Nat, \A x \in points : x <= m
  PROVE  Series(points \union {m}) /\ LastMinute(points \union {m}) = m
<1> DEFINE more == points \union {m}
<1>1. Series(more) /\ more # {}
  BY FS_AddElement DEF Series
<1>2. LastMinute(more) \in more /\ \A x \in more : x <= LastMinute(more)
  BY <1>1, SeriesEnds
<1>3. LastMinute(more) \in Nat /\ m <= LastMinute(more) /\ LastMinute(more) <= m
  BY <1>1, <1>2, SeriesEnds
<1> QED BY <1>1, <1>3

\* The minutes of the rows stored are a series.
LEMMA MinutesAreSeries ==
  ASSUME PageTypes, NEW s
  PROVE  Series(MinutesOf(s))
<1> DEFINE S == OfSymbol(s, stored)
           minute == [i \in S |-> published[i].minute]
<1>1. stored \in Nat /\ \A i \in 1..stored : published[i].minute \in Nat
  BY TicksAre
<1>2. S \in SUBSET (1..stored) /\ IsFiniteSet(S)
  BY <1>1, OfSymbolIs
<1>3. MinutesOf(s) = {minute[i] : i \in S}
  BY DEF MinutesOf
<1> HIDE DEF S
<1>4. minute \in Surjection(S, MinutesOf(s))
  BY <1>3 DEF Surjection
<1>5. IsFiniteSet(MinutesOf(s))
  BY <1>2, <1>4, FS_Surjection
<1>6. MinutesOf(s) \subseteq Nat
  BY <1>1, <1>2, <1>3
<1> QED BY <1>5, <1>6 DEF Series

\* Every query brings a series, and the guard is the end of the one drawn.
Given(reply) == reply # None => Series(reply.points)
ChartInv ==
  /\ chart = Drawn(chart.points) /\ Series(chart.points)
  /\ \A s \in Symbols : Given(query[s].answer) /\ Given(query[s].data)

LEMMA DrawnIs ==
  ASSUME NEW points, Series(points), chart' = Drawn(points)
  PROVE  chart' = Drawn(chart'.points) /\ Series(chart'.points)
BY DEF Drawn

\* Series a query brings after one step of it.
LEMMA ChartOfQueries ==
  ASSUME PageTypes, ChartInv, NEW s \in Symbols, NEW q \in Queries, query' = [query EXCEPT ![s] = q],
         Given(q.answer), Given(q.data)
  PROVE  \A t \in Symbols : Given(query'[t].answer) /\ Given(query'[t].data)
<1>1. query \in [Symbols -> Queries]
  BY DEF PageTypes
<1>2. query'[s] = q /\ \A t \in Symbols : t # s => query'[t] = query[t]
  BY <1>1
<1> QED BY <1>2 DEF ChartInv

\* A live tick moves the end of the series and the guard together, or neither.
LEMMA TickDrawn ==
  ASSUME ChartInv, NEW trade, trade.minute \in Nat
  PROVE  /\ Series(Updated(trade).points)
         /\ Updated(trade) = Drawn(Updated(trade).points)
<1> DEFINE m == trade.minute
           points == chart.points
<1>1. chart.last = LastMinute(points) /\ Series(points) /\ chart = Drawn(points)
  BY DEF ChartInv, Drawn
<1>2. CASE trade.symbol # link.symbol \/ (chart.last # None /\ m < chart.last)
  <2>1. Updated(trade) = chart
    BY <1>2 DEF Updated
  <2> QED BY <1>1, <2>1
<1>3. CASE ~ (trade.symbol # link.symbol \/ (chart.last # None /\ m < chart.last))
  <2>1. Updated(trade) = [points |-> points \union {m}, last |-> m]
    BY <1>3 DEF Updated
  <2>2. \A x \in points : x <= m
    <3>1. CASE points = {}
      BY <3>1
    <3>2. CASE points # {}
      <4>1. LastMinute(points) \in Nat /\ \A x \in points : x <= LastMinute(points)
        BY <1>1, <3>2, SeriesEnds
      <4>2. LastMinute(points) # None
        BY <4>1, SettingsHold DEF Settings
      <4>3. ~ (m < LastMinute(points))
        BY <1>1, <1>3, <4>2
      <4>4. \A x \in points : x \in Nat
        BY <1>1 DEF Series
      <4> QED BY <4>1, <4>3, <4>4
    <3> QED BY <3>1, <3>2
  <2>3. Series(points \union {m}) /\ LastMinute(points \union {m}) = m
    BY <1>1, <2>2, SeriesGrows
  <2> QED BY <2>1, <2>3 DEF Drawn
<1> QED BY <1>2, <1>3

LEMMA ChartOfRest ==
  ASSUME PageTypes, ChartInv, NEW s \in Symbols, ReadRest(s) \/ RestFails(s) \/ Arrive(s)
  PROVE  ChartInv'
<1>1. Given(query[s].answer) /\ Given(query[s].data) /\ query[s] \in Queries
  BY DEF ChartInv, PageTypes
<1>2. CASE ReadRest(s)
  <2> DEFINE a == [rows |-> NewestIn(OfSymbol(s, stored), RestLimit), points |-> MinutesOf(s)]
             q == IF activePairs[s] THEN [query[s] EXCEPT !.fetch = "read", !.answer = a]
                  ELSE [query[s] EXCEPT !.fetch = "idle", !.failed = TRUE]
  <2>1. query' = [query EXCEPT ![s] = q] /\ chart' = chart
    BY <1>2 DEF ReadRest
  <2>2. a \in RestAnswers /\ Series(a.points)
    BY MinutesAre, MinutesAreSeries
  <2> HIDE DEF a
  <2>3. q \in Queries /\ (q.answer = a \/ q.answer = query[s].answer) /\ q.data = query[s].data
    BY <1>1, <2>2 DEF Queries
  <2> HIDE DEF q
  <2>4. Given(q.answer) /\ Given(q.data)
    BY <1>1, <2>2, <2>3 DEF Given
  <2> QED BY <2>1, <2>3, <2>4, ChartOfQueries DEF ChartInv
<1>3. CASE RestFails(s)
  <2> DEFINE q == [query[s] EXCEPT !.fetch = "idle", !.answer = None, !.failed = TRUE]
  <2>1. query' = [query EXCEPT ![s] = q] /\ chart' = chart
    BY <1>3 DEF RestFails
  <2>2. q \in Queries /\ q.answer = None /\ q.data = query[s].data
    BY <1>1 DEF Queries
  <2> HIDE DEF q
  <2>3. Given(q.answer) /\ Given(q.data)
    BY <1>1, <2>2 DEF Given
  <2> QED BY <2>1, <2>2, <2>3, ChartOfQueries DEF ChartInv
<1>4. CASE Arrive(s)
  <2> DEFINE q == [query[s] EXCEPT !.fetch = "idle", !.answer = None, !.data = query[s].answer,
                                   !.invalid = FALSE, !.failed = FALSE]
  <2>1. query' = [query EXCEPT ![s] = q]
    BY <1>4 DEF Arrive
  <2>2. query[s].answer # None /\ query[s].answer \in RestAnswers
    BY <1>4, ArriveIs, SettingsHold DEF Settings
  <2>3. q \in Queries /\ q.answer = None /\ q.data = query[s].answer
    BY <1>1, <2>2 DEF Queries
  <2> HIDE DEF q
  <2>4. Given(q.answer) /\ Given(q.data) /\ Series(query[s].answer.points)
    BY <1>1, <2>2, <2>3 DEF Given
  <2>5. chart' = chart \/ chart' = Drawn(query[s].answer.points)
    BY <1>4 DEF Arrive
  <2>6. chart' = Drawn(chart'.points) /\ Series(chart'.points)
    BY <2>4, <2>5, DrawnIs DEF ChartInv
  <2> QED BY <2>1, <2>3, <2>4, <2>6, ChartOfQueries DEF ChartInv
<1> QED BY <1>2, <1>3, <1>4

LEMMA ChartKept ==
  ASSUME PageTypes, TapeInv, ChartInv, PageNext \/ UNCHANGED page
  PROVE  ChartInv'
<1>0. \A s \in Symbols : query[s] \in Queries /\ Given(query[s].answer) /\ Given(query[s].data)
  BY DEF PageTypes, ChartInv
<1>1. CASE UNCHANGED <<chart, query>>
  BY <1>1 DEF ChartInv
<1>2. CASE RunEffects
  <2>1. PICK q \in Mounted(query[shown]) : query' = [query EXCEPT ![shown] = q]
    BY <1>2 DEF RunEffects
  <2>2. shown \in Symbols /\ chart' = Drawn(PointsOf(query[shown]))
    BY <1>2 DEF PageTypes, RunEffects
  <2>3. q = query[shown] \/ q = Requested(query[shown])
    BY <2>1 DEF Mounted
  <2>4. q \in Queries /\ Given(q.answer) /\ Given(q.data)
    <3>1. /\ Requested(query[shown]) \in Queries /\ Requested(query[shown]).data = query[shown].data
          /\ Requested(query[shown]).answer = None
      BY <1>0, <2>2 DEF Requested, Queries
    <3> QED BY <1>0, <2>2, <2>3, <3>1 DEF Given
  <2>5. Series(PointsOf(query[shown]))
    <3>1. CASE query[shown].data = None
      BY <3>1, FS_EmptySet DEF PointsOf, Series
    <3>2. CASE query[shown].data # None
      BY <1>0, <2>2, <3>2 DEF PointsOf, Given
    <3> QED BY <3>1, <3>2
  <2> QED BY <2>1, <2>2, <2>4, <2>5, ChartOfQueries, DrawnIs DEF ChartInv
<1>3. CASE OnOpen
  <2>1. query' = [s \in Symbols |-> Invalidated(s, query[s])] /\ chart' = chart
    BY <1>3 DEF OnOpen
  <2>2. ASSUME NEW s \in Symbols
        PROVE  Given(query'[s].answer) /\ Given(query'[s].data)
    <3>1. query'[s] = Invalidated(s, query[s]) /\ query[s] \in Queries
      BY <1>0, <2>1
    <3>2. Invalidated(s, query[s]) = [query[s] EXCEPT !.invalid = TRUE]
            \/ Invalidated(s, query[s]) = [Requested(query[s]) EXCEPT !.invalid = TRUE]
      BY DEF Invalidated
    <3>3. /\ [query[s] EXCEPT !.invalid = TRUE].data = query[s].data
          /\ [query[s] EXCEPT !.invalid = TRUE].answer = query[s].answer
      BY <3>1 DEF Queries
    <3>4. /\ Requested(query[s]).data = query[s].data /\ Requested(query[s]).answer = None
          /\ Requested(query[s]) \in Queries
      BY <3>1 DEF Requested, Queries
    <3>5. /\ [Requested(query[s]) EXCEPT !.invalid = TRUE].data = query[s].data
          /\ [Requested(query[s]) EXCEPT !.invalid = TRUE].answer = None
      BY <3>4 DEF Queries
    <3>6. query'[s].data = query[s].data /\ (query'[s].answer = query[s].answer \/ query'[s].answer = None)
      BY <3>1, <3>2, <3>3, <3>5
    <3> QED BY <1>0, <3>6 DEF Given
  <2> QED BY <2>1, <2>2 DEF ChartInv
<1>4. CASE OnTrade
  <2> DEFINE i == Head(tasks).trade
  <2>1. query' = query /\ chart' = Updated(published[i])
    BY <1>4 DEF OnTrade
  <2>2. published[i].minute \in Nat
    <3>1. Coming(Head(tasks)) /\ tasks # <<>>
      BY <1>4, Taped DEF Coming, Listens
    <3>2. 1 \in DOMAIN tasks /\ Head(tasks) = tasks[1]
      BY <1>4, TaskTaken, TailIs
    <3>3. i \in 1..hubAt
      BY <3>1, <3>2 DEF TapeInv, TasksHeard, Heard
    <3>4. i \in 1..Len(published)
      BY <3>3, TicksAre
    <3> QED BY <3>4, TicksAre
  <2> HIDE DEF i
  <2>3. Series(chart'.points) /\ chart' = Drawn(chart'.points)
    BY <2>1, <2>2, TickDrawn
  <2> QED BY <2>1, <2>3 DEF ChartInv
<1>5. ASSUME NEW s \in Symbols, ReadRest(s) \/ RestFails(s) \/ Arrive(s)
      PROVE  ChartInv'
  BY <1>5, ChartOfRest
<1>6. AppendTrade \/ Store \/ HubReads \/ Switch \/ Accept \/ Register \/ Lose \/ Refuse \/ Choose
        => UNCHANGED <<chart, query>>
  BY DEF AppendTrade, Store, HubReads, Switch, Accept, Register, Lose, Refuse, Choose
<1>7. Disposed \/ OnReconnecting \/ OnFatal => UNCHANGED <<chart, query>>
  BY DEF Disposed, OnReconnecting, OnFatal
<1>8. UNCHANGED page => UNCHANGED <<chart, query>>
  BY DEF page
<1> QED BY <1>1, <1>2, <1>3, <1>4, <1>5, <1>6, <1>7, <1>8 DEF PageNext

(* The guard of the live ticks is the end of the series drawn, after any    *)
(* order of answers, late ticks and changes of the symbol                   *)
(* (PriceChart.tsx:138-176).                                                *)
THEOREM GuardHolds == PageSpec => []GuardIsChartEnd
<1>1. PageInit => PageTypes /\ TapeInv /\ ChartInv
  <2> SUFFICES ASSUME PageInit PROVE PageTypes /\ TapeInv /\ ChartInv
    OBVIOUS
  <2>1. TapeInv
    BY DEF PageInit, TapeInv, NoTaskAhead, TapeHeard, TasksHeard, TapeFalls, TasksNewer, TasksRise
  <2>2. chart = NoChart /\ query = [s \in Symbols |-> NoQuery]
    BY DEF PageInit
  <2>3. chart = Drawn(chart.points) /\ Series(chart.points)
    BY <2>2, FS_EmptySet DEF NoChart, Drawn, LastMinute, Series
  <2>4. \A s \in Symbols : query[s].answer = None /\ query[s].data = None
    BY <2>2 DEF NoQuery
  <2> QED BY <2>1, <2>3, <2>4, TypesBegin DEF ChartInv, Given
<1>2. PageTypes /\ TapeInv /\ ChartInv /\ [PageNext]_page => (PageTypes /\ TapeInv /\ ChartInv)'
  BY TypesKept, TapeKept, ChartKept
<1>3. ChartInv => GuardIsChartEnd
  <2> SUFFICES ASSUME ChartInv PROVE chart.last = LastMinute(chart.points)
    BY DEF GuardIsChartEnd
  <2>1. chart = Drawn(chart.points)
    BY DEF ChartInv
  <2>2. Drawn(chart.points).last = LastMinute(chart.points)
    BY DEF Drawn
  <2> QED BY <2>1, <2>2
<1> QED BY <1>1, <1>2, <1>3, PTL DEF PageSpec

-----------------------------------------------------------------------------
(* NothingStoredMissing.                                                    *)

\* Of enough rows the newest R are R.
LEMMA NewestAre ==
  ASSUME NEW S \in SUBSET Int, IsFiniteSet(S), NEW R \in Nat, Cardinality(S) >= R
  PROVE  IsFiniteSet(NewestIn(S, R)) /\ Cardinality(NewestIn(S, R)) = R
<1> DEFINE before == [d \in S |-> {e \in S : e > d}]
           N == NewestIn(S, R)
           n == Cardinality(S)
           T == 0..(R - 1)
           place == [x \in N |-> Cardinality(before[x])]
<1>1. Orders(before, S)
  <2>1. \A x, y \in S : x # y => x < y \/ y < x
    OBVIOUS
  <2>2. ASSUME NEW x \in S, NEW y \in S, y < x
        PROVE  x \in before[y] /\ before[x] \subseteq before[y]
    <3>1. \A e \in S : e > x => e > y
      BY <2>2
    <3> QED BY <2>2, <3>1
  <2>3. before \in [S -> SUBSET S] /\ \A x \in S : x \notin before[x]
    OBVIOUS
  <2> HIDE DEF before
  <2> QED BY <2>1, <2>2, <2>3 DEF Orders
<1>2. N \in SUBSET S /\ \A x \in S : x \in N <=> Cardinality(before[x]) < R
  BY DEF NewestIn
<1> DEFINE f == Place(before, S)
<1>3. n \in Nat /\ f \in Bijection(S, 0..(n - 1)) /\ \A x \in S : f[x] = Cardinality(before[x])
  <2>1. \A x \in S : f[x] = Cardinality(before[x])
    BY DEF Place
  <2> HIDE DEF f, n, before
  <2>2. n \in Nat /\ f \in Bijection(S, 0..(n - 1))
    BY <1>1, PlacesAreTaken DEF f, n
  <2> QED BY <2>1, <2>2
<1> HIDE DEF f, n, before, N
<1>4. \A x \in S : f[x] \in 0..(n - 1)
  BY <1>3 DEF Bijection, Injection
<1>5. \A p \in 0..(n - 1) : \E x \in S : f[x] = p
  BY <1>3 DEF Bijection, Surjection
<1>6. \A x, y \in S : f[x] = f[y] => x = y
  BY <1>3 DEF Bijection, Injection, IsInjective
<1>7. \A x \in N : place[x] = f[x] /\ x \in S /\ place[x] \in T
  <2>1. \A x \in N : place[x] = Cardinality(before[x]) /\ x \in S /\ Cardinality(before[x]) < R
    BY <1>2
  <2>2. \A x \in N : place[x] = f[x] /\ x \in S
    BY <1>3, <2>1
  <2> HIDE DEF place
  <2>3. \A x \in N : f[x] \in 0..(n - 1) /\ f[x] < R
    BY <1>3, <1>4, <2>1
  <2>4. \A p \in 0..(n - 1) : p < R => p \in T
    OBVIOUS
  <2> QED BY <2>2, <2>3, <2>4
<1>8. place \in [N -> T]
  <2>1. place = [x \in N |-> place[x]]
    OBVIOUS
  <2> HIDE DEF place, T
  <2> QED BY <1>7, <2>1
<1>9. \A p \in T : \E x \in N : place[x] = p
  <2> SUFFICES ASSUME NEW p \in T PROVE \E x \in N : place[x] = p
    OBVIOUS
  <2>1. p \in 0..(n - 1) /\ p < R
    BY <1>3 DEF n
  <2>2. PICK x \in S : f[x] = p
    BY <1>5, <2>1
  <2>3. x \in N
    BY <1>2, <1>3, <2>1, <2>2
  <2> QED BY <1>7, <2>2, <2>3
<1>10. place \in Bijection(N, T)
  <2> HIDE DEF place, T
  <2>1. place \in Injection(N, T)
    BY <1>6, <1>7, <1>8 DEF Injection, IsInjective
  <2>2. place \in Surjection(N, T)
    BY <1>8, <1>9 DEF Surjection
  <2> QED BY <2>1, <2>2 DEF Bijection
<1>11. IsFiniteSet(N)
  BY <1>2, FS_Subset
<1>12. IsFiniteSet(T) /\ Cardinality(T) = R
  <2>1. IsFiniteSet(T) /\ Cardinality(T) = IF 0 > R - 1 THEN 0 ELSE (R - 1) - 0 + 1
    BY FS_Interval
  <2> QED BY <2>1
<1>13. Cardinality(T) = Cardinality(N)
  <2> HIDE DEF place, T
  <2> QED BY <1>10, <1>11, FS_Bijection DEF ExistsBijection
<1> QED BY <1>11, <1>12, <1>13 DEF N

\* A row that is not among the newest R has R of them after it.
LEMMA OutOfNewest ==
  ASSUME NEW S \in SUBSET Int, IsFiniteSet(S), NEW R \in Nat, NEW i \in S, i \notin NewestIn(S, R)
  PROVE  Cardinality({j \in NewestIn(S, R) : j > i}) = R
<1> DEFINE A == {j \in S : j > i}
<1>1. A \in SUBSET Int /\ IsFiniteSet(A) /\ Cardinality(A) \in Nat
  <2>1. A \in SUBSET S
    OBVIOUS
  <2> HIDE DEF A
  <2> QED BY <2>1, FS_Subset, FS_CardinalityType
<1>2. Cardinality(A) >= R
  BY <1>1 DEF NewestIn
<1>3. ASSUME NEW j \in A
      PROVE  {l \in A : l > j} = {l \in S : l > j}
  <2>1. j > i /\ j \in Int /\ i \in Int
    OBVIOUS
  <2>2. \A l \in S : l > j => l > i
    BY <2>1
  <2> QED BY <2>2
<1>4. {j \in NewestIn(S, R) : j > i} = NewestIn(A, R)
  BY <1>3 DEF NewestIn
<1> HIDE DEF A
<1> QED BY <1>1, <1>2, <1>4, NewestAre

\* The rows a query may have read since the stream opened: the newest of the
\* symbol at some moment when all that was stored then was there.
Recent == {NewestIn(OfSymbol(shown, n), RestLimit) : n \in opened..stored}

\* While the stream is open, the query of the symbol shown has failed, is still
\* to be read, or has been read since the stream opened.
Renewed ==
  \/ query[shown].fetch = "idle" /\ query[shown].failed
  \/ query[shown].fetch = "asked"
  \/ query[shown].fetch = "read" /\ query[shown].answer.rows \in Recent
  \/ query[shown].fetch = "idle" /\ query[shown].data # None /\ query[shown].data.rows \in Recent

SeamInv == status = "open" /\ ~effects /\ ~raced => Renewed

\* Trades that are published or stored later take no rows away.
LEMMA RecentStays ==
  ASSUME PageTypes, Grows, UNCHANGED <<opened, shown>>, stored' \in Nat, stored' >= stored
  PROVE  Recent \subseteq Recent'
<1> SUFFICES ASSUME NEW rows \in Recent PROVE rows \in Recent'
  OBVIOUS
<1>1. PICK n \in opened..stored : rows = NewestIn(OfSymbol(shown, n), RestLimit)
  BY DEF Recent
<1>2. n \in 0..Len(published) /\ n \in opened'..stored'
  BY TicksAre
<1>3. OfSymbol(shown, n)' = OfSymbol(shown, n)
  BY <1>2, OfSymbolStays
<1>4. rows = NewestIn(OfSymbol(shown, n), RestLimit)'
  BY <1>1, <1>3 DEF NewestIn
<1> QED BY <1>2, <1>4 DEF Recent

\* A step that leaves the query of the symbol shown alone.
LEMMA SeamWaits ==
  ASSUME PageTypes, SeamInv, Grows, UNCHANGED <<opened, shown, status, effects, raced>>,
         stored' \in Nat, stored' >= stored, query'[shown] = query[shown]
  PROVE  SeamInv'
<1>1. Recent \subseteq Recent'
  BY RecentStays
<1>2. query'[shown'] = query[shown]
  <2>1. shown' = shown
    OBVIOUS
  <2> QED BY <2>1
<1>3. Renewed => Renewed'
  BY <1>1, <1>2 DEF Renewed
<1> QED BY <1>3 DEF SeamInv

LEMMA SeamOfRest ==
  ASSUME PageTypes, SeamInv, NEW s \in Symbols, ReadRest(s) \/ RestFails(s) \/ Arrive(s)
  PROVE  SeamInv'
<1>1. /\ UNCHANGED <<published, stored, opened, shown, status, effects, raced>>
      /\ stored \in Nat /\ opened \in Nat /\ opened <= stored /\ shown \in Symbols
  BY TicksAre DEF ReadRest, RestFails, Arrive, server, view, PageTypes
<1>2. Recent' = Recent
  BY <1>1 DEF Recent, OfSymbol, NewestIn
<1>3. CASE s = shown
  <2> SUFFICES ASSUME SeamInv, status = "open" /\ ~effects /\ ~raced PROVE Renewed'
    BY <1>1 DEF SeamInv
  <2>1. Renewed
    BY DEF SeamInv
  <2>2. ASSUME NEW q \in Queries, query' = [query EXCEPT ![s] = q]
        PROVE  query'[shown'] = q
    BY <1>1, <1>3, <2>2 DEF PageTypes
  <2>3. CASE ReadRest(s)
    <3>1. PICK q \in Queries :
            /\ query' = [query EXCEPT ![s] = q]
            /\ q.data = query[s].data
            /\ \/ /\ q.fetch = "read"
                  /\ q.answer = [rows |-> NewestIn(OfSymbol(s, stored), RestLimit), points |-> MinutesOf(s)]
               \/ q.fetch = "idle" /\ q.failed
      BY <2>3, ReadIs
    <3>2. query'[shown'] = q
      BY <2>2, <3>1
    <3>3. NewestIn(OfSymbol(s, stored), RestLimit) \in Recent
      <4>1. stored \in opened..stored
        BY <1>1
      <4> QED BY <1>3, <4>1 DEF Recent
    <3>4. (q.fetch = "read" /\ q.answer.rows \in Recent) \/ (q.fetch = "idle" /\ q.failed)
      BY <3>1, <3>3
    <3> QED BY <1>2, <3>2, <3>4 DEF Renewed
  <2>4. CASE RestFails(s)
    <3>1. PICK q \in Queries :
            /\ query' = [query EXCEPT ![s] = q]
            /\ q.data = query[s].data /\ q.fetch = "idle" /\ q.failed
      BY <2>4, FailsIs
    <3>2. query'[shown'] = q
      BY <2>2, <3>1
    <3> QED BY <3>1, <3>2 DEF Renewed
  <2>5. CASE Arrive(s)
    <3>1. PICK q \in Queries :
            /\ query' = [query EXCEPT ![s] = q]
            /\ q.data = query[s].answer /\ q.fetch = "idle" /\ ~q.failed
      BY <2>5, ArriveIs
    <3>2. query'[shown'] = q
      BY <2>2, <3>1
    <3>3. query[shown].fetch = "read" /\ query[shown].answer.rows \in Recent
      BY <1>3, <2>1, <2>5 DEF Arrive, Renewed
    <3>4. query[shown].answer # None
      BY <1>1, <3>3 DEF PageTypes
    <3> QED BY <1>2, <1>3, <3>1, <3>2, <3>3, <3>4 DEF Renewed
  <2> QED BY <2>3, <2>4, <2>5
<1>4. CASE s # shown
  <2>1. query \in [Symbols -> Queries]
    BY DEF PageTypes
  <2>2. \E q : query' = [query EXCEPT ![s] = q]
    BY DEF ReadRest, RestFails, Arrive
  <2>3. query'[shown'] = query[shown]
    BY <1>1, <1>4, <2>1, <2>2
  <2> QED BY <1>1, <1>2, <2>3 DEF SeamInv, Renewed
<1> QED BY <1>3, <1>4

\* The open event asks anew for the symbol shown, unless its first answer is
\* under way.
LEMMA SeamOfOpen ==
  ASSUME PageTypes, OnOpen
  PROVE  SeamInv'
<1>1. /\ query' = [s \in Symbols |-> Invalidated(s, query[s])]
      /\ UNCHANGED <<shown, effects>> /\ shown \in Symbols
      /\ raced' = (query[shown].fetch = "read" /\ query[shown].data = None)
  BY DEF OnOpen, view, PageTypes
<1>2. query'[shown'] = Invalidated(shown, query[shown])
  BY <1>1
<1>3. ASSUME ~effects, ~raced'
      PROVE  Invalidated(shown, query[shown]).fetch = "asked"
  BY <1>1, <1>3, InvalidatedIs
<1> QED BY <1>1, <1>2, <1>3 DEF SeamInv, Renewed

LEMMA SeamKept ==
  ASSUME PageTypes, SeamInv, PageNext \/ UNCHANGED page
  PROVE  SeamInv'
<1>0. Grows /\ stored \in Nat
  BY Grown, TicksAre
<1>1. CASE UNCHANGED <<opened, shown, status, effects, raced, query, stored>>
  BY <1>0, <1>1, SeamWaits
<1>2. CASE Store
  <2>1. UNCHANGED <<opened, shown, status, effects, raced, query>> /\ stored' = stored + 1
    BY <1>2 DEF Store, view
  <2> QED BY <1>0, <2>1, SeamWaits
<1>3. CASE Choose
  BY <1>3 DEF Choose, SeamInv
<1>4. CASE RunEffects \/ OnReconnecting \/ OnFatal
  <2>1. status' # "open"
    BY <1>4 DEF RunEffects, OnReconnecting, OnFatal
  <2> QED BY <2>1 DEF SeamInv
<1>5. AppendTrade \/ HubReads \/ Switch \/ Accept \/ Register \/ Lose \/ Refuse
        => UNCHANGED <<opened, shown, status, effects, raced, query, stored>>
  BY DEF AppendTrade, HubReads, Switch, Accept, Register, Lose, Refuse, server, view
<1>6. Disposed \/ OnTrade \/ UNCHANGED page
        => UNCHANGED <<opened, shown, status, effects, raced, query, stored>>
  BY DEF Disposed, OnTrade, page, server, view
<1>7. ASSUME NEW s \in Symbols, ReadRest(s) \/ RestFails(s) \/ Arrive(s)
      PROVE  SeamInv'
  BY <1>7, SeamOfRest
<1> QED BY <1>1, <1>2, <1>3, <1>4, <1>5, <1>6, <1>7, SeamOfOpen DEF PageNext

LEMMA SeamIsWhole ==
  ASSUME PageTypes, SeamInv
  PROVE  NothingStoredMissing
<1> SUFFICES ASSUME Settled, ~raced, ~query[shown].failed,
                    NEW i \in OfSymbol(shown, opened) \ query[shown].data.rows
             PROVE  Cardinality({j \in query[shown].data.rows : j > i}) = RestLimit
  BY DEF NothingStoredMissing
<1>1. query[shown].data.rows \in Recent
  BY DEF SeamInv, Settled, Renewed
<1>2. PICK n \in opened..stored : query[shown].data.rows = NewestIn(OfSymbol(shown, n), RestLimit)
  BY <1>1 DEF Recent
<1>3. n \in Nat /\ opened <= n /\ opened \in Nat
  BY TicksAre
<1>4. i \in OfSymbol(shown, n)
  BY <1>3 DEF OfSymbol
<1>5. OfSymbol(shown, n) \in SUBSET Int /\ IsFiniteSet(OfSymbol(shown, n))
  BY <1>3, OfSymbolIs
<1>6. RestLimit \in Nat
  BY SettingsHold DEF Settings
<1> QED BY <1>2, <1>4, <1>5, <1>6, OutOfNewest

(* What was stored when the stream opened is in the REST rows once the page *)
(* has come to rest, but for what RestLimit newer rows have pushed out,     *)
(* however often the stream was lost, the symbol changed or a query failed  *)
(* before (useTradeStream.ts:104-109).                                      *)
THEOREM SeamHolds == PageSpec => []NothingStoredMissing
<1>1. PageInit => PageTypes /\ SeamInv
  <2>1. PageInit => SeamInv
    BY DEF PageInit, SeamInv
  <2> QED BY <2>1, TypesBegin
<1>2. PageTypes /\ SeamInv /\ [PageNext]_page => (PageTypes /\ SeamInv)'
  BY TypesKept, SeamKept
<1>3. PageTypes /\ SeamInv => NothingStoredMissing
  BY SeamIsWhole
<1> QED BY <1>1, <1>2, <1>3, PTL DEF PageSpec
=============================================================================
