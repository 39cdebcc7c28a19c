----------------------------- MODULE StreamHub -----------------------------
(***************************************************************************)
(* The live feed of one process of the API: `subscribe` gives every SSE    *)
(* session its own generator, and all sessions of one Redis Stream share a *)
(* `_Hub`, which reads the stream from its tail, keeps what some session   *)
(* wants, and hands the selection of each window to the sessions.          *)
(*                                                                         *)
(* All of it runs on one event loop: an action is what happens between two *)
(* awaits. An entry of the stream is named by its position.                *)
(***************************************************************************)
EXTENDS Integers, Sequences, FiniteSets

CONSTANTS
    Clients,        \* the browsers; each holds at most one session
    Groups,         \* the tickers
    Malformed,      \* the group of an entry that does not decode
    TopN,           \* MARKET_DATA_SSE_TOP_N
    ReadCount,      \* MARKET_DATA_SSE_READ_COUNT
    MaxTickers,     \* MARKET_DATA_SSE_MAX_TICKERS
    MaxEntries,     \* bound: entries ever added to the stream
    MaxFaults       \* bound: failures of the hub's Redis calls

\* validate_sse_settings; the order it demands of the window, the heartbeat and
\* the trim gap is about times, which are not told apart here.
ValidSseSettings == TopN > 0 /\ ReadCount > 0 /\ MaxTickers > 0

ASSUME SettingsAssumption == {TopN, ReadCount, MaxTickers} \subseteq Nat /\ ValidSseSettings

ASSUME HubBoundsAssumption ==
    /\ IsFiniteSet(Clients) /\ Malformed \notin Groups
    /\ MaxEntries \in Nat /\ MaxFaults \in Nat

VARIABLES
    stream,    \* the group of every entry ever added
    hub,       \* the hub in _hubs: none, run, backoff, or stopped by an error
    cursor,    \* last_id, NoCursor before the tail is known
    active,    \* _active_groups
    buffer,    \* _buffer: the entries collected in this window
    phase,     \* each client: idle, waiting in wait(), or sending to the browser
    wanted,    \* _Subscriber.wanted
    pending,   \* _Subscriber._pending, {} for None
    event,     \* _Subscriber._event
    closed,    \* _Subscriber.closed
    seen,      \* history: the newest entry the session was handed
    faults     \* failures left

reader   == <<hub, cursor, active, buffer>>
sessions == <<phase, wanted, pending, event, closed, seen>>
vars     == <<stream, reader, sessions, faults>>

NoCursor == -1

Registered == {c \in Clients : phase[c] # "idle"}

Init ==
    /\ stream = <<>>
    /\ hub = "none" /\ cursor = NoCursor /\ buffer = {}
    /\ active = [g \in Groups |-> 0]
    /\ phase = [c \in Clients |-> "idle"]
    /\ wanted = [c \in Clients |-> {}] /\ pending = [c \in Clients |-> {}]
    /\ event = [c \in Clients |-> FALSE] /\ closed = [c \in Clients |-> FALSE]
    /\ seen = [c \in Clients |-> 0]
    /\ faults = MaxFaults

\* The producer of the stream.
Publish(group) ==
    /\ Len(stream) < MaxEntries
    /\ stream' = Append(stream, group)
    /\ UNCHANGED <<reader, sessions, faults>>

-----------------------------------------------------------------------------
(* Sessions.                                                               *)

\* parse_tickers: what a request may ask for; {} is no filter.
Filters == {f \in SUBSET Groups : Cardinality(f) <= MaxTickers}

\* resolve_stream_targets: the tickers asked for among those whose trades are
\* streamed at the moment.
Targets(filter, streamed) == IF filter = {} THEN streamed ELSE filter \intersect streamed

\* add_subscriber
Joined(groups) == [g \in Groups |-> active[g] + (IF g \in groups THEN 1 ELSE 0)]

\* register_subscriber: the session joins the hub in the registry, whatever
\* state that hub is in, or starts a new one.
Connect(c, groups) ==
    /\ phase[c] = "idle"
    /\ hub' = IF hub = "none" THEN "run" ELSE hub
    /\ active' = Joined(groups)
    /\ phase' = [phase EXCEPT ![c] = "waiting"]
    /\ wanted' = [wanted EXCEPT ![c] = groups]
    /\ UNCHANGED <<stream, cursor, buffer, pending, event, closed, seen, faults>>

\* The request: 404 when nothing is left to stream. The warning about tickers
\* not found goes out before the session joins.
Request(c, filter, streamed) ==
    /\ Targets(filter, streamed) # {}
    /\ Connect(c, Targets(filter, streamed))

\* remove_subscriber
Released(groups) ==
    [g \in Groups |-> active[g] - (IF g \in groups /\ active[g] > 0 THEN 1 ELSE 0)]

\* unregister_subscriber: the subscriber is dropped, and the hub leaves the
\* registry with its last one.
Unregister(c) ==
    /\ active' = Released(wanted[c])
    /\ IF Registered = {c}
       THEN hub' = "none" /\ cursor' = NoCursor /\ buffer' = {}
       ELSE UNCHANGED <<hub, cursor, buffer>>
    /\ phase' = [phase EXCEPT ![c] = "idle"]
    /\ wanted' = [wanted EXCEPT ![c] = {}] /\ pending' = [pending EXCEPT ![c] = {}]
    /\ event' = [event EXCEPT ![c] = FALSE] /\ closed' = [closed EXCEPT ![c] = FALSE]
    /\ seen' = [seen EXCEPT ![c] = 0]
    /\ UNCHANGED <<stream, faults>>

NewestOf(entries) == CHOOSE i \in entries : \A j \in entries : j <= i

\* wait() returns: the session takes its batch, or ends with a stopped hub.
Wake(c) ==
    /\ phase[c] = "waiting" /\ event[c]
    /\ \/ /\ closed[c]
          /\ Unregister(c)
       \/ /\ ~ closed[c]
          /\ phase' = [phase EXCEPT ![c] = "sending"]
          /\ event' = [event EXCEPT ![c] = FALSE]
          /\ pending' = [pending EXCEPT ![c] = {}]
          /\ seen' = [seen EXCEPT ![c] = NewestOf(pending[c])]
          /\ UNCHANGED <<stream, reader, wanted, closed, faults>>

\* The heartbeat timer ends wait(), even when the event was set meanwhile:
\* the batch stays where it is.
Timeout(c) ==
    /\ phase[c] = "waiting"
    /\ \/ /\ closed[c]
          /\ Unregister(c)
       \/ /\ ~ closed[c]
          /\ phase' = [phase EXCEPT ![c] = "sending"]
          /\ UNCHANGED <<stream, reader, wanted, pending, event, closed, seen, faults>>

\* sse_events: the browser took every event of the batch, or the heartbeat.
Sent(c) ==
    /\ phase[c] = "sending"
    /\ phase' = [phase EXCEPT ![c] = "waiting"]
    /\ UNCHANGED <<stream, reader, wanted, pending, event, closed, seen, faults>>

\* The browser goes away: the generator is closed wherever it is suspended.
Disconnect(c) ==
    /\ phase[c] # "idle"
    /\ Unregister(c)

-----------------------------------------------------------------------------
(* The hub: _Hub._run.                                                     *)

\* _current_tail_id
ReadTail ==
    /\ hub = "run" /\ cursor = NoCursor
    /\ cursor' = Len(stream)
    /\ UNCHANGED <<stream, hub, active, buffer, sessions, faults>>

\* deserialize_moex_trade, deserialize_trade_event
Decodes(i) == stream[i] # Malformed

\* _collect keeps the entries of the groups some session wants.
Collected(got) == {i \in got : Decodes(i) /\ active[stream[i]] > 0}

\* The rule `latest` on each group of the window.
Selected(entries) ==
    {i \in entries :
        Cardinality({j \in entries : stream[j] = stream[i] /\ i < j}) < TopN}

Relevant(c, entries) == {i \in Selected(entries) : stream[i] \in wanted[c]}

\* Mutant of AfterFlush: the window is not cleared.
KeepsWindow(entries) == entries

AfterFlush(entries) == {}

\* Mutant of Notified: only the sessions that sleep are notified, as a condition
\* variable would do.
NotifiesSleepers(cs) == {c \in cs : phase[c] = "waiting"}

\* The sessions whose event is set.
Notified(cs) == cs

\* _flush_window and deliver: a session's unread batch is replaced, not queued.
FlushWindow(entries) ==
    LET reached == {c \in Registered : Relevant(c, entries) # {}} IN
    /\ pending' = [c \in Clients |-> IF c \in reached THEN Relevant(c, entries) ELSE pending[c]]
    /\ event' = [c \in Clients |-> event[c] \/ c \in Notified(reached)]
    /\ buffer' = AfterFlush(entries)

\* One XREAD and what follows it; the window may have ended meanwhile.
Read(windowEnds) ==
    /\ hub = "run" /\ cursor # NoCursor
    /\ LET last == IF cursor + ReadCount < Len(stream) THEN cursor + ReadCount ELSE Len(stream)
           entries == buffer \union Collected((cursor + 1)..last)
       IN  /\ cursor' = last
           /\ IF windowEnds
              THEN FlushWindow(entries)
              ELSE buffer' = entries /\ UNCHANGED <<pending, event>>
    /\ UNCHANGED <<stream, hub, active, phase, wanted, closed, seen, faults>>

\* Mutant of CursorKept: the tail is looked up again on every connection.
LosesCursor == NoCursor

CursorKept == cursor

\* REDIS_TRANSIENT_ERRORS: sleep_after_failure, then a new client. The cursor
\* and the window survive.
Fail ==
    /\ hub = "run" /\ faults > 0
    /\ hub' = "backoff"
    /\ cursor' = CursorKept
    /\ faults' = faults - 1
    /\ UNCHANGED <<stream, active, buffer, sessions>>

Retry ==
    /\ hub = "backoff"
    /\ hub' = "run"
    /\ UNCHANGED <<stream, cursor, active, buffer, sessions, faults>>

\* Any other exception ends the task and closes the sessions of the moment;
\* the hub stays in the registry until the last of them is gone.
Stop ==
    /\ hub = "run" /\ faults > 0
    /\ hub' = "stopped"
    /\ closed' = [c \in Clients |-> closed[c] \/ c \in Registered]
    /\ event' = [c \in Clients |-> event[c] \/ c \in Notified(Registered)]
    /\ faults' = faults - 1
    /\ UNCHANGED <<stream, cursor, active, buffer, phase, wanted, pending, seen>>

HubStep == ReadTail \/ Read(TRUE) \/ Retry

Next ==
    \/ \E g \in Groups \union {Malformed} : Publish(g)
    \/ \E c \in Clients, filter \in Filters, streamed \in SUBSET Groups :
           Request(c, filter, streamed)
    \/ \E c \in Clients : Wake(c) \/ Timeout(c) \/ Sent(c) \/ Disconnect(c)
    \/ \E windowEnds \in BOOLEAN : Read(windowEnds)
    \/ ReadTail \/ Fail \/ Retry \/ Stop

Spec == Init /\ [][Next]_vars

\* The event loop runs the hub whenever its await is over, and windows end. A
\* browser that stays takes what it is sent. A timer can beat a wake-up only
\* when both fall due together, and never twice in a row, because wait() with
\* its event set returns at once: hence strong fairness.
FairSpec ==
    /\ Spec
    /\ WF_vars(HubStep)
    /\ \A c \in Clients : SF_vars(Wake(c)) /\ WF_vars(Sent(c))

-----------------------------------------------------------------------------
(* What the feed promises.                                                 *)

\* Every variable keeps its range, and a hub is in the registry exactly while
\* it has sessions, with the groups they want counted once each: a group that
\* lost its count would fall silent for those who still want it.
TypeOK ==
    /\ stream \in Seq(Groups \union {Malformed})
    /\ hub \in {"none", "run", "backoff", "stopped"}
    /\ cursor \in {NoCursor} \union 0..Len(stream)
    /\ buffer \subseteq 1..Len(stream)
    /\ phase \in [Clients -> {"idle", "waiting", "sending"}]
    /\ wanted \in [Clients -> SUBSET Groups]
    /\ pending \in [Clients -> SUBSET (1..Len(stream))]
    /\ event \in [Clients -> BOOLEAN] /\ closed \in [Clients -> BOOLEAN]
    /\ seen \in [Clients -> 0..Len(stream)]
    /\ faults \in 0..MaxFaults
    /\ hub = "none" <=> Registered = {}
    /\ active = [g \in Groups |-> Cardinality({c \in Registered : g \in wanted[c]})]

\* A session never gets a trade twice nor out of order, across windows, slow
\* reads, replaced batches and reconnections of the hub: what is on its way
\* to the session is newer than all it was handed before.
InOrderOnce ==
    \A c \in Registered :
        /\ \A i \in pending[c] \union buffer : stream[i] \in wanted[c] => seen[c] < i
        /\ \A i \in pending[c], j \in buffer : i < j

\* A wake-up is never lost: a session with a batch, or of a hub that closed
\* it, has its event set, so wait() cannot sleep through either.
NoLostWakeup ==
    \A c \in Registered : pending[c] # {} \/ (closed[c] /\ phase[c] = "waiting") => event[c]

Live == hub \in {"run", "backoff"}

\* The hub has not read this entry yet and the session wants it.
Ahead(c, i) ==
    /\ Live /\ cursor # NoCursor /\ cursor < i /\ i <= Len(stream)
    /\ phase[c] # "idle" /\ stream[i] \in wanted[c]

\* The feed keeps up: while the hub runs, a session that keeps reading gets
\* every trade it wants or a newer one, whatever the hub's Redis connection
\* went through and whoever else came and left.
EventuallyFresh ==
    \A c \in Clients, i \in 1..MaxEntries :
        Ahead(c, i) ~> (phase[c] = "idle" \/ ~ Live \/ seen[c] >= i)

\* What docs/05 says of an error that is not transient: the hub closes its
\* sessions and the browsers reconnect by themselves, so the stopped hub is
\* not what they are left with.
StoppedHubIsReplaced == hub = "stopped" ~> hub # "stopped"
=============================================================================
