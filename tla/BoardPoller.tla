---------------------------- MODULE BoardPoller ----------------------------
(***************************************************************************)
(* The poller of the MOEX board, in time. Beat starts a run at every tick. *)
(* A run takes the Redis lock for `Ttl`, then asks the ISS for the board   *)
(* with the retries of RetryingHttpClient, all of them within `Budget`,    *)
(* and writes the rows outside the budget. The retries, the deadline of an *)
(* attempt, the deadline of the run and the expiry of the lock are four    *)
(* clocks that were chosen apart; here they run together. Times are        *)
(* countdowns, so no instant is the last one.                              *)
(***************************************************************************)
EXTENDS Integers, FiniteSets

CONSTANTS
    Runs,            \* Celery processes that execute the task
    Assets,          \* the securities of the board
    Tick,            \* the schedule's interval
    Ttl,             \* MOEX_BOARD_POLL_LOCK_TTL_SECONDS
    Budget,          \* MOEX_BOARD_POLL_BUDGET_SECONDS
    Latency,         \* the longest way from Redis setting the key to the run's deadline
    AttemptDeadline, \* ATTEMPT_DEADLINE_SECONDS
    MaxAttempts,     \* MAX_ATTEMPTS
    FirstPause, MaxPause, \* INITIAL_BACKOFF_SECONDS, MAX_BACKOFF_SECONDS
    Jitter,          \* BACKOFF_JITTER, in percent
    Reasons,         \* what a failed attempt is described by
    Free,            \* the lock's key does not exist
    Orphan,          \* a token no living run holds
    MaxClock,        \* bound: the latest time of the board's data
    MaxFaults,       \* bound: failures of any kind
    MaxEdits         \* bound: times an asset is switched

\* validate_poll_budget: what is in the lock but not in the budget has a margin,
\* and the way to the deadline must fit in it.
BudgetFitsLock == Budget > 0 /\ Latency >= 0 /\ Budget + Latency < Ttl

\* What an attempt may take and how the pauses between attempts grow.
RetryPolicy ==
    /\ MaxAttempts \in Nat \ {0} /\ AttemptDeadline \in Nat \ {0}
    /\ FirstPause \in Nat /\ MaxPause \in Nat /\ Jitter \in 0..100

\* _last_failure_reason while no attempt of the request has failed. Every
\* failure is described by a text: the error's type and message, the deadline
\* or the status.
NoReason == "none"

ASSUME BoardAssumption ==
    /\ Budget \in Nat /\ Latency \in Nat /\ Ttl \in Nat /\ BudgetFitsLock
    /\ Tick \in Nat \ {0} /\ RetryPolicy /\ NoReason \notin Reasons
    /\ Free \notin Runs /\ Orphan \notin Runs /\ Free # Orphan

VARIABLES
    tick,       \* time to the next tick
    queued,     \* a task message no worker has taken yet
    owner, ttl, \* BOARD_LOCK_KEY and its remaining time
    pc,         \* where a run is
    left,       \* time to a run's deadline
    wait,       \* time to the end of what a run awaits
    attempt,    \* the attempt of the request
    reason,     \* _last_failure_reason
    rows,       \* the answer: the data's time and the securities that trade
    report,     \* how the request has ended
    clock,      \* the time of the data the ISS shows
    open,       \* the securities with an active TRADINGSTATUS
    active,     \* the assets with is_active
    saved,      \* StockPriceSnapshot: the times stored of an asset
    faults, edits

market == <<clock, open>>
lock   == <<owner, ttl>>
timers == <<tick, ttl, left, wait>>
answer == <<rows, report>>
http   == <<attempt, reason>>
bounds == <<faults, edits>>
vars   == <<tick, queued, lock, pc, left, wait, http, answer, market, active, saved, bounds>>

Phases == {"idle", "locked", "attempt", "pause", "write", "release"}
Requesting(r) == pc[r] \in {"attempt", "pause"}
NoRows   == [time |-> 0, open |-> {}]
NoSnapshots == [a \in Assets |-> {}]
NoReport == [kind |-> "none", reason |-> NoReason, failed |-> 0]

Init ==
    /\ tick = Tick /\ queued = FALSE
    /\ owner = Free /\ ttl = 0
    /\ pc = [r \in Runs |-> "idle"]
    /\ left = [r \in Runs |-> 0] /\ wait = [r \in Runs |-> 0]
    /\ attempt = [r \in Runs |-> 0] /\ reason = [r \in Runs |-> NoReason]
    /\ rows = [r \in Runs |-> NoRows] /\ report = [r \in Runs |-> NoReport]
    /\ clock = 0 /\ open = Assets
    /\ active = Assets
    /\ saved = NoSnapshots
    /\ faults = 0 /\ edits = 0

Fault == faults < MaxFaults /\ faults' = faults + 1 /\ UNCHANGED edits

Become(r, phase, time) ==
    /\ pc' = [pc EXCEPT ![r] = phase]
    /\ wait' = [wait EXCEPT ![r] = time]

\* The task is over and its memory is gone.
Ends(r) ==
    /\ Become(r, "idle", 0)
    /\ left' = [left EXCEPT ![r] = 0]
    /\ attempt' = [attempt EXCEPT ![r] = 0] /\ reason' = [reason EXCEPT ![r] = NoReason]
    /\ rows' = [rows EXCEPT ![r] = NoRows] /\ report' = [report EXCEPT ![r] = NoReport]

Less(t) == IF t = 0 THEN 0 ELSE t - 1

\* EX: the key is deleted when its time is over.
NoExpiry  == ttl                          \* MUTANT: SET NX without EX
Remaining == Less(ttl)

\* Time passes for everyone. A coroutine that awaits is resumed when its timer
\* ends, so it does not pass for a request whose attempt, pause or budget is
\* over. The database may take any time to write.
Elapse ==
    /\ \A r \in Runs :
           /\ Requesting(r) => wait[r] > 0 /\ left[r] > 0
           /\ pc[r] = "locked" => wait[r] > 0
    /\ tick' = IF tick = 1 THEN Tick ELSE tick - 1
    /\ queued' = (queued \/ tick = 1)
    /\ ttl' = Remaining
    /\ owner' = IF Remaining = 0 THEN Free ELSE owner
    /\ left' = [r \in Runs |-> Less(left[r])]
    /\ wait' = [r \in Runs |-> Less(wait[r])]
    /\ UNCHANGED <<pc, http, answer, market, active, saved, bounds>>

\* The board moves on, securities start and stop trading, an operator switches
\* an asset.
DataMoves ==
    /\ clock < MaxClock
    /\ clock' = clock + 1
    /\ open' \in SUBSET Assets
    /\ UNCHANGED <<tick, queued, lock, pc, left, wait, http, answer, active, saved, bounds>>

Switch(a) ==
    /\ edits < MaxEdits
    /\ edits' = edits + 1
    /\ active' = (active \ {a}) \union ({a} \ active)
    /\ UNCHANGED <<tick, queued, lock, pc, left, wait, http, answer, market, saved, faults>>

-----------------------------------------------------------------------------
(* run(): without active assets there is nothing to do; a busy lock ends    *)
(* the run; the lock is taken by SET NX EX.                                 *)
Take(r) == pc[r] = "idle" /\ queued /\ queued' = FALSE

SkipTick(r) ==
    /\ Take(r) /\ (active = {} \/ owner # Free)
    /\ UNCHANGED <<tick, lock, pc, left, wait, http, answer, market, active, saved, bounds>>

JustTheBudget(r) == Budget                \* MUTANT: no margin over the budget
LockTime(r) == Ttl

Acquire(r) ==
    /\ Take(r) /\ active # {} /\ owner = Free
    /\ owner' = r /\ ttl' = LockTime(r)
    /\ Become(r, "locked", Latency)
    /\ UNCHANGED <<tick, left, http, answer, market, active, saved, bounds>>

\* Redis executes SET and the answer is lost.
AcquireFails(r) ==
    /\ Take(r) /\ active # {} /\ owner = Free /\ Fault
    /\ owner' = Orphan /\ ttl' = LockTime(r)
    /\ UNCHANGED <<tick, pc, left, wait, http, answer, market, active, saved>>

-----------------------------------------------------------------------------
(* _poll(): the deadline of the run, and the request under it.              *)
Reading(r) == UNCHANGED <<tick, queued, lock, market, active, saved>>

\* _request(): one attempt, under its own deadline.
Attempt(r) == Become(r, "attempt", AttemptDeadline)

\* get() begins: the first attempt, and no failure yet.
Request(r) ==
    /\ pc[r] = "locked"
    /\ left' = [left EXCEPT ![r] = Budget]
    /\ attempt' = [attempt EXCEPT ![r] = 1] /\ reason' = [reason EXCEPT ![r] = NoReason]
    /\ Attempt(r)
    /\ Reading(r) /\ UNCHANGED <<answer, bounds>>

\* The failures of the request so far.
Failed(r) == attempt[r] - (IF pc[r] = "attempt" THEN 1 ELSE 0)

\* The request ends without rows: an exception, and the client is closed.
Raise(r, kind, why, failed) ==
    /\ report' = [report EXCEPT ![r] = [kind |-> kind, reason |-> why, failed |-> failed]]
    /\ Become(r, "release", 0)
    /\ UNCHANGED <<left, rows>>

\* _board_row_from_columns
BoardRows(shown) == [time |-> clock, open |-> shown]

\* The answer has no rows, or none that trades, or some that do.
Answered(r, shown) ==
    /\ pc[r] = "attempt"
    /\ rows' = [rows EXCEPT ![r] = BoardRows(shown)]
    /\ Become(r, IF shown = {} THEN "release" ELSE "write", 0)
    /\ report' = [report EXCEPT ![r].kind = "answered"]
    /\ Reading(r) /\ UNCHANGED <<left, http, bounds>>

\* _last_failure_reason is set before the pause.
ReasonAtTheEnd(r, why) ==                 \* MUTANT: set when all attempts have failed
    IF attempt[r] = MaxAttempts THEN why ELSE reason[r]
Described(r, why) == why

\* backoff_delay with a multiplier of 2, in whole units of time.
Pause(n) ==
    LET grown == FirstPause * 2^(n - 1)
        base  == IF grown < MaxPause THEN grown ELSE MaxPause
    IN  (base * (100 - Jitter)) \div 100 .. (base * (100 + Jitter) + 99) \div 100

LastAttempt(r) == attempt[r] >= MaxAttempts

\* A transport error, the attempt's own deadline or a retryable status; the
\* last one is raised as ProviderConnectionError with the latest reason.
AttemptFails(r, why) ==
    /\ pc[r] = "attempt" /\ Fault
    /\ reason' = [reason EXCEPT ![r] = Described(r, why)]
    /\ IF LastAttempt(r) THEN Raise(r, "unreachable", why, attempt[r])
       ELSE /\ \E time \in Pause(attempt[r]) : Become(r, "pause", time)
            /\ UNCHANGED <<left, answer>>
    /\ Reading(r) /\ UNCHANGED attempt

\* asyncio.sleep is over.
Resume(r) ==
    /\ pc[r] = "pause" /\ wait[r] = 0
    /\ attempt' = [attempt EXCEPT ![r] = @ + 1]
    /\ Attempt(r)
    /\ Reading(r) /\ UNCHANGED <<left, reason, answer, bounds>>

\* A certificate, a proxy or a protocol that no retry helps.
Refused(r) ==
    /\ pc[r] = "attempt" /\ Fault
    /\ Raise(r, "refused", reason[r], attempt[r])
    /\ Reading(r) /\ UNCHANGED http

\* An answer with an error status that is not retried: ProviderResponseError;
\* or one that is not the JSON of a board.
Rejected(r) ==
    /\ pc[r] = "attempt" /\ Fault
    /\ Raise(r, "rejected", reason[r], attempt[r])
    /\ Reading(r) /\ UNCHANGED http

\* The deadline of the run cancels an attempt or a pause.
Overrun(r) ==
    /\ Requesting(r) /\ left[r] = 0
    /\ Raise(r, "budget", reason[r], Failed(r))
    /\ Reading(r) /\ UNCHANGED <<http, bounds>>

-----------------------------------------------------------------------------
(* write_snapshots() and the end of redis_lock.                             *)
Stored(r) ==
    [a \in Assets |-> saved[a] \union (IF a \in active \intersect rows[r].open THEN {rows[r].time} ELSE {})]

Write(r) ==
    /\ pc[r] = "write"
    /\ saved' = Stored(r)
    /\ Become(r, "release", 0)
    /\ UNCHANGED <<tick, queued, lock, left, http, answer, market, active, bounds>>

\* The exception may hide a commit.
WriteFails(r) ==
    /\ pc[r] = "write" /\ Fault
    /\ saved' \in {saved, Stored(r)}
    /\ Become(r, "release", 0)
    /\ UNCHANGED <<tick, queued, lock, left, http, answer, market, active>>

\* DEL if the token is still the run's own.
Delete(r)  == owner' = Free /\ ttl' = 0
Unlock(r)  == IF owner = r THEN Delete(r) ELSE UNCHANGED lock

Release(r) ==
    /\ pc[r] = "release"
    /\ Unlock(r)
    /\ Ends(r)
    /\ UNCHANGED <<tick, queued, market, active, saved, bounds>>

\* The worker dies or cannot reach Redis: its token is nobody's.
Crash(r) ==
    /\ pc[r] # "idle" /\ Fault
    /\ owner' = IF owner = r THEN Orphan ELSE owner
    /\ Ends(r)
    /\ UNCHANGED <<tick, queued, ttl, market, active, saved>>

Works(r) ==
    \/ SkipTick(r) \/ Acquire(r) \/ Request(r) \/ Resume(r) \/ Overrun(r)
    \/ \E shown \in {{}, open} : Answered(r, shown)
    \/ Write(r) \/ Release(r)

Troubles(r) ==
    \/ AcquireFails(r) \/ Refused(r) \/ Rejected(r) \/ WriteFails(r) \/ Crash(r)
    \/ \E why \in Reasons : AttemptFails(r, why)

Next ==
    \/ Elapse \/ DataMoves
    \/ \E a \in Assets : Switch(a)
    \/ \E r \in Runs : Works(r) \/ Troubles(r)

Spec == Init /\ [][Next]_vars

\* Time passes, workers execute what is theirs to do, and the ISS does not
\* answer with an empty board for ever.
Fairness ==
    /\ WF_vars(Elapse)
    /\ \A r \in Runs : WF_vars(Works(r)) /\ SF_vars(open # {} /\ Answered(r, open))

FairSpec == Spec /\ Fairness

-----------------------------------------------------------------------------
TypeOK ==
    /\ tick \in 1..Tick /\ queued \in BOOLEAN
    /\ owner \in Runs \union {Free, Orphan} /\ ttl \in 0..Ttl
    /\ (owner = Free) <=> (ttl = 0)
    /\ pc \in [Runs -> Phases]
    /\ left \in [Runs -> 0..Budget]
    /\ attempt \in [Runs -> 0..MaxAttempts]
    /\ reason \in [Runs -> Reasons \union {NoReason}]
    /\ report \in [Runs -> [kind : {"none", "answered", "unreachable", "refused", "rejected", "budget"},
                            reason : Reasons \union {NoReason}, failed : 0..MaxAttempts]]
    /\ rows \in [Runs -> [time : 0..MaxClock, open : SUBSET Assets]]
    /\ clock \in 0..MaxClock /\ open \in SUBSET Assets /\ active \in SUBSET Assets
    /\ saved \in [Assets -> SUBSET (0..MaxClock)]

\* However the attempts, the pauses and the writes of earlier runs take their
\* time, two runs are never both at the ISS: the budget ends inside the lock,
\* and a run that outlived its lock does not release another's.
OneReader == \A r, s \in Runs : Requesting(r) /\ Requesting(s) => r = s

\* What the failure of a tick says is true: "unreachable" means that every
\* attempt was made and failed, and a run cut off by its budget names a reason
\* exactly when an attempt of it had failed, be it cut off in a pause.
ReportIsTrue ==
    \A r \in Runs :
        LET said == report[r] IN
        /\ said.kind = "unreachable" => said.failed = MaxAttempts /\ said.reason \in Reasons
        /\ said.kind = "budget" => (said.reason = NoReason <=> said.failed = 0)

\* A security that stays tracked and trading gets the latest row of the board:
\* neither a dead owner of the lock, nor retries, nor slow writes stop the
\* ticks for good.
EventuallyFresh ==
    \A a \in Assets, now \in 0..MaxClock :
        <>[](clock = now /\ a \in active \intersect open) => <>(now \in saved[a])
=============================================================================
