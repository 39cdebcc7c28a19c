------------------------- MODULE BoardPollerProofs -------------------------
(***************************************************************************)
(* Proofs about BoardPoller for every number of runs and assets, every     *)
(* schedule, lock time, budget, retry policy and pause: two runs are never *)
(* both at the ISS, and what a failed run reports is true.                 *)
(***************************************************************************)
EXTENDS BoardPoller, TLAPS

\* The types of what the clocks of the lock and of a run are made of. What a
\* retry waits for may be anything: no pause matters to the lock.
ClockTypes ==
    /\ owner \in Runs \union {Free, Orphan}
    /\ ttl \in Nat
    /\ pc \in [Runs -> Phases]
    /\ left \in [Runs -> Nat]
    /\ DOMAIN wait = Runs

\* A run that asks the ISS owns the lock, for longer than its deadline is away;
\* a run that has just locked owns it for longer than its way to the deadline
\* and the budget together.
Asking(r) == Requesting(r) => owner = r /\ left[r] < ttl
Locking(r) ==
    pc[r] = "locked" => owner = r /\ wait[r] \in Nat /\ Budget + wait[r] < ttl
Covered == \A r \in Runs : Asking(r) /\ Locking(r)

ClockInv == ClockTypes /\ Covered

\* The settings that validate_poll_budget lets through.
LEMMA Settings ==
  /\ Budget \in Nat /\ Latency \in Nat /\ Ttl \in Nat
  /\ Budget > 0 /\ Budget + Latency < Ttl
  /\ Free \notin Runs /\ Orphan \notin Runs /\ Free # Orphan
BY BoardAssumption DEF BudgetFitsLock

\* A move of one run leaves the phases and the waits of the others alone.
LEMMA OthersWait ==
  ASSUME ClockTypes, NEW r \in Runs, NEW phase \in Phases, NEW time, Become(r, phase, time)
  PROVE  /\ pc' \in [Runs -> Phases] /\ DOMAIN wait' = Runs
         /\ pc'[r] = phase /\ wait'[r] = time
         /\ \A s \in Runs \ {r} : pc'[s] = pc[s] /\ wait'[s] = wait[s]
BY DEF ClockTypes, Become

\* The lock, the deadline and the phase of a run are all that Covered looks at:
\* a move of r that leaves the lock and the other deadlines alone keeps the
\* others covered.
LEMMA OthersCovered ==
  ASSUME ClockInv, NEW r \in Runs, NEW phase \in Phases, NEW time, Become(r, phase, time),
         UNCHANGED lock, \A s \in Runs \ {r} : left'[s] = left[s]
  PROVE  \A s \in Runs \ {r} : (Asking(s) /\ Locking(s))'
<1>1. \A s \in Runs \ {r} : pc'[s] = pc[s] /\ wait'[s] = wait[s]
  BY OthersWait DEF ClockInv
<1>2. owner' = owner /\ ttl' = ttl
  BY DEF lock
<1> QED BY <1>1, <1>2 DEF ClockInv, Covered, Asking, Locking, Requesting

\* A run that leaves the ISS for the rest of its work needs no cover.
LEMMA LeavingIsCovered ==
  ASSUME ClockInv, NEW r \in Runs, NEW phase \in {"idle", "write", "release"}, NEW time,
         Become(r, phase, time), UNCHANGED lock,
         left' \in [Runs -> Nat], \A s \in Runs \ {r} : left'[s] = left[s]
  PROVE  ClockInv'
<1>1. phase \in Phases
  BY DEF Phases
<1>2. ClockTypes'
  BY <1>1, OthersWait DEF ClockInv, ClockTypes, lock
<1>3. (Asking(r) /\ Locking(r))'
  <2>1. pc'[r] = phase
    BY <1>1, OthersWait DEF ClockInv
  <2> QED BY <2>1 DEF Asking, Locking, Requesting
<1>4. \A s \in Runs \ {r} : (Asking(s) /\ Locking(s))'
  BY <1>1, OthersCovered
<1> QED BY <1>2, <1>3, <1>4 DEF ClockInv, Covered

\* An attempt or a pause that follows an attempt keeps the cover of the run.
LEMMA AskingOnIsCovered ==
  ASSUME ClockInv, NEW r \in Runs, Requesting(r), NEW phase \in {"attempt", "pause"}, NEW time,
         Become(r, phase, time), UNCHANGED <<lock, left>>
  PROVE  ClockInv'
<1>1. phase \in Phases
  BY DEF Phases
<1>2. /\ pc' \in [Runs -> Phases] /\ DOMAIN wait' = Runs
      /\ pc'[r] = phase
  BY <1>1, OthersWait DEF ClockInv
<1>3. ClockTypes'
  BY <1>2 DEF ClockInv, ClockTypes, lock
<1>4. (Asking(r) /\ Locking(r))'
  BY <1>2 DEF ClockInv, Covered, Asking, Locking, Requesting, lock
<1>5. \A s \in Runs \ {r} : (Asking(s) /\ Locking(s))'
  BY <1>1, OthersCovered
<1> QED BY <1>3, <1>4, <1>5 DEF ClockInv, Covered
-----------------------------------------------------------------------------
LEMMA InitCovered ==
  Init => ClockInv
BY Settings DEF Init, ClockInv, ClockTypes, Covered, Asking, Locking, Requesting, Phases

\* A key that has expired covers nobody; while a run is covered the key and
\* the deadline come nearer together.
LEMMA ElapseCovered ==
  ASSUME ClockInv, Elapse
  PROVE  ClockInv'
<1>1. /\ ttl' = Less(ttl) /\ owner' = IF Less(ttl) = 0 THEN Free ELSE owner
      /\ left' = [r \in Runs |-> Less(left[r])] /\ wait' = [r \in Runs |-> Less(wait[r])]
      /\ pc' = pc
  BY DEF Elapse, Remaining
<1>2. ttl \in Nat /\ ttl' \in Nat /\ left \in [Runs -> Nat]
  BY <1>1 DEF ClockInv, ClockTypes, Less
<1>3. ClockTypes'
  BY <1>1, <1>2 DEF ClockInv, ClockTypes, Less
<1>4. ASSUME NEW r \in Runs
      PROVE  (Asking(r) /\ Locking(r))'
  <2>1. CASE Requesting(r)
    <3>1. left[r] \in Nat /\ left[r] > 0 /\ left[r] < ttl /\ owner = r
      BY <1>2, <2>1 DEF Elapse, ClockInv, Covered, Asking
    <3>2. owner' = r /\ left'[r] = left[r] - 1 /\ ttl' = ttl - 1
      BY <1>1, <1>2, <3>1 DEF Less
    <3>3. pc'[r] # "locked"
      BY <1>1, <2>1 DEF Requesting
    <3> QED BY <1>2, <3>1, <3>2, <3>3 DEF Asking, Locking
  <2>2. CASE pc[r] = "locked"
    <3>1. wait[r] \in Nat /\ wait[r] > 0 /\ Budget + wait[r] < ttl /\ owner = r
      BY <2>2 DEF Elapse, ClockInv, Covered, Locking
    <3>2. owner' = r /\ wait'[r] = wait[r] - 1 /\ ttl' = ttl - 1
      BY <1>1, <1>2, <3>1, Settings DEF Less
    <3>3. ~Requesting(r)'
      BY <1>1, <2>2 DEF Requesting
    <3> QED BY <1>2, <3>1, <3>2, <3>3, Settings DEF Asking, Locking
  <2>3. CASE ~Requesting(r) /\ pc[r] # "locked"
    BY <1>1, <2>3 DEF Requesting, Asking, Locking
  <2> QED BY <2>1, <2>2, <2>3
<1> QED BY <1>3, <1>4 DEF ClockInv, Covered

\* A free lock covers nobody.
LEMMA FreeCoversNobody ==
  ASSUME ClockInv, owner \notin Runs
  PROVE  \A r \in Runs : ~Requesting(r) /\ pc[r] # "locked"
BY DEF ClockInv, Covered, Asking, Locking

\* The lock is taken for longer than the way to the deadline and the budget.
LEMMA AcquireCovered ==
  ASSUME ClockInv, NEW r \in Runs, Acquire(r)
  PROVE  ClockInv'
<1>1. /\ owner = Free /\ owner' = r /\ ttl' = Ttl /\ left' = left
      /\ Become(r, "locked", Latency)
  BY DEF Acquire, LockTime
<1>2. /\ pc' \in [Runs -> Phases] /\ DOMAIN wait' = Runs
      /\ pc'[r] = "locked" /\ wait'[r] = Latency
      /\ \A s \in Runs \ {r} : pc'[s] = pc[s] /\ wait'[s] = wait[s]
  <2>1. "locked" \in Phases
    BY DEF Phases
  <2> QED BY <1>1, <2>1, OthersWait DEF ClockInv
<1>3. ClockTypes'
  BY <1>1, <1>2, Settings DEF ClockInv, ClockTypes
<1>4. (Asking(r) /\ Locking(r))'
  BY <1>1, <1>2, Settings DEF Asking, Locking, Requesting
<1>5. \A s \in Runs \ {r} : (Asking(s) /\ Locking(s))'
  BY <1>1, <1>2, Settings, FreeCoversNobody DEF Asking, Locking, Requesting
<1> QED BY <1>3, <1>4, <1>5 DEF ClockInv, Covered

\* The deadline is set inside what is left of the lock.
LEMMA RequestCovered ==
  ASSUME ClockInv, NEW r \in Runs, Request(r)
  PROVE  ClockInv'
<1>1. /\ pc[r] = "locked" /\ left' = [left EXCEPT ![r] = Budget]
      /\ Become(r, "attempt", AttemptDeadline) /\ UNCHANGED lock
  BY DEF Request, Attempt, Reading
<1>2. "attempt" \in Phases
  BY DEF Phases
<1>3. /\ pc' \in [Runs -> Phases] /\ DOMAIN wait' = Runs
      /\ pc'[r] = "attempt"
  BY <1>1, <1>2, OthersWait DEF ClockInv
<1>4. /\ left' \in [Runs -> Nat] /\ left'[r] = Budget
      /\ \A s \in Runs \ {r} : left'[s] = left[s]
  BY <1>1, Settings DEF ClockInv, ClockTypes
<1>5. owner' = r /\ ttl' \in Nat /\ Budget < ttl'
  BY <1>1, Settings DEF ClockInv, ClockTypes, Covered, Locking, lock
<1>6. ClockTypes'
  BY <1>3, <1>4, <1>5 DEF ClockInv, ClockTypes
<1>7. (Asking(r) /\ Locking(r))'
  BY <1>3, <1>4, <1>5 DEF Asking, Locking
<1>8. \A s \in Runs \ {r} : (Asking(s) /\ Locking(s))'
  BY <1>1, <1>2, <1>4, OthersCovered
<1> QED BY <1>6, <1>7, <1>8 DEF ClockInv, Covered

\* A task that is over holds nothing.
LEMMA EndedRun ==
  ASSUME ClockInv, NEW r \in Runs, Ends(r)
  PROVE  /\ pc' \in [Runs -> Phases] /\ DOMAIN wait' = Runs /\ left' \in [Runs -> Nat]
         /\ pc'[r] = "idle"
         /\ \A s \in Runs \ {r} : /\ pc'[s] = pc[s] /\ wait'[s] = wait[s]
                                  /\ left'[s] = left[s]
<1>1. "idle" \in Phases /\ Become(r, "idle", 0) /\ left' = [left EXCEPT ![r] = 0]
  BY DEF Phases, Ends
<1> QED BY <1>1, OthersWait DEF ClockInv, ClockTypes

\* A run that outlived its lock does not release another's.
LEMMA ReleaseCovered ==
  ASSUME ClockInv, NEW r \in Runs, Release(r)
  PROVE  ClockInv'
<1>1. Ends(r) /\ pc[r] = "release" /\ Unlock(r)
  BY DEF Release
<1>2. /\ pc' \in [Runs -> Phases] /\ DOMAIN wait' = Runs /\ left' \in [Runs -> Nat]
      /\ pc'[r] = "idle"
      /\ \A s \in Runs \ {r} : /\ pc'[s] = pc[s] /\ wait'[s] = wait[s]
                               /\ left'[s] = left[s]
  BY <1>1, EndedRun
<1>3. /\ owner' \in Runs \union {Free, Orphan} /\ ttl' \in Nat
      /\ \A s \in Runs \ {r} : owner = s => owner' = s /\ ttl' = ttl
  BY <1>1, Settings DEF Unlock, Delete, lock, ClockInv, ClockTypes
<1>4. ClockTypes'
  BY <1>2, <1>3 DEF ClockTypes
<1>5. (Asking(r) /\ Locking(r))'
  BY <1>2 DEF Asking, Locking, Requesting
<1>6. \A s \in Runs \ {r} : (Asking(s) /\ Locking(s))'
  BY <1>2, <1>3 DEF ClockInv, Covered, Asking, Locking, Requesting
<1> QED BY <1>4, <1>5, <1>6 DEF ClockInv, Covered

\* The token of a dead run covers nobody.
LEMMA CrashCovered ==
  ASSUME ClockInv, NEW r \in Runs, Crash(r)
  PROVE  ClockInv'
<1>1. Ends(r) /\ owner' = (IF owner = r THEN Orphan ELSE owner) /\ ttl' = ttl
  BY DEF Crash
<1>2. /\ pc' \in [Runs -> Phases] /\ DOMAIN wait' = Runs /\ left' \in [Runs -> Nat]
      /\ pc'[r] = "idle"
      /\ \A s \in Runs \ {r} : /\ pc'[s] = pc[s] /\ wait'[s] = wait[s]
                               /\ left'[s] = left[s]
  BY <1>1, EndedRun
<1>3. ClockTypes'
  BY <1>1, <1>2 DEF ClockInv, ClockTypes
<1>4. (Asking(r) /\ Locking(r))'
  BY <1>2 DEF Asking, Locking, Requesting
<1>5. \A s \in Runs \ {r} : (Asking(s) /\ Locking(s))'
  BY <1>1, <1>2 DEF ClockInv, Covered, Asking, Locking, Requesting
<1> QED BY <1>3, <1>4, <1>5 DEF ClockInv, Covered

\* An attempt that fails is followed by a pause or by the end of the request.
LEMMA AttemptFailsCovered ==
  ASSUME ClockInv, NEW r \in Runs, NEW why \in Reasons, AttemptFails(r, why)
  PROVE  ClockInv'
<1>1. pc[r] = "attempt" /\ UNCHANGED lock
  BY DEF AttemptFails, Reading
<1>2. CASE LastAttempt(r)
  <2>1. Become(r, "release", 0) /\ left' = left
    BY <1>2 DEF AttemptFails, Raise
  <2> QED BY <1>1, <2>1, LeavingIsCovered DEF ClockInv, ClockTypes
<1>3. CASE ~LastAttempt(r)
  <2>1. left' = left /\ \E time \in Pause(attempt[r]) : Become(r, "pause", time)
    BY <1>3 DEF AttemptFails
  <2>2. PICK time \in Pause(attempt[r]) : Become(r, "pause", time)
    BY <2>1
  <2>3. Requesting(r)
    BY <1>1 DEF Requesting
  <2> QED BY <1>1, <2>1, <2>2, <2>3, AskingOnIsCovered
<1> QED BY <1>2, <1>3
-----------------------------------------------------------------------------
\* Every step of the system keeps the runs at the ISS covered by the lock.
LEMMA NextCovered ==
  ASSUME ClockInv, [Next]_vars
  PROVE  ClockInv'
<1>1. ASSUME UNCHANGED <<owner, ttl, pc, left, wait>>
      PROVE  ClockInv'
  BY <1>1 DEF ClockInv, ClockTypes, Covered, Asking, Locking, Requesting
<1>2. CASE Elapse
  BY <1>2, ElapseCovered
<1>3. CASE DataMoves
  BY <1>3, <1>1 DEF DataMoves, lock
<1>4. ASSUME NEW a \in Assets, Switch(a)
      PROVE  ClockInv'
  BY <1>4, <1>1 DEF Switch, lock
<1>5. ASSUME NEW r \in Runs, Works(r)
      PROVE  ClockInv'
  <2>1. CASE SkipTick(r)
    BY <2>1, <1>1 DEF SkipTick, lock
  <2>2. CASE Acquire(r)
    BY <2>2, AcquireCovered
  <2>3. CASE Request(r)
    BY <2>3, RequestCovered
  <2>4. CASE Resume(r)
    <3>1. Requesting(r) /\ Become(r, "attempt", AttemptDeadline) /\ UNCHANGED <<lock, left>>
      BY <2>4 DEF Resume, Attempt, Reading, Requesting
    <3> QED BY <3>1, AskingOnIsCovered
  <2>5. CASE Overrun(r)
    <3>1. Become(r, "release", 0) /\ UNCHANGED <<lock, left>>
      BY <2>5 DEF Overrun, Raise, Reading
    <3> QED BY <3>1, LeavingIsCovered DEF ClockInv, ClockTypes
  <2>6. ASSUME NEW shown, Answered(r, shown)
        PROVE  ClockInv'
    <3>1. UNCHANGED <<lock, left>>
      BY <2>6 DEF Answered, Reading
    <3>2. Become(r, "release", 0) \/ Become(r, "write", 0)
      BY <2>6 DEF Answered
    <3> QED BY <3>1, <3>2, LeavingIsCovered DEF ClockInv, ClockTypes
  <2>7. CASE Write(r)
    <3>1. Become(r, "release", 0) /\ UNCHANGED <<lock, left>>
      BY <2>7 DEF Write
    <3> QED BY <3>1, LeavingIsCovered DEF ClockInv, ClockTypes
  <2>8. CASE Release(r)
    BY <2>8, ReleaseCovered
  <2> QED BY <1>5, <2>1, <2>2, <2>3, <2>4, <2>5, <2>6, <2>7, <2>8 DEF Works
<1>6. ASSUME NEW r \in Runs, Troubles(r)
      PROVE  ClockInv'
  <2>1. CASE AcquireFails(r)
    <3>1. /\ owner = Free /\ owner' = Orphan /\ ttl' = Ttl
          /\ UNCHANGED <<pc, left, wait>>
      BY <2>1 DEF AcquireFails, LockTime
    <3> QED
      BY <3>1, Settings, FreeCoversNobody
      DEF ClockInv, ClockTypes, Covered, Asking, Locking, Requesting
  <2>2. CASE Refused(r)
    <3>1. Become(r, "release", 0) /\ UNCHANGED <<lock, left>>
      BY <2>2 DEF Refused, Raise, Reading
    <3> QED BY <3>1, LeavingIsCovered DEF ClockInv, ClockTypes
  <2>3. CASE Rejected(r)
    <3>1. Become(r, "release", 0) /\ UNCHANGED <<lock, left>>
      BY <2>3 DEF Rejected, Raise, Reading
    <3> QED BY <3>1, LeavingIsCovered DEF ClockInv, ClockTypes
  <2>4. CASE WriteFails(r)
    <3>1. Become(r, "release", 0) /\ UNCHANGED <<lock, left>>
      BY <2>4 DEF WriteFails
    <3> QED BY <3>1, LeavingIsCovered DEF ClockInv, ClockTypes
  <2>5. CASE Crash(r)
    BY <2>5, CrashCovered
  <2>6. ASSUME NEW why \in Reasons, AttemptFails(r, why)
        PROVE  ClockInv'
    BY <2>6, AttemptFailsCovered
  <2> QED BY <1>6, <2>1, <2>2, <2>3, <2>4, <2>5, <2>6 DEF Troubles
<1>7. CASE UNCHANGED vars
  BY <1>7, <1>1 DEF vars, lock
<1> QED BY <1>2, <1>3, <1>4, <1>5, <1>6, <1>7 DEF Next

\* redis_lock, validate_poll_budget and the deadline of the run together:
\* whatever the retries, the pauses, the writes and the crashes of other runs
\* do, one run at a time is at the ISS.
THEOREM OneReaderHolds == Spec => []OneReader
<1>1. Init => ClockInv
  BY InitCovered
<1>2. ClockInv /\ [Next]_vars => ClockInv'
  BY NextCovered
<1>3. ClockInv => OneReader
  BY DEF ClockInv, Covered, Asking, OneReader
<1> QED BY <1>1, <1>2, <1>3, PTL DEF Spec

-----------------------------------------------------------------------------
(* What a failed run says.                                                  *)

Kinds == {"none", "answered", "unreachable", "refused", "rejected", "budget"}
ReportTypes ==
    /\ pc \in [Runs -> Phases]
    /\ attempt \in [Runs -> Nat]
    /\ reason \in [Runs -> Reasons \union {NoReason}]
    /\ report \in [Runs -> [kind : Kinds, reason : Reasons \union {NoReason}, failed : Nat]]

\* A reason is known exactly from the first failure on: in an attempt that is
\* every attempt but the first, in a pause it is every one.
Informed(r) ==
    /\ pc[r] = "attempt" => /\ attempt[r] \in 1..MaxAttempts
                            /\ reason[r] = NoReason <=> attempt[r] = 1
    /\ pc[r] = "pause" => /\ attempt[r] \in 1..(MaxAttempts - 1)
                          /\ reason[r] # NoReason
\* ReportIsTrue of one run.
Truthful(r) ==
    /\ report[r].kind = "unreachable" => report[r].failed = MaxAttempts /\ report[r].reason \in Reasons
    /\ report[r].kind = "budget" => (report[r].reason = NoReason <=> report[r].failed = 0)

ReportInv == ReportTypes /\ \A r \in Runs : Informed(r) /\ Truthful(r)

LEMMA Policy ==
  MaxAttempts \in Nat \ {0} /\ NoReason \notin Reasons
BY BoardAssumption DEF RetryPolicy

\* A step of r touches the request and the report of r alone.
OnlyOf(r) == \A s \in Runs \ {r} : /\ pc'[s] = pc[s] /\ attempt'[s] = attempt[s]
                                   /\ reason'[s] = reason[s] /\ report'[s] = report[s]

LEMMA OneRunMoves ==
  ASSUME ReportInv, ReportTypes', NEW r \in Runs, OnlyOf(r), Informed(r)', Truthful(r)'
  PROVE  ReportInv'
<1>1. ASSUME NEW s \in Runs \ {r}
      PROVE  Informed(s)' /\ Truthful(s)'
  <2>1. Informed(s) /\ Truthful(s)
    BY DEF ReportInv
  <2>2. pc'[s] = pc[s] /\ attempt'[s] = attempt[s] /\ reason'[s] = reason[s] /\ report'[s] = report[s]
    BY DEF OnlyOf
  <2> QED BY <2>1, <2>2 DEF Informed, Truthful
<1> QED BY <1>1 DEF ReportInv

\* The request has ended, and what was reported stays true.
LEMMA EndOfRequest ==
  ASSUME ReportInv, NEW r \in Runs, NEW phase \in Phases \ {"attempt", "pause"}, NEW time,
         Become(r, phase, time), UNCHANGED <<attempt, reason>>,
         NEW said \in [kind : Kinds, reason : Reasons \union {NoReason}, failed : Nat],
         report' = [report EXCEPT ![r] = said],
         said.kind = "unreachable" => said.failed = MaxAttempts /\ said.reason \in Reasons,
         said.kind = "budget" => (said.reason = NoReason <=> said.failed = 0)
  PROVE  ReportInv'
<1>1. ReportTypes'
  BY DEF ReportInv, ReportTypes, Become
<1>2. OnlyOf(r) /\ pc'[r] = phase /\ report'[r] = said
  BY DEF ReportInv, ReportTypes, Become, OnlyOf
<1>3. Informed(r)' /\ Truthful(r)'
  BY <1>2 DEF Informed, Truthful
<1> QED BY <1>1, <1>2, <1>3, OneRunMoves

\* An exception is reported with the reason it has at hand.
LEMMA RaisedIsTrue ==
  ASSUME ReportInv, NEW r \in Runs, NEW kind \in Kinds, NEW why \in Reasons \union {NoReason},
         NEW failed \in Nat, Raise(r, kind, why, failed), UNCHANGED <<attempt, reason>>,
         kind = "unreachable" => failed = MaxAttempts /\ why \in Reasons,
         kind = "budget" => (why = NoReason <=> failed = 0)
  PROVE  ReportInv'
<1> DEFINE said == [kind |-> kind, reason |-> why, failed |-> failed]
<1>1. said \in [kind : Kinds, reason : Reasons \union {NoReason}, failed : Nat]
  OBVIOUS
<1>2. Become(r, "release", 0) /\ report' = [report EXCEPT ![r] = said]
  BY DEF Raise
<1>3. "release" \in Phases \ {"attempt", "pause"}
  BY DEF Phases
<1>4. said.kind = kind /\ said.reason = why /\ said.failed = failed
  OBVIOUS
<1> HIDE DEF said
<1> QED BY <1>1, <1>2, <1>3, <1>4, EndOfRequest

\* The phase of a run that asks nothing may change.
LEMMA QuietMoves ==
  ASSUME ReportInv, NEW r \in Runs, NEW phase \in Phases \ {"attempt", "pause"}, NEW time,
         Become(r, phase, time), UNCHANGED <<attempt, reason, report>>
  PROVE  ReportInv'
<1>1. ReportTypes'
  BY DEF ReportInv, ReportTypes, Become
<1>2. OnlyOf(r) /\ pc'[r] = phase
  BY DEF ReportInv, ReportTypes, Become, OnlyOf
<1>3. Informed(r)' /\ Truthful(r)'
  BY <1>2 DEF ReportInv, Informed, Truthful
<1> QED BY <1>1, <1>2, <1>3, OneRunMoves

\* A task that is over remembers nothing.
LEMMA ForgottenIsTrue ==
  ASSUME ReportInv, NEW r \in Runs, Ends(r)
  PROVE  ReportInv'
<1>1. "idle" \in Phases /\ "none" \in Kinds /\ NoReport.kind = "none"
      /\ NoReport \in [kind : Kinds, reason : Reasons \union {NoReason}, failed : Nat]
  BY DEF Phases, Kinds, NoReport
<1>2. /\ pc' = [pc EXCEPT ![r] = "idle"] /\ attempt' = [attempt EXCEPT ![r] = 0]
      /\ reason' = [reason EXCEPT ![r] = NoReason] /\ report' = [report EXCEPT ![r] = NoReport]
  BY DEF Ends, Become
<1>3. ReportTypes'
  BY <1>1, <1>2 DEF ReportInv, ReportTypes
<1>4. OnlyOf(r) /\ pc'[r] = "idle" /\ report'[r] = NoReport
  BY <1>2 DEF ReportInv, ReportTypes, OnlyOf
<1>5. Informed(r)' /\ Truthful(r)'
  BY <1>1, <1>4 DEF Informed, Truthful
<1> QED BY <1>3, <1>4, <1>5, OneRunMoves

\* get() begins with no failure.
LEMMA RequestIsTrue ==
  ASSUME ReportInv, NEW r \in Runs, Request(r)
  PROVE  ReportInv'
<1>1. /\ pc' = [pc EXCEPT ![r] = "attempt"] /\ attempt' = [attempt EXCEPT ![r] = 1]
      /\ reason' = [reason EXCEPT ![r] = NoReason] /\ report' = report
  BY DEF Request, Attempt, Become, answer
<1>2. ReportTypes'
  BY <1>1 DEF ReportInv, ReportTypes, Phases
<1>3. OnlyOf(r) /\ pc'[r] = "attempt" /\ attempt'[r] = 1 /\ reason'[r] = NoReason
  BY <1>1 DEF ReportInv, ReportTypes, OnlyOf
<1>4. Informed(r)' /\ Truthful(r)'
  BY <1>1, <1>3, Policy DEF ReportInv, Informed, Truthful
<1> QED BY <1>2, <1>3, <1>4, OneRunMoves

\* The reason outlives the pause into the next attempt.
LEMMA ResumeIsTrue ==
  ASSUME ReportInv, NEW r \in Runs, Resume(r)
  PROVE  ReportInv'
<1>1. /\ pc[r] = "pause" /\ pc' = [pc EXCEPT ![r] = "attempt"]
      /\ attempt' = [attempt EXCEPT ![r] = @ + 1]
      /\ reason' = reason /\ report' = report
  BY DEF Resume, Attempt, Become, answer
<1>2. attempt[r] \in 1..(MaxAttempts - 1) /\ reason[r] # NoReason
  BY <1>1 DEF ReportInv, Informed
<1>3. ReportTypes'
  BY <1>1 DEF ReportInv, ReportTypes, Phases
<1>4. OnlyOf(r) /\ pc'[r] = "attempt" /\ attempt'[r] = attempt[r] + 1 /\ reason'[r] = reason[r]
  BY <1>1 DEF ReportInv, ReportTypes, OnlyOf
<1>5. Informed(r)'
  BY <1>2, <1>4, Policy DEF Informed
<1>6. Truthful(r)'
  BY <1>1 DEF ReportInv, Truthful
<1> QED BY <1>3, <1>4, <1>5, <1>6, OneRunMoves

\* A failed attempt is described before the pause; the last one is raised.
LEMMA AttemptFailsIsTrue ==
  ASSUME ReportInv, NEW r \in Runs, NEW why \in Reasons, AttemptFails(r, why)
  PROVE  ReportInv'
<1>1. /\ pc[r] = "attempt" /\ reason' = [reason EXCEPT ![r] = why] /\ attempt' = attempt
      /\ attempt[r] \in 1..MaxAttempts /\ MaxAttempts \in Nat
  BY Policy DEF AttemptFails, Described, ReportInv, Informed
<1>2. CASE LastAttempt(r)
  <2> DEFINE said == [kind |-> "unreachable", reason |-> why, failed |-> attempt[r]]
  <2>1. attempt[r] = MaxAttempts
    BY <1>1, <1>2 DEF LastAttempt
  <2>2. report' = [report EXCEPT ![r] = said] /\ pc' = [pc EXCEPT ![r] = "release"]
    BY <1>2 DEF AttemptFails, Raise, Become
  <2>3. said \in [kind : Kinds, reason : Reasons \union {NoReason}, failed : Nat]
    BY <1>1 DEF Kinds
  <2>4. ReportTypes'
    BY <1>1, <2>2, <2>3 DEF ReportInv, ReportTypes, Phases
  <2>5. OnlyOf(r) /\ pc'[r] = "release" /\ report'[r] = said
    BY <1>1, <2>2, <2>3 DEF ReportInv, ReportTypes, OnlyOf
  <2>6. Informed(r)' /\ Truthful(r)'
    BY <2>1, <2>5 DEF Informed, Truthful
  <2> QED BY <2>4, <2>5, <2>6, OneRunMoves
<1>3. CASE ~LastAttempt(r)
  <2>1. pc' = [pc EXCEPT ![r] = "pause"] /\ report' = report
    BY <1>3 DEF AttemptFails, Become, answer
  <2>2. ReportTypes'
    BY <1>1, <2>1 DEF ReportInv, ReportTypes, Phases
  <2>3. OnlyOf(r) /\ pc'[r] = "pause" /\ attempt'[r] = attempt[r] /\ reason'[r] = why
    BY <1>1, <2>1 DEF ReportInv, ReportTypes, OnlyOf
  <2>4. attempt[r] \in 1..(MaxAttempts - 1)
    BY <1>1, <1>3 DEF LastAttempt
  <2>5. Informed(r)'
    BY <2>3, <2>4, Policy DEF Informed
  <2>6. Truthful(r)'
    BY <2>1 DEF ReportInv, Truthful
  <2> QED BY <2>2, <2>3, <2>5, <2>6, OneRunMoves
<1> QED BY <1>2, <1>3

\* The deadline of the run finds the reason of the last failure, in an attempt
\* as in a pause.
LEMMA OverrunIsTrue ==
  ASSUME ReportInv, NEW r \in Runs, Overrun(r)
  PROVE  ReportInv'
<1>1. /\ Raise(r, "budget", reason[r], Failed(r)) /\ UNCHANGED <<attempt, reason>>
      /\ pc[r] \in {"attempt", "pause"} /\ Informed(r)
      /\ reason[r] \in Reasons \union {NoReason} /\ "budget" \in Kinds
  BY DEF Overrun, Requesting, http, ReportInv, ReportTypes, Kinds
<1>2. Failed(r) \in Nat /\ (reason[r] = NoReason <=> Failed(r) = 0)
  <2>1. CASE pc[r] = "attempt"
    <3>1. attempt[r] \in 1..MaxAttempts /\ (reason[r] = NoReason <=> attempt[r] = 1)
      BY <1>1, <2>1 DEF Informed
    <3>2. Failed(r) = attempt[r] - 1
      BY <2>1, <3>1 DEF Failed
    <3> QED BY <3>1, <3>2, Policy
  <2>2. CASE pc[r] = "pause"
    <3>1. attempt[r] \in 1..(MaxAttempts - 1) /\ reason[r] # NoReason
      BY <1>1, <2>2 DEF Informed
    <3>2. Failed(r) = attempt[r]
      BY <2>2, <3>1 DEF Failed
    <3> QED BY <3>1, <3>2, Policy
  <2> QED BY <1>1, <2>1, <2>2
<1> QED BY <1>1, <1>2, RaisedIsTrue

\* An error that no retry helps is reported as it is.
LEMMA RefusedIsTrue ==
  ASSUME ReportInv, NEW r \in Runs, Refused(r) \/ Rejected(r)
  PROVE  ReportInv'
<1>1. /\ \/ Raise(r, "refused", reason[r], attempt[r])
         \/ Raise(r, "rejected", reason[r], attempt[r])
      /\ UNCHANGED <<attempt, reason>>
  BY DEF Refused, Rejected, http
<1>2. /\ reason[r] \in Reasons \union {NoReason} /\ attempt[r] \in Nat
      /\ "refused" \in Kinds /\ "rejected" \in Kinds
  BY DEF ReportInv, ReportTypes, Kinds
<1> QED BY <1>1, <1>2, RaisedIsTrue

\* An answer is no failure.
LEMMA AnsweredIsTrue ==
  ASSUME ReportInv, NEW r \in Runs, NEW shown, Answered(r, shown)
  PROVE  ReportInv'
<1> DEFINE said == [report[r] EXCEPT !.kind = "answered"]
<1>1. said \in [kind : Kinds, reason : Reasons \union {NoReason}, failed : Nat]
      /\ said.kind = "answered"
  BY DEF ReportInv, ReportTypes, Kinds
<1>2. report' = [report EXCEPT ![r] = said]
  BY DEF Answered
<1>3. /\ Become(r, "release", 0) \/ Become(r, "write", 0)
      /\ "release" \in Phases \ {"attempt", "pause"} /\ "write" \in Phases \ {"attempt", "pause"}
      /\ UNCHANGED <<attempt, reason>>
  BY DEF Answered, Phases, http
<1> HIDE DEF said
<1> QED BY <1>1, <1>2, <1>3, EndOfRequest
-----------------------------------------------------------------------------
LEMMA InitReports ==
  Init => ReportInv
BY DEF Init, ReportInv, ReportTypes, Informed, Truthful, Phases, Kinds, NoReport

LEMMA NextReports ==
  ASSUME ReportInv, [Next]_vars
  PROVE  ReportInv'
<1>1. ASSUME UNCHANGED <<pc, attempt, reason, report>>
      PROVE  ReportInv'
  BY <1>1 DEF ReportInv, ReportTypes, Informed, Truthful
<1>2. CASE Elapse
  BY <1>2, <1>1 DEF Elapse, http, answer
<1>3. CASE DataMoves
  BY <1>3, <1>1 DEF DataMoves, http, answer
<1>4. ASSUME NEW a \in Assets, Switch(a)
      PROVE  ReportInv'
  BY <1>4, <1>1 DEF Switch, http, answer
<1>5. /\ "locked" \in Phases \ {"attempt", "pause"}
      /\ "release" \in Phases \ {"attempt", "pause"}
  BY DEF Phases
<1>6. ASSUME NEW r \in Runs, Works(r)
      PROVE  ReportInv'
  <2>1. CASE SkipTick(r)
    BY <2>1, <1>1 DEF SkipTick, http, answer
  <2>2. CASE Acquire(r)
    <3>1. Become(r, "locked", Latency) /\ UNCHANGED <<attempt, reason, report>>
      BY <2>2 DEF Acquire, http, answer
    <3> QED BY <1>5, <3>1, QuietMoves
  <2>3. CASE Request(r)
    BY <2>3, RequestIsTrue
  <2>4. CASE Resume(r)
    BY <2>4, ResumeIsTrue
  <2>5. CASE Overrun(r)
    BY <2>5, OverrunIsTrue
  <2>6. ASSUME NEW shown, Answered(r, shown)
        PROVE  ReportInv'
    BY <2>6, AnsweredIsTrue
  <2>7. CASE Write(r)
    <3>1. Become(r, "release", 0) /\ UNCHANGED <<attempt, reason, report>>
      BY <2>7 DEF Write, http, answer
    <3> QED BY <1>5, <3>1, QuietMoves
  <2>8. CASE Release(r)
    <3>1. Ends(r)
      BY <2>8 DEF Release
    <3> QED BY <3>1, ForgottenIsTrue
  <2> QED BY <1>6, <2>1, <2>2, <2>3, <2>4, <2>5, <2>6, <2>7, <2>8 DEF Works
<1>7. ASSUME NEW r \in Runs, Troubles(r)
      PROVE  ReportInv'
  <2>1. CASE AcquireFails(r)
    BY <2>1, <1>1 DEF AcquireFails, http, answer
  <2>2. CASE Refused(r) \/ Rejected(r)
    BY <2>2, RefusedIsTrue
  <2>3. CASE WriteFails(r)
    <3>1. Become(r, "release", 0) /\ UNCHANGED <<attempt, reason, report>>
      BY <2>3 DEF WriteFails, http, answer
    <3> QED BY <1>5, <3>1, QuietMoves
  <2>4. CASE Crash(r)
    <3>1. Ends(r)
      BY <2>4 DEF Crash
    <3> QED BY <3>1, ForgottenIsTrue
  <2>5. ASSUME NEW why \in Reasons, AttemptFails(r, why)
        PROVE  ReportInv'
    BY <2>5, AttemptFailsIsTrue
  <2> QED BY <1>7, <2>1, <2>2, <2>3, <2>4, <2>5 DEF Troubles
<1>8. CASE UNCHANGED vars
  BY <1>8, <1>1 DEF vars, http, answer
<1> QED BY <1>2, <1>3, <1>4, <1>6, <1>7, <1>8 DEF Next

\* RetryingHttpClient.last_failure_reason and ProviderConnectionError together:
\* "unreachable" is said after MaxAttempts failures and with a reason, and a run
\* that its budget cuts off names a reason exactly when an attempt had failed.
THEOREM ReportsAreTrue == Spec => []ReportIsTrue
<1>1. Init => ReportInv
  BY InitReports
<1>2. ReportInv /\ [Next]_vars => ReportInv'
  BY NextReports
<1>3. ReportInv => ReportIsTrue
  BY DEF ReportInv, Truthful, ReportIsTrue
<1> QED BY <1>1, <1>2, <1>3, PTL DEF Spec
=============================================================================
