----------------------------- MODULE ChatQuota -----------------------------
(***************************************************************************)
(* The daily quota of the AI chat. Each run of `run_chat` asks the model   *)
(* step by step; before a step `DailyQuota.reserve_step` charges an        *)
(* estimate to the Redis hash of the Moscow day, after it `settle_step`    *)
(* replaces the estimate by what the step really took. Runs of all API     *)
(* processes share the hash, and midnight may fall between any two calls.  *)
(***************************************************************************)
EXTENDS Integers

CONSTANTS
    Runs,           \* concurrent chat runs
    RequestLimit,   \* AI_DAILY_REQUEST_LIMIT
    TokenLimit,     \* AI_DAILY_TOKEN_LIMIT
    MaxSteps,       \* AI_MAX_TOOL_ITERATIONS
    CompletionReserve, \* AI_STEP_COMPLETION_RESERVE_TOKENS
    Estimates,      \* what estimate_step_reservation may return
    Costs,          \* what a step may take from the provider
    Written,        \* what estimate_tokens may make of an answer
    MaxDay,         \* bound: midnights
    MaxOpened       \* bound: questions asked

\* validate_ai_settings: a question has a step with tools and a last one, and
\* the reserve for an answer alone does not use up the day.
ValidSettings ==
    /\ RequestLimit > 0 /\ TokenLimit > 0
    /\ 0 < CompletionReserve /\ CompletionReserve < TokenLimit
    /\ MaxSteps >= 2

\* Token counts are never negative, and an estimate has the reserve in it.
ASSUME QuotaSettings ==
    /\ {RequestLimit, TokenLimit, CompletionReserve, MaxSteps, MaxDay, MaxOpened} \subseteq Nat
    /\ ValidSettings
    /\ Estimates \subseteq Nat /\ Costs \subseteq Nat /\ Written \subseteq Nat
    /\ \A e \in Estimates : e >= CompletionReserve

VARIABLES
    day,        \* moscow_today()
    requests,   \* the field of each day's hash
    tokens,     \* the field of each day's hash
    pc,         \* where each run is: over, step, model, settle or tools
    step,       \* the run's step
    reserved,   \* what the run reserved for its step
    cost,       \* what step_tokens says the step took
    opened,     \* questions asked so far
    spent,      \* history: tokens the provider really gave
    calls,      \* history: steps the provider was asked for
    overrun,    \* history: what settling added to each day
    shortfall,  \* history: by how much the steps not settled outran their reserve
    unmeasured  \* history: what step_tokens missed of the steps without a report

quota   == <<requests, tokens>>
run     == <<pc, step, reserved, cost>>
history == <<spent, calls, overrun, shortfall, unmeasured>>
vars    == <<day, quota, run, opened, history>>

Days == 0..MaxDay

Excess(amount, limit) == IF amount > limit THEN amount - limit ELSE 0

Init ==
    /\ day = 0
    /\ requests = [d \in Days |-> 0] /\ tokens = [d \in Days |-> 0]
    /\ pc = [r \in Runs |-> "over"] /\ step = [r \in Runs |-> 0]
    /\ reserved = [r \in Runs |-> 0] /\ cost = [r \in Runs |-> 0]
    /\ opened = 0
    /\ spent = 0 /\ calls = 0 /\ shortfall = 0 /\ unmeasured = 0
    /\ overrun = [d \in Days |-> 0]

\* _key() is computed anew by every call.
Midnight ==
    /\ day < MaxDay
    /\ day' = day + 1
    /\ UNCHANGED <<quota, run, opened, history>>

\* The run ends, whatever it holds.
End(r) ==
    /\ pc' = [pc EXCEPT ![r] = "over"]
    /\ step' = [step EXCEPT ![r] = 0]
    /\ reserved' = [reserved EXCEPT ![r] = 0]
    /\ cost' = [cost EXCEPT ![r] = 0]

\* ensure_available lets the question in; a refusal changes nothing.
Open(r) ==
    /\ pc[r] = "over" /\ opened < MaxOpened
    /\ requests[day] < RequestLimit /\ tokens[day] < TokenLimit
    /\ pc' = [pc EXCEPT ![r] = "step"]
    /\ opened' = opened + 1
    /\ UNCHANGED <<day, quota, step, reserved, cost, history>>

\* Mutant of Allowed: only what is already charged counts, as in
\* ensure_available.
AllowedBeforeEstimate(estimate) ==
    requests[day] < RequestLimit /\ tokens[day] < TokenLimit

\* The condition of the Lua script of reserve_step.
Allowed(estimate) ==
    requests[day] < RequestLimit /\ tokens[day] + estimate <= TokenLimit

\* The Lua script admits the step.
Charge(estimate) ==
    /\ requests' = [requests EXCEPT ![day] = @ + 1]
    /\ tokens' = [tokens EXCEPT ![day] = @ + estimate]

\* reserve_step
Reserve(r, estimate) ==
    /\ pc[r] = "step"
    /\ Allowed(estimate)
    /\ Charge(estimate)
    /\ pc' = [pc EXCEPT ![r] = "model"]
    /\ step' = [step EXCEPT ![r] = @ + 1]
    /\ reserved' = [reserved EXCEPT ![r] = estimate]
    /\ UNCHANGED <<day, cost, opened, history>>

\* reserve_step refuses: AiQuotaExceededError ends the run.
Refuse(r, estimate) ==
    /\ pc[r] = "step"
    /\ ~ Allowed(estimate)
    /\ End(r)
    /\ UNCHANGED <<day, quota, opened, history>>

\* Mutant of AfterRedisError: fails open, the step goes on without a reserve.
FailsOpen == "model"

\* AiUnavailableError ends the run.
AfterRedisError == "over"

\* The Redis call of reserve_step raises, before or after the script ran.
ReserveFails(r, estimate) ==
    /\ pc[r] = "step"
    /\ \/ UNCHANGED quota
       \/ Allowed(estimate) /\ Charge(estimate)
    /\ pc' = [pc EXCEPT ![r] = AfterRedisError]
    /\ step' = [step EXCEPT ![r] = 0]
    /\ UNCHANGED <<day, reserved, cost, opened, history>>

NoUsage == -1

\* stream_chat: after the end of the stream the usage, if the provider tells it.
Reported(took) == {took, NoUsage}

\* step_tokens: the usage, or else an estimate of the messages, which is in the
\* reserve already, and of the answer.
StepTokens(r, usage, written) ==
    IF usage # NoUsage THEN usage ELSE reserved[r] - CompletionReserve + written

\* The model answers and stream_step returns its StepResult.
Answer(r, took, usage, written) ==
    /\ pc[r] = "model"
    /\ calls' = calls + 1
    /\ spent' = spent + took
    /\ LET measured == StepTokens(r, usage, written) IN
       /\ cost' = [cost EXCEPT ![r] = measured]
       /\ shortfall' = shortfall + Excess(measured, reserved[r])
       /\ unmeasured' = unmeasured + Excess(took, measured)
    /\ pc' = [pc EXCEPT ![r] = "settle"]
    /\ UNCHANGED <<day, quota, step, reserved, opened, overrun>>

\* Mutant of AfterInterruption: the reserve is given back.
Refunded(r) == [tokens EXCEPT ![day] = @ - reserved[r]]

\* The reserve of an interrupted step stays charged.
AfterInterruption(r) == tokens

\* The provider fails, the deadline passes or the browser leaves while the
\* model answers: the step is never settled, whatever it took.
Interrupt(r, took) ==
    /\ pc[r] = "model"
    /\ calls' = calls + 1
    /\ spent' = spent + took
    /\ shortfall' = shortfall + Excess(took, reserved[r])
    /\ tokens' = AfterInterruption(r)
    /\ End(r)
    /\ UNCHANGED <<day, requests, opened, overrun, unmeasured>>

Delta(r) == cost[r] - reserved[r]

\* HINCRBY of settle_step, on the hash of the current day.
Correct(r) ==
    /\ tokens' = [tokens EXCEPT ![day] = @ + Delta(r)]
    /\ overrun' = [overrun EXCEPT ![day] = @ + Excess(cost[r], reserved[r])]
    /\ shortfall' = shortfall - Excess(cost[r], reserved[r])

\* `final` in _steps
MayGoOn(r) == step[r] < MaxSteps

\* settle_step, then the tools the model called or the end of the run.
Settle(r) ==
    /\ pc[r] = "settle"
    /\ Correct(r)
    /\ \/ End(r)
       \/ /\ MayGoOn(r)
          /\ pc' = [pc EXCEPT ![r] = "tools"]
          /\ reserved' = [reserved EXCEPT ![r] = 0]
          /\ cost' = [cost EXCEPT ![r] = 0]
          /\ UNCHANGED step
    /\ UNCHANGED <<day, requests, opened, spent, calls, unmeasured>>

\* The Redis call of settle_step raises, before or after HINCRBY took effect,
\* or the browser leaves before it.
SettleFails(r) ==
    /\ pc[r] = "settle" /\ Delta(r) # 0
    /\ Correct(r) \/ UNCHANGED <<tokens, overrun, shortfall>>
    /\ End(r)
    /\ UNCHANGED <<day, requests, opened, spent, calls, unmeasured>>

\* run_tool_calls
UseTools(r) ==
    /\ pc[r] = "tools"
    /\ pc' = [pc EXCEPT ![r] = "step"]
    /\ UNCHANGED <<day, quota, step, reserved, cost, opened, history>>

\* The browser leaves, or the deadline passes, between two steps.
Leave(r) ==
    /\ pc[r] \in {"step", "tools"}
    /\ End(r)
    /\ UNCHANGED <<day, quota, opened, history>>

Next ==
    \/ Midnight
    \/ \E r \in Runs : Open(r) \/ Settle(r) \/ SettleFails(r) \/ UseTools(r) \/ Leave(r)
    \/ \E r \in Runs, e \in Estimates : Reserve(r, e) \/ Refuse(r, e) \/ ReserveFails(r, e)
    \/ \E r \in Runs, took \in Costs :
           \/ \E usage \in Reported(took), written \in Written : Answer(r, took, usage, written)
           \/ Interrupt(r, took)

Spec == Init /\ [][Next]_vars

-----------------------------------------------------------------------------
(* What the quota promises.                                                *)

\* Every variable keeps its range; tokens may go below zero on a day that only
\* receives the correction of the day before. No run asks more than MaxSteps
\* times.
TypeOK ==
    /\ day \in Days
    /\ requests \in [Days -> Nat] /\ tokens \in [Days -> Int]
    /\ pc \in [Runs -> {"over", "step", "model", "settle", "tools"}]
    /\ step \in [Runs -> 0..MaxSteps]
    /\ reserved \in [Runs -> {0} \union Estimates] /\ cost \in [Runs -> Nat]
    /\ opened \in 0..MaxOpened
    /\ spent \in Nat /\ calls \in Nat /\ unmeasured \in Nat /\ shortfall \in Int
    /\ overrun \in [Days -> Nat]
    /\ \A r \in Runs : /\ pc[r] \in {"over", "step", "tools"} => step[r] < MaxSteps
                       /\ pc[r] = "model" => reserved[r] \in Estimates

\* However many runs race for the last tokens, and wherever midnight falls, a
\* day is never charged more than its limit and what its steps took beyond
\* their reserve, nor more requests than its limit.
DailyCeiling ==
    \A d \in Days : requests[d] <= RequestLimit /\ tokens[d] <= TokenLimit + overrun[d]

SumOf(f) ==
    LET upTo[d \in Days] == f[d] + (IF d = 0 THEN 0 ELSE upTo[d - 1])
    IN  upTo[MaxDay]

\* Without the counter nothing is spent: the provider is asked only for steps
\* that Redis counted, through every failure of Redis.
CallsCounted == calls <= SumOf(requests)

\* What the days were charged covers what the provider gave, but for the part
\* of unsettled steps beyond their reserve and of steps without a report beyond
\* their estimate: no race, lost reply, interruption or midnight makes the
\* counter forget a reserve.
ChargeCoversCost == spent <= SumOf(tokens) + shortfall + unmeasured
=============================================================================
