----------------------------- MODULE ChatProofs -----------------------------
(***************************************************************************)
(* Proofs about the chat. ChatQuota, for every number of runs, days and    *)
(* steps, every limit, estimate and cost: the type invariant, the daily    *)
(* ceiling, and that the counters cover what the provider was asked for and*)
(* gave. ChatWidget, for every number of questions, every limit and length *)
(* of a text: histories are accepted, answers are whole and stay.          *)
(***************************************************************************)
EXTENDS ChatQuota, ChatWidget, FiniteSetTheorems, SequenceTheorems, WellFoundedInduction, TLAPS

(* The daily quota.                                                         *)

\* What validate_ai_settings checks, expanded.
LEMMA QuotaAssumption ==
  /\ RequestLimit \in Nat \ {0} /\ TokenLimit \in Nat \ {0} /\ MaxSteps \in Nat \ {0}
  /\ CompletionReserve \in Nat /\ \A e \in Estimates : e >= CompletionReserve
  /\ Estimates \subseteq Nat \ {0} /\ Costs \subseteq Nat /\ Written \subseteq Nat
  /\ MaxDay \in Nat /\ MaxOpened \in Nat
<1>1. \A e \in Estimates : e \in Nat /\ e # 0
  BY QuotaSettings DEF ValidSettings
<1> QED BY <1>1, QuotaSettings DEF ValidSettings

\* What settling adds never exceeds the excess it is entered as.
LEMMA ExcessBounds ==
  ASSUME NEW a \in Nat, NEW b \in Nat
  PROVE  Excess(a, b) \in Nat /\ a - b <= Excess(a, b)
BY DEF Excess

\* Reserves and costs are counts.
LEMMA AmountsType ==
  ASSUME TypeOK, NEW r \in Runs
  PROVE  cost[r] \in Nat /\ reserved[r] \in Nat
<1>1. cost[r] \in Nat /\ reserved[r] \in {0} \union Estimates
  BY DEF TypeOK
<1>2. \A n \in {0} \union Estimates : n \in Nat
  BY QuotaAssumption
<1> QED BY <1>1, <1>2

\* Every step has a token count, with or without a report of the provider.
LEMMA StepTokensType ==
  ASSUME TypeOK, NEW r \in Runs, pc[r] = "model",
         NEW took \in Costs, NEW usage \in Reported(took), NEW written \in Written
  PROVE  StepTokens(r, usage, written) \in Nat
<1>1. reserved[r] \in Nat /\ reserved[r] >= CompletionReserve
  BY QuotaAssumption DEF TypeOK
<1>2. took \in Nat /\ written \in Nat /\ CompletionReserve \in Nat
  BY QuotaAssumption
<1>3. usage # NoUsage => usage \in Nat
  BY <1>2 DEF Reported
<1> QED BY <1>1, <1>2, <1>3 DEF StepTokens

\* The Lua script counts a request and a reserve in integers.
LEMMA ChargeType ==
  ASSUME TypeOK, NEW e \in Estimates, Charge(e)
  PROVE  /\ requests' \in [Days -> Nat] /\ tokens' \in [Days -> Int]
         /\ \A d \in Days : /\ requests'[d] = requests[d] + (IF d = day THEN 1 ELSE 0)
                            /\ tokens'[d] = tokens[d] + (IF d = day THEN e ELSE 0)
BY QuotaAssumption DEF TypeOK, Charge

\* A correction keeps the counters integers.
LEMMA CorrectType ==
  ASSUME TypeOK, NEW r \in Runs, Correct(r)
  PROVE  /\ tokens' \in [Days -> Int] /\ overrun' \in [Days -> Nat] /\ shortfall' \in Int
         /\ \A d \in Days : tokens'[d] - overrun'[d] <= tokens[d] - overrun[d]
<1>1. cost[r] \in Nat /\ reserved[r] \in Nat
  BY AmountsType
<1>2. /\ Excess(cost[r], reserved[r]) \in Nat /\ Delta(r) \in Int
      /\ Delta(r) <= Excess(cost[r], reserved[r])
  BY <1>1 DEF Delta, Excess
<1>3. /\ day \in Days /\ tokens \in [Days -> Int] /\ overrun \in [Days -> Nat]
      /\ shortfall \in Int
  BY DEF TypeOK
<1> QED BY <1>2, <1>3 DEF Correct

\* A run that ends holds nothing.
LEMMA EndType ==
  ASSUME TypeOK, NEW r \in Runs, End(r)
  PROVE  /\ pc' \in [Runs -> {"over", "step", "model", "settle", "tools"}]
         /\ step' \in [Runs -> 0..MaxSteps]
         /\ reserved' \in [Runs -> {0} \union Estimates] /\ cost' \in [Runs -> Nat]
         /\ \A q \in Runs : /\ pc'[q] \in {"over", "step", "tools"} => step'[q] < MaxSteps
                            /\ pc'[q] = "model" => reserved'[q] \in Estimates
BY QuotaAssumption DEF TypeOK, End

\* No step leaves the ranges of the quota.
LEMMA StepQuotaType == TypeOK /\ [Next]_vars => TypeOK'
<1> SUFFICES ASSUME TypeOK, [Next]_vars
             PROVE  TypeOK'
  OBVIOUS
<1> USE QuotaAssumption
<1>1. CASE Midnight
  BY <1>1 DEF Midnight, TypeOK, Days, quota, run, history
<1>2. ASSUME NEW r \in Runs, Open(r)
      PROVE  TypeOK'
  <2>1. /\ pc' = [pc EXCEPT ![r] = "step"] /\ opened' = opened + 1 /\ opened < MaxOpened
        /\ UNCHANGED <<day, requests, tokens, step, reserved, cost, spent, calls, overrun, shortfall,
                       unmeasured>>
    BY <1>2 DEF Open, quota, history
  <2>2. step[r] < MaxSteps
    BY <1>2 DEF Open, TypeOK
  <2> QED BY <2>1, <2>2 DEF TypeOK
<1>3. ASSUME NEW r \in Runs, NEW e \in Estimates, Reserve(r, e)
      PROVE  TypeOK'
  <2>1. step[r] < MaxSteps
    BY <1>3 DEF Reserve, TypeOK
  <2>2. requests' \in [Days -> Nat] /\ tokens' \in [Days -> Int]
    BY <1>3, ChargeType DEF Reserve
  <2> QED BY <1>3, <2>1, <2>2 DEF Reserve, TypeOK, history
<1>4. ASSUME NEW r \in Runs, NEW e \in Estimates, Refuse(r, e)
      PROVE  TypeOK'
  <2>1. End(r)
    BY <1>4 DEF Refuse
  <2> QED BY <1>4, <2>1, EndType DEF Refuse, TypeOK, quota, history
<1>5. ASSUME NEW r \in Runs, NEW e \in Estimates, ReserveFails(r, e)
      PROVE  TypeOK'
  <2>1. requests' \in [Days -> Nat] /\ tokens' \in [Days -> Int]
    BY <1>5, ChargeType DEF ReserveFails, TypeOK, quota
  <2> QED BY <1>5, <2>1 DEF ReserveFails, AfterRedisError, TypeOK, history
<1>6. ASSUME NEW r \in Runs, NEW c \in Costs, NEW usage \in Reported(c), NEW written \in Written,
             Answer(r, c, usage, written)
      PROVE  TypeOK'
  <2> DEFINE measured == StepTokens(r, usage, written)
  <2>1. c \in Nat /\ reserved[r] \in Nat /\ measured \in Nat
    BY <1>6, AmountsType, StepTokensType DEF Answer
  <2>2. Excess(measured, reserved[r]) \in Nat /\ Excess(c, measured) \in Nat
    BY <2>1, ExcessBounds
  <2>3. /\ cost' = [cost EXCEPT ![r] = measured] /\ pc' = [pc EXCEPT ![r] = "settle"]
        /\ shortfall' = shortfall + Excess(measured, reserved[r])
        /\ unmeasured' = unmeasured + Excess(c, measured)
        /\ calls' = calls + 1 /\ spent' = spent + c
        /\ UNCHANGED <<day, requests, tokens, step, reserved, opened, overrun>>
    BY <1>6 DEF Answer, quota
  <2> HIDE DEF measured
  <2> QED BY <2>1, <2>2, <2>3 DEF TypeOK
<1>7. ASSUME NEW r \in Runs, NEW c \in Costs, Interrupt(r, c)
      PROVE  TypeOK'
  <2>1. c \in Nat /\ reserved[r] \in Nat
    BY AmountsType
  <2>2. Excess(c, reserved[r]) \in Nat
    BY <2>1, ExcessBounds
  <2>3. End(r)
    BY <1>7 DEF Interrupt
  <2> QED BY <1>7, <2>1, <2>2, <2>3, EndType DEF Interrupt, AfterInterruption, TypeOK
<1>8. ASSUME NEW r \in Runs, Settle(r)
      PROVE  TypeOK'
  <2>1. Correct(r) /\ UNCHANGED <<day, requests, opened, spent, calls, unmeasured>>
    BY <1>8 DEF Settle
  <2>2. tokens' \in [Days -> Int] /\ overrun' \in [Days -> Nat] /\ shortfall' \in Int
    BY <2>1, CorrectType
  <2>3. CASE End(r)
    BY <2>1, <2>2, <2>3, EndType DEF TypeOK
  <2>4. CASE /\ MayGoOn(r)
             /\ pc' = [pc EXCEPT ![r] = "tools"]
             /\ reserved' = [reserved EXCEPT ![r] = 0]
             /\ cost' = [cost EXCEPT ![r] = 0]
             /\ UNCHANGED step
    BY <2>1, <2>2, <2>4 DEF TypeOK, MayGoOn
  <2> QED BY <1>8, <2>3, <2>4 DEF Settle
<1>9. ASSUME NEW r \in Runs, SettleFails(r)
      PROVE  TypeOK'
  <2>1. End(r) /\ UNCHANGED <<day, requests, opened, spent, calls, unmeasured>>
    BY <1>9 DEF SettleFails
  <2>2. tokens' \in [Days -> Int] /\ overrun' \in [Days -> Nat] /\ shortfall' \in Int
    BY <1>9, CorrectType DEF SettleFails, TypeOK
  <2> QED BY <2>1, <2>2, EndType DEF TypeOK
<1>10. ASSUME NEW r \in Runs, UseTools(r)
       PROVE  TypeOK'
  BY <1>10 DEF UseTools, TypeOK, quota, history
<1>11. ASSUME NEW r \in Runs, Leave(r)
       PROVE  TypeOK'
  <2>1. End(r)
    BY <1>11 DEF Leave
  <2> QED BY <1>11, <2>1, EndType DEF Leave, TypeOK, quota, history
<1>12. CASE UNCHANGED vars
  BY <1>12 DEF vars, quota, run, history, TypeOK
<1> QED BY <1>1, <1>2, <1>3, <1>4, <1>5, <1>6, <1>7, <1>8, <1>9, <1>10, <1>11, <1>12
        DEF Next

\* The counters keep their ranges and no run asks more often than it may.
THEOREM QuotaTypeCorrect == Spec => []TypeOK
<1>1. Init => TypeOK
  BY QuotaAssumption DEF Init, TypeOK, Days
<1>2. TypeOK /\ [Next]_vars => TypeOK'
  BY StepQuotaType
<1> QED BY <1>1, <1>2, PTL DEF Spec

\* The Lua script charges only what fits under the limits.
LEMMA ChargeKeepsCeiling ==
  ASSUME TypeOK, DailyCeiling, NEW e \in Estimates, Allowed(e), Charge(e), UNCHANGED overrun
  PROVE  DailyCeiling'
<1>1. TokenLimit \in Nat /\ RequestLimit \in Nat /\ e \in Nat
  BY QuotaAssumption
<1>2. /\ day \in Days /\ requests \in [Days -> Nat] /\ tokens \in [Days -> Int]
      /\ overrun \in [Days -> Nat]
  BY DEF TypeOK
<1>3. ASSUME NEW d \in Days
      PROVE  requests'[d] <= RequestLimit /\ tokens'[d] <= TokenLimit + overrun'[d]
  <2>1. /\ requests'[d] = requests[d] + (IF d = day THEN 1 ELSE 0)
        /\ tokens'[d] = tokens[d] + (IF d = day THEN e ELSE 0)
    BY ChargeType
  <2>2. requests[d] <= RequestLimit /\ tokens[d] <= TokenLimit + overrun[d]
    BY DEF DailyCeiling
  <2> QED BY <1>1, <1>2, <2>1, <2>2 DEF Allowed
<1> QED BY <1>3 DEF DailyCeiling

\* A correction adds to the day no more than it enters as overrun.
LEMMA CorrectKeepsCeiling ==
  ASSUME TypeOK, DailyCeiling, NEW r \in Runs, Correct(r), UNCHANGED requests
  PROVE  DailyCeiling'
<1>1. /\ tokens \in [Days -> Int] /\ overrun \in [Days -> Nat]
      /\ TokenLimit \in Nat
  BY QuotaAssumption DEF TypeOK
<1>2. /\ tokens' \in [Days -> Int] /\ overrun' \in [Days -> Nat]
      /\ \A d \in Days : tokens'[d] - overrun'[d] <= tokens[d] - overrun[d]
  BY CorrectType
<1>3. \A d \in Days : requests[d] <= RequestLimit /\ tokens[d] <= TokenLimit + overrun[d]
  BY DEF DailyCeiling
<1>4. \A d \in Days : tokens'[d] <= TokenLimit + overrun'[d]
  BY <1>1, <1>2, <1>3
<1> QED BY <1>3, <1>4 DEF DailyCeiling

\* The daily ceiling, for every number of concurrent runs, any estimates and
\* costs, and wherever midnight and the failures of Redis fall: a day never
\* counts more requests than its limit, nor more tokens than its limit and
\* what its settled steps took beyond their reserve.
THEOREM CeilingHolds == Spec => []DailyCeiling
<1>1. Init => DailyCeiling
  BY QuotaAssumption DEF Init, DailyCeiling
<1>2. ASSUME TypeOK, DailyCeiling, [Next]_vars
      PROVE  DailyCeiling'
  <2>1. ASSUME NEW r \in Runs, NEW e \in Estimates, Reserve(r, e) \/ ReserveFails(r, e)
        PROVE  DailyCeiling'
    <3>1. CASE Allowed(e) /\ Charge(e)
      BY <1>2, <2>1, <3>1, ChargeKeepsCeiling DEF Reserve, ReserveFails, history
    <3>2. CASE UNCHANGED quota
      BY <1>2, <2>1, <3>2 DEF Reserve, ReserveFails, quota, history, DailyCeiling
    <3> QED BY <1>2, <2>1, <3>1, <3>2 DEF Reserve, ReserveFails
  <2>2. ASSUME NEW r \in Runs, Settle(r) \/ SettleFails(r)
        PROVE  DailyCeiling'
    <3>1. CASE Correct(r)
      BY <1>2, <2>2, <3>1, CorrectKeepsCeiling DEF Settle, SettleFails
    <3>2. CASE UNCHANGED <<tokens, overrun>>
      BY <1>2, <2>2, <3>2 DEF Settle, SettleFails, DailyCeiling
    <3> QED BY <2>2, <3>1, <3>2 DEF Settle, SettleFails
  <2>3. CASE UNCHANGED <<requests, tokens, overrun>>
    BY <1>2, <2>3 DEF DailyCeiling
  <2> QED BY <1>2, <2>1, <2>2, <2>3
          DEF Next, Midnight, Open, Refuse, Answer, Interrupt, AfterInterruption, UseTools,
              Leave, vars, quota, history
<1> QED BY <1>1, <1>2, QuotaTypeCorrect, PTL DEF Spec

-----------------------------------------------------------------------------
(* Sums over the days and over the runs.                                   *)

\* What SumOf adds up, day by day.
RunningSum(upTo, f) ==
    /\ upTo \in [Days -> Int]
    /\ \A d \in Days : upTo[d] = f[d] + (IF d = 0 THEN 0 ELSE upTo[d - 1])

\* The sums of what each run of a set holds.
Adds(sum, held) ==
    /\ sum \in [SUBSET Runs -> Nat] /\ sum[{}] = 0
    /\ \A S \in SUBSET Runs : \A r \in S : sum[S] = sum[S \ {r}] + held[r]

\* What is counted so far, with what the runs still hold, is covered by the
\* counters of all days.
Covered(counted, held, f, slack) ==
    \E upTo, sum : /\ RunningSum(upTo, f) /\ Adds(sum, held)
                   /\ counted + sum[Runs] <= upTo[MaxDay] + slack

\* Two running sums of the same counters agree: there is no first day on which
\* they differ.
LEMMA RunningSumIsSumOf ==
  ASSUME NEW f, NEW upTo, RunningSum(upTo, f)
  PROVE  SumOf(f) = upTo[MaxDay]
<1> DEFINE Step(g) == [d \in Days |-> f[d] + (IF d = 0 THEN 0 ELSE g[d - 1])]
           chosen == CHOOSE g : g = Step(g)
           differ == {d \in Days : chosen[d] # upTo[d]}
           Less == OpToRel(<, Nat)
<1>1. SumOf(f) = chosen[MaxDay]
  BY DEF SumOf
<1>2. upTo = Step(upTo)
  BY DEF RunningSum
<1>3. chosen = Step(chosen)
  BY <1>2
<1>4. MaxDay \in Days /\ Days \subseteq Nat
  BY QuotaAssumption DEF Days
<1>5. differ = {}
  <2> SUFFICES ASSUME differ # {}
               PROVE  FALSE
    OBVIOUS
  <2>1. differ \subseteq Nat
    BY <1>4
  <2>2. PICK d \in differ : \A e \in differ : ~ (<<e, d>> \in Less)
    <3> HIDE DEF differ, Less
    <3> QED BY <2>1, NatLessThanWellFounded, WFMin DEF Less
  <2>3. d \in Days /\ d \in Nat /\ chosen[d] # upTo[d]
    BY <1>4
  <2> HIDE DEF chosen
  <2>4. d # 0 => d - 1 \in Days /\ chosen[d - 1] = upTo[d - 1]
    <3> SUFFICES ASSUME d # 0
                 PROVE  d - 1 \in Days /\ chosen[d - 1] = upTo[d - 1]
      OBVIOUS
    <3>1. d - 1 \in Days /\ d - 1 \in Nat
      BY <2>3, QuotaAssumption DEF Days
    <3>2. <<d - 1, d>> \in Less
      BY <2>3, <3>1 DEF OpToRel
    <3> QED BY <2>2, <3>1, <3>2
  <2>5. chosen[d] = f[d] + (IF d = 0 THEN 0 ELSE chosen[d - 1])
    BY <1>3, <2>3
  <2>6. upTo[d] = f[d] + (IF d = 0 THEN 0 ELSE upTo[d - 1])
    BY <2>3 DEF RunningSum
  <2> QED BY <2>3, <2>4, <2>5, <2>6
<1> HIDE DEF chosen
<1> QED BY <1>1, <1>4, <1>5

\* A charge to one day moves the sums from that day on.
LEMMA ChargedSum ==
  ASSUME NEW f \in [Days -> Int], NEW d \in Days, NEW k \in Int,
         NEW upTo, RunningSum(upTo, f)
  PROVE  \E new : /\ RunningSum(new, [f EXCEPT ![d] = @ + k])
                  /\ new[MaxDay] = upTo[MaxDay] + k
<1> DEFINE new == [e \in Days |-> upTo[e] + (IF d <= e THEN k ELSE 0)]
           g == [f EXCEPT ![d] = @ + k]
<1>1. MaxDay \in Nat /\ d \in 0..MaxDay /\ upTo \in [Days -> Int]
  BY QuotaAssumption DEF Days, RunningSum
<1>2. new \in [Days -> Int]
  BY <1>1 DEF Days
<1>3. ASSUME NEW e \in Days
      PROVE  new[e] = g[e] + (IF e = 0 THEN 0 ELSE new[e - 1])
  <2>1. upTo[e] = f[e] + (IF e = 0 THEN 0 ELSE upTo[e - 1])
    BY DEF RunningSum
  <2>2. e \in Nat /\ (e # 0 => e - 1 \in Days)
    BY QuotaAssumption DEF Days
  <2>3. f[e] \in Int /\ upTo[e] \in Int /\ (e # 0 => upTo[e - 1] \in Int)
    BY <1>1, <2>2
  <2>4. g[e] = f[e] + (IF e = d THEN k ELSE 0)
    BY <2>3
  <2>5. new[e] = upTo[e] + (IF d <= e THEN k ELSE 0)
    OBVIOUS
  <2>6. e # 0 => new[e - 1] = upTo[e - 1] + (IF d <= e - 1 THEN k ELSE 0)
    BY <2>2
  <2> HIDE DEF new, g
  <2> QED BY <1>1, <2>1, <2>2, <2>3, <2>4, <2>5, <2>6
<1>4. new[MaxDay] = upTo[MaxDay] + k
  BY <1>1 DEF Days
<1> QED BY <1>2, <1>3, <1>4 DEF RunningSum

\* When one run holds something else, the sums of the sets it is in change by
\* the difference.
LEMMA ChangedSum ==
  ASSUME NEW held \in [Runs -> Nat], NEW other \in [Runs -> Nat], NEW r \in Runs,
         \A q \in Runs \ {r} : other[q] = held[q], NEW sum, Adds(sum, held)
  PROVE  \E new : Adds(new, other) /\ new[Runs] = sum[Runs] - held[r] + other[r]
<1> DEFINE new == [S \in SUBSET Runs |-> IF r \in S THEN sum[S \ {r}] + other[r] ELSE sum[S]]
<1>1. sum \in [SUBSET Runs -> Nat] /\ new \in [SUBSET Runs -> Nat]
  BY DEF Adds
<1>2. ASSUME NEW S \in SUBSET Runs, NEW q \in S
      PROVE  new[S] = new[S \ {q}] + other[q]
  <2>1. S \ {q} \in SUBSET Runs /\ S \ {r} \in SUBSET Runs
    OBVIOUS
  <2>2. CASE q = r
    BY <2>1, <2>2
  <2>3. CASE q # r
    <3>1. other[q] = held[q] /\ held[q] \in Nat
      BY <2>3
    <3>2. CASE r \in S
      <4>1. (S \ {q}) \ {r} = (S \ {r}) \ {q} /\ (S \ {q}) \ {r} \in SUBSET Runs
        OBVIOUS
      <4>2. q \in S \ {r} /\ r \in S \ {q}
        BY <2>3, <3>2
      <4>3. sum[S \ {r}] = sum[(S \ {r}) \ {q}] + held[q]
        BY <2>1, <4>2 DEF Adds
      <4>4. new[S] = sum[S \ {r}] + other[r]
        BY <3>2
      <4>5. new[S \ {q}] = sum[(S \ {r}) \ {q}] + other[r]
        BY <2>1, <4>1, <4>2
      <4>6. sum[(S \ {r}) \ {q}] \in Nat /\ other[r] \in Nat
        BY <1>1, <4>1
      <4> QED BY <3>1, <4>3, <4>4, <4>5, <4>6
    <3>3. CASE r \notin S
      BY <2>1, <3>1, <3>3 DEF Adds
    <3> QED BY <3>2, <3>3
  <2> QED BY <2>2, <2>3
<1>3. new[{}] = 0
  BY DEF Adds
<1>4. new[Runs] = sum[Runs] - held[r] + other[r]
  <2>1. Runs \in SUBSET Runs /\ Runs \ {r} \in SUBSET Runs
    OBVIOUS
  <2>2. sum[Runs] = sum[Runs \ {r}] + held[r] /\ sum[Runs \ {r}] \in Nat
    BY <1>1, <2>1 DEF Adds
  <2>3. new[Runs] = sum[Runs \ {r}] + other[r]
    BY <2>1
  <2> HIDE DEF new
  <2> QED BY <2>2, <2>3
<1> QED BY <1>1, <1>2, <1>3, <1>4 DEF Adds

\* One run of the chat acts on one day: what it adds to the count and holds
\* more than before must be charged to the day or entered in the slack.
LEMMA CoveredStep ==
  ASSUME NEW f \in [Days -> Int], NEW d \in Days, NEW k \in Int,
         NEW held \in [Runs -> Nat], NEW other \in [Runs -> Nat], NEW r \in Runs,
         \A q \in Runs \ {r} : other[q] = held[q],
         NEW counted \in Int, NEW more \in Int, NEW slack \in Int, NEW lax \in Int,
         Covered(counted, held, f, slack),
         (more - counted) + (other[r] - held[r]) <= k + (lax - slack)
  PROVE  Covered(more, other, [f EXCEPT ![d] = @ + k], lax)
<1>1. PICK upTo, sum : /\ RunningSum(upTo, f) /\ Adds(sum, held)
                       /\ counted + sum[Runs] <= upTo[MaxDay] + slack
  BY DEF Covered
<1>2. PICK upTo2 : /\ RunningSum(upTo2, [f EXCEPT ![d] = @ + k])
                   /\ upTo2[MaxDay] = upTo[MaxDay] + k
  BY <1>1, ChargedSum
<1>3. PICK sum2 : Adds(sum2, other) /\ sum2[Runs] = sum[Runs] - held[r] + other[r]
  BY <1>1, ChangedSum
<1>4. /\ upTo[MaxDay] \in Int /\ sum[Runs] \in Nat
      /\ held[r] \in Nat /\ other[r] \in Nat
  <2>1. MaxDay \in Days /\ Runs \in SUBSET Runs
    BY QuotaAssumption DEF Days
  <2> QED BY <1>1, <2>1 DEF RunningSum, Adds
<1>5. more + sum2[Runs] <= upTo2[MaxDay] + lax
  BY <1>1, <1>2, <1>3, <1>4
<1> QED BY <1>2, <1>3, <1>5 DEF Covered

\* What is covered with what the runs hold is covered without it.
LEMMA CoveredCounts ==
  ASSUME NEW f, NEW held, NEW counted \in Int, NEW slack \in Int,
         Covered(counted, held, f, slack)
  PROVE  counted <= SumOf(f) + slack
<1>1. PICK upTo, sum : /\ RunningSum(upTo, f) /\ Adds(sum, held)
                       /\ counted + sum[Runs] <= upTo[MaxDay] + slack
  BY DEF Covered
<1>2. upTo[MaxDay] \in Int /\ sum[Runs] \in Nat
  <2>1. MaxDay \in Days /\ Runs \in SUBSET Runs
    BY QuotaAssumption DEF Days
  <2> QED BY <1>1, <2>1 DEF RunningSum, Adds
<1>3. SumOf(f) = upTo[MaxDay]
  BY <1>1, RunningSumIsSumOf
<1> QED BY <1>1, <1>2, <1>3

\* At first nothing is counted and no run holds anything.
LEMMA CoveredAtFirst ==
  Covered(0, [r \in Runs |-> 0], [d \in Days |-> 0], 0)
<1> DEFINE upTo == [d \in Days |-> 0]
           sum == [S \in SUBSET Runs |-> 0]
<1>1. RunningSum(upTo, [d \in Days |-> 0])
  <2>1. \A d \in Days : d # 0 => d - 1 \in Days
    BY QuotaAssumption DEF Days
  <2> QED BY <2>1 DEF RunningSum
<1>2. Adds(sum, [r \in Runs |-> 0])
  BY DEF Adds
<1>3. 0 + sum[Runs] <= upTo[MaxDay] + 0
  BY QuotaAssumption DEF Days
<1> HIDE DEF upTo, sum
<1> QED BY <1>1, <1>2, <1>3 DEF Covered

-----------------------------------------------------------------------------
(* The books of the quota.                                                 *)

\* A run that asks the model holds the request it was counted for.
AskOf(at) == IF at = "model" THEN 1 ELSE 0

Asking == [r \in Runs |-> AskOf(pc[r])]

\* The charge a run may still turn into tokens of the provider: all of its
\* reserve while the model answers, and then what settling will give back.
DueOf(at, reserve, took) ==
    IF at = "model" THEN reserve
    ELSE IF at = "settle" THEN Excess(reserve, took) ELSE 0

Due == [r \in Runs |-> DueOf(pc[r], reserved[r], cost[r])]

Ledger ==
    /\ Covered(calls, Asking, requests, 0)
    /\ Covered(spent, Due, tokens, shortfall + unmeasured)

\* What the runs hold are counts.
LEMMA HeldType ==
  ASSUME TypeOK
  PROVE  Asking \in [Runs -> Nat] /\ Due \in [Runs -> Nat]
<1>1. ASSUME NEW r \in Runs
      PROVE  DueOf(pc[r], reserved[r], cost[r]) \in Nat
  <2>1. cost[r] \in Nat /\ reserved[r] \in Nat
    BY AmountsType
  <2> QED BY <2>1, ExcessBounds DEF DueOf
<1> QED BY <1>1 DEF Asking, AskOf, Due

\* A step of run r charges k requests to the day, and the calls it sends and
\* the request it then holds are no more than that and what it held.
RequestsBalance(r, k) ==
    /\ requests' = [requests EXCEPT ![day] = @ + k]
    /\ \A q \in Runs \ {r} : pc'[q] = pc[q]
    /\ (calls' - calls) + (AskOf(pc'[r]) - AskOf(pc[r])) <= k

\* A step of run r charges k tokens to the day, and the tokens it takes and
\* those it then holds are no more than that, what it held and what is entered
\* as missed.
TokensBalance(r, k) ==
    /\ tokens' = [tokens EXCEPT ![day] = @ + k]
    /\ \A q \in Runs \ {r} :
          pc'[q] = pc[q] /\ reserved'[q] = reserved[q] /\ cost'[q] = cost[q]
    /\ (spent' - spent) + (DueOf(pc'[r], reserved'[r], cost'[r]) - DueOf(pc[r], reserved[r], cost[r]))
         <= k + ((shortfall' + unmeasured') - (shortfall + unmeasured))

\* A step that balances its requests keeps them covered.
LEMMA RequestsStayCovered ==
  ASSUME TypeOK, TypeOK', Ledger, NEW r \in Runs, NEW k \in Int, RequestsBalance(r, k)
  PROVE  Covered(calls', Asking', requests', 0)
<1>1. Asking \in [Runs -> Nat] /\ Asking' \in [Runs -> Nat]
  <2>1. Asking' \in [Runs -> Nat]
    BY DEF Asking, AskOf
  <2> QED BY <2>1, HeldType
<1>2. requests \in [Days -> Int] /\ day \in Days /\ calls \in Int /\ calls' \in Int
  BY DEF TypeOK
<1>3. /\ Asking[r] = AskOf(pc[r]) /\ Asking'[r] = AskOf(pc'[r])
      /\ \A q \in Runs \ {r} : Asking'[q] = Asking[q]
  BY DEF Asking, RequestsBalance
<1>4. /\ (calls' - calls) + (Asking'[r] - Asking[r]) <= k
      /\ requests' = [requests EXCEPT ![day] = @ + k]
  BY <1>3 DEF RequestsBalance
<1>5. PICK none \in Int : none = 0
  OBVIOUS
<1>6. (calls' - calls) + (Asking'[r] - Asking[r]) <= k + (none - none)
  BY <1>4, <1>5
<1>7. Covered(calls, Asking, requests, none)
  BY <1>5 DEF Ledger
<1>8. Covered(calls', Asking', [requests EXCEPT ![day] = @ + k], none)
  BY <1>1, <1>2, <1>3, <1>6, <1>7, CoveredStep
<1> QED BY <1>4, <1>5, <1>8

\* A step that balances its tokens keeps them covered.
LEMMA TokensStayCovered ==
  ASSUME TypeOK, TypeOK', Ledger, NEW r \in Runs, NEW k \in Int, TokensBalance(r, k)
  PROVE  Covered(spent', Due', tokens', shortfall' + unmeasured')
<1>1. Due \in [Runs -> Nat]
  BY HeldType
<1>2. Due' \in [Runs -> Nat]
  <2>1. ASSUME NEW q \in Runs
        PROVE  DueOf(pc'[q], reserved'[q], cost'[q]) \in Nat
    <3>1. cost'[q] \in Nat /\ reserved'[q] \in {0} \union Estimates
      BY DEF TypeOK
    <3>2. \A n \in {0} \union Estimates : n \in Nat
      BY QuotaAssumption
    <3> QED BY <3>1, <3>2, ExcessBounds DEF DueOf
  <2> QED BY <2>1 DEF Due
<1>3. /\ tokens \in [Days -> Int] /\ day \in Days /\ spent \in Int /\ spent' \in Int
      /\ shortfall + unmeasured \in Int /\ shortfall' + unmeasured' \in Int
  BY DEF TypeOK
<1>4. /\ Due[r] = DueOf(pc[r], reserved[r], cost[r])
      /\ Due'[r] = DueOf(pc'[r], reserved'[r], cost'[r])
      /\ \A q \in Runs \ {r} : Due'[q] = Due[q]
  BY DEF Due, TokensBalance
<1>5. (spent' - spent) + (Due'[r] - Due[r])
        <= k + ((shortfall' + unmeasured') - (shortfall + unmeasured))
  BY <1>4 DEF TokensBalance
<1>6. Covered(spent, Due, tokens, shortfall + unmeasured)
  BY DEF Ledger
<1>7. Covered(spent', Due', [tokens EXCEPT ![day] = @ + k], shortfall' + unmeasured')
  BY <1>1, <1>2, <1>3, <1>4, <1>5, <1>6, CoveredStep
<1> QED BY <1>7 DEF TokensBalance

\* Counters that a step leaves alone are charged nothing.
LEMMA NothingCharged ==
  ASSUME NEW f \in [Days -> Int], NEW d \in Days
  PROVE  f = [f EXCEPT ![d] = @ + 0]
OBVIOUS

\* A run ends: what it held is given up, and the counters keep it.
LEMMA EndKeepsLedger ==
  ASSUME TypeOK, TypeOK', Ledger, NEW r \in Runs, End(r), pc[r] # "model",
         UNCHANGED <<requests, tokens, calls, spent, shortfall, unmeasured>>
  PROVE  Ledger'
<1>1. requests' = [requests EXCEPT ![day] = @ + 0] /\ tokens' = [tokens EXCEPT ![day] = @ + 0]
  <2>1. requests \in [Days -> Int] /\ tokens \in [Days -> Int] /\ day \in Days
    BY DEF TypeOK
  <2> QED BY <2>1, NothingCharged
<1>2. Covered(calls', Asking', requests', 0)
  <2>1. calls' - calls = 0
    BY DEF TypeOK
  <2>2. pc' = [pc EXCEPT ![r] = "over"]
    BY DEF End
  <2>3. /\ AskOf(pc'[r]) = 0 /\ AskOf(pc[r]) = 0
        /\ \A q \in Runs \ {r} : pc'[q] = pc[q]
    BY <2>2 DEF TypeOK, AskOf
  <2>4. (calls' - calls) + (AskOf(pc'[r]) - AskOf(pc[r])) <= 0
    BY <2>1, <2>3
  <2>5. RequestsBalance(r, 0)
    BY <1>1, <2>1, <2>2, <2>3, <2>4 DEF RequestsBalance
  <2> QED BY <2>5, RequestsStayCovered
<1>3. Covered(spent', Due', tokens', shortfall' + unmeasured')
  <2>1. /\ pc'[r] = "over" /\ spent' - spent = 0
        /\ (shortfall' + unmeasured') - (shortfall + unmeasured) = 0
        /\ \A q \in Runs \ {r} :
              pc'[q] = pc[q] /\ reserved'[q] = reserved[q] /\ cost'[q] = cost[q]
    BY DEF End, TypeOK
  <2>2. DueOf(pc'[r], reserved'[r], cost'[r]) = 0
    BY <2>1 DEF DueOf
  <2>3. DueOf(pc[r], reserved[r], cost[r]) \in Nat
    BY HeldType DEF Due
  <2>4. (spent' - spent) + (DueOf(pc'[r], reserved'[r], cost'[r]) - DueOf(pc[r], reserved[r], cost[r]))
           <= 0 + ((shortfall' + unmeasured') - (shortfall + unmeasured))
    BY <2>1, <2>2, <2>3
  <2>5. TokensBalance(r, 0)
    BY <1>1, <2>1, <2>4 DEF TokensBalance
  <2> QED BY <2>5, TokensStayCovered
<1> QED BY <1>2, <1>3 DEF Ledger

\* A run moves between the steps of its loop, where it holds nothing.
LEMMA MoveKeepsLedger ==
  ASSUME TypeOK, TypeOK', Ledger, NEW r \in Runs, NEW to \in {"over", "step"},
         pc' = [pc EXCEPT ![r] = to], pc[r] \in {"over", "step", "tools"},
         UNCHANGED <<requests, tokens, reserved, cost, calls, spent, shortfall, unmeasured>>
  PROVE  Ledger'
<1>1. requests' = [requests EXCEPT ![day] = @ + 0] /\ tokens' = [tokens EXCEPT ![day] = @ + 0]
  <2>1. requests \in [Days -> Int] /\ tokens \in [Days -> Int] /\ day \in Days
    BY DEF TypeOK
  <2> QED BY <2>1, NothingCharged
<1>2. Covered(calls', Asking', requests', 0)
  <2>1. calls' - calls = 0
    BY DEF TypeOK
  <2>2. /\ AskOf(pc'[r]) = 0 /\ AskOf(pc[r]) = 0
        /\ \A q \in Runs \ {r} : pc'[q] = pc[q]
    BY DEF TypeOK, AskOf
  <2>3. (calls' - calls) + (AskOf(pc'[r]) - AskOf(pc[r])) <= 0
    BY <2>1, <2>2
  <2>4. RequestsBalance(r, 0)
    BY <1>1, <2>1, <2>2, <2>3 DEF RequestsBalance
  <2> QED BY <2>4, RequestsStayCovered
<1>3. Covered(spent', Due', tokens', shortfall' + unmeasured')
  <2>1. /\ pc'[r] = to /\ spent' - spent = 0
        /\ (shortfall' + unmeasured') - (shortfall + unmeasured) = 0
        /\ \A q \in Runs \ {r} :
              pc'[q] = pc[q] /\ reserved'[q] = reserved[q] /\ cost'[q] = cost[q]
    BY DEF TypeOK
  <2>2. DueOf(pc'[r], reserved'[r], cost'[r]) = 0 /\ DueOf(pc[r], reserved[r], cost[r]) = 0
    BY <2>1 DEF DueOf
  <2>3. (spent' - spent) + (DueOf(pc'[r], reserved'[r], cost'[r]) - DueOf(pc[r], reserved[r], cost[r]))
           <= 0 + ((shortfall' + unmeasured') - (shortfall + unmeasured))
    BY <2>1, <2>2
  <2>4. TokensBalance(r, 0)
    BY <1>1, <2>1, <2>3 DEF TokensBalance
  <2> QED BY <2>4, TokensStayCovered
<1> QED BY <1>2, <1>3 DEF Ledger

\* The Lua script counts the request and the reserve that the run then holds;
\* when its reply is lost they stay counted and nobody holds them.
LEMMA ChargeKeepsLedger ==
  ASSUME TypeOK, TypeOK', Ledger, NEW r \in Runs, NEW e \in Estimates, Charge(e),
         pc[r] = "step", NEW to \in {"model", "over"}, pc' = [pc EXCEPT ![r] = to],
         \A q \in Runs \ {r} : reserved'[q] = reserved[q], to = "model" => reserved'[r] = e,
         UNCHANGED <<cost, calls, spent, shortfall, unmeasured>>
  PROVE  Ledger'
<1>1. /\ requests' = [requests EXCEPT ![day] = @ + 1]
      /\ tokens' = [tokens EXCEPT ![day] = @ + e] /\ e \in Nat
  BY QuotaAssumption DEF Charge
<1>2. Covered(calls', Asking', requests', 0)
  <2>1. calls' - calls = 0
    BY DEF TypeOK
  <2>2. /\ AskOf(pc'[r]) \in 0..1 /\ AskOf(pc[r]) = 0
        /\ \A q \in Runs \ {r} : pc'[q] = pc[q]
    BY DEF TypeOK, AskOf
  <2>3. (calls' - calls) + (AskOf(pc'[r]) - AskOf(pc[r])) <= 1
    BY <2>1, <2>2
  <2>4. RequestsBalance(r, 1)
    BY <1>1, <2>1, <2>2, <2>3 DEF RequestsBalance
  <2> QED BY <2>4, RequestsStayCovered
<1>3. Covered(spent', Due', tokens', shortfall' + unmeasured')
  <2>1. /\ pc'[r] = to /\ spent' - spent = 0
        /\ (shortfall' + unmeasured') - (shortfall + unmeasured) = 0
        /\ \A q \in Runs \ {r} :
              pc'[q] = pc[q] /\ reserved'[q] = reserved[q] /\ cost'[q] = cost[q]
    BY DEF TypeOK
  <2>2. DueOf(pc'[r], reserved'[r], cost'[r]) \in 0..e /\ DueOf(pc[r], reserved[r], cost[r]) = 0
    BY <1>1, <2>1 DEF DueOf
  <2>3. (spent' - spent) + (DueOf(pc'[r], reserved'[r], cost'[r]) - DueOf(pc[r], reserved[r], cost[r]))
           <= e + ((shortfall' + unmeasured') - (shortfall + unmeasured))
    BY <1>1, <2>1, <2>2
  <2>4. TokensBalance(r, e)
    BY <1>1, <2>1, <2>3 DEF TokensBalance
  <2>5. e \in Int
    BY <1>1
  <2> QED BY <2>4, <2>5, TokensStayCovered
<1> QED BY <1>2, <1>3 DEF Ledger

\* The model answers: the tokens it gave come out of the reserve, or are
\* entered in what step_tokens missed and what settling has to add.
LEMMA AnswerKeepsLedger ==
  ASSUME TypeOK, TypeOK', Ledger, NEW r \in Runs, NEW took \in Costs,
         NEW usage \in Reported(took), NEW written \in Written, Answer(r, took, usage, written)
  PROVE  Ledger'
<1> DEFINE measured == StepTokens(r, usage, written)
<1>1. took \in Nat /\ reserved[r] \in Nat /\ measured \in Nat
  BY AmountsType, StepTokensType, QuotaAssumption DEF Answer
<1>2. /\ pc[r] = "model" /\ pc' = [pc EXCEPT ![r] = "settle"]
      /\ cost' = [cost EXCEPT ![r] = measured] /\ reserved' = reserved
      /\ calls' = calls + 1 /\ spent' = spent + took
      /\ shortfall' = shortfall + Excess(measured, reserved[r])
      /\ unmeasured' = unmeasured + Excess(took, measured)
      /\ UNCHANGED <<requests, tokens>>
  BY DEF Answer, quota
<1> HIDE DEF measured
<1>3. requests' = [requests EXCEPT ![day] = @ + 0] /\ tokens' = [tokens EXCEPT ![day] = @ + 0]
  <2>1. requests \in [Days -> Int] /\ tokens \in [Days -> Int] /\ day \in Days
    BY DEF TypeOK
  <2> QED BY <1>2, <2>1, NothingCharged
<1>4. Covered(calls', Asking', requests', 0)
  <2>1. calls' - calls = 1
    BY <1>2 DEF TypeOK
  <2>2. /\ AskOf(pc'[r]) = 0 /\ AskOf(pc[r]) = 1
        /\ \A q \in Runs \ {r} : pc'[q] = pc[q]
    BY <1>2 DEF TypeOK, AskOf
  <2>3. (calls' - calls) + (AskOf(pc'[r]) - AskOf(pc[r])) <= 0
    BY <2>1, <2>2
  <2>4. RequestsBalance(r, 0)
    BY <1>2, <1>3, <2>1, <2>2, <2>3 DEF RequestsBalance
  <2> QED BY <2>4, RequestsStayCovered
<1>5. Covered(spent', Due', tokens', shortfall' + unmeasured')
  <2>1. /\ pc'[r] = "settle" /\ cost'[r] = measured /\ reserved'[r] = reserved[r]
        /\ spent \in Nat /\ shortfall \in Int /\ unmeasured \in Nat
        /\ \A q \in Runs \ {r} :
              pc'[q] = pc[q] /\ reserved'[q] = reserved[q] /\ cost'[q] = cost[q]
    BY <1>2 DEF TypeOK
  <2>2. /\ DueOf(pc'[r], reserved'[r], cost'[r]) = Excess(reserved[r], measured)
        /\ DueOf(pc[r], reserved[r], cost[r]) = reserved[r]
    BY <1>2, <2>1 DEF DueOf
  <2>3. took + (Excess(reserved[r], measured) - reserved[r])
           <= Excess(measured, reserved[r]) + Excess(took, measured)
    BY <1>1 DEF Excess
  <2>4. /\ Excess(measured, reserved[r]) \in Nat /\ Excess(took, measured) \in Nat
        /\ Excess(reserved[r], measured) \in Nat
    BY <1>1, ExcessBounds
  <2>5. (spent' - spent) + (DueOf(pc'[r], reserved'[r], cost'[r]) - DueOf(pc[r], reserved[r], cost[r]))
           <= 0 + ((shortfall' + unmeasured') - (shortfall + unmeasured))
    BY <1>1, <1>2, <2>1, <2>2, <2>3, <2>4
  <2>6. TokensBalance(r, 0)
    BY <1>3, <2>1, <2>5 DEF TokensBalance
  <2> QED BY <2>6, TokensStayCovered
<1> QED BY <1>4, <1>5 DEF Ledger

\* An interrupted step leaves its reserve charged.
LEMMA InterruptKeepsLedger ==
  ASSUME TypeOK, TypeOK', Ledger, NEW r \in Runs, NEW took \in Costs, Interrupt(r, took)
  PROVE  Ledger'
<1>1. took \in Nat /\ reserved[r] \in Nat /\ Excess(took, reserved[r]) \in Nat
  BY AmountsType, ExcessBounds, QuotaAssumption
<1>2. /\ pc[r] = "model" /\ pc' = [pc EXCEPT ![r] = "over"]
      /\ calls' = calls + 1 /\ spent' = spent + took
      /\ shortfall' = shortfall + Excess(took, reserved[r])
      /\ UNCHANGED <<requests, tokens, unmeasured>>
  BY DEF Interrupt, End, AfterInterruption
<1>3. requests' = [requests EXCEPT ![day] = @ + 0] /\ tokens' = [tokens EXCEPT ![day] = @ + 0]
  <2>1. requests \in [Days -> Int] /\ tokens \in [Days -> Int] /\ day \in Days
    BY DEF TypeOK
  <2> QED BY <1>2, <2>1, NothingCharged
<1>4. Covered(calls', Asking', requests', 0)
  <2>1. calls' - calls = 1
    BY <1>2 DEF TypeOK
  <2>2. /\ AskOf(pc'[r]) = 0 /\ AskOf(pc[r]) = 1
        /\ \A q \in Runs \ {r} : pc'[q] = pc[q]
    BY <1>2 DEF TypeOK, AskOf
  <2>3. (calls' - calls) + (AskOf(pc'[r]) - AskOf(pc[r])) <= 0
    BY <2>1, <2>2
  <2>4. RequestsBalance(r, 0)
    BY <1>2, <1>3, <2>1, <2>2, <2>3 DEF RequestsBalance
  <2> QED BY <2>4, RequestsStayCovered
<1>5. Covered(spent', Due', tokens', shortfall' + unmeasured')
  <2>1. /\ pc'[r] = "over" /\ spent \in Nat /\ shortfall \in Int /\ unmeasured \in Nat
        /\ \A q \in Runs \ {r} :
              pc'[q] = pc[q] /\ reserved'[q] = reserved[q] /\ cost'[q] = cost[q]
    BY <1>2 DEF TypeOK, Interrupt, End
  <2>2. /\ DueOf(pc'[r], reserved'[r], cost'[r]) = 0
        /\ DueOf(pc[r], reserved[r], cost[r]) = reserved[r]
    BY <1>2, <2>1 DEF DueOf
  <2>3. took - reserved[r] <= Excess(took, reserved[r])
    BY <1>1, ExcessBounds
  <2>4. (spent' - spent) + (DueOf(pc'[r], reserved'[r], cost'[r]) - DueOf(pc[r], reserved[r], cost[r]))
           <= 0 + ((shortfall' + unmeasured') - (shortfall + unmeasured))
    BY <1>1, <1>2, <2>1, <2>2, <2>3
  <2>5. TokensBalance(r, 0)
    BY <1>3, <2>1, <2>4 DEF TokensBalance
  <2> QED BY <2>5, TokensStayCovered
<1> QED BY <1>4, <1>5 DEF Ledger

\* A correction gives back at most what the run does not need any more.
LEMMA CorrectKeepsLedger ==
  ASSUME TypeOK, TypeOK', Ledger, NEW r \in Runs, pc[r] = "settle", Correct(r),
         NEW to \in {"over", "tools"}, pc' = [pc EXCEPT ![r] = to],
         reserved' = [reserved EXCEPT ![r] = 0], cost' = [cost EXCEPT ![r] = 0],
         UNCHANGED <<requests, calls, spent, unmeasured>>
  PROVE  Ledger'
<1>1. /\ cost[r] \in Nat /\ reserved[r] \in Nat /\ Delta(r) = cost[r] - reserved[r]
      /\ Excess(cost[r], reserved[r]) \in Nat
  BY AmountsType, ExcessBounds DEF Delta
<1>2. /\ tokens' = [tokens EXCEPT ![day] = @ + Delta(r)] /\ Delta(r) \in Int
      /\ shortfall' = shortfall - Excess(cost[r], reserved[r])
  BY <1>1 DEF Correct
<1>3. Covered(calls', Asking', requests', 0)
  <2>1. requests' = [requests EXCEPT ![day] = @ + 0]
    <3>1. requests \in [Days -> Int] /\ day \in Days
      BY DEF TypeOK
    <3> QED BY <3>1, NothingCharged
  <2>2. calls' - calls = 0
    BY DEF TypeOK
  <2>3. /\ AskOf(pc'[r]) = 0 /\ AskOf(pc[r]) = 0
        /\ \A q \in Runs \ {r} : pc'[q] = pc[q]
    BY DEF TypeOK, AskOf
  <2>4. (calls' - calls) + (AskOf(pc'[r]) - AskOf(pc[r])) <= 0
    BY <2>2, <2>3
  <2>5. RequestsBalance(r, 0)
    BY <2>1, <2>2, <2>3, <2>4 DEF RequestsBalance
  <2> QED BY <2>5, RequestsStayCovered
<1>4. Covered(spent', Due', tokens', shortfall' + unmeasured')
  <2>1. /\ pc'[r] = to /\ spent \in Nat /\ shortfall \in Int /\ unmeasured \in Nat
        /\ \A q \in Runs \ {r} :
              pc'[q] = pc[q] /\ reserved'[q] = reserved[q] /\ cost'[q] = cost[q]
    BY DEF TypeOK
  <2>2. /\ DueOf(pc'[r], reserved'[r], cost'[r]) = 0
        /\ DueOf(pc[r], reserved[r], cost[r]) = Excess(reserved[r], cost[r])
    BY <2>1 DEF DueOf
  <2>3. 0 - Excess(reserved[r], cost[r]) <= (cost[r] - reserved[r]) - Excess(cost[r], reserved[r])
    BY <1>1 DEF Excess
  <2>4. Excess(reserved[r], cost[r]) \in Nat
    BY <1>1, ExcessBounds
  <2>5. (spent' - spent) + (DueOf(pc'[r], reserved'[r], cost'[r]) - DueOf(pc[r], reserved[r], cost[r]))
           <= Delta(r) + ((shortfall' + unmeasured') - (shortfall + unmeasured))
    BY <1>1, <1>2, <2>1, <2>2, <2>3, <2>4
  <2>6. TokensBalance(r, Delta(r))
    BY <1>2, <2>1, <2>5 DEF TokensBalance
  <2> QED BY <2>6, <1>2, TokensStayCovered
<1> QED BY <1>3, <1>4 DEF Ledger

\* At midnight the books stay as they are.
LEMMA IdleKeepsLedger ==
  ASSUME Ledger, UNCHANGED <<requests, tokens, pc, reserved, cost, calls, spent, shortfall, unmeasured>>
  PROVE  Ledger'
<1>1. Asking' = Asking /\ Due' = Due
  BY DEF Asking, Due
<1>2. Covered(calls', Asking', requests', 0)
  BY <1>1 DEF Ledger
<1>3. Covered(spent', Due', tokens', shortfall' + unmeasured')
  BY <1>1 DEF Ledger
<1> QED BY <1>2, <1>3 DEF Ledger

\* No step makes the counters forget a request or a reserve.
LEMMA StepKeepsLedger ==
  ASSUME TypeOK, TypeOK', Ledger, [Next]_vars
  PROVE  Ledger'
<1>1. CASE Midnight \/ UNCHANGED vars
  BY <1>1, IdleKeepsLedger DEF Midnight, vars, quota, run, history
<1>2. ASSUME NEW r \in Runs, Open(r) \/ UseTools(r)
      PROVE  Ledger'
  <2>1. /\ \E to \in {"over", "step"} : pc' = [pc EXCEPT ![r] = to]
        /\ pc[r] \in {"over", "step", "tools"}
        /\ UNCHANGED <<requests, tokens, reserved, cost, calls, spent, shortfall, unmeasured>>
    BY <1>2 DEF Open, UseTools, quota, history
  <2> QED BY <2>1, MoveKeepsLedger
<1>3. ASSUME NEW r \in Runs, NEW e \in Estimates, Reserve(r, e)
      PROVE  Ledger'
  <2>1. /\ Charge(e) /\ pc[r] = "step" /\ pc' = [pc EXCEPT ![r] = "model"]
        /\ \A q \in Runs \ {r} : reserved'[q] = reserved[q]
        /\ reserved'[r] = e
        /\ UNCHANGED <<cost, calls, spent, shortfall, unmeasured>>
    BY <1>3 DEF Reserve, history, TypeOK
  <2> QED BY <2>1, ChargeKeepsLedger
<1>4. ASSUME NEW r \in Runs, NEW e \in Estimates, Refuse(r, e)
      PROVE  Ledger'
  <2>1. /\ End(r) /\ pc[r] # "model"
        /\ UNCHANGED <<requests, tokens, calls, spent, shortfall, unmeasured>>
    BY <1>4 DEF Refuse, quota, history
  <2> QED BY <2>1, EndKeepsLedger
<1>5. ASSUME NEW r \in Runs, NEW e \in Estimates, ReserveFails(r, e)
      PROVE  Ledger'
  <2>1. /\ pc[r] = "step" /\ pc' = [pc EXCEPT ![r] = "over"]
        /\ UNCHANGED <<reserved, cost, calls, spent, shortfall, unmeasured>>
    BY <1>5 DEF ReserveFails, AfterRedisError, history
  <2>2. CASE UNCHANGED quota
    BY <2>1, <2>2, MoveKeepsLedger DEF quota
  <2>3. CASE Charge(e)
    BY <2>1, <2>3, ChargeKeepsLedger
  <2> QED BY <1>5, <2>2, <2>3 DEF ReserveFails
<1>6. ASSUME NEW r \in Runs, NEW took \in Costs, NEW usage \in Reported(took),
             NEW written \in Written, Answer(r, took, usage, written)
      PROVE  Ledger'
  BY <1>6, AnswerKeepsLedger
<1>7. ASSUME NEW r \in Runs, NEW took \in Costs, Interrupt(r, took)
      PROVE  Ledger'
  BY <1>7, InterruptKeepsLedger
<1>8. ASSUME NEW r \in Runs, Settle(r)
      PROVE  Ledger'
  <2>1. /\ pc[r] = "settle" /\ Correct(r)
        /\ UNCHANGED <<requests, calls, spent, unmeasured>>
        /\ \E to \in {"over", "tools"} : pc' = [pc EXCEPT ![r] = to]
        /\ reserved' = [reserved EXCEPT ![r] = 0] /\ cost' = [cost EXCEPT ![r] = 0]
    BY <1>8 DEF Settle, End
  <2> QED BY <2>1, CorrectKeepsLedger
<1>9. ASSUME NEW r \in Runs, SettleFails(r)
      PROVE  Ledger'
  <2>1. pc[r] = "settle" /\ End(r) /\ UNCHANGED <<requests, calls, spent, unmeasured>>
    BY <1>9 DEF SettleFails
  <2>2. CASE Correct(r)
    <3>1. /\ pc' = [pc EXCEPT ![r] = "over"]
          /\ reserved' = [reserved EXCEPT ![r] = 0] /\ cost' = [cost EXCEPT ![r] = 0]
      BY <2>1 DEF End
    <3> QED BY <2>1, <2>2, <3>1, CorrectKeepsLedger
  <2>3. CASE UNCHANGED <<tokens, overrun, shortfall>>
    BY <2>1, <2>3, EndKeepsLedger
  <2> QED BY <1>9, <2>2, <2>3 DEF SettleFails
<1>10. ASSUME NEW r \in Runs, Leave(r)
       PROVE  Ledger'
  <2>1. /\ End(r) /\ pc[r] # "model"
        /\ UNCHANGED <<requests, tokens, calls, spent, shortfall, unmeasured>>
    BY <1>10 DEF Leave, quota, history
  <2> QED BY <2>1, EndKeepsLedger
<1> QED BY <1>1, <1>2, <1>3, <1>4, <1>5, <1>6, <1>7, <1>8, <1>9, <1>10 DEF Next

\* The books are empty at first, and always balanced.
LEMMA LedgerHolds == Spec => [](TypeOK /\ Ledger)
<1>1. Init => Ledger
  <2> SUFFICES ASSUME Init
               PROVE  Ledger
    OBVIOUS
  <2>1. Asking = [r \in Runs |-> 0] /\ Due = [r \in Runs |-> 0]
    BY DEF Init, Asking, AskOf, Due, DueOf
  <2>2. /\ requests = [d \in Days |-> 0] /\ tokens = [d \in Days |-> 0]
        /\ calls = 0 /\ spent = 0 /\ shortfall + unmeasured = 0
    BY DEF Init
  <2> QED BY <2>1, <2>2, CoveredAtFirst DEF Ledger
<1>2. TypeOK /\ Ledger /\ [Next]_vars => Ledger'
  BY StepQuotaType, StepKeepsLedger
<1> QED BY <1>1, <1>2, QuotaTypeCorrect, PTL DEF Spec

\* Through every failure of Redis, every interruption and every midnight, and
\* however many chats run: the model is asked for no step that Redis did not
\* count.
THEOREM CallsAreCounted == Spec => []CallsCounted
<1>1. TypeOK /\ Ledger => CallsCounted
  <2> SUFFICES ASSUME TypeOK, Ledger
               PROVE  CallsCounted
    OBVIOUS
  <2>1. calls \in Int /\ Covered(calls, Asking, requests, 0)
    BY DEF TypeOK, Ledger
  <2>2. \E upTo : RunningSum(upTo, requests)
    BY <2>1 DEF Covered
  <2>3. SumOf(requests) \in Int
    <3>1. PICK upTo : RunningSum(upTo, requests)
      BY <2>2
    <3>2. SumOf(requests) = upTo[MaxDay] /\ MaxDay \in Days
      BY <3>1, RunningSumIsSumOf, QuotaAssumption DEF Days
    <3> QED BY <3>1, <3>2 DEF RunningSum
  <2>4. calls <= SumOf(requests) + 0
    BY <2>1, CoveredCounts
  <2> QED BY <2>1, <2>3, <2>4 DEF CallsCounted
<1> QED BY <1>1, LedgerHolds, PTL

\* What the days were charged covers what the provider gave, but for what is
\* entered as missed: neither a race of settlements over midnight nor a lost
\* reply nor an interruption takes a reserve back that was used.
THEOREM ChargeCovers == Spec => []ChargeCoversCost
<1>1. TypeOK /\ Ledger => ChargeCoversCost
  <2> SUFFICES ASSUME TypeOK, Ledger
               PROVE  ChargeCoversCost
    OBVIOUS
  <2>1. /\ spent \in Int /\ shortfall \in Int /\ unmeasured \in Int
        /\ Covered(spent, Due, tokens, shortfall + unmeasured)
    BY DEF TypeOK, Ledger
  <2>2. \E upTo : RunningSum(upTo, tokens)
    BY <2>1 DEF Covered
  <2>3. SumOf(tokens) \in Int
    <3>1. PICK upTo : RunningSum(upTo, tokens)
      BY <2>2
    <3>2. SumOf(tokens) = upTo[MaxDay] /\ MaxDay \in Days
      BY <3>1, RunningSumIsSumOf, QuotaAssumption DEF Days
    <3> QED BY <3>1, <3>2 DEF RunningSum
  <2>4. spent <= SumOf(tokens) + (shortfall + unmeasured)
    BY <2>1, CoveredCounts
  <2> QED BY <2>1, <2>3, <2>4 DEF ChargeCoversCost
<1> QED BY <1>1, LedgerHolds, PTL

-----------------------------------------------------------------------------
(* What filter() keeps.                                                     *)

\* What comes before each of a set of places, in a strict total order of them.
Orders(before, S) ==
  /\ before \in [S -> SUBSET S]
  /\ \A x \in S : x \notin before[x]
  /\ \A x, y \in S : x # y => \/ x \in before[y] /\ before[x] \subseteq before[y]
                              \/ y \in before[x] /\ before[y] \subseteq before[x]

Place(before, S) == [x \in S |-> Cardinality(before[x])]

LEMMA FewerBefore ==
  ASSUME NEW S, IsFiniteSet(S), NEW before, Orders(before, S),
         NEW x \in S, NEW y \in S, x \in before[y], before[x] \subseteq before[y]
  PROVE  Cardinality(before[x]) < Cardinality(before[y])
<1>1. before[y] \in SUBSET S /\ before[x] \in SUBSET S /\ x \notin before[x]
  BY DEF Orders
<1>2. IsFiniteSet(before[y])
  BY <1>1, FS_Subset
<1>3. before[x] \in SUBSET before[y] /\ before[x] # before[y]
  BY <1>1
<1>4. IsFiniteSet(before[x]) /\ Cardinality(before[x]) <= Cardinality(before[y])
      /\ Cardinality(before[y]) # Cardinality(before[x])
  BY <1>2, <1>3, FS_Subset
<1>5. Cardinality(before[x]) \in Nat /\ Cardinality(before[y]) \in Nat
  BY <1>2, <1>4, FS_CardinalityType
<1> QED BY <1>4, <1>5

\* Every place is taken, by one entry: the numbers of places before are 0 .. n - 1.
LEMMA PlacesAreTaken ==
  ASSUME NEW S, IsFiniteSet(S), NEW before, Orders(before, S)
  PROVE  /\ Cardinality(S) \in Nat
         /\ Place(before, S) \in Bijection(S, 0..(Cardinality(S) - 1))
<1> DEFINE n == Cardinality(S)
           T == 0..(n - 1)
           f == Place(before, S)
<1>1. n \in Nat
  BY FS_CardinalityType
<1>2. ASSUME NEW x \in S
      PROVE  f[x] = Cardinality(before[x]) /\ f[x] \in T
  <2>1. before[x] \in SUBSET S /\ before[x] # S
    BY DEF Orders
  <2>2. IsFiniteSet(before[x]) /\ Cardinality(before[x]) <= n /\ n # Cardinality(before[x])
    BY <2>1, FS_Subset
  <2>3. Cardinality(before[x]) \in Nat
    BY <2>2, FS_CardinalityType
  <2>4. f[x] = Cardinality(before[x])
    BY DEF Place
  <2> QED BY <1>1, <2>2, <2>3, <2>4
<1>3. f \in [S -> T]
  <2>1. f = [x \in S |-> f[x]]
    BY DEF Place
  <2> HIDE DEF f, T
  <2> QED BY <1>2, <2>1
<1>4. ASSUME NEW x \in S, NEW y \in S, f[x] = f[y]
      PROVE  x = y
  <2> SUFFICES ASSUME x # y PROVE FALSE
    OBVIOUS
  <2>1. f[x] \in Int /\ f[y] \in Int
    BY <1>2
  <2>2. CASE x \in before[y] /\ before[x] \subseteq before[y]
    <3>1. f[x] < f[y]
      BY <1>2, <2>2, FewerBefore
    <3> QED BY <1>4, <2>1, <3>1
  <2>3. CASE y \in before[x] /\ before[y] \subseteq before[x]
    <3>1. f[y] < f[x]
      BY <1>2, <2>3, FewerBefore
    <3> QED BY <1>4, <2>1, <3>1
  <2> QED BY <2>2, <2>3 DEF Orders
<1>5. f \in Injection(S, T)
  <2> HIDE DEF f, T
  <2> QED BY <1>3, <1>4 DEF Injection, IsInjective
<1>6. IsFiniteSet(T) /\ Cardinality(T) = n
  <2>1. IsFiniteSet(T) /\ Cardinality(T) = IF 0 > n - 1 THEN 0 ELSE (n - 1) - 0 + 1
    BY <1>1, FS_Interval
  <2> QED BY <1>1, <2>1
<1>7. f \in Surjection(S, T)
  <2> HIDE DEF f, T, n
  <2>1. Cardinality(S) = Cardinality(T)
    BY <1>6 DEF n
  <2> QED BY <1>5, <1>6, <2>1, FS_Injection
<1> QED BY <1>1, <1>5, <1>7 DEF Bijection

\* The k-th of a set of numbers is one of them, and each of them is some k-th.
LEMMA NthIs ==
  ASSUME NEW S \in SUBSET Int, IsFiniteSet(S)
  PROVE  /\ Cardinality(S) \in Nat
         /\ \A k \in 1..Cardinality(S) : Nth(S, k) \in S
         /\ \A x \in S : \E k \in 1..Cardinality(S) : Nth(S, k) = x
<1> DEFINE before == [d \in S |-> {e \in S : e < d}]
           n == Cardinality(S)
           f == Place(before, S)
<1>1. Orders(before, S)
  <2>1. \A x, y \in S : x # y => x < y \/ y < x
    OBVIOUS
  <2>2. ASSUME NEW x \in S, NEW y \in S, x < y
        PROVE  x \in before[y] /\ before[x] \subseteq before[y]
    <3>1. \A e \in S : e < x => e < y
      BY <2>2
    <3> QED BY <2>2, <3>1
  <2>3. before \in [S -> SUBSET S] /\ \A x \in S : x \notin before[x]
    OBVIOUS
  <2> HIDE DEF before
  <2> QED BY <2>1, <2>2, <2>3 DEF Orders
<1>2. n \in Nat /\ f \in Bijection(S, 0..(n - 1))
  <2> HIDE DEF before
  <2> QED BY <1>1, PlacesAreTaken
<1>3. \A x \in S : f[x] = Cardinality({e \in S : e < x})
  BY DEF Place
<1>4. /\ f \in [S -> 0..(n - 1)]
      /\ \A p \in 0..(n - 1) : \E x \in S : f[x] = p
      /\ \A x, y \in S : f[x] = f[y] => x = y
  <2> HIDE DEF f, n
  <2> QED BY <1>2 DEF Bijection, Injection, Surjection, IsInjective
<1>5. ASSUME NEW k \in 1..n
      PROVE  Nth(S, k) \in S /\ f[Nth(S, k)] = k - 1
  <2>1. k - 1 \in 0..(n - 1)
    BY <1>2
  <2>2. \E x \in S : Cardinality({e \in S : e < x}) = k - 1
    <3> HIDE DEF f, n
    <3> QED BY <1>3, <1>4, <2>1
  <2>3. Nth(S, k) \in S /\ Cardinality({e \in S : e < Nth(S, k)}) = k - 1
    BY <2>2 DEF Nth
  <2> HIDE DEF f
  <2> QED BY <1>3, <2>3
<1>6. ASSUME NEW x \in S
      PROVE  \E k \in 1..n : Nth(S, k) = x
  <2> DEFINE k == f[x] + 1
  <2>1. f[x] \in 0..(n - 1)
    <3> HIDE DEF f, n
    <3> QED BY <1>4
  <2>2. k \in 1..n /\ k - 1 = f[x]
    <3> HIDE DEF f, n
    <3> QED BY <1>2, <2>1
  <2> HIDE DEF k, f, n
  <2>3. Nth(S, k) = x
    BY <1>4, <1>5, <2>2
  <2> QED BY <2>2, <2>3
<1> QED BY <1>2, <1>5, <1>6

-----------------------------------------------------------------------------
(* The dialogue.                                                            *)

Dialogue == [role : {"user", "assistant", "error"}, size : Nat,
             status : {"none", "streaming", "done", "stopped"}, of : 0..MaxQuestions]

\* A user's entry could be asked, and an answer has its question.
Sound(e) ==
    /\ e \in Dialogue
    /\ e.role = "user" => e.size \in 1..MaxMessageChars
    /\ e.role = "assistant" => e.of \in Questions

DialogueInv ==
    /\ entries \in Seq(Dialogue) /\ \A i \in DOMAIN entries : Sound(entries[i])
    /\ isStreaming \in BOOLEAN
    /\ asked \in 0..MaxQuestions
    /\ stream \in [Questions -> {"none", "sent", "open", "finished", "closed"}]
    /\ said \in [Questions -> [end : {"none", "done", "error"}, text : Nat]]

\* What filter() returns are the entries it is to keep, all of them.
LEMMA FilteredIs ==
  ASSUME NEW E, NEW list \in Seq(E), NEW places \in SUBSET DOMAIN list
  PROVE  /\ Filtered(list, places) \in Seq(E)
         /\ DOMAIN Filtered(list, places) = 1..Cardinality(places)
         /\ \A k \in DOMAIN Filtered(list, places) : \E i \in places : Filtered(list, places)[k] = list[i]
         /\ \A i \in places : \E k \in DOMAIN Filtered(list, places) : Filtered(list, places)[k] = list[i]
<1> DEFINE F == Filtered(list, places)
           n == Cardinality(places)
<1>1. DOMAIN list = 1..Len(list) /\ Len(list) \in Nat /\ \A i \in DOMAIN list : list[i] \in E
  OBVIOUS
<1>2. IsFiniteSet(places) /\ places \in SUBSET Int
  <2>1. IsFiniteSet(1..Len(list))
    BY <1>1, FS_Interval
  <2>2. places \subseteq 1..Len(list)
    BY <1>1
  <2> QED BY <2>1, <2>2, FS_Subset
<1>3. /\ n \in Nat
      /\ \A k \in 1..n : Nth(places, k) \in places
      /\ \A x \in places : \E k \in 1..n : Nth(places, k) = x
  BY <1>2, NthIs
<1>4. F = [k \in 1..n |-> list[Nth(places, k)]]
  BY DEF Filtered
<1> HIDE DEF F, n
<1>5. F \in [1..n -> E]
  BY <1>1, <1>3, <1>4
<1>6. F \in Seq(E) /\ DOMAIN F = 1..n
  BY <1>3, <1>5
<1>7. \A k \in 1..n : \E i \in places : F[k] = list[i]
  BY <1>3, <1>4
<1>8. \A i \in places : \E k \in 1..n : F[k] = list[i]
  BY <1>3, <1>4
<1> QED BY <1>6, <1>7, <1>8 DEF F, n

\* The distances to n are natural numbers, and the least of them is that of
\* the last place.
LEMMA MaximumExists ==
  ASSUME NEW n \in Nat, NEW S \in SUBSET (1..n), S # {}
  PROVE  \E i \in S : \A j \in S : j <= i
<1> DEFINE Distances == {n - i : i \in S}
           Less == OpToRel(<, Nat)
<1>1. Distances \subseteq Nat /\ Distances # {}
  <2>1. \A i \in S : n - i \in Nat
    OBVIOUS
  <2>2. PICK i \in S : TRUE
    OBVIOUS
  <2>3. n - i \in Distances
    OBVIOUS
  <2> QED BY <2>1, <2>3
<1>2. PICK d \in Distances : \A e \in Distances : ~ (<<e, d>> \in Less)
  <2> HIDE DEF Distances, Less
  <2> QED BY <1>1, NatLessThanWellFounded, WFMin DEF Less
<1>3. PICK i \in S : d = n - i
  BY <1>2
<1>4. ASSUME NEW j \in S
      PROVE  j <= i
  <2>1. n - j \in Distances /\ n - j \in Nat /\ d \in Nat
    BY <1>1
  <2>2. ~ (n - j < d)
    BY <1>2, <2>1 DEF OpToRel
  <2>3. i \in Nat /\ j \in Nat
    OBVIOUS
  <2> HIDE DEF Distances, Less
  <2> QED BY <1>3, <2>2, <2>3
<1> QED BY <1>4

\* The least is the greatest seen from the other end.
LEMMA MinimumExists ==
  ASSUME NEW n \in Nat, NEW S \in SUBSET (1..n), S # {}
  PROVE  \E i \in S : \A j \in S : i <= j
<1> DEFINE Mirror == {n + 1 - i : i \in S}
<1>1. Mirror \in SUBSET (1..n) /\ Mirror # {}
  <2>1. \A i \in S : n + 1 - i \in 1..n
    OBVIOUS
  <2> QED BY <2>1
<1>2. PICK m \in Mirror : \A k \in Mirror : k <= m
  <2> HIDE DEF Mirror
  <2> QED BY <1>1, MaximumExists
<1>3. PICK i \in S : m = n + 1 - i
  BY <1>2
<1>4. \A j \in S : n + 1 - j <= n + 1 - i
  BY <1>2, <1>3
<1> QED BY <1>3, <1>4

Statuses == {"streaming", "done", "stopped"}

\* What mapLastAssistant makes of the entry it finds.
Changed(e, status, more) == [e EXCEPT !.status = status, !.size = @ + more]

LEMMA ChangedIs ==
  ASSUME NEW e, Sound(e), e.role = "assistant", NEW status \in Statuses, NEW more \in Nat
  PROVE  /\ Sound(Changed(e, status, more))
         /\ Changed(e, status, more).role = "assistant"
         /\ Changed(e, status, more).of = e.of
         /\ Changed(e, status, more).status = status
         /\ Changed(e, status, more).size = e.size + more
<1> DEFINE new == [role |-> e.role, size |-> e.size + more, status |-> status, of |-> e.of]
<1>1. e \in Dialogue /\ e.of \in Questions
  BY DEF Sound
<1>2. Changed(e, status, more) = new
  <2>1. /\ DOMAIN e = {"role", "size", "status", "of"}
        /\ e = [f \in {"role", "size", "status", "of"} |-> e[f]]
    BY <1>1 DEF Dialogue
  <2>2. Changed(e, status, more) = [f \in {"role", "size", "status", "of"} |->
            IF f = "size" THEN e.size + more ELSE IF f = "status" THEN status ELSE e[f]]
    BY <2>1 DEF Changed
  <2> QED BY <2>2
<1>3. /\ new.role = "assistant" /\ new.of = e.of /\ new.status = status
      /\ new.size = e.size + more
  OBVIOUS
<1>4. new \in Dialogue
  BY <1>1 DEF Dialogue, Statuses
<1> HIDE DEF new
<1> QED BY <1>1, <1>2, <1>3, <1>4 DEF Sound

LEMMA LastOfCurrent ==
  ASSUME DialogueInv
  PROVE  /\ Current \subseteq DOMAIN entries
         /\ Current # {} => Max(Current) \in Current
<1>1. Current \in SUBSET (1..Len(entries)) /\ Len(entries) \in Nat /\ DOMAIN entries = 1..Len(entries)
  BY DEF DialogueInv, Current
<1>2. ASSUME Current # {}
      PROVE  Max(Current) \in Current
  <2>1. \E i \in Current : \A j \in Current : j <= i
    <3> HIDE DEF Current
    <3> QED BY <1>1, <1>2, MaximumExists
  <2>2. \E i \in Current : \A j \in Current : i >= j
    BY <1>1, <2>1
  <2> QED BY <2>2 DEF Max
<1> QED BY <1>1, <1>2

\* mapLastAssistant changes at most one entry, one that was streaming.
LEMMA MapLastIs ==
  ASSUME DialogueInv, NEW status \in Statuses, NEW more \in Nat
  PROVE  /\ MapLast(status, more) \in Seq(Dialogue)
         /\ DOMAIN MapLast(status, more) = DOMAIN entries
         /\ \A i \in DOMAIN entries :
               /\ Sound(MapLast(status, more)[i])
               /\ i \notin Current => MapLast(status, more)[i] = entries[i]
               /\ i \in Current => MapLast(status, more)[i] \in {entries[i], Changed(entries[i], status, more)}
         /\ (\A i, j \in Current : i = j) =>
               \A i \in Current : MapLast(status, more)[i] = Changed(entries[i], status, more)
<1> DEFINE m == MapLast(status, more)
<1>1. /\ entries \in Seq(Dialogue) /\ DOMAIN entries = 1..Len(entries) /\ Len(entries) \in Nat
      /\ \A i \in DOMAIN entries : entries[i] \in Dialogue /\ Sound(entries[i])
      /\ Current \subseteq DOMAIN entries
  BY DEF DialogueInv, Current
<1>2. CASE Current = {}
  <2>1. m = entries
    BY <1>2 DEF MapLast
  <2> HIDE DEF m
  <2>2. m \in Seq(Dialogue) /\ DOMAIN m = DOMAIN entries
    BY <1>1, <2>1
  <2>3. \A i \in DOMAIN entries : Sound(m[i]) /\ m[i] = entries[i] /\ i \notin Current
    BY <1>1, <1>2, <2>1
  <2> QED BY <1>2, <2>2, <2>3 DEF m
<1>3. CASE Current # {}
  <2> DEFINE c == Max(Current)
             new == Changed(entries[c], status, more)
  <2>1. c \in Current /\ c \in DOMAIN entries
    BY <1>3, LastOfCurrent
  <2>2. entries[c].role = "assistant" /\ Sound(entries[c])
    BY <1>1, <2>1 DEF Current, IsStreaming
  <2>3. Sound(new) /\ new \in Dialogue
    BY <2>2, ChangedIs DEF Sound
  <2>4. m = [entries EXCEPT ![c].status = status, ![c].size = @ + more]
    BY <1>3 DEF MapLast
  <2> HIDE DEF c
  <2>5. m = [entries EXCEPT ![c] = new]
    BY <2>4, <2>1, <1>1 DEF Changed, Dialogue
  <2> HIDE DEF m, new
  <2>6. m \in Seq(Dialogue) /\ DOMAIN m = DOMAIN entries
    BY <1>1, <2>1, <2>3, <2>5
  <2>7. \A i \in DOMAIN entries : m[i] = IF i = c THEN new ELSE entries[i]
    BY <2>5
  <2>8. m[c] = new /\ \A i \in DOMAIN entries : i # c => m[i] = entries[i]
    BY <2>1, <2>7
  <2>9. \A i \in DOMAIN entries : Sound(m[i])
    BY <1>1, <2>3, <2>8
  <2>10. \A i \in DOMAIN entries : i \notin Current => m[i] = entries[i]
    BY <2>1, <2>8
  <2>11. \A i \in DOMAIN entries : m[i] \in {entries[i], Changed(entries[i], status, more)}
    BY <2>8 DEF new
  <2>12. (\A i, j \in Current : i = j) => \A i \in Current : m[i] = Changed(entries[i], status, more)
    BY <2>1, <2>8 DEF new
  <2> QED BY <2>6, <2>9, <2>10, <2>11, <2>12 DEF m
<1> QED BY <1>2, <1>3

\* "failed": what is left of the entries, and the error at the end.
LEMMA FailedIs ==
  ASSUME DialogueInv, Failed
  PROVE  /\ entries' \in Seq(Dialogue) /\ ~isStreaming'
         /\ \A k \in DOMAIN entries' :
               \/ entries'[k].role = "error" /\ Sound(entries'[k])
               \/ \E i \in DOMAIN entries : entries'[k] = MapLast("stopped", 0)[i]
         /\ \A i \in DOMAIN entries : ~Blank(MapLast("stopped", 0)[i]) =>
               \E k \in DOMAIN entries' : entries'[k] = MapLast("stopped", 0)[i]
<1> DEFINE m == MapLast("stopped", 0)
           places == {i \in DOMAIN m : ~Blank(m[i])}
           F == Filtered(m, places)
           error == Entry("error", 1, "none", 0)
<1>1. entries' = Append(F, error) /\ isStreaming' = FALSE
  BY DEF Failed, Settled
<1>2. m \in Seq(Dialogue) /\ DOMAIN m = DOMAIN entries
  BY MapLastIs DEF Statuses
<1>3. error \in Dialogue /\ error.role = "error" /\ Sound(error)
  BY ChatAssumption DEF Entry, Dialogue, Sound
<1>4. places \in SUBSET DOMAIN m /\ \A i \in DOMAIN m : ~Blank(m[i]) => i \in places
  OBVIOUS
<1> HIDE DEF m, places, F, error
<1>5. /\ F \in Seq(Dialogue)
      /\ \A k \in DOMAIN F : \E i \in places : F[k] = m[i]
      /\ \A i \in places : \E k \in DOMAIN F : F[k] = m[i]
  BY <1>2, <1>4, FilteredIs DEF F
<1>6. /\ entries' \in Seq(Dialogue) /\ DOMAIN F = 1..Len(F) /\ Len(F) \in Nat
      /\ DOMAIN entries' = 1..(Len(F) + 1)
      /\ entries'[Len(F) + 1] = error
      /\ \A k \in DOMAIN F : entries'[k] = F[k]
  BY <1>1, <1>3, <1>5
<1>7. ASSUME NEW k \in DOMAIN entries'
      PROVE  \/ entries'[k].role = "error" /\ Sound(entries'[k])
             \/ \E i \in DOMAIN entries : entries'[k] = m[i]
  <2>1. CASE k = Len(F) + 1
    BY <1>3, <1>6, <2>1
  <2>2. CASE k # Len(F) + 1
    <3>1. k \in DOMAIN F /\ entries'[k] = F[k]
      BY <1>6, <2>2
    <3> QED BY <1>2, <1>4, <1>5, <3>1
  <2> QED BY <2>1, <2>2
<1>8. ASSUME NEW i \in DOMAIN entries, ~Blank(m[i])
      PROVE  \E k \in DOMAIN entries' : entries'[k] = m[i]
  <2>1. PICK k \in DOMAIN F : F[k] = m[i]
    BY <1>2, <1>4, <1>5, <1>8
  <2> QED BY <1>6, <2>1
<1> QED BY <1>1, <1>6, <1>7, <1>8 DEF m

-----------------------------------------------------------------------------
(* An answer and its stream.                                                *)

\* A stream says nothing before it is open, and its last event ends it.
SaidInv ==
    \A q \in Questions :
        /\ q > asked => stream[q] = "none"
        /\ stream[q] \in {"none", "sent"} => said[q] = Silent
        /\ stream[q] = "open" => said[q].end = "none"

\* Only the last question waits, and it does while the page is streaming.
OneWaits ==
    /\ \A q \in Questions : stream[q] \in {"sent", "open"} => q = asked /\ isStreaming
    /\ isStreaming => asked # 0 /\ stream[asked] \in {"sent", "open"}

\* There is one answer to settle, with what its stream has sent so far.
OneStreams ==
    /\ \A i, j \in Current : i = j
    /\ \A i \in Current : /\ isStreaming /\ entries[i].of = asked
                          /\ entries[i].size = said[asked].text

Whole(e) ==
    e.role = "assistant" /\ e.status = "done" =>
        said[e.of].end = "done" /\ e.size = said[e.of].text

AllWhole == \A i \in DOMAIN entries : Whole(entries[i])

AnswerInv == ~late => OneWaits /\ OneStreams /\ AllWhole

WidgetInv == DialogueInv /\ SaidInv /\ AnswerInv

\* What an answer that is done was compared with does not change.
KeepsDone == \A q \in Questions : said[q].end = "done" => said'[q] = said[q]

\* Settling the answer that streams as stopped leaves none streaming.
LEMMA StoppedIs ==
  ASSUME DialogueInv, OneStreams, AllWhole, NEW i \in DOMAIN entries
  PROVE  /\ ~IsStreaming(MapLast("stopped", 0)[i])
         /\ Whole(MapLast("stopped", 0)[i])
<1>1. entries[i] \in Dialogue /\ Sound(entries[i]) /\ Whole(entries[i])
  BY DEF DialogueInv, AllWhole
<1>2. CASE i \in Current
  <2>1. MapLast("stopped", 0)[i] = Changed(entries[i], "stopped", 0)
    BY <1>2, MapLastIs DEF OneStreams, Statuses
  <2>2. entries[i].role = "assistant"
    BY <1>2 DEF Current, IsStreaming
  <2>3. MapLast("stopped", 0)[i].status = "stopped"
    BY <1>1, <2>1, <2>2, ChangedIs DEF Statuses
  <2> QED BY <2>3 DEF IsStreaming, Whole
<1>3. CASE i \notin Current
  <2>1. MapLast("stopped", 0)[i] = entries[i]
    BY <1>3, MapLastIs DEF Statuses
  <2> QED BY <1>1, <1>3, <2>1 DEF Current
<1> QED BY <1>2, <1>3

\* What "failed" and "stopped" leave.
LEMMA AfterFailed ==
  ASSUME DialogueInv, Failed, KeepsDone
  PROVE  /\ entries' \in Seq(Dialogue) /\ ~isStreaming'
         /\ \A i \in DOMAIN entries' : Sound(entries'[i])
         /\ OneStreams /\ AllWhole => OneStreams' /\ AllWhole'
<1>1. \A i \in DOMAIN entries : Sound(MapLast("stopped", 0)[i])
  BY MapLastIs DEF Statuses
<1>2. \A i \in DOMAIN entries' : Sound(entries'[i])
  BY <1>1, FailedIs
<1>3. ASSUME OneStreams, AllWhole
      PROVE  OneStreams' /\ AllWhole'
  <2>1. ASSUME NEW k \in DOMAIN entries'
        PROVE  ~IsStreaming(entries'[k]) /\ Whole(entries'[k])
    <3>1. CASE entries'[k].role = "error"
      BY <3>1 DEF IsStreaming, Whole
    <3>2. CASE \E i \in DOMAIN entries : entries'[k] = MapLast("stopped", 0)[i]
      BY <1>3, <3>2, StoppedIs
    <3> QED BY <3>1, <3>2, FailedIs
  <2>2. Current' = {}
    BY <2>1 DEF Current
  <2>3. AllWhole'
    BY <1>2, <2>1 DEF AllWhole, Whole, Sound, KeepsDone
  <2> QED BY <2>2, <2>3 DEF OneStreams
<1> QED BY <1>2, <1>3, FailedIs

LEMMA AfterStopped ==
  ASSUME DialogueInv, Stopped, KeepsDone
  PROVE  /\ entries' \in Seq(Dialogue) /\ ~isStreaming'
         /\ \A i \in DOMAIN entries' : Sound(entries'[i])
         /\ OneStreams /\ AllWhole => OneStreams' /\ AllWhole'
<1>1. entries' = MapLast("stopped", 0) /\ isStreaming' = FALSE
  BY DEF Stopped, Settled
<1>2. /\ entries' \in Seq(Dialogue) /\ DOMAIN entries' = DOMAIN entries
      /\ \A i \in DOMAIN entries' : Sound(entries'[i])
  BY <1>1, MapLastIs DEF Statuses
<1>3. ASSUME OneStreams, AllWhole
      PROVE  OneStreams' /\ AllWhole'
  <2>1. \A k \in DOMAIN entries' : ~IsStreaming(entries'[k]) /\ Whole(entries'[k])
    BY <1>1, <1>2, <1>3, StoppedIs
  <2>2. Current' = {}
    BY <2>1 DEF Current
  <2>3. AllWhole'
    BY <1>2, <2>1 DEF AllWhole, Whole, Sound, KeepsDone
  <2> QED BY <2>2, <2>3 DEF OneStreams
<1> QED BY <1>1, <1>2, <1>3

\* A step after which nothing streams.
LEMMA SettlingKeeps ==
  ASSUME WidgetInv, Failed \/ Stopped \/ Settled(<<>>), asked' = asked, KeepsDone, SaidInv',
         stream' \in [Questions -> {"none", "sent", "open", "finished", "closed"}],
         said' \in [Questions -> [end : {"none", "done", "error"}, text : Nat]],
         ~late' => ~late /\ \A q \in Questions : stream'[q] \notin {"sent", "open"}
  PROVE  WidgetInv'
<1>1. /\ entries' \in Seq(Dialogue) /\ isStreaming' = FALSE
      /\ \A i \in DOMAIN entries' : Sound(entries'[i])
      /\ OneStreams /\ AllWhole => OneStreams' /\ AllWhole'
  <2>1. CASE Failed
    <3>1. isStreaming' = FALSE
      BY <2>1 DEF Failed, Settled
    <3> QED BY <2>1, <3>1, AfterFailed DEF WidgetInv
  <2>2. CASE Stopped
    <3>1. isStreaming' = FALSE
      BY <2>2 DEF Stopped, Settled
    <3> QED BY <2>2, <3>1, AfterStopped DEF WidgetInv
  <2>3. CASE Settled(<<>>)
    BY <2>3 DEF Settled, OneStreams, AllWhole, Current
  <2> QED BY <2>1, <2>2, <2>3
<1>2. DialogueInv'
  BY <1>1 DEF WidgetInv, DialogueInv
<1>3. ASSUME ~late'
      PROVE  OneWaits' /\ OneStreams' /\ AllWhole'
  <2>1. OneStreams /\ AllWhole
    BY <1>3 DEF WidgetInv, AnswerInv
  <2>2. OneWaits'
    BY <1>1, <1>3 DEF OneWaits
  <2> QED BY <1>1, <2>1, <2>2
<1> QED BY <1>2, <1>3 DEF WidgetInv, AnswerInv

\* A stream that ends, with its last event or without.
LEMMA EndingStream ==
  ASSUME WidgetInv, NEW q \in Questions, stream[q] \in {"sent", "open", "finished"},
         NEW place \in {"finished", "closed"}, Goes(q, place), asked' = asked,
         said' = said \/ \E end \in {"done", "error"} : /\ stream[q] = "open"
                                                        /\ said' = [said EXCEPT ![q].end = end]
  PROVE  /\ SaidInv' /\ KeepsDone
         /\ stream' \in [Questions -> {"none", "sent", "open", "finished", "closed"}]
         /\ said' \in [Questions -> [end : {"none", "done", "error"}, text : Nat]]
         /\ \A p \in Questions : said'[p].text = said[p].text
         /\ ~late /\ stream[q] # "finished" =>
               q = asked /\ \A p \in Questions : stream'[p] \notin {"sent", "open"}
<1>1. /\ stream \in [Questions -> {"none", "sent", "open", "finished", "closed"}]
      /\ said \in [Questions -> [end : {"none", "done", "error"}, text : Nat]]
  BY DEF WidgetInv, DialogueInv
<1>2. /\ stream' \in [Questions -> {"none", "sent", "open", "finished", "closed"}]
      /\ stream'[q] = place /\ \A p \in Questions \ {q} : stream'[p] = stream[p]
  BY <1>1 DEF Goes
<1>3. /\ said' \in [Questions -> [end : {"none", "done", "error"}, text : Nat]]
      /\ \A p \in Questions \ {q} : said'[p] = said[p]
      /\ said'[q].text = said[q].text
      /\ said'[q] = said[q] \/ stream[q] = "open"
  BY <1>1
<1>4. SaidInv'
  BY <1>2, <1>3 DEF WidgetInv, SaidInv
<1>5. KeepsDone
  BY <1>3 DEF WidgetInv, SaidInv, KeepsDone
<1>6. \A p \in Questions : said'[p].text = said[p].text
  BY <1>3
<1>7. ASSUME ~late, stream[q] # "finished"
      PROVE  q = asked /\ \A p \in Questions : stream'[p] \notin {"sent", "open"}
  <2>1. OneWaits
    BY <1>7 DEF WidgetInv, AnswerInv
  <2> QED BY <1>2, <1>7, <2>1 DEF OneWaits
<1> QED BY <1>2, <1>3, <1>4, <1>5, <1>6, <1>7

LEMMA SendKeeps ==
  ASSUME WidgetInv, NEW size \in 1..MaxTexts, Send(size)
  PROVE  WidgetInv'
<1> DEFINE q == asked + 1
           U == Entry("user", size, "none", q)
           A == Entry("assistant", 0, "streaming", q)
           n == Len(entries)
<1>1. /\ ~isStreaming /\ size <= MaxMessageChars /\ q \in Questions /\ asked' = q
      /\ entries' = entries \o <<U, A>> /\ isStreaming' = TRUE
      /\ stream' = [stream EXCEPT ![q] = "sent"] /\ said' = said /\ late' = late
  BY ChatAssumption DEF Send, BetweenAnswers, Questions, WidgetInv, DialogueInv
<1>2. /\ entries \in Seq(Dialogue) /\ \A i \in DOMAIN entries : Sound(entries[i])
      /\ asked \in Nat /\ q \in Nat /\ n \in Nat /\ size \in Nat
      /\ stream \in [Questions -> {"none", "sent", "open", "finished", "closed"}]
      /\ said \in [Questions -> [end : {"none", "done", "error"}, text : Nat]]
  BY ChatAssumption DEF WidgetInv, DialogueInv
<1>3. /\ U \in Dialogue /\ Sound(U) /\ U.role = "user"
      /\ A \in Dialogue /\ Sound(A) /\ A.role = "assistant" /\ A.status = "streaming"
      /\ A.of = q /\ A.size = 0
  BY <1>1, <1>2, ChatAssumption DEF Entry, Dialogue, Sound, Questions
<1> HIDE DEF U, A, q
<1>4. /\ entries' \in Seq(Dialogue) /\ DOMAIN entries = 1..n /\ DOMAIN entries' = 1..(n + 2)
      /\ \A i \in 1..n : entries'[i] = entries[i]
      /\ entries'[n + 1] = U /\ entries'[n + 2] = A
  BY <1>1, <1>2, <1>3
<1>5. \A i \in 1..(n + 2) : i \in 1..n \/ i = n + 1 \/ i = n + 2
  BY <1>2
<1>6. /\ stream' \in [Questions -> {"none", "sent", "open", "finished", "closed"}]
      /\ stream'[q] = "sent" /\ \A p \in Questions \ {q} : stream'[p] = stream[p]
  BY <1>1, <1>2
<1>7. DialogueInv'
  <2>1. \A i \in DOMAIN entries' : Sound(entries'[i])
    BY <1>2, <1>3, <1>4, <1>5
  <2>2. asked' \in 0..MaxQuestions
    BY <1>1 DEF Questions
  <2> QED BY <1>1, <1>2, <1>4, <1>6, <2>1, <2>2 DEF DialogueInv
<1>8. stream[q] = "none" /\ said[q] = Silent /\ asked' > asked
  BY <1>1, <1>2 DEF WidgetInv, SaidInv, q
<1>9. SaidInv'
  <2>1. ASSUME NEW p \in Questions
        PROVE  /\ p > asked' => stream'[p] = "none"
               /\ stream'[p] \in {"none", "sent"} => said[p] = Silent
               /\ stream'[p] = "open" => said[p].end = "none"
    <3>1. p > asked' => p > asked /\ p # q
      BY <1>1, <1>2 DEF q, Questions
    <3> QED BY <1>1, <1>6, <1>8, <3>1 DEF WidgetInv, SaidInv
  <2> QED BY <1>1, <2>1 DEF SaidInv
<1>10. ASSUME ~late
       PROVE  OneWaits' /\ OneStreams' /\ AllWhole'
  <2>1. OneWaits /\ OneStreams /\ AllWhole
    BY <1>10 DEF WidgetInv, AnswerInv
  <2>2. OneWaits'
    BY <1>1, <1>2, <1>6, <2>1 DEF OneWaits, q
  <2>3. ASSUME NEW i \in DOMAIN entries'
        PROVE  IsStreaming(entries'[i]) => i = n + 2
    <3>1. i \in 1..n => ~IsStreaming(entries[i])
      BY <1>1, <1>4, <2>1 DEF OneStreams, Current
    <3>2. ~IsStreaming(U)
      BY <1>3 DEF IsStreaming
    <3> QED BY <1>4, <1>5, <3>1, <3>2
  <2>4. OneStreams'
    <3>1. \A i \in Current' : i = n + 2
      BY <2>3 DEF Current
    <3> QED BY <1>1, <1>3, <1>4, <1>8, <3>1 DEF OneStreams, Silent
  <2>5. AllWhole'
    <3>1. \A i \in 1..n : Whole(entries[i])
      BY <1>4, <2>1 DEF AllWhole
    <3>2. Whole(U) /\ Whole(A)
      BY <1>3 DEF Whole
    <3>3. \A i \in DOMAIN entries' : Whole(entries'[i])
      BY <1>4, <1>5, <3>1, <3>2
    <3> QED BY <1>1, <3>3 DEF AllWhole, Whole
  <2> QED BY <2>2, <2>4, <2>5
<1> QED BY <1>1, <1>7, <1>9, <1>10 DEF WidgetInv, AnswerInv

\* The server opens the stream: nothing of the dialogue moves.
LEMMA AcceptKeeps ==
  ASSUME WidgetInv, NEW q \in Questions, Accept(q)
  PROVE  WidgetInv'
<1>1. /\ stream[q] = "sent" /\ stream' = [stream EXCEPT ![q] = "open"]
      /\ UNCHANGED <<entries, isStreaming, asked, said, late>>
  BY DEF Accept, At, Goes, state
<1>2. stream \in [Questions -> {"none", "sent", "open", "finished", "closed"}]
  BY DEF WidgetInv, DialogueInv
<1>3. /\ stream' \in [Questions -> {"none", "sent", "open", "finished", "closed"}]
      /\ stream'[q] = "open" /\ \A p \in Questions \ {q} : stream'[p] = stream[p]
  BY <1>1, <1>2
<1>4. DialogueInv'
  BY <1>1, <1>3 DEF WidgetInv, DialogueInv
<1>5. SaidInv'
  BY <1>1, <1>3 DEF WidgetInv, SaidInv, Silent
<1>6. ASSUME ~late
      PROVE  OneWaits' /\ OneStreams' /\ AllWhole'
  <2>1. OneWaits /\ OneStreams /\ AllWhole
    BY <1>6 DEF WidgetInv, AnswerInv
  <2>2. OneWaits'
    <3>1. q = asked /\ isStreaming
      BY <1>1, <2>1 DEF OneWaits
    <3> QED BY <1>1, <1>3, <2>1, <3>1 DEF OneWaits
  <2>3. OneStreams' /\ AllWhole'
    BY <1>1, <2>1 DEF OneStreams, AllWhole, Whole, Current
  <2> QED BY <2>2, <2>3
<1> QED BY <1>1, <1>4, <1>5, <1>6 DEF WidgetInv, AnswerInv

\* An open stream's answer is the one that streams, unless one broke late.
LEMMA OpenIsCurrent ==
  ASSUME WidgetInv, ~late, NEW q \in Questions, stream[q] = "open",
         NEW i \in Current
  PROVE  /\ isStreaming /\ q = asked
         /\ entries[i].of = q /\ entries[i].size = said[q].text
         /\ entries[i].role = "assistant" /\ Sound(entries[i])
BY DEF WidgetInv, AnswerInv, OneWaits, OneStreams, Current, IsStreaming, DialogueInv

\* A done answer is not for a question whose stream is open.
LEMMA DoneIsPast ==
  ASSUME WidgetInv, ~late, NEW q \in Questions, stream[q] = "open",
         NEW i \in DOMAIN entries, entries[i].role = "assistant", entries[i].status = "done"
  PROVE  entries[i].of \in Questions \ {q} /\ i \notin Current
BY DEF WidgetInv, AnswerInv, AllWhole, Whole, SaidInv, Sound, DialogueInv, Current, IsStreaming

LEMMA DeltaKeeps ==
  ASSUME WidgetInv, NEW q \in Questions, TextDelta(q)
  PROVE  WidgetInv'
<1> DEFINE m == MapLast("streaming", 1)
<1>1. /\ stream[q] = "open" /\ said' = [said EXCEPT ![q].text = @ + 1]
      /\ entries' = m /\ UNCHANGED <<isStreaming, asked, stream, late>>
  BY DEF TextDelta, At
<1>2. said \in [Questions -> [end : {"none", "done", "error"}, text : Nat]]
  BY DEF WidgetInv, DialogueInv
<1>3. /\ said' \in [Questions -> [end : {"none", "done", "error"}, text : Nat]]
      /\ said'[q].text = said[q].text + 1 /\ said'[q].end = said[q].end
      /\ \A p \in Questions \ {q} : said'[p] = said[p]
  BY <1>1, <1>2
<1>4. /\ m \in Seq(Dialogue) /\ DOMAIN m = DOMAIN entries
      /\ \A i \in DOMAIN entries :
            Sound(m[i]) /\ (i \notin Current => m[i] = entries[i])
  BY MapLastIs DEF WidgetInv, Statuses
<1> HIDE DEF m
<1>5. DialogueInv'
  BY <1>1, <1>3, <1>4 DEF WidgetInv, DialogueInv
<1>6. SaidInv'
  BY <1>1, <1>3 DEF WidgetInv, SaidInv
<1>7. ASSUME ~late
      PROVE  OneWaits' /\ OneStreams' /\ AllWhole'
  <2>1. OneWaits /\ OneStreams /\ AllWhole
    BY <1>7 DEF WidgetInv, AnswerInv
  <2>2. OneWaits'
    BY <1>1, <2>1 DEF OneWaits
  <2>3. ASSUME NEW i \in Current
        PROVE  /\ IsStreaming(m[i]) /\ isStreaming
               /\ m[i].of = asked /\ m[i].size = said'[asked].text
    <3>1. m[i] = Changed(entries[i], "streaming", 1)
      BY <2>1, MapLastIs DEF WidgetInv, Statuses, OneStreams, m
    <3>2. /\ isStreaming /\ q = asked /\ entries[i].of = q /\ entries[i].size = said[q].text
          /\ entries[i].role = "assistant" /\ Sound(entries[i])
      BY <1>1, <1>7, OpenIsCurrent
    <3>3. /\ m[i].role = "assistant" /\ m[i].of = q /\ m[i].status = "streaming"
          /\ m[i].size = said[q].text + 1
      BY <3>1, <3>2, ChangedIs DEF Statuses
    <3> QED BY <1>3, <3>2, <3>3 DEF IsStreaming
  <2>4. Current' = Current
    BY <1>1, <1>4, <2>3 DEF Current
  <2>5. OneStreams'
    BY <1>1, <2>1, <2>3, <2>4 DEF OneStreams
  <2>6. ASSUME NEW i \in DOMAIN entries, m[i].role = "assistant", m[i].status = "done"
        PROVE  said'[m[i].of].end = "done" /\ m[i].size = said'[m[i].of].text
    <3>1. i \notin Current
      BY <2>3, <2>6 DEF IsStreaming
    <3>2. m[i] = entries[i]
      BY <1>4, <3>1
    <3>3. entries[i].of \in Questions \ {q}
      BY <1>1, <1>7, <2>6, <3>2, DoneIsPast
    <3>4. Whole(entries[i])
      BY <2>1 DEF AllWhole
    <3> QED BY <1>3, <2>6, <3>2, <3>3, <3>4 DEF Whole
  <2>7. AllWhole'
    BY <1>1, <1>4, <2>6 DEF AllWhole, Whole
  <2> QED BY <2>2, <2>5, <2>7
<1> QED BY <1>1, <1>5, <1>6, <1>7 DEF WidgetInv, AnswerInv

LEMMA DoneKeeps ==
  ASSUME WidgetInv, NEW q \in Questions, Done(q)
  PROVE  WidgetInv'
<1> DEFINE m == MapLast("done", 0)
<1>1. /\ stream[q] = "open" /\ Goes(q, "finished") /\ said' = [said EXCEPT ![q].end = "done"]
      /\ entries' = m /\ isStreaming' = FALSE /\ UNCHANGED <<asked, late>>
  BY DEF Done, At, Settled
<1>2. said \in [Questions -> [end : {"none", "done", "error"}, text : Nat]]
  BY DEF WidgetInv, DialogueInv
<1>3. /\ said'[q].text = said[q].text /\ said'[q].end = "done"
      /\ \A p \in Questions \ {q} : said'[p] = said[p]
  BY <1>1, <1>2
<1>4. /\ SaidInv'
      /\ stream' \in [Questions -> {"none", "sent", "open", "finished", "closed"}]
      /\ said' \in [Questions -> [end : {"none", "done", "error"}, text : Nat]]
      /\ ~late => \A p \in Questions : stream'[p] \notin {"sent", "open"}
  BY <1>1, EndingStream
<1>5. /\ m \in Seq(Dialogue) /\ DOMAIN m = DOMAIN entries
      /\ \A i \in DOMAIN entries :
            Sound(m[i]) /\ (i \notin Current => m[i] = entries[i])
  BY MapLastIs DEF WidgetInv, Statuses
<1> HIDE DEF m
<1>6. DialogueInv'
  BY <1>1, <1>4, <1>5 DEF WidgetInv, DialogueInv
<1>7. ASSUME ~late
      PROVE  OneWaits' /\ OneStreams' /\ AllWhole'
  <2>1. OneWaits /\ OneStreams /\ AllWhole
    BY <1>7 DEF WidgetInv, AnswerInv
  <2>2. OneWaits'
    BY <1>1, <1>4, <1>7 DEF OneWaits
  <2>3. ASSUME NEW i \in Current
        PROVE  /\ ~IsStreaming(m[i])
               /\ m[i].of = q /\ m[i].size = said[q].text
    <3>1. m[i] = Changed(entries[i], "done", 0)
      BY <2>1, MapLastIs DEF WidgetInv, Statuses, OneStreams, m
    <3>2. /\ entries[i].of = q /\ entries[i].size = said[q].text
          /\ entries[i].role = "assistant" /\ Sound(entries[i])
      BY <1>1, <1>7, OpenIsCurrent
    <3>3. /\ m[i].of = q /\ m[i].status = "done"
          /\ m[i].size = said[q].text + 0
      BY <3>1, <3>2, ChangedIs DEF Statuses
    <3> QED BY <1>2, <3>3 DEF IsStreaming
  <2>4. Current' = {}
    BY <1>1, <1>5, <2>3 DEF Current
  <2>5. ASSUME NEW i \in DOMAIN entries, m[i].role = "assistant", m[i].status = "done"
        PROVE  said'[m[i].of].end = "done" /\ m[i].size = said'[m[i].of].text
    <3>1. CASE i \in Current
      BY <1>3, <2>3, <3>1
    <3>2. CASE i \notin Current
      <4>1. m[i] = entries[i]
        BY <1>5, <3>2
      <4>2. entries[i].of \in Questions \ {q}
        BY <1>1, <1>7, <2>5, <4>1, DoneIsPast
      <4>3. Whole(entries[i])
        BY <2>1 DEF AllWhole
      <4> QED BY <1>3, <2>5, <4>1, <4>2, <4>3 DEF Whole
    <3> QED BY <3>1, <3>2
  <2>6. AllWhole'
    BY <1>1, <1>5, <2>5 DEF AllWhole, Whole
  <2> QED BY <2>2, <2>4, <2>6 DEF OneStreams
<1> QED BY <1>1, <1>4, <1>6, <1>7 DEF WidgetInv, AnswerInv

\* A body that ends after its last event changes nothing on the page.
LEMMA ClosedKeeps ==
  ASSUME WidgetInv, NEW q \in Questions, stream[q] = "finished", Goes(q, "closed"),
         UNCHANGED <<entries, isStreaming, asked, said, late>>
  PROVE  WidgetInv'
<1>1. SaidInv' /\ stream' \in [Questions -> {"none", "sent", "open", "finished", "closed"}]
  BY EndingStream
<1>2. stream \in [Questions -> {"none", "sent", "open", "finished", "closed"}]
  BY DEF WidgetInv, DialogueInv
<1>3. stream'[q] = "closed" /\ \A p \in Questions \ {q} : stream'[p] = stream[p]
  BY <1>2 DEF Goes
<1>4. DialogueInv'
  BY <1>1 DEF WidgetInv, DialogueInv
<1>5. OneWaits => OneWaits'
  BY <1>3 DEF OneWaits, Questions, WidgetInv, DialogueInv
<1>6. OneStreams /\ AllWhole => OneStreams' /\ AllWhole'
  BY DEF OneStreams, AllWhole, Whole, Current
<1> QED BY <1>1, <1>4, <1>5, <1>6 DEF WidgetInv, AnswerInv

LEMMA FailingKeeps ==
  ASSUME WidgetInv, NEW q \in Questions, Refused(q) \/ Error(q) \/ Close(q) \/ Break(q)
  PROVE  WidgetInv'
<1>1. ASSUME Refused(q) \/ Error(q) \/ (Close(q) /\ stream[q] = "open") \/ Break(q)
      PROVE  WidgetInv'
  <2>1. /\ stream[q] \in {"sent", "open", "finished"} /\ Failed /\ asked' = asked
        /\ \E place \in {"finished", "closed"} : Goes(q, place)
        /\ said' = said \/ \E end \in {"done", "error"} : /\ stream[q] = "open"
                                                       /\ said' = [said EXCEPT ![q].end = end]
        /\ ~late' => ~late /\ stream[q] # "finished"
    <3>1. CASE Refused(q)
      BY <3>1 DEF Refused, At
    <3>2. CASE Error(q)
      BY <3>2 DEF Error, At
    <3>3. CASE Close(q) /\ stream[q] = "open"
      BY <3>3 DEF Close, At, Interrupted
    <3>4. CASE Break(q)
      BY <3>4 DEF Break, At
    <3> QED BY <1>1, <3>1, <3>2, <3>3, <3>4
  <2>2. /\ SaidInv' /\ KeepsDone
        /\ stream' \in [Questions -> {"none", "sent", "open", "finished", "closed"}]
        /\ said' \in [Questions -> [end : {"none", "done", "error"}, text : Nat]]
        /\ ~late' => ~late /\ \A p \in Questions : stream'[p] \notin {"sent", "open"}
    BY <2>1, EndingStream
  <2> QED BY <2>1, <2>2, SettlingKeeps
<1>2. ASSUME Close(q), stream[q] # "open"
      PROVE  WidgetInv'
  <2>1. /\ stream[q] = "finished" /\ Goes(q, "closed")
        /\ UNCHANGED <<entries, isStreaming, asked, said, late>>
    BY <1>2 DEF Close, Interrupted, At, state
  <2> QED BY <2>1, ClosedKeeps
<1> QED BY <1>1, <1>2

\* The user's own ways to end: the last controller is aborted first.
LEMMA UserEndsKeeps ==
  ASSUME WidgetInv, Stop \/ Reset
  PROVE  WidgetInv'
<1>1. /\ Stopped \/ Settled(<<>>)
      /\ Abort /\ UNCHANGED <<asked, said, late>>
  BY DEF Stop, Reset
<1>2. CASE asked # 0 /\ stream[asked] \in {"sent", "open", "finished"}
  <2>1. asked \in Questions /\ Goes(asked, "closed")
    BY <1>1, <1>2 DEF Abort, WidgetInv, DialogueInv, Questions
  <2>2. /\ SaidInv' /\ KeepsDone
        /\ stream' \in [Questions -> {"none", "sent", "open", "finished", "closed"}]
        /\ said' \in [Questions -> [end : {"none", "done", "error"}, text : Nat]]
    BY <1>1, <1>2, <2>1, EndingStream
  <2>3. ASSUME ~late
        PROVE  \A p \in Questions : stream'[p] \notin {"sent", "open"}
    <3>1. \A p \in Questions : stream[p] \in {"sent", "open"} => p = asked
      BY <2>3 DEF WidgetInv, AnswerInv, OneWaits
    <3>2. stream \in [Questions -> {"none", "sent", "open", "finished", "closed"}]
      BY DEF WidgetInv, DialogueInv
    <3>3. stream'[asked] = "closed" /\ \A p \in Questions \ {asked} : stream'[p] = stream[p]
      BY <2>1, <3>2 DEF Goes
    <3> QED BY <3>1, <3>3
  <2> QED BY <1>1, <2>2, <2>3, SettlingKeeps
<1>3. CASE ~(asked # 0 /\ stream[asked] \in {"sent", "open", "finished"})
  <2>1. stream' = stream
    BY <1>1, <1>3 DEF Abort
  <2>2. ~late => \A p \in Questions : stream'[p] \notin {"sent", "open"}
    BY <1>3, <2>1 DEF WidgetInv, AnswerInv, OneWaits, Questions
  <2>3. SaidInv' /\ KeepsDone
    BY <1>1, <2>1 DEF WidgetInv, SaidInv, KeepsDone
  <2>4. /\ stream' \in [Questions -> {"none", "sent", "open", "finished", "closed"}]
        /\ said' \in [Questions -> [end : {"none", "done", "error"}, text : Nat]]
    BY <1>1, <2>1 DEF WidgetInv, DialogueInv
  <2> QED BY <1>1, <2>2, <2>3, <2>4, SettlingKeeps
<1> QED BY <1>2, <1>3

LEMMA QuietKeeps ==
  ASSUME WidgetInv, UNCHANGED <<entries, isStreaming, asked, stream, said, late>>
  PROVE  WidgetInv'
BY DEF WidgetInv, DialogueInv, SaidInv, AnswerInv, OneWaits, OneStreams, AllWhole, Whole, Current

LEMMA WidgetStarts == WidgetInit => WidgetInv
<1> SUFFICES ASSUME WidgetInit PROVE WidgetInv
  OBVIOUS
<1>1. entries = <<>> /\ DOMAIN entries = {} /\ entries \in Seq(Dialogue)
  BY DEF WidgetInit
<1>2. DialogueInv
  <2>1. said \in [Questions -> [end : {"none", "done", "error"}, text : Nat]]
    <3>1. Silent \in [end : {"none", "done", "error"}, text : Nat]
      BY DEF Silent
    <3> QED BY <3>1 DEF WidgetInit
  <2>2. /\ stream \in [Questions -> {"none", "sent", "open", "finished", "closed"}]
        /\ isStreaming \in BOOLEAN /\ late \in BOOLEAN
    BY DEF WidgetInit
  <2>3. asked \in 0..MaxQuestions
    BY ChatAssumption DEF WidgetInit
  <2> QED BY <1>1, <2>1, <2>2, <2>3 DEF DialogueInv
<1>3. SaidInv
  BY DEF WidgetInit, SaidInv
<1>4. OneWaits /\ OneStreams /\ AllWhole
  BY <1>1 DEF WidgetInit, OneWaits, OneStreams, AllWhole, Current
<1> QED BY <1>2, <1>3, <1>4 DEF WidgetInv, AnswerInv

LEMMA WidgetStep == WidgetInv /\ [WidgetNext]_widget => WidgetInv'
<1> SUFFICES ASSUME WidgetInv, [WidgetNext]_widget PROVE WidgetInv'
  OBVIOUS
<1>1. ASSUME NEW size \in 1..MaxTexts, Send(size)
      PROVE  WidgetInv'
  BY <1>1, SendKeeps
<1>2. ASSUME NEW q \in Questions, Answers(q) \/ TextDelta(q) \/ ToolCall(q) \/ Break(q)
      PROVE  WidgetInv'
  <2>1. CASE Accept(q)
    BY <2>1, AcceptKeeps
  <2>2. CASE Done(q)
    BY <2>2, DoneKeeps
  <2>3. CASE TextDelta(q)
    BY <2>3, DeltaKeeps
  <2>4. CASE ToolCall(q)
    <3>1. UNCHANGED <<entries, isStreaming, asked, stream, said, late>>
      BY <2>4 DEF ToolCall
    <3> QED BY <3>1, QuietKeeps
  <2>5. CASE Refused(q) \/ Error(q) \/ Close(q) \/ Break(q)
    BY <2>5, FailingKeeps
  <2> QED BY <1>2, <2>1, <2>2, <2>3, <2>4, <2>5 DEF Answers
<1>3. CASE Stop \/ Reset
  BY <1>3, UserEndsKeeps
<1>4. CASE UNCHANGED widget
  <2>1. UNCHANGED <<entries, isStreaming, asked, stream, said, late>>
    BY <1>4 DEF widget, state
  <2> QED BY <2>1, QuietKeeps
<1> QED BY <1>1, <1>2, <1>3, <1>4 DEF WidgetNext

\* An answer shown as done is its own stream's, whole, and one that waits has a
\* stream that will settle it, although the reducer's actions name no stream:
\* for every number of questions and length of an answer, unless a stream broke
\* after its last event (chatState.ts:33-97, useChat.ts:55-105).
THEOREM AnswersHold == WidgetSpec => []AnswerIsWhole
<1>1. WidgetInv => AnswerIsWhole
  BY DEF WidgetInv, AnswerInv, AllWhole, Whole, OneStreams, OneWaits, Current, AnswerIsWhole
<1> QED BY <1>1, WidgetStarts, WidgetStep, PTL DEF WidgetSpec

-----------------------------------------------------------------------------
(* An answer that is done.                                                  *)

LEMMA MapLastStays ==
  ASSUME DialogueInv, NEW status \in Statuses, NEW more \in Nat,
         NEW i \in DOMAIN entries, entries[i].status = "done"
  PROVE  /\ i \in DOMAIN MapLast(status, more)
         /\ MapLast(status, more)[i] = entries[i]
<1>1. i \notin Current
  BY DEF Current, IsStreaming
<1> QED BY <1>1, MapLastIs

\* No event of any stream and nothing the user does but a reset takes a done
\* answer back: settling finds only what is streaming, and "failed" removes
\* only what has no text, also when a stream breaks late (chatState.ts:33-97).
THEOREM DoneHolds == WidgetSpec => DoneStays
<1>1. ASSUME DialogueInv, [WidgetNext]_widget, NEW i \in DOMAIN entries,
             entries[i].role = "assistant", entries[i].status = "done", entries[i].size > 0
      PROVE  entries' = <<>> \/ \E j \in DOMAIN entries' : entries'[j] = entries[i]
  <2>1. CASE Failed
    <3>1. MapLast("stopped", 0)[i] = entries[i] /\ ~Blank(entries[i])
      BY <1>1, MapLastStays DEF Statuses, Blank
    <3> QED BY <1>1, <2>1, <3>1, FailedIs
  <2>2. ASSUME NEW status \in Statuses, NEW more \in Nat, entries' = MapLast(status, more)
        PROVE  i \in DOMAIN entries' /\ entries'[i] = entries[i]
    BY <1>1, <2>2, MapLastStays
  <2>3. ASSUME NEW size \in 1..MaxTexts, Send(size)
        PROVE  i \in DOMAIN entries' /\ entries'[i] = entries[i]
    <3> DEFINE more == <<Entry("user", size, "none", asked + 1), Entry("assistant", 0, "streaming", asked + 1)>>
    <3>1. entries' = entries \o more /\ entries \in Seq(Dialogue) /\ Len(more) = 2
      BY <1>1, <2>3 DEF Send, DialogueInv
    <3>2. more \in Seq({more[1], more[2]})
      OBVIOUS
    <3> HIDE DEF more
    <3> QED BY <1>1, <3>1, <3>2
  <2>4. CASE UNCHANGED entries
    BY <1>1, <2>4
  <2>5. CASE entries' = <<>>
    BY <2>5
  <2>6. ASSUME NEW q \in Questions, Answers(q) \/ TextDelta(q) \/ ToolCall(q) \/ Break(q)
        PROVE  Failed \/ UNCHANGED entries
               \/ \E status \in Statuses, more \in Nat : entries' = MapLast(status, more)
    <3>1. CASE Accept(q) \/ ToolCall(q)
      BY <3>1 DEF Accept, ToolCall, state
    <3>2. CASE Refused(q) \/ Error(q) \/ Break(q)
      BY <3>2 DEF Refused, Error, Break
    <3>3. CASE TextDelta(q)
      BY <3>3 DEF TextDelta, Statuses
    <3>4. CASE Done(q)
      BY <3>4 DEF Done, Settled, Statuses
    <3>5. CASE Close(q)
      BY <3>5 DEF Close, Interrupted, state
    <3> QED BY <2>6, <3>1, <3>2, <3>3, <3>4, <3>5 DEF Answers
  <2>7. CASE Stop
    <3>1. entries' = MapLast("stopped", 0)
      BY <2>7 DEF Stop, Stopped, Settled
    <3> QED BY <2>2, <3>1 DEF Statuses
  <2>8. CASE Reset
    BY <2>8 DEF Reset, Settled
  <2>9. CASE UNCHANGED widget
    BY <1>1, <2>9 DEF widget, state
  <2> QED BY <1>1, <2>1, <2>2, <2>3, <2>4, <2>6, <2>7, <2>8, <2>9 DEF WidgetNext
<1>2. WidgetInv /\ [WidgetNext]_widget =>
        [\A i \in DOMAIN entries :
           entries[i].role = "assistant" /\ entries[i].status = "done" /\ entries[i].size > 0 =>
              entries' = <<>> \/ \E j \in DOMAIN entries' : entries'[j] = entries[i]]_widget
  BY <1>1 DEF WidgetInv
<1> QED BY <1>2, WidgetStarts, WidgetStep, PTL DEF WidgetSpec, DoneStays

-----------------------------------------------------------------------------
(* The history of a request.                                                *)

Messages == [role : {"user", "assistant", "error"}, size : Nat]

\* It ends with the question, and whatever the user asked could be asked.
Asks(h) ==
    /\ h \in Seq(Messages) /\ h # <<>>
    /\ h[Len(h)].role = "user"
    /\ \A i \in DOMAIN h : h[i].role = "user" => h[i].size \in 1..MaxMessageChars

LEMMA SuffixAsks ==
  ASSUME NEW h, Asks(h), NEW k \in 1..Len(h)
  PROVE  /\ Asks(SubSeq(h, k, Len(h)))
         /\ Len(SubSeq(h, k, Len(h))) = Len(h) - k + 1
<1> DEFINE s == SubSeq(h, k, Len(h))
<1>1. /\ h \in Seq(Messages) /\ Len(h) \in Nat /\ DOMAIN h = 1..Len(h) /\ k \in Nat
      /\ \A i \in 1..Len(h) : h[i] \in Messages
  BY DEF Asks
<1>2. /\ s \in Seq(Messages) /\ Len(s) = Len(h) - k + 1 /\ DOMAIN s = 1..(Len(h) - k + 1)
      /\ \A i \in 1..(Len(h) - k + 1) : s[i] = h[k + i - 1]
  BY <1>1
<1> HIDE DEF s
<1>3. s # <<>> /\ s[Len(s)] = h[Len(h)]
  BY <1>1, <1>2
<1>4. ASSUME NEW i \in DOMAIN s, s[i].role = "user"
      PROVE  s[i].size \in 1..MaxMessageChars
  <2>1. k + i - 1 \in DOMAIN h /\ s[i] = h[k + i - 1]
    BY <1>1, <1>2
  <2> QED BY <1>4, <2>1 DEF Asks
<1> QED BY <1>2, <1>3, <1>4 DEF Asks, s

LEMMA LastOfAsks ==
  ASSUME NEW h, Asks(h)
  PROVE  Asks(LastOf(h)) /\ Len(LastOf(h)) <= MaxMessages
<1> DEFINE n == Min({Len(h), MaxMessages})
<1>1. Len(h) \in Nat /\ Len(h) # 0 /\ MaxMessages \in Nat /\ MaxMessages # 0
  BY ChatAssumption DEF Asks
<1>2. \E x \in {Len(h), MaxMessages} : \A y \in {Len(h), MaxMessages} : x =< y
  <2>1. CASE Len(h) <= MaxMessages
    BY <1>1, <2>1
  <2>2. CASE MaxMessages <= Len(h)
    BY <1>1, <2>2
  <2> QED BY <1>1, <2>1, <2>2
<1>3. n \in {Len(h), MaxMessages} /\ n <= Len(h) /\ n <= MaxMessages
  BY <1>2 DEF Min
<1> HIDE DEF n
<1>4. Len(h) - n + 1 \in 1..Len(h)
  BY <1>1, <1>3
<1>5. LastOf(h) = SubSeq(h, Len(h) - n + 1, Len(h))
  BY DEF LastOf, n
<1>6. Asks(LastOf(h)) /\ Len(LastOf(h)) = Len(h) - (Len(h) - n + 1) + 1
  BY <1>4, <1>5, SuffixAsks
<1> QED BY <1>1, <1>3, <1>6

\* A history of one message has its characters.
LEMMA OneFits ==
  ASSUME NEW h, Asks(h), Len(h) = 1
  PROVE  Chars(h) <= MaxHistoryChars
<1>1. /\ h \in Seq(Messages) /\ DOMAIN h = {1}
      /\ h[1].size \in 1..MaxMessageChars
  BY DEF Asks
<1> DEFINE size == h[1].size
           texts == {1} \X (1..size)
           f == [c \in 1..size |-> <<1, c>>]
<1>2. Chars(h) = Cardinality(texts)
  <2>1. UNION {{i} \X (1..h[i].size) : i \in DOMAIN h} = texts
    BY <1>1
  <2> QED BY <2>1 DEF Chars
<1>3. size \in Nat /\ size <= MaxHistoryChars
  BY <1>1, ChatAssumption
<1>4. Cardinality(texts) = size
  <2>1. IsFiniteSet(1..size) /\ Cardinality(1..size) = size
    BY <1>3, FS_Interval
  <2>2. f \in Bijection(1..size, texts)
    BY DEF Bijection, Injection, Surjection, IsInjective
  <2> HIDE DEF f, texts
  <2>3. ExistsBijection(1..size, texts)
    BY <2>2 DEF ExistsBijection
  <2> QED BY <2>1, <2>3, FS_Bijection
<1> QED BY <1>2, <1>3, <1>4

LEMMA TrimmedFits ==
  ASSUME NEW h, Asks(h)
  PROVE  /\ Asks(Trimmed(h)) /\ Len(Trimmed(h)) <= Len(h)
         /\ Chars(Trimmed(h)) <= MaxHistoryChars /\ Trimmed(h)[1].role = "user"
<1> DEFINE enough == {k \in 1..Len(h) : Fits(SubSeq(h, k, Len(h)))}
           k == Min(enough)
           s == SubSeq(h, k, Len(h))
<1>1. Len(h) \in Nat /\ Len(h) \in 1..Len(h)
  BY DEF Asks
<1>2. Fits(SubSeq(h, Len(h), Len(h)))
  BY <1>1, SuffixAsks DEF Fits
<1>3. k \in enough
  <2>1. enough \in SUBSET (1..Len(h)) /\ enough # {}
    BY <1>1, <1>2
  <2>2. \E x \in enough : \A y \in enough : x =< y
    <3> HIDE DEF enough
    <3> QED BY <1>1, <2>1, MinimumExists
  <2> HIDE DEF enough
  <2> QED BY <2>2 DEF Min
<1>4. k \in 1..Len(h) /\ Fits(s)
  BY <1>3
<1>5. Trimmed(h) = s
  BY DEF Trimmed
<1> HIDE DEF enough, k, s
<1>6. Asks(s) /\ Len(s) = Len(h) - k + 1
  BY <1>4, SuffixAsks DEF s
<1>7. CASE Len(s) = 1
  <2>1. s[1].role = "user"
    BY <1>6, <1>7 DEF Asks
  <2> QED BY <1>1, <1>4, <1>5, <1>6, <1>7, <2>1, OneFits
<1>8. CASE Len(s) # 1
  BY <1>1, <1>4, <1>5, <1>6, <1>8 DEF Fits
<1> QED BY <1>7, <1>8

LEMMA HistoryFits ==
  ASSUME DialogueInv, NEW size \in 1..MaxMessageChars
  PROVE  LET h == History(size) IN
         /\ Asks(h) /\ Len(h) <= MaxMessages
         /\ Chars(h) <= MaxHistoryChars /\ h[1].role = "user"
<1> DEFINE places == {i \in DOMAIN entries : Finished(entries[i])}
           told == [i \in DOMAIN Told |-> Message(Told[i])]
           question == [role |-> "user", size |-> size]
           all == Append(told, question)
<1>1. /\ entries \in Seq(Dialogue) /\ places \in SUBSET DOMAIN entries
      /\ \A i \in DOMAIN entries : Sound(entries[i])
  BY DEF DialogueInv
<1>2. Told = Filtered(entries, places)
  BY DEF Told
<1>3. /\ Told \in Seq(Dialogue)
      /\ \A k \in DOMAIN Told : \E i \in places : Told[k] = entries[i]
  <2> HIDE DEF places
  <2> QED BY <1>1, <1>2, FilteredIs
<1>4. \A k \in DOMAIN Told : Sound(Told[k])
  <2> HIDE DEF places
  <2> QED BY <1>1, <1>3
<1>5. ASSUME NEW k \in DOMAIN Told
      PROVE  /\ Message(Told[k]) \in Messages
             /\ Message(Told[k]).role = "user" => Message(Told[k]).size \in 1..MaxMessageChars
  <2>1. Told[k] \in Dialogue /\ Sound(Told[k])
    BY <1>3, <1>4
  <2> QED BY <2>1 DEF Message, Messages, Dialogue, Sound
<1>6. DOMAIN Told = 1..Len(Told) /\ Len(Told) \in Nat
  BY <1>3
<1>7. /\ told \in [1..Len(Told) -> Messages]
      /\ \A k \in 1..Len(Told) : told[k] = Message(Told[k])
  BY <1>5, <1>6
<1>8. question \in Messages /\ question.role = "user" /\ question.size = size
  BY ChatAssumption DEF Messages
<1> HIDE DEF told, question
<1>9. told \in Seq(Messages) /\ Len(told) = Len(Told) /\ DOMAIN told = 1..Len(told)
  BY <1>6, <1>7
<1>10. /\ all \in Seq(Messages) /\ Len(all) = Len(told) + 1 /\ DOMAIN all = 1..(Len(told) + 1)
       /\ all[Len(told) + 1] = question
       /\ \A i \in 1..Len(told) : all[i] = told[i]
  BY <1>8, <1>9
<1> HIDE DEF all
<1>11. \A i \in DOMAIN all : all[i].role = "user" => all[i].size \in 1..MaxMessageChars
  <2> SUFFICES ASSUME NEW i \in DOMAIN all, all[i].role = "user"
               PROVE  all[i].size \in 1..MaxMessageChars
    OBVIOUS
  <2>1. CASE i = Len(told) + 1
    BY <1>8, <1>10, <2>1
  <2>2. CASE i # Len(told) + 1
    <3>1. i \in 1..Len(told)
      BY <1>6, <1>9, <1>10, <2>2
    <3>2. all[i] = Message(Told[i]) /\ i \in DOMAIN Told
      BY <1>6, <1>7, <1>9, <1>10, <3>1
    <3> QED BY <1>5, <3>2
  <2> QED BY <2>1, <2>2
<1>12. Asks(all)
  <2>1. all # <<>> /\ all[Len(all)].role = "user"
    BY <1>6, <1>8, <1>9, <1>10
  <2> QED BY <1>10, <1>11, <2>1 DEF Asks
<1>13. Asks(LastOf(all)) /\ Len(LastOf(all)) <= MaxMessages
  BY <1>12, LastOfAsks
<1>14. History(size) = Trimmed(LastOf(all))
  BY DEF History, all, told, question
<1> DEFINE h == Trimmed(LastOf(all))
<1>15. /\ Asks(h) /\ Len(h) <= Len(LastOf(all))
       /\ Chars(h) <= MaxHistoryChars /\ h[1].role = "user"
  BY <1>13, TrimmedFits
<1>16. Len(h) <= MaxMessages
  <2>1. Len(h) \in Nat /\ Len(LastOf(all)) \in Nat /\ MaxMessages \in Nat
    BY <1>13, <1>15, ChatAssumption DEF Asks
  <2> HIDE DEF h
  <2> QED BY <1>13, <1>15, <2>1
<1> HIDE DEF h
<1> QED BY <1>14, <1>15, <1>16 DEF h

RequestTypes == DOMAIN request = Questions /\ request = [q \in Questions |-> request[q]]

\* Whatever was said, stopped and failed before, a history is cut so that the
\* server's validate_history accepts it, as far as it is the frontend's doing:
\* for all limits and texts (useChat.ts:38-50, history.py:14-44).
THEOREM RequestsHold == WidgetSpec => []RequestsFit
<1> DEFINE Inv == WidgetInv /\ RequestTypes /\ RequestsFit
<1>1. WidgetInit => Inv
  <2>1. WidgetInit => RequestTypes /\ RequestsFit
    BY DEF WidgetInit, RequestTypes, RequestsFit
  <2> QED BY <2>1, WidgetStarts
<1>2. ASSUME Inv, [WidgetNext]_widget
      PROVE  RequestTypes' /\ RequestsFit'
  <2>1. ASSUME NEW size \in 1..MaxTexts, Send(size)
        PROVE  RequestTypes' /\ RequestsFit'
    <3> DEFINE q == asked + 1
               h == History(size)
    <3>1. /\ request' = [request EXCEPT ![q] = h] /\ size \in 1..MaxMessageChars
          /\ DialogueInv
      BY <1>2, <2>1, ChatAssumption DEF Send, WidgetInv
    <3>2. /\ Asks(h) /\ Len(h) <= MaxMessages
          /\ Chars(h) <= MaxHistoryChars /\ h[1].role = "user"
      BY <3>1, HistoryFits
    <3> HIDE DEF h, q
    <3>3. /\ RequestTypes'
          /\ \A p \in Questions : request'[p] = request[p] \/ request'[p] = h
      BY <1>2, <3>1 DEF RequestTypes
    <3>4. /\ Last(h).role = "user" /\ \A i \in DOMAIN h : h[i].role = "user" => h[i].size \in 1..MaxMessageChars
      BY <3>2 DEF Asks, Last
    <3> QED BY <1>2, <3>2, <3>3, <3>4 DEF RequestsFit
  <2>2. CASE UNCHANGED request
    BY <1>2, <2>2 DEF RequestTypes, RequestsFit
  <2>3. ASSUME NEW q \in Questions, Answers(q) \/ TextDelta(q) \/ ToolCall(q) \/ Break(q)
        PROVE  UNCHANGED request
    BY <2>3 DEF Answers, Accept, Refused, Done, Error, Close, TextDelta, ToolCall, Break
  <2>4. Stop \/ Reset => UNCHANGED request
    BY DEF Stop, Reset
  <2>5. UNCHANGED widget => UNCHANGED request
    BY DEF widget
  <2> QED BY <1>2, <2>1, <2>2, <2>3, <2>4, <2>5 DEF WidgetNext
<1>3. Inv /\ [WidgetNext]_widget => Inv'
  BY <1>2, WidgetStep
<1>4. Inv => RequestsFit
  OBVIOUS
<1> QED BY <1>1, <1>3, <1>4, PTL DEF WidgetSpec

=============================================================================
