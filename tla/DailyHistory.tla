---------------------------- MODULE DailyHistory ----------------------------
(***************************************************************************)
(* The daily history of assets: candles of crypto and stock assets, rates  *)
(* of currencies. A nightly run visits the assets that are furthest behind *)
(* under a Redis lock; the creation of an asset queues a task for it alone,*)
(* and the task runner page does so for any active asset.                  *)
(* Both load what follows the newest stored day. The currencies have in    *)
(* addition a flag, history_backfilled, and a poller that stores the rate  *)
(* of tomorrow in the same table. The domains share the runner and nothing *)
(* else: a behaviour of this module is about one of them.                  *)
(***************************************************************************)
EXTENDS Integers, FiniteSets

CONSTANTS
    Domains,     \* the domains looked at: "candles" (crypto, stock) and "fiat"
    Assets,
    FirstAssets, \* of each domain, those that exist from the start; others are created
    Runs,        \* workers that may execute the nightly task
    PageRows,    \* MAX_KLINES_LIMIT, CANDLES_PAGE_ROWS
    Limit,       \* MARKET_DATA_DAILY_CANDLES_MAX_ASSETS_PER_RUN
    MaxRetries,  \* _ASSET_CATCH_UP_MAX_RETRIES
    Free, Orphan, NoAsset,
    FirstDay,    \* today at the start; days before 1 are before any history
    MaxDay,      \* bound: the last day
    MaxFaults,   \* bound: failures of any kind
    MaxEdits     \* bound: creations, changes of is_active, tasks queued by hand

ASSUME HistoryAssumption ==
    /\ Domains \subseteq {"candles", "fiat"}
    /\ PageRows \in Nat \ {0} /\ Limit \in Nat \ {0} /\ MaxRetries \in Nat
    /\ FirstDay \in Nat \ {0} /\ MaxDay \in Nat /\ MaxFaults \in Nat /\ MaxEdits \in Nat
    /\ FirstAssets \in [Domains -> SUBSET Assets] /\ Runs \intersect Assets = {} /\ NoAsset \notin Assets
    /\ Free \notin Runs /\ Orphan \notin Runs /\ Free # Orphan

VARIABLES
    domain,    \* one of the domains; never changes
    today,     \* the date in Moscow
    source,    \* the days for which the source has data
    rows,      \* the days stored
    flag,      \* history_backfilled
    exists,    \* assets there are
    active,    \* those with is_active
    lock,      \* the owner of the nightly lock
    pc,        \* where a nightly run or the task of a new asset is
    todo,      \* candidates a run has not reached
    known,     \* the candidates as a run loaded them: flag and newest day
    work,      \* the locals of catch_up_asset
    tries,     \* retries the task of an asset has left
    poll,      \* the CBR poller: where it is, and its target date
    cut,       \* history: currencies whose first load failed after the flag
    overtaken, \* history: rates of a flagged currency a newer one has hidden
    faults, edits

calendar == <<domain, today>>
assets   == <<exists, active>>
table    == <<rows, flag>>
run      == <<pc, todo, known, work, tries>>
bounds   == <<faults, edits>>
lost     == <<cut, overtaken>>
vars     == <<calendar, source, assets, table, lock, run, poll, lost, bounds>>

\* A nightly run, or the task of one asset: it has the asset's name.
Tasks == Runs \union Assets
Fiat  == domain = "fiat"

NoWork == [asset |-> NoAsset, until |-> 0, from |-> 0, got |-> {}, flagged |-> TRUE]
Unknown == <<FALSE, 0>>
NoPoll == [at |-> "idle", target |-> 0]

\* The daily tables: no two rows of an asset have the same day.
NoRows == [a \in Assets |-> {}]

\* The newest day, 0 for None.
LastOf(S) == IF S = {} THEN 0 ELSE CHOOSE d \in S : \A e \in S : e <= d

\* The newest day there may be data of: a candle is over, and the rate of a day
\* is published on the day before. The rate of tomorrow may still have to come.
LastListed == IF Fiat THEN FirstDay ELSE FirstDay - 1

Init ==
    /\ domain \in Domains /\ today = FirstDay
    /\ source \in [Assets -> SUBSET (1..LastListed)]
    /\ rows = NoRows /\ flag = [a \in Assets |-> FALSE]
    /\ exists = FirstAssets[domain] /\ active = exists
    /\ lock = Free
    /\ pc = [t \in Tasks |-> "idle"]
    /\ todo = [r \in Runs |-> {}]
    /\ known = [r \in Runs |-> [a \in Assets |-> Unknown]]
    /\ work = [t \in Tasks |-> NoWork]
    /\ tries = [a \in Assets |-> 0]
    /\ poll = NoPoll
    /\ cut = {} /\ overtaken = [a \in Assets |-> {}]
    /\ faults = 0 /\ edits = 0

Fault == faults < MaxFaults /\ faults' = faults + 1 /\ UNCHANGED edits
Edit  == edits < MaxEdits /\ edits' = edits + 1 /\ UNCHANGED faults
Goto(t, place) == pc' = [pc EXCEPT ![t] = place]

-----------------------------------------------------------------------------
\* The outside.

Midnight ==
    /\ today < MaxDay
    /\ today' = today + 1
    /\ UNCHANGED <<domain, source, assets, table, lock, run, poll, lost, bounds>>

\* Data come in the order of days, and some days have none. A candle counts
\* when its day is over, possibly late; the rate of a day is published the day
\* before, or never.
Appears(a, d) ==
    /\ d > LastOf(source[a])
    /\ IF Fiat THEN d = today + 1 /\ d <= MaxDay ELSE d < today
    /\ source' = [source EXCEPT ![a] = @ \union {d}]
    /\ UNCHANGED <<calendar, assets, table, lock, run, poll, lost, bounds>>

\* queue_*_asset_history_catch_up, after the commit.
Queue(a) ==
    /\ Goto(a, "queued")
    /\ tries' = [tries EXCEPT ![a] = MaxRetries]

\* post_save of a new asset.
Create(a) ==
    /\ Edit /\ a \notin exists
    /\ exists' = exists \union {a} /\ active' = active \union {a}
    /\ Queue(a)
    /\ UNCHANGED <<calendar, source, table, lock, todo, known, work, poll, lost>>

\* The task runner page offers the active assets for their tasks.
Offered == {a \in exists : a \in active}

\* run_task queues the task by hand. An asset has one task at a time here; a
\* nightly run may be at the same asset.
RunTask(a) ==
    /\ Edit /\ a \in Offered /\ pc[a] = "idle"
    /\ Queue(a)
    /\ UNCHANGED <<calendar, source, assets, table, lock, todo, known, work, poll, lost>>

Switch(a) ==
    /\ Edit /\ a \in exists
    /\ active' = IF a \in active THEN active \ {a} ELSE active \union {a}
    /\ UNCHANGED <<calendar, source, exists, table, lock, run, poll, lost>>

-----------------------------------------------------------------------------
\* run_catch_up_all.

\* fetch_candidates: what was never loaded first, then the oldest. The flag is
\* FALSE for all assets that have none.
FreshestFirst(k, l) == k[2] > l[2]                  \* MUTANT: descending order
Before(k, l) == (~k[1] /\ l[1]) \/ (k[1] = l[1] /\ k[2] < l[2])

Key(a) == <<flag[a], LastOf(rows[a])>>

Candidates(S) ==
    /\ S \subseteq active
    /\ Cardinality(S) = IF Cardinality(active) < Limit THEN Cardinality(active) ELSE Limit
    /\ \A a \in S, b \in active \ S : ~Before(Key(b), Key(a))

\* SET NX EX, and _run: the candidates as they are now, and the day before
\* today. Without active assets, or with the lock taken, the tick is skipped.
Acquire(r, S) ==
    /\ pc[r] = "idle" /\ active # {} /\ lock = Free
    /\ lock' = r
    /\ Candidates(S)
    /\ todo' = [todo EXCEPT ![r] = S]
    /\ known' = [known EXCEPT ![r] = [a \in Assets |-> IF a \in S THEN Key(a) ELSE Unknown]]
    /\ work' = [work EXCEPT ![r] = [NoWork EXCEPT !.until = today - 1]]
    /\ Goto(r, "next")
    /\ UNCHANGED <<calendar, source, assets, table, tries, poll, lost, bounds>>

\* EPOCH_START, get_candle_borders, HISTORY_START_DATE: where the source begins.
FirstListed == 1

\* What catch_up_asset starts from: its newest row, but the whole history as
\* long as there is none or a currency is not flagged.
IgnoringFlag(last, flagged) == last + 1             \* MUTANT: the newest row whatever the flag
SkippingADay(last, flagged) == last + 2             \* MUTANT: off by one
Start(last, flagged) == IF last = 0 \/ (Fiat /\ ~flagged) THEN FirstListed ELSE last + 1

\* The days of the source before `day` that are not stored.
Skipped(a, day) == {d \in source[a] : d < day /\ d \notin rows[a]}

\* catch_up_asset returns or raises.
Leaves(t) ==
    /\ Goto(t, IF t \in Runs THEN "next" ELSE "idle")
    /\ work' = [work EXCEPT ![t] = [NoWork EXCEPT !.until = IF t \in Runs THEN work[t].until ELSE 0]]

\* catch_up_asset up to its first request. With its newest day stored there is
\* nothing to do; a currency has to be flagged as well.
LooksUpToDate(t, a, until, flagged) ==              \* MUTANT: the newest row tells for a currency too
    LET last == LastOf(rows[a])
    IN  IF last >= until /\ last > 0 THEN Leaves(t)
        ELSE /\ work' = [work EXCEPT ![t] = [asset |-> a, until |-> until, got |-> {},
                                             from |-> Start(last, flagged), flagged |-> flagged]]
             /\ Goto(t, "fetch")

Begin(t, a, until, flagged) ==
    LET last == LastOf(rows[a])
    IN  IF last >= until /\ last > 0 /\ (Fiat => flagged) THEN Leaves(t)
        ELSE /\ work' = [work EXCEPT ![t] = [asset |-> a, until |-> until, got |-> {},
                                             from |-> Start(last, flagged), flagged |-> flagged]]
             /\ Goto(t, "fetch")

NextAsset(r, a) ==
    /\ pc[r] = "next" /\ a \in todo[r]
    /\ \A b \in todo[r] : ~Before(known[r][b], known[r][a])
    /\ todo' = [todo EXCEPT ![r] = @ \ {a}]
    /\ known' = [known EXCEPT ![r][a] = Unknown]
    /\ Begin(r, a, work[r].until, known[r][a][1])
    /\ UNCHANGED <<calendar, source, assets, table, lock, tries, poll, lost, bounds>>

\* The budget is over: it is looked at only here.
BudgetOver(r) ==
    /\ pc[r] = "next" /\ todo[r] # {} /\ Fault
    /\ Goto(r, "release")
    /\ UNCHANGED <<calendar, source, assets, table, lock, todo, known, work, tries, poll, lost>>

\* The task of an asset loads it and has no lock.
SignalTask(a) ==
    /\ pc[a] = "queued"
    /\ Begin(a, a, today - 1, flag[a])
    /\ UNCHANGED <<calendar, source, assets, table, lock, todo, known, tries, poll, lost, bounds>>

-----------------------------------------------------------------------------
\* catch_up_asset.

\* What is still to be asked for: from the day after the last page to `until`.
Left(t) ==
    LET w == work[t]
    IN  {d \in source[w.asset] : d >= w.from /\ d <= w.until /\ d > LastOf(w.got)}

\* get_daily_candles, get_candles: the first rows of it.
CandlesPage(t) == {d \in Left(t) : Cardinality({e \in Left(t) : e < d}) < PageRows}

\* A full page is followed by another request.
FetchPage(t) ==
    /\ work' = [work EXCEPT ![t].got = @ \union CandlesPage(t)]
    /\ Goto(t, IF Cardinality(CandlesPage(t)) = PageRows THEN "fetch" ELSE "write")

\* A rate that cannot be read is skipped: here it is not in the source.
RatesOf(t) == Left(t)

\* get_dynamic_rates: the rates of a currency come at once.
FetchRates(t) ==
    /\ work' = [work EXCEPT ![t].got = RatesOf(t)]
    /\ Goto(t, IF work[t].flagged THEN "write" ELSE "mark")

Fetch(t) ==
    /\ pc[t] = "fetch"
    /\ IF Fiat THEN FetchRates(t) ELSE FetchPage(t)
    /\ UNCHANGED <<calendar, source, assets, table, lock, todo, known, tries, poll, lost, bounds>>

\* A run goes on with the next asset; a task tries again after a
\* ProviderConnectionError, and ends after any other.
FetchFails(t) ==
    /\ pc[t] = "fetch" /\ Fault
    /\ IF t \in Assets /\ tries[t] > 0
       THEN /\ Goto(t, "queued") /\ work' = [work EXCEPT ![t] = NoWork]
            /\ tries' = [tries EXCEPT ![t] = @ - 1]
       ELSE Leaves(t) /\ UNCHANGED tries
    /\ UNCHANGED <<calendar, source, assets, table, lock, todo, known, poll, lost>>

\* history_backfilled is saved before the rows are.
Marked(a) == [flag EXCEPT ![a] = TRUE]

\* The rates between the last day of the first load and the newest row, which
\* the poller has stored meanwhile: nobody will ask for them.
Mark(t) ==
    LET a == work[t].asset
    IN  /\ pc[t] = "mark"
        /\ flag' = Marked(a)
        /\ overtaken' = [overtaken EXCEPT
                           ![a] = @ \union {d \in Skipped(a, LastOf(rows[a])) : d > work[t].until}]
        /\ Goto(t, "write")
        /\ UNCHANGED <<calendar, source, assets, rows, lock, todo, known, work, tries, poll,
                       cut, bounds>>

\* One statement for all rows, with ignore_conflicts.
Written(t) == [rows EXCEPT ![work[t].asset] = @ \union work[t].got]

Write(t) ==
    /\ pc[t] = "write"
    /\ rows' = Written(t)
    /\ Leaves(t)
    /\ UNCHANGED <<calendar, source, assets, flag, lock, todo, known, tries, poll, lost, bounds>>

\* The first load of a currency is lost after its flag.
Loses(t) == cut' = IF ~work[t].flagged THEN cut \union {work[t].asset} ELSE cut

\* The exception may hide a commit.
SaveFails(t) ==
    /\ pc[t] \in {"mark", "write"} /\ Fault
    /\ \/ pc[t] = "mark" /\ flag' \in {flag, Marked(work[t].asset)} /\ UNCHANGED rows
       \/ pc[t] = "write" /\ rows' \in {rows, Written(t)} /\ UNCHANGED flag
    /\ Loses(t)
    /\ Leaves(t)
    /\ UNCHANGED <<calendar, source, assets, lock, todo, known, tries, poll, overtaken>>

-----------------------------------------------------------------------------
\* The lock, and the worker's death.

\* The run's locals are gone, and the token is nobody's if it is not deleted.
Ends(t) ==
    /\ Goto(t, "idle")
    /\ work' = [work EXCEPT ![t] = NoWork]
    /\ todo' = [r \in Runs |-> IF r = t THEN {} ELSE todo[r]]
    /\ known' = [r \in Runs |-> IF r = t THEN [a \in Assets |-> Unknown] ELSE known[r]]
    /\ UNCHANGED tries

\* The candidates are done, or the budget is over.
Release(r) ==
    /\ pc[r] = "release" \/ (pc[r] = "next" /\ todo[r] = {})
    /\ lock' = IF lock = r THEN Free ELSE lock
    /\ Ends(r)
    /\ UNCHANGED <<calendar, source, assets, table, poll, lost, bounds>>

Crash(t) ==
    /\ pc[t] \notin {"idle", "queued"} /\ Fault
    /\ lock' = IF lock = t THEN Orphan ELSE lock
    /\ IF pc[t] = "write" THEN Loses(t) ELSE UNCHANGED cut
    /\ Ends(t)
    /\ UNCHANGED <<calendar, source, assets, table, poll, overtaken>>

OrphanExpires ==
    /\ lock = Orphan /\ lock' = Free
    /\ UNCHANGED <<calendar, source, assets, table, run, poll, lost, bounds>>

\* Nothing cancels an asset's requests when the budget is over: the TTL may
\* run out under them, and the next run starts beside this one.
LockExpires(r) ==
    /\ lock = r /\ Fault
    /\ lock' = Free
    /\ UNCHANGED <<calendar, source, assets, table, run, poll, lost>>

-----------------------------------------------------------------------------
\* CbrRatesPoller.

\* The target is tomorrow; if all active currencies have it, nothing is asked.
PollAsks ==
    /\ Fiat /\ poll.at = "idle"
    /\ \E a \in active : today + 1 \notin rows[a]
    /\ poll' = [at |-> "asked", target |-> today + 1]
    /\ UNCHANGED <<calendar, source, assets, table, lock, run, lost, bounds>>

\* An answer of the target's date, and the currencies with a rate in it.
Published == {a \in Assets : LastOf(source[a]) = poll.target}

\* Rates a first load is about to store.
InHand(a) ==
    UNION {work[t].got : t \in {t \in Tasks : pc[t] = "write" /\ work[t].asset = a
                                              /\ ~work[t].flagged}}

\* The newest published rates: stored if they are of the target, for the
\* currencies that are active by then. What a flagged currency has not stored by
\* then is before its newest row from now on.
PollAnswered ==
    LET stored == active \intersect Published
    IN  /\ poll.at = "asked"
        /\ rows' = [a \in Assets |-> IF a \in stored THEN rows[a] \union {poll.target} ELSE rows[a]]
        /\ overtaken' = [a \in Assets |->
               IF a \in stored /\ flag[a]
               THEN overtaken[a] \union
                      {d \in Skipped(a, poll.target) : d >= FirstDay /\ d \notin InHand(a)}
               ELSE overtaken[a]]
        /\ poll' = NoPoll
        /\ UNCHANGED <<calendar, source, assets, flag, lock, run, cut, bounds>>

\* ProviderConnectionError, the budget, or the lock of another run: the slot is
\* lost, and another may or may not come this day.
PollFails ==
    /\ poll.at = "asked"
    /\ poll' = NoPoll
    /\ UNCHANGED <<calendar, source, assets, table, lock, run, lost, bounds>>

-----------------------------------------------------------------------------
CatchesUp(t) == Fetch(t) \/ Mark(t) \/ Write(t)
Nightly(r) ==
    \/ (\E S \in SUBSET Assets : Acquire(r, S))
    \/ (\E a \in Assets : NextAsset(r, a))
    \/ Release(r) \/ CatchesUp(r)
OfAsset(a) == SignalTask(a) \/ CatchesUp(a)

Next ==
    \/ Midnight
    \/ \E a \in Assets, d \in 1..MaxDay : Appears(a, d)
    \/ \E a \in Assets : Create(a) \/ RunTask(a) \/ Switch(a) \/ OfAsset(a)
    \/ \E r \in Runs : Nightly(r) \/ BudgetOver(r) \/ LockExpires(r)
    \/ \E t \in Tasks : FetchFails(t) \/ SaveFails(t) \/ Crash(t)
    \/ OrphanExpires \/ PollAsks \/ PollAnswered \/ PollFails

Spec == Init /\ [][Next]_vars

\* Beat starts a run every night and a worker executes it; queued tasks are
\* executed; Redis expires keys. The slots of the CBR poller may all fail.
Fairness ==
    /\ \A r \in Runs : WF_vars(Nightly(r))
    /\ \A a \in Assets : WF_vars(OfAsset(a))
    /\ WF_vars(OrphanExpires)

FairSpec == Spec /\ Fairness

-----------------------------------------------------------------------------
TypeOK ==
    /\ domain \in Domains /\ today \in FirstDay..MaxDay
    /\ source \in [Assets -> SUBSET (1..MaxDay)] /\ rows \in [Assets -> SUBSET (1..MaxDay)]
    /\ flag \in [Assets -> BOOLEAN]
    /\ active \subseteq exists /\ exists \subseteq Assets
    /\ lock \in Runs \union {Free, Orphan}
    /\ pc \in [Tasks -> {"idle", "queued", "next", "fetch", "mark", "write", "release"}]
    /\ \A r \in Runs : todo[r] \subseteq Assets /\ Cardinality(todo[r]) <= Limit
    /\ \A t \in Tasks : /\ work[t].asset \in Assets \union {NoAsset}
                        /\ work[t].until \in 0..(today - 1) /\ work[t].got \subseteq 1..work[t].until
    /\ tries \in [Assets -> 0..MaxRetries]
    /\ poll.at \in {"idle", "asked"} /\ cut \subseteq Assets
    /\ overtaken \in [Assets -> SUBSET (FirstDay..MaxDay)]

\* Nothing but what the source has is stored, and no candle is missing before
\* the newest one stored: the newest one is all a later catch-up looks at, so
\* a hole would stay. This with overlapping runs, tasks and crashes.
NoHole ==
    domain = "candles" => \A a \in Assets :
        rows[a] = {d \in source[a] : d <= LastOf(rows[a])}

\* A flagged currency has all rates a later catch-up will not ask for: those of
\* the days before the system started and those before its newest row. Some run
\* is about to store them, or they are there: unless its first load failed
\* between the flag and the rows, or the poller stored a newer rate before the
\* catch-up could come to the day. However the poller, the runs and the task of
\* the currency overlap, they lose no other rate.
BackfillComplete ==
    Fiat => \A a \in Assets : flag[a] /\ a \notin cut =>
        \A d \in source[a] : d < FirstDay \/ d < LastOf(rows[a]) =>
            d \in rows[a] \union InHand(a) \union overtaken[a]

\* Assets the source has nothing more for although they are not up to date:
\* they stay in front of the candidates.
Exhausted == {a \in active : LastOf(rows[a]) < today - 1 /\ source[a] \subseteq rows[a]}

\* In the end every day of every active asset is stored, as long as fewer
\* assets than a run visits have nothing left to load.
EventuallyStored ==
    domain = "candles" =>
        (<>[](Cardinality(Exhausted) < Limit) =>
            <>[](\A a \in active, d \in 1..(today - 1) : d \in source[a] => d \in rows[a]))

\* In the end every active currency is flagged, whatever the poller stores.
EventuallyBackfilled == <>[](Fiat => \A a \in active : flag[a])

\* What the help text of history_backfilled says, the whole history is loaded,
\* for a currency whose missing days no later catch-up would ask for.
FlagMeansHistory ==
    Fiat => \A a \in Assets : flag[a] =>
        \/ \E t \in Tasks : pc[t] = "write" /\ work[t].asset = a /\ ~work[t].flagged
        \/ \A d \in source[a] : d < FirstDay /\ d < LastOf(rows[a]) => d \in rows[a]
=============================================================================
