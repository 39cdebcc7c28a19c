------------------------- MODULE DailyHistoryProofs -------------------------
(***************************************************************************)
(* Proofs about DailyHistory for every value of its constants: the stored  *)
(* candles have no hole, and a flagged currency has every rate before its  *)
(* newest row but those a failure or the poller has taken away.            *)
(***************************************************************************)
EXTENDS DailyHistory, TLAPS, FiniteSetTheorems, WellFoundedInduction

\* No day there ever is comes later.
Horizon == MaxDay + FirstDay
SomeDays == SUBSET (1..Horizon)

Phases == {"idle", "queued", "next", "fetch", "mark", "write", "release"}
Work   == [asset : Assets \union {NoAsset}, until : Nat, from : Nat, got : SomeDays,
           flagged : BOOLEAN]

Types ==
    /\ domain \in Domains /\ today \in Nat /\ FirstDay <= today
    /\ source \in [Assets -> SomeDays] /\ rows \in [Assets -> SomeDays]
    /\ flag \in [Assets -> BOOLEAN] /\ overtaken \in [Assets -> SomeDays]
    /\ pc \in [Tasks -> Phases] /\ work \in [Tasks -> Work]
    /\ known \in [Runs -> [Assets -> BOOLEAN \X Nat]]
    /\ poll.at = "asked" => Fiat /\ poll.target \in Nat \ {0}

Busy(t) == pc[t] \in {"fetch", "mark", "write"}
On(t)   == work[t].asset

\* No day of D up to one of S is left out of S.
Covers(S, D) == \A s \in S, d \in D : d <= s => d \in S

\* What is stored is the beginning of what the source has.
Stored(a) == rows[a] \subseteq source[a] /\ (~Fiat => Covers(rows[a], source[a]))

\* A task is about an asset, has fetched days of it, and looks no further than
\* the day before it began.
About(t) ==
    /\ pc[t] \in {"next", "fetch", "mark", "write"} =>
          FirstDay - 1 <= work[t].until /\ work[t].until < today
    /\ Busy(t) => On(t) \in Assets /\ work[t].got \subseteq source[On(t)]

\* What comes before its start is stored and stays complete, and from there on
\* it has fetched without leaving out a day.
Follows(t) ==
    Busy(t) /\ ~Fiat =>
        /\ work[t].from = 1 \/ (work[t].from - 1) \in source[On(t)]
        /\ \A d \in source[On(t)] : d < work[t].from => d \in rows[On(t)]
        /\ \A g \in work[t].got : work[t].from <= g
        /\ \A g \in work[t].got, d \in source[On(t)] :
              work[t].from <= d /\ d <= g => d \in work[t].got

\* The first row a task of a currency may leave out: the whole history before
\* the flag, what follows the newest row after it.
Reach(t) == IF work[t].flagged THEN LastOf(rows[On(t)]) + 1 ELSE 1

\* The rates there are from the start of a task to its last day.
Asked(t) == {d \in source[On(t)] : work[t].from <= d /\ d <= work[t].until}

\* A task of a currency fetches, at once, all that a later one would not.
Loads(t) ==
    /\ pc[t] = "mark" => Fiat /\ ~work[t].flagged
    /\ Fiat /\ Busy(t) =>
          /\ work[t].from <= Reach(t)
          /\ work[t].got = IF pc[t] = "fetch" THEN {} ELSE Asked(t)

TaskOK(t) == About(t) /\ Follows(t) /\ Loads(t)

\* What BackfillComplete says of one currency.
Backed(a) ==
    flag[a] /\ a \notin cut =>
        \A d \in source[a] : d < FirstDay \/ d < LastOf(rows[a]) =>
            d \in rows[a] \union InHand(a) \union overtaken[a]

HistoryInv ==
    /\ Types
    /\ \A a \in Assets : Stored(a)
    /\ \A t \in Tasks : TaskOK(t)
    /\ \A a \in Assets \ exists : pc[a] = "idle"
    /\ Fiat => \A a \in Assets : Backed(a)

-----------------------------------------------------------------------------
\* What is assumed of the constants.
LEMMA Settings ==
  /\ FirstDay \in Nat \ {0} /\ MaxDay \in Nat /\ Horizon \in Nat /\ PageRows \in Nat \ {0}
  /\ Runs \intersect Assets = {} /\ NoAsset \notin Assets
BY HistoryAssumption DEF Horizon

\* The distances to n are natural numbers, and the least of them is that of
\* the newest entry.
LEMMA MaximumExists ==
  ASSUME NEW n \in Nat, NEW S \in SUBSET (1..n), S # {}
  PROVE  \E i \in S : \A j \in S : j <= i
<1> DEFINE Distances == {n - i : i \in S}
           Less == OpToRel(<, Nat)
<1>1. Distances \subseteq Nat /\ Distances # {}
  <2>1. \A i \in S : n - i \in Nat
    OBVIOUS
  <2>2. PICK i \in S : TRUE
    OBVIOUS
  <2>3. n - i \in Distances
    OBVIOUS
  <2> QED BY <2>1, <2>3
<1>2. PICK d \in Distances : \A e \in Distances : ~ (<<e, d>> \in Less)
  <2> HIDE DEF Distances, Less
  <2> QED BY <1>1, NatLessThanWellFounded, WFMin DEF Less
<1>3. PICK i \in S : d = n - i
  BY <1>2
<1>4. ASSUME NEW j \in S
      PROVE  j <= i
  <2>1. n - j \in Distances /\ n - j \in Nat /\ d \in Nat
    BY <1>1
  <2>2. ~ (n - j < d)
    BY <1>2, <2>1 DEF OpToRel
  <2>3. i \in Nat /\ j \in Nat
    OBVIOUS
  <2> HIDE DEF Distances, Less
  <2> QED BY <1>3, <2>2, <2>3
<1> QED BY <1>4

\* The newest of a set of days.
LEMMA NewestDay ==
  ASSUME NEW S \in SomeDays
  PROVE  /\ LastOf(S) \in 0..Horizon
         /\ \A d \in S : d <= LastOf(S)
         /\ S # {} => LastOf(S) \in S
         /\ S = {} => LastOf(S) = 0
<1>1. CASE S = {}
  BY <1>1, Settings DEF LastOf
<1>2. CASE S # {}
  <2>1. \E m \in S : \A e \in S : e <= m
    BY <1>2, Settings, MaximumExists DEF SomeDays
  <2>2. LastOf(S) \in S /\ \A d \in S : d <= LastOf(S)
    BY <1>2, <2>1 DEF LastOf
  <2>3. LastOf(S) \in 1..Horizon
    BY <2>2 DEF SomeDays
  <2> QED BY <1>2, <2>2, <2>3, Settings
<1> QED BY <1>1, <1>2

\* More rows do not have an older newest one.
LEMMA NewestGrows ==
  ASSUME NEW S \in SomeDays, NEW T \in SomeDays, S \subseteq T
  PROVE  LastOf(S) <= LastOf(T)
<1>1. CASE S = {}
  BY <1>1, NewestDay, Settings
<1>2. CASE S # {}
  BY <1>2, NewestDay
<1> QED BY <1>1, <1>2

\* A rate in hand is in the hands of a task.
LEMMA Hands ==
  ASSUME NEW a \in Assets
  PROVE  \A d : d \in InHand(a) <=>
           \E t \in Tasks : /\ pc[t] = "write" /\ work[t].asset = a /\ ~work[t].flagged
                             /\ d \in work[t].got
BY DEF InHand

\* A complete beginning is what NoHole says it is.
LEMMA CoversIsNoHole ==
  ASSUME Types, ~Fiat, \A a \in Assets : Stored(a)
  PROVE  NoHole
<1> SUFFICES ASSUME NEW a \in Assets
             PROVE  rows[a] = {d \in source[a] : d <= LastOf(rows[a])}
  BY DEF NoHole
<1>1. rows[a] \in SomeDays /\ source[a] \in SomeDays /\ Stored(a)
  BY DEF Types
<1>2. /\ \A d \in rows[a] : d <= LastOf(rows[a])
      /\ rows[a] # {} => LastOf(rows[a]) \in rows[a]
      /\ rows[a] = {} => LastOf(rows[a]) = 0
  BY <1>1, NewestDay
<1>3. \A d \in source[a] : d >= 1 /\ d \in Int
  BY <1>1 DEF SomeDays
<1>4. ASSUME NEW d \in source[a], d <= LastOf(rows[a])
      PROVE  d \in rows[a]
  <2>1. rows[a] # {}
    BY <1>2, <1>3, <1>4
  <2> QED BY <1>1, <1>2, <1>4, <2>1 DEF Stored, Covers
<1> QED BY <1>1, <1>2, <1>4 DEF Stored

\* A phase and a work for a task keep the types.
LEMMA TaskTypes ==
  ASSUME Types, NEW t \in Tasks, NEW place \in Phases, NEW w \in Work,
         pc' = [pc EXCEPT ![t] = place], work' = [work EXCEPT ![t] = w]
  PROVE  /\ pc' \in [Tasks -> Phases] /\ work' \in [Tasks -> Work]
         /\ pc'[t] = place /\ work'[t] = w
         /\ \A s \in Tasks \ {t} : pc'[s] = pc[s] /\ work'[s] = work[s]
BY DEF Types

\* A task that does something while rows are only added leaves the others as
\* they were.
LEMMA OthersOK ==
  ASSUME HistoryInv, NEW s \in Tasks, pc'[s] = pc[s], work'[s] = work[s],
         UNCHANGED <<domain, source>>, today' \in Nat, today <= today',
         rows' \in [Assets -> SomeDays], \A a \in Assets : rows[a] \subseteq rows'[a]
  PROVE  TaskOK(s)'
<1>1. TaskOK(s) /\ work[s] \in Work /\ Types
  BY DEF HistoryInv, Types
<1>2. About(s)'
  BY <1>1 DEF TaskOK, About, Busy, On, Work, Types
<1>3. Follows(s)'
  BY <1>1 DEF TaskOK, About, Follows, Busy, On, Fiat
<1>4. Loads(s)'
  <2> SUFFICES ASSUME Fiat, Busy(s)
               PROVE  work[s].from <= Reach(s)'
    BY <1>1 DEF TaskOK, Loads, Asked, Busy, On, Fiat
  <2>1. On(s) \in Assets /\ work[s].from <= Reach(s) /\ work[s].from \in Nat
    BY <1>1 DEF TaskOK, About, Loads, Work
  <2>2. rows[On(s)] \in SomeDays /\ rows'[On(s)] \in SomeDays
    BY <1>1, <2>1 DEF Types
  <2>3. /\ LastOf(rows[On(s)]) \in Nat /\ LastOf(rows'[On(s)]) \in Nat
        /\ LastOf(rows[On(s)]) <= LastOf(rows'[On(s)])
    BY <2>1, <2>2, NewestDay, NewestGrows, Settings
  <2> QED BY <2>1, <2>3 DEF Reach, On
<1> QED BY <1>2, <1>3, <1>4 DEF TaskOK

\* A task that is not at work promises nothing but its last day.
LEMMA RestingOK ==
  ASSUME NEW t \in Tasks, ~ Busy(t)',
         pc'[t] = "next" => FirstDay - 1 <= work'[t].until /\ work'[t].until < today'
  PROVE  TaskOK(t)'
BY DEF TaskOK, About, Follows, Loads, Busy

\* What a step of one task has to show.
LEMMA TaskStep ==
  ASSUME HistoryInv, NEW t \in Tasks,
         UNCHANGED <<domain, today, source, exists, poll>>,
         pc' \in [Tasks -> Phases], work' \in [Tasks -> Work],
         \A s \in Tasks \ {t} : pc'[s] = pc[s] /\ work'[s] = work[s],
         known' \in [Runs -> [Assets -> BOOLEAN \X Nat]],
         flag' \in [Assets -> BOOLEAN], rows' \in [Assets -> SomeDays],
         overtaken' \in [Assets -> SomeDays],
         \A a \in Assets : rows[a] \subseteq rows'[a], \A a \in Assets : Stored(a)',
         t \in Runs \/ pc[t] # "idle", TaskOK(t)', Fiat => \A a \in Assets : Backed(a)'
  PROVE  HistoryInv'
<1>1. Types'
  BY DEF HistoryInv, Types, Fiat
<1>2. \A s \in Tasks : TaskOK(s)'
  <2>1. ASSUME NEW s \in Tasks \ {t}
        PROVE  TaskOK(s)'
    BY OthersOK DEF HistoryInv, Types
  <2> QED BY <2>1
<1>3. \A a \in Assets \ exists' : pc'[a] = "idle"
  BY Settings DEF HistoryInv, Tasks
<1> QED BY <1>1, <1>2, <1>3 DEF HistoryInv, Fiat

\* What a task has in hand stays there while it stands still.
LEMMA HandStays ==
  ASSUME NEW t \in Tasks, NEW a \in Assets,
         \A s \in Tasks \ {t} : pc'[s] = pc[s] /\ work'[s] = work[s],
         pc[t] # "write" \/ work[t].asset # a \/ work[t].flagged
  PROVE  InHand(a) \subseteq InHand(a)'
<1>1. ASSUME NEW d \in InHand(a)
      PROVE  d \in InHand(a)'
  <2>1. PICK s \in Tasks : /\ pc[s] = "write" /\ work[s].asset = a /\ ~work[s].flagged
                           /\ d \in work[s].got
    BY <1>1, Hands
  <2>2. pc'[s] = pc[s] /\ work'[s] = work[s]
    BY <2>1
  <2> QED BY <2>1, <2>2 DEF InHand
<1> QED BY <1>1

\* A currency whose rows stay as they are has what it had.
LEMMA BackedStays ==
  ASSUME NEW a \in Assets, Backed(a), source'[a] = source[a], rows'[a] = rows[a],
         overtaken[a] \subseteq overtaken'[a], InHand(a) \subseteq InHand(a)',
         flag'[a] => flag[a], a \in cut => a \in cut'
  PROVE  Backed(a)'
BY DEF Backed

\* A step of a task that stores nothing.
LEMMA QuietStep ==
  ASSUME HistoryInv, NEW t \in Tasks,
         UNCHANGED <<domain, today, source, exists, poll, flag, rows, lost>>,
         pc' \in [Tasks -> Phases], work' \in [Tasks -> Work],
         \A s \in Tasks \ {t} : pc'[s] = pc[s] /\ work'[s] = work[s],
         known' \in [Runs -> [Assets -> BOOLEAN \X Nat]],
         t \in Runs \/ pc[t] # "idle", pc[t] # "write", TaskOK(t)'
  PROVE  HistoryInv'
<1>1. Fiat => \A a \in Assets : Backed(a)'
  <2> SUFFICES ASSUME Fiat, NEW a \in Assets
               PROVE  Backed(a)'
    OBVIOUS
  <2>1. InHand(a) \subseteq InHand(a)' /\ Backed(a)
    BY HandStays DEF HistoryInv
  <2>2. UNCHANGED <<cut, overtaken>>
    BY DEF lost
  <2> QED BY <2>1, <2>2, BackedStays
<1>2. /\ flag' \in [Assets -> BOOLEAN] /\ rows' \in [Assets -> SomeDays]
      /\ overtaken' \in [Assets -> SomeDays] /\ \A a \in Assets : Stored(a)'
  BY DEF HistoryInv, Types, Stored, Fiat, lost
<1> QED BY <1>1, <1>2, TaskStep

-----------------------------------------------------------------------------
\* A task that leaves its asset rests.
LEMMA LeavingRests ==
  ASSUME HistoryInv, NEW t \in Tasks, Leaves(t), pc[t] # "idle", pc[t] # "queued" \/ t \in Assets,
         pc[t] # "release", UNCHANGED today
  PROVE  /\ pc' \in [Tasks -> Phases] /\ work' \in [Tasks -> Work]
         /\ \A s \in Tasks \ {t} : pc'[s] = pc[s] /\ work'[s] = work[s]
         /\ TaskOK(t)'
<1> DEFINE place == IF t \in Runs THEN "next" ELSE "idle"
           w == [NoWork EXCEPT !.until = IF t \in Runs THEN work[t].until ELSE 0]
<1>1. Types /\ work[t].until \in Nat /\ pc[t] \in Phases
  BY DEF HistoryInv, Types, Work
<1>2. w \in Work /\ w.until = (IF t \in Runs THEN work[t].until ELSE 0) /\ place \in Phases
  BY <1>1 DEF Work, NoWork, SomeDays, Phases
<1>3. pc' = [pc EXCEPT ![t] = place] /\ work' = [work EXCEPT ![t] = w]
  BY DEF Leaves, Goto
<1> HIDE DEF w, place
<1>4. /\ pc' \in [Tasks -> Phases] /\ work' \in [Tasks -> Work]
      /\ pc'[t] = place /\ work'[t] = w
      /\ \A s \in Tasks \ {t} : pc'[s] = pc[s] /\ work'[s] = work[s]
  BY <1>1, <1>2, <1>3, TaskTypes
<1>5. t \in Runs => FirstDay - 1 <= work[t].until /\ work[t].until < today
  <2>1. TaskOK(t) /\ (t \in Runs => t \notin Assets)
    BY Settings DEF HistoryInv
  <2> QED BY <1>1, <2>1 DEF TaskOK, About, Phases
<1>6. ~ Busy(t)' /\ (pc'[t] = "next" => t \in Runs)
  BY <1>4 DEF Busy, place
<1>7. TaskOK(t)'
  BY <1>2, <1>4, <1>5, <1>6, RestingOK
<1> QED BY <1>4, <1>7

\* The start of an asset: with candles, all that the source has before the
\* newest row is stored; a currency without its flag starts at the first day.
LEMMA BeginFollows ==
  ASSUME HistoryInv, NEW t \in Tasks, NEW a \in Assets, NEW until \in Nat, NEW flagged \in BOOLEAN,
         FirstDay - 1 <= until, until < today,
         pc[t] = "next" \/ (pc[t] = "queued" /\ t \in Assets),
         Begin(t, a, until, flagged), UNCHANGED <<domain, today, source, rows>>
  PROVE  /\ pc' \in [Tasks -> Phases] /\ work' \in [Tasks -> Work]
         /\ \A s \in Tasks \ {t} : pc'[s] = pc[s] /\ work'[s] = work[s]
         /\ TaskOK(t)'
<1>1. CASE Leaves(t)
  BY <1>1, LeavingRests
<1>2. CASE ~ Leaves(t)
  <2> DEFINE from == Start(LastOf(rows[a]), flagged)
             w == [asset |-> a, until |-> until, got |-> {}, from |-> from, flagged |-> flagged]
  <2>1. Types /\ rows[a] \in SomeDays /\ source[a] \in SomeDays /\ Stored(a)
    BY DEF HistoryInv, Types
  <2>2. /\ LastOf(rows[a]) \in Nat
        /\ \A d \in rows[a] : d <= LastOf(rows[a])
        /\ rows[a] # {} => LastOf(rows[a]) \in rows[a]
        /\ rows[a] = {} => LastOf(rows[a]) = 0
    BY <2>1, NewestDay, Settings
  <2>3. /\ from \in Nat
        /\ Fiat => from <= (IF flagged THEN LastOf(rows[a]) + 1 ELSE 1)
        /\ ~Fiat => from = LastOf(rows[a]) + 1
    BY <2>2 DEF Start, FirstListed
  <2>4. w \in Work
    BY <2>3 DEF Work, SomeDays
  <2>5. pc' = [pc EXCEPT ![t] = "fetch"] /\ work' = [work EXCEPT ![t] = w]
    BY <1>2 DEF Begin, Goto
  <2>6. \A d \in source[a] : d \in Int /\ d >= 1
    BY <2>1 DEF SomeDays
  <2>7. ~Fiat => /\ from = 1 \/ (from - 1) \in source[a]
                 /\ \A d \in source[a] : d < from => d \in rows[a]
    <3>1. CASE rows[a] = {}
      BY <2>2, <2>3, <2>6, <3>1
    <3>2. CASE rows[a] # {}
      <4>1. LastOf(rows[a]) \in source[a] /\ LastOf(rows[a]) \in rows[a]
        BY <2>1, <2>2, <3>2 DEF Stored
      <4>2. ~Fiat => \A d \in source[a] : d <= LastOf(rows[a]) => d \in rows[a]
        BY <2>1, <4>1 DEF Stored, Covers
      <4> QED BY <2>2, <2>3, <2>6, <4>1, <4>2
    <3> QED BY <3>1, <3>2
  <2>8. /\ w.asset = a /\ w.until = until /\ w.got = {} /\ w.from = from /\ w.flagged = flagged
    OBVIOUS
  <2> HIDE DEF w, from
  <2>9. /\ pc' \in [Tasks -> Phases] /\ work' \in [Tasks -> Work]
        /\ pc'[t] = "fetch" /\ work'[t] = w
        /\ \A s \in Tasks \ {t} : pc'[s] = pc[s] /\ work'[s] = work[s]
    BY <2>1, <2>4, <2>5, TaskTypes DEF Phases
  <2>10. About(t)'
    BY <2>8, <2>9 DEF About, Busy, On
  <2>11. Follows(t)'
    BY <2>7, <2>8, <2>9 DEF Follows, On, Fiat
  <2>12. Loads(t)'
    BY <2>3, <2>8, <2>9 DEF Loads, Fiat, Reach, On
  <2> QED BY <2>9, <2>10, <2>11, <2>12 DEF TaskOK
<1> QED BY <1>1, <1>2

-----------------------------------------------------------------------------
\* A run that has just taken its candidates: its last day is yesterday.
LEMMA AcquireKeeps ==
  ASSUME HistoryInv, NEW r \in Runs, NEW S, Acquire(r, S)
  PROVE  HistoryInv'
<1> DEFINE w == [NoWork EXCEPT !.until = today - 1]
<1>1. /\ Types /\ r \in Tasks /\ today - 1 \in Nat
      /\ FirstDay - 1 <= today - 1 /\ today - 1 < today /\ today' = today
  <2>1. Types /\ today \in Nat /\ FirstDay <= today
    BY DEF HistoryInv, Types
  <2>2. r \in Tasks /\ today' = today
    BY DEF Tasks, Acquire, calendar
  <2> QED BY <2>1, <2>2, Settings
<1>2. w \in Work /\ w.until = today - 1
  BY <1>1 DEF Work, NoWork, SomeDays
<1>3. pc' = [pc EXCEPT ![r] = "next"] /\ work' = [work EXCEPT ![r] = w] /\ pc[r] = "idle"
  BY DEF Acquire, Goto
<1> HIDE DEF w
<1>4. /\ pc' \in [Tasks -> Phases] /\ work' \in [Tasks -> Work]
      /\ pc'[r] = "next" /\ work'[r] = w
      /\ \A s \in Tasks \ {r} : pc'[s] = pc[s] /\ work'[s] = work[s]
  BY <1>1, <1>2, <1>3, TaskTypes DEF Phases
<1>5. TaskOK(r)'
  BY <1>1, <1>2, <1>4, RestingOK DEF Busy
<1>6. known' \in [Runs -> [Assets -> BOOLEAN \X Nat]]
  <2>1. \A a \in Assets : flag[a] \in BOOLEAN /\ LastOf(rows[a]) \in Nat
    BY <1>1, NewestDay, Settings DEF Types
  <2>2. \A a \in Assets : Key(a) \in BOOLEAN \X Nat /\ Unknown \in BOOLEAN \X Nat
    BY <2>1 DEF Key, Unknown
  <2>3. [a \in Assets |-> IF a \in S THEN Key(a) ELSE Unknown] \in [Assets -> BOOLEAN \X Nat]
    BY <2>2
  <2> QED BY <1>1, <2>3 DEF Types, Acquire
<1>7. UNCHANGED <<domain, today, source, exists, poll, flag, rows, lost>>
  BY DEF Acquire, calendar, assets, table
<1> QED BY <1>1, <1>3, <1>4, <1>5, <1>6, <1>7, QuietStep

\* A run goes on with one of its candidates.
LEMMA NextAssetKeeps ==
  ASSUME HistoryInv, NEW r \in Runs, NEW a \in Assets, NextAsset(r, a)
  PROVE  HistoryInv'
<1>1. /\ r \in Tasks /\ Types /\ pc[r] = "next"
      /\ known[r][a][1] \in BOOLEAN /\ work[r].until \in Nat
  BY DEF HistoryInv, Types, Tasks, NextAsset, Work
<1>2. FirstDay - 1 <= work[r].until /\ work[r].until < today
  BY <1>1 DEF HistoryInv, TaskOK, About
<1>3. UNCHANGED <<domain, today, source, exists, poll, flag, rows, lost>>
  BY DEF NextAsset, calendar, assets, table
<1>4. Begin(r, a, work[r].until, known[r][a][1])
  BY DEF NextAsset
<1>5. /\ pc' \in [Tasks -> Phases] /\ work' \in [Tasks -> Work]
      /\ \A s \in Tasks \ {r} : pc'[s] = pc[s] /\ work'[s] = work[s]
      /\ TaskOK(r)'
  BY <1>1, <1>2, <1>3, <1>4, BeginFollows
<1>6. known' \in [Runs -> [Assets -> BOOLEAN \X Nat]]
  BY <1>1 DEF Types, NextAsset, Unknown
<1> QED BY <1>1, <1>3, <1>5, <1>6, QuietStep

\* The task of a new asset starts.
LEMMA SignalTaskKeeps ==
  ASSUME HistoryInv, NEW a \in Assets, SignalTask(a)
  PROVE  HistoryInv'
<1>1. /\ a \in Tasks /\ Types /\ pc[a] = "queued" /\ flag[a] \in BOOLEAN
      /\ today - 1 \in Nat /\ FirstDay - 1 <= today - 1 /\ today - 1 < today
  BY Settings DEF HistoryInv, Types, Tasks, SignalTask
<1>2. UNCHANGED <<domain, today, source, exists, poll, flag, rows, lost, known>>
  BY DEF SignalTask, calendar, assets, table
<1>3. Begin(a, a, today - 1, flag[a])
  BY DEF SignalTask
<1>4. /\ pc' \in [Tasks -> Phases] /\ work' \in [Tasks -> Work]
      /\ \A s \in Tasks \ {a} : pc'[s] = pc[s] /\ work'[s] = work[s]
      /\ TaskOK(a)'
  BY <1>1, <1>2, <1>3, BeginFollows
<1> QED BY <1>1, <1>2, <1>4, QuietStep DEF Types

\* A page is the next days of the source, without leaving out one.
LEMMA PageFollows ==
  ASSUME HistoryInv, NEW t \in Tasks, pc[t] = "fetch", ~Fiat,
         NEW g \in CandlesPage(t), NEW d \in source[On(t)], work[t].from <= d, d <= g
  PROVE  d \in work[t].got \union CandlesPage(t)
<1>1. /\ Types /\ On(t) \in Assets /\ source[On(t)] \in SomeDays /\ work[t] \in Work
      /\ work[t].got \in SomeDays /\ TaskOK(t) /\ Busy(t)
  BY DEF HistoryInv, Types, TaskOK, About, Busy, Work
<1>2. g \in Left(t) /\ Cardinality({e \in Left(t) : e < g}) < PageRows
  BY DEF CandlesPage
<1>3. CASE d > LastOf(work[t].got)
  <2>1. Left(t) \in SomeDays /\ d \in Left(t)
    BY <1>1, <1>2, <1>3 DEF Left, On, SomeDays, Work
  <2>2. IsFiniteSet({e \in Left(t) : e < g})
    <3>1. Horizon \in Int /\ 1 \in Int
      BY Settings
    <3>2. IsFiniteSet(1..Horizon)
      BY <3>1, FS_Interval
    <3>3. {e \in Left(t) : e < g} \in SUBSET (1..Horizon)
      BY <2>1 DEF SomeDays
    <3> QED BY <3>2, <3>3, FS_Subset
  <2>3. {e \in Left(t) : e < d} \in SUBSET {e \in Left(t) : e < g}
    BY <1>2, <2>1 DEF SomeDays
  <2>4. /\ IsFiniteSet({e \in Left(t) : e < d})
        /\ Cardinality({e \in Left(t) : e < d}) <= Cardinality({e \in Left(t) : e < g})
    BY <2>2, <2>3, FS_Subset
  <2>5. Cardinality({e \in Left(t) : e < d}) < PageRows
    BY <1>2, <2>2, <2>4, Settings, FS_CardinalityType
  <2> QED BY <2>1, <2>5 DEF CandlesPage
<1>4. CASE ~ (d > LastOf(work[t].got))
  <2>1. /\ LastOf(work[t].got) \in 0..Horizon
        /\ work[t].got # {} => LastOf(work[t].got) \in work[t].got
        /\ work[t].got = {} => LastOf(work[t].got) = 0
    BY <1>1, NewestDay
  <2>2. d \in 1..Horizon
    BY <1>1 DEF SomeDays
  <2>3. d <= LastOf(work[t].got)
    BY <1>4, <2>1, <2>2, Settings
  <2>4. work[t].got # {}
    BY <2>1, <2>2, <2>3, Settings
  <2> QED BY <1>1, <2>1, <2>3, <2>4 DEF TaskOK, Follows
<1> QED BY <1>3, <1>4

\* A request: what it has fetched begins where it started, without a gap.
LEMMA FetchKeeps ==
  ASSUME HistoryInv, NEW t \in Tasks, Fetch(t)
  PROVE  HistoryInv'
<1> DEFINE more == IF Fiat THEN Left(t) ELSE work[t].got \union CandlesPage(t)
           w == [work[t] EXCEPT !.got = more]
<1>1. /\ Types /\ pc[t] = "fetch" /\ work[t] \in Work /\ TaskOK(t) /\ Busy(t) /\ On(t) \in Assets
      /\ source[On(t)] \in SomeDays /\ work[t].got \subseteq source[On(t)]
      /\ work[t].flagged \in BOOLEAN
  BY DEF HistoryInv, Types, Fetch, TaskOK, About, Busy, Work
<1>2. UNCHANGED <<domain, today, source, exists, poll, flag, rows, lost, known>>
  BY DEF Fetch, calendar, assets, table
<1>3. PICK place \in {"fetch", "mark", "write"} :
         /\ pc' = [pc EXCEPT ![t] = place]
         /\ Fiat => place = (IF work[t].flagged THEN "write" ELSE "mark")
         /\ ~Fiat => place # "mark"
  BY DEF Fetch, FetchPage, FetchRates, RatesOf, Goto
<1>4. work' = [work EXCEPT ![t] = w]
  <2>1. work' = [work EXCEPT ![t].got = more]
    BY DEF Fetch, FetchPage, FetchRates, RatesOf
  <2> QED BY <1>1, <2>1 DEF Types
<1>5. more \subseteq source[On(t)]
  BY <1>1 DEF Left, CandlesPage, On
<1>6. /\ w \in Work /\ w.asset = On(t) /\ w.until = work[t].until /\ w.got = more
      /\ w.from = work[t].from /\ w.flagged = work[t].flagged
  <2>1. more \in SomeDays
    BY <1>1, <1>5 DEF SomeDays
  <2> HIDE DEF more
  <2> QED BY <1>1, <2>1 DEF Work, On
<1> HIDE DEF w
<1>7. /\ pc' \in [Tasks -> Phases] /\ work' \in [Tasks -> Work]
      /\ pc'[t] = place /\ work'[t] = w
      /\ \A s \in Tasks \ {t} : pc'[s] = pc[s] /\ work'[s] = work[s]
  BY <1>1, <1>3, <1>4, <1>6, TaskTypes DEF Phases
<1>8. About(t)'
  BY <1>1, <1>2, <1>5, <1>6, <1>7 DEF TaskOK, About, On
<1>9. Follows(t)'
  <2> SUFFICES ASSUME ~Fiat
               PROVE  Follows(t)'
    BY <1>2 DEF Follows, Fiat
  <2>1. \A g \in CandlesPage(t) : work[t].from <= g
    BY DEF CandlesPage, Left
  <2>2. \A g \in more, d \in source[On(t)] : work[t].from <= d /\ d <= g => d \in more
    BY <1>1, PageFollows DEF TaskOK, Follows
  <2> HIDE DEF more
  <2>3. \A g \in more : work[t].from <= g
    BY <1>1, <2>1 DEF TaskOK, Follows, more
  <2> QED BY <1>1, <1>2, <1>6, <1>7, <2>2, <2>3 DEF TaskOK, Follows, On
<1>10. Loads(t)'
  <2> SUFFICES ASSUME Fiat
               PROVE  work[t].from <= Reach(t) /\ Left(t) = Asked(t)
    BY <1>1, <1>2, <1>3, <1>6, <1>7 DEF Loads, Busy, Reach, Asked, On, Fiat
  <2>1. work[t].got = {} /\ work[t].from <= Reach(t)
    BY <1>1 DEF TaskOK, Loads
  <2>2. LastOf(work[t].got) = 0
    BY <2>1 DEF LastOf
  <2> QED BY <1>1, <2>1, <2>2 DEF Asked, Left, On, SomeDays
<1>11. TaskOK(t)'
  BY <1>8, <1>9, <1>10 DEF TaskOK
<1> QED BY <1>1, <1>2, <1>7, <1>11, QuietStep DEF Types

\* A failed request: the task is queued once more, or leaves the asset.
LEMMA FetchFailsKeeps ==
  ASSUME HistoryInv, NEW t \in Tasks, FetchFails(t)
  PROVE  HistoryInv'
<1>1. /\ Types /\ pc[t] = "fetch"
      /\ UNCHANGED <<domain, today, source, exists, poll, flag, rows, lost, known>>
  BY DEF HistoryInv, FetchFails, calendar, assets, table
<1>2. /\ pc' \in [Tasks -> Phases] /\ work' \in [Tasks -> Work]
      /\ \A s \in Tasks \ {t} : pc'[s] = pc[s] /\ work'[s] = work[s]
      /\ TaskOK(t)'
  <2>1. CASE Leaves(t)
    BY <1>1, <2>1, LeavingRests
  <2>2. CASE pc' = [pc EXCEPT ![t] = "queued"] /\ work' = [work EXCEPT ![t] = NoWork]
    <3>1. NoWork \in Work /\ "queued" \in Phases
      BY DEF Work, NoWork, SomeDays, Phases
    <3>2. /\ pc' \in [Tasks -> Phases] /\ work' \in [Tasks -> Work] /\ pc'[t] = "queued"
          /\ \A s \in Tasks \ {t} : pc'[s] = pc[s] /\ work'[s] = work[s]
      BY <1>1, <2>2, <3>1, TaskTypes
    <3> QED BY <3>2, RestingOK DEF Busy
  <2> QED BY <2>1, <2>2 DEF FetchFails, Goto
<1> QED BY <1>1, <1>2, QuietStep DEF Types

\* A run that gives up leaves what it has stored.
LEMMA BudgetOverKeeps ==
  ASSUME HistoryInv, NEW r \in Runs, BudgetOver(r)
  PROVE  HistoryInv'
<1>1. /\ Types /\ r \in Tasks /\ pc[r] = "next" /\ pc' = [pc EXCEPT ![r] = "release"]
      /\ UNCHANGED <<domain, today, source, exists, poll, flag, rows, lost, known, work>>
  BY DEF HistoryInv, Tasks, BudgetOver, Goto, calendar, assets, table
<1>2. pc' \in [Tasks -> Phases] /\ pc'[r] = "release" /\ \A s \in Tasks \ {r} : pc'[s] = pc[s]
  BY <1>1 DEF Types, Phases
<1>3. TaskOK(r)'
  BY <1>1, <1>2, RestingOK DEF Busy
<1> QED BY <1>1, <1>2, <1>3, QuietStep DEF Types

\* The flag comes first: from here on this task alone stands for the history.
LEMMA MarkKeeps ==
  ASSUME HistoryInv, NEW t \in Tasks, Mark(t)
  PROVE  HistoryInv'
<1>1. /\ Types /\ pc[t] = "mark" /\ On(t) \in Assets /\ TaskOK(t) /\ Busy(t)
      /\ pc' = [pc EXCEPT ![t] = "write"] /\ flag' = [flag EXCEPT ![On(t)] = TRUE]
      /\ overtaken' = [overtaken EXCEPT ![On(t)] = overtaken[On(t)] \union
                         {d \in Skipped(On(t), LastOf(rows[On(t)])) : d > work[t].until}]
      /\ UNCHANGED <<domain, today, source, exists, poll, rows, cut, known, work>>
  BY DEF HistoryInv, Types, TaskOK, About, Busy, Mark, Marked, On, Goto, calendar, assets
<1>2. /\ pc' \in [Tasks -> Phases] /\ pc'[t] = "write" /\ flag' \in [Assets -> BOOLEAN]
      /\ \A s \in Tasks \ {t} : pc'[s] = pc[s]
      /\ \A a \in Assets \ {On(t)} : flag'[a] = flag[a]
  BY <1>1 DEF Types, Phases
<1>3. TaskOK(t)'
  <2>1. About(t)'
    BY <1>1, <1>2 DEF TaskOK, About, Busy, On
  <2>2. Follows(t)'
    BY <1>1, <1>2 DEF TaskOK, Follows, Busy, On, Fiat
  <2>3. Loads(t)'
    BY <1>1, <1>2 DEF TaskOK, Loads, Busy, Reach, Asked, On, Fiat
  <2> QED BY <2>1, <2>2, <2>3 DEF TaskOK
<1>4. /\ overtaken' \in [Assets -> SomeDays]
      /\ overtaken'[On(t)] = overtaken[On(t)] \union
                               {d \in Skipped(On(t), LastOf(rows[On(t)])) : d > work[t].until}
      /\ \A a \in Assets \ {On(t)} : overtaken'[a] = overtaken[a]
  <2>1. Skipped(On(t), LastOf(rows[On(t)])) \in SomeDays /\ overtaken[On(t)] \in SomeDays
    BY <1>1 DEF Skipped, Types, SomeDays
  <2>2. overtaken[On(t)] \union {d \in Skipped(On(t), LastOf(rows[On(t)])) : d > work[t].until}
          \in SomeDays
    BY <2>1 DEF SomeDays
  <2> QED BY <1>1, <2>2 DEF Types
<1>7. \A a \in Assets : Backed(a)'
  <2>1. ASSUME NEW a \in Assets, a # On(t)
        PROVE  Backed(a)'
    <3>1. InHand(a) \subseteq InHand(a)' /\ Backed(a)
      BY <1>1, <1>2, HandStays DEF HistoryInv, TaskOK, Loads
    <3> QED BY <1>1, <1>2, <1>4, <2>1, <3>1, BackedStays
  <2>2. ASSUME NEW a \in Assets, a = On(t)
        PROVE  Backed(a)'
    <3>1. work[t].got = Asked(t) /\ ~work[t].flagged /\ work[t].from <= 1 /\ work[t].from \in Nat
      BY <1>1 DEF TaskOK, Loads, Reach, Types, Work
    <3>2. Asked(t) \subseteq InHand(a)'
      BY <1>1, <1>2, <2>2, <3>1 DEF InHand, On
    <3>3. work[t].until \in Nat /\ FirstDay - 1 <= work[t].until
      BY <1>1 DEF TaskOK, About, Busy, Types, Work
    <3>4. ASSUME NEW d \in source[a], d < FirstDay \/ d < LastOf(rows[a])
          PROVE  d \in rows[a] \union InHand(a)' \union overtaken'[a]
      <4>1. d \in Nat \ {0}
        BY <1>1 DEF Types, SomeDays
      <4>2. CASE d <= work[t].until
        BY <2>2, <3>1, <3>2, <4>1, <4>2 DEF Asked
      <4>3. CASE d > work[t].until
        BY <1>4, <2>2, <3>3, <3>4, <4>1, <4>3, Settings DEF Skipped
      <4> QED BY <3>3, <4>1, <4>2, <4>3
    <3> QED BY <1>1, <3>4 DEF Backed
  <2> QED BY <2>1, <2>2
<1>5. \A a \in Assets : Stored(a)'
  BY <1>1 DEF HistoryInv, Stored, Fiat
<1>6. /\ rows' \in [Assets -> SomeDays] /\ work' \in [Tasks -> Work]
      /\ known' \in [Runs -> [Assets -> BOOLEAN \X Nat]]
  BY <1>1 DEF Types
<1> QED BY <1>1, <1>2, <1>3, <1>4, <1>5, <1>6, <1>7, TaskStep

\* What a task stores follows what is there, also when another task has stored
\* days of the asset since it began.
LEMMA WrittenFollows ==
  ASSUME HistoryInv, NEW t \in Tasks, Busy(t), rows' = Written(t), UNCHANGED <<domain, source>>
  PROVE  /\ rows' \in [Assets -> SomeDays]
         /\ \A a \in Assets : rows[a] \subseteq rows'[a] /\ Stored(a)'
         /\ rows'[On(t)] = rows[On(t)] \union work[t].got
         /\ \A a \in Assets \ {On(t)} : rows'[a] = rows[a]
<1>1. /\ Types /\ On(t) \in Assets /\ TaskOK(t) /\ Stored(On(t))
      /\ work[t].got \in SomeDays /\ rows[On(t)] \in SomeDays
      /\ work[t].got \subseteq source[On(t)] /\ work[t].from \in Nat
      /\ source[On(t)] \in SomeDays
  BY DEF HistoryInv, TaskOK, About, Types, Work
<1>2. rows' = [rows EXCEPT ![On(t)] = rows[On(t)] \union work[t].got]
  BY <1>1 DEF Written, On, Types
<1>3. /\ rows' \in [Assets -> SomeDays] /\ rows'[On(t)] = rows[On(t)] \union work[t].got
      /\ \A a \in Assets \ {On(t)} : rows'[a] = rows[a]
  <2>1. rows[On(t)] \union work[t].got \in SomeDays
    BY <1>1 DEF SomeDays
  <2> QED BY <1>1, <1>2, <2>1 DEF Types
<1>4. \A a \in Assets : a = On(t) => Stored(a)'
  <2>1. ASSUME ~Fiat, NEW s \in rows'[On(t)], NEW d \in source[On(t)], d <= s
        PROVE  d \in rows'[On(t)]
    <3>1. CASE s \in rows[On(t)]
      BY <1>1, <1>3, <2>1, <3>1 DEF Stored, Covers
    <3>2. CASE s \in work[t].got
      <4>1. d \in Int
        BY <1>1 DEF SomeDays
      <4> QED BY <1>1, <1>3, <2>1, <3>2, <4>1 DEF TaskOK, Follows
    <3> QED BY <1>3, <2>1, <3>1, <3>2
  <2>2. rows'[On(t)] \subseteq source[On(t)]
    BY <1>1, <1>3 DEF Stored
  <2> QED BY <2>1, <2>2 DEF Stored, Covers, Fiat
<1>5. \A a \in Assets : a # On(t) => Stored(a)'
  BY <1>3 DEF HistoryInv, Stored, Fiat
<1> QED BY <1>1, <1>3, <1>4, <1>5

\* The rates a task of a flagged currency stores leave out nothing of what its
\* newest row will hide.
LEMMA WrittenBacked ==
  ASSUME HistoryInv, Fiat, NEW t \in Tasks, pc[t] = "write", rows' = Written(t),
         UNCHANGED <<domain, source, flag>>, overtaken' = overtaken,
         \A s \in Tasks \ {t} : pc'[s] = pc[s] /\ work'[s] = work[s], cut \subseteq cut'
  PROVE  \A a \in Assets : Backed(a)'
<1>1. /\ Types /\ Busy(t) /\ TaskOK(t) /\ On(t) \in Assets /\ work[t] \in Work
      /\ \A a \in Assets : Backed(a)
  BY DEF HistoryInv, Types, Busy, TaskOK, About
<1>2. /\ rows' \in [Assets -> SomeDays]
      /\ rows'[On(t)] = rows[On(t)] \union work[t].got
      /\ \A a \in Assets \ {On(t)} : rows'[a] = rows[a]
  BY <1>1, WrittenFollows
<1>3. ASSUME NEW a \in Assets, a # On(t)
      PROVE  Backed(a)'
  BY <1>1, <1>2, <1>3, HandStays, BackedStays DEF On
<1>4. ASSUME NEW a \in Assets, a = On(t)
      PROVE  Backed(a)'
  <2> DEFINE old == LastOf(rows[a])
             new == LastOf(rows'[a])
  <2>1. work[t].got = Asked(t) /\ work[t].from <= Reach(t) /\ work[t].from \in Nat
    BY <1>1 DEF TaskOK, Loads, Work
  <2>2. /\ rows[a] \in SomeDays /\ rows'[a] \in SomeDays /\ source[a] \in SomeDays
        /\ old \in Nat /\ new \in Nat
        /\ rows[a] # {} => old \in rows[a]
        /\ rows[a] = {} => old = 0
        /\ \A d \in rows[a] : d <= old
        /\ rows'[a] # {} => new \in rows'[a]
        /\ rows'[a] = {} => new = 0
    <3>1. rows[a] \in SomeDays /\ rows'[a] \in SomeDays /\ source[a] \in SomeDays
      BY <1>1, <1>2 DEF Types
    <3> QED BY <3>1, NewestDay, Settings
  <2>3. work[t].from <= old + 1
    BY <1>4, <2>1, <2>2 DEF Reach
  <2>4. \A d \in InHand(a) : d \in InHand(a)' \/ d \in work[t].got
    <3>1. ASSUME NEW d \in InHand(a), d \notin work[t].got
          PROVE  d \in InHand(a)'
      <4>1. PICK s \in Tasks : /\ pc[s] = "write" /\ work[s].asset = a /\ ~work[s].flagged
                               /\ d \in work[s].got
        BY <1>1, <3>1, Hands
      <4>2. pc'[s] = pc[s] /\ work'[s] = work[s]
        BY <1>4, <3>1, <4>1 DEF On
      <4> QED BY <4>1, <4>2 DEF InHand
    <3> QED BY <3>1
  <2>5. ASSUME flag[a], a \notin cut, NEW d \in source[a], d < FirstDay \/ d < new
        PROVE  d \in rows'[a] \union InHand(a)' \union overtaken[a]
    <3>1. d \in Nat \ {0}
      BY <2>2 DEF SomeDays
    <3>2. CASE d < FirstDay \/ d < old
      BY <1>1, <1>2, <1>4, <2>4, <2>5, <3>2 DEF Backed
    <3>3. CASE d = old
      BY <1>2, <1>4, <2>2, <3>1, <3>3
    <3>4. CASE ~ (d < FirstDay) /\ d > old
      <4>1. new \in Asked(t)
        BY <1>2, <1>4, <2>1, <2>2, <2>5, <3>1, <3>4
      <4>2. new <= work[t].until /\ work[t].until \in Nat
        BY <1>1, <4>1 DEF Asked, Work
      <4>3. work[t].from <= d
        BY <2>1, <2>2, <2>3, <3>1, <3>4
      <4>4. d <= work[t].until
        BY <2>2, <2>5, <3>1, <3>4, <4>2
      <4>5. d \in work[t].got
        BY <1>4, <2>1, <2>5, <4>3, <4>4 DEF Asked
      <4> QED BY <1>2, <1>4, <4>5
    <3> QED BY <2>2, <3>1, <3>2, <3>3, <3>4
  <2> QED BY <2>5 DEF Backed
<1> QED BY <1>3, <1>4

\* The rows of a first load are the history the flag promised.
LEMMA WriteKeeps ==
  ASSUME HistoryInv, NEW t \in Tasks, Write(t)
  PROVE  HistoryInv'
<1>1. /\ Types /\ pc[t] = "write" /\ Busy(t) /\ TaskOK(t) /\ rows' = Written(t)
      /\ UNCHANGED <<domain, today, source, exists, poll, flag, lost, known>> /\ Leaves(t)
  BY DEF HistoryInv, Write, Busy, calendar, assets
<1>2. /\ rows' \in [Assets -> SomeDays]
      /\ \A a \in Assets : rows[a] \subseteq rows'[a] /\ Stored(a)'
  BY <1>1, WrittenFollows
<1>3. /\ pc' \in [Tasks -> Phases] /\ work' \in [Tasks -> Work]
      /\ \A s \in Tasks \ {t} : pc'[s] = pc[s] /\ work'[s] = work[s]
      /\ TaskOK(t)'
  BY <1>1, LeavingRests
<1>4. Fiat => \A a \in Assets : Backed(a)'
  BY <1>1, <1>3, WrittenBacked DEF lost
<1> QED BY <1>1, <1>2, <1>3, <1>4, TaskStep DEF Types, lost

\* A first load that is lost after its flag is in `cut`.
LEMMA LostIsCut ==
  ASSUME HistoryInv, Fiat, NEW t \in Tasks, Loses(t), UNCHANGED <<domain, source, rows, overtaken>>,
         \A s \in Tasks \ {t} : pc'[s] = pc[s] /\ work'[s] = work[s],
         \A a \in Assets : flag'[a] => flag[a] \/ (a = On(t) /\ ~work[t].flagged)
  PROVE  \A a \in Assets : Backed(a)'
<1> SUFFICES ASSUME NEW a \in Assets
             PROVE  Backed(a)'
  OBVIOUS
<1>1. CASE On(t) = a /\ ~work[t].flagged
  BY <1>1 DEF Loses, On, Backed
<1>2. CASE ~ (On(t) = a /\ ~work[t].flagged)
  BY <1>2, HandStays, BackedStays DEF HistoryInv, Loses, On
<1> QED BY <1>1, <1>2

\* A failed save, which may have been committed: a first load is in `cut`.
LEMMA SaveFailsKeeps ==
  ASSUME HistoryInv, NEW t \in Tasks, SaveFails(t)
  PROVE  HistoryInv'
<1>1. /\ Types /\ pc[t] \in {"mark", "write"} /\ Busy(t) /\ TaskOK(t) /\ On(t) \in Assets
      /\ UNCHANGED <<domain, today, source, exists, poll, known, overtaken>> /\ Leaves(t)
      /\ Loses(t)
  BY DEF HistoryInv, TaskOK, About, SaveFails, Busy, calendar, assets
<1>2. /\ pc' \in [Tasks -> Phases] /\ work' \in [Tasks -> Work]
      /\ \A s \in Tasks \ {t} : pc'[s] = pc[s] /\ work'[s] = work[s]
      /\ TaskOK(t)'
  BY <1>1, LeavingRests
<1>3. rows' \in [Assets -> SomeDays] /\ \A a \in Assets : rows[a] \subseteq rows'[a] /\ Stored(a)'
  <2>1. CASE rows' = rows
    BY <1>1, <2>1 DEF HistoryInv, Types, Stored, Fiat
  <2>2. CASE rows' = Written(t)
    BY <1>1, <2>2, WrittenFollows
  <2> QED BY <2>1, <2>2 DEF SaveFails
<1>4. /\ flag' \in [Assets -> BOOLEAN]
      /\ \A a \in Assets : flag'[a] => flag[a] \/ (a = On(t) /\ ~work[t].flagged)
  <2>1. CASE flag' = flag
    BY <1>1, <2>1 DEF Types
  <2>2. CASE pc[t] = "mark" /\ flag' = [flag EXCEPT ![On(t)] = TRUE]
    <3>1. /\ flag' \in [Assets -> BOOLEAN]
          /\ \A a \in Assets \ {On(t)} : flag'[a] = flag[a]
      BY <1>1, <2>2 DEF Types
    <3>2. ~work[t].flagged
      BY <1>1, <2>2 DEF TaskOK, Loads
    <3> QED BY <3>1, <3>2
  <2> QED BY <2>1, <2>2 DEF SaveFails, Marked, On
<1>5. Fiat => \A a \in Assets : Backed(a)'
  <2>1. CASE rows' = rows
    BY <1>1, <1>2, <1>4, <2>1, LostIsCut
  <2>2. CASE rows' = Written(t) /\ pc[t] = "write" /\ flag' = flag
    BY <1>1, <1>2, <2>2, WrittenBacked DEF Loses
  <2> QED BY <2>1, <2>2 DEF SaveFails
<1> QED BY <1>1, <1>2, <1>3, <1>4, <1>5, TaskStep DEF Types

\* A task that ends is idle and has forgotten its work.
LEMMA EndsRests ==
  ASSUME HistoryInv, NEW t \in Tasks, Ends(t)
  PROVE  /\ pc' \in [Tasks -> Phases] /\ work' \in [Tasks -> Work]
         /\ \A s \in Tasks \ {t} : pc'[s] = pc[s] /\ work'[s] = work[s]
         /\ TaskOK(t)' /\ known' \in [Runs -> [Assets -> BOOLEAN \X Nat]]
<1>1. Types /\ NoWork \in Work /\ "idle" \in Phases
  BY DEF HistoryInv, Work, NoWork, SomeDays, Phases
<1>2. /\ pc' \in [Tasks -> Phases] /\ work' \in [Tasks -> Work] /\ pc'[t] = "idle"
      /\ \A s \in Tasks \ {t} : pc'[s] = pc[s] /\ work'[s] = work[s]
  BY <1>1, TaskTypes DEF Ends, Goto
<1>3. TaskOK(t)'
  BY <1>2, RestingOK DEF Busy
<1>4. known' \in [Runs -> [Assets -> BOOLEAN \X Nat]]
  BY <1>1 DEF Ends, Types, Unknown
<1> QED BY <1>2, <1>3, <1>4

\* A run that is done.
LEMMA ReleaseKeeps ==
  ASSUME HistoryInv, NEW r \in Runs, Release(r)
  PROVE  HistoryInv'
<1>1. /\ r \in Tasks /\ pc[r] # "write" /\ Ends(r)
      /\ UNCHANGED <<domain, today, source, exists, poll, flag, rows, lost>>
  BY DEF Release, Tasks, calendar, assets, table
<1> QED BY <1>1, EndsRests, QuietStep

\* A worker that dies between the flag and the rows loses the first load.
LEMMA CrashKeeps ==
  ASSUME HistoryInv, NEW t \in Tasks, Crash(t)
  PROVE  HistoryInv'
<1>1. /\ pc[t] # "idle" /\ Ends(t) /\ Types
      /\ UNCHANGED <<domain, today, source, exists, poll, flag, rows, overtaken>>
      /\ IF pc[t] = "write" THEN Loses(t) ELSE UNCHANGED cut
  BY DEF HistoryInv, Crash, calendar, assets, table
<1>2. Fiat => \A a \in Assets : Backed(a)'
  <2>1. CASE pc[t] = "write"
    BY <1>1, <2>1, EndsRests, LostIsCut
  <2>2. CASE pc[t] # "write"
    BY <1>1, <2>2, EndsRests, HandStays, BackedStays DEF HistoryInv
  <2> QED BY <2>1, <2>2
<1>3. /\ flag' \in [Assets -> BOOLEAN] /\ rows' \in [Assets -> SomeDays]
      /\ \A a \in Assets : Stored(a)'
  BY <1>1 DEF HistoryInv, Types, Stored, Fiat
<1> QED BY <1>1, <1>2, <1>3, EndsRests, TaskStep DEF Types

-----------------------------------------------------------------------------
\* Steps of the outside leave the tasks alone.
LEMMA OutsideStep ==
  ASSUME HistoryInv, UNCHANGED <<domain, source, flag, pc, work, known, cut>>,
         overtaken' \in [Assets -> SomeDays], Fiat => \A a \in Assets : Backed(a)',
         exists \subseteq exists', today' \in Nat, today <= today',
         rows' \in [Assets -> SomeDays],
         \A a \in Assets : rows[a] \subseteq rows'[a] /\ Stored(a)',
         poll'.at = "asked" => Fiat /\ poll'.target \in Nat \ {0}
  PROVE  HistoryInv'
<1>1. Types'
  BY Settings DEF HistoryInv, Types, Fiat
<1>2. \A t \in Tasks : TaskOK(t)'
  BY OthersOK
<1>3. \A a \in Assets \ exists' : pc'[a] = "idle"
  BY DEF HistoryInv
<1> QED BY <1>1, <1>2, <1>3 DEF HistoryInv, Fiat

\* The rows stay as they are in such a step.
LEMMA OutsideQuietStep ==
  ASSUME HistoryInv, UNCHANGED <<domain, source, table, pc, work, known, lost>>,
         exists \subseteq exists', today' \in Nat, today <= today',
         poll'.at = "asked" => Fiat /\ poll'.target \in Nat \ {0}
  PROVE  HistoryInv'
<1>1. /\ UNCHANGED <<flag, rows>> /\ rows' \in [Assets -> SomeDays]
      /\ \A a \in Assets : rows[a] \subseteq rows'[a] /\ Stored(a)'
  BY DEF table, HistoryInv, Types, Stored, Fiat
<1>2. UNCHANGED <<cut, overtaken>> /\ overtaken' \in [Assets -> SomeDays]
  BY DEF lost, HistoryInv, Types
<1>3. \A a \in Assets : Backed(a) => Backed(a)'
  BY <1>1, <1>2 DEF Backed, InHand
<1> QED BY <1>1, <1>2, <1>3, OutsideStep DEF HistoryInv

\* New data come after all there are: every beginning stays one.
LEMMA AppearsKeeps ==
  ASSUME HistoryInv, NEW b \in Assets, NEW day \in 1..MaxDay, Appears(b, day)
  PROVE  HistoryInv'
<1>1. /\ Types /\ source' = [source EXCEPT ![b] = source[b] \union {day}]
      /\ UNCHANGED <<domain, today, exists, rows, flag, pc, work, known, cut, overtaken, poll>>
  BY DEF HistoryInv, Types, Appears, calendar, assets, table, run, lost
<1>2. /\ \A d \in source[b] : d < day
      /\ LastOf(source[b]) < day /\ (Fiat => day = today + 1)
  <2>1. source[b] \in SomeDays
    BY <1>1 DEF Types
  <2>2. \A d \in source[b] : d <= LastOf(source[b]) /\ d \in Int
    BY <2>1, NewestDay DEF SomeDays
  <2>3. LastOf(source[b]) \in Nat /\ LastOf(source[b]) < day
    BY <2>1, NewestDay, Settings DEF Appears
  <2> QED BY <1>1, <2>2, <2>3, Settings DEF Appears, Types
<1>3. /\ source' \in [Assets -> SomeDays] /\ source'[b] = source[b] \union {day}
      /\ \A a \in Assets \ {b} : source'[a] = source[a]
      /\ \A a \in Assets : source[a] \subseteq source'[a]
  <2>1. source[b] \union {day} \in SomeDays
    BY <1>1, Settings DEF Types, SomeDays, Horizon
  <2> QED BY <1>1, <2>1 DEF Types
<1>4. ASSUME NEW a \in Assets, NEW d \in source'[a], d \notin source[a]
      PROVE  d = day /\ \A e \in source[a] : e < d
  BY <1>2, <1>3, <1>4
<1>5. Types'
  BY <1>1, <1>3 DEF Types, Fiat
<1>6. ASSUME NEW a \in Assets
      PROVE  Stored(a)'
  <2>1. Stored(a) /\ rows[a] \in SomeDays /\ source'[a] \in SomeDays
    BY <1>1, <1>3 DEF HistoryInv, Types
  <2>2. rows[a] \subseteq source'[a]
    BY <1>3, <2>1 DEF Stored
  <2>3. ASSUME ~Fiat, NEW s \in rows[a], NEW d \in source'[a], d <= s
        PROVE  d \in rows[a]
    <3>1. s \in source[a] /\ s \in Int /\ d \in Int
      BY <2>1 DEF Stored, SomeDays
    <3>2. d \in source[a]
      BY <1>4, <2>3, <3>1
    <3> QED BY <2>1, <2>3, <3>2 DEF Stored, Covers
  <2> QED BY <1>1, <2>2, <2>3 DEF Stored, Covers, Fiat
<1>7. ASSUME NEW t \in Tasks
      PROVE  TaskOK(t)'
  <2>1. TaskOK(t) /\ work[t] \in Work
    BY <1>1 DEF HistoryInv, Types
  <2>2. About(t)'
    BY <1>1, <1>3, <2>1 DEF TaskOK, About, Busy, On
  <2>3. Follows(t)'
    <3> SUFFICES ASSUME Busy(t), ~Fiat
                 PROVE  /\ work[t].from = 1 \/ (work[t].from - 1) \in source'[On(t)]
                        /\ \A d \in source'[On(t)] : d < work[t].from => d \in rows[On(t)]
                        /\ \A g \in work[t].got : work[t].from <= g
                        /\ \A g \in work[t].got, d \in source'[On(t)] :
                              work[t].from <= d /\ d <= g => d \in work[t].got
      BY <1>1 DEF Follows, Busy, On, Fiat
    <3>1. /\ On(t) \in Assets /\ work[t].got \subseteq source[On(t)] /\ work[t].from \in Nat
          /\ source'[On(t)] \in SomeDays
      BY <1>3, <2>1 DEF TaskOK, About, Work
    <3>2. /\ work[t].from = 1 \/ (work[t].from - 1) \in source[On(t)]
          /\ \A d \in source[On(t)] : d < work[t].from => d \in rows[On(t)]
          /\ \A g \in work[t].got : work[t].from <= g
          /\ \A g \in work[t].got, d \in source[On(t)] :
                work[t].from <= d /\ d <= g => d \in work[t].got
      BY <2>1 DEF TaskOK, Follows
    <3>3. \A d \in source'[On(t)] : d \in Int /\ d >= 1
      BY <3>1 DEF SomeDays
    <3>4. ASSUME NEW d \in source'[On(t)], d < work[t].from
          PROVE  d \in source[On(t)]
      BY <1>4, <3>1, <3>2, <3>3, <3>4
    <3>5. ASSUME NEW g \in work[t].got, NEW d \in source'[On(t)], d <= g
          PROVE  d \in source[On(t)]
      <4>1. g \in source[On(t)] /\ g \in source'[On(t)]
        BY <1>3, <3>1
      <4> QED BY <1>4, <3>1, <3>3, <3>5, <4>1
    <3> QED BY <1>3, <3>1, <3>2, <3>4, <3>5
  <2>4. Loads(t)'
    <3> SUFFICES ASSUME Fiat, Busy(t)
                 PROVE  {d \in source'[On(t)] : work[t].from <= d /\ d <= work[t].until} = Asked(t)
      BY <1>1, <2>1 DEF TaskOK, Loads, Asked, Reach, Busy, On, Fiat
    <3>1. On(t) \in Assets /\ work[t].until < today /\ work[t].until \in Nat /\ today \in Nat
      BY <1>1, <2>1 DEF TaskOK, About, Busy, Work, Types
    <3>2. ASSUME NEW d \in source'[On(t)], d <= work[t].until
          PROVE  d \in source[On(t)]
      BY <1>2, <1>4, <3>1, <3>2
    <3> QED BY <1>3, <3>1, <3>2 DEF Asked
  <2> QED BY <2>2, <2>3, <2>4 DEF TaskOK
<1>8. Fiat => \A a \in Assets : Backed(a)'
  <2> SUFFICES ASSUME Fiat, NEW a \in Assets, NEW d \in source'[a],
                      d < FirstDay \/ d < LastOf(rows[a])
               PROVE  d \in source[a]
    BY <1>1 DEF HistoryInv, Backed, InHand
  <2>1. CASE d = day /\ a = b
    <3>1. rows[a] \in SomeDays /\ source[a] \in SomeDays /\ rows[a] \subseteq source[a]
      BY <1>1 DEF HistoryInv, Types, Stored
    <3>2. /\ LastOf(rows[a]) <= LastOf(source[a])
          /\ LastOf(rows[a]) \in Nat /\ LastOf(source[a]) \in Nat
      BY <3>1, NewestGrows, NewestDay, Settings
    <3> QED BY <1>1, <1>2, <2>1, <3>2, Settings DEF Types
  <2>2. CASE ~ (d = day /\ a = b)
    BY <1>3, <2>2
  <2> QED BY <2>1, <2>2
<1> QED BY <1>1, <1>5, <1>6, <1>7, <1>8 DEF HistoryInv, Fiat

\* The task of an asset, created or chosen by hand, waits: it is about no asset
\* yet.
LEMMA QueuedKeeps ==
  ASSUME HistoryInv, NEW b \in Assets, Create(b) \/ RunTask(b)
  PROVE  HistoryInv'
<1>1. /\ b \in Tasks /\ Types /\ pc[b] = "idle" /\ pc' = [pc EXCEPT ![b] = "queued"]
      /\ exists' = exists \union {b}
      /\ UNCHANGED <<domain, today, source, rows, flag, known, work, poll, cut, overtaken>>
  BY DEF HistoryInv, Tasks, Create, RunTask, Offered, Queue, Goto, calendar, assets, table, lost
<1>2. /\ pc' \in [Tasks -> Phases] /\ pc'[b] = "queued"
      /\ \A s \in Tasks \ {b} : pc'[s] = pc[s] /\ work'[s] = work[s]
  BY <1>1 DEF Types, Phases
<1>3. Types'
  BY <1>1, <1>2 DEF Types, Fiat
<1>4. \A a \in Assets : Stored(a)'
  BY <1>1 DEF HistoryInv, Stored, Fiat
<1>5. ASSUME NEW t \in Tasks
      PROVE  TaskOK(t)'
  <2>1. CASE t = b
    BY <1>2, <2>1, RestingOK DEF Busy
  <2>2. CASE t # b
    BY <1>1, <1>2, <2>2, OthersOK DEF Types
  <2> QED BY <2>1, <2>2
<1>6. \A a \in Assets : Backed(a) => Backed(a)'
  BY <1>1, <1>2, HandStays, BackedStays
<1>7. \A a \in Assets \ exists' : pc'[a] = "idle"
  BY <1>1, <1>2 DEF HistoryInv, Tasks
<1> QED BY <1>1, <1>3, <1>4, <1>5, <1>6, <1>7 DEF HistoryInv, Fiat

\* An asset is switched on or off, the day ends, a lock expires, or the poller
\* asks or fails: nothing the tasks rest on changes.
LEMMA OutsideKeeps ==
  ASSUME HistoryInv,
         \/ Midnight \/ OrphanExpires \/ PollAsks \/ PollFails
         \/ \E a \in Assets : Switch(a)
         \/ \E r \in Runs : LockExpires(r)
  PROVE  HistoryInv'
<1>1. /\ Types /\ today \in Nat
      /\ UNCHANGED <<domain, source, table, pc, work, known, lost, exists>>
      /\ today' = today \/ today' = today + 1
      /\ \/ poll' = poll \/ poll' = NoPoll
         \/ Fiat /\ poll' = [at |-> "asked", target |-> today + 1]
  BY DEF HistoryInv, Types, Midnight, OrphanExpires, PollAsks, PollFails, Switch, LockExpires,
         calendar, assets, run
<1>2. poll'.at = "asked" => Fiat /\ poll'.target \in Nat \ {0}
  BY <1>1 DEF Types, NoPoll
<1>3. today' \in Nat /\ today <= today'
  BY <1>1
<1> QED BY <1>1, <1>2, <1>3, OutsideQuietStep

\* The poller stores days of the source, and touches no candles: what its row
\* hides of a flagged currency is in hand or overtaken.
LEMMA PollAnsweredKeeps ==
  ASSUME HistoryInv, PollAnswered
  PROVE  HistoryInv'
<1> DEFINE new(a) == IF a \in active \intersect Published THEN {poll.target} ELSE {}
           gone(a) == IF a \in active \intersect Published /\ flag[a]
                      THEN {d \in Skipped(a, poll.target) : d >= FirstDay /\ d \notin InHand(a)}
                      ELSE {}
<1>1. /\ Types /\ Fiat /\ poll.target \in Nat \ {0} /\ poll' = NoPoll
      /\ rows' = [a \in Assets |-> rows[a] \union new(a)]
      /\ overtaken' = [a \in Assets |-> overtaken[a] \union gone(a)]
      /\ UNCHANGED <<domain, today, source, exists, flag, pc, work, known, cut>>
  BY DEF HistoryInv, Types, PollAnswered, calendar, assets, run
<1>2. ASSUME NEW a \in Assets
      PROVE  /\ new(a) \subseteq source[a] /\ source[a] \in SomeDays /\ rows[a] \in SomeDays
             /\ Stored(a) /\ gone(a) \subseteq source[a] /\ overtaken[a] \in SomeDays
  <2>1. source[a] \in SomeDays /\ Stored(a) /\ rows[a] \in SomeDays /\ overtaken[a] \in SomeDays
    BY <1>1 DEF HistoryInv, Types
  <2>2. CASE a \in Published
    BY <1>1, <2>1, <2>2, NewestDay DEF Published, Skipped
  <2>3. CASE a \notin Published
    BY <2>1, <2>3
  <2> QED BY <2>1, <2>2, <2>3
<1>3. \A a \in Assets : new(a) = {} \/ (new(a) = {poll.target} /\
        (flag[a] => gone(a) = {d \in Skipped(a, poll.target) : d >= FirstDay /\ d \notin InHand(a)}))
  OBVIOUS
<1> HIDE DEF new, gone
<1>4. ASSUME NEW a \in Assets
      PROVE  /\ rows'[a] \in SomeDays /\ rows[a] \subseteq rows'[a] /\ Stored(a)'
             /\ overtaken'[a] \in SomeDays /\ overtaken[a] \subseteq overtaken'[a]
  BY <1>1, <1>2 DEF SomeDays, Stored, Fiat
<1>5. rows' \in [Assets -> SomeDays] /\ overtaken' \in [Assets -> SomeDays]
  BY <1>1, <1>4
<1>6. ASSUME NEW a \in Assets
      PROVE  Backed(a)'
  <2>1. Backed(a) /\ InHand(a)' = InHand(a)
    BY <1>1 DEF HistoryInv, InHand
  <2>2. CASE new(a) = {}
    BY <1>1, <1>4, <2>1, <2>2, BackedStays
  <2>3. CASE new(a) = {poll.target}
    <3>1. rows'[a] = rows[a] \union {poll.target} /\ rows'[a] \in SomeDays /\ rows[a] \in SomeDays
      BY <1>1, <1>2, <1>4, <2>3
    <3>2. /\ LastOf(rows'[a]) \in rows'[a] /\ \A d \in rows[a] : d <= LastOf(rows[a])
          /\ LastOf(rows[a]) \in Nat
      BY <3>1, NewestDay, Settings
    <3>3. ASSUME flag[a], a \notin cut, NEW d \in source[a], d < FirstDay \/ d < LastOf(rows'[a])
          PROVE  d \in rows'[a] \union InHand(a) \union overtaken'[a]
      <4>1. d \in Nat
        BY <1>2 DEF SomeDays
      <4>2. CASE d < FirstDay \/ d < LastOf(rows[a])
        BY <1>4, <2>1, <3>3, <4>2 DEF Backed
      <4>3. CASE ~ (d < FirstDay) /\ ~ (d < LastOf(rows[a]))
        <5>1. LastOf(rows'[a]) = poll.target
          BY <3>1, <3>2, <3>3, <4>1, <4>3 DEF SomeDays
        <5>2. d \in rows[a] \/ d \in Skipped(a, poll.target)
          BY <3>3, <4>3, <5>1 DEF Skipped
        <5>3. gone(a) = {e \in Skipped(a, poll.target) : e >= FirstDay /\ e \notin InHand(a)}
          BY <1>3, <2>3, <3>3
        <5> QED BY <1>1, <3>1, <4>1, <4>3, <5>2, <5>3, Settings
      <4> QED BY <4>2, <4>3
    <3> QED BY <1>1, <2>1, <3>3 DEF Backed
  <2> QED BY <1>3, <2>2, <2>3
<1>7. today' \in Nat /\ today <= today' /\ poll'.at # "asked"
  BY <1>1 DEF NoPoll, Types
<1> QED BY <1>1, <1>4, <1>5, <1>6, <1>7, OutsideStep

-----------------------------------------------------------------------------
\* At the start nothing is stored and nobody is at work.
LEMMA InitHistory == Init => HistoryInv
<1> SUFFICES ASSUME Init
             PROVE  HistoryInv
  OBVIOUS
<1>1. Types
  <2>1. domain \in Domains /\ today \in Nat /\ FirstDay <= today
    BY Settings DEF Init
  <2>2. source \in [Assets -> SomeDays] /\ rows \in [Assets -> SomeDays]
    BY Settings DEF Init, NoRows, SomeDays, Horizon, LastListed
  <2>3. NoWork \in Work
    BY DEF NoWork, Work, SomeDays
  <2>4. flag \in [Assets -> BOOLEAN] /\ pc \in [Tasks -> Phases] /\ work \in [Tasks -> Work]
    BY <2>3 DEF Init, Phases
  <2>5. known \in [Runs -> [Assets -> BOOLEAN \X Nat]]
    BY DEF Init, Unknown
  <2>6. overtaken \in [Assets -> SomeDays]
    BY DEF Init, SomeDays
  <2> QED BY <2>1, <2>2, <2>4, <2>5, <2>6 DEF Init, Types, NoPoll
<1>2. \A a \in Assets : Stored(a)
  BY DEF Init, NoRows, Stored, Covers
<1>3. \A t \in Tasks : pc[t] = "idle"
  BY DEF Init
<1>4. \A t \in Tasks : TaskOK(t)
  BY <1>3 DEF TaskOK, About, Follows, Loads, Busy
<1>5. \A a \in Assets \ exists : pc[a] = "idle"
  BY <1>3 DEF Tasks
<1>6. \A a \in Assets : Backed(a)
  BY DEF Init, Backed
<1> QED BY <1>1, <1>2, <1>4, <1>5, <1>6 DEF HistoryInv

\* Every step of the system preserves it.
LEMMA StepKeeps == HistoryInv /\ [Next]_vars => HistoryInv'
<1> SUFFICES ASSUME HistoryInv, [Next]_vars
             PROVE  HistoryInv'
  OBVIOUS
<1>1. CASE UNCHANGED vars
  BY <1>1, OutsideQuietStep
     DEF HistoryInv, Types, Fiat, vars, calendar, assets, table, run
<1>2. ASSUME NEW t \in Tasks, CatchesUp(t)
      PROVE  HistoryInv'
  BY <1>2, FetchKeeps, MarkKeeps, WriteKeeps DEF CatchesUp
<1>3. ASSUME NEW a \in Assets, Create(a) \/ RunTask(a) \/ Switch(a) \/ OfAsset(a)
      PROVE  HistoryInv'
  <2>1. a \in Tasks
    BY DEF Tasks
  <2> QED BY <1>2, <1>3, <2>1, QueuedKeeps, OutsideKeeps, SignalTaskKeeps DEF OfAsset
<1>4. ASSUME NEW r \in Runs, Nightly(r) \/ BudgetOver(r) \/ LockExpires(r)
      PROVE  HistoryInv'
  <2>1. r \in Tasks
    BY DEF Tasks
  <2>2. CASE Nightly(r)
    BY <1>2, <2>1, <2>2, AcquireKeeps, NextAssetKeeps, ReleaseKeeps DEF Nightly
  <2>3. CASE BudgetOver(r)
    BY <2>3, BudgetOverKeeps
  <2>4. CASE LockExpires(r)
    BY <2>4, OutsideKeeps
  <2> QED BY <1>4, <2>2, <2>3, <2>4
<1>5. ASSUME NEW t \in Tasks, FetchFails(t) \/ SaveFails(t) \/ Crash(t)
      PROVE  HistoryInv'
  BY <1>5, FetchFailsKeeps, SaveFailsKeeps, CrashKeeps
<1>6. CASE Midnight \/ OrphanExpires \/ PollAsks \/ PollFails
  BY <1>6, OutsideKeeps
<1>7. ASSUME NEW a \in Assets, NEW d \in 1..MaxDay, Appears(a, d)
      PROVE  HistoryInv'
  BY <1>7, AppearsKeeps
<1>8. CASE PollAnswered
  BY <1>8, PollAnsweredKeeps
<1> QED BY <1>1, <1>3, <1>4, <1>5, <1>6, <1>7, <1>8 DEF Next

\* The stored candles of an asset are all days of the source up to the newest
\* one stored: overlapping runs, tasks without the lock, failures and crashes
\* leave no hole behind the day a later catch-up starts from.
THEOREM NoHoleHolds == Spec => []NoHole
<1>1. HistoryInv => NoHole
  <2> SUFFICES ASSUME HistoryInv
               PROVE  NoHole
    OBVIOUS
  <2>1. CASE Fiat
    BY <2>1 DEF Fiat, NoHole
  <2>2. CASE ~Fiat
    BY <2>2, CoversIsNoHole DEF HistoryInv
  <2> QED BY <2>1, <2>2
<1> QED BY <1>1, InitHistory, StepKeeps, PTL DEF Spec

\* A flagged currency has, in its rows or in the hands of a first load, every
\* published rate of the days before the start and of those before its newest
\* row, where no later catch-up looks: but for a first load that was lost after
\* the flag, and for the rates a newer row of the poller has hidden. In every
\* overlap of nightly runs, tasks and poller nothing else is lost.
THEOREM BackfillCompleteHolds == Spec => []BackfillComplete
<1>1. HistoryInv => BackfillComplete
  BY DEF HistoryInv, BackfillComplete, Backed
<1> QED BY <1>1, InitHistory, StepKeeps, PTL DEF Spec
=============================================================================
