--------------------------- MODULE QueriesProofs ---------------------------
(***************************************************************************)
(* Proofs about TradeQueries and ToolStats for every number of trades,     *)
(* days and edits, every page size, window and length of a period: the     *)
(* pages of a walk, the minute chart, the history of a period and the      *)
(* answers of the tools are whole, whatever is stored between queries.     *)
(***************************************************************************)
EXTENDS ToolStats, FiniteSetTheorems, SequenceTheorems, WellFoundedInduction, TLAPS

(* Ordered results.                                                         *)

\* What comes before each of a set of rows, in a strict total order of them.
Orders(before, S) ==
  /\ before \in [S -> SUBSET S]
  /\ \A x \in S : x \notin before[x]
  /\ \A x, y \in S : x # y => \/ x \in before[y] /\ before[x] \subseteq before[y]
                              \/ y \in before[x] /\ before[y] \subseteq before[x]

Place(before, S) == [x \in S |-> Cardinality(before[x])]

LEMMA FewerBefore ==
  ASSUME NEW S, IsFiniteSet(S), NEW before, Orders(before, S),
         NEW x \in S, NEW y \in S, x \in before[y], before[x] \subseteq before[y]
  PROVE  Cardinality(before[x]) < Cardinality(before[y])
<1>1. before[y] \in SUBSET S /\ before[x] \in SUBSET S /\ x \notin before[x]
  BY DEF Orders
<1>2. IsFiniteSet(before[y])
  BY <1>1, FS_Subset
<1>3. before[x] \in SUBSET before[y] /\ before[x] # before[y]
  BY <1>1
<1>4. IsFiniteSet(before[x]) /\ Cardinality(before[x]) <= Cardinality(before[y])
      /\ Cardinality(before[y]) # Cardinality(before[x])
  BY <1>2, <1>3, FS_Subset
<1>5. Cardinality(before[x]) \in Nat /\ Cardinality(before[y]) \in Nat
  BY <1>2, <1>4, FS_CardinalityType
<1> QED BY <1>4, <1>5

\* Every place is taken, by one row: the numbers of rows before are 0 .. n - 1.
LEMMA PlacesAreTaken ==
  ASSUME NEW S, IsFiniteSet(S), NEW before, Orders(before, S)
  PROVE  /\ Cardinality(S) \in Nat
         /\ Place(before, S) \in Bijection(S, 0..(Cardinality(S) - 1))
<1> DEFINE n == Cardinality(S)
           T == 0..(n - 1)
           f == Place(before, S)
<1>1. n \in Nat
  BY FS_CardinalityType
<1>2. ASSUME NEW x \in S
      PROVE  f[x] = Cardinality(before[x]) /\ f[x] \in T
  <2>1. before[x] \in SUBSET S /\ before[x] # S
    BY DEF Orders
  <2>2. IsFiniteSet(before[x]) /\ Cardinality(before[x]) <= n /\ n # Cardinality(before[x])
    BY <2>1, FS_Subset
  <2>3. Cardinality(before[x]) \in Nat
    BY <2>2, FS_CardinalityType
  <2>4. f[x] = Cardinality(before[x])
    BY DEF Place
  <2> QED BY <1>1, <2>2, <2>3, <2>4
<1>3. f \in [S -> T]
  <2>1. f = [x \in S |-> f[x]]
    BY DEF Place
  <2> HIDE DEF f, T
  <2> QED BY <1>2, <2>1
<1>4. ASSUME NEW x \in S, NEW y \in S, f[x] = f[y]
      PROVE  x = y
  <2> SUFFICES ASSUME x # y PROVE FALSE
    OBVIOUS
  <2>1. f[x] \in Int /\ f[y] \in Int
    BY <1>2
  <2>2. CASE x \in before[y] /\ before[x] \subseteq before[y]
    <3>1. f[x] < f[y]
      BY <1>2, <2>2, FewerBefore
    <3> QED BY <1>4, <2>1, <3>1
  <2>3. CASE y \in before[x] /\ before[y] \subseteq before[x]
    <3>1. f[y] < f[x]
      BY <1>2, <2>3, FewerBefore
    <3> QED BY <1>4, <2>1, <3>1
  <2> QED BY <2>2, <2>3 DEF Orders
<1>5. f \in Injection(S, T)
  <2> HIDE DEF f, T
  <2> QED BY <1>3, <1>4 DEF Injection, IsInjective
<1>6. IsFiniteSet(T) /\ Cardinality(T) = n
  <2>1. IsFiniteSet(T) /\ Cardinality(T) = IF 0 > n - 1 THEN 0 ELSE (n - 1) - 0 + 1
    BY <1>1, FS_Interval
  <2> QED BY <1>1, <2>1
<1>7. f \in Surjection(S, T)
  <2> HIDE DEF f, T, n
  <2>1. Cardinality(S) = Cardinality(T)
    BY <1>6 DEF n
  <2> QED BY <1>5, <1>6, <2>1, FS_Injection
<1> QED BY <1>1, <1>5, <1>7 DEF Bijection

\* So a result that puts at each place the row with so many before it is in
\* order and whole.
LEMMA PlacedIsWhole ==
  ASSUME NEW S, IsFiniteSet(S), NEW before, Orders(before, S),
         NEW s, s = [k \in 1..Cardinality(S) |-> s[k]],
         \A k \in 1..Cardinality(S) :
            (\E d \in S : Cardinality(before[d]) = k - 1)
               => s[k] \in S /\ Cardinality(before[s[k]]) = k - 1
  PROVE  /\ Cardinality(S) \in Nat
         /\ s \in [1..Cardinality(S) -> S]
         /\ \A x \in S : \E k \in 1..Cardinality(S) : s[k] = x
         /\ \A k, l \in 1..Cardinality(S) : k < l => s[k] \in before[s[l]]
<1> DEFINE n == Cardinality(S)
           f == Place(before, S)
<1>1. n \in Nat /\ f \in Bijection(S, 0..(n - 1))
  BY PlacesAreTaken
<1>2. \A x \in S : f[x] = Cardinality(before[x]) /\ f[x] \in 0..(n - 1)
  <2>1. \A x \in S : f[x] = Cardinality(before[x])
    BY DEF Place
  <2>2. \A x \in S : f[x] \in 0..(n - 1)
    <3> HIDE DEF f, n
    <3> QED BY <1>1 DEF Bijection, Injection
  <2> QED BY <2>1, <2>2
<1>3. \A p \in 0..(n - 1) : \E x \in S : f[x] = p
  <2> HIDE DEF f, n
  <2> QED BY <1>1 DEF Bijection, Surjection
<1>4. \A x, y \in S : f[x] = f[y] => x = y
  <2> HIDE DEF f, n
  <2> QED BY <1>1 DEF Bijection, Injection, IsInjective
<1>5. ASSUME NEW k \in 1..n
      PROVE  s[k] \in S /\ Cardinality(before[s[k]]) = k - 1
  <2>1. k - 1 \in 0..(n - 1)
    BY <1>1
  <2>2. \E x \in S : Cardinality(before[x]) = k - 1
    BY <1>2, <1>3, <2>1
  <2> QED BY <2>2
<1>6. s \in [1..n -> S]
  <2>1. s = [k \in 1..n |-> s[k]]
    OBVIOUS
  <2> QED BY <1>5, <2>1
<1>7. ASSUME NEW x \in S
      PROVE  \E k \in 1..n : s[k] = x
  <2>1. f[x] \in 0..(n - 1) /\ f[x] + 1 \in 1..n /\ (f[x] + 1) - 1 = f[x]
    BY <1>1, <1>2
  <2> DEFINE k == f[x] + 1
  <2>2. s[k] \in S /\ Cardinality(before[s[k]]) = f[x]
    BY <1>5, <2>1
  <2>3. f[s[k]] = f[x]
    BY <1>2, <2>2
  <2> QED BY <1>4, <2>1, <2>2, <2>3
<1>8. ASSUME NEW k \in 1..n, NEW l \in 1..n, k < l
      PROVE  s[k] \in before[s[l]]
  <2>1. /\ s[k] \in S /\ Cardinality(before[s[k]]) = k - 1
        /\ s[l] \in S /\ Cardinality(before[s[l]]) = l - 1
    BY <1>5
  <2>2. ~ (l - 1 < k - 1) /\ k - 1 # l - 1
    BY <1>8
  <2>3. s[k] # s[l]
    BY <2>1, <2>2
  <2>4. ~ (s[l] \in before[s[k]] /\ before[s[l]] \subseteq before[s[k]])
    BY <2>1, <2>2, FewerBefore
  <2> QED BY <2>1, <2>3, <2>4 DEF Orders
<1> QED BY <1>1, <1>6, <1>7, <1>8

\* Numbers in their order.
LEMMA SortedIs ==
  ASSUME NEW S \in SUBSET Int, IsFiniteSet(S)
  PROVE  /\ Cardinality(S) \in Nat
         /\ Sorted(S) \in [1..Cardinality(S) -> S]
         /\ \A x \in S : \E k \in 1..Cardinality(S) : Sorted(S)[k] = x
         /\ \A k, l \in 1..Cardinality(S) : k < l => Sorted(S)[k] < Sorted(S)[l]
<1> DEFINE before == [d \in S |-> {e \in S : e < d}]
           s == Sorted(S)
<1>1. Orders(before, S)
  <2>1. \A x, y \in S : x # y => x < y \/ y < x
    OBVIOUS
  <2>2. ASSUME NEW x \in S, NEW y \in S, x < y
        PROVE  x \in before[y] /\ before[x] \subseteq before[y]
    <3>1. \A e \in S : e < x => e < y
      BY <2>2
    <3> QED BY <2>2, <3>1
  <2>3. before \in [S -> SUBSET S] /\ \A x \in S : x \notin before[x]
    OBVIOUS
  <2> HIDE DEF before
  <2> QED BY <2>1, <2>2, <2>3 DEF Orders
<1>2. s = [k \in 1..Cardinality(S) |-> s[k]]
  <2> DEFINE Row(k) == CHOOSE d \in S : Cardinality({e \in S : e < d}) = k - 1
  <2>1. s = [k \in 1..Cardinality(S) |-> Row(k)]
    BY Zenon DEF Sorted, InOrder
  <2> HIDE DEF Row, s
  <2> QED BY <2>1
<1>3. ASSUME NEW k \in 1..Cardinality(S), \E d \in S : Cardinality(before[d]) = k - 1
      PROVE  s[k] \in S /\ Cardinality(before[s[k]]) = k - 1
  <2>1. s[k] = CHOOSE d \in S : Cardinality({e \in S : e < d}) = k - 1
    BY DEF Sorted, InOrder
  <2>2. \A d \in S : before[d] = {e \in S : e < d}
    OBVIOUS
  <2>3. \E d \in S : Cardinality({e \in S : e < d}) = k - 1
    <3> HIDE DEF before
    <3> QED BY <1>3, <2>2
  <2>4. s[k] \in S /\ Cardinality({e \in S : e < s[k]}) = k - 1
    <3> HIDE DEF s
    <3> QED BY <2>1, <2>3
  <2> HIDE DEF s, before
  <2> QED BY <2>2, <2>4
<1>4. \A x, y \in S : x \in before[y] => x < y
  OBVIOUS
<1>5. /\ Cardinality(S) \in Nat
      /\ s \in [1..Cardinality(S) -> S]
      /\ \A x \in S : \E k \in 1..Cardinality(S) : s[k] = x
      /\ \A k, l \in 1..Cardinality(S) : k < l => s[k] \in before[s[l]]
  <2> HIDE DEF s, before
  <2> QED BY <1>1, <1>2, <1>3, PlacedIsWhole
<1>6. \A k, l \in 1..Cardinality(S) : k < l => s[k] < s[l]
  <2> HIDE DEF s, before
  <2> QED BY <1>4, <1>5
<1> QED BY <1>5, <1>6
-----------------------------------------------------------------------------
(* The types of the tables and where a request may be.                      *)

RowType == [at : Nat, listed : BOOLEAN]
Given   == Nat \union {None}
Dates   == [from : Given, to : Given]
Kinds   == {"trades", "intraday", "history", "stats", "moves", "indicators"}

Steps ==
  [trades   |-> {"idle", "asset", "page", "done"},
   intraday |-> {"idle", "asset", "prices", "volumes", "done"},
   history  |-> {"idle", "asset", "earliest", "period", "read", "done"},
   stats    |-> {"idle", "asset", "again", "start", "candles", "before", "done"},
   moves    |-> {"idle", "asset", "again", "candles", "moves", "done"},
   indicators |-> {"idle", "asset", "again", "candles", "done"}]

WorldInv ==
  /\ conf \in [asked : Kinds, market : {"crypto", "stock"}, default : Given]
  /\ rows \in Seq(RowType) /\ now \in Nat
  /\ today \in Nat /\ days \in SUBSET (0..(today + 1))
  /\ granularity \in Nat \ {0}
  /\ pc \in Steps[conf.asked]

\* The feed: what the walk has got is above its cursor, and what it has still
\* to get of the rows there were when it began lies below.
LastGot == walk.got[Len(walk.got)]

WalkInv ==
  /\ page \in [limit : Nat, cursor : [at : Nat, pk : Nat] \union {None}]
  /\ walk \in [got : Seq(Nat), start : SUBSET Nat]
  /\ conf.asked = "trades" /\ pc \in {"asset", "page"} => page.limit # 0
  /\ page.cursor = None /\ (conf.asked = "trades" => pc # "done") => walk.got = <<>>
  /\ page.cursor # None => walk.got # <<>> /\ page.cursor = CursorAt(LastGot)

GotInv ==
  /\ walk.start \subseteq Listed
  /\ \A k \in 1..Len(walk.got) : walk.got[k] \in Listed
  /\ \A k \in 1..(Len(walk.got) - 1) : Newer(walk.got[k], walk.got[k + 1])
  /\ \A i \in walk.start :
        (\A k \in 1..Len(walk.got) : walk.got[k] # i)
          => /\ conf.asked = "trades" => pc # "done"
             /\ walk.got # <<>> => Newer(LastGot, i)

FeedInv == WalkInv /\ GotInv

\* The chart: a price is that of the last trade of its minute among those
\* stored no later than it.
InMinute(i, m) == MinuteOf(i) = m /\ rows[i].at >= since

PriceInv(m) ==
  /\ prices[m] \in Pks /\ InMinute(prices[m], m)
  /\ \A i \in Pks : i <= prices[m] /\ InMinute(i, m) => rows[i].at <= rows[prices[m]].at

PointInv(m) ==
  LET p == points[m] IN
  /\ p.volume \subseteq Pks /\ p.price \in p.volume
  /\ \A i \in p.volume : InMinute(i, m)
  /\ \A i \in Pks : i <= p.price /\ InMinute(i, m)
                    => i \in p.volume /\ rows[i].at <= rows[p.price].at

ChartInv ==
  /\ since \in Int
  /\ conf.asked = "intraday" /\ pc \in {"idle", "asset", "prices"} => prices = NoChart
  /\ (conf.asked = "intraday" => pc # "done") => points = NoChart
  /\ \A m \in DOMAIN prices : PriceInv(m)
  /\ \A m \in DOMAIN points : PointInv(m)

\* What was there when the client asked is still there.
AskingInv ==
  /\ asking \in [days : SUBSET Nat, today : Nat, period : Dates]
  /\ asking.days \subseteq days /\ asking.today <= today

\* The resolved period is the one asked for, and begins no later than what
\* was stored then when its beginning is left open.
PeriodServes ==
  LET p == asking.period IN
  /\ period \in [from : Int, to : Nat]
  /\ p.to # None => period.to = p.to
  /\ p.to = None => asking.today <= period.to /\ period.to <= today
  /\ p.from # None => period.from = p.from
  /\ p.from = None /\ conf.default # None => period.from = period.to - conf.default
  /\ p.from = None /\ conf.default = None =>
        period.from \in Nat /\ \A d \in asking.days : period.from <= d

EarliestServes ==
  asking.period.from = None /\ conf.default = None =>
    /\ earliest = None => asking.days = {}
    /\ earliest # None => \A d \in asking.days : earliest <= d

HistoryInv ==
  /\ earliest \in Given
  /\ history # None => conf.asked = "history" /\ pc = "done" /\ ToSet(history) \subseteq Nat
  /\ conf.asked = "history" =>
       /\ pc \in {"asset", "earliest", "period"} => period = asking.period
       /\ pc = "period" => EarliestServes
       /\ pc = "read" => PeriodServes

\* The tools: the candles are those of the days wanted that were stored when
\* the tool was called, and some of those stored since.
Wanted(first) == {d \in Known : first <= d /\ d <= RangeTo}
CandlesServe(first) ==
  /\ candles \subseteq days /\ Wanted(first) \subseteq candles
  /\ \A d \in candles : first <= d /\ d <= RangeTo

StatsInv ==
  conf.asked = "stats" =>
    /\ period \in Dates
    /\ pc # "done" => answer = None
    /\ pc \in {"candles", "before"} => start \in days /\ \A d \in Known : start <= d
    /\ pc = "before" => CandlesServe(FetchFrom) /\ \E d \in candles : d >= RangeFrom

MovesInv ==
  conf.asked = "moves" =>
    /\ period \in Dates
    /\ pc # "done" => answer = None
    /\ pc = "moves" => CandlesServe(WindowFrom - ContextDays)

IndicatorsInv == conf.asked = "indicators" /\ pc # "done" => answer = None

-----------------------------------------------------------------------------
(* The tables.                                                              *)

LEMMA Settings ==
  /\ Limits \subseteq Nat \ {0} /\ Minute \in Nat \ {0} /\ Window \in Nat
  /\ Defaults \subseteq Given /\ None \notin Nat /\ None \notin [at : Nat, pk : Nat]
  /\ Granularities \subseteq Nat \ {0} /\ ToolDay \in Nat
  /\ DefaultDays \in Nat /\ ContextDays \in Nat
  /\ MaxShown \in Nat \ {0} /\ Lookback \in Nat \ {0}
  /\ IndicatorDays \in Nat /\ RsiPeriod \in Nat
  /\ RangeDays \in Nat \ {0} /\ Spans \subseteq Nat \ {0}
BY QueriesAssumption, ToolsAssumption DEF Given

LEMMA AskedIs ==
  ASSUME WorldInv
  PROVE  /\ pc \in {"start", "before"} => conf.asked = "stats"
         /\ pc = "moves" => conf.asked = "moves"
BY DEF WorldInv, Steps, Kinds

LEMMA WorldBegins == Init => WorldInv
<1> SUFFICES ASSUME Init PROVE WorldInv
  OBVIOUS
<1>1. rows = <<>> /\ now = 0 /\ pc = "idle" /\ granularity \in Nat \ {0}
  BY Settings DEF Init, NotAskedYet
<1>2. /\ conf \in [asked : Kinds, market : {"crypto", "stock"}, default : Given]
      /\ today \in Nat /\ days \in SUBSET (0..(today + 1))
  <2>1. CASE QueriesInit
    BY <2>1, Settings DEF QueriesInit, Kinds
  <2>2. CASE /\ conf \in [asked : Tools, market : {"crypto"}, default : {None}]
             /\ days \in SUBSET (0..ToolDay) /\ today = ToolDay
    <3>1. ToolDay \in Nat /\ 0..ToolDay \subseteq 0..(ToolDay + 1)
      BY Settings
    <3> QED BY <2>2, <3>1 DEF Kinds, Tools, Given
  <2> QED BY <2>1, <2>2 DEF Init
<1>3. pc \in Steps[conf.asked]
  BY <1>1, <1>2 DEF Steps, Kinds
<1> QED BY <1>1, <1>2, <1>3 DEF WorldInv

\* The writers and the admin leave the request where it is, and a request
\* leaves the tables as they are.
Writers == (Insert \/ StoreDay \/ Tick \/ Edit) /\ UNCHANGED tool
Readers == \/ /\ \/ AskPage \/ FindFeed \/ ReadPage
                 \/ AskChart \/ FindCharted \/ ReadPrices \/ ReadVolumes
                 \/ AskHistory \/ FindStored \/ ReadEarliest \/ ResolvePeriod \/ ReadHistory
              /\ UNCHANGED tool
           \/ Call \/ Resolve \/ FindStart \/ FetchCandles \/ Summarise
           \/ FetchWindow \/ FindMoves \/ Indicate

LEMMA NextIs == Next => Writers \/ Readers
BY DEF Next, QueriesNext, Writers, Readers

LEMMA IntervalGrows ==
  ASSUME NEW m \in Nat, NEW n \in Nat, m <= n
  PROVE  0..(m + 1) \subseteq 0..(n + 1)
OBVIOUS

LEMMA WritersLeave ==
  ASSUME WorldInv, Writers
  PROVE  /\ UNCHANGED <<conf, pc, feed, chart, dates, tool>>
         /\ WorldInv'
         /\ days \subseteq days' /\ today <= today'
         /\ UNCHANGED rows \/ \E r \in RowType : rows' = Append(rows, r)
         /\ conf.asked \notin {"trades", "intraday"} => UNCHANGED rows
<1>1. CASE Insert
  <2>1. PICK at \in 0..now, listed \in BOOLEAN :
          rows' = Append(rows, [at |-> at, listed |-> listed])
    BY <1>1 DEF Insert
  <2>2. [at |-> at, listed |-> listed] \in RowType
    BY DEF WorldInv, RowType
  <2>3. UNCHANGED <<conf, days, now, today, pc, feed, chart, dates, tool>>
    BY <1>1 DEF Insert, Writers
  <2>4. granularity' = granularity
    BY <2>3 DEF tool
  <2>5. WorldInv'
    BY <2>1, <2>2, <2>3, <2>4 DEF WorldInv
  <2>6. conf.asked \in {"trades", "intraday"}
    BY <1>1 DEF Insert, Dated
  <2> QED BY <2>1, <2>2, <2>3, <2>5, <2>6 DEF WorldInv
<1>2. CASE StoreDay
  <2>1. PICK d \in 0..(today + 1) : days' = days \union {d}
    BY <1>2 DEF StoreDay
  <2>2. UNCHANGED <<conf, rows, now, today, pc, feed, chart, dates, tool>>
    BY <1>2 DEF StoreDay, Writers
  <2>3. granularity' = granularity
    BY <2>2 DEF tool
  <2>4. WorldInv'
    BY <2>1, <2>2, <2>3 DEF WorldInv
  <2> QED BY <2>1, <2>2, <2>4 DEF WorldInv
<1>3. CASE Tick
  <2>1. UNCHANGED <<conf, rows, days, pc, feed, chart, dates, tool>>
    BY <1>3 DEF Tick, tables, Writers
  <2>2. now' \in Nat /\ today' \in Nat /\ today <= today'
    BY <1>3 DEF Tick, WorldInv
  <2>3. granularity' = granularity
    BY <2>1 DEF tool
  <2>4. 0..(today + 1) \subseteq 0..(today' + 1)
    <3>1. today \in Nat
      BY DEF WorldInv
    <3> QED BY <2>2, <3>1, IntervalGrows
  <2>5. WorldInv'
    BY <2>1, <2>2, <2>3, <2>4 DEF WorldInv
  <2> QED BY <2>1, <2>2, <2>5
<1>4. CASE Edit
  <2>1. UNCHANGED <<conf, rows, days, now, today, pc, feed, chart, dates, tool>>
    BY <1>4 DEF Edit, tables, Writers
  <2>2. granularity' = granularity
    BY <2>1 DEF tool
  <2>3. WorldInv'
    BY <2>1, <2>2 DEF WorldInv
  <2> QED BY <2>1, <2>3 DEF WorldInv
<1> QED BY <1>1, <1>2, <1>3, <1>4 DEF Writers

LEMMA ReadersLeave ==
  ASSUME WorldInv, Readers
  PROVE  UNCHANGED <<world, granularity>> /\ WorldInv'
<1>1. UNCHANGED <<world, granularity>>
  BY DEF Readers, AskPage, FindFeed, ReadPage, AskChart, FindCharted, ReadPrices, ReadVolumes,
         AskHistory, FindStored, ReadEarliest, ResolvePeriod, ReadHistory, tool,
         Call, Resolve, FindStart, FetchCandles, Summarise, FetchWindow, FindMoves,
         Indicate, Tools
<1>2. UNCHANGED <<conf, rows, days, now, today>>
  BY <1>1 DEF world
<1>3. pc \in Steps[conf.asked] /\ conf.asked \in Kinds
  BY DEF WorldInv
<1>4. pc' \in Steps[conf.asked]
  <2>1. CASE AskPage \/ FindFeed \/ ReadPage
    BY <2>1, <1>3 DEF AskPage, FindFeed, ReadPage, Steps
  <2>2. CASE AskChart \/ FindCharted \/ ReadPrices \/ ReadVolumes
    BY <2>2, <1>3 DEF AskChart, FindCharted, ReadPrices, ReadVolumes, Steps
  <2>3. CASE AskHistory \/ FindStored \/ ReadEarliest \/ ResolvePeriod \/ ReadHistory
    BY <2>3, <1>3 DEF AskHistory, FindStored, ReadEarliest, ResolvePeriod, ReadHistory, Steps
  <2>4. CASE Call \/ Resolve
    BY <2>4, <1>3 DEF Call, Resolve, Steps, Tools
  <2>5. CASE FindStart \/ FetchCandles \/ Summarise
    BY <2>5, <1>3 DEF FindStart, FetchCandles, Summarise, Steps, Kinds
  <2>6. CASE FetchWindow \/ FindMoves \/ Indicate
    BY <2>6, <1>3 DEF FetchWindow, FindMoves, Indicate, Steps, Kinds
  <2> QED BY <2>1, <2>2, <2>3, <2>4, <2>5, <2>6 DEF Readers
<1> QED BY <1>1, <1>2, <1>4 DEF WorldInv

LEMMA WorldStays == WorldInv /\ [Next]_vars => WorldInv'
<1> SUFFICES ASSUME WorldInv, [Next]_vars PROVE WorldInv'
  OBVIOUS
<1>1. CASE Next
  BY <1>1, NextIs, WritersLeave, ReadersLeave
<1>2. CASE UNCHANGED vars
  BY <1>2 DEF vars, queries, world, tool, WorldInv
<1> QED BY <1>1, <1>2

-----------------------------------------------------------------------------
(* The walk through the feed.                                               *)

Stores == UNCHANGED rows \/ \E r \in RowType : rows' = Append(rows, r)

\* A stored row keeps its place.
LEMMA RowsStay ==
  ASSUME WorldInv, Stores
  PROVE  /\ Pks \subseteq Pks' /\ Pks \subseteq Nat
         /\ \A i \in Pks : rows'[i] = rows[i] /\ rows[i] \in RowType
BY DEF WorldInv, Pks, Stores

LEMMA OrderStays ==
  ASSUME WorldInv, Stores
  PROVE  /\ Listed \subseteq Listed' /\ Listed \subseteq Pks
         /\ \A i, j \in Pks : Newer(i, j)' <=> Newer(i, j)
         /\ \A i \in Pks : CursorAt(i)' = CursorAt(i)
<1>1. /\ Pks \subseteq Pks' /\ \A i \in Pks : rows'[i] = rows[i]
  BY RowsStay
<1>2. \A i \in Pks : rows'[i].listed = rows[i].listed /\ rows'[i].at = rows[i].at
  BY <1>1
<1>3. Listed \subseteq Listed' /\ Listed \subseteq Pks
  BY <1>1, <1>2 DEF Listed
<1>4. \A i, j \in Pks : Newer(i, j)' <=> Newer(i, j)
  BY <1>2 DEF Newer
<1>5. \A i \in Pks : CursorAt(i)' = CursorAt(i)
  BY <1>2 DEF CursorAt
<1> QED BY <1>3, <1>4, <1>5

LEMMA RowsAre ==
  ASSUME WorldInv
  PROVE  /\ Pks = 1..Len(rows) /\ Len(rows) \in Nat
         /\ \A i \in Pks : i \in Nat /\ rows[i].at \in Nat
<1>1. Pks = 1..Len(rows) /\ Len(rows) \in Nat
  BY DEF WorldInv, Pks
<1>2. \A i \in Pks : i \in Nat /\ rows[i] \in RowType
  BY DEF WorldInv, Pks
<1> QED BY <1>1, <1>2 DEF RowType

\* The order of the feed is a strict total order of the rows.
LEMMA NewerOrders ==
  ASSUME WorldInv
  PROVE  /\ \A i \in Pks : ~ Newer(i, i)
         /\ \A i, j \in Pks : i # j => Newer(i, j) \/ Newer(j, i)
         /\ \A i, j, k \in Pks : Newer(i, j) /\ Newer(j, k) => Newer(i, k)
BY RowsAre DEF Newer

LEMMA FeedInOrder ==
  ASSUME WorldInv, NEW S \in SUBSET Pks
  PROVE  /\ Cardinality(S) \in Nat
         /\ InOrder(S, Newer) \in [1..Cardinality(S) -> S]
         /\ \A x \in S : \E k \in 1..Cardinality(S) : InOrder(S, Newer)[k] = x
         /\ \A k, l \in 1..Cardinality(S) :
               k < l => Newer(InOrder(S, Newer)[k], InOrder(S, Newer)[l])
<1> DEFINE before == [d \in S |-> {e \in S : Newer(e, d)}]
           s == InOrder(S, Newer)
<1>0. IsFiniteSet(S)
  <2>2. IsFiniteSet(Pks)
    BY RowsAre, FS_Interval
  <2> HIDE DEF before, s
  <2> QED BY <2>2, FS_Subset
<1>1. Orders(before, S)
  <2>1. \A x, y \in S : x # y => Newer(x, y) \/ Newer(y, x)
    BY NewerOrders
  <2>2. ASSUME NEW x \in S, NEW y \in S, Newer(x, y)
        PROVE  x \in before[y] /\ before[x] \subseteq before[y]
    <3>1. \A e \in S : Newer(e, x) => Newer(e, y)
      BY <2>2, NewerOrders
    <3> QED BY <2>2, <3>1
  <2>3. before \in [S -> SUBSET S] /\ \A x \in S : x \notin before[x]
    BY NewerOrders
  <2> HIDE DEF before
  <2> QED BY <2>1, <2>2, <2>3 DEF Orders
<1>2. s = [k \in 1..Cardinality(S) |-> s[k]]
  <2> DEFINE Row(k) == CHOOSE d \in S : Cardinality({e \in S : Newer(e, d)}) = k - 1
  <2>1. s = [k \in 1..Cardinality(S) |-> Row(k)]
    BY Zenon DEF InOrder
  <2> HIDE DEF Row, s
  <2> QED BY <2>1
<1>3. ASSUME NEW k \in 1..Cardinality(S), \E d \in S : Cardinality(before[d]) = k - 1
      PROVE  s[k] \in S /\ Cardinality(before[s[k]]) = k - 1
  <2>1. s[k] = CHOOSE d \in S : Cardinality({e \in S : Newer(e, d)}) = k - 1
    BY DEF InOrder
  <2>2. \A d \in S : before[d] = {e \in S : Newer(e, d)}
    OBVIOUS
  <2>3. \E d \in S : Cardinality({e \in S : Newer(e, d)}) = k - 1
    <3> HIDE DEF before
    <3> QED BY <1>3, <2>2
  <2>4. s[k] \in S /\ Cardinality({e \in S : Newer(e, s[k])}) = k - 1
    <3> HIDE DEF s
    <3> QED BY <2>1, <2>3
  <2> HIDE DEF s, before
  <2> QED BY <2>2, <2>4
<1>4. \A x, y \in S : x \in before[y] => Newer(x, y)
  OBVIOUS
<1>5. /\ Cardinality(S) \in Nat
      /\ s \in [1..Cardinality(S) -> S]
      /\ \A x \in S : \E k \in 1..Cardinality(S) : s[k] = x
      /\ \A k, l \in 1..Cardinality(S) : k < l => s[k] \in before[s[l]]
  <2> HIDE DEF s, before
  <2> QED BY <1>0, <1>1, <1>2, <1>3, PlacedIsWhole
<1>6. \A k, l \in 1..Cardinality(S) : k < l => Newer(s[k], s[l])
  <2> HIDE DEF s, before
  <2> QED BY <1>4, <1>5
<1> QED BY <1>5, <1>6

LEMMA FeedBegins == Init => FeedInv
<1> SUFFICES ASSUME Init PROVE FeedInv
  OBVIOUS
<1>1. /\ page = [limit |-> 0, cursor |-> None] /\ walk = [got |-> <<>>, start |-> {}]
      /\ pc = "idle"
  BY DEF Init, NotAskedYet, NoPage, NoWalk
<1>2. walk.got = <<>> /\ walk.start = {} /\ page.cursor = None
  BY <1>1
<1>3. WalkInv
  <2>1. walk \in [got : Seq(Nat), start : SUBSET Nat]
    BY <1>1
  <2>2. page \in [limit : Nat, cursor : [at : Nat, pk : Nat] \union {None}]
    BY <1>1
  <2> QED BY <1>1, <1>2, <2>1, <2>2 DEF WalkInv
<1>4. GotInv
  BY <1>2 DEF GotInv
<1> QED BY <1>3, <1>4 DEF FeedInv

\* What is stored or edited beside it leaves the walk as good as it was.
LEMMA FeedStays ==
  ASSUME WorldInv, FeedInv, Stores, UNCHANGED <<conf, feed>>,
         pc' = pc \/ conf.asked # "trades"
  PROVE  FeedInv'
<1>1. page' = page /\ walk' = walk /\ conf' = conf
  BY DEF feed
<1>2. LastGot' = LastGot
  BY <1>1 DEF LastGot
<1>3. ASSUME walk.got # <<>>
      PROVE  LastGot \in Listed /\ LastGot \in Pks
  <2>1. Len(walk.got) \in 1..Len(walk.got)
    BY <1>3 DEF FeedInv, WalkInv
  <2> QED BY <2>1, OrderStays DEF FeedInv, GotInv, LastGot
<1>4. WalkInv'
  <2>1. walk.got # <<>> => CursorAt(LastGot)' = CursorAt(LastGot)
    BY <1>2, <1>3, OrderStays
  <2>2. page.cursor # None => page.cursor = CursorAt(LastGot)'
    BY <2>1 DEF FeedInv, WalkInv
  <2>3. page.cursor # None => walk.got # <<>>
    BY DEF FeedInv, WalkInv
  <2> QED BY <1>1, <1>2, <2>2, <2>3 DEF FeedInv, WalkInv
<1>5. GotInv'
  <2>1. walk.start \subseteq Listed' /\ \A k \in 1..Len(walk.got) : walk.got[k] \in Listed'
    BY OrderStays DEF FeedInv, GotInv
  <2>2. /\ \A k \in 1..Len(walk.got) : walk.got[k] \in Pks
        /\ Len(walk.got) \in Nat
    BY OrderStays DEF FeedInv, GotInv, WalkInv
  <2>3. \A k \in 1..(Len(walk.got) - 1) : Newer(walk.got[k], walk.got[k + 1])'
    <3> SUFFICES ASSUME NEW k \in 1..(Len(walk.got) - 1)
                 PROVE  Newer(walk.got[k], walk.got[k + 1])'
      OBVIOUS
    <3>1. k \in 1..Len(walk.got) /\ k + 1 \in 1..Len(walk.got)
      BY <2>2
    <3>2. Newer(walk.got[k], walk.got[k + 1])
      BY DEF FeedInv, GotInv
    <3>3. \A i, j \in Pks : Newer(i, j) => Newer(i, j)'
      BY OrderStays
    <3> DEFINE i == walk.got[k]
               j == walk.got[k + 1]
    <3>4. i \in Pks /\ j \in Pks /\ i' = i /\ j' = j
      BY <1>1, <2>2, <3>1
    <3>5. rows'[i].at = rows[i].at /\ rows'[j].at = rows[j].at
      BY <3>4, RowsStay
    <3> QED BY <1>1, <3>2, <3>5 DEF Newer
  <2>4. \A i \in walk.start : walk.got # <<>> /\ Newer(LastGot, i) => Newer(LastGot, i)'
    <3> SUFFICES ASSUME NEW i \in walk.start, walk.got # <<>>, Newer(LastGot, i)
                 PROVE  Newer(LastGot, i)'
      OBVIOUS
    <3>1. i \in Pks /\ LastGot \in Pks
      BY <1>3, OrderStays DEF FeedInv, GotInv
    <3>2. rows'[i].at = rows[i].at /\ rows'[LastGot].at = rows[LastGot].at
      BY <3>1, RowsStay
    <3> QED BY <1>2, <3>2 DEF Newer
  <2> QED BY <1>1, <1>2, <2>1, <2>3, <2>4 DEF FeedInv, GotInv
<1> QED BY <1>4, <1>5 DEF FeedInv

LEMMA AskPageKeeps ==
  ASSUME WorldInv, FeedInv, AskPage
  PROVE  FeedInv'
<1>1. UNCHANGED <<conf, rows>> /\ conf.asked = "trades" /\ pc = "idle" /\ pc' = "asset"
  BY DEF AskPage, world
<1>2. PICK l \in Limits : page' = [page EXCEPT !.limit = l]
  BY DEF AskPage
<1>3. page'.limit = l /\ page'.cursor = page.cursor /\ l \in Nat \ {0}
      /\ page' \in [limit : Nat, cursor : [at : Nat, pk : Nat] \union {None}]
  BY <1>2, Settings DEF FeedInv, WalkInv
<1>4. /\ Listed' = Listed
      /\ Listed \in SUBSET Nat
  <2>1. Pks \subseteq Nat
    BY <1>1, RowsStay DEF Stores
  <2> QED BY <1>1, <2>1 DEF Listed, Pks
<1>5. /\ walk' \in [got : Seq(Nat), start : SUBSET Nat] /\ walk'.got = walk.got
      /\ walk'.start = IF page.cursor = None THEN Listed ELSE walk.start
  BY <1>4 DEF AskPage, FeedInv, WalkInv
<1>6. LastGot' = LastGot
  BY <1>5 DEF LastGot
<1>7. WalkInv'
  <2>1. page.cursor # None => page.cursor = CursorAt(LastGot)'
    BY <1>1, <1>6 DEF FeedInv, WalkInv, CursorAt
  <2> QED BY <1>1, <1>3, <1>5, <1>6, <2>1 DEF FeedInv, WalkInv
<1>8. GotInv'
  <2>1. page.cursor = None => walk.got = <<>>
    BY <1>1 DEF FeedInv, WalkInv
  <2>2. \A i, j : Newer(i, j)' <=> Newer(i, j)
    BY <1>1 DEF Newer
  <2>3. walk'.start \subseteq Listed'
    BY <1>4, <1>5 DEF FeedInv, GotInv
  <2>4. \A k \in 1..(Len(walk'.got) - 1) : Newer(walk.got[k], walk.got[k + 1])
    BY <1>5 DEF FeedInv, GotInv
  <2>5. ASSUME NEW i \in walk'.start, \A k \in 1..Len(walk'.got) : walk'.got[k] # i
        PROVE  walk'.got # <<>> => Newer(LastGot, i)
    BY <1>5, <2>1, <2>5 DEF FeedInv, GotInv
  <2> QED BY <1>1, <1>4, <1>5, <1>6, <2>2, <2>3, <2>4, <2>5 DEF FeedInv, GotInv, Newer
<1> QED BY <1>7, <1>8 DEF FeedInv

LEMMA FindFeedKeeps ==
  ASSUME WorldInv, FeedInv, FindFeed
  PROVE  FeedInv'
<1>1. /\ UNCHANGED <<conf, rows, page, walk>> /\ conf.asked = "trades"
      /\ pc = "asset" /\ pc' \in {"page", "idle"}
  BY DEF FindFeed, world, feed
<1>2. WalkInv'
  BY <1>1 DEF FeedInv, WalkInv, CursorAt, LastGot
<1>3. GotInv'
  BY <1>1 DEF FeedInv, GotInv, Listed, Pks, Newer, LastGot
<1> QED BY <1>2, <1>3 DEF FeedInv

\* What a page may give: the rows that come after the last of the pages before.
LEMMA BelowIs ==
  ASSUME WorldInv, FeedInv, conf.asked = "trades", pc # "done"
  PROVE  Below(page.cursor) = {i \in Listed : walk.got # <<>> => Newer(LastGot, i)}
<1>1. CASE page.cursor = None
  <2>1. walk.got = <<>>
    BY <1>1 DEF FeedInv, WalkInv
  <2> QED BY <1>1, <2>1 DEF Below
<1>2. CASE page.cursor # None
  <2>1. walk.got # <<>> /\ page.cursor = CursorAt(LastGot)
    BY <1>2 DEF FeedInv, WalkInv
  <2>2. page.cursor.at = rows[LastGot].at /\ page.cursor.pk = LastGot
    BY <2>1 DEF CursorAt
  <2>3. LastGot \in Pks
    <3>1. Len(walk.got) \in 1..Len(walk.got)
      BY <2>1 DEF FeedInv, WalkInv
    <3> QED BY <3>1 DEF FeedInv, GotInv, LastGot, Listed
  <2>4. \A i \in Listed : i \in Nat /\ rows[i].at \in Nat
    BY RowsAre DEF Listed
  <2>5. LastGot \in Nat /\ rows[LastGot].at \in Nat
    BY <2>3, RowsAre
  <2>6. \A i \in Listed :
           (rows[i].at < page.cursor.at \/ (rows[i].at = page.cursor.at /\ i < page.cursor.pk))
             <=> Newer(LastGot, i)
    BY <2>2, <2>4, <2>5 DEF Newer
  <2> QED BY <1>2, <2>1, <2>6 DEF Below
<1> QED BY <1>1, <1>2

LEMMA ListIs ==
  ASSUME NEW S, NEW n \in Nat, NEW s \in [1..n -> S]
  PROVE  s \in Seq(S) /\ Len(s) = n
<1>1. s \in Seq(S)
  BY SeqDef
<1>2. Len(s) \in Nat /\ 1..Len(s) = 1..n
  BY <1>1, LenProperties
<1>3. \A k \in Nat : 1..k = 1..n => k = n
  <2> SUFFICES ASSUME NEW k \in Nat, 1..k = 1..n PROVE k = n
    OBVIOUS
  <2>1. n + 1 \notin 1..k /\ k + 1 \notin 1..n
    OBVIOUS
  <2> QED BY <2>1
<1> QED BY <1>1, <1>2, <1>3

\* The places of the new part in the whole.
LEMMA Beyond ==
  ASSUME NEW a \in Nat, NEW m \in Nat, NEW n \in Nat, m <= n,
         NEW k \in 1..(a + m - 1), k > a
  PROVE  /\ k - a \in 1..m /\ (k - a) + 1 \in 1..m
         /\ k - a \in 1..n /\ (k - a) + 1 \in 1..n /\ k - a < (k - a) + 1
         /\ k = a + (k - a) /\ k + 1 = a + ((k - a) + 1)
OBVIOUS

LEMMA ReadPageKeeps ==
  ASSUME WorldInv, FeedInv, ReadPage
  PROVE  FeedInv'
<1> DEFINE B     == Below(page.cursor)
           n     == Cardinality(B)
           found == InOrder(B, Newer)
           more  == Len(found) > page.limit
           taken == IF more THEN SubSeq(found, 1, page.limit) ELSE found
           got   == walk.got
<1>1. conf.asked = "trades" /\ pc = "page" /\ UNCHANGED <<conf, rows>>
  BY DEF ReadPage, world
<1>2. /\ walk' = [walk EXCEPT !.got = @ \o taken]
      /\ page' = [page EXCEPT !.cursor = IF more THEN CursorAt(taken[Len(taken)]) ELSE None]
      /\ pc' = IF more THEN "idle" ELSE "done"
  BY DEF ReadPage
<1>3. B = {i \in Listed : got # <<>> => Newer(LastGot, i)} /\ B \in SUBSET Pks
      /\ Listed \in SUBSET Pks /\ Pks \in SUBSET Nat
  <2>1. Listed \in SUBSET Pks /\ Pks \in SUBSET Nat
    BY RowsAre DEF Listed
  <2> QED BY <1>1, <2>1, BelowIs
<1>4. page.limit \in Nat \ {0} /\ got \in Seq(Nat)
  BY <1>1 DEF FeedInv, WalkInv
<1> HIDE DEF B, found
<1>5. /\ n \in Nat /\ found \in [1..n -> B]
      /\ \A x \in B : \E k \in 1..n : found[k] = x
      /\ \A k, l \in 1..n : k < l => Newer(found[k], found[l])
  BY <1>3, FeedInOrder DEF found
<1> HIDE DEF n
<1>6. found \in Seq(Nat) /\ Len(found) = n
  <2>1. found \in [1..n -> Nat]
    BY <1>3, <1>5
  <2> QED BY <1>5, <2>1, ListIs
<1> DEFINE m == IF more THEN page.limit ELSE n
<1>7. /\ m \in Nat /\ m <= n /\ (more => m < n /\ m # 0)
      /\ taken \in Seq(Nat) /\ Len(taken) = m
      /\ \A k \in 1..m : taken[k] = found[k]
  BY <1>4, <1>5, <1>6
<1> HIDE DEF m, taken, more
<1>8. /\ walk'.got = got \o taken /\ walk'.start = walk.start
      /\ walk'.got \in Seq(Nat) /\ Len(walk'.got) = Len(got) + m
      /\ walk' \in [got : Seq(Nat), start : SUBSET Nat]
      /\ \A k \in 1..Len(got) : walk'.got[k] = got[k]
      /\ \A k \in 1..m : walk'.got[Len(got) + k] = found[k]
  <2>1. walk \in [got : Seq(Nat), start : SUBSET Nat]
    BY DEF FeedInv, WalkInv
  <2>2. walk'.got = got \o taken /\ walk'.start = walk.start
        /\ walk' = [got |-> got \o taken, start |-> walk.start]
    BY <1>2, <2>1
  <2> DEFINE all == walk'.got
  <2> HIDE DEF got, all
  <2>3. got \in Seq(Nat) /\ taken \in Seq(Nat) /\ Len(taken) = m /\ all = got \o taken
    BY <1>4, <1>7, <2>2 DEF all
  <2>4. /\ all \in Seq(Nat) /\ Len(all) = Len(got) + Len(taken)
        /\ \A k \in 1..Len(got) : all[k] = got[k]
        /\ \A k \in 1..Len(taken) : all[Len(got) + k] = taken[k]
    <3>1. all \in Seq(Nat) /\ Len(all) = Len(got) + Len(taken)
      BY <2>3
    <3>2. \A k \in 1..Len(got) : all[k] = got[k]
      BY <2>3
    <3>3. \A k \in 1..Len(taken) : all[Len(got) + k] = taken[k]
      BY <2>3
    <3> QED BY <3>1, <3>2, <3>3
  <2>5. walk' \in [got : Seq(Nat), start : SUBSET Nat]
    BY <2>1, <2>2, <2>3, <2>4
  <2> QED BY <1>7, <2>2, <2>3, <2>4, <2>5 DEF all
<1>9. \A i \in Listed, j \in Listed : Newer(i, j)' <=> Newer(i, j)
  BY <1>1 DEF Newer
<1>10. Listed' = Listed
  BY <1>1 DEF Listed, Pks
<1>11. more => LastGot' = found[m] /\ taken[Len(taken)] = found[m] /\ walk'.got # <<>>
  <2> SUFFICES ASSUME more
               PROVE  LastGot' = found[m] /\ taken[Len(taken)] = found[m] /\ walk'.got # <<>>
    OBVIOUS
  <2>1. Len(got) \in Nat /\ m \in 1..m
    BY <1>4, <1>7
  <2>2. walk'.got[Len(got) + m] = found[m] /\ Len(walk'.got) = Len(got) + m
    BY <1>8, <2>1
  <2>3. Len(walk'.got) # 0
    BY <2>1, <2>2
  <2> QED BY <1>7, <2>1, <2>2, <2>3 DEF LastGot
<1>12. WalkInv'
  <2>1. page'.limit = page.limit
        /\ page'.cursor = IF more THEN CursorAt(taken[Len(taken)]) ELSE None
    BY <1>2 DEF FeedInv, WalkInv
  <2>2. more => found[m] \in Pks
    BY <1>3, <1>5, <1>7
  <2>3. more => CursorAt(found[m]) \in [at : Nat, pk : Nat]
    BY <2>2, RowsAre DEF CursorAt
  <2>4. page' \in [limit : Nat, cursor : [at : Nat, pk : Nat] \union {None}]
    BY <1>2, <1>11, <2>3 DEF FeedInv, WalkInv
  <2>5. page'.cursor = None => pc' = "done"
    BY <1>2, <1>11, <2>1, <2>3, Settings
  <2>6. page'.cursor # None => walk'.got # <<>> /\ page'.cursor = CursorAt(LastGot)'
    <3>1. more => CursorAt(LastGot)' = CursorAt(found[m])
      BY <1>1, <1>11 DEF CursorAt
    <3> QED BY <1>11, <2>1, <3>1
  <2>7. pc' \in {"idle", "done"}
    BY <1>2
  <2> QED BY <1>1, <1>8, <2>4, <2>5, <2>6, <2>7 DEF WalkInv
<1>13. GotInv'
  <2>1. walk'.start \subseteq Listed'
    BY <1>8, <1>10 DEF FeedInv, GotInv
  <2>2. ASSUME NEW k \in 1..Len(walk'.got)
        PROVE  walk'.got[k] \in Listed
    <3>1. CASE k \in 1..Len(got)
      BY <1>8, <3>1 DEF FeedInv, GotInv
    <3>2. CASE k \notin 1..Len(got)
      <4>1. k - Len(got) \in 1..m /\ k = Len(got) + (k - Len(got))
        BY <1>4, <1>7, <1>8, <3>2
      <4>2. walk'.got[k] = found[k - Len(got)] /\ k - Len(got) \in 1..n
        BY <1>5, <1>7, <1>8, <4>1
      <4> QED BY <1>3, <1>5, <4>2
    <3> QED BY <3>1, <3>2
  <2>3. ASSUME NEW k \in 1..(Len(walk'.got) - 1)
        PROVE  Newer(walk'.got[k], walk'.got[k + 1])
    <3>0. Len(got) \in Nat
      BY <1>4
    <3>1. CASE k < Len(got)
      <4>1. k \in 1..(Len(got) - 1) /\ k \in 1..Len(got) /\ k + 1 \in 1..Len(got)
        BY <3>0, <3>1
      <4> QED BY <1>8, <4>1 DEF FeedInv, GotInv
    <3>2. CASE k = Len(got)
      <4>1. got # <<>> /\ k \in 1..Len(got) /\ walk'.got[k] = LastGot
        BY <1>4, <1>8, <3>2 DEF LastGot
      <4>2. 1 \in 1..m /\ k + 1 = Len(got) + 1 /\ 1 \in 1..n
        BY <1>5, <1>7, <1>8, <3>0, <3>2
      <4>3. walk'.got[k + 1] = found[1] /\ found[1] \in B
        BY <1>5, <1>8, <4>2
      <4> QED BY <1>3, <4>1, <4>3
    <3>3. CASE k > Len(got)
      <4> DEFINE l == k - Len(got)
      <4>1. /\ l \in 1..m /\ l + 1 \in 1..m /\ l \in 1..n /\ l + 1 \in 1..n
            /\ k = Len(got) + l /\ k + 1 = Len(got) + (l + 1) /\ l < l + 1
        <5>1. k \in 1..(Len(got) + m - 1)
          BY <1>7, <1>8, <3>0
        <5>2. /\ l \in 1..m /\ l + 1 \in 1..m /\ l \in 1..n /\ l + 1 \in 1..n /\ l < l + 1
              /\ k = Len(got) + l /\ k + 1 = Len(got) + (l + 1)
          BY <1>5, <1>7, <3>0, <3>3, <5>1, Beyond
        <5> QED BY <5>2
      <4> HIDE DEF l
      <4>2. walk'.got[k] = found[l] /\ walk'.got[k + 1] = found[l + 1]
        BY <1>8, <4>1
      <4> QED BY <1>5, <4>1, <4>2
    <3> QED BY <3>0, <3>1, <3>2, <3>3
  <2>4. ASSUME NEW i \in walk.start, \A k \in 1..Len(walk'.got) : walk'.got[k] # i
        PROVE  more /\ Newer(found[m], i)
    <3>1. \A k \in 1..Len(got) : got[k] # i
      <4>1. \A k \in 1..Len(got) : k \in 1..Len(walk'.got)
        BY <1>4, <1>7, <1>8
      <4> QED BY <1>8, <2>4, <4>1
    <3>2. i \in B
      BY <1>3, <3>1 DEF FeedInv, GotInv
    <3>3. PICK k \in 1..n : found[k] = i
      BY <1>5, <3>2
    <3>4. k \notin 1..m
      <4> SUFFICES ASSUME k \in 1..m PROVE FALSE
        OBVIOUS
      <4>1. Len(got) + k \in 1..Len(walk'.got)
        BY <1>4, <1>7, <1>8
      <4> QED BY <1>8, <2>4, <3>3, <4>1
    <3>5. more /\ m < k /\ m \in 1..n
      BY <1>5, <1>7, <3>4 DEF m
    <3> QED BY <1>5, <3>3, <3>5
  <2>5. ASSUME NEW i \in walk'.start, \A k \in 1..Len(walk'.got) : walk'.got[k] # i
        PROVE  pc' # "done" /\ Newer(LastGot, i)'
    <3>1. more /\ Newer(found[m], i)
      BY <1>8, <2>4, <2>5
    <3>2. Newer(LastGot, i)' <=> Newer(found[m], i)
      BY <1>1, <1>11, <3>1 DEF Newer
    <3> QED BY <1>2, <3>1, <3>2
  <2>6. \A k \in 1..(Len(walk'.got) - 1) : Newer(walk.got[k], walk.got[k + 1])'
    BY <1>1, <2>3 DEF Newer
  <2> QED BY <1>10, <2>1, <2>2, <2>5, <2>6 DEF GotInv
<1> QED BY <1>12, <1>13 DEF FeedInv

LEMMA FeedKept == WorldInv /\ FeedInv /\ [Next]_vars => FeedInv'
<1> SUFFICES ASSUME WorldInv, FeedInv, [Next]_vars PROVE FeedInv'
  OBVIOUS
<1>1. CASE Writers
  <2>1. Stores /\ UNCHANGED <<conf, feed, pc>>
    BY <1>1, WritersLeave DEF Stores
  <2> QED BY <2>1, FeedStays
<1>2. CASE Readers
  <2>1. CASE AskPage \/ FindFeed \/ ReadPage
    BY <2>1, AskPageKeeps, FindFeedKeeps, ReadPageKeeps
  <2>2. CASE ~ (AskPage \/ FindFeed \/ ReadPage)
    <3>1. UNCHANGED feed /\ conf.asked # "trades"
      BY <1>2, <2>2, AskedIs
         DEF Readers, AskChart, FindCharted, ReadPrices, ReadVolumes,
             AskHistory, FindStored, ReadEarliest, ResolvePeriod, ReadHistory,
             Call, Resolve, FindStart, FetchCandles, Summarise, FetchWindow, FindMoves,
         Indicate, Tools
    <3>2. UNCHANGED <<conf, rows>>
      BY <1>2, ReadersLeave DEF world
    <3> QED BY <3>1, <3>2, FeedStays DEF Stores
  <2> QED BY <2>1, <2>2
<1>3. CASE UNCHANGED vars
  <2>1. UNCHANGED <<conf, rows, feed, pc>>
    BY <1>3 DEF vars, queries, world
  <2> QED BY <2>1, FeedStays DEF Stores
<1> QED BY <1>1, <1>2, <1>3, NextIs

LEMMA WalkFollows ==
  ASSUME WorldInv, FeedInv
  PROVE  WalkIsWhole
<1> DEFINE got == walk.got
           all == ToSet(walk.got)
<1>1. got \in Seq(Nat) /\ Len(got) \in Nat
  BY DEF FeedInv, WalkInv
<1>2. all = {got[k] : k \in 1..Len(got)}
  BY <1>1 DEF ToSet
<1>3. all \subseteq Listed
  BY <1>2 DEF FeedInv, GotInv
<1>4. ASSUME NEW i \in walk.start \ all
      PROVE  /\ conf.asked = "trades" => pc # "done"
             /\ all # {} => Newer(got[Len(got)], i)
  <2>1. \A k \in 1..Len(got) : got[k] # i
    BY <1>2
  <2>2. all # {} => got # <<>>
    BY <1>1, <1>2
  <2> QED BY <2>1, <2>2 DEF FeedInv, GotInv, LastGot
<1> HIDE DEF all
<1> QED BY <1>3, <1>4 DEF WalkIsWhole, FeedInv, GotInv, all

(* Following the cursors of a table that grows gives strictly older rows at *)
(* each step and every trade there was when the walk began, nothing twice   *)
(* and nothing skipped, for every number of trades and every page size      *)
(* (queries/cursor.py:57-69).                                               *)
THEOREM WalkHolds == Spec => []WalkIsWhole
<1>1. Init => WorldInv /\ FeedInv
  BY WorldBegins, FeedBegins
<1>2. WorldInv /\ FeedInv /\ [Next]_vars => (WorldInv /\ FeedInv)'
  BY WorldStays, FeedKept
<1>3. WorldInv /\ FeedInv => WalkIsWhole
  BY WalkFollows
<1> QED BY <1>1, <1>2, <1>3, PTL DEF Spec

-----------------------------------------------------------------------------
(* The minute chart.                                                        *)

LEMMA ChartBegins == Init => ChartInv
<1> SUFFICES ASSUME Init PROVE ChartInv
  OBVIOUS
<1>1. since = 0 /\ prices = NoChart /\ points = NoChart
  BY DEF Init, NotAskedYet
<1>2. DOMAIN prices = {} /\ DOMAIN points = {}
  BY <1>1 DEF NoChart
<1> QED BY <1>1, <1>2 DEF ChartInv

\* The minute of a stored trade and whether it is in the window do not change.
LEMMA MinutesStay ==
  ASSUME WorldInv, Stores, since' = since
  PROVE  /\ \A i \in Pks : \A m : InMinute(i, m)' <=> InMinute(i, m)
         /\ \A i \in Pks : rows'[i].at = rows[i].at
         /\ \A i \in Pks, j \in Pks' : j <= i => j \in Pks
<1>1. \A i \in Pks : rows'[i].at = rows[i].at
  BY RowsStay
<1>2. \A i \in Pks : \A m : InMinute(i, m)' <=> InMinute(i, m)
  BY <1>1 DEF InMinute, MinuteOf
<1>3. \A i \in Pks, j \in Pks' : j <= i => j \in Pks
  <2>1. Pks = 1..Len(rows) /\ Len(rows) \in Nat
    BY RowsAre
  <2>2. Pks' \subseteq Nat \ {0}
    BY DEF Stores, WorldInv, Pks
  <2> QED BY <2>1, <2>2
<1> QED BY <1>1, <1>2, <1>3

LEMMA ChartStays ==
  ASSUME WorldInv, ChartInv, Stores, UNCHANGED <<conf, chart>>,
         pc' = pc \/ conf.asked # "intraday"
  PROVE  ChartInv'
<1>1. since' = since /\ prices' = prices /\ points' = points /\ conf' = conf
  BY DEF chart
<1>2. Pks \subseteq Pks'
  BY RowsStay
<1>3. ASSUME NEW m \in DOMAIN prices
      PROVE  PriceInv(m)'
  <2>1. PriceInv(m)
    BY DEF ChartInv
  <2>2. prices[m] \in Pks' /\ InMinute(prices[m], m)'
    BY <1>1, <1>2, <2>1, MinutesStay DEF PriceInv
  <2>3. ASSUME NEW i \in Pks', i <= prices[m], InMinute(i, m)'
        PROVE  rows'[i].at <= rows'[prices[m]].at
    <3>1. prices[m] \in Pks /\ i \in Pks
      BY <1>1, <2>1, <2>3, MinutesStay DEF PriceInv
    <3>2. InMinute(i, m)
      BY <1>1, <2>3, <3>1, MinutesStay
    <3> QED BY <1>1, <2>1, <2>3, <3>1, <3>2, MinutesStay DEF PriceInv
  <2> QED BY <1>1, <2>2, <2>3 DEF PriceInv
<1>4. ASSUME NEW m \in DOMAIN points
      PROVE  PointInv(m)'
  <2> DEFINE p == points[m]
  <2>1. /\ p.volume \subseteq Pks /\ p.price \in p.volume
        /\ \A i \in p.volume : InMinute(i, m)
        /\ \A i \in Pks : i <= p.price /\ InMinute(i, m)
                          => i \in p.volume /\ rows[i].at <= rows[p.price].at
    BY DEF ChartInv, PointInv
  <2>2. p.volume \subseteq Pks' /\ \A i \in p.volume : InMinute(i, m)'
    BY <1>1, <1>2, <2>1, MinutesStay
  <2>3. ASSUME NEW i \in Pks', i <= p.price, InMinute(i, m)'
        PROVE  i \in p.volume /\ rows'[i].at <= rows'[p.price].at
    <3>1. p.price \in Pks /\ i \in Pks
      BY <1>1, <2>1, <2>3, MinutesStay
    <3>2. InMinute(i, m)
      BY <1>1, <2>3, <3>1, MinutesStay
    <3> QED BY <1>1, <2>1, <2>3, <3>1, <3>2, MinutesStay
  <2>4. points'[m] = p
    BY <1>1
  <2> HIDE DEF p
  <2> QED BY <2>1, <2>2, <2>3, <2>4 DEF PointInv
<1> QED BY <1>1, <1>3, <1>4 DEF ChartInv

LEMMA ReadPricesKeeps ==
  ASSUME WorldInv, ChartInv, ReadPrices
  PROVE  ChartInv'
<1>1. /\ UNCHANGED <<conf, rows, since, points>>
      /\ conf.asked = "intraday" /\ pc = "prices" /\ pc' = "volumes"
      /\ prices' \in {f \in [Minutes -> Pks] : \A m \in Minutes : f[m] \in LastsOf(m)}
  BY DEF ReadPrices, world
<1>2. points = NoChart
  BY <1>1 DEF ChartInv
<1>3. ASSUME NEW m \in DOMAIN prices'
      PROVE  PriceInv(m)'
  <2>1. m \in Minutes /\ prices'[m] \in LastsOf(m)
    BY <1>1
  <2>2. /\ prices'[m] \in Pks /\ InMinute(prices'[m], m)
        /\ \A i \in Pks : InMinute(i, m) => rows[i].at <= rows[prices'[m]].at
    BY <2>1 DEF LastsOf, InWindow, InMinute
  <2> QED BY <1>1, <2>2 DEF PriceInv, Pks, InMinute, MinuteOf
<1>4. DOMAIN points' = {}
  BY <1>1, <1>2 DEF NoChart
<1> QED BY <1>1, <1>2, <1>3, <1>4 DEF ChartInv

LEMMA ReadVolumesKeeps ==
  ASSUME WorldInv, ChartInv, ReadVolumes
  PROVE  ChartInv'
<1>1. /\ UNCHANGED <<conf, rows, since, prices>>
      /\ conf.asked = "intraday" /\ pc = "volumes" /\ pc' = "done"
      /\ points' = [m \in DOMAIN prices |->
                      [price |-> prices[m], volume |-> {i \in InWindow : MinuteOf(i) = m}]]
  BY DEF ReadVolumes, world
<1>2. ASSUME NEW m \in DOMAIN prices
      PROVE  PriceInv(m)' /\ PointInv(m)'
  <2> DEFINE volume == {i \in InWindow : MinuteOf(i) = m}
  <2>1. volume = {i \in Pks : InMinute(i, m)}
    BY DEF InWindow, InMinute
  <2>2. PriceInv(m)
    BY DEF ChartInv
  <2>3. points'[m].price = prices[m] /\ points'[m].volume = volume
    BY <1>1
  <2>4. \A i : InMinute(i, m)' <=> InMinute(i, m)
    BY <1>1 DEF InMinute, MinuteOf
  <2>5. Pks' = Pks /\ rows' = rows /\ prices' = prices
    BY <1>1 DEF Pks
  <2> HIDE DEF volume
  <2>6. PointInv(m)'
    BY <2>1, <2>2, <2>3, <2>4, <2>5 DEF PointInv, PriceInv
  <2> QED BY <2>2, <2>4, <2>5, <2>6 DEF PriceInv
<1>3. DOMAIN points' = DOMAIN prices
  BY <1>1
<1> QED BY <1>1, <1>2, <1>3 DEF ChartInv

LEMMA ChartKept == WorldInv /\ ChartInv /\ [Next]_vars => ChartInv'
<1> SUFFICES ASSUME WorldInv, ChartInv, [Next]_vars PROVE ChartInv'
  OBVIOUS
<1>1. CASE Writers
  <2>1. Stores /\ UNCHANGED <<conf, chart, pc>>
    BY <1>1, WritersLeave DEF Stores
  <2> QED BY <2>1, ChartStays
<1>2. CASE Readers
  <2>0. UNCHANGED <<conf, rows>>
    BY <1>2, ReadersLeave DEF world
  <2>1. CASE ReadPrices \/ ReadVolumes
    BY <2>1, ReadPricesKeeps, ReadVolumesKeeps
  <2>2. CASE AskChart \/ FindCharted
    <3>1. /\ prices' = prices /\ points' = points /\ pc \in {"idle", "asset"}
          /\ conf.asked = "intraday" /\ since' \in {since, now - Window}
          /\ pc' \in {"asset", "prices", "idle"}
      BY <2>2 DEF AskChart, FindCharted, chart
    <3>2. prices = NoChart /\ points = NoChart
      BY <3>1 DEF ChartInv
    <3>3. DOMAIN prices' = {} /\ DOMAIN points' = {}
      BY <3>1, <3>2 DEF NoChart
    <3>4. since' \in Int
      BY <3>1, Settings DEF ChartInv, WorldInv
    <3> QED BY <2>0, <3>1, <3>2, <3>3, <3>4 DEF ChartInv
  <2>3. CASE ~ (AskChart \/ FindCharted \/ ReadPrices \/ ReadVolumes)
    <3>1. UNCHANGED chart /\ conf.asked # "intraday"
      BY <1>2, <2>3, AskedIs
         DEF Readers, AskPage, FindFeed, ReadPage,
             AskHistory, FindStored, ReadEarliest, ResolvePeriod, ReadHistory,
             Call, Resolve, FindStart, FetchCandles, Summarise, FetchWindow, FindMoves,
         Indicate, Tools
    <3> QED BY <2>0, <3>1, ChartStays DEF Stores
  <2> QED BY <2>1, <2>2, <2>3
<1>3. CASE UNCHANGED vars
  <2>1. UNCHANGED <<conf, rows, chart, pc>>
    BY <1>3 DEF vars, queries, world
  <2> QED BY <2>1, ChartStays DEF Stores
<1> QED BY <1>1, <1>2, <1>3, NextIs

(* A minute of the chart has the volume of the trade whose price it shows   *)
(* and of every trade of it stored no later, and only of trades of that     *)
(* minute and window, for every number of trades, window and clock          *)
(* (queries/crypto.py:127-163).                                             *)
THEOREM ChartHolds == Spec => []ChartIsWhole
<1>1. Init => WorldInv /\ ChartInv
  BY WorldBegins, ChartBegins
<1>2. WorldInv /\ ChartInv /\ [Next]_vars => (WorldInv /\ ChartInv)'
  BY WorldStays, ChartKept
<1>3. ChartInv => ChartIsWhole
  BY DEF ChartInv, ChartIsWhole, PointInv, InMinute
<1> QED BY <1>1, <1>2, <1>3, PTL DEF Spec

-----------------------------------------------------------------------------
(* The history of a period.                                                 *)

LEMMA LeastExists ==
  ASSUME NEW S \in SUBSET Nat, S # {}
  PROVE  \E d \in S : \A e \in S : d <= e
<1> DEFINE Less == OpToRel(<, Nat)
<1>1. PICK d \in S : \A e \in S : ~ (<<e, d>> \in Less)
  <2> HIDE DEF Less
  <2> QED BY NatLessThanWellFounded, WFMin DEF Less
<1>2. \A e \in S : ~ (e < d)
  BY <1>1 DEF OpToRel
<1> QED BY <1>2

LEMMA OldestIs ==
  ASSUME NEW S \in SUBSET Nat, S # {}
  PROVE  OldestOf(S) \in S /\ \A e \in S : OldestOf(S) <= e
BY LeastExists DEF OldestOf

LEMMA DaysAre ==
  ASSUME WorldInv, NEW S \in SUBSET days
  PROVE  days \in SUBSET Nat /\ IsFiniteSet(days) /\ IsFiniteSet(S) /\ S \in SUBSET Nat
<1>1. days \in SUBSET (0..(today + 1)) /\ today + 1 \in Int
  BY DEF WorldInv
<1>2. IsFiniteSet(0..(today + 1))
  BY <1>1, FS_Interval
<1>3. IsFiniteSet(days)
  BY <1>1, <1>2, FS_Subset
<1>4. IsFiniteSet(S)
  BY <1>3, FS_Subset
<1>5. days \in SUBSET Nat
  BY <1>1
<1> QED BY <1>3, <1>4, <1>5

LEMMA AskingBegins == Init => AskingInv
<1> SUFFICES ASSUME Init PROVE AskingInv
  OBVIOUS
<1>1. asking = [days |-> {}, today |-> 0, period |-> [from |-> None, to |-> None]]
  BY DEF Init, NotAskedYet, NoAsking, NoPeriod
<1>2. today \in Nat
  BY WorldBegins DEF WorldInv
<1>3. asking \in [days : SUBSET Nat, today : Nat, period : Dates]
  BY <1>1 DEF Dates, Given
<1> QED BY <1>1, <1>2, <1>3 DEF AskingInv

LEMMA AskingKept == WorldInv /\ AskingInv /\ [Next]_vars => AskingInv'
<1> SUFFICES ASSUME WorldInv, AskingInv, [Next]_vars PROVE AskingInv'
  OBVIOUS
<1>0. /\ asking \in [days : SUBSET Nat, today : Nat, period : Dates]
      /\ asking.days \subseteq days /\ asking.today <= today /\ today \in Nat
      /\ asking.today \in Nat
  BY DEF AskingInv, WorldInv
<1>1. CASE Writers
  <2>1. days \subseteq days' /\ today <= today' /\ asking' = asking /\ today' \in Nat
    BY <1>1, WritersLeave DEF dates, WorldInv
  <2>2. asking.today <= today'
    BY <1>0, <2>1
  <2> QED BY <1>0, <2>1, <2>2 DEF AskingInv
<1>2. CASE Readers
  <2>0. days' = days /\ today' = today
    BY <1>2, ReadersLeave DEF world
  <2>1. CASE AskHistory \/ Call
    <3>1. /\ asking' = [days |-> days, today |-> today, period |-> period']
          /\ \/ period' \in [from : Days \union {None}, to : Days \union {None}]
             \/ period' \in [from : ToolDays \union {None}, to : ToolDays \union {None}]
      BY <2>1 DEF AskHistory, Call
    <3>2. Days \subseteq Nat /\ ToolDays \subseteq Nat
      BY DEF Days, ToolDays
    <3>3. period' \in Dates
      BY <3>1, <3>2 DEF Dates, Given
    <3>4. days \in SUBSET Nat
      BY DaysAre
    <3>5. asking'.days = days /\ asking'.today = today
      BY <3>1
    <3> QED BY <1>0, <2>0, <3>1, <3>3, <3>4, <3>5 DEF AskingInv
  <2>2. CASE ~ (AskHistory \/ Call)
    <3>1. asking' = asking
      BY <1>2, <2>2
         DEF Readers, dates, AskPage, FindFeed, ReadPage, AskChart, FindCharted, ReadPrices,
             ReadVolumes, FindStored, ReadEarliest, ResolvePeriod, ReadHistory,
             Resolve, FindStart, FetchCandles, Summarise, FetchWindow, FindMoves,
         Indicate, Tools
    <3> QED BY <1>0, <2>0, <3>1 DEF AskingInv
  <2> QED BY <2>1, <2>2
<1>3. CASE UNCHANGED vars
  <2>1. UNCHANGED <<days, today, asking>>
    BY <1>3 DEF vars, queries, world, dates
  <2> QED BY <1>0, <2>1 DEF AskingInv
<1> QED BY <1>1, <1>2, <1>3, NextIs

HistoryDone == HistoryInv /\ HistoryIsWhole

LEMMA HistoryBegins == Init => HistoryDone
<1> SUFFICES ASSUME Init PROVE HistoryDone
  OBVIOUS
<1>1. earliest = None /\ history = None /\ pc = "idle"
  BY DEF Init, NotAskedYet
<1> QED BY <1>1 DEF HistoryDone, HistoryInv, HistoryIsWhole, Given

\* Days that are stored and midnights that pass leave it as good as it was.
LEMMA HistoryStays ==
  ASSUME WorldInv, AskingInv, HistoryDone, today' \in Nat, today <= today',
         UNCHANGED <<conf, pc, dates>>
  PROVE  HistoryDone'
<1>1. /\ conf' = conf /\ pc' = pc /\ period' = period /\ earliest' = earliest
      /\ history' = history /\ asking' = asking /\ today \in Nat
  BY DEF dates, WorldInv
<1>2. PeriodServes => PeriodServes'
  <2> SUFFICES ASSUME PeriodServes PROVE PeriodServes'
    OBVIOUS
  <2>1. period.to \in Nat
    BY DEF PeriodServes
  <2>2. period.to <= today => period.to <= today'
    BY <1>1, <2>1
  <2> QED BY <1>1, <2>2 DEF PeriodServes
<1>3. EarliestServes => EarliestServes'
  BY <1>1 DEF EarliestServes
<1>4. HistoryInv'
  BY <1>1, <1>2, <1>3 DEF HistoryDone, HistoryInv, ToSet
<1>5. ASSUME history # None
      PROVE  HistoryIsWhole'
  <2>1. \A d \in ToSet(history) : d <= today => d <= today'
    BY <1>1, <1>5 DEF HistoryDone, HistoryInv
  <2> HIDE DEF HistoryDone
  <2>2. HistoryIsWhole
    BY DEF HistoryDone
  <2> QED BY <1>1, <1>5, <2>1, <2>2 DEF HistoryIsWhole, DefaultAndEnd, ToSet
<1> QED BY <1>1, <1>4, <1>5 DEF HistoryDone, HistoryIsWhole

LEMMA ReadEarliestKeeps ==
  ASSUME WorldInv, AskingInv, HistoryDone, ReadEarliest
  PROVE  HistoryDone'
<1>1. /\ UNCHANGED <<conf, days, today>> /\ conf.asked = "history"
      /\ pc = "earliest" /\ pc' = "period"
      /\ period' = period /\ history' = history /\ asking' = asking
      /\ earliest' = IF period.from # None \/ conf.default # None \/ days = {} THEN None
                     ELSE OldestOf(days)
  BY DEF ReadEarliest, world
<1>2. period = asking.period /\ history = None
  BY <1>1 DEF HistoryDone, HistoryInv
<1>3. asking.days \subseteq days /\ days \in SUBSET Nat
  BY DaysAre DEF AskingInv
<1>4. days # {} => OldestOf(days) \in days /\ \A e \in days : OldestOf(days) <= e
  BY <1>3, OldestIs
<1>5. earliest' \in Given
  BY <1>1, <1>3, <1>4 DEF Given
<1>6. EarliestServes'
  BY <1>1, <1>2, <1>3, <1>4, <1>5, Settings DEF EarliestServes, Given
<1> QED BY <1>1, <1>2, <1>5, <1>6 DEF HistoryDone, HistoryInv, HistoryIsWhole

LEMMA ResolvedServes ==
  ASSUME WorldInv, AskingInv, HistoryDone, ResolvePeriod
  PROVE  PeriodServes'
<1> DEFINE p == asking.period
           to == IF p.to # None THEN p.to ELSE today
           default == conf.default
<1>1. /\ UNCHANGED <<conf, days, today, asking>> /\ conf.asked = "history" /\ pc = "period"
      /\ period' = Resolved(period, earliest, today, conf.default)
  BY DEF ResolvePeriod, world
<1>2. period = p /\ EarliestServes /\ earliest \in Given
  BY <1>1 DEF HistoryDone, HistoryInv
<1>3. /\ p \in Dates /\ asking.today \in Nat /\ asking.today <= today /\ today \in Nat
      /\ default \in Given /\ asking.days \subseteq Nat
  BY DEF AskingInv, WorldInv
<1>4. /\ p.from \in Given /\ p.to \in Given /\ to \in Nat
      /\ (p.to # None => to = p.to)
      /\ (p.to = None => asking.today <= to /\ to <= today)
  BY <1>3 DEF Dates, Given
<1> HIDE DEF to
<1>5. period' = [from |-> IF p.from # None THEN p.from
                          ELSE IF default # None THEN to - default
                          ELSE IF earliest # None THEN earliest ELSE to,
                 to   |-> to]
  BY <1>1, <1>2 DEF Resolved, to
<1>6. /\ period'.to = to /\ (p.from # None => period'.from = p.from)
      /\ (p.from = None /\ default # None => period'.from = to - default)
      /\ (p.from = None /\ default = None =>
             period'.from = IF earliest # None THEN earliest ELSE to)
  BY <1>5
<1>7. p.from = None /\ default = None =>
        period'.from \in Nat /\ \A d \in asking.days : period'.from <= d
  BY <1>2, <1>4, <1>6 DEF EarliestServes, Given
<1>8. period'.from \in Int
  BY <1>3, <1>4, <1>6, <1>7 DEF Given
<1>9. period' \in [from : Int, to : Nat]
  BY <1>4, <1>5, <1>6, <1>8
<1> QED BY <1>1, <1>4, <1>6, <1>7, <1>9 DEF PeriodServes

LEMMA ResolvePeriodKeeps ==
  ASSUME WorldInv, AskingInv, HistoryDone, ResolvePeriod
  PROVE  HistoryDone'
<1>1. /\ UNCHANGED <<conf, days, today, asking, history, earliest>> /\ conf.asked = "history"
      /\ pc = "period" /\ pc' \in {"done", "read"}
  BY DEF ResolvePeriod, world
<1>2. history = None /\ earliest \in Given
  BY <1>1 DEF HistoryDone, HistoryInv
<1>3. PeriodServes'
  BY ResolvedServes
<1> QED BY <1>1, <1>2, <1>3 DEF HistoryDone, HistoryInv, HistoryIsWhole

LEMMA ReadHistoryKeeps ==
  ASSUME WorldInv, AskingInv, HistoryDone, ReadHistory
  PROVE  HistoryDone'
<1> DEFINE p == asking.period
           S == {d \in days : period.from <= d /\ d <= period.to}
           n == Cardinality(S)
           given == ToSet(history')
           last  == IF p.to # None THEN p.to ELSE asking.today
           first == IF p.from # None THEN p.from
                    ELSE IF conf.default # None THEN period.to - conf.default ELSE 0
<1>1. /\ UNCHANGED <<conf, days, today, asking, period, earliest>> /\ conf.asked = "history"
      /\ pc = "read" /\ pc' = "done" /\ history' = Sorted(S)
  BY DEF ReadHistory, world
<1>2. /\ PeriodServes /\ earliest \in Given
  BY <1>1 DEF HistoryDone, HistoryInv
<1>3. S \in SUBSET Nat /\ IsFiniteSet(S) /\ S \in SUBSET Int
  <2>1. S \in SUBSET days
    OBVIOUS
  <2> HIDE DEF S
  <2> QED BY <2>1, DaysAre
<1>4. /\ n \in Nat /\ history' \in [1..n -> S]
      /\ \A x \in S : \E k \in 1..n : history'[k] = x
      /\ \A k, l \in 1..n : k < l => history'[k] < history'[l]
  <2> HIDE DEF S
  <2> QED BY <1>1, <1>3, SortedIs
<1>5. given = S
  <2>1. given = {history'[k] : k \in 1..n}
    BY <1>4 DEF ToSet
  <2> HIDE DEF S, given
  <2> QED BY <1>4, <2>1
<1>6. Len(history') = n
  <2> HIDE DEF S, n
  <2> QED BY <1>4, ListIs
<1>7. \A k \in 1..(Len(history') - 1) : history'[k] < history'[k + 1]
  <2> HIDE DEF S, n
  <2>1. \A k \in 1..(n - 1) : k \in 1..n /\ k + 1 \in 1..n /\ k < k + 1
    BY <1>4
  <2> QED BY <1>4, <1>6, <2>1
<1>8. {d \in asking.days : first <= d /\ d <= last} \subseteq S
  <2> SUFFICES ASSUME NEW d \in asking.days, first <= d, d <= last
               PROVE  d \in days /\ period.from <= d /\ d <= period.to
    OBVIOUS
  <2>1. d \in days /\ d \in Nat /\ asking.today \in Nat
    BY DaysAre DEF AskingInv
  <2>2. period.from \in Int /\ period.to \in Nat
    BY <1>2 DEF PeriodServes
  <2>3. period.from <= d
    BY <1>2, <2>1, <2>2 DEF PeriodServes
  <2>4. d <= period.to
    BY <1>2, <2>1, <2>2 DEF PeriodServes
  <2> QED BY <2>1, <2>3, <2>4
<1>9. \A d \in S : first <= d /\ d <= (IF p.to # None THEN p.to ELSE today)
  <2> SUFFICES ASSUME NEW d \in days, period.from <= d, d <= period.to
               PROVE  first <= d /\ d <= (IF p.to # None THEN p.to ELSE today)
    OBVIOUS
  <2>1. d \in Nat /\ today \in Nat
    BY DaysAre DEF WorldInv
  <2>2. period.from \in Int /\ period.to \in Nat
    BY <1>2 DEF PeriodServes
  <2>3. first <= d
    BY <1>2, <2>1, <2>2 DEF PeriodServes
  <2>4. d <= (IF p.to # None THEN p.to ELSE today)
    BY <1>2, <2>1, <2>2 DEF PeriodServes
  <2> QED BY <2>3, <2>4
<1> HIDE DEF S, n
<1>10. HistoryIsWhole'
  BY <1>1, <1>5, <1>7, <1>8, <1>9 DEF HistoryIsWhole
<1>11. HistoryInv'
  BY <1>1, <1>2, <1>3, <1>5 DEF HistoryInv
<1> QED BY <1>10, <1>11 DEF HistoryDone

LEMMA HistoryKept == WorldInv /\ AskingInv /\ HistoryDone /\ [Next]_vars => HistoryDone'
<1> SUFFICES ASSUME WorldInv, AskingInv, HistoryDone, [Next]_vars PROVE HistoryDone'
  OBVIOUS
<1>1. CASE Writers
  BY <1>1, WritersLeave, HistoryStays DEF WorldInv
<1>2. CASE Readers
  <2>0. UNCHANGED <<conf, days, today>>
    BY <1>2, ReadersLeave DEF world
  <2>1. CASE ReadEarliest \/ ResolvePeriod \/ ReadHistory
    BY <2>1, ReadEarliestKeeps, ResolvePeriodKeeps, ReadHistoryKeeps
  <2>2. CASE AskHistory \/ FindStored
    <3>1. /\ conf.asked = "history" /\ pc \in {"idle", "asset"}
          /\ earliest' = earliest /\ history' = history
          /\ pc' \in {"idle", "asset", "earliest"}
          /\ (period' = asking'.period \/ (pc = "asset" /\ UNCHANGED <<period, asking>>))
      BY <2>2 DEF AskHistory, FindStored, dates
    <3>2. history = None /\ earliest \in Given /\ (pc = "asset" => period = asking.period)
      BY <3>1 DEF HistoryDone, HistoryInv
    <3> QED BY <2>0, <3>1, <3>2 DEF HistoryDone, HistoryInv, HistoryIsWhole
  <2>3. CASE ~ (AskHistory \/ FindStored \/ ReadEarliest \/ ResolvePeriod \/ ReadHistory)
    <3>1. conf.asked # "history" /\ earliest' = earliest /\ history' = history
      BY <1>2, <2>3, AskedIs
         DEF Readers, dates, AskPage, FindFeed, ReadPage,
             AskChart, FindCharted, ReadPrices, ReadVolumes,
             Call, Resolve, FindStart, FetchCandles, Summarise, FetchWindow, FindMoves,
         Indicate, Tools
    <3>2. history = None /\ earliest \in Given
      BY <3>1 DEF HistoryDone, HistoryInv
    <3> QED BY <2>0, <3>1, <3>2 DEF HistoryDone, HistoryInv, HistoryIsWhole
  <2> QED BY <2>1, <2>2, <2>3
<1>3. CASE UNCHANGED vars
  <2>1. UNCHANGED <<today, conf, pc, dates>> /\ today \in Nat
    BY <1>3 DEF vars, queries, world, WorldInv
  <2> QED BY <2>1, HistoryStays
<1> QED BY <1>1, <1>2, <1>3, NextIs

(* An answered history has every day of the period that was stored when the *)
(* client asked, in rising order, and none outside it, for every default    *)
(* period and whatever is stored and however late it gets between its       *)
(* queries (queries/period.py:20-73).                                       *)
THEOREM HistoryHolds == Spec => []HistoryIsWhole
<1>1. Init => WorldInv /\ AskingInv /\ HistoryDone
  BY WorldBegins, AskingBegins, HistoryBegins
<1>2. WorldInv /\ AskingInv /\ HistoryDone /\ [Next]_vars
        => (WorldInv /\ AskingInv /\ HistoryDone)'
  BY WorldStays, AskingKept, HistoryKept
<1>3. HistoryDone => HistoryIsWhole
  BY DEF HistoryDone
<1> QED BY <1>1, <1>2, <1>3, PTL DEF Spec

-----------------------------------------------------------------------------
(* The tools of the chat.                                                   *)

\* The newest and the oldest of a finite set.
LEMMA ExtremesAre ==
  ASSUME NEW S \in SUBSET Int, IsFiniteSet(S), S # {}
  PROVE  /\ Max(S) \in S /\ \A e \in S : e <= Max(S)
         /\ Min(S) \in S /\ \A e \in S : Min(S) <= e
<1> DEFINE n == Cardinality(S)
           s == Sorted(S)
<1>1. /\ n \in Nat /\ n # 0 /\ s \in [1..n -> S]
      /\ \A x \in S : \E k \in 1..n : s[k] = x
      /\ \A k, l \in 1..n : k < l => s[k] < s[l]
  BY SortedIs, FS_EmptySet
<1> HIDE DEF n, s
<1>2. /\ s[1] \in S /\ s[n] \in S
      /\ \A k \in 1..n : s[k] \in Int /\ (1 < k => s[1] < s[k]) /\ (k < n => s[k] < s[n])
  <2>1. 1 \in 1..n /\ n \in 1..n
    BY <1>1
  <2>2. \A k \in 1..n : s[k] \in S
    BY <1>1
  <2> QED BY <1>1, <2>1, <2>2
<1>3. ASSUME NEW e \in S
      PROVE  s[1] <= e /\ e <= s[n]
  <2>1. PICK k \in 1..n : s[k] = e
    BY <1>1
  <2>2. s[1] \in Int /\ s[n] \in Int /\ e \in Int
    BY <1>1, <1>2
  <2>3. (k = 1 \/ 1 < k) /\ (k = n \/ k < n)
    BY <1>1
  <2> QED BY <1>2, <2>1, <2>2, <2>3
<1>4. \A e \in S : s[n] >= e /\ s[1] <= e
  BY <1>1, <1>2, <1>3
<1>5. Max(S) \in S /\ \A e \in S : Max(S) >= e
  BY <1>2, <1>4 DEF Max
<1>6. Min(S) \in S /\ \A e \in S : Min(S) <= e
  BY <1>2, <1>4 DEF Min
<1> QED BY <1>5, <1>6

LEMMA OfTwo ==
  ASSUME NEW a \in Int, NEW b \in Int
  PROVE  /\ Max({a, b}) \in Int /\ a <= Max({a, b}) /\ b <= Max({a, b})
         /\ Min({a, b}) \in Int /\ Min({a, b}) <= a /\ Min({a, b}) <= b
         /\ Max({a, b}) \in {a, b} /\ Min({a, b}) \in {a, b}
<1>1. IsFiniteSet({a, b}) /\ {a, b} \in SUBSET Int /\ {a, b} # {}
  <2>1. IsFiniteSet({a}) /\ {a, b} = {a} \union {b}
    BY FS_Singleton
  <2> QED BY <2>1, FS_AddElement
<1>2. /\ Max({a, b}) \in {a, b} /\ \A e \in {a, b} : e <= Max({a, b})
      /\ Min({a, b}) \in {a, b} /\ \A e \in {a, b} : Min({a, b}) <= e
  BY <1>1, ExtremesAre
<1> QED BY <1>2

\* The newest of a set of days, if there is one.
LEMMA NewestIs ==
  ASSUME WorldInv, NEW S \in SUBSET days
  PROVE  /\ S = {} => NewestOf(S) = None
         /\ S # {} => NewestOf(S) \in S /\ NewestOf(S) # None
         /\ \A e \in S : e <= NewestOf(S)
<1>1. IsFiniteSet(S) /\ S \in SUBSET Nat /\ S \in SUBSET Int
  BY DaysAre
<1>2. S # {} => Max(S) \in S /\ \A e \in S : e <= Max(S)
  BY <1>1, ExtremesAre
<1> QED BY <1>1, <1>2, Settings DEF NewestOf

\* Periods lie side by side, and a day is in the period of its key.
LEMMA PeriodsAre ==
  ASSUME granularity \in Nat \ {0}, NEW k \in Int
  PROVE  /\ FirstOf(k) \in Int /\ LastOf(k) \in Int
         /\ FirstOf(k) <= LastOf(k)
         /\ FirstOf(k + 1) = LastOf(k) + 1
BY DEF FirstOf, LastOf

LEMMA PeriodsRise ==
  ASSUME granularity \in Nat \ {0}, NEW k \in Int, NEW l \in Int, k < l
  PROVE  LastOf(k) < FirstOf(l)
<1>1. (k + 1) * granularity <= l * granularity
  <2>1. \A a, b, g \in Int : a <= b /\ g > 0 => a * g <= b * g
    OBVIOUS
  <2> QED BY <2>1
<1> QED BY <1>1 DEF FirstOf, LastOf

LEMMA KeyIs ==
  ASSUME granularity \in Nat \ {0}, NEW d \in Int
  PROVE  /\ KeyOf(d) \in Int
         /\ FirstOf(KeyOf(d)) <= d /\ d <= LastOf(KeyOf(d))
BY DEF KeyOf, FirstOf, LastOf

LEMMA InItsPeriod ==
  ASSUME granularity \in Nat \ {0}, NEW d \in Int, NEW k \in Int
  PROVE  /\ KeyOf(d) = k <=> (FirstOf(k) <= d /\ d <= LastOf(k))
         /\ KeyOf(d) < k <=> d < FirstOf(k)
<1>1. KeyOf(d) \in Int /\ FirstOf(KeyOf(d)) <= d /\ d <= LastOf(KeyOf(d))
  BY KeyIs
<1>2. /\ FirstOf(k) \in Int /\ LastOf(k) \in Int /\ FirstOf(k) <= LastOf(k)
      /\ FirstOf(KeyOf(d)) \in Int /\ LastOf(KeyOf(d)) \in Int
  BY <1>1, PeriodsAre
<1>3. KeyOf(d) < k => LastOf(KeyOf(d)) < FirstOf(k)
  BY <1>1, PeriodsRise
<1>4. k < KeyOf(d) => LastOf(k) < FirstOf(KeyOf(d))
  BY <1>1, PeriodsRise
<1>5. KeyOf(d) = k \/ KeyOf(d) < k \/ k < KeyOf(d)
  BY <1>1
<1> QED BY <1>1, <1>2, <1>3, <1>4, <1>5

\* What get_period_stats has when it begins to count.
Fetched ==
  /\ granularity \in Nat \ {0}
  /\ candles \in SUBSET days /\ candles \in SUBSET Nat /\ IsFiniteSet(candles) /\ candles # {}
  /\ Known \in SUBSET days /\ days \in SUBSET Nat
  /\ RangeFrom \in Nat /\ RangeTo \in Nat /\ asking.today \in Nat
  /\ start \in days
  /\ \A d \in candles : FetchFrom <= d /\ d <= RangeTo
  /\ \A d \in Known : FetchFrom <= d /\ d <= RangeTo => d \in candles

\* Of a period of the answer and the one before it nothing known is missing.
Counted(k) ==
  /\ k \in Int /\ FirstOf(k) \in Int /\ LastOf(k) \in Int /\ FetchFrom \in Int
  /\ FirstOf(k - 1) \in Int /\ LastOf(k - 1) \in Int
  /\ LastOf(k - 1) + 1 = FirstOf(k) /\ FirstOf(k) <= LastOf(k)
  /\ FetchFrom <= FirstOf(k - 1) /\ FetchFrom <= FirstOf(k)

LEMMA RangesAre ==
  ASSUME WorldInv, AskingInv, period \in Dates
  PROVE  /\ RangeTo \in Nat /\ asking.today \in Nat
         /\ start \in days => RangeFrom \in Nat
<1>1. period.from \in Given /\ period.to \in Given /\ asking.today \in Nat
  BY DEF Dates, AskingInv
<1>2. days \in SUBSET Nat
  BY DaysAre
<1> QED BY <1>1, <1>2 DEF Given, RangeTo, RangeFrom

LEMMA FetchedIs ==
  ASSUME WorldInv, AskingInv, StatsInv, pc = "before"
  PROVE  Fetched
<1>1. conf.asked = "stats"
  BY AskedIs
<1>2. /\ period \in Dates /\ start \in days
      /\ CandlesServe(FetchFrom) /\ \E d \in candles : d >= RangeFrom
  BY <1>1 DEF StatsInv
<1>3. candles \in SUBSET days /\ days \in SUBSET Nat /\ candles \in SUBSET Nat
      /\ IsFiniteSet(candles)
  BY <1>2, DaysAre DEF CandlesServe
<1>4. Known \in SUBSET days
  BY DEF AskingInv, Known
<1>5. RangeTo \in Nat /\ asking.today \in Nat /\ RangeFrom \in Nat
  BY <1>2, RangesAre
<1>6. \A d \in candles : FetchFrom <= d /\ d <= RangeTo
  BY <1>2 DEF CandlesServe
<1>7. \A d \in Known : FetchFrom <= d /\ d <= RangeTo => d \in candles
  BY <1>2 DEF CandlesServe, Wanted
<1> QED BY <1>2, <1>3, <1>4, <1>5, <1>6, <1>7 DEF Fetched, WorldInv

LEMMA CountedIs ==
  ASSUME Fetched, NEW k \in Int, k >= KeyOf(RangeFrom)
  PROVE  Counted(k)
<1>1. granularity \in Nat \ {0} /\ RangeFrom \in Nat
  BY DEF Fetched
<1> DEFINE r == KeyOf(RangeFrom)
<1>2. r \in Int /\ FetchFrom = FirstOf(r - 1)
  BY <1>1, KeyIs DEF FetchFrom
<1> HIDE DEF r
<1>3. k - 1 \in Int /\ r - 1 \in Int /\ (k - 1) + 1 = k
  BY <1>2
<1>4. /\ FirstOf(k) \in Int /\ LastOf(k) \in Int /\ FirstOf(k) <= LastOf(k)
      /\ FirstOf(r - 1) \in Int /\ LastOf(r - 1) \in Int /\ FirstOf(r - 1) <= LastOf(r - 1)
  BY <1>1, <1>3, PeriodsAre
<1>5. /\ FirstOf(k - 1) \in Int /\ LastOf(k - 1) \in Int /\ FirstOf(k - 1) <= LastOf(k - 1)
      /\ FirstOf((k - 1) + 1) = LastOf(k - 1) + 1
  BY <1>1, <1>3, PeriodsAre
<1>6. r - 1 = k - 1 \/ r - 1 < k - 1
  BY <1>2 DEF r
<1>7. r - 1 < k - 1 => LastOf(r - 1) < FirstOf(k - 1)
  BY <1>1, <1>3, PeriodsRise
<1>8. FetchFrom <= FirstOf(k - 1)
  BY <1>2, <1>4, <1>5, <1>6, <1>7
<1> QED BY <1>2, <1>3, <1>4, <1>5, <1>8 DEF Counted

LEMMA KeysAre ==
  ASSUME Fetched
  PROVE  /\ Keys \in SUBSET Int /\ IsFiniteSet(Keys)
         /\ \A k \in Keys : k >= KeyOf(RangeFrom) /\ InPeriod(candles, k) # {}
         /\ \A d \in candles : d >= RangeFrom => KeyOf(d) \in Keys
<1> DEFINE f == [d \in candles |-> KeyOf(d)]
           T == {KeyOf(d) : d \in candles}
<1>0. granularity \in Nat \ {0} /\ candles \in SUBSET Nat /\ IsFiniteSet(candles)
      /\ RangeFrom \in Nat
  BY DEF Fetched
<1>1. \A d \in candles : KeyOf(d) \in Int
  BY <1>0, KeyIs
<1>2. f \in Surjection(candles, T)
  <2> HIDE DEF KeyOf
  <2> QED BY DEF Surjection
<1>3. IsFiniteSet(T)
  <2> HIDE DEF f, T
  <2> QED BY <1>0, <1>2, FS_Surjection
<1>4. T \in SUBSET Int
  <2> HIDE DEF KeyOf
  <2> QED BY <1>1
<1>5. Keys \in SUBSET T
  BY DEF Keys
<1>6. IsFiniteSet(Keys) /\ Keys \in SUBSET Int
  <2> HIDE DEF T
  <2> QED BY <1>3, <1>4, <1>5, FS_Subset
<1>7. \A k \in Keys : k >= KeyOf(RangeFrom) /\ InPeriod(candles, k) # {}
  BY DEF Keys, InPeriod
<1>8. ASSUME NEW d \in candles, d >= RangeFrom
      PROVE  KeyOf(d) \in Keys
  <2> DEFINE r == KeyOf(RangeFrom)
  <2>1. r \in Int /\ KeyOf(d) \in Int /\ FirstOf(r) <= RangeFrom
    BY <1>0, <1>1, KeyIs
  <2>2. FirstOf(r) \in Int
    BY <1>0, <2>1, PeriodsAre
  <2>3. ~ (d < FirstOf(r))
    BY <1>0, <1>8, <2>1, <2>2
  <2>4. ~ (KeyOf(d) < r)
    <3> HIDE DEF r
    <3> QED BY <1>0, <2>1, <2>3, InItsPeriod
  <2> QED BY <2>1, <2>4 DEF Keys
<1> QED BY <1>6, <1>7, <1>8

\* The base of a period's return is the newest day stored before its first.
LEMMA BaseIs ==
  ASSUME WorldInv, Fetched, NEW k \in Int, Counted(k), InPeriod(candles, k) # {},
         NEW base, base = IF Older(candles, FirstOf(k)) = {}
                          THEN NewestOf(Older(days, OldestOf(candles)))
                          ELSE NewestOf(Older(candles, FirstOf(k)))
  PROVE  BaseIsNewest(base, Min(InPeriod(candles, k)))
<1> DEFINE own   == InPeriod(candles, k)
           m     == Min(own)
           older == Older(candles, FirstOf(k))
           o     == OldestOf(candles)
<1>0. /\ granularity \in Nat \ {0} /\ candles \in SUBSET days /\ candles \in SUBSET Nat
      /\ IsFiniteSet(candles) /\ candles # {} /\ days \in SUBSET Nat /\ Known \in SUBSET days
      /\ RangeTo \in Nat /\ FetchFrom \in Int /\ FirstOf(k) \in Int /\ LastOf(k) \in Int
      /\ \A d \in candles : FetchFrom <= d /\ d <= RangeTo
      /\ \A d \in Known : FetchFrom <= d /\ d <= RangeTo => d \in candles
  BY DEF Fetched, Counted
<1>1. \A d \in candles : d \in own <=> (FirstOf(k) <= d /\ d <= LastOf(k))
  BY <1>0, InItsPeriod DEF InPeriod
<1>2. own \in SUBSET candles /\ own \in SUBSET Int /\ IsFiniteSet(own)
  <2>1. own \in SUBSET candles
    BY DEF InPeriod
  <2> HIDE DEF own
  <2>2. IsFiniteSet(own)
    BY <1>0, <2>1, FS_Subset
  <2>3. own \in SUBSET Int
    BY <1>0, <2>1
  <2> QED BY <2>1, <2>2, <2>3
<1>3. m \in own /\ m \in Nat /\ \A e \in own : m <= e
  <2>1. own # {}
    OBVIOUS
  <2> HIDE DEF own
  <2>2. m \in own /\ \A e \in own : m <= e
    BY <1>2, <2>1, ExtremesAre
  <2> HIDE DEF m
  <2> QED BY <1>0, <1>2, <2>2
<1> HIDE DEF own, m
<1>4. m \in candles /\ FirstOf(k) <= m /\ m <= LastOf(k) /\ m <= RangeTo
  BY <1>0, <1>1, <1>2, <1>3
<1>5. \A e \in candles : e < m => e < FirstOf(k)
  <2> SUFFICES ASSUME NEW e \in candles, e < m, ~ (e < FirstOf(k)) PROVE FALSE
    OBVIOUS
  <2>1. e \in Nat /\ FirstOf(k) <= e /\ e <= LastOf(k)
    BY <1>0, <1>3, <1>4
  <2>2. m <= e
    BY <1>1, <1>3, <2>1
  <2> QED BY <1>3, <2>1, <2>2
<1>6. \A e \in Known : e < m => e \in candles \/ e < FetchFrom
  <2> SUFFICES ASSUME NEW e \in Known, e < m, ~ (e < FetchFrom) PROVE e \in candles
    OBVIOUS
  <2>1. e \in Nat
    BY <1>0
  <2>2. FetchFrom <= e /\ e <= RangeTo
    BY <1>0, <1>3, <1>4, <2>1
  <2> QED BY <1>0, <2>2
<1>7. CASE older # {}
  <2>1. base = NewestOf(older)
    BY <1>7
  <2>2. older \in SUBSET candles /\ older \in SUBSET days /\ \A e \in older : e < FirstOf(k)
    BY <1>0 DEF Older
  <2>3. base \in older /\ base # None /\ \A e \in older : e <= base
    BY <1>7, <2>1, <2>2, NewestIs
  <2>4. base \in days /\ base \in Nat /\ base < FirstOf(k) /\ FetchFrom <= base /\ base < m
    <3> HIDE DEF older
    <3>1. base \in candles /\ base \in days /\ base \in Nat
      BY <1>0, <2>2, <2>3
    <3>2. base < FirstOf(k) /\ FetchFrom <= base
      BY <1>0, <2>2, <2>3, <3>1
    <3>3. base < m
      BY <1>0, <1>3, <1>4, <3>1, <3>2
    <3> QED BY <3>1, <3>2, <3>3
  <2>5. \A e \in candles : e < FirstOf(k) => e \in older
    BY DEF Older
  <2> HIDE DEF older
  <2>6. ASSUME NEW e \in Known, e < m
        PROVE  e <= base
    <3>1. e \in Nat
      BY <1>0
    <3>2. CASE e \in candles
      BY <1>5, <2>3, <2>5, <2>6, <3>2
    <3>3. CASE e < FetchFrom
      BY <1>0, <2>4, <3>1, <3>3
    <3> QED BY <1>6, <2>6, <3>2, <3>3
  <2> QED BY <2>3, <2>4, <2>6 DEF BaseIsNewest, Older, m, own
<1>8. CASE older = {}
  <2>1. base = NewestOf(Older(days, o))
    BY <1>8
  <2>2. o \in candles /\ o \in Nat /\ \A e \in candles : o <= e
    BY <1>0, OldestIs
  <2> HIDE DEF o
  <2>3. ~ (o < m)
    <3> SUFFICES ASSUME o < m PROVE FALSE
      OBVIOUS
    <3>1. o \in older
      BY <1>5, <2>2 DEF Older
    <3> QED BY <1>8, <3>1
  <2>4. o = m
    BY <1>3, <1>4, <2>2, <2>3
  <2>5. Older(days, m) \in SUBSET days /\ \A e \in Older(days, m) : e < m
    BY DEF Older
  <2>6. /\ base # None => base \in Older(days, m)
        /\ \A e \in Older(days, m) : base # None /\ e <= base
    BY <2>1, <2>4, <2>5, NewestIs
  <2>7. \A e \in Known : e < m => e \in Older(days, m)
    BY <1>0 DEF Older
  <2>8. BaseIsNewest(base, m)
    BY <2>5, <2>6, <2>7 DEF BaseIsNewest, Older
  <2> QED BY <2>8 DEF m, own
<1> QED BY <1>7, <1>8

\* Its volume is compared with all days of the calendar period before.
LEMMA AgainstIs ==
  ASSUME WorldInv, Fetched, NEW k \in Int, Counted(k), InPeriod(candles, k) # {},
         InPeriod(Known, k - 1) # {},
         NEW against, against = IF Older(candles, FirstOf(k)) = {} THEN {}
                                ELSE InPeriod(candles, KeyOf(NewestOf(Older(candles, FirstOf(k)))))
  PROVE  /\ InPeriod(Known, k - 1) \subseteq against
         /\ InPeriod(against, k - 1) = against
<1> DEFINE older == Older(candles, FirstOf(k))
           known == InPeriod(Known, k - 1)
<1>0. /\ granularity \in Nat \ {0} /\ candles \in SUBSET days /\ candles \in SUBSET Nat
      /\ days \in SUBSET Nat /\ Known \in SUBSET days
      /\ RangeTo \in Nat /\ FetchFrom \in Int /\ FirstOf(k) \in Int /\ LastOf(k) \in Int
      /\ k - 1 \in Int /\ FirstOf(k - 1) \in Int /\ LastOf(k - 1) \in Int
      /\ LastOf(k - 1) + 1 = FirstOf(k) /\ FetchFrom <= FirstOf(k - 1)
      /\ \A d \in candles : FetchFrom <= d /\ d <= RangeTo
      /\ \A d \in Known : FetchFrom <= d /\ d <= RangeTo => d \in candles
  BY DEF Fetched, Counted
<1>1. PICK m \in candles : FirstOf(k) <= m
  <2>1. PICK m \in candles : KeyOf(m) = k
    BY DEF InPeriod
  <2> QED BY <1>0, <2>1, InItsPeriod
<1>2. FirstOf(k) <= RangeTo
  BY <1>0, <1>1
<1>3. \A d \in Nat : KeyOf(d) = k - 1 <=> (FirstOf(k - 1) <= d /\ d <= LastOf(k - 1))
  BY <1>0, InItsPeriod
<1>4. ASSUME NEW e \in known
      PROVE  e \in candles /\ KeyOf(e) = k - 1 /\ e \in older /\ e \in Nat
             /\ FirstOf(k - 1) <= e
  <2>1. e \in Known /\ e \in Nat /\ KeyOf(e) = k - 1
    BY <1>0 DEF InPeriod
  <2>2. FirstOf(k - 1) <= e /\ e <= LastOf(k - 1)
    BY <1>3, <2>1
  <2>3. FetchFrom <= e /\ e <= RangeTo /\ e < FirstOf(k)
    BY <1>0, <1>2, <2>1, <2>2
  <2> QED BY <1>0, <2>1, <2>2, <2>3 DEF Older
<1>5. PICK e \in known : TRUE
  OBVIOUS
<1>6. older \in SUBSET days /\ older \in SUBSET Nat /\ \A x \in older : x < FirstOf(k)
  BY <1>0 DEF Older
<1> DEFINE newest == NewestOf(older)
<1>7. newest \in older /\ e <= newest
  <2> HIDE DEF older, known
  <2> QED BY <1>4, <1>5, <1>6, NewestIs
<1> HIDE DEF newest
<1>8. newest \in Nat /\ FirstOf(k - 1) <= newest /\ newest <= LastOf(k - 1)
  <2>1. e \in Nat /\ FirstOf(k - 1) <= e
    BY <1>4, <1>5
  <2>2. newest \in Nat /\ newest < FirstOf(k)
    BY <1>6, <1>7
  <2> QED BY <1>0, <1>7, <2>1, <2>2
<1>9. KeyOf(newest) = k - 1
  BY <1>3, <1>8
<1>10. against = InPeriod(candles, k - 1)
  BY <1>4, <1>5, <1>9 DEF newest
<1>11. known \subseteq against
  BY <1>4, <1>10 DEF InPeriod
<1>12. InPeriod(against, k - 1) = against
  BY <1>10 DEF InPeriod
<1> QED BY <1>11, <1>12

LEMMA RowIsWhole ==
  ASSUME WorldInv, Fetched, \A d \in Known : start <= d, NEW k \in Keys
  PROVE  PeriodIsWhole(PeriodRow(k, NewestOf(Older(days, OldestOf(candles)))))
<1> DEFINE before == NewestOf(Older(days, OldestOf(candles)))
           row    == PeriodRow(k, before)
           older  == Older(candles, FirstOf(k))
           begin  == Max({RangeFrom, start})
           end    == Min({RangeTo, asking.today})
<1>1. k \in Int /\ k >= KeyOf(RangeFrom) /\ InPeriod(candles, k) # {}
  BY KeysAre
<1>2. Counted(k)
  BY <1>1, CountedIs
<1>3. /\ row.key = k /\ row.days = InPeriod(candles, k)
      /\ row.base = IF older = {} THEN before ELSE NewestOf(older)
      /\ row.against = IF older = {} THEN {} ELSE InPeriod(candles, KeyOf(NewestOf(older)))
      /\ row.partial = (FirstOf(k) < begin \/ LastOf(k) > end)
  BY DEF PeriodRow
<1> HIDE DEF row
<1>4. BaseIsNewest(row.base, Min(row.days))
  BY <1>1, <1>2, <1>3, BaseIs
<1>5. InPeriod(Known, k - 1) # {} =>
        /\ InPeriod(Known, k - 1) \subseteq row.against
        /\ InPeriod(row.against, k - 1) = row.against
  BY <1>1, <1>2, <1>3, AgainstIs
<1>6. ASSUME ~ row.partial
      PROVE  /\ InPeriod(Known, k) \subseteq row.days
             /\ RangeFrom <= FirstOf(k) /\ LastOf(k) <= end
             /\ \E d \in days : d <= FirstOf(k)
  <2>0. /\ RangeFrom \in Nat /\ start \in days /\ start \in Nat
        /\ RangeTo \in Nat /\ asking.today \in Nat
        /\ Known \in SUBSET Nat /\ granularity \in Nat \ {0}
        /\ FirstOf(k) \in Int /\ LastOf(k) \in Int /\ FetchFrom \in Int
        /\ FetchFrom <= FirstOf(k)
        /\ \A d \in Known : FetchFrom <= d /\ d <= RangeTo => d \in candles
    BY <1>2 DEF Fetched, Counted
  <2>1. /\ begin \in Int /\ RangeFrom <= begin /\ start <= begin
        /\ end \in Int /\ end <= RangeTo
    <3>1. RangeFrom \in Int /\ start \in Int /\ RangeTo \in Int /\ asking.today \in Int
      BY <2>0
    <3>2. begin \in Int /\ RangeFrom <= begin /\ start <= begin
      BY <3>1, OfTwo, Zenon
    <3>3. end \in Int /\ end <= RangeTo
      BY <3>1, OfTwo, Zenon
    <3> QED BY <3>2, <3>3
  <2> HIDE DEF begin, end
  <2>2. ~ (FirstOf(k) < begin) /\ ~ (LastOf(k) > end)
    BY <1>3, <1>6
  <2>3. /\ RangeFrom <= FirstOf(k) /\ LastOf(k) <= end /\ LastOf(k) <= RangeTo
        /\ start <= FirstOf(k)
    BY <2>0, <2>1, <2>2
  <2>4. ASSUME NEW e \in InPeriod(Known, k)
        PROVE  e \in row.days
    <3>1. e \in Known /\ e \in Nat /\ KeyOf(e) = k
      BY <2>0 DEF InPeriod
    <3>2. FirstOf(k) <= e /\ e <= LastOf(k)
      BY <1>1, <2>0, <3>1, InItsPeriod
    <3>3. FetchFrom <= e /\ e <= RangeTo
      BY <2>0, <2>3, <3>1, <3>2
    <3> QED BY <1>3, <2>0, <3>1, <3>3 DEF InPeriod
  <2> QED BY <2>0, <2>3, <2>4
<1>7. PeriodIsWhole(row)
  <2> HIDE DEF before, older, begin
  <2> QED BY <1>1, <1>3, <1>4, <1>5, <1>6 DEF PeriodIsWhole
<1> QED BY <1>7 DEF row

StatsHold == StatsInv /\ StatsAreWhole

\* Days that are stored leave an answer as good as it was.
LEMMA StatsStay ==
  ASSUME StatsHold, days \subseteq days', UNCHANGED <<conf, pc, dates, tool>>
  PROVE  StatsHold'
<1>1. /\ conf' = conf /\ pc' = pc /\ period' = period /\ asking' = asking
      /\ granularity' = granularity /\ start' = start /\ candles' = candles /\ answer' = answer
  BY DEF dates, tool
<1>2. Known' = Known /\ RangeTo' = RangeTo /\ RangeFrom' = RangeFrom
  BY <1>1 DEF Known, RangeTo, RangeFrom
<1>3. FetchFrom' = FetchFrom /\ Wanted(FetchFrom)' = Wanted(FetchFrom)
  BY <1>1, <1>2 DEF FetchFrom, FirstOf, KeyOf, Wanted
<1>4. CandlesServe(FetchFrom) => CandlesServe(FetchFrom)'
  BY <1>1, <1>2, <1>3 DEF CandlesServe, Wanted
<1>5. StatsInv'
  BY <1>1, <1>2, <1>4 DEF StatsHold, StatsInv
<1>6. ASSUME NEW row, PeriodIsWhole(row)
      PROVE  PeriodIsWhole(row)'
  <2>1. BaseIsNewest(row.base, Min(row.days)) => BaseIsNewest(row.base, Min(row.days))'
    BY <1>2 DEF BaseIsNewest, Older
  <2>2. /\ \A S, k : InPeriod(S, k)' = InPeriod(S, k)
        /\ \A k : FirstOf(k)' = FirstOf(k) /\ LastOf(k)' = LastOf(k)
    BY <1>1 DEF InPeriod, FirstOf, LastOf, KeyOf
  <2> QED BY <1>1, <1>2, <1>6, <2>1, <2>2 DEF PeriodIsWhole
<1>7. StatsAreWhole'
  BY <1>1, <1>2, <1>6 DEF StatsHold, StatsAreWhole
<1> QED BY <1>5, <1>7 DEF StatsHold

LEMMA SummariseKeeps ==
  ASSUME WorldInv, AskingInv, StatsHold, Summarise
  PROVE  StatsHold'
<1> DEFINE before == NewestOf(Older(days, OldestOf(candles)))
           keys   == Sorted(Keys)
           n      == Cardinality(Keys)
           all    == [i \in DOMAIN keys |-> PeriodRow(keys[i], before)]
           first  == Max({1, Len(all) - MaxShown + 1})
           shown  == SubSeq(all, first, Len(all))
<1>1. /\ UNCHANGED <<conf, days, dates, granularity, start, candles>>
      /\ pc = "before" /\ pc' = "done"
      /\ answer' = [rows |-> shown, truncated |-> Len(all) > MaxShown]
  BY DEF Summarise, world
<1>2. conf.asked = "stats" /\ period \in Dates /\ start \in days /\ \A d \in Known : start <= d
  BY <1>1, AskedIs DEF StatsHold, StatsInv
<1>3. Fetched
  BY <1>1, FetchedIs DEF StatsHold
<1>4. /\ Keys \in SUBSET Int /\ n \in Nat /\ keys \in [1..n -> Keys]
      /\ \A x \in Keys : \E k \in 1..n : keys[k] = x
      /\ \A k, l \in 1..n : k < l => keys[k] < keys[l]
  BY <1>3, KeysAre, SortedIs
<1> HIDE DEF keys, n
<1>5. \A i \in 1..n : keys[i] \in Keys /\ all[i] = PeriodRow(keys[i], before)
  BY <1>4
<1>6. Len(all) = n
  <2> DEFINE T == {all[i] : i \in 1..n}
  <2>1. all \in [1..n -> T]
    <3>1. DOMAIN keys = 1..n
      BY <1>4
    <3> HIDE DEF before
    <3> QED BY <3>1
  <2> HIDE DEF all, T
  <2> QED BY <1>4, <2>1, ListIs
<1>7. \A i \in 1..n : PeriodIsWhole(all[i]) /\ all[i].key = keys[i]
                      /\ all[i].days = InPeriod(candles, keys[i])
  <2> TAKE i \in 1..n
  <2>1. PeriodIsWhole(all[i])
    BY <1>2, <1>3, <1>5, RowIsWhole
  <2>2. all[i].key = keys[i] /\ all[i].days = InPeriod(candles, keys[i])
    <3>1. /\ PeriodRow(keys[i], before).key = keys[i]
          /\ PeriodRow(keys[i], before).days = InPeriod(candles, keys[i])
      BY DEF PeriodRow
    <3> HIDE DEF all, before
    <3> QED BY <1>5, <3>1
  <2> QED BY <2>1, <2>2
<1> HIDE DEF all, before
<1>8. first \in Int /\ 1 <= first /\ (n <= MaxShown => first = 1)
  <2>1. 1 \in Int /\ n - MaxShown + 1 \in Int
    BY <1>4, Settings
  <2>2. 1 <= first /\ first \in {1, n - MaxShown + 1} /\ n - MaxShown + 1 <= first
    BY <1>6, <2>1, OfTwo, Zenon
  <2> HIDE DEF first
  <2> QED BY <1>4, <2>1, <2>2, Settings
<1> HIDE DEF first
<1>9. /\ DOMAIN shown = 1..Len(shown)
      /\ Len(shown) = IF first <= n THEN n - first + 1 ELSE 0
      /\ \A i \in 1..(n - first + 1) : shown[i] = all[first + i - 1]
  <2> DEFINE T == {all[i] : i \in 1..n}
  <2>1. \A i \in first..n : all[i] \in T
    BY <1>4, <1>8
  <2> HIDE DEF T
  <2>2. /\ shown \in Seq(T)
        /\ Len(shown) = IF first <= n THEN n - first + 1 ELSE 0
        /\ \A i \in 1..(n - first + 1) : shown[i] = all[first + i - 1]
    BY <1>4, <1>6, <1>8, <2>1, SubSeqProperties
  <2> HIDE DEF shown
  <2> QED BY <2>2
<1> HIDE DEF shown
<1>10. \A i \in DOMAIN shown : first + i - 1 \in 1..n /\ shown[i] = all[first + i - 1]
  BY <1>4, <1>8, <1>9
<1>11. \A i \in DOMAIN shown : PeriodIsWhole(shown[i])
  BY <1>7, <1>10
<1>12. \A i \in DOMAIN shown, j \in DOMAIN shown : i < j => shown[i].key < shown[j].key
  <2> SUFFICES ASSUME NEW i \in DOMAIN shown, NEW j \in DOMAIN shown, i < j
               PROVE  shown[i].key < shown[j].key
    OBVIOUS
  <2>1. /\ first + i - 1 \in 1..n /\ first + j - 1 \in 1..n
        /\ first + i - 1 < first + j - 1
    BY <1>8, <1>9, <1>10
  <2>2. shown[i].key = keys[first + i - 1] /\ shown[j].key = keys[first + j - 1]
    BY <1>7, <1>10, <2>1
  <2> QED BY <1>4, <2>1, <2>2
<1>13. ASSUME n <= MaxShown, NEW d \in Known, RangeFrom <= d, d <= RangeTo
       PROVE  d \in UNION {shown[i].days : i \in DOMAIN shown}
  <2>1. /\ granularity \in Nat \ {0} /\ RangeFrom \in Nat /\ d \in Nat
        /\ \A e \in Known : FetchFrom <= e /\ e <= RangeTo => e \in candles
    BY <1>3 DEF Fetched
  <2> DEFINE r == KeyOf(RangeFrom)
  <2>2. r \in Int /\ FirstOf(r) <= RangeFrom
    BY <2>1, KeyIs
  <2>3. FetchFrom <= FirstOf(r) /\ FetchFrom \in Int /\ FirstOf(r) \in Int
    BY <1>3, <2>2, CountedIs DEF Counted
  <2> HIDE DEF r
  <2>4. FetchFrom <= d
    BY <1>13, <2>1, <2>2, <2>3
  <2>5. d \in candles
    BY <1>13, <2>1, <2>4
  <2>6. KeyOf(d) \in Keys
    BY <1>3, <1>13, <2>5, KeysAre
  <2>7. PICK i \in 1..n : keys[i] = KeyOf(d)
    BY <1>4, <2>6
  <2>8. d \in all[i].days
    BY <1>7, <2>5, <2>7 DEF InPeriod
  <2>9. i \in DOMAIN shown /\ shown[i] = all[i]
    BY <1>4, <1>8, <1>9, <1>13, <2>7
  <2> QED BY <2>8, <2>9
<1>14. /\ conf' = conf /\ period' = period /\ asking' = asking /\ days' = days
       /\ granularity' = granularity /\ start' = start /\ candles' = candles
       /\ Known' = Known /\ RangeTo' = RangeTo /\ RangeFrom' = RangeFrom
  BY <1>1 DEF dates, Known, RangeTo, RangeFrom
<1>15. \A row : PeriodIsWhole(row) => PeriodIsWhole(row)'
  BY <1>14 DEF PeriodIsWhole, BaseIsNewest, Older, InPeriod, FirstOf, LastOf, KeyOf
<1>16. answer'.rows = shown /\ (~ answer'.truncated => n <= MaxShown)
  <2>1. answer'.rows = shown /\ answer'.truncated = (n > MaxShown)
    BY <1>1, <1>6
  <2>2. ~ (n > MaxShown) => n <= MaxShown
    BY <1>4, Settings
  <2> QED BY <2>1, <2>2, Zenon
<1>17. StatsAreWhole'
  BY <1>11, <1>12, <1>13, <1>14, <1>15, <1>16 DEF StatsAreWhole
<1>18. StatsInv'
  BY <1>1, <1>2, <1>14 DEF StatsInv
<1> QED BY <1>17, <1>18 DEF StatsHold

LEMMA StatsKept ==
  WorldInv /\ AskingInv /\ StatsHold /\ [Next]_vars => StatsHold'
<1> SUFFICES ASSUME WorldInv, AskingInv, StatsHold, [Next]_vars PROVE StatsHold'
  OBVIOUS
<1>1. CASE Writers
  BY <1>1, WritersLeave, StatsStay
<1>2. CASE UNCHANGED vars
  <2>1. days' = days /\ UNCHANGED <<conf, pc, dates, tool>>
    BY <1>2 DEF vars, queries, world
  <2> QED BY <2>1, StatsStay
<1>3. CASE Readers /\ conf.asked # "stats"
  <2>1. conf' = conf
    BY <1>3, ReadersLeave DEF world
  <2> QED BY <1>3, <2>1 DEF StatsHold, StatsInv, StatsAreWhole
<1>4. CASE Readers /\ conf.asked = "stats"
  <2>0. UNCHANGED <<conf, days>> /\ conf'.asked = "stats"
    BY <1>4, ReadersLeave DEF world
  <2>1. CASE Call
    <3>1. /\ period' \in [from : ToolDays \union {None}, to : ToolDays \union {None}]
          /\ pc = "idle" /\ pc' = "asset" /\ answer' = answer
      BY <2>1 DEF Call, tool
    <3>2. period' \in Dates
      <4>1. ToolDays \subseteq Nat
        BY DEF ToolDays
      <4> QED BY <3>1, <4>1 DEF Dates, Given
    <3>3. answer' = None
      BY <1>4, <3>1 DEF StatsHold, StatsInv
    <3> QED BY <2>0, <3>1, <3>2, <3>3 DEF StatsHold, StatsInv, StatsAreWhole
  <2>2. CASE Resolve
    <3>1. pc \in {"asset", "again"} /\ pc' \in {"again", "done", "start"}
          /\ period' = period /\ answer' = answer
      BY <1>4, <2>2 DEF Resolve, dates, tool
    <3>2. answer' = None /\ period' \in Dates
      BY <1>4, <3>1 DEF StatsHold, StatsInv
    <3> QED BY <2>0, <3>1, <3>2 DEF StatsHold, StatsInv, StatsAreWhole
  <2>3. CASE FindStart
    <3>1. /\ pc = "start" /\ period' = period /\ asking' = asking /\ answer' = answer
          /\ pc' = IF days = {} THEN "done" ELSE "candles"
          /\ start' = IF days = {} THEN None ELSE OldestOf(days)
      BY <2>3 DEF FindStart, dates
    <3>2. answer' = None /\ period' \in Dates
      BY <1>4, <3>1 DEF StatsHold, StatsInv
    <3>3. days \in SUBSET Nat /\ asking.days \subseteq days
      BY DaysAre DEF AskingInv
    <3>4. pc' \in {"candles", "before"} =>
            start' \in days /\ \A d \in asking.days : start' <= d
      BY <3>1, <3>3, OldestIs
    <3>5. pc' # "before"
      BY <3>1
    <3> QED BY <2>0, <3>1, <3>2, <3>4, <3>5 DEF StatsHold, StatsInv, StatsAreWhole, Known
  <2>4. CASE FetchCandles
    <3>1. /\ pc = "candles" /\ period' = period /\ asking' = asking /\ answer' = answer
          /\ start' = start /\ granularity' = granularity
          /\ candles' = {d \in days : FetchFrom <= d /\ d <= RangeTo}
          /\ pc' = IF \E d \in candles' : d >= RangeFrom THEN "before" ELSE "done"
      BY <2>4 DEF FetchCandles, dates
    <3>2. /\ answer' = None /\ period' \in Dates
          /\ start' \in days /\ \A d \in asking.days : start' <= d
      BY <1>4, <3>1 DEF StatsHold, StatsInv, Known
    <3>3. /\ FetchFrom' = FetchFrom /\ RangeTo' = RangeTo /\ RangeFrom' = RangeFrom
          /\ Known' = Known
      BY <3>1 DEF FetchFrom, FirstOf, KeyOf, RangeTo, RangeFrom, Known
    <3>4. Known \subseteq days
      BY DEF AskingInv, Known
    <3>5. /\ candles' \subseteq days
          /\ \A d \in Known : FetchFrom <= d /\ d <= RangeTo => d \in candles'
          /\ \A d \in candles' : FetchFrom <= d /\ d <= RangeTo
      BY <3>1, <3>4
    <3>6. CandlesServe(FetchFrom)'
      BY <2>0, <3>3, <3>5 DEF CandlesServe, Wanted
    <3>7. pc' = "before" => \E d \in candles' : d >= RangeFrom'
      BY <3>1, <3>3
    <3>8. StatsInv'
      BY <2>0, <3>1, <3>2, <3>6, <3>7 DEF StatsInv, Known
    <3> QED BY <3>2, <3>8 DEF StatsHold, StatsAreWhole
  <2>5. CASE Summarise
    BY <2>5, SummariseKeeps
  <2>6. ~ (\/ AskPage \/ FindFeed \/ ReadPage
           \/ AskChart \/ FindCharted \/ ReadPrices \/ ReadVolumes
           \/ AskHistory \/ FindStored \/ ReadEarliest \/ ResolvePeriod \/ ReadHistory
           \/ FetchWindow \/ FindMoves \/ Indicate)
    BY <1>4, AskedIs
       DEF AskPage, FindFeed, ReadPage, AskChart, FindCharted, ReadPrices, ReadVolumes,
           AskHistory, FindStored, ReadEarliest, ResolvePeriod, ReadHistory,
           FetchWindow, FindMoves, Indicate
  <2> QED BY <1>4, <2>1, <2>2, <2>3, <2>4, <2>5, <2>6 DEF Readers
<1> QED BY <1>1, <1>2, <1>3, <1>4, NextIs

LEMMA StatsBegin == Init => StatsHold
<1> SUFFICES ASSUME Init PROVE StatsHold
  OBVIOUS
<1>1. answer = None /\ pc = "idle" /\ period = [from |-> None, to |-> None]
  BY DEF Init, NotAskedYet, NoPeriod
<1>2. period \in Dates
  BY <1>1 DEF Dates, Given
<1> QED BY <1>1, <1>2 DEF StatsHold, StatsInv, StatsAreWhole

\* The newest n of a set of days are n.
LEMMA NewestAre ==
  ASSUME NEW S \in SUBSET Int, IsFiniteSet(S), NEW n \in Nat, n <= Cardinality(S)
  PROVE  Cardinality({e \in S : Cardinality({f \in S : f > e}) < n}) = n
<1> DEFINE after == [e \in S |-> {f \in S : f > e}]
           p == Place(after, S)
           T == {e \in S : Cardinality({f \in S : f > e}) < n}
           q == [e \in T |-> p[e]]
           m == Cardinality(S)
<1>1. Orders(after, S)
  <2>1. \A x, y \in S : x # y => x < y \/ y < x
    OBVIOUS
  <2>2. ASSUME NEW x \in S, NEW y \in S, y < x
        PROVE  x \in after[y] /\ after[x] \subseteq after[y]
    <3>1. \A e \in S : e > x => e > y
      BY <2>2
    <3> QED BY <2>2, <3>1
  <2>3. after \in [S -> SUBSET S] /\ \A x \in S : x \notin after[x]
    OBVIOUS
  <2> HIDE DEF after
  <2> QED BY <2>1, <2>2, <2>3 DEF Orders
<1>2. m \in Nat /\ p \in Bijection(S, 0..(m - 1))
  <2> HIDE DEF after
  <2> QED BY <1>1, PlacesAreTaken
<1>3. \A e \in S : p[e] = Cardinality({f \in S : f > e})
  BY DEF Place
<1> HIDE DEF p, after, m
<1>4. /\ \A e \in S : p[e] \in 0..(m - 1)
      /\ \A k \in 0..(m - 1) : \E e \in S : p[e] = k
      /\ \A x, y \in S : p[x] = p[y] => x = y
  BY <1>2 DEF Bijection, Injection, Surjection, IsInjective
<1>5. \A e \in S : e \in T <=> p[e] < n
  BY <1>3
<1>6. T \in SUBSET S /\ IsFiniteSet(T)
  <2>1. T \in SUBSET S
    OBVIOUS
  <2> HIDE DEF T
  <2> QED BY <2>1, FS_Subset
<1> HIDE DEF T
<1>7. \A e \in T : q[e] = p[e] /\ q[e] \in 0..(n - 1)
  BY <1>2, <1>4, <1>5, <1>6
<1>8. q \in [T -> 0..(n - 1)] /\ q = [e \in T |-> q[e]]
  BY <1>7
<1>9. \A x, y \in T : q[x] = q[y] => x = y
  BY <1>4, <1>6, <1>7
<1>10. \A k \in 0..(n - 1) : \E e \in T : q[e] = k
  <2> TAKE k \in 0..(n - 1)
  <2>1. k \in 0..(m - 1) /\ k < n
    BY <1>2 DEF m
  <2>2. PICK e \in S : p[e] = k
    BY <1>4, <2>1
  <2> QED BY <1>5, <1>7, <2>1, <2>2
<1> HIDE DEF q
<1>11. q \in Bijection(T, 0..(n - 1))
  BY <1>8, <1>9, <1>10 DEF Bijection, Injection, Surjection, IsInjective
<1>12. Cardinality(0..(n - 1)) = Cardinality(T)
  BY <1>6, <1>11, FS_Bijection DEF ExistsBijection
<1>13. Cardinality(0..(n - 1)) = IF 0 > n - 1 THEN 0 ELSE (n - 1) - 0 + 1
  BY FS_Interval
<1>14. Cardinality(T) = n
  BY <1>12, <1>13
<1> QED BY <1>14 DEF T

\* The newest n of a set of days, if there are so many, are n and leave none
\* out.
LEMMA LastDaysAre ==
  ASSUME WorldInv, NEW S \in SUBSET days, NEW n \in Nat \ {0}
  PROVE  /\ LastDays(S, n) \in SUBSET S
         /\ Cardinality(S) >= n => LastDays(S, n) # {}
         /\ LastDays(S, n) # {} =>
              /\ Cardinality(LastDays(S, n)) = n
              /\ \A e \in S : e > Min(LastDays(S, n)) => e \in LastDays(S, n)
<1> DEFINE After(e) == {f \in S : f > e}
           P == {e \in S : Cardinality(S) >= n /\ Cardinality(After(e)) < n}
<1>0. LastDays(S, n) = P /\ P \in SUBSET S
  BY DEF LastDays
<1>1. S \in SUBSET days /\ S \in SUBSET Nat /\ S \in SUBSET Int /\ IsFiniteSet(S)
  BY DaysAre
<1>2. n \in Nat /\ n # 0
  OBVIOUS
<1>3. ASSUME Cardinality(S) >= n
      PROVE  Cardinality(P) = n /\ P # {}
  <2>1. P = {e \in S : Cardinality({f \in S : f > e}) < n}
    BY <1>3
  <2>2. n <= Cardinality(S)
    <3>1. Cardinality(S) \in Nat
      BY <1>1, FS_CardinalityType
    <3> QED BY <1>2, <1>3, <3>1
  <2>3. Cardinality({e \in S : Cardinality({f \in S : f > e}) < n}) = n
    BY <1>1, <1>2, <2>2, NewestAre
  <2> HIDE DEF P
  <2> QED BY <1>2, <2>1, <2>3, FS_EmptySet
<1>4. P # {} => Cardinality(S) >= n
  OBVIOUS
<1>5. ASSUME P # {}, NEW e \in S, e > Min(P)
      PROVE  e \in P
  <2> DEFINE m == Min(P)
  <2>1. P \in SUBSET S /\ P \in SUBSET Int /\ IsFiniteSet(P)
    <3>1. P \in SUBSET S
      OBVIOUS
    <3> HIDE DEF P
    <3>2. IsFiniteSet(P)
      BY <1>1, <3>1, FS_Subset
    <3>3. P \in SUBSET Int
      BY <1>1, <3>1
    <3> QED BY <3>1, <3>2, <3>3
  <2>2. m \in P
    <3> HIDE DEF P
    <3> QED BY <1>5, <2>1, ExtremesAre
  <2> HIDE DEF m
  <2>3. m \in S /\ Cardinality(S) >= n /\ Cardinality(After(m)) < n
        /\ m \in Nat /\ e \in Nat /\ e > m
    BY <1>1, <1>5, <2>1, <2>2 DEF m
  <2>4. After(e) \in SUBSET After(m) /\ After(m) \in SUBSET S
    <3>1. \A f \in S : f > e => f > m
      BY <1>1, <2>3
    <3> QED BY <3>1
  <2>5. Cardinality(After(e)) <= Cardinality(After(m))
        /\ Cardinality(After(e)) \in Nat /\ Cardinality(After(m)) \in Nat
    <3> HIDE DEF After
    <3>1. IsFiniteSet(After(m))
      BY <1>1, <2>4, FS_Subset
    <3>2. IsFiniteSet(After(e)) /\ Cardinality(After(e)) <= Cardinality(After(m))
      BY <2>4, <3>1, FS_Subset
    <3> QED BY <3>1, <3>2, FS_CardinalityType
  <2>6. Cardinality(After(e)) < n
    <3> HIDE DEF After
    <3> QED BY <1>2, <2>3, <2>5
  <2> QED BY <1>5, <2>3, <2>6
<1> HIDE DEF P
<1> QED BY <1>0, <1>3, <1>4, <1>5

\* The days a day's volume is compared with are the Lookback days before it,
\* or none if there are not so many.
LEMMA PreviousIs ==
  ASSUME WorldInv, candles \in SUBSET days, NEW day \in days
  PROVE  /\ Cardinality(Older(candles, day)) >= Lookback => Previous(day) # {}
         /\ Previous(day) # {} =>
              /\ Cardinality(Previous(day)) = Lookback
              /\ \A e \in Older(candles, day) : e > Min(Previous(day)) => e \in Previous(day)
<1>1. Older(candles, day) \in SUBSET days /\ Lookback \in Nat \ {0}
  BY Settings DEF Older
<1> QED BY <1>1, LastDaysAre DEF Previous

MovesHold == MovesInv /\ MovesAreWhole

\* What find_big_moves says of one day of its window.
DayIsWhole(row) ==
  LET reach == {d \in Known : d >= WindowFrom - ContextDays}
  IN  /\ WindowFrom <= row.day /\ row.day <= RangeTo
      /\ row.base \in days \union {None}
      /\ \A e \in Older(reach, row.day) : row.base # None /\ e <= row.base
      /\ Cardinality(Older(reach, row.day)) >= Lookback => row.against # {}
      /\ row.against # {} =>
            /\ Cardinality(row.against) = Lookback
            /\ {e \in Older(reach, row.day) : e > Min(row.against)} \subseteq row.against

LEMMA MoveIsWhole ==
  ASSUME WorldInv, AskingInv, period \in Dates, CandlesServe(WindowFrom - ContextDays),
         NEW d \in OfWindow
  PROVE  DayIsWhole(MoveRow(d)) /\ MoveRow(d).day = d
<1> DEFINE row   == MoveRow(d)
           first == WindowFrom - ContextDays
           reach == {e \in Known : e >= first}
           older == Older(candles, d)
           near  == Older(reach, d)
<1>0. /\ period.from \in Given /\ RangeTo \in Nat /\ DefaultDays \in Nat /\ ContextDays \in Nat
      /\ Lookback \in Nat
  BY RangesAre, Settings DEF Dates
<1>1. WindowFrom \in Int /\ first \in Int
  BY <1>0 DEF WindowFrom, Given
<1>2. /\ candles \in SUBSET days /\ days \in SUBSET Nat /\ Known \in SUBSET days
      /\ \A e \in candles : first <= e /\ e <= RangeTo
      /\ \A e \in Known : first <= e /\ e <= RangeTo => e \in candles
  <2>1. days \in SUBSET Nat
    BY DaysAre
  <2>2. Known \in SUBSET days
    BY DEF AskingInv, Known
  <2> QED BY <2>1, <2>2 DEF CandlesServe, Wanted
<1>3. d \in candles /\ d \in days /\ d \in Nat /\ WindowFrom <= d /\ d <= RangeTo
  BY <1>1, <1>2 DEF OfWindow
<1>4. row.day = d /\ row.base = NewestOf(older) /\ row.against = Previous(d)
  BY DEF MoveRow
<1> HIDE DEF row, first
<1>5. older \in SUBSET days /\ IsFiniteSet(older) /\ \A e \in older : e < d
  <2>1. older \in SUBSET days /\ \A e \in older : e < d
    BY <1>2 DEF Older
  <2> HIDE DEF older
  <2> QED BY <2>1, DaysAre
<1>6. near \in SUBSET older
  <2> SUFFICES ASSUME NEW e \in Known, e >= first, e < d PROVE e \in candles
    BY DEF Older
  <2>1. e \in Nat
    BY <1>2
  <2>2. first <= e /\ e <= RangeTo
    BY <1>0, <1>1, <1>3, <2>1
  <2> QED BY <1>2, <2>2
<1>7. Cardinality(near) \in Nat /\ Cardinality(older) \in Nat
      /\ Cardinality(near) <= Cardinality(older)
  <2> HIDE DEF near, older
  <2>1. IsFiniteSet(near) /\ Cardinality(near) <= Cardinality(older)
    BY <1>5, <1>6, FS_Subset
  <2> QED BY <1>5, <2>1, FS_CardinalityType
<1>8. /\ older = {} => row.base = None
      /\ older # {} => row.base \in older
      /\ \A e \in older : row.base # None /\ e <= row.base
  <2> HIDE DEF older
  <2> QED BY <1>4, <1>5, NewestIs
<1>9. /\ Cardinality(older) >= Lookback => row.against # {}
      /\ row.against # {} =>
           /\ Cardinality(row.against) = Lookback
           /\ \A e \in older : e > Min(row.against) => e \in row.against
  <2>1. /\ Cardinality(older) >= Lookback => Previous(d) # {}
        /\ Previous(d) # {} =>
             /\ Cardinality(Previous(d)) = Lookback
             /\ \A e \in older : e > Min(Previous(d)) => e \in Previous(d)
    BY <1>2, <1>3, PreviousIs
  <2> HIDE DEF older
  <2> QED BY <1>4, <2>1
<1> HIDE DEF older, near
<1>10. Cardinality(near) >= Lookback => Cardinality(older) >= Lookback
  BY <1>0, <1>7
<1>11. row.base \in days \union {None}
  BY <1>5, <1>8
<1>12. \A e \in near : row.base # None /\ e <= row.base
  BY <1>6, <1>8
<1>13. /\ Cardinality(near) >= Lookback => row.against # {}
       /\ row.against # {} =>
            /\ Cardinality(row.against) = Lookback
            /\ {e \in near : e > Min(row.against)} \subseteq row.against
  BY <1>6, <1>9, <1>10
<1>14. near = Older({e \in Known : e >= WindowFrom - ContextDays}, row.day)
  BY <1>4 DEF near, first
<1>15. DayIsWhole(row)
  BY <1>3, <1>4, <1>11, <1>12, <1>13, <1>14 DEF DayIsWhole
<1> QED BY <1>4, <1>15 DEF row

\* Days that are stored leave an answer as good as it was.
LEMMA MovesStay ==
  ASSUME MovesHold, days \subseteq days', UNCHANGED <<conf, pc, dates, tool>>
  PROVE  MovesHold'
<1>1. /\ conf' = conf /\ pc' = pc /\ period' = period /\ asking' = asking
      /\ candles' = candles /\ answer' = answer
  BY DEF dates, tool
<1>2. Known' = Known /\ RangeTo' = RangeTo /\ WindowFrom' = WindowFrom
  BY <1>1 DEF Known, RangeTo, WindowFrom
<1>3. CandlesServe(WindowFrom - ContextDays) => CandlesServe(WindowFrom - ContextDays)'
  BY <1>1, <1>2 DEF CandlesServe, Wanted
<1>4. MovesInv'
  BY <1>1, <1>3 DEF MovesHold, MovesInv
<1>5. MovesAreWhole'
  BY <1>1, <1>2 DEF MovesHold, MovesAreWhole, Older
<1> QED BY <1>4, <1>5 DEF MovesHold

LEMMA FindMovesKeeps ==
  ASSUME WorldInv, AskingInv, MovesHold, FindMoves
  PROVE  MovesHold'
<1>1. /\ UNCHANGED <<conf, days, period, asking, candles>> /\ pc = "moves" /\ pc' = "done"
  BY DEF FindMoves, world, dates
<1>2. PICK shown \in SUBSET Judged :
        answer'.rows = [i \in 1..Cardinality(shown) |-> MoveRow(Sorted(shown)[i])]
  BY DEF FindMoves
<1>3. conf.asked = "moves" /\ period \in Dates /\ CandlesServe(WindowFrom - ContextDays)
  BY <1>1, AskedIs DEF MovesHold, MovesInv
<1>4. shown \in SUBSET OfWindow /\ shown \in SUBSET days
  BY <1>3 DEF Judged, OfWindow, CandlesServe
<1> DEFINE n    == Cardinality(shown)
           keys == Sorted(shown)
           given == answer'.rows
<1>5. /\ n \in Nat /\ keys \in [1..n -> shown]
      /\ \A k, l \in 1..n : k < l => keys[k] < keys[l]
  <2>1. IsFiniteSet(shown) /\ shown \in SUBSET Int
    <3>1. IsFiniteSet(shown) /\ shown \in SUBSET Nat
      BY <1>4, DaysAre
    <3> QED BY <3>1
  <2> QED BY <2>1, SortedIs
<1> HIDE DEF n, keys
<1>6. DOMAIN given = 1..n /\ \A i \in 1..n : given[i] = MoveRow(keys[i])
  BY <1>2 DEF n, keys
<1> HIDE DEF given
<1>7. \A i \in 1..n : DayIsWhole(given[i]) /\ given[i].day = keys[i]
  <2> TAKE i \in 1..n
  <2>1. keys[i] \in OfWindow
    BY <1>4, <1>5
  <2>2. DayIsWhole(MoveRow(keys[i])) /\ MoveRow(keys[i]).day = keys[i]
    BY <1>3, <2>1, MoveIsWhole
  <2> QED BY <1>6, <2>2
<1>8. \A i \in 1..n : i > 1 => given[i - 1].day < given[i].day
  <2> SUFFICES ASSUME NEW i \in 1..n, i > 1 PROVE given[i - 1].day < given[i].day
    OBVIOUS
  <2>1. i - 1 \in 1..n /\ i - 1 < i
    BY <1>5
  <2> QED BY <1>5, <1>7, <2>1
<1>9. /\ Known' = Known /\ RangeTo' = RangeTo /\ WindowFrom' = WindowFrom
      /\ days' = days /\ conf' = conf /\ period' = period
  BY <1>1 DEF Known, RangeTo, WindowFrom
<1>10. \A row : DayIsWhole(row) => DayIsWhole(row)'
  BY <1>9 DEF DayIsWhole, Older
<1>11. MovesAreWhole'
  BY <1>6, <1>7, <1>8, <1>10 DEF MovesAreWhole, DayIsWhole, given
<1>12. MovesInv'
  BY <1>1, <1>3 DEF MovesInv
<1> QED BY <1>11, <1>12 DEF MovesHold

LEMMA MovesKept ==
  WorldInv /\ AskingInv /\ MovesHold /\ [Next]_vars => MovesHold'
<1> SUFFICES ASSUME WorldInv, AskingInv, MovesHold, [Next]_vars PROVE MovesHold'
  OBVIOUS
<1>1. CASE Writers
  BY <1>1, WritersLeave, MovesStay
<1>2. CASE UNCHANGED vars
  <2>1. days' = days /\ UNCHANGED <<conf, pc, dates, tool>>
    BY <1>2 DEF vars, queries, world
  <2> QED BY <2>1, MovesStay
<1>3. CASE Readers /\ conf.asked # "moves"
  <2>1. conf' = conf
    BY <1>3, ReadersLeave DEF world
  <2> QED BY <1>3, <2>1 DEF MovesHold, MovesInv, MovesAreWhole
<1>4. CASE Readers /\ conf.asked = "moves"
  <2>0. UNCHANGED <<conf, days>> /\ conf'.asked = "moves"
    BY <1>4, ReadersLeave DEF world
  <2>1. CASE Call
    <3>1. /\ period' \in [from : ToolDays \union {None}, to : ToolDays \union {None}]
          /\ pc = "idle" /\ pc' = "asset" /\ answer' = answer
      BY <2>1 DEF Call, tool
    <3>2. period' \in Dates
      <4>1. ToolDays \subseteq Nat
        BY DEF ToolDays
      <4> QED BY <3>1, <4>1 DEF Dates, Given
    <3>3. answer' = None
      BY <1>4, <3>1 DEF MovesHold, MovesInv
    <3> QED BY <2>0, <3>1, <3>2, <3>3 DEF MovesHold, MovesInv, MovesAreWhole
  <2>2. CASE Resolve
    <3>1. pc \in {"asset", "again"} /\ pc' \in {"again", "done", "candles"}
          /\ period' = period /\ answer' = answer
      BY <1>4, <2>2 DEF Resolve, dates, tool
    <3>2. answer' = None /\ period' \in Dates
      BY <1>4, <3>1 DEF MovesHold, MovesInv
    <3> QED BY <2>0, <3>1, <3>2 DEF MovesHold, MovesInv, MovesAreWhole
  <2>3. CASE FetchWindow
    <3> DEFINE first == WindowFrom - ContextDays
    <3>1. /\ pc = "candles" /\ pc' \in {"done", "moves"}
          /\ period' = period /\ asking' = asking /\ answer' = answer
          /\ candles' = {d \in days : first <= d /\ d <= RangeTo}
      BY <2>3 DEF FetchWindow, dates
    <3>2. answer' = None /\ period' \in Dates
      BY <1>4, <3>1 DEF MovesHold, MovesInv
    <3>3. first' = first /\ RangeTo' = RangeTo /\ Known' = Known
      BY <3>1 DEF WindowFrom, RangeTo, Known
    <3>4. Known \subseteq days
      BY DEF AskingInv, Known
    <3>5. /\ candles' \subseteq days
          /\ \A d \in Known : first <= d /\ d <= RangeTo => d \in candles'
          /\ \A d \in candles' : first <= d /\ d <= RangeTo
      BY <3>1, <3>4
    <3>6. CandlesServe(WindowFrom - ContextDays)'
      BY <2>0, <3>3, <3>5 DEF CandlesServe, Wanted
    <3> QED BY <2>0, <3>1, <3>2, <3>6 DEF MovesHold, MovesInv, MovesAreWhole
  <2>4. CASE FindMoves
    BY <2>4, FindMovesKeeps
  <2>5. ~ (\/ AskPage \/ FindFeed \/ ReadPage
           \/ AskChart \/ FindCharted \/ ReadPrices \/ ReadVolumes
           \/ AskHistory \/ FindStored \/ ReadEarliest \/ ResolvePeriod \/ ReadHistory
           \/ FindStart \/ FetchCandles \/ Summarise \/ Indicate)
    BY <1>4, AskedIs
       DEF AskPage, FindFeed, ReadPage, AskChart, FindCharted, ReadPrices, ReadVolumes,
           AskHistory, FindStored, ReadEarliest, ResolvePeriod, ReadHistory,
           FindStart, FetchCandles, Summarise, Indicate
  <2> QED BY <1>4, <2>1, <2>2, <2>3, <2>4, <2>5 DEF Readers
<1> QED BY <1>1, <1>2, <1>3, <1>4, NextIs

LEMMA MovesBegin == Init => MovesHold
<1> SUFFICES ASSUME Init PROVE MovesHold
  OBVIOUS
<1>1. answer = None /\ pc = "idle" /\ period = [from |-> None, to |-> None]
  BY DEF Init, NotAskedYet, NoPeriod
<1>2. period \in Dates
  BY <1>1 DEF Dates, Given
<1> QED BY <1>1, <1>2 DEF MovesHold, MovesInv, MovesAreWhole

IndicatorsHold == IndicatorsInv /\ IndicatorsAreWhole

LEMMA IndicateKeeps ==
  ASSUME WorldInv, AskingInv, Indicate
  PROVE  IndicatorsHold'
<1> DEFINE first == asking.today - IndicatorDays
           reach == {d \in Known : first <= d /\ d <= asking.today}
           S     == {d \in days : first <= d /\ d <= asking.today}
           A     == Indicators(S)
<1>1. /\ conf.asked = "indicators" /\ pc' = "done" /\ UNCHANGED <<conf, days, asking>>
      /\ answer' = IF S = {} THEN None ELSE A
  BY DEF Indicate, world, dates
<1>2. /\ asking.today \in Nat /\ first \in Int /\ days \in SUBSET Nat /\ Known \in SUBSET days
  <2>1. days \in SUBSET Nat
    BY DaysAre
  <2> QED BY <2>1, Settings DEF AskingInv, Known
<1>3. S \in SUBSET days /\ IsFiniteSet(S) /\ reach \in SUBSET S
      /\ \A d \in S : first <= d /\ d <= asking.today
      /\ \A e \in Known : first <= e /\ e <= asking.today => e \in reach
  <2>1. S \in SUBSET days /\ reach \in SUBSET S
    BY <1>2
  <2> HIDE DEF S
  <2>2. IsFiniteSet(S)
    BY <2>1, DaysAre
  <2> QED BY <2>1, <2>2 DEF S
<1>4. Cardinality(reach) \in Nat /\ Cardinality(S) \in Nat /\ Cardinality(reach) <= Cardinality(S)
  <2> HIDE DEF S, reach
  <2>1. IsFiniteSet(reach) /\ Cardinality(reach) <= Cardinality(S)
    BY <1>3, FS_Subset
  <2> QED BY <1>3, <2>1, FS_CardinalityType
<1>5. /\ A.asOf = NewestOf(S) /\ A.sma = [n \in Spans |-> LastDays(S, n)]
      /\ A.rsi = {d \in S : Cardinality(S) > RsiPeriod}
      /\ A.year = {d \in S : d > NewestOf(S) - RangeDays}
  BY DEF Indicators, Sma, Rsi, YearOf
<1> HIDE DEF S, A, reach, first
<1>6. S # {} => /\ A.asOf \in S /\ A.asOf \in Nat
                /\ \A d \in S : d <= A.asOf
  <2>1. /\ S # {} => NewestOf(S) \in S
        /\ \A d \in S : d <= NewestOf(S)
    BY <1>3, NewestIs
  <2> QED BY <1>2, <1>3, <1>5, <2>1
<1>7. ASSUME S # {}, NEW n \in Spans
      PROVE  /\ Cardinality(reach) >= n => A.sma[n] # {}
             /\ A.sma[n] # {} =>
                  /\ Cardinality(A.sma[n]) = n
                  /\ \A d \in A.sma[n] : d <= A.asOf
                  /\ {d \in reach : d > Min(A.sma[n])} \subseteq A.sma[n]
  <2>1. n \in Nat \ {0} /\ A.sma[n] = LastDays(S, n)
    BY <1>5, Settings
  <2>2. /\ A.sma[n] \in SUBSET S
        /\ Cardinality(S) >= n => A.sma[n] # {}
        /\ A.sma[n] # {} =>
             /\ Cardinality(A.sma[n]) = n
             /\ \A e \in S : e > Min(A.sma[n]) => e \in A.sma[n]
    BY <1>3, <2>1, LastDaysAre
  <2>3. Cardinality(reach) >= n => Cardinality(S) >= n
    BY <1>4, <2>1
  <2>4. \A d \in A.sma[n] : d <= A.asOf
    BY <1>6, <1>7, <2>2
  <2>5. A.sma[n] # {} => {d \in reach : d > Min(A.sma[n])} \subseteq A.sma[n]
    BY <1>3, <2>2
  <2> QED BY <2>2, <2>3, <2>4, <2>5
<1>8. Cardinality(reach) > RsiPeriod => reach \subseteq A.rsi
  BY <1>3, <1>4, <1>5, Settings
<1>9. S # {} => \A d \in A.year : A.asOf - RangeDays < d /\ d <= A.asOf
  BY <1>2, <1>3, <1>5, <1>6, Settings
<1>10. ASSUME S # {}, first <= A.asOf - RangeDays + 1,
              NEW d \in Known, A.asOf - RangeDays < d, d <= asking.today
       PROVE  d \in A.year
  <2>1. d \in Nat /\ first <= d
    BY <1>2, <1>6, <1>10, Settings
  <2>2. d \in S
    BY <1>3, <1>10, <2>1
  <2> QED BY <1>2, <1>5, <1>6, <1>10, <2>1, <2>2, Settings
<1>11. S # {} =>
         /\ A.asOf \in days /\ A.asOf <= asking.today
         /\ \A d \in reach : d <= A.asOf
  BY <1>3, <1>6
<1>12. answer' # None => S # {} /\ answer' = A
  BY <1>1
<1>13. Known' = Known /\ asking' = asking /\ days' = days
  BY <1>1 DEF Known
<1>14. IndicatorsAreWhole'
  <2> SUFFICES ASSUME answer' # None PROVE IndicatorsAreWhole'
    BY DEF IndicatorsAreWhole
  <2>1. S # {} /\ answer' = A
    BY <1>12
  <2>2. \A n \in Spans :
           /\ Cardinality(reach) >= n => A.sma[n] # {}
           /\ A.sma[n] # {} =>
                /\ Cardinality(A.sma[n]) = n
                /\ \A d \in A.sma[n] : d <= A.asOf
                /\ {d \in reach : d > Min(A.sma[n])} \subseteq A.sma[n]
    BY <1>7, <2>1
  <2>3. first <= A.asOf - RangeDays + 1 =>
          {d \in Known : A.asOf - RangeDays < d /\ d <= asking.today} \subseteq A.year
    BY <1>10, <2>1
  <2> QED BY <1>8, <1>9, <1>11, <1>13, <2>1, <2>2, <2>3 DEF IndicatorsAreWhole, reach, first
<1> QED BY <1>1, <1>14 DEF IndicatorsHold, IndicatorsInv

\* Days that are stored leave them as they are.
LEMMA IndicatorsStay ==
  ASSUME IndicatorsHold, days \subseteq days', UNCHANGED <<conf, pc, dates, tool>>
  PROVE  IndicatorsHold'
<1>1. conf' = conf /\ pc' = pc /\ asking' = asking /\ answer' = answer
  BY DEF dates, tool
<1>2. Known' = Known
  BY <1>1 DEF Known
<1> QED BY <1>1, <1>2 DEF IndicatorsHold, IndicatorsInv, IndicatorsAreWhole

LEMMA IndicatorsKept ==
  WorldInv /\ AskingInv /\ IndicatorsHold /\ [Next]_vars => IndicatorsHold'
<1> SUFFICES ASSUME WorldInv, AskingInv, IndicatorsHold, [Next]_vars PROVE IndicatorsHold'
  OBVIOUS
<1>1. CASE Writers
  BY <1>1, WritersLeave, IndicatorsStay
<1>2. CASE UNCHANGED vars
  <2>1. days' = days /\ UNCHANGED <<conf, pc, dates, tool>>
    BY <1>2 DEF vars, queries, world
  <2> QED BY <2>1, IndicatorsStay
<1>3. CASE Readers /\ conf.asked # "indicators"
  <2>1. conf' = conf
    BY <1>3, ReadersLeave DEF world
  <2> QED BY <1>3, <2>1 DEF IndicatorsHold, IndicatorsInv, IndicatorsAreWhole
<1>4. CASE Readers /\ conf.asked = "indicators"
  <2>1. CASE Call \/ Resolve
    <3>1. pc # "done" /\ answer' = answer
      BY <2>1 DEF Call, Resolve, tool
    <3>2. answer' = None
      BY <1>4, <3>1 DEF IndicatorsHold, IndicatorsInv
    <3> QED BY <3>2 DEF IndicatorsHold, IndicatorsInv, IndicatorsAreWhole
  <2>2. CASE Indicate
    BY <2>2, IndicateKeeps
  <2>3. ~ (\/ AskPage \/ FindFeed \/ ReadPage
           \/ AskChart \/ FindCharted \/ ReadPrices \/ ReadVolumes
           \/ AskHistory \/ FindStored \/ ReadEarliest \/ ResolvePeriod \/ ReadHistory
           \/ FindStart \/ FetchCandles \/ Summarise \/ FetchWindow \/ FindMoves)
    BY <1>4, AskedIs
       DEF AskPage, FindFeed, ReadPage, AskChart, FindCharted, ReadPrices, ReadVolumes,
           AskHistory, FindStored, ReadEarliest, ResolvePeriod, ReadHistory,
           FindStart, FetchCandles, Summarise, FetchWindow, FindMoves
  <2> QED BY <1>4, <2>1, <2>2, <2>3 DEF Readers
<1> QED BY <1>1, <1>2, <1>3, <1>4, NextIs

LEMMA IndicatorsBegin == Init => IndicatorsHold
<1> SUFFICES ASSUME Init PROVE IndicatorsHold
  OBVIOUS
<1>1. answer = None
  BY DEF Init
<1> QED BY <1>1 DEF IndicatorsHold, IndicatorsInv, IndicatorsAreWhole

(* What get_period_stats and find_big_moves say is taken from whole periods *)
(* and from the days next before, no day of the range is left out, and the  *)
(* indicators are of the newest days, for every length of a period, every   *)
(* range and lookback and every number of days stored between their queries *)
(* (tools/handlers.py:115-209, tools/stats/).                               *)
THEOREM ToolsHold == Spec => []ToolsAreWhole
<1>1. Init => WorldInv /\ AskingInv /\ StatsHold /\ MovesHold /\ IndicatorsHold
  BY WorldBegins, AskingBegins, StatsBegin, MovesBegin, IndicatorsBegin
<1>2. WorldInv /\ AskingInv /\ StatsHold /\ MovesHold /\ IndicatorsHold /\ [Next]_vars
        => (WorldInv /\ AskingInv /\ StatsHold /\ MovesHold /\ IndicatorsHold)'
  BY WorldStays, AskingKept, StatsKept, MovesKept, IndicatorsKept
<1>3. StatsHold /\ MovesHold /\ IndicatorsHold => ToolsAreWhole
  BY DEF StatsHold, MovesHold, IndicatorsHold, ToolsAreWhole
<1> QED BY <1>1, <1>2, <1>3, PTL DEF Spec
=============================================================================
