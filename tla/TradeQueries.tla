---------------------------- MODULE TradeQueries ----------------------------
(***************************************************************************)
(* The REST readers of services/queries against tables that grow under     *)
(* them: the cursor pages of the trade feed, the minute chart of the last  *)
(* 24 hours and the history of a period.  Each request is a handful of     *)
(* queries, none of them in one transaction, so the writers (trade         *)
(* consumer, pollers, backfill) and the admin act between any two.         *)
(*                                                                         *)
(* A behaviour follows one client of one handler, chosen at the start.     *)
(* ToolStats adds the tools of the AI chat, which read the same history.   *)
(***************************************************************************)
EXTENDS Integers, Sequences, FiniteSets, SequencesExt

CONSTANTS
  MaxRows,     \* bound: trades stored
  MaxTime,     \* bound: the clock
  Minute,      \* ticks of the clock in a minute
  Window,      \* INTRADAY_WINDOW, in ticks
  Limits,      \* page sizes the client asks for (1..MAX_LIMIT)
  LastDay,     \* bound: the day the model ends on
  Defaults,    \* MARKET_DATA_HISTORY_DEFAULT_PERIOD_DAYS: numbers of days or None
  None,        \* a parameter that is not given, a page without a next one
  MaxEdits     \* bound: changes of the asset in the admin

ASSUME QueriesAssumption ==
  /\ {MaxRows, MaxTime, LastDay, MaxEdits, Window} \subseteq Nat
  /\ Minute \in Nat \ {0} /\ Limits \subseteq Nat \ {0}
  /\ Defaults \subseteq Nat \union {None}
  /\ None \notin Nat /\ None \notin [at : Nat, pk : Nat]

VARIABLES
  conf,      \* what the behaviour is about: [asked, market, default]
  rows,      \* the trade table; a row's pk is its index
  days,      \* the dates the history table has a row for
  now, today,
  asset,     \* [active, tracked]
  edits,
  pc,        \* where the request is
  page,      \* the request for a page: [limit, cursor]
  walk,      \* what following the cursors has given: [got, start]
  since,     \* window_start of a chart
  prices,    \* last_price_by_minute: minute -> pk
  points,    \* the answered chart: minute -> [price, volume], volume a set of pks
  period,    \* the client's dates, then the resolved ones: [from, to]
  earliest,  \* resolve_earliest_available's answer
  history,   \* the answered history
  asking     \* what the tables held when the request came: [days, today, period]

\* The handlers that read dated rows and not trades.
Dated  == conf.asked \notin {"trades", "intraday"}

tables == <<rows, days>>
world  == <<conf, rows, days, now, today, asset, edits>>
feed   == <<page, walk>>
chart  == <<since, prices, points>>
dates  == <<period, earliest, history, asking>>
queries == <<world, pc, feed, chart, dates>>

Pks     == DOMAIN rows
\* list_trades: only rows with a known trade_id and side; stock rows always have them.
Listed  == {i \in Pks : rows[i].listed}
Newer(i, j) == rows[i].at > rows[j].at \/ (rows[i].at = rows[j].at /\ i > j)

\* ORDER BY: the k-th of a result has k - 1 others before it.
InOrder(S, Before(_, _)) ==
  [k \in 1..Cardinality(S) |->
     CHOOSE d \in S : Cardinality({e \in S : Before(e, d)}) = k - 1]
Sorted(S) == InOrder(S, LAMBDA a, b : a < b)

MinuteOf(i) == rows[i].at \div Minute

NoPage    == [limit |-> 0, cursor |-> None]
NoWalk    == [got |-> <<>>, start |-> {}]
NoPeriod  == [from |-> None, to |-> None]
NoChart   == [m \in {} |-> 0]
NoAsking  == [days |-> {}, today |-> 0, period |-> NoPeriod]

QueriesInit ==
  /\ conf \in [asked : {"trades", "intraday", "history"}, market : {"crypto", "stock"},
               default : Defaults]
  /\ conf.asked # "history" => conf.default = None
  /\ conf.asked # "trades" => conf.market = "crypto"
  /\ days \in {{}, {0}} /\ today = 1
  /\ conf.asked # "history" => days = {}

NotAskedYet ==
  /\ rows = <<>> /\ now = 0
  /\ asset = [active |-> TRUE, tracked |-> TRUE] /\ edits = 0
  /\ pc = "idle"
  /\ page = NoPage /\ walk = NoWalk
  /\ since = 0 /\ prices = NoChart /\ points = NoChart
  /\ period = NoPeriod /\ earliest = None /\ history = None /\ asking = NoAsking

-----------------------------------------------------------------------------
(* The tables and the asset change at any moment.                           *)

\* A trade is stored: its timestamp is the exchange's and may lie before stored ones.
Insert ==
  /\ ~Dated /\ Len(rows) < MaxRows
  /\ \E at \in 0..now, listed \in BOOLEAN :
        /\ conf.market = "stock" => listed
        /\ rows' = Append(rows, [at |-> at, listed |-> listed])
  /\ UNCHANGED <<conf, days, now, today, asset, edits, pc, feed, chart, dates>>

\* A poller or the backfill stores a day; the Bank of Russia's rate of tomorrow too.
StoreDay ==
  /\ Dated
  /\ \E d \in (0..(today + 1)) \ days : days' = days \union {d}
  /\ UNCHANGED <<conf, rows, now, today, asset, edits, pc, feed, chart, dates>>

Tick ==
  /\ IF Dated THEN /\ today < LastDay
                   /\ today' = today + 1 /\ UNCHANGED now
              ELSE /\ now < MaxTime
                   /\ now' = now + 1 /\ UNCHANGED today
  /\ UNCHANGED <<conf, tables, asset, edits, pc, feed, chart, dates>>

Edit ==
  /\ edits < MaxEdits
  /\ edits' = edits + 1
  /\ \/ asset' = [asset EXCEPT !.active = ~@]
     \/ conf.market = "stock" /\ asset' = [asset EXCEPT !.tracked = ~@]
  /\ UNCHANGED <<conf, tables, now, today, pc, feed, chart, dates>>

-----------------------------------------------------------------------------
(* A page of the trade feed.                                                *)

\* The client asks for the first page, or for the page its cursor points at.
AskPage ==
  /\ conf.asked = "trades" /\ pc = "idle"
  /\ pc' = "asset"
  /\ \E l \in Limits : page' = [page EXCEPT !.limit = l]
  /\ walk' = IF page.cursor = None THEN [walk EXCEPT !.start = Listed] ELSE walk
  /\ UNCHANGED <<world, chart, dates>>

\* The asset must be active, a stock's trades must be collected; else the request is refused.
Served == asset.active /\ (conf.market = "stock" => asset.tracked)

FindFeed ==
  /\ conf.asked = "trades" /\ pc = "asset"
  /\ pc' = IF Served THEN "page" ELSE "idle"
  /\ UNCHANGED <<world, feed, chart, dates>>

\* decode_cursor gives back the point encode_cursor was given.
CursorAt(i) == [at |-> rows[i].at, pk |-> i]

\* Mutant: the cursor compares timestamps alone.
OnlyOlder(c) ==
  IF c = None THEN Listed ELSE {i \in Listed : rows[i].at < c.at}

Below(c) ==
  IF c = None THEN Listed
  ELSE {i \in Listed : rows[i].at < c.at \/ (rows[i].at = c.at /\ i < c.pk)}

\* limit + 1 rows are read; the extra one only tells that there is a next page.
ReadPage ==
  /\ conf.asked = "trades" /\ pc = "page"
  /\ LET found == InOrder(Below(page.cursor), Newer)
         more  == Len(found) > page.limit
         taken == IF more THEN SubSeq(found, 1, page.limit) ELSE found
     IN  /\ walk' = [walk EXCEPT !.got = @ \o taken]
         /\ page' = [page EXCEPT !.cursor = IF more THEN CursorAt(taken[Len(taken)]) ELSE None]
         /\ pc' = IF more THEN "idle" ELSE "done"
  /\ UNCHANGED <<world, chart, dates>>

-----------------------------------------------------------------------------
(* The minute chart: prices and volumes are two queries.                    *)

AskChart ==
  /\ conf.asked = "intraday" /\ pc = "idle"
  /\ pc' = "asset"
  /\ UNCHANGED <<world, feed, chart, dates>>

FindCharted ==
  /\ conf.asked = "intraday" /\ pc = "asset"
  /\ pc' = IF asset.active THEN "prices" ELSE "idle"
  /\ since' = now - Window
  /\ UNCHANGED <<world, feed, prices, points, dates>>

\* Mutant: each query computes its own window.
OwnWindow == {i \in Pks : rows[i].at >= now - Window}

InWindow == {i \in Pks : rows[i].at >= since}
Minutes  == {MinuteOf(i) : i \in InWindow}

\* DISTINCT ON (minute) by falling timestamp: of equal timestamps either may come first.
LastsOf(m) ==
  {i \in InWindow : MinuteOf(i) = m
      /\ \A j \in InWindow : MinuteOf(j) = m => rows[j].at <= rows[i].at}

ReadPrices ==
  /\ conf.asked = "intraday" /\ pc = "prices"
  /\ prices' \in {f \in [Minutes -> Pks] : \A m \in Minutes : f[m] \in LastsOf(m)}
  /\ pc' = "volumes"
  /\ UNCHANGED <<world, feed, since, points, dates>>

\* A minute without a volume would get Decimal(0); one without a price is left out.
ReadVolumes ==
  /\ conf.asked = "intraday" /\ pc = "volumes"
  /\ points' = [m \in DOMAIN prices |->
                  [price |-> prices[m], volume |-> {i \in InWindow : MinuteOf(i) = m}]]
  /\ pc' = "done"
  /\ UNCHANGED <<world, feed, since, prices, dates>>

-----------------------------------------------------------------------------
(* The history of a period.                                                 *)

Days == 0..LastDay

AskHistory ==
  /\ conf.asked = "history" /\ pc = "idle"
  /\ pc' = "asset"
  /\ period' \in [from : Days \union {None}, to : Days \union {None}]
  /\ asking' = [days |-> days, today |-> today, period |-> period']
  /\ UNCHANGED <<world, feed, chart, earliest, history>>

FindStored ==
  /\ conf.asked = "history" /\ pc = "asset"
  /\ pc' = IF asset.active THEN "earliest" ELSE "idle"
  /\ UNCHANGED <<world, feed, chart, dates>>

OldestOf(S) == CHOOSE d \in S : \A e \in S : d <= e

\* resolve_earliest_available asks only when resolve_period will use the answer.
ReadEarliest ==
  /\ conf.asked = "history" /\ pc = "earliest"
  /\ earliest' = IF period.from # None \/ conf.default # None \/ days = {} THEN None
                 ELSE OldestOf(days)
  /\ pc' = "period"
  /\ UNCHANGED <<world, feed, chart, period, history, asking>>

\* Mutant: the default period has one day less, counting its last one.
OneDayLess(p, oldest, day, default) ==
  LET to == IF p.to # None THEN p.to ELSE day
  IN  [from |-> IF p.from # None THEN p.from
                ELSE IF default # None THEN to - default + 1
                ELSE IF oldest # None THEN oldest ELSE to,
       to   |-> to]

Resolved(p, oldest, day, default) ==
  LET to == IF p.to # None THEN p.to ELSE day
  IN  [from |-> IF p.from # None THEN p.from
                ELSE IF default # None THEN to - default
                ELSE IF oldest # None THEN oldest ELSE to,
       to   |-> to]

\* InvalidPeriodError when the period is upside down: the request ends without an answer.
ResolvePeriod ==
  /\ conf.asked = "history" /\ pc = "period"
  /\ period' = Resolved(period, earliest, today, conf.default)
  /\ pc' = IF period'.from > period'.to THEN "done" ELSE "read"
  /\ UNCHANGED <<world, feed, chart, earliest, history, asking>>

ReadHistory ==
  /\ conf.asked = "history" /\ pc = "read"
  /\ history' = Sorted({d \in days : period.from <= d /\ d <= period.to})
  /\ pc' = "done"
  /\ UNCHANGED <<world, feed, chart, period, earliest, asking>>

QueriesNext ==
  \/ Insert \/ StoreDay \/ Tick \/ Edit
  \/ AskPage \/ FindFeed \/ ReadPage
  \/ AskChart \/ FindCharted \/ ReadPrices \/ ReadVolumes
  \/ AskHistory \/ FindStored \/ ReadEarliest \/ ResolvePeriod \/ ReadHistory

-----------------------------------------------------------------------------
(* Following the cursors of a table that grows, with trades that arrive     *)
(* late and with equal timestamps, gives strictly older rows at each step,  *)
(* and every trade the table had when the walk began once its place is      *)
(* passed: nothing twice, nothing skipped (queries/cursor.py:57-69).        *)
WalkIsWhole ==
  LET got == ToSet(walk.got) IN
  /\ got \subseteq Listed
  /\ \A k \in 1..(Len(walk.got) - 1) : Newer(walk.got[k], walk.got[k + 1])
  /\ \A i \in walk.start \ got :
        /\ conf.asked = "trades" => pc # "done"
        /\ got # {} => Newer(walk.got[Len(walk.got)], i)

(* A minute of the chart has the volume of the trade whose price it shows,  *)
(* and of every trade of that minute that is stored no later than it, and   *)
(* only of trades of that minute and of the window, although trades are     *)
(* stored and the clock goes on between the query of the prices and that of *)
(* the volumes (queries/crypto.py:127-163).                                 *)
ChartIsWhole ==
  \A m \in DOMAIN points :
    LET p == points[m] IN
    /\ p.price \in p.volume
    /\ \A i \in p.volume : MinuteOf(i) = m /\ rows[i].at >= since
    /\ \A i \in Pks : i <= p.price /\ MinuteOf(i) = m /\ rows[i].at >= since
                      => i \in p.volume /\ rows[i].at <= rows[p.price].at

(* The request leaves the start to the default and gives the end itself:     *)
(* docstring and code disagree on the period it gets.                       *)
DefaultAndEnd ==
  asking.period.from = None /\ conf.default # None /\ asking.period.to # None

(* An answered history has, in rising order, every day that was stored when *)
(* the client asked and that lies in the period it asked for, and no day    *)
(* outside it, whatever midnight and the backfill do between the query of   *)
(* the earliest day and that of the rows (queries/period.py:20-73). A start *)
(* that is the default's is today's, at some moment of the request, minus   *)
(* so many days; the request that gives an end as well is left out here.    *)
HistoryIsWhole ==
  history # None /\ ~DefaultAndEnd =>
    LET p     == asking.period
        given == ToSet(history)
        last  == IF p.to # None THEN p.to ELSE asking.today
        first == IF p.from # None THEN p.from
                 ELSE IF conf.default # None THEN period.to - conf.default ELSE 0
    IN  /\ {d \in asking.days : first <= d /\ d <= last} \subseteq given
        /\ \A d \in given : first <= d /\ d <= (IF p.to # None THEN p.to ELSE today)
        /\ \A k \in 1..(Len(history) - 1) : history[k] < history[k + 1]

(* What the docstring of resolve_period says: with a default of N days and  *)
(* no `from`, an answered history starts N days before the day it is asked  *)
(* on (queries/period.py:28-30). The code counts from the end it was given. *)
DefaultCountsFromToday ==
  history # None /\ asking.period.from = None /\ conf.default # None =>
    \E day \in asking.today..today :
      \A d \in ToSet(history) : day - conf.default <= d

QueriesTypeOK ==
  /\ rows \in Seq([at : 0..MaxTime, listed : BOOLEAN])
  /\ page.limit \in Limits \union {0}
  /\ ToSet(walk.got) \subseteq Pks
  /\ pc \in {"idle", "asset", "page", "prices", "volumes", "earliest", "period", "read", "done",
            "again", "start", "candles", "before", "moves"}

=============================================================================
