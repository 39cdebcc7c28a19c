----------------------------- MODULE ToolStats -----------------------------
(***************************************************************************)
(* The tools of the AI chat that read the daily history of an asset:       *)
(* get_period_stats (handlers.handle_period_stats) with three queries,     *)
(* find_big_moves (handle_big_moves) and get_indicators (handle_indicators)*)
(* with one each, beside the REST readers of TradeQueries and the same     *)
(* writers.  What they compute from is kept as sets of days: a return is   *)
(* the day whose close it is taken from, a change of volume the days it    *)
(* compares with, an average the days it is taken over.                    *)
(***************************************************************************)
EXTENDS TradeQueries

CONSTANTS
  ToolDay,        \* the day the chat run began on (ctx.today)
  Granularities,  \* lengths of a calendar period, in days
  MaxShown,       \* AI_TOOL_MAX_ROWS
  DefaultDays,    \* BIG_MOVES_DEFAULT_DAYS
  ContextDays,    \* BIG_MOVES_CONTEXT_DAYS
  Lookback,       \* VOLUME_LOOKBACK
  IndicatorDays,  \* INDICATORS_LOOKBACK_DAYS
  RangeDays,      \* RANGE_52W_DAYS
  Spans,          \* SMA_SHORT and SMA_LONG
  RsiPeriod       \* RSI_PERIOD

ASSUME ToolsAssumption ==
  /\ {ToolDay, DefaultDays, ContextDays, IndicatorDays, RsiPeriod} \subseteq Nat
  /\ Granularities \subseteq Nat \ {0} /\ Spans \subseteq Nat \ {0}
  /\ {MaxShown, Lookback, RangeDays} \subseteq Nat \ {0}

VARIABLES
  granularity,
  start,      \* history_start
  candles,    \* the days fetch_candles gave
  answer      \* None or what the tool says: rows, or the indicators

Tools == {"stats", "moves", "indicators"}

tool == <<granularity, start, candles, answer>>
vars == <<queries, tool>>

ToolDays == 0..(ToolDay + 1)

Init ==
  /\ NotAskedYet
  /\ \/ QueriesInit
     \/ /\ conf \in [asked : Tools, market : {"crypto"}, default : {None}]
        /\ days \in SUBSET (0..ToolDay) /\ today = ToolDay
  /\ granularity \in Granularities
  /\ conf.asked # "stats" => granularity = CHOOSE g \in Granularities : TRUE
  /\ start = None /\ candles = {} /\ answer = None

-----------------------------------------------------------------------------
(* What the handlers begin with.                                            *)

\* The model calls the tool; its `today` is that of make_tool_context.
Call ==
  /\ conf.asked \in Tools /\ pc = "idle"
  /\ pc' = "asset"
  /\ period' \in [from : ToolDays \union {None}, to : ToolDays \union {None}]
  /\ conf.asked = "indicators" => period' = NoPeriod
  /\ asking' = [days |-> days, today |-> today, period |-> period']
  /\ UNCHANGED <<world, feed, chart, earliest, history, tool>>

\* _check_range
UpsideDown == period.from # None /\ period.to # None /\ period.from > period.to

\* resolve_asset looks for the exact symbol, then for one equal but for its case.
Resolve ==
  /\ conf.asked \in Tools /\ pc \in {"asset", "again"}
  /\ pc' = IF ~asset.active THEN (IF pc = "asset" THEN "again" ELSE "done")
           ELSE IF UpsideDown THEN "done"
           ELSE IF conf.asked = "stats" THEN "start" ELSE "candles"
  /\ UNCHANGED <<world, feed, chart, dates, tool>>

RangeTo == IF period.to # None THEN period.to ELSE asking.today

-----------------------------------------------------------------------------
(* get_period_stats                                                         *)

\* Without a history the model gets an error to read.
FindStart ==
  /\ pc = "start"
  /\ start' = IF days = {} THEN None ELSE OldestOf(days)
  /\ pc' = IF days = {} THEN "done" ELSE "candles"
  /\ UNCHANGED <<world, feed, chart, dates, granularity, candles, answer>>

RangeFrom == IF period.from # None THEN period.from ELSE start

\* period_key and period_bounds
KeyOf(d)   == d \div granularity
FirstOf(k) == k * granularity
LastOf(k)  == FirstOf(k + 1) - 1

\* MUTANT: the period before the range is not fetched.
FromRange == RangeFrom

\* previous_period_start
FetchFrom == FirstOf(KeyOf(RangeFrom) - 1)

FetchCandles ==
  /\ conf.asked = "stats" /\ pc = "candles"
  /\ candles' = {d \in days : FetchFrom <= d /\ d <= RangeTo}
  /\ pc' = IF \E d \in candles' : d >= RangeFrom THEN "before" ELSE "done"
  /\ UNCHANGED <<world, feed, chart, dates, granularity, start, answer>>

InPeriod(S, k) == {d \in S : KeyOf(d) = k}
Older(S, d)    == {e \in S : e < d}
NewestOf(S)    == IF S = {} THEN None ELSE Max(S)

\* The first group of candles has no volume to compare with; its base is the
\* candle before, and without one the open of its own first day (None).
PeriodRow(k, before) ==
  LET older == Older(candles, FirstOf(k)) IN
  [key     |-> k,
   days    |-> InPeriod(candles, k),
   base    |-> IF older = {} THEN before ELSE NewestOf(older),
   against |-> IF older = {} THEN {} ELSE InPeriod(candles, KeyOf(NewestOf(older))),
   partial |-> FirstOf(k) < Max({RangeFrom, start}) \/ LastOf(k) > Min({RangeTo, asking.today})]

Keys == {k \in {KeyOf(d) : d \in candles} : k >= KeyOf(RangeFrom)}

\* fetch_candle_before, period_rows and truncate_latest
Summarise ==
  /\ pc = "before"
  /\ LET before == NewestOf(Older(days, OldestOf(candles)))
         keys   == Sorted(Keys)
         all    == [i \in DOMAIN keys |-> PeriodRow(keys[i], before)]
     IN  answer' = [rows      |-> SubSeq(all, Max({1, Len(all) - MaxShown + 1}), Len(all)),
                    truncated |-> Len(all) > MaxShown]
  /\ pc' = "done"
  /\ UNCHANGED <<world, feed, chart, dates, granularity, start, candles>>

-----------------------------------------------------------------------------
(* find_big_moves                                                           *)

WindowFrom == IF period.from # None THEN period.from ELSE RangeTo - DefaultDays
OfWindow   == {d \in candles : d >= WindowFrom}

\* The newest n of a set of days; none if there are not so many.
LastDays(S, n) == {e \in S : Cardinality(S) >= n /\ Cardinality({f \in S : f > e}) < n}

\* The days whose median a day's volume is compared with.
Previous(d) == LastDays(Older(candles, d), Lookback)

\* The standard deviation needs two returns.
HasSigma == Cardinality({d \in OfWindow : Older(candles, d) # {}}) >= 2

\* Days that may be found to move; which of them do is a matter of the prices.
Judged == {d \in OfWindow : (HasSigma /\ Older(candles, d) # {}) \/ Previous(d) # {}}

MoveRow(d) == [day |-> d, base |-> NewestOf(Older(candles, d)), against |-> Previous(d)]

FetchWindow ==
  /\ conf.asked = "moves" /\ pc = "candles"
  /\ candles' = {d \in days : WindowFrom - ContextDays <= d /\ d <= RangeTo}
  /\ pc' = IF candles' = {} THEN "done" ELSE "moves"
  /\ UNCHANGED <<world, feed, chart, dates, granularity, start, answer>>

\* big_moves and truncate_strongest: the strongest of them, in the order of their dates.
FindMoves ==
  /\ pc = "moves"
  /\ \E found \in SUBSET Judged, shown \in SUBSET Judged :
        /\ shown \subseteq found
        /\ Cardinality(shown) = Min({MaxShown, Cardinality(found)})
        /\ answer' = [rows      |-> [i \in 1..Cardinality(shown) |-> MoveRow(Sorted(shown)[i])],
                      truncated |-> Cardinality(found) > MaxShown]
  /\ pc' = "done"
  /\ UNCHANGED <<world, feed, chart, dates, granularity, start, candles>>

-----------------------------------------------------------------------------
(* get_indicators                                                           *)

\* sma
Sma(S) == [n \in Spans |-> LastDays(S, n)]

\* rsi smooths over all closes, of which there must be more than its period.
Rsi(S) == {d \in S : Cardinality(S) > RsiPeriod}

\* range_52w
YearOf(S) == {d \in S : d > NewestOf(S) - RangeDays}

Indicators(S) ==
  [asOf |-> NewestOf(S), sma |-> Sma(S), rsi |-> Rsi(S), year |-> YearOf(S)]

Indicate ==
  /\ conf.asked = "indicators" /\ pc = "candles"
  /\ candles' = {d \in days : asking.today - IndicatorDays <= d /\ d <= asking.today}
  /\ answer' = IF candles' = {} THEN None ELSE Indicators(candles')
  /\ pc' = "done"
  /\ UNCHANGED <<world, feed, chart, dates, granularity, start>>

-----------------------------------------------------------------------------
Next ==
  \/ QueriesNext /\ UNCHANGED tool
  \/ Call \/ Resolve
  \/ FindStart \/ FetchCandles \/ Summarise
  \/ FetchWindow \/ FindMoves
  \/ Indicate

Spec == Init /\ [][Next]_vars

-----------------------------------------------------------------------------
\* Stored before the tool was called, and so for certain in what it read.
Known == asking.days

BaseIsNewest(base, d) ==
  /\ base # None => base \in days /\ base < d
  /\ \A e \in Older(Known, d) : base # None /\ e <= base

PeriodIsWhole(row) ==
  LET known == InPeriod(Known, row.key - 1) IN
  /\ row.days # {} /\ BaseIsNewest(row.base, Min(row.days))
  /\ known # {} => known \subseteq row.against /\ InPeriod(row.against, row.key - 1) = row.against
  /\ ~row.partial =>
        /\ InPeriod(Known, row.key) \subseteq row.days
        /\ RangeFrom <= FirstOf(row.key) /\ LastOf(row.key) <= Min({RangeTo, asking.today})
        /\ \E d \in days : d <= FirstOf(row.key)

(* What get_period_stats says of a period is taken from whole periods, with *)
(* the backfill storing days between its queries: the return from the last  *)
(* close before the period, the change of volume from all days of the       *)
(* calendar period before, if that has any, and a row that is not flagged   *)
(* partial from all its own days, none of them outside the history, the     *)
(* range or today; and no day of the range is left out but for truncation   *)
(* (tools/handlers.py:115-155, tools/stats/periods.py:94-138).              *)
StatsAreWhole ==
  conf.asked = "stats" /\ answer # None =>
    /\ \A i \in DOMAIN answer.rows : PeriodIsWhole(answer.rows[i])
    /\ \A i \in DOMAIN answer.rows, j \in DOMAIN answer.rows :
          i < j => answer.rows[i].key < answer.rows[j].key
    /\ ~answer.truncated =>
          {d \in Known : RangeFrom <= d /\ d <= RangeTo}
             \subseteq UNION {answer.rows[i].days : i \in DOMAIN answer.rows}

(* A day found to move lies in the window, its move is taken from the       *)
(* newest day before it that the context reaches, its volume from exactly   *)
(* the Lookback days before it, and days come in their order, each once     *)
(* (tools/handlers.py:180-209, tools/stats/moves.py:19-55).                 *)
MovesAreWhole ==
  conf.asked = "moves" /\ answer # None =>
    \A i \in DOMAIN answer.rows :
      LET row   == answer.rows[i]
          reach == {d \in Known : d >= WindowFrom - ContextDays}
      IN  /\ WindowFrom <= row.day /\ row.day <= RangeTo
          /\ row.base \in days \union {None}
          /\ \A e \in Older(reach, row.day) : row.base # None /\ e <= row.base
          /\ Cardinality(Older(reach, row.day)) >= Lookback => row.against # {}
          /\ row.against # {} =>
                /\ Cardinality(row.against) = Lookback
                /\ {e \in Older(reach, row.day) : e > Min(row.against)} \subseteq row.against
          /\ i > 1 => answer.rows[i - 1].day < row.day

(* The indicators are those of the newest day, an average is over exactly   *)
(* its number of days, the newest ones, the RSI over all days the lookback  *)
(* reaches, and the range of a year over all days of that year: as long as  *)
(* the newest day is not so old that the year begins before the lookback    *)
(* does (tools/handlers.py:158-177, tools/stats/indicators.py:20-71).       *)
IndicatorsAreWhole ==
  conf.asked = "indicators" /\ answer # None =>
    LET first == asking.today - IndicatorDays
        reach == {d \in Known : first <= d /\ d <= asking.today}
    IN  /\ answer.asOf \in days /\ answer.asOf <= asking.today
        /\ \A d \in reach : d <= answer.asOf
        /\ \A n \in Spans :
              /\ Cardinality(reach) >= n => answer.sma[n] # {}
              /\ answer.sma[n] # {} =>
                    /\ Cardinality(answer.sma[n]) = n
                    /\ \A d \in answer.sma[n] : d <= answer.asOf
                    /\ {d \in reach : d > Min(answer.sma[n])} \subseteq answer.sma[n]
        /\ Cardinality(reach) > RsiPeriod => reach \subseteq answer.rsi
        /\ \A d \in answer.year : answer.asOf - RangeDays < d /\ d <= answer.asOf
        /\ first <= answer.asOf - RangeDays + 1 =>
              {d \in Known : answer.asOf - RangeDays < d /\ d <= asking.today} \subseteq answer.year

(* The three tools at once.                                                 *)
ToolsAreWhole == StatsAreWhole /\ MovesAreWhole /\ IndicatorsAreWhole

(* The readers and the tools: the types of all of them.                     *)
TypeOK ==
  /\ QueriesTypeOK
  /\ days \subseteq 0..(Max({LastDay, ToolDay}) + 1)
  /\ granularity \in Granularities
  /\ start \in days \union {None}
  /\ candles \subseteq days

=============================================================================
