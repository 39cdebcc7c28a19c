------------------------------ MODULE LivePage ------------------------------
(***************************************************************************)
(* The crypto page: one EventSource of live trades for the symbol shown,   *)
(* the REST queries it is merged with, the tape and the chart.  Events of  *)
(* a source are tasks of the browser's loop, run one at a time, also after *)
(* the page has closed that source; React runs the effects of a render     *)
(* some time after it; an answer of the server is read before it arrives.  *)
(*                                                                         *)
(* The queries of a symbol (trades, intraday) are one request here: both   *)
(* are sent and invalidated together.  The hub's session is the one of     *)
(* StreamHub: it gets the last SessionTopN trades of what the hub reads at *)
(* once; there is one hub, that of the API's one process.                  *)
(***************************************************************************)
EXTENDS Integers, Sequences, FiniteSets, SequencesExt, FiniteSetsExt

CONSTANTS
  Symbols,     \* the active pairs the page may show
  First,       \* the one it shows first
  None,        \* no source, no answer yet
  SessionTopN, \* MARKET_DATA_SSE_TOP_N
  Buffer,      \* bufferSize of useTradeStream
  RestLimit,   \* rows of the REST feed
  Minutes,     \* the minutes trades are of
  MaxTrades,   \* bound: trades published
  MaxTasks,    \* bound: events waiting in the browser's loop
  MaxSources,  \* bound: sources the page opens
  MaxBreaks    \* bound: losses of the network, failures of the server, changes of is_active

ASSUME PageAssumption ==
  /\ {SessionTopN, Buffer, RestLimit, MaxTrades, MaxTasks, MaxSources} \subseteq Nat \ {0}
  /\ MaxBreaks \in Nat /\ First \in Symbols /\ Minutes \subseteq Nat /\ None \notin Nat
  /\ None \notin [rows : SUBSET Nat, points : SUBSET Nat]

VARIABLES
  published,  \* the Redis stream: trades [symbol, minute], their id the index
  stored,     \* how many of them are in Postgres
  hubAt,      \* how many of them the hub has read
  activePairs, \* symbol -> is_active
  link,       \* the current source's connection: [source, symbol, state]
  tasks,      \* events to dispatch: [source, kind, trade]
  shown,      \* the symbol of the last render
  effects,    \* TRUE when that render's effects have still to run
  status, trades,  \* the state of useStream
  query,      \* symbol -> [fetch, answer, data, invalid, failed]
  chart,      \* the series drawn: [points, last], last the guard lastTimeRef
  opened,     \* what was stored when the last open event was handled
  raced,      \* that open found a first answer under way: it is not asked for again
  breaks

server == <<published, stored, hubAt, activePairs>>
view   == <<shown, effects>>
page   == <<server, link, tasks, view, status, trades, query, chart, opened, raced, breaks>>

Source  == link.source
OfSymbol(s, n) == {i \in 1..n : published[i].symbol = s}
NewestIn(S, n) == {i \in S : Cardinality({j \in S : j > i}) < n}
Rank(S, i) == Cardinality({j \in S : j < i})
Ascending(S) == [k \in 1..Cardinality(S) |-> CHOOSE i \in S : Rank(S, i) = k - 1]
Dispatch(kind, trade) == [source |-> Source, kind |-> kind, trade |-> trade]
Fault == breaks < MaxBreaks /\ breaks' = breaks + 1

NoQuery == [fetch |-> "idle", answer |-> None, data |-> None, invalid |-> FALSE, failed |-> FALSE]
NoChart == [points |-> {}, last |-> None]

PageInit ==
  /\ published = <<>> /\ stored = 0 /\ hubAt = 0
  /\ activePairs = [s \in Symbols |-> TRUE]
  /\ link = [source |-> 0, symbol |-> None, state |-> "closed"]
  /\ tasks = <<>>
  /\ shown = First /\ effects = TRUE
  /\ status = "closed" /\ trades = <<>>
  /\ query = [s \in Symbols |-> NoQuery]
  /\ chart = NoChart
  /\ opened = 0 /\ raced = FALSE /\ breaks = 0

-----------------------------------------------------------------------------
(* The server.                                                              *)

AppendTrade ==
  /\ Len(published) < MaxTrades
  /\ \E s \in Symbols, m \in Minutes :
        published' = Append(published, [symbol |-> s, minute |-> m])
  /\ UNCHANGED <<stored, hubAt, activePairs, link, tasks, view, status, trades, query, chart,
                 opened, raced, breaks>>

\* The consumer stores trades in the order of the stream.
Store ==
  /\ stored < Len(published)
  /\ stored' = stored + 1
  /\ UNCHANGED <<published, hubAt, activePairs, link, tasks, view, status, trades, query, chart,
                 opened, raced, breaks>>

\* The hub reads on for everybody; the page's session gets its symbol's latest trades.
HubReads ==
  /\ hubAt < Len(published)
  /\ \E k \in (hubAt + 1)..Len(published) :
        LET batch == NewestIn(OfSymbol(link.symbol, k) \ (1..hubAt), SessionTopN)
            sent  == IF link.state = "live" THEN Ascending(batch) ELSE <<>>
        IN  /\ Len(tasks) + Len(sent) <= MaxTasks
            /\ hubAt' = k
            /\ tasks' = tasks \o [n \in DOMAIN sent |-> Dispatch("trade", sent[n])]
  /\ UNCHANGED <<published, stored, activePairs, link, view, status, trades, query, chart,
                 opened, raced, breaks>>

Switch ==
  /\ Fault
  /\ \E s \in Symbols : activePairs' = [activePairs EXCEPT ![s] = ~@]
  /\ UNCHANGED <<published, stored, hubAt, link, tasks, view, status, trades, query, chart,
                 opened, raced>>

\* resolve_stream_targets: only active pairs; none of those asked for is a 404.
ActiveTargets(asked) == {s \in asked : activePairs[s]}

Accept ==
  /\ link.state = "connecting" /\ Len(tasks) < MaxTasks
  /\ IF ActiveTargets({link.symbol}) # {}
       THEN /\ link' = [link EXCEPT !.state = "accepted"]
            /\ tasks' = Append(tasks, Dispatch("open", 0))
       ELSE /\ link' = [link EXCEPT !.state = "closed"]
            /\ tasks' = Append(tasks, Dispatch("closed", 0))
  /\ UNCHANGED <<server, view, status, trades, query, chart, opened, raced, breaks>>

\* The session registers when the response is first iterated, after its headers.
Register ==
  /\ link.state = "accepted"
  /\ link' = [link EXCEPT !.state = "live"]
  /\ UNCHANGED <<server, tasks, view, status, trades, query, chart, opened, raced, breaks>>

\* The connection breaks or cannot be made: EventSource tries again by itself.
Lose ==
  /\ link.state \in {"connecting", "accepted", "live"} /\ Len(tasks) < MaxTasks
  /\ Fault
  /\ link' = [link EXCEPT !.state = "connecting"]
  /\ tasks' = Append(tasks, Dispatch("error", 0))
  /\ UNCHANGED <<server, view, status, trades, query, chart, opened, raced>>

\* Any other status than 200, a proxy's 502 too, closes an EventSource for good.
Refuse ==
  /\ link.state = "connecting" /\ Len(tasks) < MaxTasks
  /\ Fault
  /\ link' = [link EXCEPT !.state = "closed"]
  /\ tasks' = Append(tasks, Dispatch("closed", 0))
  /\ UNCHANGED <<server, view, status, trades, query, chart, opened, raced>>

-----------------------------------------------------------------------------
(* The REST queries.                                                        *)

Requested(q) == [q EXCEPT !.fetch = "asked", !.answer = None]

MinutesOf(s) == {published[i].minute : i \in OfSymbol(s, stored)}

\* An inactive asset is a 404, which is not retried: the data there was stays.
ReadRest(s) ==
  /\ query[s].fetch = "asked"
  /\ query' = [query EXCEPT ![s] =
       IF activePairs[s]
         THEN [@ EXCEPT !.fetch = "read",
                        !.answer = [rows |-> NewestIn(OfSymbol(s, stored), RestLimit),
                                    points |-> MinutesOf(s)]]
         ELSE [@ EXCEPT !.fetch = "idle", !.failed = TRUE]]
  /\ UNCHANGED <<server, link, tasks, view, status, trades, chart, opened, raced, breaks>>

\* After the retries the query is in error.
RestFails(s) ==
  /\ query[s].fetch \in {"asked", "read"}
  /\ Fault
  /\ query' = [query EXCEPT ![s] = [@ EXCEPT !.fetch = "idle", !.answer = None, !.failed = TRUE]]
  /\ UNCHANGED <<server, link, tasks, view, status, trades, chart, opened, raced>>

LastMinute(points) == IF points = {} THEN None ELSE Max(points)

\* Mutant: new data leaves the guard of the live ticks where it was.
KeepsGuard(points) ==
  [points |-> points, last |-> IF chart.last = None THEN LastMinute(points) ELSE chart.last]

\* setData: the series becomes what REST gave, the guard its last point.
Drawn(points) == [points |-> points, last |-> LastMinute(points)]

PointsOf(q) == IF q.data = None THEN {} ELSE q.data.points

\* Data equal to the old is not a change: the chart is not drawn anew. Any other
\* is, of known minutes too: a trade more changes the volume of its minute, and
\* the newest of the rows tells whether there is one.
Arrive(s) ==
  /\ query[s].fetch = "read"
  /\ s = shown => ~effects
  /\ query' = [query EXCEPT ![s] = [@ EXCEPT !.fetch = "idle", !.answer = None,
                                     !.data = query[s].answer, !.invalid = FALSE,
                                     !.failed = FALSE]]
  /\ chart' = IF s = shown /\ query[s].data # query[s].answer
                THEN Drawn(query[s].answer.points) ELSE chart
  /\ UNCHANGED <<server, link, tasks, view, status, trades, opened, raced, breaks>>

-----------------------------------------------------------------------------
(* The page.                                                                *)

\* The user picks another symbol: the page is rendered with it.
Choose ==
  /\ Source < MaxSources /\ ~effects
  /\ shown' \in Symbols \ {shown}
  /\ effects' = TRUE
  /\ UNCHANGED <<server, link, tasks, status, trades, query, chart, opened, raced, breaks>>

\* Mounting a query fetches it unless its data is still fresh (staleTime).
Mounted(q) ==
  IF q.fetch # "idle" THEN {q}
  ELSE IF q.data = None \/ q.invalid THEN {Requested(q)} ELSE {q, Requested(q)}

\* Chart, queries and stream follow the new symbol; the old source is closed first.
RunEffects ==
  /\ effects
  /\ effects' = FALSE
  /\ chart' = Drawn(PointsOf(query[shown]))
  /\ \E q \in Mounted(query[shown]) : query' = [query EXCEPT ![shown] = q]
  /\ link' = [source |-> Source + 1, symbol |-> shown, state |-> "connecting"]
  /\ status' = "connecting" /\ trades' = <<>>
  /\ opened' = 0 /\ raced' = FALSE
  /\ UNCHANGED <<server, tasks, shown, breaks>>

\* Mutant: an event of any source is handled.
AlwaysListens(task) == TRUE

\* `disposed`: a source that was closed is not listened to any more.
Listens(task) == task.source = Source

Disposed ==
  /\ tasks # <<>> /\ ~Listens(Head(tasks))
  /\ tasks' = Tail(tasks)
  /\ UNCHANGED <<server, link, view, status, trades, query, chart, opened, raced, breaks>>

Handles(kind) ==
  /\ tasks # <<>> /\ Listens(Head(tasks)) /\ Head(tasks).kind = kind
  /\ tasks' = Tail(tasks)

\* Mutant: the queries are left as they are.
NotInvalidated(s, q) == q

\* invalidateQueries: mounted ones are fetched anew, but a first fetch is not interrupted.
Invalidated(s, q) ==
  IF s # shown \/ effects THEN [q EXCEPT !.invalid = TRUE]
  ELSE IF q.fetch # "idle" /\ q.data = None THEN [q EXCEPT !.invalid = TRUE]
  ELSE [Requested(q) EXCEPT !.invalid = TRUE]

OnOpen ==
  /\ Handles("open")
  /\ status' = "open"
  /\ query' = [s \in Symbols |-> Invalidated(s, query[s])]
  /\ opened' = stored
  /\ raced' = (query[shown].fetch = "read" /\ query[shown].data = None)
  /\ UNCHANGED <<server, link, view, trades, chart, breaks>>

\* A tick older than the series' end is dropped; the series must be the trade's symbol.
Updated(trade) ==
  LET m == trade.minute IN
  IF trade.symbol # link.symbol \/ (chart.last # None /\ m < chart.last) THEN chart
  ELSE [points |-> chart.points \union {m}, last |-> m]

OnTrade ==
  /\ Handles("trade")
  /\ LET i == Head(tasks).trade IN
       /\ chart' = Updated(published[i])
       /\ trades' = LET all == <<i>> \o trades
                    IN  IF Len(all) > Buffer THEN SubSeq(all, 1, Buffer) ELSE all
  /\ UNCHANGED <<server, link, view, status, query, opened, raced, breaks>>

\* Mutant: any error closes the source.
GivesUp == [link EXCEPT !.state = "closed"]

\* The source is left to reconnect.
AfterError == link

OnReconnecting ==
  /\ Handles("error")
  /\ status' = "reconnecting"
  /\ link' = AfterError
  /\ UNCHANGED <<server, view, trades, query, chart, opened, raced, breaks>>

OnFatal ==
  /\ Handles("closed")
  /\ status' = "closed"
  /\ UNCHANGED <<server, link, view, trades, query, chart, opened, raced, breaks>>

Answers == \E s \in Symbols : ReadRest(s) \/ Arrive(s)
Handled == Disposed \/ OnOpen \/ OnTrade \/ OnReconnecting \/ OnFatal

PageNext ==
  \/ AppendTrade \/ Store \/ HubReads \/ Switch \/ Accept \/ Register \/ Lose \/ Refuse
  \/ \E s \in Symbols : ReadRest(s) \/ RestFails(s) \/ Arrive(s)
  \/ Choose \/ RunEffects
  \/ Disposed \/ OnOpen \/ OnTrade \/ OnReconnecting \/ OnFatal

PageSpec == PageInit /\ [][PageNext]_page

(* The browser runs its tasks and effects and connects, the server answers. *)
FairPage ==
  /\ PageSpec
  /\ WF_page(Handled) /\ WF_page(RunEffects) /\ WF_page(Accept) /\ WF_page(Register)
  /\ WF_page(Answers)

-----------------------------------------------------------------------------
PageTypeOK ==
  /\ published \in Seq([symbol : Symbols, minute : Minutes])
  /\ stored \in 0..Len(published) /\ hubAt \in 0..Len(published)
  /\ link.state \in {"closed", "connecting", "accepted", "live"}
  /\ status \in {"closed", "connecting", "open", "reconnecting"}
  /\ Len(trades) <= Buffer /\ Len(tasks) <= MaxTasks

(* The live part of the tape holds only trades of the symbol whose stream   *)
(* is open, the newest first and each once: neither the events a closed     *)
(* source still had in the loop nor those of a session before a             *)
(* reconnection come into it (api/stream.ts:97-129,                         *)
(* useTradeStream.ts:86-130).                                               *)
OnlyThisStream ==
  /\ \A n \in DOMAIN trades : published[trades[n]].symbol = link.symbol
  /\ \A n, k \in DOMAIN trades : n < k => trades[n] > trades[k]

(* The guard of the live ticks is the end of the series drawn, after any    *)
(* order of REST answers, late ticks and changes of the symbol: no tick the *)
(* chart could take is dropped and none it would throw at reaches it        *)
(* (PriceChart.tsx:138-176).                                                *)
GuardIsChartEnd == chart.last = LastMinute(chart.points)

Settled == ~effects /\ status = "open" /\ tasks = <<>> /\ query[shown].fetch = "idle"

(* Once the page has come to rest after an open event, a trade that was     *)
(* stored by then is in the REST rows, unless RestLimit newer ones are: the *)
(* stream alone would never bring it.  The page may miss it only where the  *)
(* query failed, or its first answer was under way when the stream opened   *)
(* (useTradeStream.ts:104-109).                                             *)
NothingStoredMissing ==
  Settled /\ ~raced /\ ~query[shown].failed =>
    LET rows == query[shown].data.rows IN
    \A i \in OfSymbol(shown, opened) \ rows : Cardinality({j \in rows : j > i}) = RestLimit

(* The page ends up open or told that the stream is closed: it does not     *)
(* stay connecting (api/stream.ts:106-119).                                 *)
EventuallyLive == <>[](~effects /\ status \in {"open", "closed"})
=============================================================================
