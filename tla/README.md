# A TLA+ verification of TickFeedDmr

TickFeedDmr collects market data (Binance crypto trades, MOEX stock trades and
board snapshots, the rates of the Central Bank of Russia), stores it in
Postgres, streams it live to browsers, and answers questions about it through
an AI chat with a daily quota. This directory models the parts of it in which
several processes, failures and timers meet, checks the models with TLC and
proves central properties with TLAPS. Paths below are relative to `src/`;
`MD` is `tickfeeddmr/market_data`, `AI` is `tickfeeddmr/ai/services`, `FE` is
`frontend/src`.

## 1. The system

### Processes and shared state

| Process | Code | State it shares |
|---|---|---|
| `stream_binance` | `MD/management/commands/stream_binance.py`, `MD/providers/binance/websocket.py` | appends to the Redis Stream of trades, reads the stream of asset changes |
| `consume_market_data_stream` | `MD/management/commands/consume_market_data_stream.py` | consumer group and PEL in Redis, `CryptoPriceSnapshot` rows |
| Celery worker and beat | `MD/tasks.py`, `MD/services/moex_polling`, `cbr_polling`, `daily_candles` | Redis locks, cursors on the asset rows, rows of snapshots, trades and candles, the Redis Stream of MOEX trades |
| Django ASGI, several processes | `MD/api`, `MD/services/queries`, `MD/services/stream_reader`, `tickfeeddmr/ai` | reads the tables and both streams, the quota hash of the day in Redis |
| Admin (the same Django) | `MD/wagtail_hooks.py`, `MD/models`, `tickfeeddmr/core/task_runner` | edits assets, appends events of asset changes, queues tasks |
| Browser | `frontend/src` | an EventSource per page, the chat's dialogue |

### Components

| Component | State | Operations | What is hard | What makes it correct | Module |
|---|---|---|---|---|---|
| Trade stream consumer | PEL, batch in hand, recovery or live, `_last_written`, `_last_trim_at` | ensure group, recover, read, write, ack, trim, reconnect, restart | a crash or a lost reply between any two of them; two parties trim the stream | no trade disappears without a trace; trimming never takes what is still owed; every trade gets settled | `TradeStream` |
| Producer and its watcher | `last_id`, the batch of events in hand, `recovering` | XADD with a ceiling, watch asset changes, reconcile | changes before the first read of the change stream; lost events | the streamed pairs become the active pairs | `TradeStream` (XADD), `BinanceFeed` |
| Binance socket | `_desired`, `_subscribed`, `_connection`, the sync lock | update_pairs, stream, sync, control responses | pairs change during a reconnection; refused subscriptions; the limit per connection | it knows what it is subscribed to, within the limit | `BinanceSocket` |
| Crypto asset changes | rows, the snapshot of a request, the change stream | create, save, delete, publish on commit | two requests at once; events lost with Redis | a change is followed even without its event | `BinanceFeed` |
| SSE hub | registry, `last_id`, `_active_groups`, `_buffer`, each session's one-deep cell | register, unregister, read, collect, flush, deliver, wait, heartbeat, stop | sessions come and go inside a window; slow sessions; errors of the shared reader | in order, at most once, no lost wake-up, fresh in the end | `StreamHub` |
| Live page | EventSource, React Query cache, tape, chart | connect, reconnect, change the symbol, merge | tasks of a closed source, answers in any order, the gap between REST and stream | only this symbol; nothing stored stays missing | `LivePage` |
| AI quota and chat loop | `requests` and `tokens` of the day; a run's step and reserve | ensure, reserve, ask, settle, use tools | runs of several processes race; midnight; interruption and lost replies | the limit holds; nothing is spent uncounted | `ChatQuota` |
| Chat of the browser | dialogue entries, `isStreaming`, the request in flight | send, stop, reset, events of a stream | a stream that breaks after its last event; limits checked on both sides | histories are accepted; answers are whole; waits end | `ChatWidget` |
| MOEX trade poller, Redis lock | `last_trade_no`, `StockTrade`, lock key, live stream | load, lock, page loop, save, publish, release | overlapping ticks, TTL against budget, aborts in the page loop, an edited cursor | no gap below the cursor; one reader at a time; live trades once; everything stored in the end | `MoexTrades` |
| MOEX board poller, HTTP retry | `StockPriceSnapshot`, lock with its TTL, attempts, pauses, budget | tick, lock, request, retry, write, release | four clocks: attempt, run, lock, schedule | one run at a time asks the ISS; a failure is reported truly | `BoardPoller` |
| Daily candles and rates | candle tables, `history_backfilled`, nightly lock | nightly run, task of a new or chosen asset, catch-up, CBR poll | runs overlap; the flag is saved before the rows; the poller writes the newest row | no candle skipped for good; of a currency's rates only those the poller has overtaken or a lost first load | `DailyHistory` |
| Queries, REST API | none between requests | cursor pages, minute charts, histories | several queries outside a transaction over growing tables | no row twice, none skipped; halves that fit | `TradeQueries` |
| AI tools | none | period statistics, big moves, indicators | the same, plus a day fixed at the start of a chat run | rows computed from the whole period | `ToolStats` |
| LLM providers, users, CMS, settings, deployment, the rest of the frontend | – | – | – | – | not modelled (section 8) |

## 2. Modules

    OrderedSink  <-implements-  TradeStream  <-  TradeStreamProofs
    StreamHub, LivePage    <-  LiveProofs
    ChatQuota, ChatWidget  <-  MCChat (either end of the chat), ChatProofs
    MoexTrades     <-  MoexTradesProofs
    BoardPoller    <-  BoardPollerProofs
    BinanceSocket  <-  BinanceFeed (the socket composed with its caller)  <-  BinanceFeedProofs
    TradeQueries   <-  ToolStats (REST readers and tools over one history)  <-  QueriesProofs
    DailyHistory   <-  MCDailyHistory (the assets of each domain), DailyHistoryProofs

`<-` is EXTENDS; the two parts of the live feed, and those of the chat, are
separate state machines whose proofs share a module and its lemmas. `PROJECT.json` maps every definition to the lines it models.
An action is what happens between two awaits of the code, or, for a call to
Redis or Postgres, its effect together with what the caller does with the
reply; a reply that is lost is a separate outcome of the same call. Some
operators exist only to be a mutated form of the next one; they are marked
`MUTANT`.

### TradeStream and OrderedSink

`log` is every entry ever added to the stream, and an entry's position stands
for its Redis id (ids are ordered like positions, `log[i].ms` is the
millisecond part). Redis removes only from the old end, so `trimmed` says it
all about what is left. `group`, `delivered` and `pel` are the consumer group;
`pc`, `phase`, `batch`, `events`, `written` the consumer's control and locals;
`lastWritten`, `lastTrim` the fields of `TradeStreamTrimmer`.

| Code | Actions |
|---|---|
| `_pump_trades`: XADD with `MINID ~` | `Publish` |
| `_ensure_group` | `EnsureGroup` |
| `_recover_pending` | `ReadPending` |
| XREADGROUP with `>` | `ReadNew` |
| `_process_batch`, `_decode_messages`, `write_snapshots` | `WriteBatch`, `AckBatch` |
| `note_written`, `maybe_trim` | in `AckBatch`, then `Trim` |
| `REDIS_TRANSIENT_ERRORS`, `RedisRetryLoop` | `RedisFails` and the lost replies (`Reply`), `Reconnect` |
| death and restart of the container | `Crash`, `Restart` |

`Cuts` is Redis's "approximate" trimming: any number of the old entries below
the MINID may go, never one at or above it. A write may raise before or after
the database committed; the batch is acknowledged either way, as in the code.
The history variables `refused` (the entries whose write raised or skipped
them, which the code logs) and `cutByCeiling` (deleted by the producer's MINID)
say where a trade without a row went.

`OrderedSink` is what the table's reader may rely on: entries are settled in
order, stored at most once and only before they are settled, never more than a
batch ahead. `TradeStream` implements it with the settled prefix computed from
`delivered` and `pel`.

### StreamHub

One hub of one stream in one API process. `Request` is the view before the
stream: it refuses a filter with more than `MaxTickers` names and one without an
active pair (`Filters`, `Targets`). `Connect` and `Unregister` are the
two functions that take the registry's lock; `ReadTail`, `Read`, `Fail`,
`Retry`, `Stop` are the turns of `_Hub._run`; `Wake`, `Timeout`, `Sent`,
`Disconnect` those of the generator `subscribe`. `pending` and `event` are the
one-deep cell of `_Subscriber`. `Read` may or may not end the window: the
window's length is not modelled. One hub per stream is enough because the hub
leaves the registry under the lock that also stops it. Left out: the stream's
own retention, and a cancellation that arrives inside `unregister_subscriber`.

### BinanceSocket and BinanceFeed

`BinanceSocket` is `BinanceTradeStreamConsumer`: `desired` outlives
connections, `subscribed` is what it believes of the current one, `server` and
`control` are Binance's side. `BeginConnect`, `Connected`, `Drop`, `PumpFails`,
`PumpRestarts` are the turns of `stream()`; `EnterSync`, `Send`, `Note` those
of `_sync_subscriptions` under its lock, for whichever task holds it.
`SameConnection` is the check that the connection is still the one the message
went to. `ValidChangeSettings` is the validation of the change stream's
settings. The generator may be suspended at its `yield` while the connection
dies.

`BinanceFeed` composes it with both its neighbours: requests of the admin
(`LoadAsset`, `SaveAsset`, `Create`, `Delete`; `save()` compares with the
fields as loaded, the event goes out on commit and may be lost) and the watcher
`_watch_asset_changes` (`ResolveStart`, `ReadChanges`, `LoadRows`, `Update`,
`Updated`, `ReadFails`). `Crash` restarts the whole process. `missed` is
history: pairs changed without an event since the watcher's last look at the
rows.

### ChatQuota

The Redis hash of each Moscow day is a pair of functions `requests`, `tokens`
of the day; `Midnight` may fall between any two calls because `_key()` is
computed by each. A run is `_steps` with its `stream_step`: `Reserve`,
`Answer`, `Settle`, `UseTools`, or one of the ways out: `Refuse`,
`ReserveFails`, `Interrupt`, `SettleFails`, `Leave`. What the estimate and the
provider say are inputs; an answer may come without a usage report (`NoUsage`),
and then `StepTokens` settles the reserve's prompt part with the text written.
`spent`, `calls`, `overrun`, `shortfall`, `unmeasured` are history; `calls` are
the steps the provider was asked for (the SDK's one resend lies inside a call).
Left out: the two warning flags, the key's TTL, `snapshot`.

### ChatWidget

The reducer of `FE` `chatState`, the hook `useChat` and `streamChat`, against
`validate_history` and the order of the server's events. A text is its length.
`Send` builds the `History` the reducer would; `Accept` and `Refused` are the
server's verdict by `Valid`; `TextDelta`, `ToolCall`, `Done`, `Error`, `Close`,
`Break` are what a stream may bring; `Stop` and `Reset` the user's. Reducer
actions carry no stream: they settle whichever answer is streaming, so the
model keeps for each entry the question it is for. A `filter()` of the entries
is `Filtered`, whose k-th row is the k-th of the places kept, and the length of
a history the size of a set of characters: both can be reasoned about without a
recursion.

### MoexTrades

`feed` is what the ISS has shown of the session, numbered in TRADENO order; a
run's pages are the next `PageRows` trades after its `new_cursor`. A run loads
the assets (`Load`), then takes the lock (`Acquire`, `Busy`), visits them
(`Start`, `Fetch`, `Write`, `Save`, `Publish`) and releases (`Release`, which
deletes only its own token). Each step has its failure: `FetchFails` (provider
or budget), `WriteFails`, `SaveFails` (with or without the commit),
`PublishFails` (a prefix of the pipeline; the code swallows it), `ReleaseFails`,
`AcquireFails` (the key may have been set), `Crash`. `LockExpires` is the TTL
under a live run. Then the run's deadline has passed as well
(`validate_poll_budget` keeps the TTL at least 5 s above the budget, and the
deadline is computed right after SET), so its next request is cancelled:
`FetchCancelled`. `OpenForm` and `SaveForm` are the edit form in the admin,
which has the cursor among its fields. `aged` is the freshness cutoff, which
moves with the clock and is looked at by `Start` only. `tainted` is history: a
run took the lock with a cursor that was no longer the saved one, its lock
expired under it, or the form moved a cursor. Left out: the flags `is_active`
and `track_trades`, the change of the session, the length of the stream.

### BoardPoller

The same lock where `MoexTrades` takes its expiry as one event: here time is
modelled, as countdowns (`tick`, `ttl`, `left`, `wait`) that `Elapse` moves
together and that no step may let run past zero. A run is `poll_board` with
`RetryingHttpClient.get` inside it: `Request`, `AttemptFails`, `Resume`,
`Rejected` (a status that is not retried), `Refused`, `Overrun`, `Answered`, then
`Write` outside the budget. `Pause` is
the back-off with its jitter. `report` is what the log would say. `LockTime`,
`Budget`, `Latency` are bound by what `validate_poll_budget` accepts.

### DailyHistory

One domain per behaviour (`Domains`): crypto and stock candles, or currencies.
They share the runner and no state, so a behaviour is about one of them. A nightly
run (`Acquire`, `NextAsset`, `BudgetOver`, `Release`) and the task of one
asset (`Queue`, `SignalTask`, with `tries`; queued when the asset is created, or
by `RunTask` from the task runner page, which offers the active assets) share
`catch_up_asset`: `Begin`,
`FetchPage` or `FetchRates`, `Mark` (the flag, currencies only, saved first as
in the code), `Write`. `PollAsks`, `PollAnswered`, `PollFails` are the CBR
poller, which writes tomorrow's rate in the same table. `source` is what the
provider has, day by day (`Appears`); days it does not have are no holes. It
starts with any days up to `LastListed`: a candle counts when its day is over,
but the rate of a day is published the day before, so a currency that is created
today may find today's rate in it. `cut` and `overtaken` are history: the
currencies whose first load failed after the flag, and the rates that a newer
row of the poller has hidden from every later catch-up of a flagged currency.
`InHand` is what a first load is about to store.

### TradeQueries and ToolStats

A behaviour follows one client of one handler; the writers and the admin act
between any two of its queries. `AskPage`, `FindFeed`, `ReadPage` are the
cursor pages, walked to the end; `AskChart`, `FindCharted`, `ReadPrices`,
`ReadVolumes` the minute chart with its two queries; `AskHistory`,
`FindStored`, `ReadEarliest`, `ResolvePeriod`, `ReadHistory` a history. Rows
come late and may share a timestamp. `ToolStats` adds the tools that compute
from a range of candles, `get_period_stats` (three queries), `find_big_moves`
and `get_indicators` (`Indicate`); what they compute from is kept as sets of days
(a return is the day whose close it is taken from, an average the days it is
over), the numbers are not. An ORDER BY is `Sorted`: the row at place k is the one with
k-1 rows before it (`SetToSortSeq` of the community modules rests on an
operator of TLC's that the prover has no definition of).

### LivePage

The hook `useStream` with `createStream`, `useTradeStream`, the two REST
queries of a symbol as React Query keeps them (idle, asked, invalidated) and the
chart's guard. Events of a source are tasks of the browser's loop and may run
after their source was closed (`Listens`, `Disposed`); effects run some time
after their render (`RunEffects`); an answer is read (`ReadRest`) before it
arrives (`Arrive`); the chart is drawn again whenever the data kept has changed,
a price or a volume of a known minute included. The server's side is `Accept`, `Register`, `Refuse`, with
the delivery rule of `StreamHub`: the last `SessionTopN` trades of what the hub
reads at once, in the order of the stream (`Ascending`). All connections of the
page meet the hub of one process, as with the one worker of
`compose/production/django/start`; the hubs of two processes would each have a
place of their own in the stream, and a page that changes from one to the other
could see the trades of a window twice.

## 3. Runs

| Run | Module | Question | Result |
|---|---|---|---|
| `trade` | `TradeStream` | is a trade lost without a trace, trimmed while owed, or handled out of order; is every trade settled in the end, also one deleted before it was read? | holds |
| `hub` | `StreamHub` | in order and once, no wake-up lost, and does a session that keeps reading get to each wanted trade or a newer one? Deadlock is checked. | holds |
| `hub_stopped` | `StreamHub` | is a stopped hub ever replaced? | violated, finding 1 |
| `chat` | `MCChat` | server: does the limit hold, is every call counted, does the charge cover the cost? Browser: does the server accept the histories, is a finished answer whole, does every wait end? | holds |
| `moex_poll` | `MoexTrades` | no gap below the cursor, one run in time, live at most once unless a cursor was stale, everything stored in the end? | holds |
| `feed` | `BinanceFeed` | are the streamed pairs the active ones in the end, and does the producer know what it is subscribed to meanwhile? | holds |
| `history` | `MCDailyHistory` | is a candle ever skipped for good; which rates can be missing before the newest row, where no later catch-up looks; is every candle stored and every currency flagged in the end? | holds; of the rates only those of `cut` and `overtaken` |
| `history_flag` | `MCDailyHistory` | does `history_backfilled` mean that the history is loaded? | violated, finding 2 |
| `board` | `BoardPoller` | do two runs ever ask the ISS at once, is the reported reason true, does the board get fresh again? Deadlock is checked. | holds |
| `live` | `LivePage` | is the tape of one symbol, does the chart take each tick it can, is a stored trade ever missing at rest? | holds |
| `queries` | `ToolStats` | do pages skip or repeat, do a chart's halves fit, are histories and the tools' rows whole? | holds |
| `queries_default` | `ToolStats` | does a history without a start begin the default number of days before today? | violated, finding 3 |

### Properties worth a word

- `TrimSparesUnsettled`: the boundary of XTRIM is the last written batch, while
  older entries may be back in the PEL after a crash. It is safe only because
  the PEL is drained before new entries are read; `RetentionInv` is that
  argument spelled out.
- `NoSilentLoss` names the only three ways a trade can be without a row.
- `InOrderOnce` relates a session's past to its cell and to the shared buffer,
  across replaced batches and reconnections; `NoLostWakeup` is why `wait()` may
  be cancelled by the heartbeat timer.
- `BeliefIsTrue` is about the control messages still under way: the set the
  client notes must be the one Binance will have, although the connection may
  have been replaced between a send and its noting. `CaughtUp` covers the start:
  the id of the change stream is taken before the rows are read, never after.
  `RecoveryFindsMissed` and `Converges` say which lost events are made up for.
- `DailyCeiling` holds although `ensure_available` is a check without a
  reserve; `ChargeCoversCost` says by exactly how much interrupted steps may
  escape the counter.
- `OneInTime` and `OneReader` are the lock, the owner's token and the deadline
  together: none of them suffices alone. `LiveOnce` gives the conditions under
  which the documented "never a duplicate" is true.
- `NoHole`: the newest stored row is all a later catch-up looks at, so a hole
  before it would stay; overlapping runs, retries and crashes must not make one.
- `BackfillComplete` is what is left of that for currencies, whose poller stores
  the newest row by itself: a flagged currency can miss only what its lost first
  load (finding 2) or the poller's newer row (section Observations) has hidden, and
  whatever else overlaps loses nothing. `overtaken` grows in two places, where
  the poller stores its row and where a first load sets the flag under a row
  that is already there; a rate that is in the hands of a first load is not in it.
- `HistoryIsWhole` leaves out one request, an end without a start under a default
  period, on whose meaning docstring and code disagree (finding 3).
- `AnswerIsWhole`, `DoneStays`: the reducer's actions do not name their stream.
- `WalkIsWhole` compares pages over a growing table, with equal timestamps at
  their border, with the table as it was when the walk began.
- `OnlyThisStream` asks more than the absence of other symbols: the tape goes
  strictly down in the order of the stream, although tasks of closed sources and
  of broken connections are still in the loop.
- `NothingStoredMissing` is about the seam between two ways a trade can come,
  REST and the stream, and names the two exceptions the code has: what was
  stored when the stream opened is in the REST rows the page rests with.

### Findings

1. A stopped hub stays in the registry while any of its sessions is there, and
   a browser that reconnects at once joins it and gets heartbeats only
   (`hub_stopped`; `docs/05-sse-live.md:157` promises that the reconnection
   helps).
2. `catch_up_asset` saves `history_backfilled` before the rows. If the write
   fails and the CBR poller stores a newer rate meanwhile, the currency stays
   flagged and its history is never asked for again (`history_flag`; help text
   at `MD/models/fiat.py:51`).
3. Without a `from`, and with a default period of N days set, `resolve_period`
   counts back from the `to` the client gave; its docstring
   (`queries/period.py:28`) says from today (`queries_default`).

### Observations

Differences and edges met while modelling, documented or harmless enough not
to be findings:

- `write_snapshots` stores trades of deactivated assets as long as their entries
  are in the stream (`ingest.py:36`; its docstring mentions the active ones).
- A session that joins during a window is handed that window's earlier trades
  (`hub.py:173`).
- An interrupted step keeps its reserve only; what it took beyond it is not
  counted (`loop.py:70`; the term `shortfall` in `ChargeCoversCost`).
- A quota hash that is created by a settle after midnight has no TTL until the
  day's first reserve (documented in `docs/07`).
- The MOEX poller loads its cursors before it takes the lock, and the edit form
  writes back the cursor it was opened with: both can repeat trades in the live
  stream; `LiveOnce` excludes exactly these.
- A rate can be lost for good without any failure. The rate of day D is published
  on D-1; a currency created on D is loaded up to D-1 and flagged
  (`fiat.py:100-116`), the poller asks for tomorrow only and stores D+1 the same
  day (`cbr_polling/rates.py:62`), and from then on the newest row is ahead of
  every nightly run (`fiat.py:107`). A day whose polls all failed is lost in the
  same way once the next day's poll succeeds. The docstring of `catch_up_asset`
  (`fiat.py:94`) takes the newest row of a flagged currency for a safe cursor.
  These rates are what `overtaken` holds, and `BackfillComplete` excepts no
  others; the run reaches the day of the creation, the proof has both.
- One asset whose poll fails for ever keeps the MOEX run from all after it.
- The nightly budget is looked at between assets only, so a long asset outlives
  the lock. Assets with nothing more to load stay in front of the candidates;
  `Limit` of them starve the others (the premise of `EventuallyStored`). A
  stock for which the ISS gives no candle borders fails every night.
- UPDATETIME of the board has no date and is put on today's.
- Chat: a stream that breaks after its last event settles the answer to the next
  question (`late`); an empty or too long answer makes the next history
  refusable with 422.
- A history request without dates is refused when the earliest stored day is
  after its end. `partial` is set for a `from` inside a period even when the
  row has the whole period.
- `get_indicators` looks back 450 days from today and gives the range of the 365
  days before the newest candle: with a newest candle older than 85 days the
  range is over less than a year (the premise of the last conjunct of
  `IndicatorsAreWhole`).
- `docs/05-sse-live.md:111` says that the frontend loads the state over REST and
  then opens the stream; `useTradeStream.ts:104` opens the stream and asks for the
  queries anew on its open event. `NothingStoredMissing` is about the order of
  the code.
- Live page: a first REST answer that is under way when the stream opens is not
  asked for again (`raced`); trades published before the session registers and
  stored after the REST answer are missing until the next refetch; any non-200
  closes the EventSource for good; a REST refetch overwrites a live tick.

### Bounds and why they are enough

- `trade`: 3 entries, batches of 2, a clock from 0 to 4 with a gap of 2 and a
  ceiling of 3, 1 fault, 1 edit. Three entries make a batch, a part of one and a
  rest. The producer's MINID is `now - 3`, so at the last instant the ceiling
  deletes entries of the first one, unread, owed or settled; retention's XTRIM
  deletes others, and a crash restarts with any part of a batch owed. One pair
  and malformed entries, because entries of different pairs differ only in
  whether there is an asset. The proofs cover the safety properties for all
  bounds.
- `hub`: 2 clients, 2 tickers, 2 entries read at once or apart, 1 selected per
  ticker and window, 2 faults: a window with more than one trade of a ticker, a
  client that is late, one that shares a ticker, two losses of Redis.
- `feed`: 2 pairs with room for 1, so that the limit cuts and every change needs
  messages in the right order; 2 concurrent requests, one event per read, 2
  edits, 2 faults.
- `chat`: on the server 2 runs, 3 questions, 2 steps each, limits of 3 requests
  and 4 tokens, estimates of 1 or 2, costs of 0 or 3 (below and above the
  estimate), one midnight. In the browser 3 questions against a limit of 4
  messages, so that a history is cut; lengths up to 3 against limits of 2 and 5.
  A behaviour is about one end: the two share no state, and what a stream may
  bring is an input of the browser.
- `moex_poll`: 2 runs, 1 asset, pages of 1 row, at most 2 pages, 2 trades, 2
  faults, 1 edit: a run that ends at the page limit and a trade that appears
  between a page and its write. The proofs cover any number of assets and runs.
- `board`: 2 runs, 1 security, ticks every 5, a lock of 4 over a budget of 3, two
  attempts of 2 with a pause of 1: the budget can end in the second attempt or
  the pause. Nothing but the board's clock and the faults is bounded in time.
- `history`: 2 assets, one night-run worker beside the tasks of assets and the
  poller, pages of one row, days up to 3 with today starting at 2, 1 fault, 1 edit
  (an asset created or switched, or a task queued by hand). With candles one asset
  is there from the start (`FirstOfDomain`), so that two can compete for the one
  place of a run; a currency has to be created, before or after the rate of that
  day was published, and its task, the nightly run and the poller overlap. Two
  currencies at once are beyond the run (the order of candidates is put to the
  test by the candles); the proof of `BackfillComplete` has any number.
- `history_flag`: the currencies of the same; one failed save.
- `live`: 2 symbols, 2 trades, 2 minutes, a tape of 2, REST answers of 1 row, 2
  sources, 1 fault: a reconnection, and a change of the symbol with tasks of the
  old source still queued.
- `queries`: 4 trades with equal and late timestamps in pages of 1 and 2, days up
  to 4 in periods of 1 and 2, truncation at 2 rows.

`MaxEntries`, `MaxTrades`, `MaxTime`, `MaxDay`, `MaxClock`, `MaxQuestions`,
`MaxTasks`, `MaxSources` and the counters `faults`, `edits`, `opened` are bounds
of the models only. Deadlock checking is off where they make a model stop.

Each module states its type invariant (`TypeOK`, `WidgetTypeOK`, `PageTypeOK`). Those of `TradeStream`,
`StreamHub` and `ChatQuota` are proved; the other proof modules prove the
typing their arguments need. The runs check the properties of section 3 and
leave them out; they hold at the same bounds in all modules.

## 4. Fairness

- `TradeStream`: weak fairness of the consumer's steps as a whole. The event
  loop runs the consumer whenever its await is over, Redis comes back after
  finitely many failures, and the compose files restart the container. Nothing
  is assumed about the producer, the clock or the administrator.
- `StreamHub`: weak fairness of the hub (tail, read with the end of a window,
  retry) and of a browser taking what it is sent; strong fairness of `Wake`,
  because a timer can beat a wake-up only when both fall due in one turn of the
  loop, and the next `wait()` with its event set returns at once.
- `BinanceFeed`: weak fairness of the watcher, of the socket (both are tasks of
  one event loop; Binance answers) and of `on_commit` after its commit.
- `MoexTrades`: weak fairness of each worker's steps (beat starts a run every
  minute) and of the expiry of an orphaned key, which Redis guarantees.
- `BoardPoller`: weak fairness of time and of each worker; strong fairness of a
  non-empty answer, because every tick asks anew and an ISS that shows the
  security does not answer with an empty board for ever.
- `DailyHistory`: weak fairness of the nightly run, of queued tasks and of the
  expiry of an orphaned key. The CBR poller may fail for ever.
- `ChatWidget`: weak fairness of the server's end of an accepted question, which
  its deadline and the closing of the connection guarantee; the user is free.
- `LivePage`: weak fairness of the browser's loop and effects and of the
  server's answers.
- None in `ChatQuota` and `ToolStats`: they make no promise of progress.

## 5. Proofs

Eight modules with theorems; everything holds for every value of the constants
that satisfies the named assumptions, which are the validation the settings do
(`RetentionSettings`, `QuotaSettings`, `ValidSseSettings`,
`ValidChangeSettings`, `BoardAssumption`: budget plus latency below the TTL,
`ChatAssumption`: a history has room for its longest message) and the typing of
the constants and bounds (the others).

`TradeStreamProofs`

- `TypeCorrect`: `Spec => []TypeOK`.
- `RetentionIsSafe`: `TrimSparesUnsettled` and `RecentTailKept`. Neither is
  inductive. `RetentionInv` adds: the group exists before anything is
  delivered; ids grow with time; everything up to `lastWritten` is settled; the
  batch in hand is the oldest part of the PEL; in the main loop the PEL is
  exactly the batch in hand; an XTRIM under way stays behind the last written
  entry and behind the gap. From the last two, the entries an XTRIM can delete
  are at or before `lastWritten`, hence settled.
- `RecentTailIsKept`: the second half of the above on its own: an entry younger
  than the gap is beyond the reach of both trims.
- `NothingLostSilently`: adds `BatchAccounted`: ids without fields were
  deleted, and a batch that is about to be acknowledged is stored, refused or
  deleted. Then a settled entry is one of the three.
- `OneBatchOwed`: `PelHoldsOneBatch`, strengthened by the size of the batch in
  hand; the only step that adds to the PEL finds it empty.
- `ConsumerIsSink`: `Spec => ImplementsSink`, by a step simulation. Without a
  step of the sink the settled prefix does not go back, because redelivered
  entries are those already owed; `WriteBatch` is a step of its `Store` because
  the batch is the oldest part of a PEL of at most `ReadCount` entries; an
  acknowledgement moves the prefix to just before the next owed entry.

`LiveProofs`

- `InOrderOnceHolds`, `NoLostWakeupHolds`: `HubInv`. What a session has
  been handed lies before what is in its cell, and that before anything the
  window's buffer holds (`Ordered`); neither cell nor buffer nor past goes
  beyond the reader's place (`Behind`), so what is read next is newer than all
  of them; and a session starts with nothing of the last one (`Fresh`). A trade that is left
  out by the selection, or replaced in a slow session's cell, is therefore gone
  for good, never late.
- `RegistryIsTrue`: `Spec => []TypeOK`, whose last parts are no typing: a hub
  exists exactly while somebody is registered, and `active` is the number of
  sessions per group.
- `ThisStreamHolds`: `TapeInv`. What is on the tape, and what a task of the
  source listened to will bring, the hub has read for this symbol; the tasks to
  come rise, and all of them lie above the tape. No task names a source that has
  not been opened yet, so a new source starts with nothing on its way, and a
  reconnection of the same source goes on above all it was sent before.
- `GuardHolds`: `ChartInv`: guard and series are drawn together, and every
  answer, on its way or kept, brings a finite series, which has an end
  (`SeriesEnds`). A tick at or after the end becomes it (`SeriesGrows`); the
  minute it has is that of a trade the hub has read, by `TapeInv`.
- `SeamHolds`: `SeamInv`: while the stream is open, the query of the symbol shown
  has failed, or is still to be read, or has rows that were the newest at a
  moment since the open event (`Recent`). The open event establishes it by
  asking anew; `raced` is exactly where it does not. A row that is not among the
  newest `RestLimit` has that many after it (`NewestAre`, `OutOfNewest`).

`DailyHistoryProofs`

- `NoHoleHolds`: `HistoryInv`. The rows of an asset are a complete beginning of
  its source. A task in the middle of an asset relies on what was stored when
  it began: everything before its start is in the table and stays there, and
  from the start on it has left out no day. Nothing in it mentions the lock,
  so it holds for two runs on the same asset and for tasks without the lock.
  Data that come late do not break it because they come after all there is
  (`Appears`).
- `BackfillCompleteHolds`: the same invariant. A first load has in hand, before it
  saves the flag, every rate up to its last day, those published before the
  currency existed included; the flag, a lost write and the poller's row each
  account for what they hide (`Backed`). Source and rows of one currency grow
  only (`NewestGrows`), a hand keeps what it holds until it is written
  (`HandStays`, `WrittenBacked`), and a later catch-up begins right after the
  newest row.

`MoexTradesProofs`

- `OneInTimeHolds`: `LockInv`: a run inside that is not overdue owns the key.
- `NoGapHolds`: `GapInv`: whoever holds a cursor, be it the row, the open form,
  a run's loaded objects or its `new_cursor` once it is past the write, has all
  trades up to it in the table. That is why a stale cursor repeats and never
  skips.
- `LiveOnceHolds`: `OnceInv`, as long as `tainted` is FALSE: nothing above the
  saved cursor has been sent; the run inside loaded the saved cursors; what it
  has chosen to send lies above the saved cursor until that is saved, and has
  not been sent.

`BoardPollerProofs`

- `OneReaderHolds`: `ClockInv`: a run at the ISS owns the lock and has less of
  its budget left than the lock has time; so has a run on its way from the lock
  to the first request, with its budget still to begin. Time keeps it because
  both count down together and a run with nothing left cannot let time pass.

- `ReportsAreTrue`: `ReportInv`: a run knows of as many failed attempts as it
  has made but for the one in flight (`Informed`), and what it has reported is
  one of the two endings its attempts allow (`Truthful`).

`ChatProofs`

- `QuotaTypeCorrect`, `CeilingHolds`: the type invariant and the daily ceiling;
  the ceiling needs only the types and the atomicity of the Lua script.
- `CallsAreCounted`, `ChargeCovers`: the requests, and the tokens, of all days
  together against the calls, and the costs, of all runs. A sum over days is a
  function by recursion on the day; what is proved of it is how it changes when
  one day does, with a lemma for a step that charges the day of now and one for
  a step that charges none. A step under way owes its reserve
  (`StepTokensType`, `ExcessBounds`), so the balance holds between its calls
  to Redis and not only at its end.
- `AnswersHold`, `DoneHolds`: `DialogueInv` and `AnswerInv`. As long as no
  stream broke after its end, at most one answer streams, it is the last
  question's, and its stream is still to settle it; every answer that streams or
  is done has the text its own stream has sent. So an event that settles
  whichever answer is streaming settles its own. `DoneStays` needs none of this:
  an answer that is done is not changed by an event of any stream, late ones
  included.
- `RequestsHold`: a history ends with its question from the start, cutting from
  the front keeps it, and the cut stops at the latest when only the question is
  left (`HistoryFits`); what is kept of the dialogue are questions that were
  valid when they were sent and answers that are done.

`BinanceFeedProofs`

- `BeliefHolds`: `BeliefInv`: the control messages on their way `Lead` from
  what the server sends to what the client believes, which is what it has noted
  and, between a send and its note, what it is about to note. A message put at
  the end leads on, one taken from the front leads from further on, and a new
  connection starts with neither (`StreamInv`: what is known of a connection
  that is not there any more).
- `LimitHolds`: on the way every set of streams `Fits` (`SetsFit`), since a
  change is sent as its unsubscriptions before its subscriptions and each in
  chunks (`PlanInv`: what is left to send and what is believed together lead to
  the wanted set).
- `WatcherCatchesUp`: `WatchInv`: a pair whose row differs from what the watcher
  last read has its event after the batch in hand, or still to be published, or
  lost (`missed`).

`QueriesProofs`

- `PlacesAreTaken`, `PlacedIsWhole`, `SortedIs`: every place of an ORDER BY has
  exactly one row, so the sequence of a finite set is that set in that order.
- `WalkHolds`: `WalkInv` and `GotInv`: what a walk has handed out lies above its
  cursor and what it still owes below it, so a row that comes late can be missed
  only if it was not there when the walk began.
- `ChartHolds`: `ChartInv`: the volumes are read after the prices, of a table
  that only grows.
- `HistoryHolds`: `HistoryInv` follows a request through its queries (all but those
  of finding 3); the lemmas
  `PeriodServes` and `EarliestServes` say what each resolved period still
  contains of what the client asked for.
- `ToolsHold`: `StatsInv`, `MovesInv` and `IndicatorsInv` (whose windows are the
  latest days held, `LastDaysAre`). The candles a tool computes from are
  those wanted that were stored at the call and some stored since
  (`CandlesServe`); periods follow each other without overlap (`PeriodsRise`,
  `KeyIs`, `InItsPeriod`), and the day a return is taken from is the next before
  (`BaseIs`, `AgainstIs`).

Only model-checked: all liveness, that is `EventuallySettled` and its like in
every run (fairness and ENABLED are outside the prover's reach), and the three
findings, which are counterexamples. Every safety property of a passing run is a
theorem.

## 6. Hazards

`PROJECT.json` lists what is hard to test in this code, line by line, with the
properties that would catch it. Two have none: an asset that fails for ever in
the MOEX run (`trades.py:125`; the loop starves those after it by construction),
and UPDATETIME without a date (`moex/client.py:130`; depends on what the ISS
shows after midnight).

## 7. Assumptions about the outside

- Redis executes a command or a script atomically; entry ids grow with the
  clock; `MINID ~` never removes an entry at or above the MINID.
- A reply that is lost surfaces as an exception in the caller: redis-py itself
  does not send a command twice.
- The uniqueness constraints with `ignore_conflicts` make a repeated insert
  have no effect: rows are sets.
- One consumer in the group, as configured; the boundary of XTRIM is right only
  then, as `docs/02` says.
- Binance handles the control messages of a connection in order; a query of
  Postgres is a snapshot; two queries outside a transaction are not.
- A browser runs the tasks of a page one at a time and in order, and does not
  take back those of a source that has been closed.

## 8. Not modelled

- LLM providers: calls to external services; what they say, with or without a
  usage report, is an input of `ChatQuota` and `ChatWidget`.
- The six locked tasks of the task runner page are those beat queues:
  `MoexTrades` and `DailyHistory` let a run start, and the CBR poller poll, at
  any time; in `BoardPoller` only beat queues. `DailyHistory` has one task of an
  asset at a time.
- The rest of the frontend (rendering, navigation, formatting), users, CMS,
  settings and deployment have no behaviour of their own; the validation of the
  settings is in the assumptions.
- Partly modelled: the quota without its warning flags and TTL; the MOEX trade
  poller without the flags of an asset and the change of the session; the CBR
  poller without its slots and budget; the stock page, which has the parts of
  the crypto page with a poll instead of a current price; the tools
  `list_assets` and `get_current`, which are one query each or two of
  unrelated tables; the Binance REST client but for a page of candles.
- Length of the streams under the hubs, numbers (prices, volumes, indicators)
  and texts: abstracted everywhere.

Candidates for more: the change of the MOEX session in `MoexTrades`; the CBR
poller's slots in `BoardPoller`'s discrete time; the delivery rule of `LivePage`
as a refinement of a session of `StreamHub`.
