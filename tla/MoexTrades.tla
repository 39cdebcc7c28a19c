----------------------------- MODULE MoexTrades -----------------------------
(***************************************************************************)
(* The poller of the MOEX trade feed. Every tick starts a Celery run of    *)
(* `poll_trades`: it loads the tracked assets with their cursors, takes a  *)
(* Redis lock, reads each asset's feed page by page from the cursor it     *)
(* loaded, writes each page, saves the cursor and sends the freshest       *)
(* trades to the live stream. Runs overlap: ticks come every minute, a run *)
(* may take longer, and the task can also be started by hand. The asset's  *)
(* edit form in the admin writes the cursor too.                           *)
(***************************************************************************)
EXTENDS Integers, FiniteSets

CONSTANTS
    Runs,       \* Celery processes that execute the task
    Assets,     \* active assets with track_trades
    PageRows,   \* TRADES_PAGE_ROWS
    PageLimit,  \* MOEX_TRADES_PAGE_LIMIT
    TopN,       \* MOEX_TRADE_STREAM_TOP_N
    Free,       \* the lock's key does not exist
    Orphan,     \* a token no living run holds
    NoAsset,
    MaxTrades,  \* bound: trades of an asset in the session
    MaxFaults,  \* bound: failures of any kind
    MaxEdits    \* bound: openings of the edit form

ASSUME MoexAssumption ==
    /\ PageRows \in Nat \ {0} /\ PageLimit \in Nat \ {0} /\ TopN \in Nat \ {0}
    /\ MaxTrades \in Nat /\ MaxFaults \in Nat /\ MaxEdits \in Nat
    /\ Free \notin Runs /\ Orphan \notin Runs /\ Free # Orphan
    /\ NoAsset \notin Assets

VARIABLES
    feed,       \* trades the ISS has shown, numbered from 1 in TRADENO order
    aged,       \* trades up to this number were older than the cutoff at the last look
    rows,       \* StockTrade rows
    cursor,     \* StockAsset.last_trade_no in the database, 0 for null
    live,       \* trades in the live stream
    twice,      \* history: trades sent to the live stream more than once
    lock,       \* the owner of TRADES_LOCK_KEY
    pc,         \* where a run is
    known,      \* the cursors of the asset objects a run has loaded
    todo,       \* assets a run has not reached
    local,      \* the locals of a run's _poll_asset
    overdue,    \* the lock expired under the run, so its deadline has passed
    form,       \* the cursor in the edit form an operator has open
    faults, edits,
    tainted     \* history: a stale cursor was used, the lock expired under a
                \* run, or the edit form was saved

market == <<feed, aged>>
db     == <<rows, cursor>>
stream == <<live, twice>>
run    == <<pc, known, todo, local, overdue>>
bounds == <<faults, edits>>
vars   == <<market, db, stream, lock, run, form, bounds, tainted>>

Phases == {"idle", "loaded", "next", "fetch", "write", "save", "publish", "release"}
NoForm    == -1
NoCursors == [a \in Assets |-> 0]
NoTrades  == [a \in Assets |-> {}]

\* asset, cutoff, pages, new_cursor, candidates, and the last of the rows of
\* the page just read.
NoLocal == [asset |-> NoAsset, cutoff |-> 0, pages |-> 0, new |-> 0, last |-> 0, chosen |-> {}]

\* The run's asset, and whether it is within redis_lock.
On(r)     == local[r].asset
Inside(r) == pc[r] \notin {"idle", "loaded"}

Init ==
    /\ feed = [a \in Assets |-> 0] /\ aged = [a \in Assets |-> 0]
    /\ rows = NoTrades /\ cursor = NoCursors
    /\ live = NoTrades /\ twice = NoTrades
    /\ lock = Free
    /\ pc = [r \in Runs |-> "idle"]
    /\ known = [r \in Runs |-> NoCursors]
    /\ todo = [r \in Runs |-> {}]
    /\ local = [r \in Runs |-> NoLocal]
    /\ overdue = [r \in Runs |-> FALSE]
    /\ form = [a \in Assets |-> NoForm]
    /\ faults = 0 /\ edits = 0
    /\ tainted = FALSE

Fault == faults < MaxFaults /\ faults' = faults + 1 /\ UNCHANGED edits
Goto(r, phase) == pc' = [pc EXCEPT ![r] = phase]

\* The task is over and its memory is gone.
Ends(r) ==
    /\ Goto(r, "idle")
    /\ known' = [known EXCEPT ![r] = NoCursors]
    /\ todo' = [todo EXCEPT ![r] = {}]
    /\ local' = [local EXCEPT ![r] = NoLocal]
    /\ overdue' = [overdue EXCEPT ![r] = FALSE]

\* A trade appears in the feed.
Trade(a) ==
    /\ feed[a] < MaxTrades
    /\ feed' = [feed EXCEPT ![a] = @ + 1]
    /\ UNCHANGED <<aged, db, stream, lock, run, form, bounds, tainted>>

\* run(): the assets are loaded before the lock is asked for.
Load(r) ==
    /\ pc[r] = "idle"
    /\ Goto(r, "loaded")
    /\ known' = [known EXCEPT ![r] = cursor]
    /\ UNCHANGED <<market, db, stream, lock, todo, local, overdue, form, bounds, tainted>>

\* SET NX EX; _poll then computes the deadline of the whole run.
Acquire(r) ==
    /\ pc[r] = "loaded" /\ lock = Free
    /\ lock' = r
    /\ Goto(r, "next")
    /\ todo' = [todo EXCEPT ![r] = Assets]
    /\ tainted' = (tainted \/ known[r] # cursor)
    /\ UNCHANGED <<market, db, stream, known, local, overdue, form, bounds>>

\* LockBusyError: the tick is skipped.
Busy(r) ==
    /\ pc[r] = "loaded" /\ lock # Free
    /\ Ends(r)
    /\ UNCHANGED <<market, db, stream, lock, form, bounds, tainted>>

\* Redis fails on SET: the key may have been set, and then nobody releases it.
AcquireFails(r) ==
    /\ pc[r] = "loaded" /\ Fault
    /\ lock' \in {lock} \union (IF lock = Free THEN {Orphan} ELSE {})
    /\ Ends(r)
    /\ UNCHANGED <<market, db, stream, form, tainted>>

\* _poll_asset starts from the cursor of the object loaded by run(), and the
\* cutoff is taken from the clock: since the last look trades may have aged.
Start(r, a, cutoff) ==
    /\ pc[r] = "next" /\ a \in todo[r]
    /\ cutoff \in aged[a]..feed[a]
    /\ aged' = [aged EXCEPT ![a] = cutoff]
    /\ Goto(r, "fetch")
    /\ todo' = [todo EXCEPT ![r] = @ \ {a}]
    /\ local' = [local EXCEPT ![r] =
           [NoLocal EXCEPT !.asset = a, !.cutoff = cutoff, !.new = known[r][a]]]
    /\ UNCHANGED <<feed, db, stream, lock, known, overdue, form, bounds, tainted>>

Finish(r) ==
    /\ pc[r] = "next" /\ todo[r] = {}
    /\ Goto(r, "release")
    /\ UNCHANGED <<market, db, stream, lock, known, todo, local, overdue, form, bounds, tainted>>

\* The only step under the run's deadline: a page of the rows after the
\* cursor. An empty page ends the asset.
Fetch(r) ==
    LET l     == local[r]
        shown == feed[l.asset]
        last  == IF l.new + PageRows < shown THEN l.new + PageRows ELSE shown
    IN  /\ pc[r] = "fetch" /\ ~overdue[r]
        /\ local' = [local EXCEPT ![r].pages = @ + 1, ![r].last = last]
        /\ Goto(r, IF l.new < shown THEN "write" ELSE "save")
        /\ UNCHANGED <<market, db, stream, lock, known, todo, overdue, form, bounds, tainted>>

\* What a run does after an exception: the clients are closed and the lock is
\* released; the cursor of the asset is not saved.
Abort(r) ==
    /\ Goto(r, "release")
    /\ UNCHANGED <<market, stream, lock, known, todo, local, overdue, form, tainted>>

\* ProviderConnectionError or PollBudgetExceededError; after the deadline a
\* request can only be cancelled.
FetchFails(r) ==
    /\ pc[r] = "fetch" /\ ~overdue[r] /\ Fault
    /\ Abort(r)
    /\ UNCHANGED db

FetchCancelled(r) ==
    /\ pc[r] = "fetch" /\ overdue[r]
    /\ Abort(r)
    /\ UNCHANGED <<db, bounds>>

Newest(S) == {i \in S : Cardinality({j \in S : j > i}) < TopN}

\* abulk_create with ignore_conflicts.
RowsRead(r) == local[r].new + 1 .. local[r].last
PageWritten(r) == [rows EXCEPT ![On(r)] = @ \union RowsRead(r)]

\* The cursor after a page: its last row.
FeedsEnd(r) == feed[On(r)]              \* MUTANT: the newest trade there is
Advanced(r) == local[r].last

\* A short page or the page limit ends the asset.
More(r) == Cardinality(RowsRead(r)) = PageRows /\ local[r].pages < PageLimit

\* A page is written, and the candidates are chosen again with its fresh rows.
Write(r) ==
    LET fresh == {i \in RowsRead(r) : i > local[r].cutoff}
    IN  /\ pc[r] = "write"
        /\ rows' = PageWritten(r)
        /\ local' = [local EXCEPT ![r].chosen = Newest(@ \union fresh), ![r].new = Advanced(r)]
        /\ Goto(r, IF More(r) THEN "fetch" ELSE "save")
        /\ UNCHANGED <<market, cursor, stream, lock, known, todo, overdue, form, bounds, tainted>>

\* The exception may hide a commit.
WriteFails(r) ==
    /\ pc[r] = "write" /\ Fault
    /\ rows' \in {rows, PageWritten(r)}
    /\ Abort(r)
    /\ UNCHANGED cursor

\* The cursor written when the asset's pages are read, if it has moved.
Forgotten(r) == known[r][On(r)]         \* MUTANT: the cursor is not saved
Saved(r)     == local[r].new
CursorSaved(r) == [cursor EXCEPT ![On(r)] = Saved(r)]

Save(r) ==
    /\ pc[r] = "save"
    /\ IF local[r].new = known[r][On(r)] THEN UNCHANGED <<cursor, known>>
       ELSE /\ cursor' = CursorSaved(r)
            /\ known' = [known EXCEPT ![r][On(r)] = Saved(r)]
    /\ Goto(r, "publish")
    /\ UNCHANGED <<market, rows, stream, lock, todo, local, overdue, form, bounds, tainted>>

SaveFails(r) ==
    /\ pc[r] = "save" /\ local[r].new # known[r][On(r)] /\ Fault
    /\ cursor' \in {cursor, CursorSaved(r)}
    /\ Abort(r)
    /\ UNCHANGED rows

Send(a, trades) ==
    /\ twice' = [twice EXCEPT ![a] = @ \union (live[a] \intersect trades)]
    /\ live' = [live EXCEPT ![a] = @ \union trades]

\* _poll_asset returns.
NextAsset(r) ==
    /\ Goto(r, "next")
    /\ local' = [local EXCEPT ![r] = NoLocal]
    /\ UNCHANGED <<market, db, lock, known, todo, overdue, form, tainted>>

\* _publish. It swallows the stream's failures, and the pipeline is not a
\* transaction: a prefix of it may have been executed.
Publish(r) ==
    /\ pc[r] = "publish"
    /\ Send(On(r), local[r].chosen)
    /\ NextAsset(r)
    /\ UNCHANGED bounds

PublishFails(r) ==
    /\ pc[r] = "publish" /\ local[r].chosen # {} /\ Fault
    /\ \E k \in {0} \union local[r].chosen : Send(On(r), {i \in local[r].chosen : i <= k})
    /\ NextAsset(r)

\* DEL if the token is still the run's own.
BareDelete(r) == Free                   \* MUTANT: DEL without looking
Released(r)   == IF lock = r THEN Free ELSE lock

Release(r) ==
    /\ pc[r] = "release"
    /\ lock' = Released(r)
    /\ Ends(r)
    /\ UNCHANGED <<market, db, stream, form, bounds, tainted>>

\* Without the run its token is nobody's.
Abandoned(r) == IF lock = r THEN Orphan ELSE lock

ReleaseFails(r) ==
    /\ pc[r] = "release" /\ Fault
    /\ lock' = Abandoned(r)
    /\ Ends(r)
    /\ UNCHANGED <<market, db, stream, form, tainted>>

\* The worker dies.
Crash(r) ==
    /\ pc[r] # "idle" /\ Fault
    /\ lock' = Abandoned(r)
    /\ Ends(r)
    /\ UNCHANGED <<market, db, stream, form, tainted>>

\* EX: the key expires, be it an orphan or a run's whose writes took longer
\* than the margin between the deadline and the TTL.
OrphanExpires ==
    /\ lock = Orphan
    /\ lock' = Free
    /\ UNCHANGED <<market, db, stream, run, form, bounds, tainted>>

LockExpires(r) ==
    /\ lock = r /\ Fault
    /\ lock' = Free
    /\ overdue' = [overdue EXCEPT ![r] = TRUE]
    /\ tainted' = TRUE
    /\ UNCHANGED <<market, db, stream, pc, known, todo, local, form>>

\* The edit form of an asset holds all its fields, the cursor among them:
\* what it showed when it was opened is what saving it writes.
OpenForm(a) ==
    /\ edits < MaxEdits /\ form[a] = NoForm
    /\ edits' = edits + 1
    /\ form' = [form EXCEPT ![a] = cursor[a]]
    /\ UNCHANGED <<market, db, stream, lock, run, faults, tainted>>

SaveForm(a) ==
    /\ form[a] # NoForm
    /\ cursor' = [cursor EXCEPT ![a] = form[a]]
    /\ form' = [form EXCEPT ![a] = NoForm]
    /\ tainted' = TRUE
    /\ UNCHANGED <<market, rows, stream, lock, run, bounds>>

\* What a run does when nothing goes wrong.
Work(r) ==
    \/ Load(r) \/ Acquire(r) \/ Busy(r)
    \/ \E a \in Assets, cutoff \in 0..MaxTrades : Start(r, a, cutoff)
    \/ Finish(r) \/ Fetch(r) \/ FetchCancelled(r) \/ Write(r) \/ Save(r) \/ Publish(r) \/ Release(r)

Trouble(r) ==
    \/ AcquireFails(r) \/ FetchFails(r) \/ WriteFails(r) \/ SaveFails(r)
    \/ PublishFails(r) \/ ReleaseFails(r) \/ Crash(r) \/ LockExpires(r)

Next ==
    \/ \E a \in Assets : Trade(a) \/ OpenForm(a) \/ SaveForm(a)
    \/ \E r \in Runs : Work(r) \/ Trouble(r)
    \/ OrphanExpires

Spec == Init /\ [][Next]_vars

\* Beat starts a run every minute and a worker executes it; Redis expires keys.
\* Nothing obliges the operator or the market.
Fairness == (\A r \in Runs : WF_vars(Work(r))) /\ WF_vars(OrphanExpires)

FairSpec == Spec /\ Fairness

-----------------------------------------------------------------------------
\* Every variable has its type, and no asset is read further than the page
\* limit in one run.
TypeOK ==
    /\ feed \in [Assets -> 0..MaxTrades] /\ aged \in [Assets -> 0..MaxTrades]
    /\ rows \in [Assets -> SUBSET (1..MaxTrades)] /\ cursor \in [Assets -> 0..MaxTrades]
    /\ live \in [Assets -> SUBSET (1..MaxTrades)] /\ twice \in [Assets -> SUBSET (1..MaxTrades)]
    /\ lock \in Runs \union {Free, Orphan}
    /\ pc \in [Runs -> Phases]
    /\ known \in [Runs -> [Assets -> 0..MaxTrades]]
    /\ todo \in [Runs -> SUBSET Assets]
    /\ local \in [Runs -> [asset : Assets \union {NoAsset}, cutoff : 0..MaxTrades,
                           pages : 0..PageLimit, new : 0..MaxTrades, last : 0..MaxTrades,
                           chosen : SUBSET (1..MaxTrades)]]
    /\ overdue \in [Runs -> BOOLEAN]
    /\ form \in [Assets -> {NoForm} \union 0..MaxTrades]
    /\ faults \in 0..MaxFaults /\ edits \in 0..MaxEdits
    /\ tainted \in BOOLEAN

\* Whatever fails and whoever writes the cursor, no trade at or below it is
\* missing from the table: what a later run will not read again is stored.
NoGap == \A a \in Assets : 1..cursor[a] \subseteq rows[a]

\* The lock, its owner's token and the deadline inside its TTL together: two
\* runs are never both in time, so no two of them read the feed at once.
OneInTime ==
    \A r, s \in Runs : Inside(r) /\ ~overdue[r] /\ Inside(s) /\ ~overdue[s] => r = s

\* "Never a duplicate": crashes and failures between the cursor and the stream
\* lose trades of the live stream but do not repeat them. What is needed for
\* it is that no run has started from a cursor that is not the saved one, that
\* no lock has expired under a run, and that nobody has edited the cursor.
LiveOnce == ~tainted => \A a \in Assets : twice[a] = {}

\* Every trade the feed has shown gets its row: no failure, orphaned lock,
\* stale cursor or edited cursor stops the catching up for good.
EventuallyStored ==
    \A a \in Assets, i \in 1..MaxTrades : (feed[a] >= i) ~> (i \in rows[a])
=============================================================================
