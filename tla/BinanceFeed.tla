----------------------------- MODULE BinanceFeed -----------------------------
(***************************************************************************)
(* From the table of crypto assets to the pairs Binance sends trades of.   *)
(* Requests of the admin change the rows and, when their transaction has   *)
(* committed, append an event to a Redis stream; the watcher of            *)
(* stream_binance reads the events, reads the active rows again and hands  *)
(* them to the socket (BinanceSocket).                                     *)
(***************************************************************************)
EXTENDS BinanceSocket

CONSTANTS
    Requests,   \* Django requests under way at the same time
    ReadCount,  \* MARKET_DATA_CRYPTO_ASSET_CHANGES_READ_COUNT
    MaxEdits,   \* bound: requests
    MaxFaults   \* bound: failures of any kind

\* validate_crypto_asset_change_settings: its settings are positive. (The other
\* three are a length and two times, which this model leaves out: the stream of
\* changes keeps every entry, XREAD and XADD take any time.)
ValidChangeSettings == ReadCount > 0

ASSUME FeedAssumption ==
    ReadCount \in Nat /\ ValidChangeSettings /\ MaxEdits \in Nat /\ MaxFaults \in Nat

VARIABLES
    rows,        \* CryptoAsset: "on" and "off" are is_active, "none" no row
    request,     \* what a request holds: its asset and the subscription snapshot
    events,      \* entries ever added to the stream of asset changes
    watch,       \* where the watcher is
    lastId,      \* its last_id
    batch,       \* the last id of the batch it handles
    recovering,  \* its flag: Redis was lost
    fetched,     \* the active pairs it has read from the database
    missed,      \* history: pairs changed without an event since that reading
    edits, faults

admin   == <<rows, request, events>>
watcher == <<watch, lastId, batch, recovering, fetched>>
bounds  == <<edits, faults>>
vars    == <<socket, admin, watcher, missed, bounds>>

\* pc, pair, and the value the row had when the request loaded it.
NoRequest == [at |-> "none", pair |-> 0, seen |-> "none"]

WatcherDown == watch = "start" /\ lastId = 0 /\ batch = 0 /\ recovering = FALSE /\ fetched = {}

Init ==
    /\ SocketInit
    /\ rows \in [Pairs -> {"none", "off", "on"}]
    /\ request = [r \in Requests |-> NoRequest]
    /\ events = 0
    /\ WatcherDown
    /\ missed = {}
    /\ edits = 0 /\ faults = 0

\* _active_trading_pairs.
Active == {p \in Pairs : rows[p] = "on"}

-----------------------------------------------------------------------------
\* The requests.

NewRequest(r) == request[r].at = "none" /\ edits < MaxEdits /\ edits' = edits + 1

\* on_commit is due: the row is written.
Commits(r, p, value) ==
    /\ rows' = [rows EXCEPT ![p] = value]
    /\ request' = [request EXCEPT ![r] = [at |-> "publish", pair |-> p, seen |-> "none"]]
    /\ UNCHANGED missed

\* Creating and deleting always publish.
Create(r, p, value) ==
    /\ NewRequest(r)
    /\ rows[p] = "none" /\ value # "none"
    /\ Commits(r, p, value)
    /\ UNCHANGED <<socket, events, watcher, faults>>

Delete(r, p) ==
    /\ NewRequest(r)
    /\ rows[p] # "none"
    /\ Commits(r, p, "none")
    /\ UNCHANGED <<socket, events, watcher, faults>>

\* from_db: the request has the object, with a snapshot of its fields.
LoadAsset(r, p) ==
    /\ NewRequest(r)
    /\ rows[p] # "none"
    /\ request' = [request EXCEPT ![r] = [at |-> "loaded", pair |-> p, seen |-> rows[p]]]
    /\ UNCHANGED <<socket, rows, events, watcher, missed, faults>>

\* save() writes all fields, inserting the row again if it is gone. An event
\* is due if the row is new or a field differs from the snapshot: a row that
\* another request has changed since is overwritten without one.
SaveAsset(r, value) ==
    LET p == request[r].pair
    IN  /\ request[r].at = "loaded" /\ value # "none"
        /\ IF rows[p] = "none" \/ value # request[r].seen THEN Commits(r, p, value)
           ELSE /\ rows' = [rows EXCEPT ![p] = value]
                /\ request' = [request EXCEPT ![r] = NoRequest]
                /\ missed' = IF rows[p] = value THEN missed ELSE missed \union {p}
        /\ UNCHANGED <<socket, events, watcher, bounds>>

\* publish_crypto_asset_change.
Publish(r) ==
    /\ request[r].at = "publish"
    /\ events' = events + 1
    /\ request' = [request EXCEPT ![r] = NoRequest]
    /\ UNCHANGED <<socket, rows, watcher, missed, bounds>>

\* RedisError is logged and swallowed, also when XADD was executed and only
\* its reply was lost; a process that dies here leaves no event either.
PublishFails(r) ==
    /\ request[r].at = "publish"
    /\ \/ events' = events + 1 /\ UNCHANGED missed
       \/ missed' = missed \union {request[r].pair} /\ UNCHANGED events
    /\ request' = [request EXCEPT ![r] = NoRequest]
    /\ UNCHANGED <<socket, rows, watcher, edits>>

-----------------------------------------------------------------------------
\* The watcher.

\* resolve_start_id, before the active pairs are read for the first time.
ResolveStart ==
    /\ watch = "start"
    /\ lastId' = events /\ batch' = events
    /\ watch' = "load"
    /\ UNCHANGED <<socket, admin, recovering, fetched, missed, bounds>>

\* The reading of the rows, at the start and in _reconcile. A DatabaseError is
\* retried there and ends the process at the start.
LoadRows ==
    /\ watch = "load"
    /\ fetched' = Active /\ missed' = {}
    /\ watch' = "update"
    /\ UNCHANGED <<socket, admin, lastId, batch, recovering, bounds>>

\* The reply of the database is there: update_pairs.
Update ==
    /\ watch = "update"
    /\ UpdatePairs(fetched)
    /\ watch' = "sync"
    /\ UNCHANGED <<admin, lastId, batch, recovering, fetched, missed, bounds>>

\* update_pairs returns, and only now last_id moves; at the start it is
\* followed by the two tasks.
NewestId  == events             \* MUTANT: `$` instead of the batch's last id
HandledId == batch

Updated ==
    /\ watch = "sync" /\ Watcher \notin waiting /\ sync.by # Watcher
    /\ watch' = "read"
    /\ lastId' = HandledId /\ recovering' = FALSE
    /\ IF stream = "off" THEN StreamStarts ELSE UNCHANGED socket
    /\ UNCHANGED <<admin, batch, fetched, missed, bounds>>

\* XREAD: the oldest entries after last_id. Without any it blocks, and with
\* `recovering` one reconciliation follows all the same.
EventsOnly == lastId < events    \* MUTANT: without the reconciliation of `recovering`
Due        == lastId < events \/ recovering

ReadChanges ==
    /\ watch = "read" /\ Due
    /\ batch' = MinOf(lastId + ReadCount, events)
    /\ watch' = "load"
    /\ UNCHANGED <<socket, admin, lastId, recovering, fetched, missed, bounds>>

\* Redis is lost while reading.
ReadFails ==
    /\ watch = "read"
    /\ recovering' = TRUE
    /\ UNCHANGED <<socket, admin, watch, lastId, batch, fetched, missed, edits>>

\* The process dies (a handshake Binance rejects, a database error at the
\* start, the container) and is started again.
Crash ==
    /\ watch # "start"
    /\ SocketDies
    /\ watch' = "start" /\ lastId' = 0 /\ batch' = 0 /\ recovering' = FALSE /\ fetched' = {}
    /\ UNCHANGED <<admin, missed, edits>>

WatcherWorks == ResolveStart \/ LoadRows \/ Update \/ Updated \/ ReadChanges

Socket(A) == A /\ UNCHANGED <<admin, watcher, missed, edits>>

Next ==
    \/ \E r \in Requests, p \in Pairs :
           LoadAsset(r, p) \/ Delete(r, p) \/ \E v \in {"off", "on"} : Create(r, p, v)
    \/ \E r \in Requests, v \in {"off", "on"} : SaveAsset(r, v)
    \/ \E r \in Requests : Publish(r)
    \/ WatcherWorks
    \/ Socket(SocketWorks) /\ UNCHANGED faults
    \/ /\ faults < MaxFaults /\ faults' = faults + 1
       /\ (\E r \in Requests : PublishFails(r)) \/ ReadFails \/ Crash \/ Socket(SocketTrouble)

Spec == Init /\ [][Next]_vars

\* The event loop runs every task whose await is over, Binance answers,
\* on_commit follows its commit and the container is started again. Nobody is
\* obliged to edit assets.
Fairness ==
    /\ WF_vars(WatcherWorks)
    /\ WF_vars(Socket(SocketWorks) /\ UNCHANGED faults)
    /\ \A r \in Requests : WF_vars(Publish(r))

FairSpec == Spec /\ Fairness

-----------------------------------------------------------------------------
TypeOK ==
    /\ SocketTypeOK
    /\ rows \in [Pairs -> {"none", "off", "on"}]
    /\ \A r \in Requests : request[r].at \in {"none", "loaded", "publish"}
    /\ events \in 0..MaxEdits
    /\ watch \in {"start", "load", "update", "sync", "read"}
    /\ lastId \in 0..events /\ batch \in lastId..events
    /\ recovering \in BOOLEAN /\ fetched \subseteq Pairs /\ missed \subseteq Pairs

\* Whatever is edited while the process starts, reads or reconciles: once it
\* has read all events and none is still to come, the desired pairs are the
\* active rows, unless a change was committed without an event.
CaughtUp ==
    (/\ watch = "read" /\ lastId = events /\ missed = {}
     /\ \A r \in Requests : request[r].at # "publish")
        => desired = Limited(Active)

\* A change whose event was lost before the watcher noticed the loss of Redis
\* is found when it has its connection back. (One lost after the rows were
\* read and before the watcher reads events again waits for the next event.)
RecoveryFindsMissed ==
    \A p \in Pairs : (watch = "read" /\ recovering /\ p \in missed) ~> (p \notin missed)

\* In the end Binance sends the trades of the active rows and of no other,
\* whatever crashes, lost connections and concurrent edits came before: unless
\* a change stays without an event, or Binance has refused a message.
Converges ==
    <>[](missed = {} /\ refused = {}) => <>[](server = Limited(Active))
=============================================================================
