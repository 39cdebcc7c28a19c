---------------------------- MODULE BinanceSocket ----------------------------
(***************************************************************************)
(* BinanceTradeStreamConsumer: one socket on the combined trade stream. The *)
(* set of pairs it should carry outlives connections, the set it believes  *)
(* it carries does not. Two tasks bring the second to the first, under one *)
(* asyncio lock: the generator stream() after it has connected, and the    *)
(* caller of update_pairs. An action is what happens between two awaits;   *)
(* Binance applies or refuses control messages in the order they arrive.   *)
(* A module that extends this one composes it with the caller.             *)
(***************************************************************************)
EXTENDS Integers, FiniteSets, Sequences

CONSTANTS
    Pairs,       \* trading pairs, as numbers in alphabetical order
    MaxStreams,  \* MAX_STREAMS_PER_CONNECTION
    MaxParams,   \* MAX_PARAMS_PER_REQUEST
    Streamer,    \* the task of _pump_trades, which runs stream()
    Watcher,     \* the task of _watch_asset_changes, which calls update_pairs
    Nobody

ASSUME SocketAssumption ==
    /\ Pairs \subseteq Nat /\ IsFiniteSet(Pairs)
    /\ MaxStreams \in Nat \ {0} /\ MaxParams \in Nat \ {0}
    /\ Streamer # Watcher /\ Streamer # Nobody /\ Watcher # Nobody

VARIABLES
    desired,     \* _desired
    subscribed,  \* _subscribed
    connection,  \* _connection: the number of the connection, 0 for None
    dialled,     \* connections opened so far
    open,        \* the last of them is open
    server,      \* the streams Binance sends on it
    control,     \* control messages on their way to Binance
    refused,     \* history: pairs of refused control messages, of this connection
    stream,      \* where stream() is
    url,         \* its `pairs`: what the connection being opened asks for
    waiting,     \* tasks at `async with self._sync_lock`
    sync         \* the locals of _sync_subscriptions while the lock is held

link   == <<open, server, control, refused>>
socket == <<desired, subscribed, connection, dialled, link, stream, url, waiting, sync>>

\* No one syncs; what the holder of the lock has: its connection, the control
\* messages left to send, and whether the first of them is already sent.
Unlocked == [by |-> Nobody, on |-> 0, plan |-> <<>>, sent |-> FALSE]

SocketDown ==
    /\ subscribed = {} /\ connection = 0
    /\ open = FALSE /\ server = {} /\ control = <<>> /\ refused = {}
    /\ stream = "off" /\ url = {}
    /\ waiting = {} /\ sync = Unlocked

SocketInit == desired = {} /\ dialled = 0 /\ SocketDown

Rank(p, S)   == Cardinality({q \in S : q < p})
MinOf(m, n)  == IF m < n THEN m ELSE n

\* _set_desired: what is above the limit is cut in alphabetical order.
Limited(S) == {p \in S : Rank(p, S) < MaxStreams}

\* _chunks of sorted pairs, each with its method.
Messages(method, S) ==
    [i \in 1..((Cardinality(S) + MaxParams - 1) \div MaxParams) |->
        [method |-> method, pairs |-> {p \in S : Rank(p, S) \div MaxParams = i - 1}]]

SubscribeFirst == Messages("SUBSCRIBE", desired \ subscribed)     \* MUTANT: the other order
                      \o Messages("UNSUBSCRIBE", subscribed \ desired)
Changes == Messages("UNSUBSCRIBE", subscribed \ desired)
               \o Messages("SUBSCRIBE", desired \ subscribed)

After(S, m) == IF m.method = "SUBSCRIBE" THEN S \union m.pairs ELSE S \ m.pairs

\* stream() takes the pairs and begins to connect; without pairs it waits. The
\* back-off before a reconnection is any delay before this step.
BeginConnect ==
    /\ stream = "idle" /\ desired # {}
    /\ url' = desired
    /\ stream' = "connecting"
    /\ UNCHANGED <<desired, subscribed, connection, dialled, link, waiting, sync>>

\* The handshake is over; the pairs may have changed meanwhile.
NoSyncAfterConnect == waiting                   \* MUTANT: the pairs of the URL are trusted
AfterConnect == waiting \union {Streamer}

\* What the new connection is taken to carry.
WantedNow == desired                            \* MUTANT: not what its URL asked for
AskedFor  == url

Connected ==
    /\ stream = "connecting"
    /\ dialled' = dialled + 1 /\ connection' = dialled + 1
    /\ open' = TRUE /\ server' = url /\ control' = <<>> /\ refused' = {}
    /\ subscribed' = AskedFor
    /\ waiting' = AfterConnect
    /\ stream' = IF Streamer \in AfterConnect THEN "sync" ELSE "open"
    /\ UNCHANGED <<desired, url, sync>>

\* OSError of the handshake.
ConnectFails ==
    /\ stream = "connecting"
    /\ stream' = "idle"
    /\ UNCHANGED <<desired, subscribed, connection, dialled, link, url, waiting, sync>>

\* A task leaves _sync_subscriptions; stream() goes on to read messages.
Leaves(task) ==
    /\ sync' = Unlocked
    /\ stream' = IF task = Streamer THEN "open" ELSE stream

\* A task gets the lock. Without a connection there is nothing to do, without
\* pairs the connection is closed.
EnterSync(task) ==
    /\ task \in waiting /\ sync.by = Nobody
    /\ waiting' = waiting \ {task}
    /\ IF connection = 0 THEN Leaves(task) /\ UNCHANGED link
       ELSE IF desired = {} THEN /\ Leaves(task)
                                 /\ open' = FALSE /\ server' = {} /\ control' = <<>> /\ refused' = {}
       ELSE IF Changes = <<>> THEN Leaves(task) /\ UNCHANGED link
       ELSE /\ sync' = [by |-> task, on |-> connection, plan |-> Changes, sent |-> FALSE]
            /\ UNCHANGED <<link, stream>>
    /\ UNCHANGED <<desired, subscribed, connection, dialled, url>>

\* _send_control; on a connection that is gone it raises, and the sync ends.
Send(task) ==
    /\ sync.by = task /\ ~sync.sent
    /\ IF open /\ dialled = sync.on
       THEN /\ control' = Append(control, Head(sync.plan))
            /\ sync' = [sync EXCEPT !.sent = TRUE]
            /\ UNCHANGED stream
       ELSE Leaves(task) /\ UNCHANGED control
    /\ UNCHANGED <<desired, subscribed, connection, dialled, open, server, refused, url, waiting>>

\* `if self._connection is not connection: return` after the send.
SameConnection == connection = sync.on

\* The chunk is noted, and the next one is due.
Note(task) ==
    /\ sync.by = task /\ sync.sent
    /\ IF SameConnection
       THEN /\ subscribed' = After(subscribed, Head(sync.plan))
            /\ IF Len(sync.plan) = 1 THEN Leaves(task)
               ELSE /\ sync' = [sync EXCEPT !.plan = Tail(@), !.sent = FALSE]
                    /\ UNCHANGED stream
       ELSE Leaves(task) /\ UNCHANGED subscribed
    /\ UNCHANGED <<desired, connection, dialled, link, url, waiting>>

\* Binance handles a control message. A refusal is answered with an error,
\* which _handle_control_response only logs.
Applies ==
    /\ control # <<>>
    /\ server' = After(server, Head(control))
    /\ control' = Tail(control)
    /\ UNCHANGED <<desired, subscribed, connection, dialled, open, refused, stream, url, waiting, sync>>

Refuses ==
    /\ control # <<>>
    /\ control' = Tail(control)
    /\ refused' = refused \union Head(control).pairs
    /\ UNCHANGED <<desired, subscribed, connection, dialled, open, server, stream, url, waiting, sync>>

Hangup == open' = FALSE /\ server' = {} /\ control' = <<>> /\ refused' = {}

\* The connection breaks; stream() finds out when it reads.
Drop ==
    /\ open /\ Hangup
    /\ UNCHANGED <<desired, subscribed, connection, dialled, stream, url, waiting, sync>>

\* The reading ends, normally or with an exception: the `finally` of stream().
Ended ==
    /\ stream = "open" /\ ~open
    /\ connection' = 0 /\ subscribed' = {}
    /\ stream' = "idle"
    /\ UNCHANGED <<desired, dialled, link, url, waiting, sync>>

\* XADD of a trade fails: _pump_trades sleeps while the generator is suspended
\* with its connection, then closes it and starts another.
PumpFails ==
    /\ stream = "open"
    /\ stream' = "suspended"
    /\ UNCHANGED <<desired, subscribed, connection, dialled, link, url, waiting, sync>>

PumpRestarts ==
    /\ stream = "suspended"
    /\ Hangup
    /\ stream' = "open"
    /\ UNCHANGED <<desired, subscribed, connection, dialled, url, waiting, sync>>

\* _set_desired and the call of _sync_subscriptions in update_pairs.
UpdatePairs(S) ==
    /\ desired' = Limited(S)
    /\ waiting' = waiting \union {Watcher}
    /\ UNCHANGED <<subscribed, connection, dialled, link, stream, url, sync>>

\* The first update_pairs has returned: both tasks start.
StreamStarts ==
    /\ stream = "off"
    /\ stream' = "idle"
    /\ UNCHANGED <<desired, subscribed, connection, dialled, link, url, waiting, sync>>

\* The process dies, and with it its connection.
SocketDies ==
    /\ subscribed' = {} /\ connection' = 0 /\ desired' = {}
    /\ Hangup
    /\ stream' = "off" /\ url' = {} /\ waiting' = {} /\ sync' = Unlocked
    /\ UNCHANGED dialled

\* What the socket and Binance do when nothing goes wrong.
SocketWorks ==
    \/ BeginConnect \/ Connected \/ Ended \/ PumpRestarts \/ Applies
    \/ \E task \in {Streamer, Watcher} : EnterSync(task) \/ Send(task) \/ Note(task)

SocketTrouble == ConnectFails \/ Refuses \/ Drop \/ PumpFails

-----------------------------------------------------------------------------
SocketTypeOK ==
    /\ desired \subseteq Pairs /\ Cardinality(desired) <= MaxStreams
    /\ subscribed \subseteq Pairs
    /\ dialled \in Nat /\ connection \in 0..dialled
    /\ open \in BOOLEAN /\ server \subseteq Pairs /\ refused \subseteq Pairs
    /\ \A i \in 1..Len(control) : control[i].pairs \subseteq Pairs
    /\ stream \in {"off", "idle", "connecting", "sync", "open", "suspended"}
    /\ url \subseteq Pairs
    /\ waiting \subseteq {Streamer, Watcher}
    /\ sync.by \in {Streamer, Watcher, Nobody} /\ sync.on \in 0..dialled
    /\ sync.sent \in BOOLEAN

\* What Binance will send when it has handled what is on its way.
Applied(S, ms) ==
    LET upTo[i \in 0..Len(ms)] == IF i = 0 THEN S ELSE After(upTo[i - 1], ms[i])
    IN  upTo[Len(ms)]

\* What the client will believe when the chunk just sent is noted.
Believed == IF sync.sent /\ sync.on = connection THEN After(subscribed, Head(sync.plan))
            ELSE subscribed

\* On an open connection the client's belief is true but for what Binance
\* refused, whatever reconnections came between a send and its noting: this is
\* what lets it compute the next difference without asking Binance.
BeliefIsTrue ==
    connection # 0 /\ open /\ refused = {} => Applied(server, control) = Believed

\* Binance is never asked for more streams than a connection may carry, not
\* even between the messages of one change.
StreamsWithinLimit == refused = {} => Cardinality(server) <= MaxStreams
=============================================================================
