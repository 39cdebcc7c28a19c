---------------------------- MODULE TradeStream ----------------------------
(***************************************************************************)
(* The trade pipeline between two processes: `stream_binance` appends each *)
(* trade to a Redis Stream with XADD, `consume_market_data_stream` reads   *)
(* the stream through a consumer group, writes the batch to Postgres,      *)
(* acknowledges it with XACK and trims the stream.                         *)
(*                                                                         *)
(* An entry of the stream is named by its position in `log`; positions are *)
(* ordered like Redis ids, and log[i].ms is the millisecond part of an id. *)
(* Redis deletes only from the old end, so what is left of the stream is   *)
(* trimmed+1 .. Len(log).                                                  *)
(***************************************************************************)
EXTENDS Integers, Sequences, FiniteSets

CONSTANTS
    Pairs,          \* the trading pairs of the entries
    Malformed,      \* the "pair" of an entry whose fields do not decode
    ReadCount,      \* MARKET_DATA_TRADE_READ_COUNT
    Gap,            \* MARKET_DATA_TRADE_TRIM_GAP_SECONDS
    Ceiling,        \* MARKET_DATA_TRADE_STREAM_CEILING_SECONDS
    Interval,       \* MARKET_DATA_TRADE_TRIM_INTERVAL_SECONDS
    MaxEntries,     \* bound: entries ever added
    MaxTime,        \* bound: the clock
    MaxFaults,      \* bound: lost replies, failed writes and crashes together
    MaxEdits        \* bound: edits of the assets by an administrator

\* validate_trade_stream_retention refuses any other setting at import time.
ValidRetention == 0 < Interval /\ Interval < Gap /\ Gap < Ceiling

ASSUME RetentionSettings ==
    /\ Gap \in Nat /\ Ceiling \in Nat /\ Interval \in Nat
    /\ ValidRetention

ASSUME BoundsAssumption ==
    /\ ReadCount \in Nat \ {0}
    /\ MaxEntries \in Nat /\ MaxTime \in Nat /\ MaxFaults \in Nat /\ MaxEdits \in Nat
    /\ Malformed \notin Pairs

VARIABLES
    log,          \* every entry ever added, oldest first
    trimmed,      \* how many of the oldest entries retention has deleted
    group,        \* whether the consumer group exists
    delivered,    \* the group's last delivered entry, 0 for none
    pel,          \* delivered and not acknowledged: the consumer's PEL
    pc,           \* what the consumer awaits
    phase,        \* _recover_pending or the main loop
    batch,        \* message_ids of the batch in hand
    events,       \* those of them that came with their fields
    written,      \* the batch was written without an exception
    lastWritten,  \* TradeStreamTrimmer._last_written, 0 for None
    lastTrim,     \* TradeStreamTrimmer._last_trim_at
    boundary,     \* the MINID of the XTRIM under way
    rows,         \* the entries with a CryptoPriceSnapshot row
    asset,        \* the CryptoAsset of each pair
    now,          \* the clock
    faults,       \* faults left
    edits,        \* administrator edits left
    refused,      \* history: entries whose write raised or was skipped
    cutByCeiling  \* history: entries deleted by the producer's MINID

redis    == <<log, trimmed, group, delivered, pel, cutByCeiling>>
consumer == <<pc, phase, batch, events, written>>
trimmer  == <<lastWritten, lastTrim, boundary>>
database == <<rows, asset, edits, refused>>
vars     == <<redis, consumer, trimmer, database, now, faults>>

Entry == [ms: 0..MaxTime, pair: Pairs \union {Malformed}]

Minimum(a, b) == IF a < b THEN a ELSE b

\* The COUNT first members of a set of entries.
FirstOf(S, count) == {i \in S : Cardinality({j \in S : j < i}) < count}

LastOf(S) == CHOOSE i \in S : \A j \in S : j <= i

\* XADD and XTRIM with "MINID ~": any number of the oldest entries with a
\* smaller id, possibly none, and never an entry at or after the MINID.
Cuts(entries, minid) ==
    {n \in trimmed..Len(entries) : \A i \in (trimmed + 1)..n : entries[i].ms < minid}

Init ==
    /\ log = <<>> /\ trimmed = 0 /\ cutByCeiling = {}
    /\ group = FALSE /\ delivered = 0 /\ pel = {}
    /\ pc = "connect" /\ phase = "recover" /\ batch = {} /\ events = {} /\ written = FALSE
    /\ lastWritten = 0 /\ lastTrim = 0 /\ boundary = 0
    /\ rows = {} /\ refused = {}
    /\ asset \in [Pairs -> {"none", "active"}] /\ edits = MaxEdits
    /\ now = 0 /\ faults = MaxFaults

-----------------------------------------------------------------------------
(* The environment: the clock, the producer and the administrator.         *)

Tick ==
    /\ now < MaxTime
    /\ now' = now + 1
    /\ UNCHANGED <<redis, consumer, trimmer, database, faults>>

\* stream_ceiling_minid
CeilingMinId == now - Ceiling

\* One XADD of _pump_trades. A trade whose XADD fails is never retried, so a
\* failure either leaves no trace or is an XADD whose reply was lost.
Publish(pair) ==
    /\ Len(log) < MaxEntries
    /\ log' = Append(log, [ms |-> now, pair |-> pair])
    /\ \E n \in Cuts(log', CeilingMinId) :
          /\ trimmed' = n
          /\ cutByCeiling' = cutByCeiling \union (trimmed + 1)..n
    /\ UNCHANGED <<group, delivered, pel, consumer, trimmer, database, now, faults>>

\* An administrator creates an asset or toggles is_active.
EditAsset(pair, status) ==
    /\ edits > 0
    /\ status # asset[pair]
    /\ asset' = [asset EXCEPT ![pair] = status]
    /\ edits' = edits - 1
    /\ UNCHANGED <<redis, consumer, trimmer, rows, refused, now, faults>>

-----------------------------------------------------------------------------
(* The consumer process.                                                   *)

DropBatch == batch' = {} /\ events' = {} /\ written' = FALSE

\* A fault spends one of the faults left.
Fault == faults > 0 /\ faults' = faults - 1

\* The reply arrives and the consumer goes on, or it is lost after the
\* command took effect: a REDIS_TRANSIENT_ERRORS exception ends the inner
\* loop and the batch in hand is forgotten.
Reply(next) ==
    \/ /\ pc' = next
       /\ UNCHANGED faults
    \/ /\ Fault
       /\ pc' = "backoff"

\* A Redis command that fails before it takes effect.
RedisFails ==
    /\ pc \in {"connect", "read", "ack", "trim"}
    /\ Fault
    /\ pc' = "backoff"
    /\ DropBatch
    /\ boundary' = 0
    /\ UNCHANGED <<redis, phase, lastWritten, lastTrim, database, now>>

\* Mutant of GroupStart: id="$", as in XGROUP CREATE's own examples.
StartsAtTail == Len(log)

\* The entry XGROUP CREATE starts after: id="0" is before every entry.
GroupStart == 0

\* Mutant of LastDelivered: the group is created anew on every connection.
RecreatesGroup == GroupStart

\* BUSYGROUP means the group is already there and keeps its position.
LastDelivered == IF group THEN delivered ELSE GroupStart

\* _ensure_group and the start of _recover_pending.
EnsureGroup ==
    /\ pc = "connect"
    /\ group' = TRUE
    /\ delivered' = LastDelivered
    /\ phase' = "recover"
    /\ Reply("read")
    /\ UNCHANGED <<log, trimmed, pel, cutByCeiling, batch, events, written,
                   trimmer, database, now>>

\* Mutant of NothingPending: the main loop starts without the recovery.
SkipsRecovery == TRUE

\* _has_messages of a read of the PEL.
NothingPending == pel = {}

\* XREADGROUP with id "0" in _recover_pending: the oldest entries of the PEL,
\* those that retention deleted without their fields; none left ends the
\* recovery.
ReadPending ==
    /\ pc = "read" /\ phase = "recover"
    /\ \/ /\ NothingPending
          /\ phase' = "live"
          /\ UNCHANGED <<batch, events, pc, written>>
       \/ /\ ~ NothingPending
          /\ batch' = FirstOf(pel, ReadCount)
          /\ events' = {i \in batch' : i > trimmed}
          /\ written' = FALSE
          /\ pc' = "write"
          /\ UNCHANGED phase
    /\ UNCHANGED <<redis, trimmer, database, now, faults>>

Undelivered == {i \in (trimmed + 1)..Len(log) : i > delivered}

\* XREADGROUP with id ">" in the main loop. Redis moves the entries into the
\* PEL before it answers, so a lost answer leaves them there.
ReadNew ==
    /\ pc = "read" /\ phase = "live"
    /\ Undelivered # {}
    /\ LET got == FirstOf(Undelivered, ReadCount) IN
          /\ delivered' = LastOf(got)
          /\ pel' = pel \union got
          /\ \/ /\ pc' = "write"
                /\ batch' = got /\ events' = got /\ written' = FALSE
                /\ UNCHANGED faults
             \/ /\ Fault
                /\ pc' = "backoff"
                /\ DropBatch
    /\ UNCHANGED <<log, trimmed, group, cutByCeiling, phase, trimmer, database, now>>

\* _decode_messages: what does not decode is skipped.
Decoded(es) == {i \in es : log[i].pair # Malformed}

\* The events write_snapshots turns into rows: those with a CryptoAsset.
Storable(es) == {i \in Decoded(es) : asset[log[i].pair] # "none"}

\* The write may raise, before or after the database committed it, unless
\* nothing decoded and nothing is written.
WriteBatch ==
    /\ pc = "write"
    /\ \/ /\ rows' = rows \union Storable(events)
          /\ refused' = refused \union (events \ Storable(events))
          /\ written' = TRUE
          /\ UNCHANGED faults
       \/ /\ Decoded(events) # {}
          /\ Fault
          /\ rows' \in {rows, rows \union Storable(events)}
          /\ refused' = refused \union events
          /\ written' = FALSE
    /\ pc' = "ack"
    /\ UNCHANGED <<redis, phase, batch, events, trimmer, asset, edits, now>>

\* TradeStreamTrimmer.note_written with the id _process_batch returns.
NoteWritten(ids, ok) ==
    IF ok /\ LastOf(ids) > lastWritten THEN LastOf(ids) ELSE lastWritten

\* Mutants of TrimBoundary: the boundary ignores one of its two limits.
TrimsToGap(last) == now - Gap
TrimsToWritten(last) == log[last].ms

\* The MINID of maybe_trim.
TrimBoundary(last) == Minimum(log[last].ms, now - Gap)

\* maybe_trim does nothing before the first written batch or within Interval.
TrimDue(last) == last # 0 /\ now - lastTrim >= Interval

\* Mutant of Acked: a batch whose write raised stays in the PEL.
AcksWritten == IF written THEN batch ELSE {}

\* The ids of the XACK in _process_batch.
Acked == batch

\* XACK of the whole batch, written or not, then note_written; the main loop
\* also calls maybe_trim, up to its XTRIM. When the reply is lost the batch
\* is acknowledged but not noted.
AckBatch ==
    /\ pc = "ack"
    /\ pel' = pel \ Acked
    /\ DropBatch
    /\ \/ /\ lastWritten' = NoteWritten(batch, written)
          /\ IF phase = "live" /\ TrimDue(lastWritten')
             THEN /\ lastTrim' = now
                  /\ boundary' = TrimBoundary(lastWritten')
                  /\ pc' = "trim"
             ELSE /\ pc' = "read"
                  /\ UNCHANGED <<lastTrim, boundary>>
          /\ UNCHANGED faults
       \/ /\ Fault
          /\ pc' = "backoff"
          /\ UNCHANGED trimmer
    /\ UNCHANGED <<log, trimmed, group, delivered, cutByCeiling, phase, database, now>>

\* XTRIM of maybe_trim; a ResponseError is logged and ignored.
Trim ==
    /\ pc = "trim"
    /\ trimmed' \in Cuts(log, boundary)
    /\ boundary' = 0
    /\ Reply("read")
    /\ UNCHANGED <<log, group, delivered, pel, cutByCeiling, phase, batch, events,
                   written, lastWritten, lastTrim, database, now>>

\* sleep_after_failure, then a new client and the outer loop again.
Reconnect ==
    /\ pc = "backoff"
    /\ pc' = "connect"
    /\ UNCHANGED <<redis, phase, batch, events, written, trimmer, database, now, faults>>

\* The process dies, at any await, with everything it holds in memory.
Crash ==
    /\ pc # "down"
    /\ Fault
    /\ pc' = "down"
    /\ DropBatch
    /\ lastWritten' = 0 /\ lastTrim' = 0 /\ boundary' = 0
    /\ UNCHANGED <<redis, phase, database, now>>

\* The container restarts: a new Command with a new TradeStreamTrimmer.
Restart ==
    /\ pc = "down"
    /\ pc' = "connect"
    /\ lastTrim' = now
    /\ UNCHANGED <<redis, phase, batch, events, written, lastWritten, boundary,
                   database, now, faults>>

ConsumerStep ==
    \/ EnsureGroup \/ ReadPending \/ ReadNew \/ WriteBatch \/ AckBatch \/ Trim
    \/ Reconnect \/ Restart

Next ==
    \/ Tick
    \/ \E pair \in Pairs \union {Malformed} : Publish(pair)
    \/ \E pair \in Pairs, status \in {"active", "inactive"} : EditAsset(pair, status)
    \/ ConsumerStep
    \/ RedisFails
    \/ Crash

Spec == Init /\ [][Next]_vars

\* The event loop runs the consumer whenever it can go on and the container
\* is restarted (restart: unless-stopped); nothing else is owed.
FairSpec == Spec /\ WF_vars(ConsumerStep)

-----------------------------------------------------------------------------
(* What the pipeline promises.                                             *)

\* Every variable keeps its range, and the consumer holds a batch exactly
\* between reading it and acknowledging it.
TypeOK ==
    /\ log \in Seq(Entry)
    /\ trimmed \in 0..Len(log) /\ delivered \in 0..Len(log)
    /\ group \in BOOLEAN
    /\ pel \subseteq 1..Len(log) /\ batch \subseteq 1..Len(log) /\ events \subseteq batch
    /\ pc \in {"connect", "read", "write", "ack", "trim", "backoff", "down"}
    /\ phase \in {"recover", "live"}
    /\ written \in BOOLEAN
    /\ lastWritten \in 0..Len(log) /\ lastTrim \in 0..now /\ boundary \in Int
    /\ rows \subseteq 1..Len(log) /\ refused \subseteq 1..Len(log)
    /\ cutByCeiling \subseteq 1..Len(log)
    /\ asset \in [Pairs -> {"none", "active", "inactive"}]
    /\ now \in 0..MaxTime /\ faults \in 0..MaxFaults /\ edits \in 0..MaxEdits
    /\ (batch # {}) <=> pc \in {"write", "ack"}

\* An entry is settled once the group will never hand it out again.
Settled(i) == i <= delivered /\ i \notin pel

\* At-least-once across retention: the consumer's own XTRIM never deletes an
\* entry that is still undelivered or unacknowledged, through every crash,
\* lost reply and redelivery; only the producer's ceiling can.
TrimSparesUnsettled ==
    \A i \in 1..trimmed : Settled(i) \/ i \in cutByCeiling

\* Why. The group is there before anything is delivered,
GroupFirst ==
    /\ ~ group => delivered = 0
    /\ pc \in {"read", "write", "ack", "trim"} => group

\* ids grow with time,
TimeOrdered ==
    \A i \in 1..Len(log) :
        log[i].ms <= now /\ \A j \in i..Len(log) : log[i].ms <= log[j].ms

\* everything up to the last written entry is settled,
WrittenSettled ==
    /\ \A i \in pel : i <= delivered /\ lastWritten < i
    /\ lastWritten <= delivered

\* the batch in hand is the oldest part of the PEL,
BatchOldest ==
    pc \in {"write", "ack"} =>
        batch \subseteq pel /\ \A i \in batch, j \in pel : j <= i => j \in batch

\* the main loop owes nothing but the batch in hand,
LiveOwesBatch ==
    phase = "live" =>
        /\ pc \in {"read", "trim"} => pel = {}
        /\ pc \in {"write", "ack"} => pel = batch

\* and an XTRIM under way stays behind the last written entry and the gap.
BoundaryBehind ==
    pc = "trim" =>
        /\ phase = "live" /\ lastWritten # 0
        /\ boundary <= log[lastWritten].ms /\ boundary <= now - Gap

\* Together they keep retention safe.
RetentionInv ==
    /\ GroupFirst /\ TimeOrdered /\ WrittenSettled
    /\ BatchOldest /\ LiveOwesBatch /\ BoundaryBehind

\* Nothing of the batch in hand goes astray either: an id without fields is an
\* entry retention deleted, and the batch is acknowledged after it was written,
\* logged as refused, or deleted.
BatchAccounted ==
    /\ pc = "write" => batch \ events \subseteq 1..trimmed
    /\ pc = "ack" => batch \subseteq rows \union refused \union cutByCeiling

\* The inductive invariant of the proofs.
ConsumerInv == RetentionInv /\ BatchAccounted

\* No trade disappears silently: a settled entry has a row, or its write
\* raised or skipped it (both logged), or the ceiling deleted it.
NoSilentLoss ==
    \A i \in 1..Len(log) : Settled(i) => i \in rows \union refused \union cutByCeiling

\* Neither trim reaches into the last Gap seconds, which live SSE readers may
\* still have to read.
RecentTailKept == \A i \in 1..trimmed : log[i].ms < now - Gap

\* The consumer drains its PEL before it asks for new entries, so however
\* often it fails it never owes more than one batch.
PelHoldsOneBatch == Cardinality(pel) <= ReadCount

\* Publishing ends at its bound, and then every published entry is settled in
\* the end, whatever finitely many faults happen on the way: no failure leaves
\* an entry in the PEL for good.
EventuallySettled == <>[](\A i \in 1..Len(log) : Settled(i))

\* The abstract sink: settled entries are a prefix of the log, and a settled
\* entry's fate is final.
SettledPrefix ==
    IF pel = {} THEN delivered ELSE (CHOOSE i \in pel : \A j \in pel : i <= j) - 1

Sink == INSTANCE OrderedSink WITH
            published <- Len(log), settled <- SettledPrefix, stored <- rows,
            BatchSize <- ReadCount

\* The consumer implements the ordered sink.
ImplementsSink == Sink!Spec
=============================================================================
