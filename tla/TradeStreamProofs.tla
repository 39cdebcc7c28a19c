------------------------- MODULE TradeStreamProofs -------------------------
(***************************************************************************)
(* Proofs about TradeStream for every value of its constants: the type     *)
(* invariant, that no trim deletes an entry the consumer still owes or one *)
(* of the last Gap, that no settled trade is without a trace, that the     *)
(* consumer never owes more than one batch, and that it implements         *)
(* OrderedSink.                                                            *)
(***************************************************************************)
EXTENDS TradeStream, TLAPS, FiniteSetTheorems, WellFoundedInduction

\* What validate_trade_stream_retention checks, expanded.
LEMMA RetentionFacts ==
  /\ Gap \in Nat /\ Ceiling \in Nat /\ Interval \in Nat
  /\ 0 < Interval /\ Interval < Gap /\ Gap < Ceiling
BY RetentionSettings DEF ValidRetention

-----------------------------------------------------------------------------
(* Batches: the COUNT oldest entries of a set, and their last one.         *)

\* The distances to n are natural numbers, and the least of them is that of
\* the newest entry.
LEMMA MaximumExists ==
  ASSUME NEW n \in Nat, NEW S \in SUBSET (1..n), S # {}
  PROVE  \E i \in S : \A j \in S : j <= i
<1> DEFINE Distances == {n - i : i \in S}
           Less == OpToRel(<, Nat)
<1>1. Distances \subseteq Nat /\ Distances # {}
  <2>1. \A i \in S : n - i \in Nat
    OBVIOUS
  <2>2. PICK i \in S : TRUE
    OBVIOUS
  <2>3. n - i \in Distances
    OBVIOUS
  <2> QED BY <2>1, <2>3
<1>2. PICK d \in Distances : \A e \in Distances : ~ (<<e, d>> \in Less)
  <2> HIDE DEF Distances, Less
  <2> QED BY <1>1, NatLessThanWellFounded, WFMin DEF Less
<1>3. PICK i \in S : d = n - i
  BY <1>2
<1>4. ASSUME NEW j \in S
      PROVE  j <= i
  <2>1. n - j \in Distances /\ n - j \in Nat /\ d \in Nat
    BY <1>1
  <2>2. ~ (n - j < d)
    BY <1>2, <2>1 DEF OpToRel
  <2>3. i \in Nat /\ j \in Nat
    OBVIOUS
  <2> HIDE DEF Distances, Less
  <2> QED BY <1>3, <2>2, <2>3
<1> QED BY <1>4

\* The oldest entry is the newest of the mirror image.
LEMMA MinimumExists ==
  ASSUME NEW n \in Nat, NEW S \in SUBSET (1..n), S # {}
  PROVE  \E i \in S : \A j \in S : i <= j
<1> DEFINE Mirror == {n + 1 - i : i \in S}
<1>1. Mirror \in SUBSET (1..n) /\ Mirror # {}
  <2>1. \A i \in S : n + 1 - i \in 1..n
    OBVIOUS
  <2> QED BY <2>1
<1>2. PICK m \in Mirror : \A k \in Mirror : k <= m
  <2> HIDE DEF Mirror
  <2> QED BY <1>1, MaximumExists
<1>3. PICK i \in S : m = n + 1 - i
  BY <1>2
<1>4. \A j \in S : n + 1 - j <= n + 1 - i
  BY <1>2, <1>3
<1> QED BY <1>3, <1>4

\* A non-empty set of entries has a last one.
LEMMA LastOfIsMaximum ==
  ASSUME NEW n \in Nat, NEW S \in SUBSET (1..n), S # {}
  PROVE  LastOf(S) \in S /\ \A j \in S : j <= LastOf(S)
BY MaximumExists DEF LastOf

\* FirstOf takes members of the set, no member after one it leaves out, and
\* at least one member of a non-empty set.
LEMMA FirstOfIsPrefix ==
  ASSUME NEW n \in Nat, NEW S \in SUBSET (1..n), NEW count \in Nat \ {0}
  PROVE  /\ FirstOf(S, count) \subseteq S
         /\ \A i \in FirstOf(S, count), j \in S : j <= i => j \in FirstOf(S, count)
         /\ S # {} => FirstOf(S, count) # {}
<1> DEFINE Before(i) == {j \in S : j < i}
<1>0. \A i \in S : i \in Int
  OBVIOUS
<1>1. \A i \in S : IsFiniteSet(Before(i)) /\ Cardinality(Before(i)) \in Nat
  <2> TAKE i \in S
  <2>1. IsFiniteSet(1..n)
    BY FS_Interval
  <2>2. Before(i) \in SUBSET (1..n)
    OBVIOUS
  <2> QED BY <2>1, <2>2, FS_Subset, FS_CardinalityType
<1>2. ASSUME NEW i \in FirstOf(S, count), NEW j \in S, j <= i
      PROVE  j \in FirstOf(S, count)
  <2>0. i \in S
    BY DEF FirstOf
  <2>1. Before(j) \in SUBSET Before(i)
    <3> SUFFICES ASSUME NEW k \in S, k < j
                 PROVE  k < i
      OBVIOUS
    <3> QED BY <1>0, <1>2, <2>0
  <2>2. Cardinality(Before(j)) <= Cardinality(Before(i))
    BY <1>1, <2>0, <2>1, FS_Subset
  <2>3. Cardinality(Before(i)) < count
    BY DEF FirstOf
  <2>4. Cardinality(Before(j)) < count
    BY <1>1, <2>0, <2>2, <2>3
  <2> QED BY <2>4 DEF FirstOf
<1>3. ASSUME S # {}
      PROVE  FirstOf(S, count) # {}
  <2>1. PICK i \in S : \A j \in S : i <= j
    BY <1>3, MinimumExists
  <2>2. Before(i) = {}
    <3> SUFFICES ASSUME NEW k \in S, k < i
                 PROVE  FALSE
      OBVIOUS
    <3> QED BY <1>0, <2>1
  <2>3. Cardinality(Before(i)) = 0
    BY <2>2, FS_EmptySet
  <2> QED BY <2>3 DEF FirstOf
<1>4. FirstOf(S, count) \subseteq S
  BY DEF FirstOf
<1> QED BY <1>2, <1>3, <1>4

-----------------------------------------------------------------------------
(* The type invariant.                                                     *)

\* What XREADGROUP hands out, from the PEL or from the new entries.
LEMMA BatchIsOldest ==
  ASSUME TypeOK, NEW S \in SUBSET (1..Len(log)), S # {}
  PROVE  /\ FirstOf(S, ReadCount) \subseteq S
         /\ FirstOf(S, ReadCount) # {}
         /\ \A i \in FirstOf(S, ReadCount), j \in S : j <= i => j \in FirstOf(S, ReadCount)
         /\ LastOf(FirstOf(S, ReadCount)) \in FirstOf(S, ReadCount)
         /\ \A j \in FirstOf(S, ReadCount) : j <= LastOf(FirstOf(S, ReadCount))
<1>1. Len(log) \in Nat
  BY DEF TypeOK
<1>2. ReadCount \in Nat \ {0}
  BY BoundsAssumption
<1>3. /\ FirstOf(S, ReadCount) \subseteq S
      /\ FirstOf(S, ReadCount) # {}
      /\ \A i \in FirstOf(S, ReadCount), j \in S : j <= i => j \in FirstOf(S, ReadCount)
  BY <1>1, <1>2, FirstOfIsPrefix
<1>4. FirstOf(S, ReadCount) \in SUBSET (1..Len(log))
  BY <1>3
<1>5. /\ LastOf(FirstOf(S, ReadCount)) \in FirstOf(S, ReadCount)
      /\ \A j \in FirstOf(S, ReadCount) : j <= LastOf(FirstOf(S, ReadCount))
  BY <1>1, <1>3, <1>4, LastOfIsMaximum
<1> QED BY <1>3, <1>5

\* The last id of a batch is one of its ids.
LEMMA LastOfBatch ==
  ASSUME TypeOK, pc = "ack"
  PROVE  LastOf(batch) \in batch /\ \A j \in batch : j <= LastOf(batch)
<1>1. Len(log) \in Nat /\ batch \in SUBSET (1..Len(log)) /\ batch # {}
  BY DEF TypeOK
<1> QED BY <1>1, LastOfIsMaximum

\* The faults left stay a count.
LEMMA FaultsType ==
  ASSUME TypeOK, Fault \/ UNCHANGED faults
  PROVE  faults' \in 0..MaxFaults
BY BoundsAssumption DEF TypeOK, Fault

\* The pipeline starts within its ranges,
LEMMA InitType == Init => TypeOK
<1> SUFFICES ASSUME Init
             PROVE  TypeOK
  OBVIOUS
<1>1. written \in BOOLEAN /\ group \in BOOLEAN
  BY DEF Init
<1>2. asset \in [Pairs -> {"none", "active", "inactive"}]
  BY DEF Init
<1>3. log \in Seq(Entry) /\ Len(log) = 0
  BY DEF Init
<1>4. (batch # {}) <=> pc \in {"write", "ack"}
  BY DEF Init
<1> QED BY <1>1, <1>2, <1>3, <1>4, RetentionFacts, BoundsAssumption DEF Init, TypeOK

\* and no step of any process leaves them.
LEMMA StepType == TypeOK /\ [Next]_vars => TypeOK'
<1> SUFFICES ASSUME TypeOK, [Next]_vars
             PROVE  TypeOK'
  OBVIOUS
<1> USE RetentionFacts, BoundsAssumption DEF TypeOK
<1>1. CASE Tick
  BY <1>1 DEF Tick, redis, consumer, trimmer, database
<1>2. ASSUME NEW pair \in Pairs \union {Malformed}, Publish(pair)
      PROVE  TypeOK'
  <2>1. log' = Append(log, [ms |-> now, pair |-> pair])
    BY <1>2 DEF Publish
  <2>2. [ms |-> now, pair |-> pair] \in Entry
    BY DEF Entry
  <2>3. log' \in Seq(Entry) /\ Len(log') = Len(log) + 1
    BY <2>1, <2>2
  <2>4. trimmed' \in 0..Len(log') /\ cutByCeiling' \subseteq 1..Len(log')
    BY <1>2, <2>3 DEF Publish, Cuts
  <2> QED BY <1>2, <2>3, <2>4 DEF Publish, consumer, trimmer, database
<1>3. ASSUME NEW pair \in Pairs, NEW status \in {"active", "inactive"}, EditAsset(pair, status)
      PROVE  TypeOK'
  BY <1>3 DEF EditAsset, redis, consumer, trimmer
<1>4. CASE EnsureGroup
  BY <1>4 DEF EnsureGroup, LastDelivered, GroupStart, Reply, Fault, trimmer, database
<1>5. CASE ReadPending
  <2>1. CASE pel = {}
    BY <1>5, <2>1 DEF ReadPending, NothingPending, redis, trimmer, database
  <2>2. CASE pel # {}
    <3>1. FirstOf(pel, ReadCount) \subseteq pel /\ FirstOf(pel, ReadCount) # {}
      BY <2>2, BatchIsOldest
    <3> QED BY <1>5, <2>2, <3>1 DEF ReadPending, NothingPending, redis, trimmer, database
  <2> QED BY <2>1, <2>2
<1>6. CASE ReadNew
  <2> DEFINE got == FirstOf(Undelivered, ReadCount)
  <2>1. Undelivered \in SUBSET (1..Len(log)) /\ Undelivered # {}
    BY <1>6 DEF ReadNew, Undelivered
  <2>2. got \subseteq 1..Len(log) /\ got # {} /\ LastOf(got) \in got
    BY <2>1, BatchIsOldest
  <2> HIDE DEF got
  <2>3. /\ delivered' = LastOf(got)
        /\ pel' = pel \union got
        /\ \/ /\ pc' = "write"
              /\ batch' = got /\ events' = got /\ written' = FALSE
              /\ UNCHANGED faults
           \/ Fault /\ pc' = "backoff" /\ DropBatch
        /\ UNCHANGED <<log, trimmed, group, cutByCeiling, phase, trimmer, database, now>>
    BY <1>6 DEF ReadNew, got
  <2>4. /\ batch' \subseteq 1..Len(log) /\ events' \subseteq batch'
        /\ written' \in BOOLEAN
        /\ pc' \in {"write", "backoff"} /\ ((batch' # {}) <=> pc' = "write")
    BY <2>2, <2>3 DEF DropBatch
  <2>5. faults' \in 0..MaxFaults /\ delivered' \in 0..Len(log) /\ pel' \subseteq 1..Len(log)
    <3>1. Fault \/ UNCHANGED faults
      BY <2>3
    <3>2. faults' \in 0..MaxFaults
      BY <3>1, FaultsType
    <3>3. delivered' = LastOf(got) /\ pel' = pel \union got
      BY <2>3
    <3>4. LastOf(got) \in 1..Len(log)
      BY <2>2
    <3> QED BY <2>2, <3>2, <3>3, <3>4
  <2>6. UNCHANGED <<log, trimmed, group, cutByCeiling, phase, lastWritten, lastTrim,
                    boundary, rows, asset, edits, refused, now>>
    BY <2>3 DEF trimmer, database
  <2> QED BY <2>4, <2>5, <2>6
<1>7. CASE WriteBatch
  <2>1. Storable(events) \subseteq events
    BY DEF Storable, Decoded
  <2>2. rows' \subseteq 1..Len(log) /\ refused' \subseteq 1..Len(log)
    BY <1>7, <2>1 DEF WriteBatch
  <2>3. written' \in BOOLEAN /\ pc' = "ack" /\ faults' \in 0..MaxFaults
    <3>1. (Fault \/ UNCHANGED faults) /\ written' \in BOOLEAN /\ pc' = "ack"
      BY <1>7 DEF WriteBatch
    <3> QED BY <3>1, FaultsType
  <2>4. UNCHANGED <<log, trimmed, group, delivered, pel, cutByCeiling, phase, batch,
                    events, lastWritten, lastTrim, boundary, asset, edits, now>>
    BY <1>7 DEF WriteBatch, redis, trimmer
  <2>5. batch # {}
    BY <1>7 DEF WriteBatch
  <2> QED BY <2>2, <2>3, <2>4, <2>5
<1>8. CASE AckBatch
  <2>1. LastOf(batch) \in 1..Len(log)
    BY <1>8, LastOfBatch DEF AckBatch
  <2>2. NoteWritten(batch, written) \in 0..Len(log)
    BY <2>1 DEF NoteWritten
  <2>3. lastWritten' \in 0..Len(log)
    BY <1>8, <2>2 DEF AckBatch, trimmer
  <2>4. \A last \in 0..Len(log) : TrimDue(last) => TrimBoundary(last) \in Int
    <3> TAKE last \in 0..Len(log)
    <3> HAVE TrimDue(last)
    <3>1. last \in 1..Len(log)
      BY DEF TrimDue
    <3>2. log[last] \in Entry
      BY <3>1
    <3>3. log[last].ms \in Int
      BY <3>2 DEF Entry
    <3> QED BY <3>3 DEF TrimBoundary, Minimum
  <2>5. lastTrim' \in 0..now /\ boundary' \in Int
    <3>1. \/ UNCHANGED <<lastTrim, boundary>>
          \/ /\ TrimDue(lastWritten')
             /\ lastTrim' = now
             /\ boundary' = TrimBoundary(lastWritten')
      BY <1>8 DEF AckBatch, trimmer
    <3>2. now \in 0..now
      OBVIOUS
    <3> QED BY <2>3, <2>4, <3>1, <3>2
  <2>6. batch' = {} /\ events' = {} /\ written' \in BOOLEAN
    BY <1>8 DEF AckBatch, DropBatch
  <2>7. pc' \in {"read", "trim", "backoff"} /\ faults' \in 0..MaxFaults
    BY <1>8 DEF AckBatch, Fault
  <2>8. pel' \subseteq pel
    BY <1>8 DEF AckBatch, Acked
  <2>9. UNCHANGED <<log, trimmed, group, delivered, cutByCeiling, phase, rows, asset,
                    edits, refused, now>>
    BY <1>8 DEF AckBatch, database
  <2> QED BY <2>3, <2>5, <2>6, <2>7, <2>8, <2>9
<1>9. CASE Trim
  BY <1>9 DEF Trim, Cuts, Reply, Fault, database
<1>10. CASE Reconnect
  BY <1>10 DEF Reconnect, redis, trimmer, database
<1>11. CASE Restart
  BY <1>11 DEF Restart, redis, database
<1>12. CASE RedisFails
  <2>1. /\ batch' = {} /\ events' = {} /\ written' = FALSE /\ pc' = "backoff"
        /\ boundary' = 0 /\ faults' \in 0..MaxFaults
    BY <1>12 DEF RedisFails, DropBatch, Fault
  <2>2. UNCHANGED <<log, trimmed, group, delivered, pel, cutByCeiling, phase,
                    lastWritten, lastTrim, rows, asset, edits, refused, now>>
    BY <1>12 DEF RedisFails, redis, database
  <2>3. written' \in BOOLEAN
    BY <2>1
  <2>4. (batch' # {}) <=> pc' \in {"write", "ack"}
    BY <2>1
  <2> QED BY <2>1, <2>2, <2>3, <2>4
<1>13. CASE Crash
  <2>1. /\ batch' = {} /\ events' = {} /\ written' = FALSE /\ pc' = "down"
        /\ lastWritten' = 0 /\ lastTrim' = 0 /\ boundary' = 0
        /\ faults' \in 0..MaxFaults
    BY <1>13 DEF Crash, DropBatch, Fault
  <2>2. UNCHANGED <<log, trimmed, group, delivered, pel, cutByCeiling, phase, rows,
                    asset, edits, refused, now>>
    BY <1>13 DEF Crash, redis, database
  <2>3. written' \in BOOLEAN
    BY <2>1
  <2>4. (batch' # {}) <=> pc' \in {"write", "ack"}
    BY <2>1
  <2> QED BY <2>1, <2>2, <2>3, <2>4
<1>14. CASE UNCHANGED vars
  BY <1>14 DEF vars, redis, consumer, trimmer, database
<1> QED BY <1>1, <1>2, <1>3, <1>4, <1>5, <1>6, <1>7, <1>8, <1>9, <1>10, <1>11,
           <1>12, <1>13, <1>14 DEF Next, ConsumerStep

\* Every variable of the pipeline keeps its range, whatever the size of the
\* stream, the settings and the faults.
THEOREM TypeCorrect == Spec => []TypeOK
<1>1. Init => TypeOK
  BY InitType
<1>2. TypeOK /\ [Next]_vars => TypeOK'
  BY StepType
<1> QED BY <1>1, <1>2, PTL DEF Spec

-----------------------------------------------------------------------------
(* The inductive invariant.                                                *)

\* A consumer that has not connected owes nothing.
LEMMA InitInv == Init => RetentionInv
<1> SUFFICES ASSUME Init
             PROVE  RetentionInv
  OBVIOUS
<1>1. group = FALSE /\ log = <<>> /\ pel = {} /\ lastWritten = 0 /\ delivered = 0 /\ pc = "connect"
      /\ phase = "recover"
  BY DEF Init
<1> QED BY <1>1 DEF RetentionInv, GroupFirst, TimeOrdered, WrittenSettled, BatchOldest,
                    LiveOwesBatch, BoundaryBehind

\* The id of an entry holds a time.
LEMMA MsIsInt ==
  ASSUME TypeOK
  PROVE  \A i \in 1..Len(log) : log[i].ms \in Int
<1> TAKE i \in 1..Len(log)
<1>1. log[i] \in Entry
  BY DEF TypeOK
<1> QED BY <1>1 DEF Entry

\* The clock never runs backwards and an entry added now is no older than
\* any other.
LEMMA StepTimeOrdered ==
  ASSUME TypeOK, TimeOrdered, [Next]_vars
  PROVE  TimeOrdered'
<1> USE RetentionFacts, BoundsAssumption DEF TypeOK
<1>0. \A i \in 1..Len(log) : log[i].ms \in Int
  BY MsIsInt
<1>1. CASE Tick
  <2>1. now' = now + 1 /\ log' = log
    BY <1>1 DEF Tick, redis
  <2> QED BY <1>0, <2>1 DEF TimeOrdered
<1>2. ASSUME NEW pair \in Pairs \union {Malformed}, Publish(pair)
      PROVE  TimeOrdered'
  <2>1. log' = Append(log, [ms |-> now, pair |-> pair]) /\ now' = now
    BY <1>2 DEF Publish
  <2>2. /\ Len(log') = Len(log) + 1
        /\ \A i \in 1..Len(log) : log'[i] = log[i]
        /\ log'[Len(log) + 1] = [ms |-> now, pair |-> pair]
    BY <2>1
  <2>3. \A i \in 1..Len(log') : log'[i].ms \in Int /\ log'[i].ms <= now
    BY <1>0, <2>2 DEF TimeOrdered
  <2>4. ASSUME NEW i \in 1..Len(log'), NEW j \in i..Len(log')
        PROVE  log'[i].ms <= log'[j].ms
    <3>1. CASE j \in 1..Len(log)
      <4>1. i \in 1..Len(log) /\ j \in i..Len(log)
        BY <2>2, <3>1
      <4> QED BY <2>2, <4>1 DEF TimeOrdered
    <3>2. CASE j = Len(log) + 1
      <4>1. log'[j].ms = now
        BY <2>2, <3>2
      <4> QED BY <2>3, <4>1
    <3> QED BY <2>2, <3>1, <3>2
  <2> QED BY <2>1, <2>3, <2>4 DEF TimeOrdered
<1>3. CASE UNCHANGED <<log, now>>
  BY <1>3 DEF TimeOrdered
<1>4. \/ Tick
      \/ \E pair \in Pairs \union {Malformed} : Publish(pair)
      \/ UNCHANGED <<log, now>>
  BY DEF Next, ConsumerStep, EditAsset, EnsureGroup, ReadPending, ReadNew, WriteBatch,
         AckBatch, Trim, Reconnect, Restart, RedisFails, Crash, vars, redis
<1> QED BY <1>1, <1>2, <1>3, <1>4

\* What the consumer owes: its PEL, its batch and the XTRIM under way.
Owed == WrittenSettled /\ BatchOldest /\ LiveOwesBatch /\ BoundaryBehind

\* Steps that leave the consumer and its trimmer alone.
LEMMA OthersKeepOwed ==
  ASSUME TypeOK, Owed,
         UNCHANGED <<pel, delivered, consumer, trimmer>>, now' \in Int, now <= now',
         Len(log) <= Len(log'), Len(log') \in Nat,
         \A i \in 1..Len(log) : log'[i] = log[i]
  PROVE  Owed'
<1> USE DEF Owed, TypeOK, consumer, trimmer
<1>1. WrittenSettled'
  BY DEF WrittenSettled
<1>2. BatchOldest'
  BY DEF BatchOldest
<1>3. LiveOwesBatch'
  BY DEF LiveOwesBatch
<1>4. BoundaryBehind'
  <2> SUFFICES ASSUME pc = "trim"
               PROVE  /\ phase = "live" /\ lastWritten # 0
                      /\ boundary <= log'[lastWritten].ms /\ boundary <= now' - Gap
    BY DEF BoundaryBehind
  <2>1. /\ phase = "live" /\ lastWritten # 0
        /\ boundary <= log[lastWritten].ms /\ boundary <= now - Gap
    BY DEF BoundaryBehind
  <2>2. log'[lastWritten] = log[lastWritten]
    BY <2>1
  <2>3. boundary <= now' - Gap
    <3>1. boundary \in Int /\ now \in Int /\ Gap \in Int
      BY RetentionFacts
    <3>2. now' \in Int /\ now <= now'
      OBVIOUS
    <3>3. \A b, m, n, g \in Int : b <= m - g /\ m <= n => b <= n - g
      OBVIOUS
    <3> HIDE DEF TypeOK, Owed
    <3> QED BY <2>1, <3>1, <3>2, <3>3
  <2> QED BY <2>1, <2>2, <2>3
<1> QED BY <1>1, <1>2, <1>3, <1>4

\* Steps that abandon the batch, if there is one, and reconnect or die.
LEMMA LeavingKeepsOwed ==
  ASSUME TypeOK, Owed,
         pc' \in {"connect", "backoff", "down"},
         pel' \subseteq pel, delivered' = delivered, lastWritten' \in {0, lastWritten}
  PROVE  Owed'
<1> USE DEF Owed, TypeOK
<1>1. WrittenSettled'
  BY DEF WrittenSettled
<1>2. BatchOldest' /\ LiveOwesBatch' /\ BoundaryBehind'
  BY DEF BatchOldest, LiveOwesBatch, BoundaryBehind
<1> QED BY <1>1, <1>2

\* Recovery takes the oldest entries of the PEL, and goes live only when the
\* PEL is empty.
LEMMA ReadPendingKeepsOwed ==
  ASSUME TypeOK, Owed, ReadPending
  PROVE  Owed'
<1> USE DEF Owed, TypeOK
<1>1. UNCHANGED <<log, pel, delivered, lastWritten, boundary, now>> /\ pc = "read"
  BY DEF ReadPending, redis, trimmer
<1>2. WrittenSettled'
  BY <1>1 DEF WrittenSettled
<1>3. CASE pel = {}
  <2>1. pc' = "read" /\ pel' = {}
    BY <1>1, <1>3 DEF ReadPending, NothingPending
  <2> QED BY <1>2, <2>1 DEF BatchOldest, LiveOwesBatch, BoundaryBehind
<1>4. CASE pel # {}
  <2>1. batch' = FirstOf(pel, ReadCount) /\ pc' = "write" /\ phase' = "recover"
    BY <1>4 DEF ReadPending, NothingPending
  <2>2. BatchOldest'
    BY <1>1, <1>4, <2>1, BatchIsOldest DEF BatchOldest
  <2> QED BY <1>2, <2>1, <2>2 DEF LiveOwesBatch, BoundaryBehind
<1> QED BY <1>3, <1>4

\* The main loop asks for new entries only when the PEL is empty, so what it
\* is handed is the whole PEL.
LEMMA ReadNewKeepsOwed ==
  ASSUME TypeOK, Owed, ReadNew
  PROVE  Owed'
<1> DEFINE got == FirstOf(Undelivered, ReadCount)
<1>1. Undelivered \in SUBSET (1..Len(log)) /\ Undelivered # {}
  BY DEF ReadNew, Undelivered, TypeOK
<1>2. /\ got \subseteq Undelivered /\ LastOf(got) \in got
      /\ \A i \in got : i <= LastOf(got)
  BY <1>1, BatchIsOldest
<1>3. \A i \in got : i \in Int /\ delivered < i
  BY <1>2 DEF Undelivered, TypeOK
<1> HIDE DEF got
<1>4. pel = {} /\ phase = "live" /\ pc = "read"
  BY DEF ReadNew, Owed, LiveOwesBatch
<1>5. /\ delivered' = LastOf(got) /\ pel' = got
      /\ lastWritten' = lastWritten /\ phase' = "live"
  BY <1>4 DEF ReadNew, trimmer, got
<1>6. \/ pc' = "write" /\ batch' = got
      \/ pc' = "backoff"
  BY DEF ReadNew, got
<1>7. WrittenSettled'
  <2>1. lastWritten <= delivered /\ lastWritten \in Int /\ delivered \in Int
    BY DEF Owed, WrittenSettled, TypeOK
  <2> QED BY <1>2, <1>3, <1>5, <2>1 DEF WrittenSettled
<1>8. BatchOldest' /\ LiveOwesBatch' /\ BoundaryBehind'
  BY <1>5, <1>6 DEF BatchOldest, LiveOwesBatch, BoundaryBehind
<1> QED BY <1>7, <1>8 DEF Owed

\* XACK settles the oldest part of the PEL, so what is noted is settled.
LEMMA AckBatchKeepsOwed ==
  ASSUME TypeOK, Owed, TimeOrdered, AckBatch
  PROVE  Owed'
<1> USE DEF Owed, TypeOK
<1>1. /\ pc = "ack" /\ pel' = pel \ batch
      /\ UNCHANGED <<log, delivered, phase, now>>
  BY DEF AckBatch, Acked
<1>2. /\ batch \subseteq pel
      /\ \A i \in batch, j \in pel : j <= i => j \in batch
      /\ phase = "live" => pel = batch
  BY <1>1 DEF BatchOldest, LiveOwesBatch
<1>3. /\ LastOf(batch) \in batch /\ LastOf(batch) \in Int
      /\ \A j \in batch : j \in Int /\ j <= LastOf(batch)
  <2>1. LastOf(batch) \in batch /\ \A j \in batch : j <= LastOf(batch)
    BY <1>1, LastOfBatch
  <2>2. \A j \in batch : j \in Int
    OBVIOUS
  <2> QED BY <2>1, <2>2
<1>4. \A j \in pel' : j \in Int /\ LastOf(batch) < j
  BY <1>1, <1>2, <1>3
<1>5. CASE pc' = "backoff" /\ lastWritten' = lastWritten
  BY <1>1, <1>5, LeavingKeepsOwed
<1>6. CASE lastWritten' = NoteWritten(batch, written)
           /\ IF phase = "live" /\ TrimDue(lastWritten')
              THEN boundary' = TrimBoundary(lastWritten') /\ pc' = "trim"
              ELSE pc' = "read"
  <2>1. lastWritten' \in {lastWritten, LastOf(batch)}
    BY <1>6 DEF NoteWritten
  <2>2. WrittenSettled'
    <3>1. lastWritten' <= delivered'
      BY <1>1, <1>2, <1>3, <2>1 DEF WrittenSettled
    <3>2. \A i \in pel' : i <= delivered' /\ lastWritten' < i
      BY <1>1, <1>4, <2>1 DEF WrittenSettled
    <3> QED BY <3>1, <3>2 DEF WrittenSettled
  <2>3. pc' \in {"read", "trim"} /\ (phase' = "live" => pel' = {})
    BY <1>1, <1>2, <1>6
  <2>4. BatchOldest' /\ LiveOwesBatch'
    BY <2>3 DEF BatchOldest, LiveOwesBatch
  <2>5. BoundaryBehind'
    <3> SUFFICES ASSUME pc' = "trim"
                 PROVE  /\ phase' = "live" /\ lastWritten' # 0
                        /\ boundary' <= log'[lastWritten'].ms /\ boundary' <= now' - Gap
      BY DEF BoundaryBehind
    <3>1. phase = "live" /\ lastWritten' # 0 /\ boundary' = TrimBoundary(lastWritten')
      BY <1>6 DEF TrimDue
    <3>2. lastWritten' \in 1..Len(log)
      BY <1>3, <2>1, <3>1
    <3>3. log[lastWritten'].ms \in Int
      BY <3>2, MsIsInt
    <3>4. TrimBoundary(lastWritten') <= log[lastWritten'].ms
          /\ TrimBoundary(lastWritten') <= now - Gap
      BY <3>3, RetentionFacts DEF TrimBoundary, Minimum
    <3> QED BY <1>1, <3>1, <3>4
  <2> QED BY <2>2, <2>4, <2>5
<1> QED BY <1>5, <1>6 DEF AckBatch, trimmer

\* XTRIM leaves the PEL alone.
LEMMA TrimKeepsOwed ==
  ASSUME TypeOK, Owed, Trim
  PROVE  Owed'
<1> USE DEF Owed, TypeOK
<1>1. /\ pc = "trim" /\ pc' \in {"read", "backoff"}
      /\ UNCHANGED <<pel, delivered, phase, lastWritten>>
  BY DEF Trim, Reply
<1>2. phase = "live" /\ pel = {}
  BY <1>1 DEF LiveOwesBatch, BoundaryBehind
<1>3. WrittenSettled'
  BY <1>1 DEF WrittenSettled
<1>4. BatchOldest' /\ LiveOwesBatch' /\ BoundaryBehind'
  BY <1>1, <1>2 DEF BatchOldest, LiveOwesBatch, BoundaryBehind
<1> QED BY <1>3, <1>4

\* The group exists whenever the consumer uses it.
LEMMA StepGroupFirst ==
  ASSUME GroupFirst, [Next]_vars
  PROVE  GroupFirst'
<1> USE DEF GroupFirst
<1>1. CASE EnsureGroup
  BY <1>1 DEF EnsureGroup, LastDelivered, GroupStart, Reply
<1>2. CASE ReadPending
  BY <1>2 DEF ReadPending, redis
<1>3. CASE ReadNew
  BY <1>3 DEF ReadNew
<1>4. CASE WriteBatch
  BY <1>4 DEF WriteBatch, redis
<1>5. CASE AckBatch
  BY <1>5 DEF AckBatch
<1>6. CASE Trim
  BY <1>6 DEF Trim, Reply
<1>7. CASE UNCHANGED <<group, delivered>> /\ pc' \in {pc, "connect", "backoff", "down"}
  BY <1>7
<1> QED BY <1>1, <1>2, <1>3, <1>4, <1>5, <1>6, <1>7
        DEF Next, ConsumerStep, Tick, Publish, EditAsset, Reconnect, Restart, RedisFails,
            Crash, vars, redis, consumer

\* No step makes the consumer owe more than its invariant says.
LEMMA StepOwed ==
  ASSUME TypeOK, GroupFirst, TimeOrdered, Owed, [Next]_vars
  PROVE  Owed'
<1>1. CASE Tick
  <2>1. UNCHANGED <<log, pel, delivered, consumer, trimmer>> /\ now' = now + 1
    BY <1>1 DEF Tick, redis
  <2>2. now' \in Int /\ now <= now' /\ Len(log') = Len(log) /\ Len(log') \in Nat
    BY <2>1 DEF TypeOK
  <2> QED BY <2>1, <2>2, OthersKeepOwed
<1>2. ASSUME NEW pair \in Pairs \union {Malformed}, Publish(pair)
      PROVE  Owed'
  <2>1. /\ UNCHANGED <<pel, delivered, consumer, trimmer, now>>
        /\ log' = Append(log, [ms |-> now, pair |-> pair])
    BY <1>2 DEF Publish
  <2>2. /\ Len(log') = Len(log) + 1 /\ Len(log') \in Nat /\ Len(log) <= Len(log')
        /\ \A i \in 1..Len(log) : log'[i] = log[i]
        /\ now' \in Int /\ now <= now'
    BY <2>1 DEF TypeOK
  <2> QED BY <2>1, <2>2, OthersKeepOwed
<1>3. CASE UNCHANGED <<log, pel, delivered, consumer, trimmer, now>>
  <2>1. Len(log') = Len(log) /\ Len(log') \in Nat /\ now' \in Int /\ now <= now'
    BY <1>3 DEF TypeOK
  <2> QED BY <1>3, <2>1, OthersKeepOwed
<1>4. CASE EnsureGroup
  <2>1. /\ pc = "connect" /\ pc' \in {"read", "backoff"} /\ phase' = "recover"
        /\ UNCHANGED <<pel, lastWritten>>
    BY <1>4 DEF EnsureGroup, Reply, trimmer
  <2>2. delivered' = delivered
    BY <1>4 DEF EnsureGroup, LastDelivered, GroupStart, GroupFirst
  <2> QED BY <2>1, <2>2 DEF Owed, WrittenSettled, BatchOldest, LiveOwesBatch, BoundaryBehind
<1>5. CASE ReadPending
  BY <1>5, ReadPendingKeepsOwed
<1>6. CASE ReadNew
  BY <1>6, ReadNewKeepsOwed
<1>7. CASE WriteBatch
  <2>1. /\ pc = "write" /\ pc' = "ack"
        /\ UNCHANGED <<pel, delivered, batch, phase, lastWritten>>
    BY <1>7 DEF WriteBatch, redis, trimmer
  <2> QED BY <2>1 DEF Owed, WrittenSettled, BatchOldest, LiveOwesBatch, BoundaryBehind
<1>8. CASE AckBatch
  BY <1>8, AckBatchKeepsOwed
<1>9. CASE Trim
  BY <1>9, TrimKeepsOwed
<1>10. CASE Reconnect
  BY <1>10, LeavingKeepsOwed DEF Reconnect, redis, trimmer
<1>11. CASE Restart
  BY <1>11, LeavingKeepsOwed DEF Restart, redis
<1>12. CASE RedisFails
  BY <1>12, LeavingKeepsOwed DEF RedisFails, redis
<1>13. CASE Crash
  BY <1>13, LeavingKeepsOwed DEF Crash, redis
<1>14. \/ \E pair \in Pairs, status \in {"active", "inactive"} : EditAsset(pair, status)
       \/ UNCHANGED vars
       => UNCHANGED <<log, pel, delivered, consumer, trimmer, now>>
  BY DEF EditAsset, vars, redis
<1> QED BY <1>1, <1>2, <1>3, <1>4, <1>5, <1>6, <1>7, <1>8, <1>9, <1>10, <1>11, <1>12,
           <1>13, <1>14 DEF Next, ConsumerStep

-----------------------------------------------------------------------------
(* Retention.                                                              *)

\* RetentionInv is inductive.
LEMMA StepInv == TypeOK /\ RetentionInv /\ [Next]_vars => RetentionInv'
  BY StepGroupFirst, StepTimeOrdered, StepOwed DEF RetentionInv, Owed

\* The consumer's own XTRIM only reaches settled entries of the past.
LEMMA TrimBehind ==
  ASSUME TypeOK, RetentionInv, pc = "trim", NEW i \in 1..Len(log), log[i].ms < boundary
  PROVE  Settled(i) /\ log[i].ms < now - Gap
<1>1. lastWritten \in 1..Len(log) /\ boundary <= log[lastWritten].ms /\ boundary <= now - Gap
  BY DEF TypeOK, RetentionInv, BoundaryBehind
<1>2. log[i].ms \in Int /\ log[lastWritten].ms \in Int /\ boundary \in Int /\ now \in Int
      /\ Gap \in Int
  BY <1>1, MsIsInt, RetentionFacts DEF TypeOK
<1>3. log[i].ms < now - Gap
  BY <1>1, <1>2
<1>4. i < lastWritten
  <2>1. lastWritten <= i => i \in lastWritten..Len(log)
    BY <1>1
  <2>2. lastWritten <= i => log[lastWritten].ms <= log[i].ms
    BY <1>1, <2>1 DEF RetentionInv, TimeOrdered
  <2> QED BY <1>1, <1>2, <2>2
<1>5. i <= delivered /\ i \notin pel
  BY <1>1, <1>4 DEF TypeOK, RetentionInv, WrittenSettled
<1> QED BY <1>3, <1>5 DEF Settled

\* A settled entry stays settled.
LEMMA SettledStays ==
  ASSUME TypeOK, RetentionInv, [Next]_vars, NEW i \in Nat, Settled(i)
  PROVE  Settled(i)'
<1> USE DEF Settled
<1>1. CASE ReadNew
  <2>1. Undelivered \in SUBSET (1..Len(log)) /\ Undelivered # {}
    BY <1>1 DEF ReadNew, Undelivered, TypeOK
  <2>2. \A j \in FirstOf(Undelivered, ReadCount) : j \in Int /\ delivered < j
    <3>1. FirstOf(Undelivered, ReadCount) \subseteq Undelivered
      BY <2>1, BatchIsOldest
    <3>2. \A j \in Undelivered : j \in Int /\ delivered < j
      BY DEF Undelivered, TypeOK
    <3> QED BY <3>1, <3>2
  <2>3. LastOf(FirstOf(Undelivered, ReadCount)) \in FirstOf(Undelivered, ReadCount)
    BY <2>1, BatchIsOldest
  <2>4. /\ delivered' = LastOf(FirstOf(Undelivered, ReadCount))
        /\ pel' = pel \union FirstOf(Undelivered, ReadCount)
    BY <1>1 DEF ReadNew
  <2>5. delivered \in Int
    BY DEF TypeOK
  <2> QED BY <2>2, <2>3, <2>4, <2>5
<1>2. CASE EnsureGroup
  BY <1>2 DEF EnsureGroup, LastDelivered, GroupStart, RetentionInv, GroupFirst
<1>3. CASE delivered' = delivered /\ pel' \subseteq pel
  BY <1>3
<1> QED BY <1>1, <1>2, <1>3
        DEF Next, ConsumerStep, Tick, Publish, EditAsset, ReadPending, WriteBatch, AckBatch, Acked,
            Trim, Reconnect, Restart, RedisFails, Crash, vars, redis

\* Every step that deletes entries is an XADD or an XTRIM.
LEMMA StepTrim ==
  ASSUME TypeOK, RetentionInv, [Next]_vars, TrimSparesUnsettled, RecentTailKept
  PROVE  TrimSparesUnsettled' /\ RecentTailKept'
<1>0. /\ trimmed \in Nat /\ trimmed <= Len(log) /\ Len(log) \in Nat /\ now \in Int
      /\ Gap \in Int /\ Ceiling \in Int /\ Gap < Ceiling
  BY RetentionFacts DEF TypeOK
<1>1. \A i \in 1..trimmed : Settled(i)' \/ i \in cutByCeiling
  BY <1>0, SettledStays DEF TrimSparesUnsettled
<1>2. ASSUME NEW pair \in Pairs \union {Malformed}, Publish(pair)
      PROVE  TrimSparesUnsettled' /\ RecentTailKept'
  <2>1. PICK n \in Cuts(log', CeilingMinId) :
           trimmed' = n /\ cutByCeiling' = cutByCeiling \union (trimmed + 1)..n
    BY <1>2 DEF Publish
  <2>2. /\ n \in trimmed..Len(log') /\ now' = now
        /\ \A i \in (trimmed + 1)..n : log'[i].ms < CeilingMinId
    BY <1>2 DEF Publish, Cuts
  <2>3. log' = Append(log, [ms |-> now, pair |-> pair])
    BY <1>2 DEF Publish
  <2>4. /\ Len(log') = Len(log) + 1
        /\ \A i \in 1..Len(log) : log'[i] = log[i]
        /\ log'[Len(log) + 1].ms = now
    BY <1>0, <2>3 DEF TypeOK
  <2>5. \A i \in 1..n : i \in 1..trimmed \/ i \in (trimmed + 1)..n
    BY <1>0, <2>2
  <2>6. TrimSparesUnsettled'
    BY <1>1, <2>1, <2>5 DEF TrimSparesUnsettled
  <2>7. \A i \in 1..trimmed : log'[i].ms < now' - Gap
    BY <1>0, <2>2, <2>4 DEF RecentTailKept
  <2>8. ASSUME NEW i \in (trimmed + 1)..n
        PROVE  log'[i].ms < now' - Gap
    <3>1. log'[i].ms < now - Ceiling
      BY <2>2 DEF CeilingMinId
    <3>2. i \in 1..Len(log) \/ i = Len(log) + 1
      BY <1>0, <2>2, <2>4
    <3>3. log'[i].ms \in Int
      BY <1>0, <2>4, <3>2, MsIsInt
    <3> QED BY <1>0, <2>2, <3>1, <3>3
  <2>9. RecentTailKept'
    BY <2>1, <2>5, <2>7, <2>8 DEF RecentTailKept
  <2> QED BY <2>6, <2>9
<1>3. CASE Trim
  <2>1. /\ trimmed' \in trimmed..Len(log)
        /\ \A i \in (trimmed + 1)..trimmed' : log[i].ms < boundary
        /\ UNCHANGED <<log, delivered, pel, cutByCeiling, now>> /\ pc = "trim"
    BY <1>3 DEF Trim, Cuts
  <2>2. \A i \in 1..trimmed' : i \in 1..trimmed \/ i \in (trimmed + 1)..trimmed'
    BY <1>0, <2>1
  <2>3. \A i \in (trimmed + 1)..trimmed' : Settled(i) /\ log[i].ms < now - Gap
    <3> TAKE i \in (trimmed + 1)..trimmed'
    <3>1. i \in 1..Len(log) /\ log[i].ms < boundary
      BY <1>0, <2>1
    <3> QED BY <2>1, <3>1, TrimBehind
  <2>4. \A i \in (trimmed + 1)..trimmed' : Settled(i)'
    BY <2>1, <2>3 DEF Settled
  <2>5. TrimSparesUnsettled'
    BY <1>1, <2>1, <2>2, <2>4 DEF TrimSparesUnsettled
  <2>6. RecentTailKept'
    BY <2>1, <2>2, <2>3 DEF RecentTailKept
  <2> QED BY <2>5, <2>6
<1>4. CASE UNCHANGED <<log, trimmed, cutByCeiling>> /\ now' \in Int /\ now <= now'
  <2>1. TrimSparesUnsettled'
    BY <1>1, <1>4 DEF TrimSparesUnsettled
  <2>2. ASSUME NEW i \in 1..trimmed
        PROVE  log[i].ms < now' - Gap
    <3>1. log[i].ms < now - Gap /\ i \in 1..Len(log)
      BY <1>0 DEF RecentTailKept
    <3>2. log[i].ms \in Int
      BY <3>1, MsIsInt
    <3> QED BY <1>0, <1>4, <3>1, <3>2
  <2> QED BY <1>4, <2>1, <2>2 DEF RecentTailKept
<1>5. CASE Tick
  <2>1. UNCHANGED <<log, trimmed, cutByCeiling>> /\ now' = now + 1
    BY <1>5 DEF Tick, redis
  <2> QED BY <1>0, <1>4, <2>1
<1>6. \/ \E pair \in Pairs \union {Malformed} : Publish(pair)
      \/ Trim \/ Tick
      \/ UNCHANGED <<log, trimmed, cutByCeiling, now>>
  BY DEF Next, ConsumerStep, EditAsset, EnsureGroup, ReadPending, ReadNew, WriteBatch,
         AckBatch, Reconnect, Restart, RedisFails, Crash, vars, redis
<1> QED BY <1>0, <1>2, <1>3, <1>4, <1>5, <1>6

\* At-least-once survives retention and the live tail is kept, for every
\* stream, setting and fault: the consumer's XTRIM deletes only entries that
\* are settled, and no trim reaches into the last Gap.
THEOREM RetentionIsSafe == Spec => [](TrimSparesUnsettled /\ RecentTailKept)
<1>1. Init => RetentionInv
  BY InitInv
<1>2. Init => TrimSparesUnsettled /\ RecentTailKept
  BY DEF Init, TrimSparesUnsettled, RecentTailKept
<1>3. TypeOK /\ RetentionInv /\ [Next]_vars => RetentionInv'
  BY StepInv
<1>4. TypeOK /\ RetentionInv /\ (TrimSparesUnsettled /\ RecentTailKept) /\ [Next]_vars
      => (TrimSparesUnsettled /\ RecentTailKept)'
  BY StepTrim
<1> QED BY <1>1, <1>2, <1>3, <1>4, TypeCorrect, PTL DEF Spec

\* For every valid setting of the retention, whatever the consumer does and
\* however late it trims, no entry younger than the gap is deleted: a live SSE
\* reader still finds it.
THEOREM RecentTailIsKept == Spec => []RecentTailKept
<1>1. TrimSparesUnsettled /\ RecentTailKept => RecentTailKept
  OBVIOUS
<1> QED BY <1>1, RetentionIsSafe, PTL

-----------------------------------------------------------------------------
(* No silent loss.                                                         *)

\* What is kept by every step that settles nothing, deletes nothing from the
\* accounts and leaves the batch alone or drops it.
LEMMA OthersKeepAccounts ==
  ASSUME TypeOK, TypeOK', NoSilentLoss, BatchAccounted,
         \A i \in Nat : Settled(i)' => Settled(i),
         rows \subseteq rows', refused \subseteq refused', cutByCeiling \subseteq cutByCeiling',
         trimmed <= trimmed',
         \/ UNCHANGED <<pc, batch, events>>
         \/ pc' \notin {"write", "ack"},
         \A i \in 1..Len(log') : Settled(i) => i \in 1..Len(log)
  PROVE  NoSilentLoss' /\ BatchAccounted'
<1>1. NoSilentLoss'
  <2> SUFFICES ASSUME NEW i \in 1..Len(log'), Settled(i)'
               PROVE  i \in rows' \union refused' \union cutByCeiling'
    BY DEF NoSilentLoss
  <2>1. Settled(i) /\ i \in 1..Len(log)
    BY DEF TypeOK
  <2> QED BY <2>1 DEF NoSilentLoss
<1>2. 1..trimmed \subseteq 1..trimmed'
  BY DEF TypeOK
<1>3. BatchAccounted'
  BY <1>2 DEF BatchAccounted
<1> QED BY <1>1, <1>3

\* Every step accounts for what it settles: a read passes only over deleted
\* entries, a write accounts for its batch, an acknowledgement settles it.
LEMMA StepAccounts ==
  ASSUME TypeOK, TypeOK', RetentionInv, RetentionInv', TrimSparesUnsettled, NoSilentLoss,
         BatchAccounted, [Next]_vars
  PROVE  NoSilentLoss' /\ BatchAccounted'
<1>0. /\ Len(log) \in Nat /\ Len(log') \in Nat /\ trimmed \in Nat /\ trimmed <= Len(log)
      /\ delivered \in Nat /\ delivered <= Len(log)
  <2>1. Len(log) \in Nat /\ trimmed \in 0..Len(log) /\ delivered \in 0..Len(log)
    BY DEF TypeOK
  <2>2. Len(log') \in Nat
    BY DEF TypeOK
  <2> QED BY <2>1, <2>2
<1>1. \A i \in 1..Len(log') : Settled(i) => i \in 1..Len(log)
  BY <1>0 DEF Settled
<1>2. CASE Tick
  <2>1. UNCHANGED <<log, trimmed, delivered, pel, cutByCeiling, rows, refused, pc, batch, events>>
    BY <1>2 DEF Tick, redis, consumer, database
  <2> QED BY <1>0, <1>1, <2>1, OthersKeepAccounts DEF Settled
<1>3. ASSUME NEW pair \in Pairs \union {Malformed}, Publish(pair)
      PROVE  NoSilentLoss' /\ BatchAccounted'
  <2>1. /\ UNCHANGED <<delivered, pel, rows, refused, pc, batch, events>>
        /\ \E n \in Cuts(log', CeilingMinId) :
              trimmed' = n /\ cutByCeiling' = cutByCeiling \union (trimmed + 1)..n
    BY <1>3 DEF Publish, consumer, database
  <2>2. trimmed <= trimmed' /\ cutByCeiling \subseteq cutByCeiling'
    BY <1>0, <2>1 DEF Cuts
  <2> QED BY <1>1, <2>1, <2>2, OthersKeepAccounts DEF Settled
<1>4. CASE UNCHANGED <<log, trimmed, delivered, pel, cutByCeiling, rows, refused>>
           /\ (UNCHANGED <<pc, batch, events>> \/ pc' \notin {"write", "ack"})
  BY <1>0, <1>1, <1>4, OthersKeepAccounts DEF Settled
<1>5. CASE EnsureGroup
  <2>1. /\ UNCHANGED <<log, trimmed, pel, cutByCeiling, rows, refused>>
        /\ pc' \notin {"write", "ack"}
    BY <1>5 DEF EnsureGroup, Reply, database
  <2>2. delivered' = delivered
    BY <1>5 DEF EnsureGroup, LastDelivered, GroupStart, RetentionInv, GroupFirst
  <2> QED BY <1>4, <2>1, <2>2
<1>6. CASE ReadPending
  <2>1. /\ UNCHANGED <<log, trimmed, delivered, pel, cutByCeiling, rows, refused>>
        /\ pc = "read"
    BY <1>6 DEF ReadPending, redis, database
  <2>2. CASE NothingPending
    BY <1>4, <1>6, <2>1, <2>2 DEF ReadPending
  <2>3. CASE ~ NothingPending
    <3>1. /\ pc' = "write" /\ batch' \subseteq pel
          /\ events' = {i \in batch' : i > trimmed}
      <4>1. pel \in SUBSET (1..Len(log)) /\ pel # {}
        BY <2>3 DEF TypeOK, NothingPending
      <4>2. FirstOf(pel, ReadCount) \subseteq pel
        BY <4>1, BatchIsOldest
      <4> QED BY <1>6, <2>3, <4>2 DEF ReadPending
    <3>2. batch' \ events' \subseteq 1..trimmed
      <4>1. \A i \in pel : i \in 1..Len(log)
        BY DEF TypeOK
      <4>2. \A i \in 1..Len(log) : ~ (i > trimmed) => i \in 1..trimmed
        BY <1>0
      <4> QED BY <3>1, <4>1, <4>2
    <3>3. NoSilentLoss'
      BY <2>1 DEF NoSilentLoss, Settled
    <3> QED BY <2>1, <3>1, <3>2, <3>3 DEF BatchAccounted
  <2> QED BY <2>2, <2>3
<1>7. CASE ReadNew
  <2> DEFINE got == FirstOf(Undelivered, ReadCount)
  <2>1. Undelivered \in SUBSET (1..Len(log)) /\ Undelivered # {}
    BY <1>0, <1>7 DEF ReadNew, Undelivered
  <2>2. /\ LastOf(got) \in got /\ got \subseteq Undelivered
        /\ \A i \in got, j \in Undelivered : j <= i => j \in got
    BY <2>1, BatchIsOldest
  <2> HIDE DEF got
  <2>3. /\ delivered' = LastOf(got) /\ pel' = pel \union got
        /\ UNCHANGED <<log, trimmed, cutByCeiling, rows, refused>>
        /\ \/ pc' = "write" /\ batch' = got /\ events' = got
           \/ pc' = "backoff"
    BY <1>7 DEF ReadNew, got, database
  <2>4. \A i \in 1..Len(log) : i \in Undelivered <=> trimmed < i /\ delivered < i
    BY <1>0 DEF Undelivered
  <2>5. NoSilentLoss'
    <3> SUFFICES ASSUME NEW i \in 1..Len(log), Settled(i)'
                 PROVE  i \in rows \union refused \union cutByCeiling
      BY <2>3 DEF NoSilentLoss
    <3>1. i <= LastOf(got) /\ i \notin got /\ i \notin pel
      BY <2>3 DEF Settled
    <3>2. i \notin Undelivered
      BY <2>2, <3>1
    <3>3. i <= delivered \/ i \in 1..trimmed
      BY <1>0, <2>4, <3>2
    <3>4. CASE i <= delivered
      BY <3>1, <3>4 DEF NoSilentLoss, Settled
    <3>5. CASE i \in 1..trimmed
      BY <3>1, <3>4, <3>5 DEF TrimSparesUnsettled, Settled
    <3> QED BY <3>3, <3>4, <3>5
  <2>6. BatchAccounted'
    BY <2>3 DEF BatchAccounted
  <2> QED BY <2>5, <2>6
<1>8. CASE WriteBatch
  <2>1. /\ pc = "write" /\ pc' = "ack"
        /\ UNCHANGED <<log, trimmed, delivered, pel, cutByCeiling, batch, events>>
        /\ rows \subseteq rows' /\ refused \subseteq refused'
    BY <1>8 DEF WriteBatch, redis
  <2>2. events \subseteq rows' \union refused'
    BY <1>8 DEF WriteBatch
  <2>3. batch \ events \subseteq cutByCeiling
    BY <2>1 DEF BatchAccounted, RetentionInv, BatchOldest, TrimSparesUnsettled, Settled
  <2>4. NoSilentLoss'
    BY <2>1 DEF NoSilentLoss, Settled
  <2> QED BY <2>1, <2>2, <2>3, <2>4 DEF BatchAccounted
<1>9. CASE AckBatch
  <2>1. /\ pc = "ack" /\ pc' \notin {"write", "ack"} /\ pel' = pel \ batch
        /\ UNCHANGED <<log, delivered, cutByCeiling, rows, refused>>
    BY <1>9 DEF AckBatch, Acked, database
  <2>2. batch \subseteq rows \union refused \union cutByCeiling
    BY <2>1 DEF BatchAccounted
  <2>3. NoSilentLoss'
    BY <2>1, <2>2 DEF NoSilentLoss, Settled
  <2> QED BY <2>1, <2>3 DEF BatchAccounted
<1>10. CASE Trim
  <2>1. /\ trimmed' \in trimmed..Len(log) /\ pc' \notin {"write", "ack"}
        /\ UNCHANGED <<log, delivered, pel, cutByCeiling, rows, refused>>
    BY <1>10 DEF Trim, Cuts, Reply, database
  <2> QED BY <1>0, <1>1, <2>1, OthersKeepAccounts DEF Settled
<1>11. \/ \E pair \in Pairs, status \in {"active", "inactive"} : EditAsset(pair, status)
       \/ Reconnect \/ Restart \/ RedisFails \/ Crash \/ UNCHANGED vars
       => /\ UNCHANGED <<log, trimmed, delivered, pel, cutByCeiling, rows, refused>>
          /\ UNCHANGED <<pc, batch, events>> \/ pc' \notin {"write", "ack"}
  BY DEF EditAsset, Reconnect, Restart, RedisFails, Crash, vars, redis, consumer, database
<1> QED BY <1>2, <1>3, <1>4, <1>5, <1>6, <1>7, <1>8, <1>9, <1>10, <1>11 DEF Next, ConsumerStep

\* No trade disappears silently, for every stream, setting and fault: an entry
\* the group is done with has a row, was logged as refused, or fell to the
\* producer's ceiling.
THEOREM NothingLostSilently == Spec => [](ConsumerInv /\ NoSilentLoss)
<1> DEFINE Kept == TrimSparesUnsettled /\ RecentTailKept
           Accounted == NoSilentLoss /\ BatchAccounted
<1>1. Init => RetentionInv
  BY InitInv
<1>2. Init => Accounted
  BY DEF Init, NoSilentLoss, BatchAccounted
<1>3. TypeOK /\ RetentionInv /\ [Next]_vars => RetentionInv'
  BY StepInv
<1>4. /\ TypeOK /\ TypeOK' /\ RetentionInv /\ RetentionInv' /\ Kept /\ Accounted /\ [Next]_vars
      => Accounted'
  BY StepAccounts
<1>5. RetentionInv /\ Accounted => ConsumerInv /\ NoSilentLoss
  BY DEF ConsumerInv
<1>6. Spec => []Kept
  BY RetentionIsSafe
<1> HIDE DEF Kept, Accounted
<1> QED BY <1>1, <1>2, <1>3, <1>4, <1>5, <1>6, TypeCorrect, PTL DEF Spec

-----------------------------------------------------------------------------
(* One batch.                                                               *)

\* XREADGROUP with COUNT returns no more than COUNT entries: the last one it
\* returns has fewer than COUNT before it.
LEMMA FirstOfBounded ==
  ASSUME TypeOK, NEW S \in SUBSET (1..Len(log))
  PROVE  Cardinality(FirstOf(S, ReadCount)) <= ReadCount
<1> DEFINE got == FirstOf(S, ReadCount)
           last == LastOf(got)
           before == {j \in S : j < last}
<1>1. Len(log) \in Nat /\ ReadCount \in Nat \ {0}
  BY BoundsAssumption DEF TypeOK
<1>2. CASE S = {}
  <2>1. got = {}
    BY <1>2 DEF FirstOf
  <2> QED BY <1>1, <2>1, FS_EmptySet
<1>3. CASE S # {}
  <2>1. got \subseteq S /\ last \in got /\ \A j \in got : j <= last
    BY <1>3, BatchIsOldest
  <2>2. Cardinality(before) < ReadCount
    BY <2>1 DEF FirstOf
  <2> HIDE DEF got
  <2>3. last \in Int /\ \A j \in got : j \in Int
    <3>1. \A j \in S : j \in Int
      OBVIOUS
    <3> HIDE DEF last
    <3> QED BY <2>1, <3>1
  <2> HIDE DEF last
  <2>4. got \in SUBSET (before \union {last})
    BY <2>1, <2>3
  <2>5. IsFiniteSet(before) /\ Cardinality(before) \in Nat
    <3>1. IsFiniteSet(1..Len(log))
      BY <1>1, FS_Interval
    <3>2. before \in SUBSET (1..Len(log))
      OBVIOUS
    <3> HIDE DEF before
    <3> QED BY <3>1, <3>2, FS_Subset, FS_CardinalityType
  <2> HIDE DEF before
  <2>6. /\ IsFiniteSet(before \union {last})
        /\ Cardinality(before \union {last}) <= Cardinality(before) + 1
        /\ Cardinality(before \union {last}) \in Nat
    <3>1. /\ IsFiniteSet(before \union {last})
          /\ Cardinality(before \union {last})
               = IF last \in before THEN Cardinality(before) ELSE Cardinality(before) + 1
      BY <2>5, FS_AddElement
    <3> QED BY <2>5, <3>1
  <2>7. Cardinality(got) <= Cardinality(before \union {last}) /\ Cardinality(got) \in Nat
    BY <2>4, <2>6, FS_Subset, FS_CardinalityType
  <2>8. Cardinality(got) <= ReadCount
    BY <1>1, <2>2, <2>5, <2>6, <2>7
  <2> QED BY <2>8 DEF got
<1> QED BY <1>2, <1>3

\* A part of what the PEL or the batch holds is not larger.
LEMMA PartBounded ==
  ASSUME TypeOK, NEW S \in SUBSET (1..Len(log)), Cardinality(S) <= ReadCount,
         NEW T \in SUBSET S
  PROVE  Cardinality(T) <= ReadCount
<1>1. Len(log) \in Nat /\ ReadCount \in Nat
  BY BoundsAssumption DEF TypeOK
<1>2. IsFiniteSet(S)
  <2>1. IsFiniteSet(1..Len(log))
    BY <1>1, FS_Interval
  <2> QED BY <2>1, FS_Subset
<1>3. /\ Cardinality(T) <= Cardinality(S)
      /\ Cardinality(S) \in Nat /\ Cardinality(T) \in Nat
  BY <1>2, FS_Subset, FS_CardinalityType
<1> QED BY <1>1, <1>3

\* The PEL and the batch in hand are no larger than one answer.
SizeInv == PelHoldsOneBatch /\ Cardinality(batch) <= ReadCount

LEMMA NothingIsSmall == Cardinality({}) <= ReadCount
BY FS_EmptySet, BoundsAssumption

\* The consumer asks for new entries only with an empty PEL.
LEMMA StepSize ==
  ASSUME TypeOK, RetentionInv, SizeInv, [Next]_vars
  PROVE  SizeInv'
<1>1. ASSUME UNCHANGED pel, batch' = batch \/ batch' = {}
      PROVE  SizeInv'
  BY <1>1, NothingIsSmall DEF SizeInv, PelHoldsOneBatch
<1>2. CASE ReadPending
  <2>1. pel' = pel /\ pel \in SUBSET (1..Len(log))
    BY <1>2 DEF ReadPending, redis, TypeOK
  <2>2. batch' = batch \/ batch' = FirstOf(pel, ReadCount)
    BY <1>2 DEF ReadPending
  <2> QED BY <2>1, <2>2, FirstOfBounded DEF SizeInv, PelHoldsOneBatch
<1>3. CASE ReadNew
  <2> DEFINE got == FirstOf(Undelivered, ReadCount)
  <2>1. Undelivered \in SUBSET (1..Len(log))
    BY DEF TypeOK, Undelivered
  <2>2. Cardinality(got) <= ReadCount
    BY <2>1, FirstOfBounded
  <2> HIDE DEF got
  <2>3. pel = {}
    BY <1>3 DEF ReadNew, RetentionInv, LiveOwesBatch
  <2>4. pel' = got /\ (batch' = got \/ batch' = {})
    BY <1>3, <2>3 DEF ReadNew, got, DropBatch
  <2> QED BY <2>2, <2>4, NothingIsSmall DEF SizeInv, PelHoldsOneBatch
<1>4. CASE AckBatch
  <2>1. pel' \in SUBSET pel /\ batch' = {} /\ pel \in SUBSET (1..Len(log))
    BY <1>4 DEF AckBatch, Acked, DropBatch, TypeOK
  <2> QED BY <2>1, PartBounded, NothingIsSmall DEF SizeInv, PelHoldsOneBatch
<1>5. ~ (ReadPending \/ ReadNew \/ AckBatch) => UNCHANGED pel /\ (batch' = batch \/ batch' = {})
  BY DEF Next, ConsumerStep, Tick, Publish, EditAsset, EnsureGroup, WriteBatch, Trim,
         Reconnect, Restart, RedisFails, Crash, DropBatch, vars, redis, consumer
<1> QED BY <1>1, <1>2, <1>3, <1>4, <1>5

\* _recover_pending before the main loop, and XACK whatever the write did: the
\* consumer never owes more than one answer of XREADGROUP.
THEOREM OneBatchOwed == Spec => [](SizeInv /\ PelHoldsOneBatch)
<1>1. Init => SizeInv
  BY NothingIsSmall DEF Init, SizeInv, PelHoldsOneBatch
<1>2. TypeOK /\ RetentionInv /\ SizeInv /\ [Next]_vars => SizeInv'
  BY StepSize
<1>3. SizeInv => PelHoldsOneBatch
  BY DEF SizeInv
<1>4. ConsumerInv => RetentionInv
  BY DEF ConsumerInv
<1> QED BY <1>1, <1>2, <1>3, <1>4, TypeCorrect, NothingLostSilently, PTL DEF Spec

-----------------------------------------------------------------------------
(* The refinement.                                                          *)

\* What the settled prefix is: all that is delivered, or all before the oldest
\* entry of the PEL.
PrefixFacts ==
    /\ SettledPrefix \in Nat /\ SettledPrefix <= delivered
    /\ \A i \in pel : SettledPrefix < i
    /\ pel = {} => SettledPrefix = delivered
    /\ pel # {} => SettledPrefix + 1 \in pel

LEMMA PrefixIs == TypeOK /\ WrittenSettled => PrefixFacts
<1> SUFFICES ASSUME TypeOK, WrittenSettled
             PROVE  PrefixFacts
  OBVIOUS
<1>1. delivered \in Nat /\ pel \in SUBSET (1..Len(log)) /\ Len(log) \in Nat
  BY DEF TypeOK
<1>2. CASE pel = {}
  BY <1>1, <1>2 DEF SettledPrefix, PrefixFacts
<1>3. CASE pel # {}
  <2> DEFINE first == CHOOSE i \in pel : \A j \in pel : i <= j
  <2>1. first \in pel /\ \A j \in pel : first <= j
    BY <1>1, <1>3, MinimumExists
  <2>2. SettledPrefix = first - 1
    BY <1>3 DEF SettledPrefix
  <2> HIDE DEF first
  <2>3. first <= delivered /\ first \in Nat /\ 1 <= first
    BY <1>1, <2>1 DEF WrittenSettled
  <2>4. \A i \in pel : i \in Int
    BY <1>1
  <2> QED BY <1>1, <1>3, <2>1, <2>2, <2>3, <2>4 DEF PrefixFacts
<1> QED BY <1>2, <1>3

\* The same of the next state.
LEMMA PrefixIsNext == TypeOK' /\ WrittenSettled' => PrefixFacts'
BY PrefixIs, PTL

\* Prefixes are equal when nothing was delivered or acknowledged.
LEMMA PrefixStays ==
  ASSUME UNCHANGED <<delivered, pel>>
  PROVE  SettledPrefix' = SettledPrefix
BY DEF SettledPrefix

\* When the last delivered entry moves from d to e and the PEL from P to Q, and
\* Q has nothing new at or before d, the prefix does not move back.
LEMMA PrefixOrder ==
  ASSUME NEW P, NEW Q, NEW d \in Nat, NEW e \in Nat, NEW old \in Nat, NEW new \in Nat,
         old <= d, \A i \in P : old < i,
         Q = {} => new = e, Q # {} => new + 1 \in Q,
         d <= e, \A i \in Q : i \in P \/ d < i
  PROVE  old <= new
<1>1. CASE Q = {}
  BY <1>1
<1>2. CASE Q # {}
  <2>1. old < new + 1
    <3>1. new + 1 \in P \/ d < new + 1
      BY <1>2
    <3> QED BY <3>1
  <2> QED BY <2>1
<1> QED BY <1>1, <1>2

\* Nothing that was settled is delivered again.
LEMMA NothingComesBack ==
  ASSUME TypeOK, GroupFirst, LiveOwesBatch, [Next]_vars
  PROVE  delivered <= delivered' /\ \A i \in pel' : i \in pel \/ delivered < i
<1>1. delivered \in Nat /\ trimmed \in Nat /\ Len(log) \in Nat
  BY DEF TypeOK
<1>2. ASSUME UNCHANGED delivered, pel' \subseteq pel
      PROVE  delivered <= delivered' /\ \A i \in pel' : i \in pel \/ delivered < i
  BY <1>1, <1>2
<1>3. CASE AckBatch
  BY <1>2, <1>3 DEF AckBatch
<1>4. CASE ReadNew
  <2> DEFINE got == FirstOf(Undelivered, ReadCount)
  <2>1. Undelivered \in SUBSET (1..Len(log)) /\ Undelivered # {}
    BY <1>1, <1>4 DEF ReadNew, Undelivered
  <2>2. got \subseteq Undelivered /\ LastOf(got) \in got
    BY <2>1, BatchIsOldest
  <2>3. delivered' = LastOf(got) /\ pel' = pel \union got
    BY <1>4 DEF ReadNew
  <2> HIDE DEF got
  <2>4. \A i \in Undelivered : i \in Int /\ delivered < i
    BY <1>1 DEF Undelivered
  <2>5. LastOf(got) \in Int /\ delivered < LastOf(got)
    BY <2>2, <2>4
  <2> QED BY <1>1, <2>2, <2>3, <2>4, <2>5
<1>5. CASE EnsureGroup
  BY <1>2, <1>5 DEF EnsureGroup, LastDelivered, GroupStart, GroupFirst
<1>6. ~ (AckBatch \/ ReadNew \/ EnsureGroup) => UNCHANGED <<delivered, pel>>
  BY DEF Next, ConsumerStep, Tick, Publish, EditAsset, ReadPending, WriteBatch, Trim,
         Reconnect, Restart, RedisFails, Crash, vars, redis
<1> QED BY <1>2, <1>3, <1>4, <1>5, <1>6

\* Reading and acknowledging only move the prefix forward.
LEMMA PrefixGrows ==
  ASSUME TypeOK, TypeOK', WrittenSettled, WrittenSettled', GroupFirst, LiveOwesBatch,
         [Next]_vars
  PROVE  SettledPrefix <= SettledPrefix'
<1>1. /\ SettledPrefix \in Nat /\ SettledPrefix <= delivered
      /\ \A i \in pel : SettledPrefix < i
  BY PrefixIs DEF PrefixFacts
<1>2. /\ SettledPrefix' \in Nat
      /\ pel' = {} => SettledPrefix' = delivered'
      /\ pel' # {} => SettledPrefix' + 1 \in pel'
  BY PrefixIsNext DEF PrefixFacts
<1>3. delivered \in Nat
  BY DEF TypeOK
<1>4. delivered' \in Nat
  BY DEF TypeOK
<1> QED BY <1>1, <1>2, <1>3, <1>4, NothingComesBack, PrefixOrder

\* A write stores a part of one batch, all of it after the settled prefix.
LEMMA WriteStores ==
  ASSUME TypeOK, RetentionInv, SizeInv, WriteBatch
  PROVE  Sink!Store
<1>1. /\ pc = "write" /\ UNCHANGED <<log, delivered, pel>>
      /\ rows' = rows \/ rows' = rows \union Storable(events)
  BY DEF WriteBatch, redis
<1>2. PICK stored \in SUBSET batch : rows' = rows \union stored
  <2>1. Storable(events) \subseteq batch
    BY DEF Storable, Decoded, TypeOK
  <2>2. CASE rows' = rows
    <3>1. {} \in SUBSET batch /\ rows' = rows \union {}
      BY <2>2
    <3> QED BY <3>1
  <2> QED BY <1>1, <2>1, <2>2
<1>3. Cardinality(stored) <= ReadCount
  <2>1. batch \in SUBSET (1..Len(log))
    BY DEF TypeOK
  <2> QED BY <2>1, PartBounded DEF SizeInv
<1>4. stored \in SUBSET ((SettledPrefix + 1)..Len(log))
  <2> SUFFICES ASSUME NEW i \in stored
               PROVE  i \in (SettledPrefix + 1)..Len(log)
    OBVIOUS
  <2>1. i \in pel
    BY <1>1 DEF RetentionInv, BatchOldest
  <2>2. i \in 1..Len(log) /\ Len(log) \in Nat
    BY <2>1 DEF TypeOK
  <2>3. SettledPrefix \in Nat /\ SettledPrefix < i
    BY <2>1, PrefixIs DEF RetentionInv, PrefixFacts
  <2> QED BY <2>2, <2>3
<1>5. SettledPrefix' = SettledPrefix /\ Len(log)' = Len(log)
  BY <1>1, PrefixStays
<1>6. Sink!Cardinality(stored) = Cardinality(stored)
  BY DEF Sink!Cardinality, Cardinality
<1> QED BY <1>2, <1>3, <1>4, <1>5, <1>6 DEF Sink!Store

\* Every step publishes, stores, settles, or is invisible.
LEMMA StepSinks ==
  ASSUME TypeOK, TypeOK', RetentionInv, RetentionInv', SizeInv, [Next]_vars
  PROVE  [Sink!Next]_Sink!vars
<1>1. /\ SettledPrefix \in Nat /\ SettledPrefix' \in Nat
      /\ SettledPrefix <= SettledPrefix'
      /\ SettledPrefix' <= delivered' /\ delivered' \in 0..Len(log')
      /\ Len(log') \in Nat
  <2>1. delivered' \in 0..Len(log') /\ Len(log') \in Nat
    BY DEF TypeOK
  <2>2. PrefixFacts /\ PrefixFacts'
    BY PrefixIs, PrefixIsNext DEF RetentionInv
  <2>3. SettledPrefix <= SettledPrefix'
    BY PrefixGrows DEF RetentionInv
  <2> QED BY <2>1, <2>2, <2>3 DEF PrefixFacts
<1>2. ASSUME UNCHANGED <<log, rows>>
      PROVE  [Sink!Next]_Sink!vars
  <2>1. CASE SettledPrefix' = SettledPrefix
    BY <1>2, <2>1 DEF Sink!vars
  <2>2. CASE SettledPrefix' # SettledPrefix
    <3>1. SettledPrefix' \in (SettledPrefix + 1)..Len(log)
      BY <1>1, <1>2, <2>2
    <3> QED BY <1>2, <3>1 DEF Sink!Next, Sink!Settle
  <2> QED BY <2>1, <2>2
<1>3. CASE WriteBatch
  BY <1>3, WriteStores DEF Sink!Next
<1>4. ASSUME NEW pair \in Pairs \union {Malformed}, Publish(pair)
      PROVE  [Sink!Next]_Sink!vars
  <2>1. UNCHANGED <<delivered, pel, rows>> /\ log' = Append(log, [ms |-> now, pair |-> pair])
    BY <1>4 DEF Publish, database
  <2>2. Len(log') = Len(log) + 1
    BY <2>1 DEF TypeOK
  <2> QED BY <2>1, <2>2, PrefixStays DEF Sink!Next, Sink!Publish
<1>5. (\/ Tick
       \/ (ConsumerStep /\ ~ WriteBatch)
       \/ RedisFails
       \/ Crash
       \/ UNCHANGED vars
       \/ \E pair \in Pairs, status \in {"active", "inactive"} : EditAsset(pair, status))
      => UNCHANGED <<log, rows>>
  BY DEF ConsumerStep, Tick, EditAsset, EnsureGroup, ReadPending, ReadNew, AckBatch, Trim,
         Reconnect, Restart, RedisFails, Crash, vars, redis, database
<1> QED BY <1>2, <1>3, <1>4, <1>5 DEF Next

\* The whole consumer, with its crashes, lost replies, redeliveries and trims,
\* implements the ordered sink: entries are settled in order, and stored at
\* most one batch ahead and never after they were settled.
THEOREM ConsumerIsSink == Spec => ImplementsSink
<1>1. Init => Sink!Init
  BY DEF Init, Sink!Init, SettledPrefix
<1>2. /\ TypeOK /\ TypeOK' /\ RetentionInv /\ RetentionInv' /\ SizeInv /\ [Next]_vars
      => [Sink!Next]_Sink!vars
  BY StepSinks
<1>3. ConsumerInv => RetentionInv
  BY DEF ConsumerInv
<1> QED
  BY <1>1, <1>2, <1>3, TypeCorrect, NothingLostSilently, OneBatchOwed, PTL
  DEF Spec, ImplementsSink, Sink!Spec
=============================================================================
