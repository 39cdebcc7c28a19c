------------------------- MODULE BinanceFeedProofs -------------------------
(***************************************************************************)
(* Proofs about BinanceFeed for every set of pairs, every limit of streams *)
(* and of parameters, and every number of requests, edits and failures:    *)
(* what the client believes its connection carries is what Binance will    *)
(* have been told, no message of a change asks for more streams than a     *)
(* connection may have, and a watcher that has read all events has handed  *)
(* the active rows to the socket.                                          *)
(***************************************************************************)
EXTENDS BinanceFeed, FiniteSetTheorems, WellFoundedInduction, TLAPS

Methods  == {"SUBSCRIBE", "UNSUBSCRIBE"}
Controls == [method : Methods, pairs : SUBSET Pairs]

\* What s passes through from S on, message by message, never more than the
\* connection may carry.
Trace(s, S, ms) ==
    /\ s \in [0..Len(ms) -> SUBSET Pairs]
    /\ s[0] = S
    /\ \A i \in 1..Len(ms) : s[i] = After(s[i - 1], ms[i])
    /\ \A i \in 0..Len(ms) : Cardinality(s[i]) <= MaxStreams

\* From S the messages lead to T, within the limit.
Leads(S, ms, T) == \E s \in [0..Len(ms) -> SUBSET Pairs] : Trace(s, S, ms) /\ s[Len(ms)] = T

Fits(S) == S \in SUBSET Pairs /\ Cardinality(S) <= MaxStreams

\* Where stream() is and whether it has a connection go together.
StreamInv ==
    /\ dialled \in Nat
    /\ IF stream \in {"sync", "open", "suspended"} THEN connection = dialled /\ dialled # 0
       ELSE stream \in {"off", "idle", "connecting"} /\ connection = 0 /\ ~open
    /\ open \in BOOLEAN
    /\ ~open => server = {} /\ control = <<>>
    /\ stream = "sync" <=> (Streamer \in waiting \/ sync.by = Streamer)
    /\ ~(Streamer \in waiting /\ sync.by = Streamer)

SyncTypes ==
    /\ sync \in [by : {Streamer, Watcher, Nobody}, on : Nat, plan : Seq(Controls), sent : BOOLEAN]
    /\ control \in Seq(Controls)
    /\ sync.on <= dialled
    /\ sync.by = Nobody => sync = Unlocked
    /\ sync.by # Nobody => sync.plan # <<>> /\ sync.on # 0

SetsFit == Fits(desired) /\ Fits(subscribed) /\ Fits(url)

\* The rest of a change, from what is noted so far, stays within the limit.
PlanInv ==
    sync.by # Nobody /\ sync.on = connection =>
        \E T \in SUBSET Pairs : Leads(subscribed, sync.plan, T)

\* The control messages on their way lead from what Binance sends to what the
\* client believes.
BeliefInv == open /\ refused = {} => Leads(server, control, Believed)

SocketInv == StreamInv /\ SyncTypes /\ SetsFit /\ PlanInv /\ BeliefInv

-----------------------------------------------------------------------------
(* The limit and the chunks.                                                *)

LEMMA FiniteOfPairs ==
  ASSUME NEW S \in SUBSET Pairs
  PROVE  IsFiniteSet(S) /\ Cardinality(S) \in Nat /\ S \in SUBSET Nat
BY SocketAssumption, FS_Subset, FS_CardinalityType

LEMMA SmallerFits ==
  ASSUME NEW S, NEW T \in SUBSET S, Fits(S)
  PROVE  Fits(T)
<1>1. IsFiniteSet(S) /\ S \in SUBSET Pairs /\ Cardinality(S) \in Nat
      /\ Cardinality(S) <= MaxStreams
  BY FiniteOfPairs DEF Fits
<1>2. T \in SUBSET Pairs /\ Cardinality(T) \in Nat /\ Cardinality(T) <= Cardinality(S)
  BY <1>1, FiniteOfPairs, FS_Subset
<1> QED BY <1>1, <1>2, SocketAssumption DEF Fits

LEMMA EmptyFits == Fits({})
BY SocketAssumption, FS_EmptySet DEF Fits

\* A pair of S has fewer pairs of S before it than S has.
LEMMA RankIsSmall ==
  ASSUME NEW S \in SUBSET Pairs, NEW p \in S
  PROVE  Rank(p, S) \in Nat /\ Rank(p, S) < Cardinality(S)
<1> DEFINE before == {q \in S : q < p}
<1>1. IsFiniteSet(S) /\ Cardinality(S) \in Nat /\ S \in SUBSET Nat
  BY FiniteOfPairs
<1>2. IsFiniteSet(S \ {p}) /\ Cardinality(S \ {p}) = Cardinality(S) - 1
  BY <1>1, FS_RemoveElement
<1>3. before \in SUBSET (S \ {p})
  BY <1>1
<1>4. Cardinality(before) \in Nat /\ Cardinality(before) <= Cardinality(S \ {p})
  <2> HIDE DEF before
  <2> QED BY <1>2, <1>3, FS_Subset, FS_CardinalityType
<1> QED BY <1>1, <1>2, <1>4 DEF Rank

\* The order of the pairs is the order of their ranks.
LEMMA RankGrows ==
  ASSUME NEW S \in SUBSET Pairs, NEW p \in S, NEW q \in S, p < q
  PROVE  Rank(p, S) < Rank(q, S)
<1> DEFINE before(x) == {y \in S : y < x}
<1>1. IsFiniteSet(S) /\ S \in SUBSET Nat
  BY FiniteOfPairs
<1>2. before(p) \in SUBSET S /\ before(q) \in SUBSET S
  OBVIOUS
<1>3. p \notin before(p) /\ before(p) \union {p} \in SUBSET before(q)
  <2>1. p \in Nat /\ q \in Nat /\ \A x \in S : x \in Nat
    BY <1>1
  <2>2. \A x \in S : x < p => x < q
    BY <2>1
  <2>3. ~(p < p)
    BY <2>1
  <2>4. before(p) \in SUBSET before(q) /\ p \in before(q) /\ p \notin before(p)
    BY <2>2, <2>3
  <2> HIDE DEF before
  <2> QED BY <2>4
<1> HIDE DEF before
<1>4. IsFiniteSet(before(p)) /\ IsFiniteSet(before(q))
  BY <1>1, <1>2, FS_Subset
<1>5. Cardinality(before(p) \union {p}) = Cardinality(before(p)) + 1
  BY <1>3, <1>4, FS_AddElement
<1>6. Cardinality(before(p) \union {p}) <= Cardinality(before(q))
  BY <1>3, <1>4, FS_Subset
<1>7. Cardinality(before(p)) \in Nat /\ Cardinality(before(q)) \in Nat
  BY <1>4, FS_CardinalityType
<1> QED BY <1>5, <1>6, <1>7 DEF Rank, before

\* The pairs within the limit have different ranks below it.
LEMMA LimitedFits ==
  ASSUME NEW S \in SUBSET Pairs
  PROVE  Fits(Limited(S))
<1> DEFINE kept == Limited(S)
           rank == [p \in kept |-> Rank(p, S)]
           ranks == 0..(MaxStreams - 1)
<1>1. kept \in SUBSET S /\ \A p \in kept : Rank(p, S) < MaxStreams
  BY DEF Limited
<1> HIDE DEF kept
<1>2. kept \in SUBSET Pairs /\ IsFiniteSet(kept) /\ Cardinality(kept) \in Nat
  <2>1. kept \in SUBSET Pairs
    BY <1>1
  <2> QED BY <2>1, FiniteOfPairs
<1>3. rank \in [kept -> ranks]
  <2>1. \A p \in kept : Rank(p, S) \in ranks
    BY <1>1, RankIsSmall, SocketAssumption
  <2> QED BY <2>1
<1>4. IsFiniteSet(ranks) /\ Cardinality(ranks) = MaxStreams
  <2>1. 0 \in Int /\ MaxStreams - 1 \in Int /\ ~(0 > MaxStreams - 1)
    BY SocketAssumption
  <2>2. IsFiniteSet(ranks) /\ Cardinality(ranks) = MaxStreams - 1 - 0 + 1
    BY <2>1, FS_Interval
  <2> QED BY <2>2, SocketAssumption
<1>5. Cardinality(kept) <= MaxStreams
  <2> SUFFICES ASSUME ~(Cardinality(kept) <= MaxStreams)
               PROVE  FALSE
    OBVIOUS
  <2>1. Cardinality(ranks) < Cardinality(kept)
    BY <1>2, <1>4, SocketAssumption
  <2> HIDE DEF rank, ranks
  <2>2. PICK p, q \in kept : p # q /\ rank[p] = rank[q]
    BY <1>2, <1>3, <1>4, <2>1, FS_PigeonHole
  <2>3. p \in S /\ q \in S /\ p \in Nat /\ q \in Nat
    BY <1>1, FiniteOfPairs
  <2>4. Rank(p, S) = Rank(q, S) /\ Rank(p, S) \in Nat
    BY <2>2, <2>3, RankIsSmall DEF rank
  <2>5. p < q \/ q < p
    BY <2>2, <2>3
  <2> QED BY <2>3, <2>4, <2>5, RankGrows
<1> QED BY <1>2, <1>5 DEF Fits, kept

\* The chunk of the last of n pairs is one that n pairs have.
LEMMA LastChunk ==
  ASSUME NEW a \in Nat, NEW n \in Nat, a < n, NEW b \in Nat \ {0}
  PROVE  /\ a \div b \in Nat /\ (n + b - 1) \div b \in Nat
         /\ a \div b < (n + b - 1) \div b
OBVIOUS

-----------------------------------------------------------------------------
(* Messages and what they lead to.                                          *)

\* _send_control's payloads are one chunk of pairs and one method; g is the
\* number of chunks before that of a pair.
LEMMA MessagesAre ==
  ASSUME NEW S \in SUBSET Pairs, NEW method \in Methods
  PROVE  /\ Messages(method, S) \in Seq(Controls)
         /\ \E g \in [S -> Nat] :
               /\ \A i \in 1..Len(Messages(method, S)) : Messages(method, S)[i] =
                      [method |-> method, pairs |-> {p \in S : g[p] = i - 1}]
               /\ \A p \in S : g[p] < Len(Messages(method, S))
<1> DEFINE n == (Cardinality(S) + MaxParams - 1) \div MaxParams
           g == [p \in S |-> Rank(p, S) \div MaxParams]
           chunk(i) == [method |-> method, pairs |-> {p \in S : g[p] = i - 1}]
<1>1. Cardinality(S) \in Nat /\ MaxParams \in Nat \ {0}
  BY FiniteOfPairs, SocketAssumption
<1>2. n \in Nat
  BY <1>1
<1>3. \A p \in S : Rank(p, S) \div MaxParams \in Nat /\ Rank(p, S) \div MaxParams < n
  BY <1>1, RankIsSmall, LastChunk
<1>4. g \in [S -> Nat] /\ \A p \in S : g[p] < n
  BY <1>3
<1>5. \A i : {p \in S : g[p] = i - 1} = {p \in S : Rank(p, S) \div MaxParams = i - 1}
  OBVIOUS
<1>6. Messages(method, S) = [i \in 1..n |-> chunk(i)]
  BY <1>5 DEF Messages
<1> HIDE DEF n
<1>7. \A i \in 1..n : chunk(i) \in Controls
  BY DEF Controls
<1> HIDE DEF chunk
<1>8. Messages(method, S) \in Seq(Controls) /\ Len(Messages(method, S)) = n
  BY <1>2, <1>6, <1>7
<1>9. \A i \in 1..n : Messages(method, S)[i] = chunk(i)
  BY <1>6
<1> HIDE DEF g
<1> QED BY <1>4, <1>8, <1>9 DEF chunk

LEMMA OneAfterTheOther ==
  ASSUME NEW a \in Seq(Controls), NEW b \in Seq(Controls)
  PROVE  /\ a \o b \in Seq(Controls) /\ Len(a \o b) = Len(a) + Len(b)
         /\ Len(a) \in Nat /\ Len(b) \in Nat
         /\ \A i \in 1..Len(a) : (a \o b)[i] = a[i]
         /\ \A i \in (Len(a) + 1)..(Len(a) + Len(b)) : (a \o b)[i] = b[i - Len(a)]
OBVIOUS

LEMMA AfterIsPairs ==
  ASSUME NEW S \in SUBSET Pairs, NEW m \in Controls
  PROVE  After(S, m) \in SUBSET Pairs
BY DEF After, Controls

LEMMA NothingLeads ==
  ASSUME NEW S, Fits(S)
  PROVE  Leads(S, <<>>, S)
<1> DEFINE s == [i \in 0..0 |-> S]
<1>1. s \in [0..Len(<<>>) -> SUBSET Pairs] /\ s[0] = S /\ s[Len(<<>>)] = S
  BY DEF Fits
<1>2. Trace(s, S, <<>>)
  BY <1>1 DEF Trace, Fits
<1> QED BY <1>1, <1>2 DEF Leads

LEMMA LeadsFit ==
  ASSUME NEW S, NEW T, NEW ms \in Seq(Controls), Leads(S, ms, T)
  PROVE  Fits(S) /\ Fits(T)
<1>1. PICK s \in [0..Len(ms) -> SUBSET Pairs] : Trace(s, S, ms) /\ s[Len(ms)] = T
  BY DEF Leads
<1>2. Len(ms) \in Nat /\ 0 \in 0..Len(ms) /\ Len(ms) \in 0..Len(ms)
  OBVIOUS
<1> QED BY <1>1, <1>2 DEF Trace, Fits

\* One message less, and from where it leads to.
LEMMA TailLeads ==
  ASSUME NEW S, NEW T, NEW ms \in Seq(Controls), ms # <<>>, Leads(S, ms, T)
  PROVE  Leads(After(S, Head(ms)), Tail(ms), T) /\ Fits(After(S, Head(ms)))
<1>1. PICK s \in [0..Len(ms) -> SUBSET Pairs] : Trace(s, S, ms) /\ s[Len(ms)] = T
  BY DEF Leads
<1> DEFINE rest == [i \in 0..(Len(ms) - 1) |-> s[i + 1]]
<1>2. /\ Len(ms) \in Nat \ {0} /\ Tail(ms) \in Seq(Controls) /\ Len(Tail(ms)) = Len(ms) - 1
      /\ Head(ms) = ms[1] /\ \A i \in 1..(Len(ms) - 1) : Tail(ms)[i] = ms[i + 1]
  OBVIOUS
<1>3. s[1] = After(S, Head(ms)) /\ Cardinality(s[1]) <= MaxStreams /\ s[1] \in SUBSET Pairs
  BY <1>1, <1>2 DEF Trace
<1>4. rest \in [0..Len(Tail(ms)) -> SUBSET Pairs]
  BY <1>2
<1>5. rest[0] = After(S, Head(ms)) /\ rest[Len(Tail(ms))] = T
  BY <1>1, <1>2, <1>3
<1>6. ASSUME NEW i \in 1..Len(Tail(ms))
      PROVE  rest[i] = After(rest[i - 1], Tail(ms)[i])
  <2>1. i + 1 \in 1..Len(ms) /\ i - 1 \in 0..(Len(ms) - 1) /\ i \in 0..(Len(ms) - 1) /\ (i + 1) - 1 = i
    BY <1>2
  <2>2. s[i + 1] = After(s[i], ms[i + 1])
    BY <1>1, <2>1 DEF Trace
  <2>3. rest[i] = s[i + 1] /\ rest[i - 1] = s[i]
    BY <2>1
  <2>4. Tail(ms)[i] = ms[i + 1]
    BY <1>2
  <2> HIDE DEF rest
  <2> QED BY <2>2, <2>3, <2>4
<1>7. \A i \in 0..Len(Tail(ms)) : Cardinality(rest[i]) <= MaxStreams
  BY <1>1, <1>2 DEF Trace
<1> HIDE DEF rest
<1> QED BY <1>3, <1>4, <1>5, <1>6, <1>7 DEF Leads, Trace, Fits

\* One message more.
LEMMA AppendLeads ==
  ASSUME NEW S, NEW T, NEW ms \in Seq(Controls), NEW m \in Controls,
         Leads(S, ms, T), Fits(After(T, m))
  PROVE  Leads(S, Append(ms, m), After(T, m))
<1>1. PICK s \in [0..Len(ms) -> SUBSET Pairs] : Trace(s, S, ms) /\ s[Len(ms)] = T
  BY DEF Leads
<1> DEFINE more == [i \in 0..(Len(ms) + 1) |-> IF i = Len(ms) + 1 THEN After(T, m) ELSE s[i]]
           all == Append(ms, m)
<1>2. /\ Len(ms) \in Nat /\ Len(all) = Len(ms) + 1 /\ all[Len(ms) + 1] = m
      /\ \A i \in 1..Len(ms) : all[i] = ms[i]
  OBVIOUS
<1> HIDE DEF all
<1>3. more \in [0..Len(all) -> SUBSET Pairs]
  BY <1>2 DEF Fits
<1>4. more[0] = S /\ more[Len(all)] = After(T, m)
  BY <1>1, <1>2 DEF Trace
<1>5. ASSUME NEW i \in 1..Len(all)
      PROVE  more[i] = After(more[i - 1], all[i])
  <2>1. CASE i = Len(ms) + 1
    <3>1. i - 1 = Len(ms) /\ i - 1 \in 0..(Len(ms) + 1) /\ i - 1 # Len(ms) + 1
      BY <1>2, <2>1
    <3>2. more[i] = After(T, m)
      BY <2>1
    <3>3. more[i - 1] = s[i - 1]
      BY <3>1
    <3>4. s[i - 1] = T /\ all[i] = m
      BY <1>1, <1>2, <2>1, <3>1
    <3> HIDE DEF more
    <3> QED BY <3>2, <3>3, <3>4
  <2>2. CASE i # Len(ms) + 1
    <3>1. i \in 1..Len(ms) /\ i - 1 \in 0..Len(ms) /\ i - 1 # Len(ms) + 1
      BY <1>2, <2>2
    <3>2. s[i] = After(s[i - 1], ms[i])
      BY <1>1, <3>1 DEF Trace
    <3>3. more[i] = s[i] /\ more[i - 1] = s[i - 1] /\ all[i] = ms[i]
      BY <1>2, <3>1
    <3> HIDE DEF more
    <3> QED BY <3>2, <3>3
  <2> QED BY <2>1, <2>2
<1>6. \A i \in 0..Len(all) : Cardinality(more[i]) <= MaxStreams
  BY <1>1, <1>2 DEF Trace, Fits
<1> HIDE DEF more
<1> QED BY <1>3, <1>4, <1>5, <1>6 DEF Leads, Trace, all

\* What Applied computes is where the messages lead: there is no first message
\* at which the two differ.
LEMMA AppliedIs ==
  ASSUME NEW S, NEW T, NEW ms \in Seq(Controls), Leads(S, ms, T)
  PROVE  Applied(S, ms) = T
<1>1. PICK s \in [0..Len(ms) -> SUBSET Pairs] : Trace(s, S, ms) /\ s[Len(ms)] = T
  BY DEF Leads
<1> DEFINE Step(g) == [i \in 0..Len(ms) |-> IF i = 0 THEN S ELSE After(g[i - 1], ms[i])]
           chosen == CHOOSE g : g = Step(g)
           differ == {i \in 0..Len(ms) : chosen[i] # s[i]}
           Less == OpToRel(<, Nat)
<1>2. Applied(S, ms) = chosen[Len(ms)]
  BY DEF Applied
<1>3. s = Step(s)
  <2>1. \A i \in 0..Len(ms) : s[i] = IF i = 0 THEN S ELSE After(s[i - 1], ms[i])
    BY <1>1 DEF Trace
  <2> QED BY <2>1
<1>4. chosen = Step(chosen)
  BY <1>3
<1>5. differ = {}
  <2> SUFFICES ASSUME differ # {}
               PROVE  FALSE
    OBVIOUS
  <2>1. differ \subseteq Nat
    OBVIOUS
  <2>2. PICK i \in differ : \A j \in differ : ~ (<<j, i>> \in Less)
    <3> HIDE DEF differ, Less
    <3> QED BY <2>1, NatLessThanWellFounded, WFMin DEF Less
  <2>3. i \in 0..Len(ms) /\ i \in Nat /\ chosen[i] # s[i]
    BY <2>1
  <2> HIDE DEF chosen
  <2>4. chosen[i] = IF i = 0 THEN S ELSE After(chosen[i - 1], ms[i])
    BY <1>4, <2>3
  <2>5. s[i] = IF i = 0 THEN S ELSE After(s[i - 1], ms[i])
    BY <1>3, <2>3
  <2>6. i # 0 => chosen[i - 1] = s[i - 1]
    <3> SUFFICES ASSUME i # 0
                 PROVE  chosen[i - 1] = s[i - 1]
      OBVIOUS
    <3>1. i - 1 \in 0..Len(ms) /\ i - 1 \in Nat
      BY <2>3
    <3>2. <<i - 1, i>> \in Less
      BY <2>3, <3>1 DEF OpToRel
    <3> QED BY <2>2, <3>1, <3>2
  <2> QED BY <2>3, <2>4, <2>5, <2>6
<1> HIDE DEF chosen
<1> QED BY <1>1, <1>2, <1>5

\* _sync_subscriptions: between the messages of one change the connection
\* carries a part of what it had or a part of what it should have, as what is
\* no longer wanted is given up first.
LEMMA ChangesLead ==
  ASSUME Fits(subscribed), Fits(desired)
  PROVE  /\ Changes \in Seq(Controls)
         /\ \E T \in SUBSET Pairs : Leads(subscribed, Changes, T)
<1> DEFINE U == subscribed \ desired
           D == desired \ subscribed
           first  == Messages("UNSUBSCRIBE", U)
           second == Messages("SUBSCRIBE", D)
           n1 == Len(first)
           n2 == Len(second)
<1>1. U \in SUBSET Pairs /\ D \in SUBSET Pairs /\ subscribed \in SUBSET Pairs
      /\ desired \in SUBSET Pairs
      /\ "UNSUBSCRIBE" \in Methods /\ "SUBSCRIBE" \in Methods
  BY DEF Fits, Methods
<1>2. Changes = first \o second
  BY DEF Changes
<1>3. PICK g \in [U -> Nat] :
         /\ \A i \in 1..n1 : first[i] =
                [method |-> "UNSUBSCRIBE", pairs |-> {p \in U : g[p] = i - 1}]
         /\ \A p \in U : g[p] < n1
  <2> HIDE DEF U
  <2> QED BY <1>1, MessagesAre
<1>4. PICK h \in [D -> Nat] :
         /\ \A i \in 1..n2 : second[i] =
                [method |-> "SUBSCRIBE", pairs |-> {p \in D : h[p] = i - 1}]
         /\ \A p \in D : h[p] < n2
  <2> HIDE DEF D
  <2> QED BY <1>1, MessagesAre
<1>5. first \in Seq(Controls) /\ second \in Seq(Controls)
  <2> HIDE DEF U, D
  <2> QED BY <1>1, MessagesAre
<1> HIDE DEF first, second
<1>6. /\ Changes \in Seq(Controls) /\ Len(Changes) = n1 + n2 /\ n1 \in Nat /\ n2 \in Nat
      /\ \A i \in 1..n1 : Changes[i] = first[i]
      /\ \A i \in (n1 + 1)..(n1 + n2) : Changes[i] = second[i - n1]
  BY <1>2, <1>5, OneAfterTheOther
<1> HIDE DEF n1, n2
<1> DEFINE out(i) == {p \in U : g[p] < i}
           in(i)  == {p \in D : h[p] < i - n1}
           at(i)  == (subscribed \ out(i)) \union in(i)
           s == [i \in 0..(n1 + n2) |-> at(i)]
<1>7. \A i \in 0..n1 : in(i) = {}
  BY <1>4, <1>6
<1>8. \A i \in n1..(n1 + n2) : out(i) = U
  BY <1>3, <1>6
<1>9. out(0) = {}
  BY <1>3
<1>10. ASSUME NEW i \in 0..(n1 + n2)
      PROVE  at(i) \in SUBSET Pairs /\ Cardinality(at(i)) <= MaxStreams
  <2>1. CASE i \in 0..n1
    <3>1. at(i) \in SUBSET subscribed
      BY <1>7, <2>1
    <3> HIDE DEF at
    <3> QED BY <3>1, SmallerFits DEF Fits
  <2>2. CASE i \notin 0..n1
    <3>1. i \in n1..(n1 + n2)
      BY <1>6, <2>2
    <3>2. at(i) \in SUBSET desired
      BY <1>8, <3>1
    <3> HIDE DEF at
    <3> QED BY <3>2, SmallerFits DEF Fits
  <2> QED BY <2>1, <2>2
<1>11. at(0) = subscribed
  <2>1. in(0) = {}
    BY <1>6, <1>7
  <2> HIDE DEF in, out
  <2> QED BY <1>9, <2>1
<1>12. ASSUME NEW i \in 1..(n1 + n2)
       PROVE  at(i) = After(at(i - 1), Changes[i])
  <2>1. CASE i \in 1..n1
    <3>1. in(i) = {} /\ in(i - 1) = {}
      <4>1. i \in 0..n1 /\ i - 1 \in 0..n1
        BY <1>6, <2>1
      <4> HIDE DEF in
      <4> QED BY <1>7, <4>1
    <3>2. out(i) = out(i - 1) \union {p \in U : g[p] = i - 1}
      <4>1. \A p \in U : g[p] < i <=> (g[p] < i - 1 \/ g[p] = i - 1)
        BY <1>3, <2>1
      <4> QED BY <4>1
    <3>3. Changes[i] = [method |-> "UNSUBSCRIBE", pairs |-> {p \in U : g[p] = i - 1}]
      BY <1>3, <1>6, <2>1
    <3>4. After(at(i - 1), Changes[i]) = at(i - 1) \ {p \in U : g[p] = i - 1}
      <4> HIDE DEF at
      <4> QED BY <3>3 DEF After
    <3> HIDE DEF out, in
    <3> QED BY <3>1, <3>2, <3>4
  <2>2. CASE i \notin 1..n1
    <3>1. i \in (n1 + 1)..(n1 + n2) /\ i \in n1..(n1 + n2) /\ i - 1 \in n1..(n1 + n2)
          /\ i - n1 \in 1..n2
      BY <1>6, <2>2
    <3>2. out(i) = U /\ out(i - 1) = U
      <4> HIDE DEF out
      <4> QED BY <1>8, <3>1
    <3>3. in(i) = in(i - 1) \union {p \in D : h[p] = i - n1 - 1}
      <4>1. \A p \in D : h[p] < i - n1 <=> (h[p] < i - 1 - n1 \/ h[p] = i - n1 - 1)
        BY <1>4, <1>6, <3>1
      <4> QED BY <4>1
    <3>4. Changes[i] = [method |-> "SUBSCRIBE", pairs |-> {p \in D : h[p] = i - n1 - 1}]
      BY <1>4, <1>6, <3>1
    <3>5. After(at(i - 1), Changes[i]) = at(i - 1) \union {p \in D : h[p] = i - n1 - 1}
      <4> HIDE DEF at
      <4> QED BY <3>4 DEF After
    <3> HIDE DEF out, in
    <3> QED BY <3>2, <3>3, <3>5
  <2> QED BY <2>1, <2>2
<1> HIDE DEF at
<1>13. s \in [0..Len(Changes) -> SUBSET Pairs] /\ s[0] = subscribed
  BY <1>6, <1>10, <1>11
<1>14. \A i \in 1..Len(Changes) : s[i] = After(s[i - 1], Changes[i])
  <2> TAKE i \in 1..Len(Changes)
  <2>1. i \in 1..(n1 + n2) /\ i \in 0..(n1 + n2) /\ i - 1 \in 0..(n1 + n2)
    BY <1>6
  <2>2. s[i] = at(i) /\ s[i - 1] = at(i - 1)
    BY <2>1
  <2> HIDE DEF s
  <2> QED BY <1>12, <2>1, <2>2
<1>15. \A i \in 0..Len(Changes) : Cardinality(s[i]) <= MaxStreams
  BY <1>6, <1>10
<1>16. s[Len(Changes)] \in SUBSET Pairs
  BY <1>6, <1>13
<1> HIDE DEF s
<1>17. Trace(s, subscribed, Changes)
  BY <1>13, <1>14, <1>15 DEF Trace
<1> QED BY <1>6, <1>13, <1>16, <1>17 DEF Leads

-----------------------------------------------------------------------------
(* The steps of the socket.                                                 *)

LEMMA TasksDiffer ==
  Streamer # Watcher /\ Streamer # Nobody /\ Watcher # Nobody
BY SocketAssumption

LEMMA UnlockedIs ==
  /\ Unlocked \in [by : {Streamer, Watcher, Nobody}, on : Nat, plan : Seq(Controls), sent : BOOLEAN]
  /\ Unlocked.by = Nobody /\ Unlocked.on = 0 /\ Unlocked.sent = FALSE
BY DEF Unlocked

\* Neither the connection, nor what is noted and what is on its way change.
LEMMA QuietSocket ==
  ASSUME SocketInv, UNCHANGED <<subscribed, connection, dialled, link, sync>>, StreamInv', SetsFit'
  PROVE  SocketInv'
BY DEF SocketInv, SyncTypes, PlanInv, BeliefInv, Believed, link

\* The connection is gone, and with it what was on its way.
LEMMA HangupKeeps ==
  ASSUME SocketInv, Hangup, UNCHANGED <<desired, url, subscribed, connection, dialled, sync>>,
         StreamInv'
  PROVE  SocketInv'
<1>1. SyncTypes' /\ SetsFit' /\ PlanInv'
  BY DEF SocketInv, SyncTypes, SetsFit, PlanInv, Hangup
<1>2. BeliefInv'
  BY DEF Hangup, BeliefInv
<1> QED BY <1>1, <1>2 DEF SocketInv

LEMMA ConnectedKeeps ==
  ASSUME SocketInv, Connected
  PROVE  SocketInv'
<1>1. /\ stream = "connecting" /\ dialled' = dialled + 1 /\ connection' = dialled + 1
      /\ open' = TRUE /\ server' = url /\ control' = <<>> /\ refused' = {}
      /\ subscribed' = url /\ waiting' = waiting \union {Streamer} /\ stream' = "sync"
      /\ UNCHANGED <<desired, url, sync>>
  BY DEF Connected, AskedFor, AfterConnect
<1>2. dialled \in Nat /\ sync.by # Streamer /\ sync.on \in Nat /\ sync.on <= dialled
      /\ Fits(url)
  BY <1>1 DEF SocketInv, StreamInv, SyncTypes, SetsFit
<1>3. StreamInv'
  BY <1>1, <1>2 DEF StreamInv
<1>4. SyncTypes' /\ SetsFit'
  BY <1>1, <1>2 DEF SocketInv, SyncTypes, SetsFit
<1>5. sync'.on # connection'
  BY <1>1, <1>2
<1>6. PlanInv'
  BY <1>5 DEF PlanInv
<1>7. Believed' = url
  BY <1>1, <1>5 DEF Believed
<1>8. Leads(url, <<>>, url)
  BY <1>2, NothingLeads
<1>9. BeliefInv'
  BY <1>1, <1>7, <1>8 DEF BeliefInv
<1> QED BY <1>3, <1>4, <1>6, <1>9 DEF SocketInv

LEMMA EndedKeeps ==
  ASSUME SocketInv, Ended
  PROVE  SocketInv'
<1>1. /\ stream = "open" /\ ~open /\ connection' = 0 /\ subscribed' = {} /\ stream' = "idle"
      /\ UNCHANGED <<desired, dialled, open, server, control, refused, url, waiting, sync>>
  BY DEF Ended, link
<1>2. StreamInv'
  BY <1>1 DEF SocketInv, StreamInv
<1>3. SyncTypes' /\ SetsFit'
  BY <1>1, EmptyFits DEF SocketInv, SyncTypes, SetsFit
<1>4. PlanInv'
  BY <1>1 DEF SocketInv, SyncTypes, PlanInv
<1>5. BeliefInv'
  BY <1>1 DEF BeliefInv
<1> QED BY <1>2, <1>3, <1>4, <1>5 DEF SocketInv

\* A task that gets the lock plans the change, or has nothing to do.
LEMMA EnterSyncKeeps ==
  ASSUME SocketInv, NEW task \in {Streamer, Watcher}, EnterSync(task)
  PROVE  SocketInv'
<1>1. /\ task \in waiting /\ sync.by = Nobody /\ waiting' = waiting \ {task} /\ sync = Unlocked
      /\ UNCHANGED <<desired, subscribed, connection, dialled, url>>
  BY DEF EnterSync, SocketInv, SyncTypes
<1>2. task = Streamer => stream = "sync" /\ connection # 0
  BY <1>1 DEF SocketInv, StreamInv
<1>3. CASE Leaves(task) /\ UNCHANGED link
  <2>1. sync' = sync /\ stream' = IF task = Streamer THEN "open" ELSE stream
    BY <1>1, <1>3 DEF Leaves
  <2>2. StreamInv'
    BY <1>1, <1>2, <1>3, <2>1, TasksDiffer DEF SocketInv, StreamInv, link
  <2>3. SetsFit'
    BY <1>1 DEF SocketInv, SetsFit
  <2> QED BY <1>1, <1>3, <2>1, <2>2, <2>3, QuietSocket
<1>4. CASE Leaves(task) /\ open' = FALSE /\ server' = {} /\ control' = <<>> /\ refused' = {}
  <2>1. sync' = sync /\ stream' = IF task = Streamer THEN "open" ELSE stream
    BY <1>1, <1>4 DEF Leaves
  <2>2. StreamInv'
    BY <1>1, <1>2, <1>4, <2>1, TasksDiffer DEF SocketInv, StreamInv
  <2> QED BY <1>1, <1>4, <2>1, <2>2, HangupKeeps DEF Hangup
<1>5. CASE /\ connection # 0 /\ Changes # <<>>
           /\ sync' = [by |-> task, on |-> connection, plan |-> Changes, sent |-> FALSE]
           /\ UNCHANGED <<link, stream>>
  <2>1. Changes \in Seq(Controls) /\ \E T \in SUBSET Pairs : Leads(subscribed, Changes, T)
    BY ChangesLead DEF SocketInv, SetsFit
  <2>2. /\ sync'.by = task /\ sync'.on = connection /\ sync'.plan = Changes /\ sync'.sent = FALSE
    BY <1>5
  <2>3. connection = dialled /\ dialled \in Nat
    BY <1>5 DEF SocketInv, StreamInv
  <2>4. StreamInv'
    BY <1>1, <1>2, <1>5, <2>2, TasksDiffer DEF SocketInv, StreamInv, link
  <2>5. SyncTypes'
    BY <1>1, <1>5, <2>1, <2>2, <2>3, TasksDiffer DEF SocketInv, SyncTypes, link
  <2>6. SetsFit'
    BY <1>1 DEF SocketInv, SetsFit
  <2>7. PlanInv'
    BY <1>1, <2>1, <2>2 DEF PlanInv
  <2>8. Believed' = Believed
    BY <1>1, <2>2, UnlockedIs DEF Believed
  <2>9. BeliefInv'
    BY <1>5, <2>8 DEF SocketInv, BeliefInv, link
  <2> QED BY <2>4, <2>5, <2>6, <2>7, <2>9 DEF SocketInv
<1> QED BY <1>3, <1>4, <1>5 DEF EnterSync

\* A task that leaves with nothing sent believes what it had noted.
LEMMA LeavingKeeps ==
  ASSUME SocketInv, NEW task \in {Streamer, Watcher}, sync.by = task, Leaves(task),
         Believed = subscribed,
         UNCHANGED <<desired, subscribed, connection, dialled, link, url, waiting>>
  PROVE  SocketInv'
<1>1. sync' = Unlocked /\ stream' = IF task = Streamer THEN "open" ELSE stream
  BY DEF Leaves
<1>2. StreamInv'
  BY <1>1, TasksDiffer, UnlockedIs DEF SocketInv, StreamInv, link
<1>3. SyncTypes'
  BY <1>1, UnlockedIs DEF SocketInv, SyncTypes, StreamInv, link
<1>4. SetsFit'
  BY DEF SocketInv, SetsFit
<1>5. PlanInv'
  BY <1>1, UnlockedIs DEF PlanInv
<1>6. Believed' = Believed
  BY <1>1, UnlockedIs DEF Believed
<1>7. BeliefInv'
  BY <1>6 DEF SocketInv, BeliefInv, link
<1> QED BY <1>2, <1>3, <1>4, <1>5, <1>7 DEF SocketInv

\* A chunk is on its way, and believed in.
LEMMA SendKeeps ==
  ASSUME SocketInv, NEW task \in {Streamer, Watcher}, Send(task)
  PROVE  SocketInv'
<1>1. /\ sync.by = task /\ ~sync.sent /\ sync.by # Nobody
      /\ UNCHANGED <<desired, subscribed, connection, dialled, open, server, refused, url, waiting>>
  BY TasksDiffer DEF Send
<1>2. Believed = subscribed
  BY <1>1 DEF Believed
<1>3. CASE ~(open /\ dialled = sync.on)
  <2>1. Leaves(task) /\ UNCHANGED control
    BY <1>3 DEF Send
  <2> QED BY <1>1, <1>2, <2>1, LeavingKeeps DEF link
<1>4. CASE open /\ dialled = sync.on
  <2>1. /\ control' = Append(control, Head(sync.plan))
        /\ sync' = [sync EXCEPT !.sent = TRUE] /\ UNCHANGED stream
    BY <1>4 DEF Send
  <2>2. /\ sync.plan \in Seq(Controls) /\ sync.plan # <<>> /\ control \in Seq(Controls)
        /\ sync \in [by : {Streamer, Watcher, Nobody}, on : Nat, plan : Seq(Controls), sent : BOOLEAN]
    BY <1>1 DEF SocketInv, SyncTypes
  <2>3. Head(sync.plan) \in Controls
    BY <2>2
  <2>4. /\ sync'.by = sync.by /\ sync'.on = sync.on /\ sync'.plan = sync.plan /\ sync'.sent
        /\ sync' \in [by : {Streamer, Watcher, Nobody}, on : Nat, plan : Seq(Controls), sent : BOOLEAN]
    BY <2>1, <2>2
  <2>5. connection = dialled
    BY <1>4 DEF SocketInv, StreamInv
  <2>6. StreamInv'
    BY <1>1, <1>4, <2>1, <2>4 DEF SocketInv, StreamInv
  <2>7. SyncTypes'
    BY <1>1, <2>1, <2>2, <2>3, <2>4 DEF SocketInv, SyncTypes
  <2>8. SetsFit'
    BY <1>1 DEF SocketInv, SetsFit
  <2>9. PlanInv'
    BY <1>1, <2>4 DEF SocketInv, PlanInv
  <2>10. Fits(After(subscribed, Head(sync.plan)))
    <3>1. PICK T \in SUBSET Pairs : Leads(subscribed, sync.plan, T)
      BY <1>1, <1>4, <2>5 DEF SocketInv, PlanInv
    <3> QED BY <2>2, <3>1, TailLeads
  <2>11. Believed' = After(subscribed, Head(sync.plan))
    BY <1>1, <1>4, <2>4, <2>5 DEF Believed
  <2>12. ASSUME open', refused' = {}
         PROVE  Leads(server', control', Believed')
    <3>1. Leads(server, control, subscribed)
      BY <1>1, <1>2, <2>12 DEF SocketInv, BeliefInv
    <3> QED BY <1>1, <2>1, <2>2, <2>3, <2>10, <2>11, <3>1, AppendLeads
  <2> QED BY <2>6, <2>7, <2>8, <2>9, <2>12 DEF SocketInv, BeliefInv
<1> QED BY <1>3, <1>4

\* What was believed in is noted, on the connection it was sent on.
LEMMA NoteKeeps ==
  ASSUME SocketInv, NEW task \in {Streamer, Watcher}, Note(task)
  PROVE  SocketInv'
<1>1. /\ sync.by = task /\ sync.sent /\ sync.by # Nobody
      /\ UNCHANGED <<desired, connection, dialled, open, server, control, refused, url, waiting>>
  BY TasksDiffer DEF Note, link
<1>2. CASE ~SameConnection
  <2>1. Leaves(task) /\ UNCHANGED subscribed
    BY <1>2 DEF Note
  <2>2. Believed = subscribed
    BY <1>2 DEF Believed, SameConnection
  <2> QED BY <1>1, <2>1, <2>2, LeavingKeeps DEF link
<1>3. CASE SameConnection
  <2>1. /\ subscribed' = After(subscribed, Head(sync.plan))
        /\ IF Len(sync.plan) = 1 THEN Leaves(task)
           ELSE /\ sync' = [sync EXCEPT !.plan = Tail(@), !.sent = FALSE]
                /\ UNCHANGED stream
    BY <1>3 DEF Note
  <2>2. Believed = subscribed'
    BY <1>1, <1>3, <2>1 DEF Believed, SameConnection
  <2>3. /\ sync.plan \in Seq(Controls) /\ sync.plan # <<>>
        /\ sync \in [by : {Streamer, Watcher, Nobody}, on : Nat, plan : Seq(Controls), sent : BOOLEAN]
    BY <1>1 DEF SocketInv, SyncTypes
  <2>4. PICK T \in SUBSET Pairs : Leads(subscribed, sync.plan, T)
    BY <1>1, <1>3 DEF SocketInv, PlanInv, SameConnection
  <2>5. Leads(subscribed', Tail(sync.plan), T) /\ Fits(subscribed')
    BY <2>1, <2>3, <2>4, TailLeads
  <2>6. SetsFit'
    BY <1>1, <2>5 DEF SocketInv, SetsFit
  <2>7. CASE Len(sync.plan) = 1
    <3>1. sync' = Unlocked /\ stream' = IF task = Streamer THEN "open" ELSE stream
      BY <2>1, <2>7 DEF Leaves
    <3>2. StreamInv'
      BY <1>1, <3>1, TasksDiffer, UnlockedIs DEF SocketInv, StreamInv
    <3>3. SyncTypes'
      BY <1>1, <3>1, UnlockedIs DEF SocketInv, SyncTypes, StreamInv
    <3>4. PlanInv'
      BY <3>1, UnlockedIs DEF PlanInv
    <3>5. Believed' = subscribed'
      BY <3>1, UnlockedIs DEF Believed
    <3>6. BeliefInv'
      BY <1>1, <2>2, <3>5 DEF SocketInv, BeliefInv
    <3> QED BY <2>6, <3>2, <3>3, <3>4, <3>6 DEF SocketInv
  <2>8. CASE Len(sync.plan) # 1
    <3>1. sync' = [sync EXCEPT !.plan = Tail(@), !.sent = FALSE] /\ stream' = stream
      BY <2>1, <2>8
    <3>2. Tail(sync.plan) \in Seq(Controls) /\ Tail(sync.plan) # <<>>
      <4>1. Len(sync.plan) \in Nat /\ Len(sync.plan) # 0
        BY <2>3
      <4>2. Tail(sync.plan) \in Seq(Controls) /\ Len(Tail(sync.plan)) = Len(sync.plan) - 1
        BY <2>3
      <4>3. Len(Tail(sync.plan)) # 0
        BY <2>8, <4>1, <4>2
      <4>4. Len(<<>>) = 0
        OBVIOUS
      <4>5. Tail(sync.plan) # <<>>
        BY <4>3, <4>4, Zenon
      <4> QED BY <4>2, <4>5
    <3>3. /\ sync'.by = sync.by /\ sync'.on = sync.on /\ sync'.plan = Tail(sync.plan) /\ ~sync'.sent
          /\ sync' \in [by : {Streamer, Watcher, Nobody}, on : Nat, plan : Seq(Controls), sent : BOOLEAN]
      BY <2>3, <3>1, <3>2
    <3>4. StreamInv'
      BY <1>1, <3>1, <3>3 DEF SocketInv, StreamInv
    <3>5. SyncTypes'
      BY <1>1, <3>2, <3>3 DEF SocketInv, SyncTypes
    <3>6. PlanInv'
      BY <2>5, <3>3 DEF PlanInv
    <3>7. Believed' = subscribed'
      BY <3>3 DEF Believed
    <3>8. BeliefInv'
      BY <1>1, <2>2, <3>7 DEF SocketInv, BeliefInv
    <3> QED BY <2>6, <3>4, <3>5, <3>6, <3>8 DEF SocketInv
  <2> QED BY <2>7, <2>8
<1> QED BY <1>2, <1>3

\* Binance handles the first message on its way; one it refuses ends the
\* promise, unless it had nothing to refuse.
LEMMA HandledKeeps ==
  ASSUME SocketInv, Applies \/ Refuses
  PROVE  SocketInv'
<1>1. /\ control # <<>> /\ control' = Tail(control)
      /\ UNCHANGED <<desired, subscribed, connection, dialled, open, stream, url, waiting, sync>>
      /\ \/ server' = After(server, Head(control)) /\ refused' = refused
         \/ server' = server /\ refused' = refused \union Head(control).pairs
  BY DEF Applies, Refuses
<1>2. control \in Seq(Controls) /\ control' \in Seq(Controls) /\ open
  BY <1>1 DEF SocketInv, SyncTypes, StreamInv
<1>3. StreamInv'
  BY <1>1, <1>2 DEF SocketInv, StreamInv
<1>4. SyncTypes' /\ SetsFit' /\ PlanInv'
  BY <1>1, <1>2 DEF SocketInv, SyncTypes, SetsFit, PlanInv
<1>5. Believed' = Believed
  BY <1>1 DEF Believed
<1>6. ASSUME refused' = {}
      PROVE  refused = {} /\ server' = After(server, Head(control))
  <2>1. CASE server' = After(server, Head(control)) /\ refused' = refused
    BY <1>6, <2>1
  <2>2. CASE server' = server /\ refused' = refused \union Head(control).pairs
    <3>1. refused = {} /\ Head(control).pairs = {}
      BY <1>6, <2>2
    <3> QED BY <2>2, <3>1 DEF After
  <2> QED BY <1>1, <2>1, <2>2
<1>7. BeliefInv'
  <2> SUFFICES ASSUME refused' = {}
               PROVE  Leads(server', control', Believed')
    BY DEF BeliefInv
  <2>1. Leads(server, control, Believed)
    BY <1>2, <1>6 DEF SocketInv, BeliefInv
  <2> QED BY <1>1, <1>2, <1>5, <1>6, <2>1, TailLeads
<1> QED BY <1>3, <1>4, <1>7 DEF SocketInv

LEMMA DiesKeeps ==
  ASSUME SocketInv, SocketDies
  PROVE  SocketInv'
<1>1. /\ subscribed' = {} /\ connection' = 0 /\ desired' = {} /\ url' = {}
      /\ open' = FALSE /\ server' = {} /\ control' = <<>>
      /\ stream' = "off" /\ waiting' = {} /\ sync' = Unlocked /\ dialled' = dialled
  BY DEF SocketDies, Hangup
<1>2. dialled \in Nat
  BY DEF SocketInv, StreamInv
<1>3. StreamInv'
  BY <1>1, <1>2, TasksDiffer, UnlockedIs DEF StreamInv
<1>4. SyncTypes'
  BY <1>1, <1>2, UnlockedIs DEF SyncTypes
<1>5. SetsFit' /\ PlanInv' /\ BeliefInv'
  BY <1>1, EmptyFits, UnlockedIs DEF SetsFit, PlanInv, BeliefInv
<1> QED BY <1>3, <1>4, <1>5 DEF SocketInv

LEMMA SocketStarts == SocketInit => SocketInv
<1> SUFFICES ASSUME SocketInit
             PROVE  SocketInv
  OBVIOUS
<1>1. /\ desired = {} /\ dialled = 0 /\ subscribed = {} /\ connection = 0 /\ url = {}
      /\ open = FALSE /\ server = {} /\ control = <<>>
      /\ stream = "off" /\ waiting = {} /\ sync = Unlocked
  BY DEF SocketInit, SocketDown
<1>2. StreamInv
  BY <1>1, TasksDiffer, UnlockedIs DEF StreamInv
<1>3. SyncTypes
  BY <1>1, UnlockedIs DEF SyncTypes
<1>4. SetsFit /\ PlanInv /\ BeliefInv
  BY <1>1, EmptyFits, UnlockedIs DEF SetsFit, PlanInv, BeliefInv
<1> QED BY <1>2, <1>3, <1>4 DEF SocketInv

LEMMA UpdateKeeps ==
  ASSUME SocketInv, NEW S \in SUBSET Pairs, UpdatePairs(S)
  PROVE  SocketInv'
<1>1. /\ desired' = Limited(S) /\ waiting' = waiting \union {Watcher}
      /\ UNCHANGED <<subscribed, connection, dialled, link, stream, url, sync>>
  BY DEF UpdatePairs
<1>2. SetsFit'
  BY <1>1, LimitedFits DEF SocketInv, SetsFit
<1>3. StreamInv'
  BY <1>1, TasksDiffer DEF SocketInv, StreamInv, link
<1> QED BY <1>1, <1>2, <1>3, QuietSocket

LEMMA StreamStartsKeeps ==
  ASSUME SocketInv, StreamStarts
  PROVE  SocketInv'
<1>1. /\ stream = "off" /\ stream' = "idle"
      /\ UNCHANGED <<desired, subscribed, connection, dialled, link, url, waiting, sync>>
  BY DEF StreamStarts
<1>2. SetsFit' /\ StreamInv'
  BY <1>1 DEF SocketInv, SetsFit, StreamInv, link
<1> QED BY <1>1, <1>2, QuietSocket

\* Whatever stream(), update_pairs, Binance and the network do.
LEMMA SocketStep ==
  ASSUME SocketInv, SocketWorks \/ SocketTrouble
  PROVE  SocketInv'
<1>1. CASE BeginConnect
  <2>1. SetsFit' /\ StreamInv' /\ UNCHANGED <<subscribed, connection, dialled, link, sync>>
    BY <1>1 DEF BeginConnect, SocketInv, SetsFit, StreamInv, link
  <2> QED BY <2>1, QuietSocket
<1>2. CASE ConnectFails \/ PumpFails
  <2>1. SetsFit' /\ StreamInv' /\ UNCHANGED <<subscribed, connection, dialled, link, sync>>
    BY <1>2 DEF ConnectFails, PumpFails, SocketInv, SetsFit, StreamInv, link
  <2> QED BY <2>1, QuietSocket
<1>3. CASE Drop \/ PumpRestarts
  <2>1. /\ Hangup /\ StreamInv'
        /\ UNCHANGED <<desired, url, subscribed, connection, dialled, sync>>
    BY <1>3 DEF Drop, PumpRestarts, Hangup, SocketInv, StreamInv
  <2> QED BY <2>1, HangupKeeps
<1>4. CASE Connected
  BY <1>4, ConnectedKeeps
<1>5. CASE Ended
  BY <1>5, EndedKeeps
<1>6. CASE Applies \/ Refuses
  BY <1>6, HandledKeeps
<1>7. ASSUME NEW task \in {Streamer, Watcher}, EnterSync(task) \/ Send(task) \/ Note(task)
      PROVE  SocketInv'
  BY <1>7, EnterSyncKeeps, SendKeeps, NoteKeeps
<1> QED
  BY <1>1, <1>2, <1>3, <1>4, <1>5, <1>6, <1>7 DEF SocketWorks, SocketTrouble

-----------------------------------------------------------------------------
\* An event of p is still to come.
Pending(p) == \E r \in Requests : request[r].at = "publish" /\ request[r].pair = p

FeedTypes ==
    /\ events \in Nat /\ lastId \in Nat /\ batch \in Nat /\ batch <= events
    /\ rows \in [Pairs -> {"none", "off", "on"}]
    /\ request \in [Requests -> [at : {"none", "loaded", "publish"}, pair : Pairs \union {0},
                                 seen : {"none", "off", "on"}]]
    /\ \A r \in Requests : request[r].at # "none" => request[r].pair \in Pairs
    /\ watch \in {"start", "load", "update", "sync", "read"}
    /\ fetched \in SUBSET Pairs

\* What is not in `fetched` as it is in the table has an event after the batch,
\* or one still to come, or none at all.
Noticed(p) == (p \in fetched <=> rows[p] = "on") \/ p \in missed \/ Pending(p) \/ batch < events

WatchInv ==
    /\ watch \in {"update", "sync", "read"} => \A p \in Pairs : Noticed(p)
    /\ watch \in {"sync", "read"} => desired = Limited(fetched)
    /\ watch = "read" => lastId = batch

FeedInv == FeedTypes /\ WatchInv

\* The pairs, the table, the requests and the events outlive a step of the
\* socket, which changes neither what was read nor the desired pairs.
LEMMA QuietFeed ==
  ASSUME FeedInv, UNCHANGED <<desired, admin, watcher, missed>>
  PROVE  FeedInv'
BY DEF FeedInv, FeedTypes, WatchInv, Noticed, Pending, Active, admin, watcher

\* A change of the table or of its events is noticed when every pair that has
\* changed is missed or has an event to come, and no event to come is lost.
LEMMA AdminKeeps ==
  ASSUME FeedInv, FeedTypes', UNCHANGED <<desired, watcher>>, events <= events',
         \A p \in Pairs :
            \/ rows'[p] = rows[p] \/ p \in missed' \/ Pending(p)',
         missed \subseteq missed',
         events' = events => \A p \in Pairs : Pending(p) => Pending(p)' \/ p \in missed'
  PROVE  FeedInv'
<1>1. /\ watch' = watch /\ lastId' = lastId /\ batch' = batch /\ fetched' = fetched
      /\ events \in Nat /\ events' \in Nat /\ batch \in Nat /\ batch <= events
  BY DEF watcher, FeedInv, FeedTypes
<1>2. ASSUME NEW p \in Pairs, Noticed(p)
      PROVE  Noticed(p)'
  <2>1. CASE events' = events
    BY <1>1, <1>2, <2>1 DEF Noticed
  <2>2. CASE events' # events
    <3>1. batch' < events'
      BY <1>1, <2>2
    <3> QED BY <3>1 DEF Noticed
  <2> QED BY <2>1, <2>2
<1>3. WatchInv'
  BY <1>1, <1>2 DEF FeedInv, WatchInv
<1> QED BY <1>3 DEF FeedInv

\* The requests under way, but for r.
LEMMA RequestMoves ==
  ASSUME FeedTypes, NEW r \in Requests,
         NEW now \in [at : {"none", "loaded", "publish"}, pair : Pairs \union {0},
                      seen : {"none", "off", "on"}],
         request' = [request EXCEPT ![r] = now], now.at # "none" => now.pair \in Pairs
  PROVE  /\ request' \in [Requests -> [at : {"none", "loaded", "publish"}, pair : Pairs \union {0},
                                        seen : {"none", "off", "on"}]]
         /\ \A q \in Requests : request'[q].at # "none" => request'[q].pair \in Pairs
         /\ request'[r] = now /\ \A q \in Requests \ {r} : request'[q] = request[q]
BY DEF FeedTypes

LEMMA CommitKeeps ==
  ASSUME FeedInv, NEW r \in Requests, request[r].at # "publish", NEW p \in Pairs,
         NEW value \in {"none", "off", "on"}, Commits(r, p, value),
         UNCHANGED <<desired, events, watcher>>
  PROVE  FeedInv'
<1> DEFINE now == [at |-> "publish", pair |-> p, seen |-> "none"]
<1>1. /\ rows' = [rows EXCEPT ![p] = value] /\ request' = [request EXCEPT ![r] = now]
      /\ missed' = missed
  BY DEF Commits
<1>2. /\ now \in [at : {"none", "loaded", "publish"}, pair : Pairs \union {0},
                  seen : {"none", "off", "on"}]
      /\ now.at = "publish" /\ now.pair = p
  OBVIOUS
<1> HIDE DEF now
<1>3. /\ request' \in [Requests -> [at : {"none", "loaded", "publish"}, pair : Pairs \union {0},
                                     seen : {"none", "off", "on"}]]
      /\ \A q \in Requests : request'[q].at # "none" => request'[q].pair \in Pairs
      /\ request'[r] = now /\ \A q \in Requests \ {r} : request'[q] = request[q]
  BY <1>1, <1>2, RequestMoves DEF FeedInv
<1>4. FeedTypes'
  BY <1>1, <1>3 DEF FeedInv, FeedTypes, watcher
<1>5. Pending(p)' /\ \A q \in Pairs : Pending(q) => Pending(q)'
  BY <1>2, <1>3 DEF Pending
<1>6. \A q \in Pairs : rows'[q] = rows[q] \/ q = p
  BY <1>1 DEF FeedInv, FeedTypes
<1>7. events \in Nat /\ events' = events
  BY DEF FeedInv, FeedTypes
<1> QED BY <1>1, <1>4, <1>5, <1>6, <1>7, AdminKeeps

LEMMA NoRequestIs ==
  /\ NoRequest \in [at : {"none", "loaded", "publish"}, pair : Pairs \union {0},
                    seen : {"none", "off", "on"}]
  /\ NoRequest.at = "none"
BY DEF NoRequest

\* A request that holds no event to come may forget or load an asset.
LEMMA SilentRequestKeeps ==
  ASSUME FeedInv, NEW r \in Requests, request[r].at # "publish",
         NEW now \in [at : {"none", "loaded", "publish"}, pair : Pairs \union {0},
                      seen : {"none", "off", "on"}],
         request' = [request EXCEPT ![r] = now], now.at # "none" => now.pair \in Pairs,
         rows' \in [Pairs -> {"none", "off", "on"}],
         \A q \in Pairs : rows'[q] = rows[q] \/ q \in missed', missed \subseteq missed',
         UNCHANGED <<desired, events, watcher>>
  PROVE  FeedInv'
<1>1. /\ request' \in [Requests -> [at : {"none", "loaded", "publish"}, pair : Pairs \union {0},
                                     seen : {"none", "off", "on"}]]
      /\ \A q \in Requests : request'[q].at # "none" => request'[q].pair \in Pairs
      /\ request'[r] = now /\ \A q \in Requests \ {r} : request'[q] = request[q]
  BY RequestMoves DEF FeedInv
<1>2. FeedTypes'
  BY <1>1 DEF FeedInv, FeedTypes, watcher
<1>3. \A q \in Pairs : Pending(q) => Pending(q)'
  BY <1>1 DEF Pending
<1>4. events \in Nat /\ events' = events
  BY DEF FeedInv, FeedTypes
<1> QED BY <1>2, <1>3, <1>4, AdminKeeps

\* save() of a snapshot that another request has overtaken leaves a trace: an
\* event to come, or a miss.
LEMMA SaveKeeps ==
  ASSUME FeedInv, NEW r \in Requests, NEW value \in {"off", "on"}, SaveAsset(r, value)
  PROVE  FeedInv'
<1> DEFINE p == request[r].pair
<1>1. /\ request[r].at = "loaded" /\ p \in Pairs /\ value \in {"none", "off", "on"}
      /\ rows \in [Pairs -> {"none", "off", "on"}]
      /\ UNCHANGED <<desired, events, watcher>>
  BY DEF SaveAsset, FeedInv, FeedTypes, socket
<1>2. CASE Commits(r, p, value)
  <2> HIDE DEF p
  <2> QED BY <1>1, <1>2, CommitKeeps
<1>3. CASE /\ rows' = [rows EXCEPT ![p] = value]
           /\ request' = [request EXCEPT ![r] = NoRequest]
           /\ missed' = IF rows[p] = value THEN missed ELSE missed \union {p}
  <2>1. /\ rows' \in [Pairs -> {"none", "off", "on"}] /\ missed \subseteq missed'
        /\ \A q \in Pairs : rows'[q] = rows[q] \/ q \in missed'
    BY <1>1, <1>3
  <2> HIDE DEF p
  <2> QED BY <1>1, <1>3, <2>1, NoRequestIs, SilentRequestKeeps
<1> QED BY <1>2, <1>3 DEF SaveAsset

\* An event that is published is one after the batch; one that is lost is a
\* miss.
LEMMA PublishKeeps ==
  ASSUME FeedInv, NEW r \in Requests, Publish(r) \/ PublishFails(r)
  PROVE  FeedInv'
<1>1. /\ request[r].at = "publish" /\ request' = [request EXCEPT ![r] = NoRequest]
      /\ UNCHANGED <<desired, rows, watcher>>
      /\ \/ events' = events + 1 /\ missed' = missed
         \/ events' = events /\ missed' = missed \union {request[r].pair}
  BY DEF Publish, PublishFails, socket
<1>2. /\ request' \in [Requests -> [at : {"none", "loaded", "publish"}, pair : Pairs \union {0},
                                     seen : {"none", "off", "on"}]]
      /\ \A q \in Requests : request'[q].at # "none" => request'[q].pair \in Pairs
      /\ request'[r] = NoRequest /\ \A q \in Requests \ {r} : request'[q] = request[q]
  BY <1>1, NoRequestIs, RequestMoves DEF FeedInv
<1>3. events \in Nat /\ events' \in Nat /\ events <= events' /\ (events' = events + 1 => events' # events)
  BY <1>1 DEF FeedInv, FeedTypes
<1>4. FeedTypes'
  BY <1>1, <1>2, <1>3 DEF FeedInv, FeedTypes, watcher
<1>5. missed \subseteq missed'
  BY <1>1
<1>6. ASSUME events' = events, NEW q \in Pairs, Pending(q)
      PROVE  Pending(q)' \/ q \in missed'
  <2>1. missed' = missed \union {request[r].pair}
    BY <1>1, <1>3, <1>6
  <2>2. PICK k \in Requests : request[k].at = "publish" /\ request[k].pair = q
    BY <1>6 DEF Pending
  <2>3. CASE k = r
    BY <2>1, <2>2, <2>3
  <2>4. CASE k # r
    <3>1. request'[k] = request[k]
      BY <1>2, <2>4
    <3> QED BY <2>2, <3>1 DEF Pending
  <2> QED BY <2>3, <2>4
<1> QED BY <1>1, <1>3, <1>4, <1>5, <1>6, AdminKeeps

\* The watcher: the rows are read after the batch, handed over before last_id
\* moves, and read again for every batch.
LEMMA WatcherKeeps ==
  ASSUME FeedInv, WatcherWorks
  PROVE  FeedInv'
<1>1. CASE ResolveStart
  BY <1>1 DEF ResolveStart, FeedInv, FeedTypes, WatchInv, admin, socket
<1>2. CASE LoadRows
  <2>1. /\ fetched' = Active /\ watch' = "update" /\ desired' = desired
        /\ UNCHANGED <<rows, request, events, lastId, batch>>
    BY <1>2 DEF LoadRows, socket, admin
  <2>2. FeedTypes'
    BY <2>1 DEF FeedInv, FeedTypes, Active
  <2>3. \A p \in Pairs : Noticed(p)'
    BY <2>1 DEF Noticed, Active
  <2> QED BY <2>1, <2>2, <2>3 DEF FeedInv, WatchInv
<1>3. CASE Update
  BY <1>3 DEF Update, UpdatePairs, FeedInv, FeedTypes, WatchInv, Noticed, Pending, admin
<1>4. CASE Updated
  <2>1. /\ watch = "sync" /\ watch' = "read" /\ lastId' = batch
        /\ UNCHANGED <<desired, rows, request, events, batch, fetched, missed>>
    BY <1>4 DEF Updated, HandledId, StreamStarts, socket, admin
  <2> QED BY <2>1 DEF FeedInv, FeedTypes, WatchInv, Noticed, Pending
<1>5. CASE ReadChanges
  <2>1. /\ watch' = "load" /\ batch' = MinOf(lastId + ReadCount, events)
        /\ UNCHANGED <<rows, request, events, lastId, fetched>>
    BY <1>5 DEF ReadChanges, admin
  <2>2. batch' \in Nat /\ batch' <= events
    BY <2>1, FeedAssumption DEF FeedInv, FeedTypes, MinOf
  <2> QED BY <2>1, <2>2 DEF FeedInv, FeedTypes, WatchInv
<1> QED BY <1>1, <1>2, <1>3, <1>4, <1>5 DEF WatcherWorks

LEMMA FeedStarts == Init => FeedInv
BY NoRequestIs DEF Init, WatcherDown, FeedInv, FeedTypes, WatchInv

-----------------------------------------------------------------------------
\* UpdatePairs gets what was read from the table.
LEMMA WatcherSocket ==
  ASSUME SocketInv, FeedInv, WatcherWorks
  PROVE  SocketInv'
<1>1. ASSUME UNCHANGED socket
      PROVE  SocketInv'
  <2>1. /\ UNCHANGED <<subscribed, connection, dialled, link, sync>> /\ SetsFit' /\ StreamInv'
    BY <1>1 DEF socket, link, SocketInv, SetsFit, StreamInv
  <2> QED BY <2>1, QuietSocket
<1>2. CASE ResolveStart \/ LoadRows \/ ReadChanges
  BY <1>1, <1>2 DEF ResolveStart, LoadRows, ReadChanges
<1>3. CASE Update
  <2>1. UpdatePairs(fetched) /\ fetched \in SUBSET Pairs
    BY <1>3 DEF Update, FeedInv, FeedTypes
  <2> QED BY <2>1, UpdateKeeps
<1>4. CASE Updated
  <2>1. StreamStarts \/ UNCHANGED socket
    BY <1>4 DEF Updated
  <2> QED BY <1>1, <2>1, StreamStartsKeeps
<1> QED BY <1>2, <1>3, <1>4 DEF WatcherWorks

\* The socket is still when the admin or Redis moves.
LEMMA StillSocket ==
  ASSUME SocketInv, UNCHANGED socket
  PROVE  SocketInv'
<1>1. /\ UNCHANGED <<subscribed, connection, dialled, link, sync>> /\ SetsFit' /\ StreamInv'
  BY DEF socket, link, SocketInv, SetsFit, StreamInv
<1> QED BY <1>1, QuietSocket

\* A step of the socket leaves the desired pairs alone.
LEMMA SocketLeavesDesired ==
  ASSUME SocketWorks \/ SocketTrouble
  PROVE  desired' = desired
BY DEF SocketWorks, SocketTrouble, BeginConnect, Connected, Ended, PumpRestarts, Applies,
       EnterSync, Send, Note, ConnectFails, Refuses, Drop, PumpFails

LEMMA StepInv ==
  ASSUME SocketInv, FeedInv, [Next]_vars
  PROVE  SocketInv' /\ FeedInv'
<1>1. ASSUME NEW r \in Requests, NEW p \in Pairs, LoadAsset(r, p)
      PROVE  SocketInv' /\ FeedInv'
  <2> DEFINE now == [at |-> "loaded", pair |-> p, seen |-> rows[p]]
  <2>1. /\ request[r].at = "none" /\ request' = [request EXCEPT ![r] = now]
        /\ UNCHANGED <<socket, rows, events, watcher, missed>>
    BY <1>1 DEF LoadAsset, NewRequest
  <2>2. /\ now \in [at : {"none", "loaded", "publish"}, pair : Pairs \union {0},
                    seen : {"none", "off", "on"}]
        /\ now.pair = p
    BY DEF FeedInv, FeedTypes
  <2>3. rows' \in [Pairs -> {"none", "off", "on"}] /\ desired' = desired
    BY <2>1 DEF FeedInv, FeedTypes, socket
  <2> HIDE DEF now
  <2> QED BY <2>1, <2>2, <2>3, SilentRequestKeeps, StillSocket
<1>2. ASSUME NEW r \in Requests, NEW p \in Pairs, NEW v \in {"off", "on"},
             Delete(r, p) \/ Create(r, p, v)
      PROVE  SocketInv' /\ FeedInv'
  <2>1. /\ request[r].at = "none" /\ UNCHANGED <<socket, events, watcher>>
        /\ Commits(r, p, "none") \/ Commits(r, p, v)
    BY <1>2 DEF Delete, Create, NewRequest
  <2>2. desired' = desired
    BY <2>1 DEF socket
  <2> QED BY <2>1, <2>2, CommitKeeps, StillSocket
<1>3. ASSUME NEW r \in Requests, NEW v \in {"off", "on"}, SaveAsset(r, v)
      PROVE  SocketInv' /\ FeedInv'
  <2>1. UNCHANGED socket
    BY <1>3 DEF SaveAsset
  <2> QED BY <1>3, <2>1, SaveKeeps, StillSocket
<1>4. ASSUME NEW r \in Requests, Publish(r) \/ PublishFails(r)
      PROVE  SocketInv' /\ FeedInv'
  <2>1. UNCHANGED socket
    BY <1>4 DEF Publish, PublishFails
  <2> QED BY <1>4, <2>1, PublishKeeps, StillSocket
<1>5. CASE WatcherWorks
  BY <1>5, WatcherKeeps, WatcherSocket
<1>6. CASE Socket(SocketWorks) \/ Socket(SocketTrouble)
  <2>1. (SocketWorks \/ SocketTrouble) /\ UNCHANGED <<admin, watcher, missed>>
    BY <1>6 DEF Socket
  <2> QED BY <2>1, SocketStep, SocketLeavesDesired, QuietFeed
<1>7. CASE ReadFails
  <2>1. UNCHANGED <<socket, desired, rows, request, events, watch, lastId, batch, fetched, missed>>
    BY <1>7 DEF ReadFails, socket, admin
  <2>2. FeedInv'
    BY <2>1 DEF FeedInv, FeedTypes, WatchInv, Noticed, Pending
  <2> QED BY <2>1, <2>2, StillSocket
<1>8. CASE Crash
  <2>1. SocketInv'
    BY <1>8, DiesKeeps DEF Crash
  <2>2. FeedInv'
    BY <1>8 DEF Crash, FeedInv, FeedTypes, WatchInv, admin
  <2> QED BY <2>1, <2>2
<1>9. CASE UNCHANGED vars
  <2>1. UNCHANGED <<socket, desired, admin, watcher, missed>>
    BY <1>9 DEF vars, socket
  <2> QED BY <2>1, QuietFeed, StillSocket
<1>10. \E v \in {"off", "on"} : TRUE
  OBVIOUS
<1> QED
  BY <1>1, <1>2, <1>3, <1>4, <1>5, <1>6, <1>7, <1>8, <1>9, <1>10 DEF Next

LEMMA Always == Spec => [](SocketInv /\ FeedInv)
<1>1. Init => SocketInv /\ FeedInv
  BY SocketStarts, FeedStarts DEF Init
<1>2. (SocketInv /\ FeedInv) /\ [Next]_vars => (SocketInv /\ FeedInv)'
  BY StepInv
<1> QED BY <1>1, <1>2, PTL DEF Spec

-----------------------------------------------------------------------------
\* _subscribed is right without asking Binance: whatever connections broke,
\* opened and changed hands between the sends and the notes of two tasks, what
\* Binance will send once it has read its messages is what the client has
\* noted and is about to note.
THEOREM BeliefHolds == Spec => []BeliefIsTrue
<1>1. SocketInv => BeliefIsTrue
  <2> SUFFICES ASSUME SocketInv, connection # 0, open, refused = {}
               PROVE  Applied(server, control) = Believed
    BY DEF BeliefIsTrue
  <2>1. Leads(server, control, Believed) /\ control \in Seq(Controls)
    BY DEF SocketInv, BeliefInv, SyncTypes
  <2> QED BY <2>1, AppliedIs
<1> QED BY <1>1, Always, PTL

\* MAX_STREAMS_PER_CONNECTION is kept at every moment: by the URL, by the
\* chunks of a change and by two changes one after the other.
THEOREM LimitHolds == Spec => []StreamsWithinLimit
<1>1. SocketInv => StreamsWithinLimit
  <2> SUFFICES ASSUME SocketInv, refused = {}
               PROVE  Cardinality(server) <= MaxStreams
    BY DEF StreamsWithinLimit
  <2>1. CASE open
    <3>1. Leads(server, control, Believed) /\ control \in Seq(Controls)
      BY <2>1 DEF SocketInv, BeliefInv, SyncTypes
    <3> QED BY <3>1, LeadsFit DEF Fits
  <2>2. CASE ~open
    <3>1. server = {}
      BY <2>2 DEF SocketInv, StreamInv
    <3> QED BY <3>1, EmptyFits DEF Fits
  <2> QED BY <2>1, <2>2
<1> QED BY <1>1, Always, PTL

\* _watch_asset_changes reads the rows again for every batch and only then
\* moves last_id: with all events read and none to come, the socket has been
\* handed the active rows, whatever requests overtook each other meanwhile.
THEOREM WatcherCatchesUp == Spec => []CaughtUp
<1>1. FeedInv => CaughtUp
  <2> SUFFICES ASSUME FeedInv, watch = "read", lastId = events, missed = {},
                      \A r \in Requests : request[r].at # "publish"
               PROVE  desired = Limited(Active)
    BY DEF CaughtUp
  <2>1. /\ desired = Limited(fetched) /\ batch = events /\ fetched \in SUBSET Pairs
        /\ events \in Nat /\ \A p \in Pairs : Noticed(p)
    BY DEF FeedInv, FeedTypes, WatchInv
  <2>2. \A p \in Pairs : p \in fetched <=> rows[p] = "on"
    BY <2>1 DEF Noticed, Pending
  <2>3. fetched = Active
    BY <2>1, <2>2 DEF Active
  <2> QED BY <2>1, <2>3
<1> QED BY <1>1, Always, PTL
=============================================================================
