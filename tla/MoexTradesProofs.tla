-------------------------- MODULE MoexTradesProofs --------------------------
(***************************************************************************)
(* Proofs about MoexTrades for every number of runs, assets, trades and    *)
(* failures, every page size and every page limit: one run in time, no gap *)
(* below a saved cursor, and no trade sent twice by runs that keep to the  *)
(* saved cursor.                                                           *)
(***************************************************************************)
EXTENDS MoexTrades, TLAPS

Polled == {"fetch", "write", "save", "publish"}

LocalType == [asset : Assets \union {NoAsset}, cutoff : Int, pages : Int, new : Int,
              last : Int, chosen : SUBSET Int]

\* The types of what a run reads and writes; a run that polls has an asset.
MarketTypes ==
    /\ feed \in [Assets -> Int] /\ aged \in [Assets -> Int]
    /\ rows \in [Assets -> SUBSET Int]
    /\ cursor \in [Assets -> Int] /\ form \in [Assets -> Int]
    /\ live \in [Assets -> SUBSET Int] /\ twice \in [Assets -> SUBSET Int]
RunTypes ==
    /\ pc \in [Runs -> Phases]
    /\ known \in [Runs -> [Assets -> Int]]
    /\ todo \in [Runs -> SUBSET Assets]
    /\ local \in [Runs -> LocalType]
    /\ \A r \in Runs : pc[r] \in Polled => On(r) \in Assets
Types == MarketTypes /\ RunTypes

LEMMA Settings ==
  /\ PageRows \in Int /\ PageLimit \in Int
  /\ Free \notin Runs /\ Orphan \notin Runs /\ Free # Orphan
BY MoexAssumption

LEMMA EmptyLocal ==
  /\ NoLocal \in LocalType
  /\ NoLocal.asset = NoAsset /\ NoLocal.new = 0 /\ NoLocal.chosen = {}
BY DEF NoLocal, LocalType

\* The candidates are chosen among those given.
LEMMA NewestIsPart ==
  ASSUME NEW S
  PROVE  Newest(S) \subseteq S
BY DEF Newest

\* A task that is over holds nothing; the others go on.
LEMMA EndedRun ==
  ASSUME Types, NEW r \in Runs, Ends(r)
  PROVE  /\ RunTypes'
         /\ pc'[r] = "idle" /\ known'[r] = NoCursors /\ local'[r] = NoLocal
         /\ \A s \in Runs \ {r} : /\ pc'[s] = pc[s] /\ known'[s] = known[s]
                                  /\ local'[s] = local[s]
<1>1. NoCursors \in [Assets -> Int]
  BY DEF NoCursors
<1>2. "idle" \in Phases /\ "idle" \notin Polled
  BY DEF Phases, Polled
<1>3. /\ pc' \in [Runs -> Phases] /\ known' \in [Runs -> [Assets -> Int]]
      /\ todo' \in [Runs -> SUBSET Assets] /\ local' \in [Runs -> LocalType]
      /\ pc'[r] = "idle" /\ known'[r] = NoCursors /\ local'[r] = NoLocal
      /\ \A s \in Runs \ {r} : /\ pc'[s] = pc[s] /\ known'[s] = known[s]
                               /\ local'[s] = local[s]
  BY <1>1, <1>2, EmptyLocal DEF Types, RunTypes, Ends, Goto
<1> QED BY <1>2, <1>3 DEF Types, RunTypes, On

\* A run that only changes its phase keeps the types.
LEMMA MovedRun ==
  ASSUME Types, NEW r \in Runs, NEW phase \in Phases, Goto(r, phase),
         phase \in Polled => On(r) \in Assets,
         UNCHANGED <<known, todo, local>>
  PROVE  /\ RunTypes' /\ pc'[r] = phase
         /\ \A s \in Runs \ {r} : pc'[s] = pc[s]
BY DEF Types, RunTypes, Goto, On

\* The locals of a run may be replaced one record at a time.
LEMMA LocalReplaced ==
  ASSUME local \in [Runs -> LocalType], NEW r \in Runs, NEW l \in LocalType,
         local' = [local EXCEPT ![r] = l]
  PROVE  /\ local' \in [Runs -> LocalType] /\ local'[r] = l
         /\ \A s \in Runs \ {r} : local'[s] = local[s]
OBVIOUS

\* Fetch changes the count of the pages and the last row of the page.
LEMMA FetchedLocal ==
  ASSUME Types, NEW r \in Runs, Fetch(r)
  PROVE  /\ local' \in [Runs -> LocalType]
         /\ local'[r].asset = local[r].asset /\ local'[r].new = local[r].new
         /\ local'[r].chosen = local[r].chosen
         /\ \A s \in Runs \ {r} : local'[s] = local[s]
<1> DEFINE last == IF local[r].new + PageRows < feed[local[r].asset] THEN local[r].new + PageRows ELSE feed[local[r].asset]
           l    == [local[r] EXCEPT !.pages = @ + 1, !.last = last]
<1>1. local \in [Runs -> LocalType] /\ local[r] \in LocalType /\ local[r].asset \in Assets
  BY DEF Types, RunTypes, Fetch, Polled, On
<1>2. local[r].new \in Int /\ local[r].pages + 1 \in Int
  BY <1>1 DEF LocalType
<1>3. last \in Int
  BY <1>1, <1>2, Settings DEF Types, MarketTypes
<1>4. local' = [local EXCEPT ![r] = l]
  BY Zenon, <1>1 DEF Fetch
<1>5. l \in LocalType /\ l.asset = local[r].asset /\ l.new = local[r].new
      /\ l.chosen = local[r].chosen
  BY Zenon, <1>1, <1>2, <1>3 DEF LocalType
<1> HIDE DEF l
<1> QED BY <1>1, <1>4, <1>5, LocalReplaced

\* Write moves the locals past the page.
LEMMA WrittenLocal ==
  ASSUME Types, NEW r \in Runs, Write(r)
  PROVE  /\ local' \in [Runs -> LocalType]
         /\ local'[r].asset = local[r].asset /\ local'[r].new = local[r].last
         /\ local'[r].chosen \subseteq local[r].chosen \union RowsRead(r)
         /\ \A s \in Runs \ {r} : local'[s] = local[s]
<1> DEFINE chosen == Newest(local[r].chosen \union {i \in RowsRead(r) : i > local[r].cutoff})
           l      == [local[r] EXCEPT !.chosen = chosen, !.new = Advanced(r)]
<1>1. local \in [Runs -> LocalType] /\ local[r] \in LocalType
  BY DEF Types, RunTypes
<1>2. local[r].last \in Int /\ local[r].chosen \in SUBSET Int /\ RowsRead(r) \in SUBSET Int
  BY <1>1 DEF LocalType, RowsRead
<1>3. chosen \subseteq local[r].chosen \union RowsRead(r)
  BY NewestIsPart
<1>4. chosen \in SUBSET Int
  BY <1>2, <1>3
<1> HIDE DEF chosen
<1>5. local' = [local EXCEPT ![r] = l]
  BY Zenon, <1>1 DEF Write, chosen
<1>6. l \in LocalType /\ l.asset = local[r].asset /\ l.new = local[r].last
      /\ l.chosen = chosen
  BY Zenon, <1>1, <1>2, <1>4 DEF LocalType, Advanced
<1> HIDE DEF l
<1> QED BY <1>1, <1>3, <1>5, <1>6, LocalReplaced

\* Start gives the run an asset, the cursor it has loaded and no candidates.
LEMMA StartedLocal ==
  ASSUME Types, NEW r \in Runs, NEW a \in Assets, NEW cutoff \in 0..MaxTrades,
         Start(r, a, cutoff)
  PROVE  /\ local' \in [Runs -> LocalType]
         /\ local'[r].asset = a /\ local'[r].new = known[r][a]
         /\ local'[r].chosen = {}
         /\ \A s \in Runs \ {r} : local'[s] = local[s]
<1> DEFINE l == [NoLocal EXCEPT !.asset = a, !.cutoff = cutoff, !.new = known[r][a]]
<1>1. local \in [Runs -> LocalType] /\ known[r][a] \in Int /\ cutoff \in Int
  BY DEF Types, RunTypes
<1>2. local' = [local EXCEPT ![r] = l]
  BY Zenon DEF Start
<1>3. l \in LocalType /\ l.asset = a /\ l.new = known[r][a] /\ l.chosen = {}
  BY Zenon, <1>1, EmptyLocal DEF LocalType
<1> HIDE DEF l
<1> QED BY <1>1, <1>2, <1>3, LocalReplaced
-----------------------------------------------------------------------------
(* Types.                                                                   *)
LEMMA InitTypes ==
  Init => Types
BY EmptyLocal
DEF Init, Types, MarketTypes, RunTypes, Phases, Polled, NoTrades, NoCursors, NoForm

\* A run after an exception only has the lock to release.
LEMMA AbortedRun ==
  ASSUME Types, NEW r \in Runs, Abort(r)
  PROVE  /\ RunTypes' /\ pc'[r] = "release"
         /\ \A s \in Runs \ {r} : pc'[s] = pc[s]
<1>1. "release" \in Phases /\ "release" \notin Polled
  BY DEF Phases, Polled
<1> QED BY <1>1, MovedRun DEF Abort

\* A run after an asset has the next one to look at.
LEMMA NextRun ==
  ASSUME Types, NEW r \in Runs, NextAsset(r)
  PROVE  /\ RunTypes' /\ pc'[r] = "next" /\ local'[r] = NoLocal /\ known' = known
         /\ \A s \in Runs \ {r} : pc'[s] = pc[s] /\ local'[s] = local[s]
<1>1. "next" \in Phases /\ "next" \notin Polled
  BY DEF Phases, Polled
<1>2. local' = [local EXCEPT ![r] = NoLocal] /\ Goto(r, "next") /\ UNCHANGED <<known, todo>>
  BY DEF NextAsset
<1> QED BY <1>1, <1>2, EmptyLocal DEF Types, RunTypes, Goto, On

LEMMA SentTypes ==
  ASSUME Types, NEW a \in Assets, NEW S \in SUBSET Int, Send(a, S)
  PROVE  live' \in [Assets -> SUBSET Int] /\ twice' \in [Assets -> SUBSET Int]
BY DEF Types, MarketTypes, Send

\* A page is a set of numbers of the run's asset.
LEMMA PageTypes ==
  ASSUME Types, NEW r \in Runs, pc[r] \in Polled
  PROVE  /\ On(r) \in Assets /\ local[r] \in LocalType
         /\ local[r].new \in Int /\ local[r].last \in Int
         /\ local[r].chosen \in SUBSET Int
         /\ PageWritten(r) \in [Assets -> SUBSET Int]
         /\ CursorSaved(r) \in [Assets -> Int]
<1>1. On(r) \in Assets /\ local[r] \in LocalType
  BY DEF Types, RunTypes
<1>2. /\ local[r].new \in Int /\ local[r].last \in Int
      /\ local[r].chosen \in SUBSET Int
  BY <1>1 DEF LocalType
<1>3. RowsRead(r) \in SUBSET Int
  BY <1>2 DEF RowsRead
<1> QED BY <1>1, <1>2, <1>3 DEF PageWritten, CursorSaved, Saved, Types, MarketTypes

\* Save moves the run's cursor and the saved one to the same number.
LEMMA SavedCursor ==
  ASSUME Types, NEW r \in Runs, Save(r)
  PROVE  /\ cursor' \in [Assets -> Int] /\ known' \in [Runs -> [Assets -> Int]]
         /\ \A s \in Runs \ {r} : known'[s] = known[s]
         /\ \/ local[r].new = known[r][On(r)] /\ cursor' = cursor /\ known'[r] = known[r]
            \/ /\ cursor' = [cursor EXCEPT ![On(r)] = local[r].new]
               /\ known'[r] = [known[r] EXCEPT ![On(r)] = local[r].new]
<1>1. pc[r] \in Polled
  BY DEF Save, Polled
<1>2. /\ On(r) \in Assets /\ local[r].new \in Int /\ known \in [Runs -> [Assets -> Int]]
      /\ cursor \in [Assets -> Int]
  BY <1>1, PageTypes DEF Types, RunTypes, MarketTypes
<1>3. CASE local[r].new = known[r][On(r)]
  BY <1>2, <1>3 DEF Save
<1>4. CASE local[r].new # known[r][On(r)]
  <2>1. /\ cursor' = [cursor EXCEPT ![On(r)] = local[r].new]
        /\ known' = [known EXCEPT ![r][On(r)] = local[r].new]
    BY <1>4 DEF Save, Saved, CursorSaved
  <2>2. known' = [known EXCEPT ![r] = [known[r] EXCEPT ![On(r)] = local[r].new]]
    BY Zenon, <1>2, <2>1
  <2>3. [known[r] EXCEPT ![On(r)] = local[r].new] \in [Assets -> Int]
    BY <1>2
  <2> QED BY <1>2, <2>1, <2>2, <2>3
<1> QED BY <1>3, <1>4

\* The types after a step of a run that does not fail.
LEMMA WorkTypes ==
  ASSUME Types, NEW r \in Runs, Work(r)
  PROVE  Types'
<1>1. CASE Load(r)
  <2>1. "loaded" \in Phases /\ "loaded" \notin Polled
    BY DEF Phases, Polled
  <2>2. RunTypes'
    BY <1>1, <2>1 DEF Load, Goto, Types, MarketTypes, RunTypes, On
  <2> QED BY <1>1, <2>2 DEF Load, Types, MarketTypes, market, db, stream
<1>2. CASE Acquire(r)
  <2>1. "next" \in Phases /\ "next" \notin Polled
    BY DEF Phases, Polled
  <2>2. RunTypes'
    BY <1>2, <2>1 DEF Acquire, Goto, Types, RunTypes, On
  <2> QED BY <1>2, <2>2 DEF Acquire, Types, MarketTypes, market, db, stream
<1>3. CASE Busy(r)
  BY <1>3, EndedRun DEF Busy, Types, MarketTypes, market, db, stream
<1>4. ASSUME NEW a \in Assets, NEW cutoff \in 0..MaxTrades, Start(r, a, cutoff)
      PROVE  Types'
  <2>1. "fetch" \in Phases
    BY DEF Phases
  <2>2. pc' = [pc EXCEPT ![r] = "fetch"] /\ todo' = [todo EXCEPT ![r] = @ \ {a}]
        /\ aged' = [aged EXCEPT ![a] = cutoff] /\ UNCHANGED <<feed, db, stream, known, form>>
    BY <1>4 DEF Start, Goto
  <2>3. RunTypes'
    BY <1>4, <2>1, <2>2, StartedLocal DEF Types, RunTypes, On
  <2>4. MarketTypes'
    BY <2>2 DEF Types, MarketTypes, db, stream
  <2> QED BY <2>3, <2>4 DEF Types
<1>5. CASE Finish(r)
  <2>1. "release" \in Phases /\ "release" \notin Polled
    BY DEF Phases, Polled
  <2>2. RunTypes'
    BY <1>5, <2>1, MovedRun DEF Finish
  <2> QED BY <1>5, <2>2 DEF Finish, Types, MarketTypes, market, db, stream
<1>6. CASE Fetch(r)
  <2>1. pc' = [pc EXCEPT ![r] = IF local[r].new < feed[local[r].asset] THEN "write" ELSE "save"]
        /\ UNCHANGED <<known, todo>>
    BY <1>6 DEF Fetch, Goto
  <2>2. "write" \in Phases /\ "save" \in Phases /\ pc[r] \in Polled
    BY <1>6 DEF Fetch, Phases, Polled
  <2>3. RunTypes'
    BY <1>6, <2>1, <2>2, FetchedLocal DEF Types, RunTypes, On
  <2> QED BY <1>6, <2>3 DEF Fetch, Types, MarketTypes, market, db, stream
<1>7. CASE FetchCancelled(r)
  BY <1>7, AbortedRun DEF FetchCancelled, Abort, Types, MarketTypes, market, db, stream
<1>8. CASE Write(r)
  <2>1. pc' = [pc EXCEPT ![r] = IF More(r) THEN "fetch" ELSE "save"] /\ UNCHANGED <<known, todo>>
    BY <1>8 DEF Write, Goto
  <2>2. "fetch" \in Phases /\ "save" \in Phases /\ pc[r] \in Polled
    BY <1>8 DEF Write, Phases, Polled
  <2>3. RunTypes'
    BY <1>8, <2>1, <2>2, WrittenLocal DEF Types, RunTypes, On
  <2> QED BY <1>8, <2>2, <2>3, PageTypes DEF Write, Types, MarketTypes, market, stream
<1>9. CASE Save(r)
  <2>1. pc[r] \in Polled /\ "publish" \in Phases
    BY <1>9 DEF Save, Phases, Polled
  <2>2. pc' = [pc EXCEPT ![r] = "publish"] /\ UNCHANGED <<todo, local>>
    BY <1>9 DEF Save, Goto
  <2>3. cursor' \in [Assets -> Int] /\ known' \in [Runs -> [Assets -> Int]]
    BY <1>9, SavedCursor
  <2>4. RunTypes'
    BY <2>1, <2>2, <2>3 DEF Types, RunTypes, On
  <2> QED BY <1>9, <2>3, <2>4 DEF Save, Types, MarketTypes, market, stream
<1>10. CASE Publish(r)
  <2>1. pc[r] \in Polled /\ Send(On(r), local[r].chosen) /\ NextAsset(r)
    BY <1>10 DEF Publish, Polled
  <2>2. RunTypes' /\ live' \in [Assets -> SUBSET Int] /\ twice' \in [Assets -> SUBSET Int]
    BY <2>1, NextRun, PageTypes, SentTypes
  <2> QED BY <2>1, <2>2 DEF NextAsset, Types, MarketTypes, market, db
<1>11. CASE Release(r)
  BY <1>11, EndedRun DEF Release, Types, MarketTypes, market, db, stream
<1> QED BY <1>1, <1>2, <1>3, <1>4, <1>5, <1>6, <1>7, <1>8, <1>9, <1>10, <1>11 DEF Work

\* The types after a failure.
LEMMA TroubleTypes ==
  ASSUME Types, NEW r \in Runs, Trouble(r)
  PROVE  Types'
<1>1. CASE AcquireFails(r)
  BY <1>1, EndedRun DEF AcquireFails, Types, MarketTypes, market, db, stream
<1>2. CASE FetchFails(r)
  BY <1>2, AbortedRun DEF FetchFails, Abort, Types, MarketTypes, market, db, stream
<1>3. CASE WriteFails(r)
  <2>1. pc[r] \in Polled /\ rows' \in {rows, PageWritten(r)} /\ Abort(r) /\ UNCHANGED cursor
    BY <1>3 DEF WriteFails, Polled
  <2>2. rows' \in [Assets -> SUBSET Int]
    BY <2>1, PageTypes DEF Types, MarketTypes
  <2> QED BY <2>1, <2>2, AbortedRun DEF Abort, Types, MarketTypes, market, stream
<1>4. CASE SaveFails(r)
  <2>1. pc[r] \in Polled /\ cursor' \in {cursor, CursorSaved(r)} /\ Abort(r) /\ UNCHANGED rows
    BY <1>4 DEF SaveFails, Polled
  <2>2. cursor' \in [Assets -> Int]
    BY <2>1, PageTypes DEF Types, MarketTypes
  <2> QED BY <2>1, <2>2, AbortedRun DEF Abort, Types, MarketTypes, market, stream
<1>5. CASE PublishFails(r)
  <2>1. pc[r] \in Polled /\ NextAsset(r)
    BY <1>5 DEF PublishFails, Polled
  <2>2. PICK k : Send(On(r), {i \in local[r].chosen : i <= k})
    BY <1>5 DEF PublishFails
  <2>3. RunTypes' /\ live' \in [Assets -> SUBSET Int] /\ twice' \in [Assets -> SUBSET Int]
    BY <2>1, <2>2, NextRun, PageTypes, SentTypes
  <2> QED BY <2>1, <2>3 DEF NextAsset, Types, MarketTypes, market, db
<1>6. CASE ReleaseFails(r)
  BY <1>6, EndedRun DEF ReleaseFails, Types, MarketTypes, market, db, stream
<1>7. CASE Crash(r)
  BY <1>7, EndedRun DEF Crash, Types, MarketTypes, market, db, stream
<1>8. CASE LockExpires(r)
  BY <1>8 DEF LockExpires, Types, MarketTypes, RunTypes, On, market, db, stream
<1> QED BY <1>1, <1>2, <1>3, <1>4, <1>5, <1>6, <1>7, <1>8 DEF Trouble

LEMMA NextTypes ==
  ASSUME Types, [Next]_vars
  PROVE  Types'
<1>1. ASSUME NEW a \in Assets, Trade(a) \/ OpenForm(a) \/ SaveForm(a)
      PROVE  Types'
  <2>1. MarketTypes'
    BY <1>1 DEF Trade, OpenForm, SaveForm, Types, MarketTypes, NoForm, market, db, stream
  <2>2. UNCHANGED run
    BY <1>1 DEF Trade, OpenForm, SaveForm
  <2> QED BY <2>1, <2>2 DEF Types, RunTypes, On, run
<1>2. CASE OrphanExpires
  BY <1>2 DEF OrphanExpires, Types, MarketTypes, RunTypes, On, market, db, stream, run
<1>3. CASE UNCHANGED vars
  BY <1>3 DEF vars, Types, MarketTypes, RunTypes, On, market, db, stream, run
<1> QED BY <1>1, <1>2, <1>3, WorkTypes, TroubleTypes DEF Next
-----------------------------------------------------------------------------
(* One run in time.                                                         *)

\* A run inside redis_lock owns it, or its lock has expired and the deadline
\* of its requests is over.
Owned(r) == Inside(r) => lock = r \/ overdue[r]
LockInv == DOMAIN overdue = Runs /\ \A r \in Runs : Owned(r)

\* When a run ends, its mark is cleared and the others keep theirs.
LEMMA EndedOwner ==
  ASSUME Types, LockInv, NEW r \in Runs, Ends(r),
         \A s \in Runs \ {r} : lock = s => lock' = s
  PROVE  LockInv'
<1>1. pc'[r] = "idle" /\ \A s \in Runs \ {r} : pc'[s] = pc[s]
  BY EndedRun
<1>2. overdue' = [overdue EXCEPT ![r] = FALSE]
  BY DEF Ends
<1> QED BY <1>1, <1>2 DEF LockInv, Owned, Inside

\* A move of a run that is inside and stays there changes nothing about locks.
LEMMA MovedOwner ==
  ASSUME Types, LockInv, NEW r \in Runs, Inside(r), NEW phase, Goto(r, phase),
         UNCHANGED <<lock, overdue>>
  PROVE  LockInv'
<1>1. \A s \in Runs \ {r} : pc'[s] = pc[s]
  BY DEF Types, RunTypes, Goto
<1> QED BY <1>1 DEF LockInv, Owned, Inside

LEMMA WorkOwned ==
  ASSUME Types, LockInv, NEW r \in Runs, Work(r)
  PROVE  LockInv'
<1>1. CASE Load(r)
  BY <1>1 DEF Load, Goto, Types, RunTypes, LockInv, Owned, Inside
<1>2. CASE Acquire(r)
  <2>1. \A s \in Runs : Inside(s) => overdue[s]
    BY <1>2, Settings DEF Acquire, LockInv, Owned
  <2>2. /\ lock' = r /\ overdue' = overdue
        /\ \A s \in Runs \ {r} : pc'[s] = pc[s]
    BY <1>2 DEF Acquire, Goto, Types, RunTypes
  <2> QED BY <2>1, <2>2 DEF LockInv, Owned, Inside
<1>3. CASE Busy(r)
  BY <1>3, EndedOwner DEF Busy
<1>4. ASSUME NEW a \in Assets, NEW cutoff \in 0..MaxTrades, Start(r, a, cutoff)
      PROVE  LockInv'
  BY <1>4, MovedOwner DEF Start, Inside
<1>5. CASE Finish(r)
  BY <1>5, MovedOwner DEF Finish, Inside
<1>6. CASE Fetch(r)
  <2>1. Inside(r) /\ UNCHANGED <<lock, overdue>>
        /\ Goto(r, IF local[r].new < feed[local[r].asset] THEN "write" ELSE "save")
    BY <1>6 DEF Fetch, Inside
  <2> QED BY <2>1, MovedOwner
<1>7. CASE FetchCancelled(r)
  BY <1>7, MovedOwner DEF FetchCancelled, Abort, Inside
<1>8. CASE Write(r)
  <2>1. Inside(r) /\ UNCHANGED <<lock, overdue>> /\ Goto(r, IF More(r) THEN "fetch" ELSE "save")
    BY <1>8 DEF Write, Inside
  <2> QED BY <2>1, MovedOwner
<1>9. CASE Save(r)
  BY <1>9, MovedOwner DEF Save, Inside
<1>10. CASE Publish(r)
  BY <1>10, MovedOwner DEF Publish, NextAsset, Inside
<1>11. CASE Release(r)
  BY <1>11, EndedOwner DEF Release, Released
<1> QED BY <1>1, <1>2, <1>3, <1>4, <1>5, <1>6, <1>7, <1>8, <1>9, <1>10, <1>11 DEF Work

LEMMA TroubleOwned ==
  ASSUME Types, LockInv, NEW r \in Runs, Trouble(r)
  PROVE  LockInv'
<1>1. CASE AcquireFails(r)
  BY <1>1, EndedOwner, Settings DEF AcquireFails
<1>2. CASE FetchFails(r)
  BY <1>2, MovedOwner DEF FetchFails, Abort, Inside
<1>3. CASE WriteFails(r)
  BY <1>3, MovedOwner DEF WriteFails, Abort, Inside
<1>4. CASE SaveFails(r)
  BY <1>4, MovedOwner DEF SaveFails, Abort, Inside
<1>5. CASE PublishFails(r)
  BY <1>5, MovedOwner DEF PublishFails, NextAsset, Inside
<1>6. CASE ReleaseFails(r)
  BY <1>6, EndedOwner DEF ReleaseFails, Abandoned
<1>7. CASE Crash(r)
  BY <1>7, EndedOwner DEF Crash, Abandoned
<1>8. CASE LockExpires(r)
  BY <1>8 DEF LockExpires, LockInv, Owned, Inside
<1> QED BY <1>1, <1>2, <1>3, <1>4, <1>5, <1>6, <1>7, <1>8 DEF Trouble

LEMMA NextOwned ==
  ASSUME Types, LockInv, [Next]_vars
  PROVE  LockInv'
<1>1. ASSUME UNCHANGED <<lock, run>>
      PROVE  LockInv'
  BY <1>1 DEF LockInv, Owned, Inside, run
<1>2. ASSUME NEW a \in Assets, Trade(a) \/ OpenForm(a) \/ SaveForm(a)
      PROVE  LockInv'
  BY <1>1, <1>2 DEF Trade, OpenForm, SaveForm
<1>3. CASE OrphanExpires
  BY <1>3, Settings DEF OrphanExpires, LockInv, Owned, Inside, run
<1>4. CASE UNCHANGED vars
  BY <1>1, <1>4 DEF vars
<1> QED BY <1>2, <1>3, <1>4, WorkOwned, TroubleOwned DEF Next

\* redis_lock with the deadline inside its TTL: whatever fails, dies or comes
\* too late, of the runs inside at most one is in time.
THEOREM OneInTimeHolds == Spec => []OneInTime
<1>1. Init => Types /\ LockInv
  BY InitTypes DEF Init, LockInv, Owned, Inside
<1>2. Types /\ LockInv /\ [Next]_vars => Types' /\ LockInv'
  BY NextTypes, NextOwned
<1>3. LockInv => OneInTime
  BY DEF LockInv, Owned, OneInTime
<1> QED BY <1>1, <1>2, <1>3, PTL DEF Spec

-----------------------------------------------------------------------------
(* No gap.                                                                  *)

\* The numbers up to which somebody believes the asset's trades are stored:
\* the saved cursor, the one in the edit form, those the runs have loaded, and
\* the one a run has come to.
Claimed(a, n) ==
    \/ n = cursor[a] \/ n = form[a]
    \/ \E r \in Runs : n = known[r][a] \/ (On(r) = a /\ n = local[r].new)

GapInv == \A a \in Assets, n \in Int : Claimed(a, n) => 1..n \subseteq rows[a]

\* Rows are only added, and a number that was claimed may be handed on.
LEMMA ClaimsHandedOn ==
  ASSUME GapInv, \A a \in Assets : rows[a] \subseteq rows'[a],
         \A a \in Assets, n \in Int : Claimed(a, n)' => Claimed(a, n) \/ n <= 0
  PROVE  GapInv'
BY DEF GapInv

\* The end of a run takes its claims away.
LEMMA EndedClaims ==
  ASSUME Types, NEW r \in Runs, Ends(r), UNCHANGED <<cursor, form>>,
         NEW a \in Assets, NEW n \in Int, Claimed(a, n)'
  PROVE  Claimed(a, n) \/ n <= 0
<1>1. /\ known'[r] = NoCursors /\ local'[r] = NoLocal
      /\ \A s \in Runs \ {r} : known'[s] = known[s] /\ local'[s] = local[s]
  BY EndedRun
<1> QED BY <1>1, EmptyLocal DEF Claimed, On, NoCursors

LEMMA UnchangedClaims ==
  ASSUME UNCHANGED <<cursor, form, known, local>>, NEW a, NEW n, Claimed(a, n)'
  PROVE  Claimed(a, n)
BY DEF Claimed, On

\* Work hands claims on, and the page it writes is what the new claim needs.
LEMMA WorkKeepsGapInv ==
  ASSUME Types, GapInv, NEW r \in Runs, Work(r)
  PROVE  GapInv'
<1>1. CASE Load(r)
  <2>1. /\ known'[r] = cursor /\ \A s \in Runs \ {r} : known'[s] = known[s]
        /\ UNCHANGED <<rows, cursor, local, form>>
    BY <1>1 DEF Load, db, Types, RunTypes
  <2> QED BY <2>1, ClaimsHandedOn DEF Claimed, On
<1>2. CASE Acquire(r)
  BY <1>2, ClaimsHandedOn, UnchangedClaims DEF Acquire, db
<1>3. CASE Busy(r)
  BY <1>3, ClaimsHandedOn, EndedClaims DEF Busy, db
<1>4. ASSUME NEW a \in Assets, NEW cutoff \in 0..MaxTrades, Start(r, a, cutoff)
      PROVE  GapInv'
  <2>1. UNCHANGED <<rows, cursor, known, form>>
    BY <1>4 DEF Start, db
  <2> QED BY <1>4, <2>1, StartedLocal, ClaimsHandedOn DEF Claimed, On
<1>5. CASE Finish(r)
  BY <1>5, ClaimsHandedOn, UnchangedClaims DEF Finish, db
<1>6. CASE Fetch(r)
  <2>1. UNCHANGED <<rows, cursor, known, form>>
    BY <1>6 DEF Fetch, db
  <2> QED BY <1>6, <2>1, FetchedLocal, ClaimsHandedOn DEF Claimed, On
<1>7. CASE FetchCancelled(r)
  BY <1>7, ClaimsHandedOn, UnchangedClaims DEF FetchCancelled, Abort, db
<1>8. CASE Write(r)
  <2>1. pc[r] \in Polled /\ rows' = PageWritten(r) /\ UNCHANGED <<cursor, known, form>>
    BY <1>8 DEF Write, Polled
  <2>2. /\ On(r) \in Assets /\ local[r].new \in Int /\ local[r].last \in Int
        /\ rows \in [Assets -> SUBSET Int]
    BY <2>1, PageTypes DEF Types, MarketTypes
  <2>3. /\ rows'[On(r)] = rows[On(r)] \union (local[r].new + 1 .. local[r].last)
        /\ \A a \in Assets \ {On(r)} : rows'[a] = rows[a]
    BY <2>1, <2>2 DEF PageWritten, RowsRead
  <2>4. ASSUME NEW a \in Assets, NEW n \in Int, Claimed(a, n)'
        PROVE  Claimed(a, n) \/ (a = On(r) /\ n = local[r].last)
    BY <1>8, <2>1, <2>4, WrittenLocal DEF Claimed, On
  <2>5. 1..local[r].new \subseteq rows[On(r)]
    BY <2>2 DEF GapInv, Claimed
  <2>6. 1..local[r].last \subseteq rows'[On(r)]
    BY <2>2, <2>3, <2>5
  <2>7. \A a \in Assets : rows[a] \subseteq rows'[a]
    BY <2>3
  <2> QED BY <2>4, <2>6, <2>7 DEF GapInv
<1>9. CASE Save(r)
  <2>1. pc[r] \in Polled /\ UNCHANGED <<rows, local, form>>
    BY <1>9 DEF Save, Polled
  <2>2. On(r) \in Assets /\ cursor \in [Assets -> Int] /\ known[r] \in [Assets -> Int]
    BY <2>1, PageTypes DEF Types, MarketTypes, RunTypes
  <2>3. ASSUME NEW a \in Assets, NEW n \in Int, Claimed(a, n)'
        PROVE  Claimed(a, n)
    BY <1>9, <2>1, <2>2, <2>3, SavedCursor DEF Claimed, On
  <2> QED BY <2>1, <2>3, ClaimsHandedOn
<1>10. CASE Publish(r)
  <2>1. NextAsset(r) /\ UNCHANGED <<rows, cursor, form>>
    BY <1>10 DEF Publish, NextAsset, db
  <2> QED BY <2>1, NextRun, EmptyLocal, ClaimsHandedOn DEF Claimed, On
<1>11. CASE Release(r)
  BY <1>11, ClaimsHandedOn, EndedClaims DEF Release, db
<1> QED BY <1>1, <1>2, <1>3, <1>4, <1>5, <1>6, <1>7, <1>8, <1>9, <1>10, <1>11 DEF Work

\* A failure may store a page nobody claims and save a cursor nobody returned.
LEMMA TroubleKeepsGapInv ==
  ASSUME Types, GapInv, NEW r \in Runs, Trouble(r)
  PROVE  GapInv'
<1>1. CASE AcquireFails(r)
  BY <1>1, ClaimsHandedOn, EndedClaims DEF AcquireFails, db
<1>2. CASE FetchFails(r)
  BY <1>2, ClaimsHandedOn, UnchangedClaims DEF FetchFails, Abort, db
<1>3. CASE WriteFails(r)
  <2>1. pc[r] \in Polled /\ rows' \in {rows, PageWritten(r)}
        /\ UNCHANGED <<cursor, known, local, form>>
    BY <1>3 DEF WriteFails, Abort, Polled
  <2>2. On(r) \in Assets /\ rows \in [Assets -> SUBSET Int]
    BY <2>1, PageTypes DEF Types, MarketTypes
  <2>3. \A a \in Assets : rows[a] \subseteq rows'[a]
    BY <2>1, <2>2 DEF PageWritten
  <2> QED BY <2>1, <2>3, ClaimsHandedOn, UnchangedClaims
<1>4. CASE SaveFails(r)
  <2>1. pc[r] \in Polled /\ cursor' \in {cursor, CursorSaved(r)}
        /\ UNCHANGED <<rows, known, local, form>>
    BY <1>4 DEF SaveFails, Abort, Polled
  <2>2. On(r) \in Assets /\ cursor \in [Assets -> Int]
    BY <2>1, PageTypes DEF Types, MarketTypes
  <2> QED BY <2>1, <2>2, ClaimsHandedOn DEF Claimed, On, CursorSaved, Saved
<1>5. CASE PublishFails(r)
  <2>1. NextAsset(r) /\ UNCHANGED <<rows, cursor, form>>
    BY <1>5 DEF PublishFails, NextAsset, db
  <2> QED BY <2>1, NextRun, EmptyLocal, ClaimsHandedOn DEF Claimed, On
<1>6. CASE ReleaseFails(r)
  BY <1>6, ClaimsHandedOn, EndedClaims DEF ReleaseFails, db
<1>7. CASE Crash(r)
  BY <1>7, ClaimsHandedOn, EndedClaims DEF Crash, db
<1>8. CASE LockExpires(r)
  BY <1>8, ClaimsHandedOn, UnchangedClaims DEF LockExpires, db
<1> QED BY <1>1, <1>2, <1>3, <1>4, <1>5, <1>6, <1>7, <1>8 DEF Trouble

\* The edit form only writes a cursor that was saved when it was opened.
LEMMA NextKeepsGapInv ==
  ASSUME Types, GapInv, [Next]_vars
  PROVE  GapInv'
<1>1. ASSUME NEW a \in Assets, Trade(a)
      PROVE  GapInv'
  BY <1>1, ClaimsHandedOn, UnchangedClaims DEF Trade, db, run
<1>2. ASSUME NEW a \in Assets, OpenForm(a)
      PROVE  GapInv'
  BY <1>2, ClaimsHandedOn DEF OpenForm, Claimed, On, Types, MarketTypes, db, run
<1>3. ASSUME NEW a \in Assets, SaveForm(a)
      PROVE  GapInv'
  BY <1>3, ClaimsHandedOn DEF SaveForm, NoForm, Claimed, On, Types, MarketTypes, run
<1>4. CASE OrphanExpires
  BY <1>4, ClaimsHandedOn, UnchangedClaims DEF OrphanExpires, db, run
<1>5. CASE UNCHANGED vars
  BY <1>5, ClaimsHandedOn, UnchangedClaims DEF vars, db, run
<1> QED BY <1>1, <1>2, <1>3, <1>4, <1>5, WorkKeepsGapInv, TroubleKeepsGapInv DEF Next

\* run(), _poll_asset and the edit form: every trade at or below the saved
\* cursor has its row, whatever fails, dies, overlaps or is written back.
THEOREM NoGapHolds == Spec => []NoGap
<1>1. Init => Types /\ GapInv
  <2>1. Init => GapInv
    BY DEF Init, GapInv, Claimed, On, NoCursors, NoForm, NoLocal, NoTrades
  <2> QED BY <2>1, InitTypes
<1>2. Types /\ GapInv /\ [Next]_vars => Types' /\ GapInv'
  BY NextTypes, NextKeepsGapInv
<1>3. Types /\ GapInv => NoGap
  BY DEF Types, MarketTypes, GapInv, Claimed, NoGap
<1> QED BY <1>1, <1>2, <1>3, PTL DEF Spec
-----------------------------------------------------------------------------
(* No trade twice.                                                          *)

\* While nobody has used a stale cursor, no lock has expired under its run and
\* nobody has edited a cursor: what is in the stream is at or below the saved
\* cursor, and the candidates of the only run inside are above it until it is
\* saved, and in the stream only once they are sent.
SentBelow(a) == twice[a] = {} /\ \A i \in live[a] : i <= cursor[a]
Follows(r)   == pc[r] \in Polled \union {"next"} => known[r] = cursor
Collects(r)  ==
    pc[r] \in {"fetch", "write", "save"} =>
        /\ cursor[On(r)] <= local[r].new
        /\ \A i \in local[r].chosen : cursor[On(r)] < i /\ i <= local[r].new
ReadsOn(r)   == pc[r] = "write" => local[r].new <= local[r].last
Sends(r)     ==
    pc[r] = "publish" =>
        \A i \in local[r].chosen : i <= cursor[On(r)] /\ i \notin live[On(r)]
InStep(r) == overdue[r] = FALSE /\ Follows(r) /\ Collects(r) /\ ReadsOn(r) /\ Sends(r)
Untainted == (\A a \in Assets : SentBelow(a)) /\ (\A r \in Runs : InStep(r))
OnceInv   == ~tainted => Untainted

LEMMA EndedInStep ==
  ASSUME Types, LockInv, Untainted, NEW r \in Runs, Ends(r), UNCHANGED <<db, stream>>
  PROVE  Untainted'
<1>1. /\ pc'[r] = "idle"
      /\ \A s \in Runs \ {r} : /\ pc'[s] = pc[s] /\ known'[s] = known[s]
                               /\ local'[s] = local[s]
  BY EndedRun
<1>2. overdue'[r] = FALSE /\ \A s \in Runs \ {r} : overdue'[s] = overdue[s]
  BY DEF Ends, LockInv
<1> QED
  BY <1>1, <1>2
  DEF Untainted, SentBelow, InStep, Follows, Collects, ReadsOn, Sends, Polled, On, db, stream

\* A run that gives up leaves what the others rely on.
LEMMA AbortedInStep ==
  ASSUME Types, Untainted, NEW r \in Runs, Abort(r), UNCHANGED <<cursor, stream>>
  PROVE  Untainted'
<1>1. pc'[r] = "release" /\ \A s \in Runs \ {r} : pc'[s] = pc[s]
  BY AbortedRun
<1>2. UNCHANGED <<known, local, overdue>>
  BY DEF Abort
<1> QED
  BY <1>1, <1>2
  DEF Untainted, SentBelow, InStep, Follows, Collects, ReadsOn, Sends, Polled, On, stream

\* While no lock has expired, the run inside is the only one there.
LEMMA Alone ==
  ASSUME LockInv, Untainted, NEW r \in Runs, Inside(r)
  PROVE  \A s \in Runs \ {r} : ~Inside(s)
BY DEF LockInv, Owned, Untainted, InStep

\* A run that is not inside relies on nothing.
LEMMA OutsideInStep ==
  ASSUME NEW r \in Runs, ~Inside(r), overdue[r] = FALSE
  PROVE  InStep(r)
BY DEF Inside, InStep, Follows, Collects, ReadsOn, Sends, Polled

\* After a step of the run inside only its own obligations are left to show.
LEMMA OnlyOwnStep ==
  ASSUME LockInv, Untainted, NEW r \in Runs, Inside(r), UNCHANGED overdue,
         \A s \in Runs \ {r} : pc'[s] = pc[s],
         \A a \in Assets : SentBelow(a)', InStep(r)'
  PROVE  Untainted'
<1>1. ASSUME NEW s \in Runs \ {r}
      PROVE  InStep(s)'
  <2>1. ~Inside(s)' /\ overdue'[s] = FALSE
    BY Alone DEF Inside, Untainted, InStep
  <2> QED BY <2>1 DEF Inside, InStep, Follows, Collects, ReadsOn, Sends, Polled
<1> QED BY <1>1 DEF Untainted

LEMMA FetchInStep ==
  ASSUME Types, LockInv, Untainted, NEW r \in Runs, Fetch(r)
  PROVE  Untainted'
<1>1. /\ pc[r] = "fetch" /\ UNCHANGED <<db, stream, known, overdue>>
      /\ pc' = [pc EXCEPT ![r] = IF local[r].new < feed[local[r].asset] THEN "write" ELSE "save"]
  BY DEF Fetch, Goto
<1>2. /\ local'[r].asset = local[r].asset /\ local'[r].new = local[r].new
      /\ local'[r].chosen = local[r].chosen
  BY FetchedLocal
<1>3. /\ local[r] \in LocalType /\ local[r].asset \in Assets /\ local[r].new \in Int
      /\ feed[local[r].asset] \in Int
  <2>1. pc[r] \in Polled
    BY <1>1 DEF Polled
  <2> QED BY <2>1, PageTypes DEF On, Types, MarketTypes
<1>4. local[r].new < feed[local[r].asset] => local'[r].new <= local'[r].last
  <2> DEFINE last == IF local[r].new + PageRows < feed[local[r].asset] THEN local[r].new + PageRows ELSE feed[local[r].asset]
             l    == [local[r] EXCEPT !.pages = @ + 1, !.last = last]
  <2>1. local' = [local EXCEPT ![r] = l] /\ l.last = last
    <3>1. local \in [Runs -> LocalType]
      BY DEF Types, RunTypes
    <3> QED BY Zenon, <1>3, <3>1 DEF Fetch, LocalType
  <2> HIDE DEF l
  <2>2. local'[r].last = last
    BY <2>1 DEF Types, RunTypes
  <2>3. PageRows \in Nat
    BY MoexAssumption
  <2> QED BY <1>2, <1>3, <2>2, <2>3
<1>5. InStep(r)'
  <2>1. pc'[r] \in {"write", "save"} /\ (pc'[r] = "write" => local[r].new < feed[local[r].asset])
    BY <1>1 DEF Types, RunTypes
  <2>2. InStep(r)
    BY DEF Untainted
  <2> QED
    BY <1>1, <1>2, <1>4, <2>1, <2>2
    DEF InStep, Follows, Collects, ReadsOn, Sends, Polled, On, db, stream
<1>6. \A a \in Assets : SentBelow(a)'
  BY <1>1 DEF Untainted, SentBelow, db, stream
<1>7. Inside(r) /\ \A s \in Runs \ {r} : pc'[s] = pc[s]
  BY <1>1 DEF Inside, Types, RunTypes
<1> QED BY <1>1, <1>5, <1>6, <1>7, OnlyOwnStep

LEMMA WriteInStep ==
  ASSUME Types, LockInv, Untainted, NEW r \in Runs, Write(r)
  PROVE  Untainted'
<1>1. /\ pc[r] = "write" /\ UNCHANGED <<cursor, stream, known, overdue>>
      /\ pc' = [pc EXCEPT ![r] = IF More(r) THEN "fetch" ELSE "save"]
  BY DEF Write, Goto
<1>2. /\ local'[r].asset = local[r].asset /\ local'[r].new = local[r].last
      /\ local'[r].chosen \subseteq local[r].chosen \union RowsRead(r)
  BY WrittenLocal
<1>3. /\ On(r) \in Assets /\ local[r].new \in Int /\ local[r].last \in Int
      /\ local[r].chosen \in SUBSET Int /\ cursor[On(r)] \in Int
  <2>1. pc[r] \in Polled
    BY <1>1 DEF Polled
  <2> QED BY <2>1, PageTypes DEF Types, MarketTypes
<1>4. /\ known[r] = cursor /\ cursor[On(r)] <= local[r].new
      /\ local[r].new <= local[r].last
      /\ \A i \in local[r].chosen : cursor[On(r)] < i /\ i <= local[r].new
  BY <1>1 DEF Untainted, InStep, Follows, Collects, ReadsOn, Polled
<1>5. ASSUME NEW i \in local'[r].chosen
      PROVE  cursor[On(r)] < i /\ i <= local[r].last
  <2>1. CASE i \in local[r].chosen
    BY <1>3, <1>4, <2>1
  <2>2. CASE i \in RowsRead(r)
    <3>1. i \in local[r].new + 1 .. local[r].last
      BY <2>2 DEF RowsRead
    <3> QED BY <1>3, <1>4, <3>1
  <2> QED BY <1>2, <1>5, <2>1, <2>2
<1>6. InStep(r)'
  <2>1. pc'[r] \in {"fetch", "save"} /\ overdue'[r] = FALSE
    BY <1>1 DEF Types, RunTypes, Untainted, InStep
  <2>2. On(r)' = On(r) /\ cursor[On(r)] <= local[r].last
    BY <1>2, <1>3, <1>4 DEF On
  <2> QED
    BY <1>1, <1>2, <1>4, <1>5, <2>1, <2>2
    DEF InStep, Follows, Collects, ReadsOn, Sends
<1>7. \A a \in Assets : SentBelow(a)'
  BY <1>1 DEF Untainted, SentBelow, stream
<1>8. Inside(r) /\ \A s \in Runs \ {r} : pc'[s] = pc[s]
  BY <1>1 DEF Inside, Types, RunTypes
<1> QED BY <1>1, <1>6, <1>7, <1>8, OnlyOwnStep
\* The cursor is saved before anything above it is sent.
LEMMA SaveInStep ==
  ASSUME Types, LockInv, Untainted, NEW r \in Runs, Save(r)
  PROVE  Untainted'
<1>1. /\ pc[r] = "save" /\ pc' = [pc EXCEPT ![r] = "publish"]
      /\ UNCHANGED <<stream, local, overdue>>
  BY DEF Save, Goto
<1>2. /\ On(r) \in Assets /\ local[r].new \in Int /\ cursor \in [Assets -> Int]
      /\ local[r].chosen \in SUBSET Int /\ live \in [Assets -> SUBSET Int]
  <2>1. pc[r] \in Polled
    BY <1>1 DEF Polled
  <2> QED BY <2>1, PageTypes DEF Types, MarketTypes
<1>3. /\ known[r] = cursor /\ cursor[On(r)] <= local[r].new
      /\ \A i \in local[r].chosen : cursor[On(r)] < i /\ i <= local[r].new
      /\ \A a \in Assets : SentBelow(a)
      /\ overdue[r] = FALSE
  BY <1>1 DEF Untainted, InStep, Follows, Collects, Polled
<1>4. cursor' = [cursor EXCEPT ![On(r)] = local[r].new] /\ known'[r] = cursor'
  <2>1. CASE local[r].new = known[r][On(r)] /\ cursor' = cursor /\ known'[r] = known[r]
    BY <1>2, <1>3, <2>1
  <2>2. CASE /\ cursor' = [cursor EXCEPT ![On(r)] = local[r].new]
             /\ known'[r] = [known[r] EXCEPT ![On(r)] = local[r].new]
    BY <1>3, <2>2
  <2> QED BY <2>1, <2>2, SavedCursor
<1>5. \A a \in Assets : cursor[a] \in Int /\ cursor'[a] \in Int /\ cursor[a] <= cursor'[a]
  BY <1>2, <1>3, <1>4
<1>6. ASSUME NEW a \in Assets
      PROVE  SentBelow(a)'
  <2>1. live' = live /\ twice' = twice
    BY <1>1 DEF stream
  <2>2. ASSUME NEW i \in live[a]
        PROVE  i <= cursor'[a]
    <3>1. i \in Int /\ i <= cursor[a]
      BY <1>2, <1>3 DEF SentBelow
    <3> QED BY <1>5, <3>1
  <2> QED BY <1>3, <2>1, <2>2 DEF SentBelow
<1>7. InStep(r)'
  <2>1. pc'[r] = "publish" /\ local' = local /\ live' = live /\ overdue'[r] = FALSE
    BY <1>1, <1>3 DEF Types, RunTypes, stream
  <2>2. ASSUME NEW i \in local[r].chosen
        PROVE  i <= cursor'[On(r)] /\ i \notin live[On(r)]
    <3>1. i \in Int /\ cursor[On(r)] < i /\ i <= local[r].new
      BY <1>2, <1>3
    <3>2. cursor'[On(r)] = local[r].new
      BY <1>2, <1>4
    <3>3. i \notin live[On(r)]
      BY <1>2, <1>3, <1>5, <3>1 DEF SentBelow
    <3> QED BY <3>1, <3>2, <3>3
  <2> QED BY <1>4, <2>1, <2>2 DEF InStep, Follows, Collects, ReadsOn, Sends, On
<1>8. Inside(r) /\ \A s \in Runs \ {r} : pc'[s] = pc[s]
  BY <1>1 DEF Inside, Types, RunTypes
<1> QED BY <1>1, <1>6, <1>7, <1>8, OnlyOwnStep

\* What is sent is at or below the saved cursor and was not in the stream.
LEMMA SendInStep ==
  ASSUME Types, LockInv, Untainted, NEW r \in Runs, pc[r] = "publish",
         NEW S \in SUBSET local[r].chosen, Send(On(r), S), NextAsset(r)
  PROVE  Untainted'
<1>1. /\ pc'[r] = "next" /\ known' = known
      /\ \A s \in Runs \ {r} : pc'[s] = pc[s]
      /\ UNCHANGED <<cursor, overdue>>
  BY NextRun DEF NextAsset, db
<1>2. On(r) \in Assets /\ live \in [Assets -> SUBSET Int] /\ twice \in [Assets -> SUBSET Int]
  BY DEF Types, MarketTypes, RunTypes, Polled
<1>3. /\ \A i \in S : i <= cursor[On(r)] /\ i \notin live[On(r)]
      /\ \A a \in Assets : SentBelow(a)
      /\ known[r] = cursor /\ overdue[r] = FALSE
  BY DEF Untainted, InStep, Follows, Sends, Polled
<1>4. /\ live'[On(r)] = live[On(r)] \union S
      /\ twice'[On(r)] = twice[On(r)] \union (live[On(r)] \intersect S)
      /\ \A a \in Assets \ {On(r)} : live'[a] = live[a] /\ twice'[a] = twice[a]
  BY <1>2 DEF Send
<1>5. \A a \in Assets : SentBelow(a)'
  BY <1>1, <1>3, <1>4 DEF SentBelow
<1>6. InStep(r)'
  BY <1>1, <1>3 DEF InStep, Follows, Collects, ReadsOn, Sends
<1>7. Inside(r)
  BY DEF Inside
<1> QED BY <1>1, <1>5, <1>6, <1>7, OnlyOwnStep

LEMMA WorkInStep ==
  ASSUME Types, LockInv, OnceInv, NEW r \in Runs, Work(r), ~tainted'
  PROVE  Untainted'
<1>1. Untainted
  BY DEF OnceInv, Work, Load, Acquire, Busy, Start, Finish, Fetch, FetchCancelled, Abort,
         Write, Save, Publish, NextAsset, Release
<1>2. CASE Load(r)
  BY <1>1, <1>2
  DEF Load, Goto, Types, RunTypes, Untainted, SentBelow, InStep, Follows, Collects, ReadsOn,
      Sends, Polled, On, db, stream
<1>3. CASE Acquire(r)
  <2>1. /\ known[r] = cursor /\ pc' = [pc EXCEPT ![r] = "next"]
        /\ UNCHANGED <<db, stream, known, local, overdue>>
    BY <1>3 DEF Acquire, Goto
  <2> QED
    BY <1>1, <2>1
    DEF Types, RunTypes, Untainted, SentBelow, InStep, Follows, Collects, ReadsOn,
        Sends, Polled, On, db, stream
<1>4. CASE Busy(r)
  BY <1>1, <1>4, EndedInStep DEF Busy
<1>5. ASSUME NEW a \in Assets, NEW cutoff \in 0..MaxTrades, Start(r, a, cutoff)
      PROVE  Untainted'
  <2>1. /\ pc[r] = "next" /\ pc' = [pc EXCEPT ![r] = "fetch"]
        /\ UNCHANGED <<db, stream, known, overdue>>
    BY <1>5 DEF Start, Goto
  <2>2. local'[r].asset = a /\ local'[r].new = known[r][a] /\ local'[r].chosen = {}
    BY <1>5, StartedLocal
  <2>3. known[r] = cursor /\ overdue[r] = FALSE /\ cursor[a] \in Int
    BY <1>1, <2>1 DEF Untainted, InStep, Follows, Types, MarketTypes
  <2>4. pc'[r] = "fetch" /\ \A s \in Runs \ {r} : pc'[s] = pc[s]
    BY <2>1 DEF Types, RunTypes
  <2>5. InStep(r)'
    BY <2>1, <2>2, <2>3, <2>4 DEF InStep, Follows, Collects, ReadsOn, Sends, On, db
  <2>6. \A b \in Assets : SentBelow(b)'
    BY <1>1, <2>1 DEF Untainted, SentBelow, db, stream
  <2> QED BY <1>1, <2>1, <2>4, <2>5, <2>6, OnlyOwnStep DEF Inside
<1>6. CASE Finish(r)
  BY <1>1, <1>6
  DEF Finish, Goto, Types, RunTypes, Untainted, SentBelow, InStep, Follows, Collects, ReadsOn,
      Sends, Polled, On, db, stream
<1>7. CASE Fetch(r)
  BY <1>1, <1>7, FetchInStep
<1>8. CASE FetchCancelled(r)
  BY <1>1, <1>8, AbortedInStep DEF FetchCancelled, Abort, db
<1>9. CASE Write(r)
  BY <1>1, <1>9, WriteInStep
<1>10. CASE Save(r)
  BY <1>1, <1>10, SaveInStep
<1>11. CASE Publish(r)
  BY <1>1, <1>11, SendInStep DEF Publish
<1>12. CASE Release(r)
  BY <1>1, <1>12, EndedInStep DEF Release
<1> QED BY <1>2, <1>3, <1>4, <1>5, <1>6, <1>7, <1>8, <1>9, <1>10, <1>11, <1>12 DEF Work

\* A cursor saved by a run that did not learn of it leaves what was sent below.
LEMMA HiddenSaveInStep ==
  ASSUME Types, LockInv, Untainted, NEW r \in Runs, pc[r] = "save", Abort(r),
         cursor' = CursorSaved(r), UNCHANGED rows
  PROVE  Untainted'
<1>1. /\ pc'[r] = "release" /\ \A s \in Runs \ {r} : pc'[s] = pc[s]
      /\ UNCHANGED <<stream, overdue>>
  BY AbortedRun DEF Abort
<1>2. /\ On(r) \in Assets /\ local[r].new \in Int /\ cursor \in [Assets -> Int]
      /\ live \in [Assets -> SUBSET Int]
  <2>1. pc[r] \in Polled
    BY DEF Polled
  <2> QED BY <2>1, PageTypes DEF Types, MarketTypes
<1>3. cursor[On(r)] <= local[r].new /\ overdue[r] = FALSE /\ \A a \in Assets : SentBelow(a)
  BY DEF Untainted, InStep, Collects
<1>4. \A a \in Assets : cursor[a] \in Int /\ cursor'[a] \in Int /\ cursor[a] <= cursor'[a]
  BY <1>2, <1>3 DEF CursorSaved, Saved
<1>5. ASSUME NEW a \in Assets
      PROVE  SentBelow(a)'
  <2>1. ASSUME NEW i \in live[a]
        PROVE  i <= cursor'[a]
    <3>1. i \in Int /\ i <= cursor[a]
      BY <1>2, <1>3 DEF SentBelow
    <3> QED BY <1>4, <3>1
  <2> QED BY <1>1, <1>3, <2>1 DEF SentBelow, stream
<1>6. InStep(r)'
  BY <1>1, <1>3 DEF InStep, Follows, Collects, ReadsOn, Sends, Polled
<1>7. Inside(r)
  BY DEF Inside
<1> QED BY <1>1, <1>5, <1>6, <1>7, OnlyOwnStep

LEMMA TroubleInStep ==
  ASSUME Types, LockInv, OnceInv, NEW r \in Runs, Trouble(r), ~tainted'
  PROVE  Untainted'
<1>1. Untainted
  BY DEF OnceInv, Trouble, AcquireFails, FetchFails, WriteFails, SaveFails, Abort,
         PublishFails, NextAsset, ReleaseFails, Crash, LockExpires
<1>2. CASE AcquireFails(r)
  BY <1>1, <1>2, EndedInStep DEF AcquireFails
<1>3. CASE FetchFails(r)
  BY <1>1, <1>3, AbortedInStep DEF FetchFails, Abort, db
<1>4. CASE WriteFails(r)
  BY <1>1, <1>4, AbortedInStep DEF WriteFails, Abort
<1>5. CASE SaveFails(r)
  <2>1. /\ pc[r] = "save" /\ Abort(r) /\ UNCHANGED rows
        /\ cursor' = cursor \/ cursor' = CursorSaved(r)
    BY <1>5 DEF SaveFails
  <2>2. CASE cursor' = cursor
    BY <1>1, <2>1, <2>2, AbortedInStep DEF Abort
  <2>3. CASE cursor' = CursorSaved(r)
    BY <1>1, <2>1, <2>3, HiddenSaveInStep
  <2> QED BY <2>1, <2>2, <2>3
<1>6. CASE PublishFails(r)
  <2>1. pc[r] = "publish" /\ NextAsset(r)
    BY <1>6 DEF PublishFails
  <2>2. PICK k : Send(On(r), {i \in local[r].chosen : i <= k})
    BY <1>6 DEF PublishFails
  <2> QED BY <1>1, <2>1, <2>2, SendInStep
<1>7. CASE ReleaseFails(r)
  BY <1>1, <1>7, EndedInStep DEF ReleaseFails
<1>8. CASE Crash(r)
  BY <1>1, <1>8, EndedInStep DEF Crash
<1>9. CASE LockExpires(r)
  BY <1>9 DEF LockExpires
<1> QED BY <1>2, <1>3, <1>4, <1>5, <1>6, <1>7, <1>8, <1>9 DEF Trouble

LEMMA NextInStep ==
  ASSUME Types, LockInv, OnceInv, [Next]_vars
  PROVE  OnceInv'
<1>1. ASSUME UNCHANGED <<db, stream, run, tainted>>
      PROVE  OnceInv'
  BY <1>1
  DEF OnceInv, Untainted, SentBelow, InStep, Follows, Collects, ReadsOn, Sends, On,
      db, stream, run
<1>2. ASSUME NEW a \in Assets, Trade(a) \/ OpenForm(a) \/ SaveForm(a)
      PROVE  OnceInv'
  <2>1. CASE SaveForm(a)
    BY <2>1 DEF SaveForm, OnceInv
  <2> QED BY <1>1, <1>2, <2>1 DEF Trade, OpenForm
<1>3. CASE OrphanExpires
  BY <1>1, <1>3 DEF OrphanExpires
<1>4. CASE UNCHANGED vars
  BY <1>1, <1>4 DEF vars
<1>5. ASSUME NEW r \in Runs, Work(r) \/ Trouble(r)
      PROVE  OnceInv'
  BY <1>5, WorkInStep, TroubleInStep DEF OnceInv
<1> QED BY <1>2, <1>3, <1>4, <1>5 DEF Next

\* _poll_asset saves the cursor before _publish sends: failures, crashes and
\* overlapping runs lose live trades but repeat none, unless a run starts from
\* a cursor that is no longer the saved one, a lock expires under its run, or
\* the edit form writes a cursor back.
THEOREM LiveOnceHolds == Spec => []LiveOnce
<1>1. Init => Types /\ LockInv /\ OnceInv
  <2>1. Init => LockInv /\ OnceInv
    BY DEF Init, LockInv, Owned, Inside, OnceInv, Untainted, SentBelow, InStep, Follows,
           Collects, ReadsOn, Sends, Polled, NoTrades
  <2> QED BY <2>1, InitTypes
<1>2. Types /\ LockInv /\ OnceInv /\ [Next]_vars => Types' /\ LockInv' /\ OnceInv'
  BY NextTypes, NextOwned, NextInStep
<1>3. OnceInv => LiveOnce
  BY DEF OnceInv, Untainted, SentBelow, LiveOnce
<1> QED BY <1>1, <1>2, <1>3, PTL DEF Spec
=============================================================================
