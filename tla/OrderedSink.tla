----------------------------- MODULE OrderedSink -----------------------------
(***************************************************************************)
(* What the trade pipeline promises to whoever reads the table of trades:  *)
(* published entries are settled in order, an entry is stored at most once *)
(* and only before it is settled, and no more than one batch of entries is *)
(* stored ahead of the settled prefix. An entry that is settled without    *)
(* being stored is lost for good.                                          *)
(***************************************************************************)
EXTENDS Integers, FiniteSets

CONSTANT BatchSize

VARIABLES published, settled, stored

vars == <<published, settled, stored>>

Init == published = 0 /\ settled = 0 /\ stored = {}

Publish ==
    /\ published' = published + 1
    /\ UNCHANGED <<settled, stored>>

\* A batch is stored, in whole or in part; its entries are not yet settled.
Store ==
    /\ \E batch \in SUBSET ((settled + 1)..published) :
          /\ Cardinality(batch) <= BatchSize
          /\ stored' = stored \union batch
    /\ UNCHANGED <<published, settled>>

\* The oldest entries are settled, stored or not.
Settle ==
    /\ settled' \in (settled + 1)..published
    /\ UNCHANGED <<published, stored>>

Next == Publish \/ Store \/ Settle

Spec == Init /\ [][Next]_vars
=============================================================================
