--------------------------- MODULE MCDailyHistory ---------------------------
(* The daily history on small instances.                                   *)
EXTENDS DailyHistory

CONSTANTS asset1, asset2

\* One asset with candles is there from the start; a currency has to be created.
FirstOfDomain == [d \in Domains |-> IF d = "candles" THEN {asset1} ELSE {}]
=============================================================================
