------------------------------- MODULE MCChat -------------------------------
(* The chat on small instances: the runs on the server that share the quota *)
(* of a day, or the dialogue in a browser. The two share no state, so a     *)
(* behaviour follows one of them.                                           *)
EXTENDS ChatQuota, ChatWidget

VARIABLE side  \* the one followed; never changes

ChatInit == Init /\ WidgetInit /\ side \in {"server", "browser"}

ServerStep == side = "server" /\ Next /\ UNCHANGED widget
BrowserStep == side = "browser" /\ WidgetNext /\ UNCHANGED vars

ChatNext == (ServerStep \/ BrowserStep) /\ UNCHANGED side

ChatSpec == ChatInit /\ [][ChatNext]_<<vars, widget, side>> /\ Fairness
=============================================================================
