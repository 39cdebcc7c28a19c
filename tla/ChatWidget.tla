----------------------------- MODULE ChatWidget -----------------------------
(***************************************************************************)
(* The chat of the browser page: the reducer of the dialogue (chatState),  *)
(* the hook that asks (useChat) and the stream of one question (streamChat),*)
(* against the server that checks every history anew (validate_history) and*)
(* answers with events. The reducer's actions do not say which stream they *)
(* come from: they settle the last answer that is streaming. A text is its *)
(* length, the server's loop is the order of its events.                   *)
(***************************************************************************)
EXTENDS Integers, Sequences, FiniteSets, SequencesExt, FiniteSetsExt

CONSTANTS
    MaxMessages,     \* AI_MAX_HISTORY_MESSAGES
    MaxMessageChars, \* AI_MAX_MESSAGE_CHARS
    MaxHistoryChars, \* AI_MAX_HISTORY_CHARS
    MaxQuestions,    \* bound: questions asked
    MaxAnswer,       \* bound: the length of an answer
    MaxTexts         \* bound: lengths of questions are 1 to this, and may be too long

ASSUME ChatAssumption ==
    /\ MaxMessages \in Nat \ {0} /\ MaxMessageChars \in Nat \ {0}
    /\ MaxHistoryChars \in Nat /\ MaxHistoryChars >= MaxMessageChars
    /\ MaxQuestions \in Nat /\ MaxAnswer \in Nat /\ MaxTexts \in Nat

VARIABLES
    entries,     \* ChatState.entries; "of" is the question an answer is for
    tool,        \* activeTool is set
    isStreaming,
    asked,       \* questions asked; the last one's controller is controllerRef
    request,     \* the history a question was sent with
    stream,      \* where the stream of a question is
    said,        \* what its last event was, and how much text it has sent
    late         \* history: a stream broke after its last event

state == <<entries, tool, isStreaming>>
widget == <<state, asked, request, stream, said, late>>

Questions == 1..MaxQuestions
Silent    == [end |-> "none", text |-> 0]

WidgetInit ==
    /\ entries = <<>> /\ tool = FALSE /\ isStreaming = FALSE
    /\ asked = 0
    /\ request = [q \in Questions |-> <<>>]
    /\ stream = [q \in Questions |-> "none"]
    /\ said = [q \in Questions |-> Silent]
    /\ late = FALSE

-----------------------------------------------------------------------------
(* chatReducer.                                                             *)
Entry(role, size, status, q) == [role |-> role, size |-> size, status |-> status, of |-> q]

AnyAnswer(e)    == e.role = "assistant"   \* MUTANT: settled or not
IsStreaming(e)  == e.role = "assistant" /\ e.status = "streaming"

\* mapLastAssistant: the last answer that is streaming, if there is one.
Current == {i \in DOMAIN entries : IsStreaming(entries[i])}
MapLast(status, more) ==
    IF Current = {} THEN entries
    ELSE [entries EXCEPT ![Max(Current)].status = status, ![Max(Current)].size = @ + more]

Settled(after) == entries' = after /\ tool' = FALSE /\ isStreaming' = FALSE

\* filter(): the entries at some places, in order; the k-th has k - 1 before it.
Nth(S, k) == CHOOSE i \in S : Cardinality({j \in S : j < i}) = k - 1
Filtered(list, places) == [k \in 1..Cardinality(places) |-> list[Nth(places, k)]]

\* "failed" also removes the answers that have no text.
Blank(e) == e.role = "assistant" /\ e.size = 0
Failed ==
    LET settled == MapLast("stopped", 0) IN
    Settled(Append(Filtered(settled, {i \in DOMAIN settled : ~Blank(settled[i])}),
                   Entry("error", 1, "none", 0)))
Stopped == Settled(MapLast("stopped", 0))

-----------------------------------------------------------------------------
(* send(): the history the frontend prepares.                               *)
Message(e) == [role |-> e.role, size |-> e.size]
Finished(e) == e.role = "user" \/ (e.role = "assistant" /\ e.status = "done")
Told       == Filtered(entries, {i \in DOMAIN entries : Finished(entries[i])})
Chars(h)   == Cardinality(UNION {{i} \X (1..h[i].size) : i \in DOMAIN h})
LastOf(h)  == SubSeq(h, Len(h) - Min({Len(h), MaxMessages}) + 1, Len(h))

\* Messages are dropped from the front while they are too long together or
\* the first is not the user's, but never the question itself.
OnlyChars(h) == Len(h) = 1 \/ Chars(h) <= MaxHistoryChars   \* MUTANT: whoever is first
Fits(h)      == Len(h) = 1 \/ (Chars(h) <= MaxHistoryChars /\ h[1].role = "user")
Trimmed(h)   ==
    LET enough == {k \in 1..Len(h) : Fits(SubSeq(h, k, Len(h)))}
    IN  SubSeq(h, Min(enough), Len(h))

History(size) ==
    Trimmed(LastOf(Append([i \in DOMAIN Told |-> Message(Told[i])],
                          [role |-> "user", size |-> size])))

BetweenAnswers == ~isStreaming

Send(size) ==
    LET q == asked + 1 IN
    /\ BetweenAnswers /\ size <= MaxMessageChars /\ asked < MaxQuestions
    /\ request' = [request EXCEPT ![q] = History(size)]
    /\ entries' = entries \o <<Entry("user", size, "none", q), Entry("assistant", 0, "streaming", q)>>
    /\ tool' = FALSE /\ isStreaming' = TRUE
    /\ asked' = q
    /\ stream' = [stream EXCEPT ![q] = "sent"]
    /\ UNCHANGED <<said, late>>

-----------------------------------------------------------------------------
(* The server and streamChat.                                               *)

\* validate_history.
Valid(h) ==
    /\ h # <<>> /\ Len(h) <= MaxMessages /\ Last(h).role = "user"
    /\ \A i \in DOMAIN h : h[i].size \in 1..MaxMessageChars
    /\ Chars(h) <= MaxHistoryChars

At(q, place)   == stream[q] = place
Goes(q, place) == stream' = [stream EXCEPT ![q] = place]

Accept(q) ==
    /\ At(q, "sent") /\ Valid(request[q])
    /\ Goes(q, "open")
    /\ UNCHANGED <<state, asked, request, said, late>>

\* A status before the stream: the history, the quota, or AI is off.
Refused(q) ==
    /\ At(q, "sent")
    /\ Goes(q, "closed") /\ Failed
    /\ UNCHANGED <<asked, request, said, late>>

TextDelta(q) ==
    /\ At(q, "open") /\ said[q].text < MaxAnswer
    /\ said' = [said EXCEPT ![q].text = @ + 1]
    /\ entries' = MapLast("streaming", 1) /\ tool' = FALSE
    /\ UNCHANGED <<isStreaming, asked, request, stream, late>>

ToolCall(q) ==
    /\ At(q, "open")
    /\ tool' = TRUE
    /\ UNCHANGED <<entries, isStreaming, asked, request, stream, said, late>>

\* The last event of the loop; the reader goes on until the body ends.
Done(q) ==
    /\ At(q, "open")
    /\ Goes(q, "finished")
    /\ said' = [said EXCEPT ![q].end = "done"]
    /\ Settled(MapLast("done", 0))
    /\ UNCHANGED <<asked, request, late>>

Error(q) ==
    /\ At(q, "open")
    /\ Goes(q, "finished")
    /\ said' = [said EXCEPT ![q].end = "error"]
    /\ Failed
    /\ UNCHANGED <<asked, request, late>>

\* The body ends. Without a last event that is an error too.
SilentEnd(q)   == UNCHANGED state          \* MUTANT: a body may just end
Interrupted(q) == IF At(q, "open") THEN Failed ELSE UNCHANGED state

Close(q) ==
    /\ stream[q] \in {"open", "finished"}
    /\ Goes(q, "closed") /\ Interrupted(q)
    /\ UNCHANGED <<asked, request, said, late>>

\* fetch or read() rejects, at any time, and catch dispatches "failed" whether
\* or not the stream has had its last event.
Break(q) ==
    /\ stream[q] \in {"sent", "open", "finished"}
    /\ Goes(q, "closed") /\ Failed
    /\ late' = (late \/ At(q, "finished"))
    /\ UNCHANGED <<asked, request, said>>

\* abort() of the last controller. The rejection reaches catch before anything
\* else happens on the page.
NoAbort == UNCHANGED stream                \* MUTANT: the stream goes on
Abort   == IF asked # 0 /\ stream[asked] \in {"sent", "open", "finished"}
           THEN Goes(asked, "closed") ELSE UNCHANGED stream

Stop ==
    /\ isStreaming /\ stream[asked] \in {"sent", "open", "finished"}
    /\ Abort /\ Stopped
    /\ UNCHANGED <<asked, request, said, late>>

\* "New dialogue": the state is the initial one, and "stopped" finds nothing.
Reset ==
    /\ entries # <<>>
    /\ Abort /\ Settled(<<>>)
    /\ UNCHANGED <<asked, request, said, late>>

Answers(q) == Accept(q) \/ Refused(q) \/ Done(q) \/ Error(q) \/ Close(q)

WidgetNext ==
    \/ \E size \in 1..MaxTexts : Send(size)
    \/ \E q \in Questions : Answers(q) \/ TextDelta(q) \/ ToolCall(q) \/ Break(q)
    \/ Stop \/ Reset

WidgetSpec == WidgetInit /\ [][WidgetNext]_widget

\* The server has a deadline for an answer, and then ends its stream.
Fairness == \A q \in Questions : WF_widget(Answers(q))

-----------------------------------------------------------------------------
WidgetTypeOK ==
    /\ \A i \in DOMAIN entries :
           entries[i] \in [role : {"user", "assistant", "error"}, size : Nat,
                           status : {"none", "streaming", "done", "stopped"}, of : 0..MaxQuestions]
    /\ tool \in BOOLEAN /\ isStreaming \in BOOLEAN /\ late \in BOOLEAN
    /\ asked \in 0..MaxQuestions
    /\ stream \in [Questions -> {"none", "sent", "open", "finished", "closed"}]
    /\ \A q \in Questions : Len(request[q]) <= MaxMessages
    /\ said \in [Questions -> [end : {"none", "done", "error"}, text : 0..MaxAnswer]]

\* Every history the frontend prepares keeps the rules the server refuses by,
\* but for the lengths of the model's own answers: it is short enough, starts
\* and ends with the user, and its questions are neither empty nor too long.
RequestsFit ==
    \A q \in Questions : request[q] # <<>> =>
        LET h == request[q] IN
        /\ Len(h) <= MaxMessages /\ Chars(h) <= MaxHistoryChars
        /\ h[1].role = "user" /\ Last(h).role = "user"
        /\ \A i \in DOMAIN h : h[i].role = "user" => h[i].size \in 1..MaxMessageChars

\* An answer shown as done has all the text of its own stream and nothing of
\* another's, and an answer that waits has a stream that will settle it. What
\* is needed is that no stream breaks after its last event: then "failed"
\* settles the answer to the next question while its stream goes on.
AnswerIsWhole ==
    ~late => \A i \in DOMAIN entries :
        LET e == entries[i] IN
        /\ e.role = "assistant" /\ e.status = "done" =>
               said[e.of].end = "done" /\ e.size = said[e.of].text
        /\ IsStreaming(e) => e.of = asked /\ stream[asked] \in {"sent", "open"}

\* Nothing that comes later changes an answer that is done: it stays until
\* the dialogue is reset (an empty one until the next failure).
DoneStays ==
    [][\A i \in DOMAIN entries :
          entries[i].role = "assistant" /\ entries[i].status = "done" /\ entries[i].size > 0 =>
              entries' = <<>> \/ \E j \in DOMAIN entries' : entries'[j] = entries[i]]_widget

\* Whatever the server, the network and the user do, every wait for an answer
\* ends.
EventuallyIdle == isStreaming ~> ~isStreaming
=============================================================================
