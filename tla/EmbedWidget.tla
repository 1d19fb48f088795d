----------------------------- MODULE EmbedWidget -----------------------------
(***************************************************************************)
(* The widget of one page over the server of PublicChat: streamAsk reads   *)
(* the response in whatever pieces the network delivers, parseSseBuffer    *)
(* keeps what does not end in a blank line for the next piece, and boot's  *)
(* handlers write to the one answer area of the panel.  Nothing keeps the  *)
(* visitor from sending a question while another one is answered.          *)
(***************************************************************************)
EXTENDS PublicChat

VARIABLES
    reading,    \* of an ask: "idle", "reading", "over"
    buffer,     \* what its parser keeps
    sawDone, streamed,
    answer, status, sources, errors,  \* the panel; of sources and errors, whose
    latest,     \* the ask submitted last
    overlapped  \* history: asks that shared the panel with another

panelVars == <<answer, status, sources, errors>>
readVars == <<reading, buffer, sawDone, streamed>>
widgetVars == <<readVars, panelVars, latest, overlapped>>
vars == <<siteVars, counterVars, burstVars, askVars, widgetVars>>

WidgetInit ==
    /\ reading = [a \in Asks |-> "idle"] /\ buffer = [a \in Asks |-> <<>>]
    /\ sawDone = [a \in Asks |-> FALSE] /\ streamed = [a \in Asks |-> FALSE]
    /\ answer = <<>> /\ status = "" /\ sources = None /\ errors = <<>>
    /\ latest = None /\ overlapped = {}

(***************************************************************************)
(* splitFrames and toEvent: a frame is complete at its second line break.  *)
(***************************************************************************)
FrameEnds(symbols) ==
    {i \in 2 .. Len(symbols) : symbols[i].line = "break" /\ symbols[i - 1].line = "break"}
Complete(symbols) ==
    CHOOSE i \in FrameEnds(symbols) \cup {0} : \A j \in FrameEnds(symbols) : j <= i
\* Mutant: what follows the last blank line is dropped.
NothingKept(symbols) == <<>>
Remainder(symbols) == SubSeq(symbols, Complete(symbols) + 1, Len(symbols))
\* the numbers of a set in ascending order
InOrder(S) ==
    [n \in 1 .. Cardinality(S) |-> CHOOSE i \in S : Cardinality({j \in S : j <= i}) = n]
Events(symbols) ==
    LET at == InOrder({i \in 1 .. Complete(symbols) : symbols[i].line = "event"})
    IN [n \in DOMAIN at |-> symbols[at[n]]]

\* onEvent, for a sequence of events of ask a
Holds(events, type) == \E i \in DOMAIN events : events[i].type = type
Pieces(events) ==
    LET at == InOrder({i \in DOMAIN events : events[i].type = "chunk"})
    IN [n \in DOMAIN at |-> events[at[n]].text]
Show(a, events) ==
    LET pieces == Pieces(events)
        quiet == Holds(events, "done") \/ Holds(events, "error") \/ (pieces # <<>> /\ ~streamed[a])
    IN /\ answer' = answer \o [i \in DOMAIN pieces |-> [ask |-> a, text |-> pieces[i]]]
       /\ streamed' = [streamed EXCEPT ![a] = @ \/ pieces # <<>>]
       /\ sawDone' = [sawDone EXCEPT ![a] = @ \/ Holds(events, "done")]
       /\ status' = IF quiet THEN "" ELSE status
       /\ sources' = IF Holds(events, "done") THEN a ELSE sources
       /\ errors' = IF Holds(events, "error") THEN Append(errors, a) ELSE errors

\* onSubmit; startAnswer removes the first error it finds
Submit(a, n, k, i) ==
    /\ Arrive(a, n, k, i)
    /\ reading' = [reading EXCEPT ![a] = "reading"]
    /\ answer' = <<>> /\ sources' = None /\ status' = "Thinking..."
    /\ errors' = IF errors = <<>> THEN errors ELSE Tail(errors)
    /\ latest' = a
    /\ overlapped' =
         LET busy == {b \in Asks : reading[b] = "reading"}
         IN overlapped \cup busy \cup (IF busy = {} THEN {} ELSE {a})
    /\ UNCHANGED <<buffer, sawDone, streamed>>

Take(a, i) == wire' = [wire EXCEPT ![a] = SubSeq(@, i + 1, Len(@))]
ServerIdle ==
    UNCHANGED <<siteVars, counterVars, burstVars, stage, home, key, scope, ticket, sentRetired, chunks>>

\* reader.read() returns a piece of the stream
Read(a) ==
    /\ reading[a] = "reading"
    /\ \E i \in 1 .. Len(wire[a]) :
          /\ \A j \in 1 .. i : wire[a][j].line \in {"event", "break"}
          /\ Take(a, i)
          /\ LET text == buffer[a] \o SubSeq(wire[a], 1, i)
             IN Show(a, Events(text)) /\ buffer' = [buffer EXCEPT ![a] = Remainder(text)]
    /\ ServerIdle /\ UNCHANGED <<reading, latest, overlapped>>

\* Mutant: the end of the stream is taken for the end of the answer.
FinishSilently(a, isError) ==
    /\ reading' = [reading EXCEPT ![a] = "over"]
    /\ wire' = [wire EXCEPT ![a] = <<>>]
    /\ UNCHANGED <<status, errors>>
    /\ ServerIdle /\ UNCHANGED <<buffer, sawDone, streamed, answer, sources, latest, overlapped>>

Finish(a, isError) ==
    /\ reading' = [reading EXCEPT ![a] = "over"]
    /\ wire' = [wire EXCEPT ![a] = <<>>]
    /\ IF isError THEN status' = "" /\ errors' = Append(errors, a) ELSE UNCHANGED <<status, errors>>
    /\ ServerIdle /\ UNCHANGED <<buffer, sawDone, streamed, answer, sources, latest, overlapped>>

\* done without a terminal event is an error of its own
ReadEnds(a) ==
    /\ reading[a] = "reading" /\ wire[a] # <<>> /\ Head(wire[a]).line = "end"
    /\ Finish(a, ~sawDone[a])

GetRefusal(a) ==
    /\ reading[a] = "reading" /\ wire[a] # <<>> /\ Head(wire[a]).line = "status"
    /\ Finish(a, TRUE)

\* fetch() or reader.read() rejects; what was under way is lost
ReadFails(a) ==
    /\ reading[a] = "reading" /\ wire[a] # <<>> /\ wire[a][Len(wire[a])].line = "cut"
    /\ Finish(a, TRUE)

Init == SitesInit /\ PublicInit /\ WidgetInit

ClientStep(a) == Read(a) \/ ReadEnds(a) \/ GetRefusal(a) \/ ReadFails(a)

Next ==
    \/ ServerStep /\ UNCHANGED widgetVars
    \/ \E a \in Asks : ClientStep(a) \/ \E n \in Nodes, k \in Keys, i \in Addresses : Submit(a, n, k, i)

Spec == Init /\ [][Next]_vars

(***************************************************************************)
(* Properties.                                                             *)
(***************************************************************************)
TypeOK ==
    /\ PublicTypeOK
    /\ reading \in [Asks -> {"idle", "reading", "over"}]
    /\ \A a \in Asks : reading[a] = "idle" <=> stage[a] = "unsent"
    /\ buffer \in [Asks -> Seq(Symbols)]
    /\ sawDone \in [Asks -> BOOLEAN] /\ streamed \in [Asks -> BOOLEAN]
    /\ answer \in Seq([ask : Asks, text : 1 .. MaxChunks])
    /\ status \in {"", "Thinking..."}
    /\ sources \in Asks \cup {None} /\ errors \in Seq(Asks)
    /\ latest \in Asks \cup {None} /\ overlapped \subseteq Asks

\* sse-client.ts: however the network cuts the stream, an answer that ended
\* with 'done' and had the panel to itself shows every chunk the server sent,
\* once and in order, and its sources.
AnswerIsWhole ==
    \A a \in Asks \ overlapped :
        a = latest /\ sawDone[a] =>
          /\ answer = [i \in 1 .. chunks[a] |-> [ask |-> a, text |-> i]]
          /\ sources = a /\ status = ""

\* stream-transport.ts, "rather than leaving the UI hanging": when no answer is
\* awaited the panel does not say it is thinking, and shows sources or an error.
PanelTells ==
    (\A a \in Asks : reading[a] # "reading") =>
        status = "" /\ (latest # None => sources # None \/ errors # <<>>)

\* stream-transport.ts keeps the two ways an answer can fail distinct: an ask
\* is reported as failed once.
OneErrorPerAsk == \A i, j \in DOMAIN errors : i # j => errors[i] # errors[j]
(***************************************************************************)
(* Inductive invariants: how much of a response is still to be shown.      *)
(***************************************************************************)
FrameAt(s, i, type, text) ==
    /\ s[3 * i - 2] = [line |-> "event", type |-> type, text |-> text]
    /\ s[3 * i - 1] = Mark("break") /\ s[3 * i] = Mark("break")

\* Chunks k + 1 .. k + left of a response and nothing, its last symbol, or a
\* terminal event and its last symbol.
Chunks(s, k, left, rest) ==
    /\ Len(s) = 3 * left + rest
    /\ \A i \in 1 .. left : FrameAt(s, i, "chunk", k + i)
    /\ rest = 1 => s[Len(s)] \in {Mark("status"), Mark("end"), Mark("cut")}
    /\ rest = 4 => /\ \E type \in {"done", "error"} : FrameAt(s, left + 1, type, 0)
                   /\ s[Len(s)] = Mark("end")

\* What ask a has not shown of its response is s: the chunks after the first
\* k, and how the response ends once it is closed.
Remains(a, s, k) ==
    \E rest \in {0, 1, 4} :
        /\ Chunks(s, k, chunks[a] - k, rest)
        /\ rest = 0 <=> stage[a] # "closed"
        /\ sawDone[a] => rest = 1 /\ s = <<Mark("end")>>

Unread(a) == buffer[a] \o wire[a]
Shown(a, k) == [i \in 1 .. k |-> [ask |-> a, text |-> i]]

ReadersFollow ==
    \A a \in Asks :
        /\ reading[a] = "idle" =>
              /\ buffer[a] = <<>> /\ wire[a] = <<>> /\ chunks[a] = 0
              /\ ~sawDone[a]
        /\ reading[a] = "reading" => \E k \in 0 .. chunks[a] : Remains(a, Unread(a), k)
        /\ reading[a] = "over" => stage[a] = "closed"
        /\ stage[a] \in {"lookup", "project", "count"} => chunks[a] = 0

\* An ask that has the panel to itself.
LatestIsAlone ==
    \A a \in Asks \ overlapped :
        a = latest =>
          /\ \A b \in Asks \ {a} : reading[b] # "reading"
          /\ reading[a] = "reading" =>
                \E k \in 0 .. chunks[a] : answer = Shown(a, k) /\ Remains(a, Unread(a), k)
          /\ sawDone[a] => answer = Shown(a, chunks[a]) /\ sources = a /\ status = ""

PanelFollows ==
    /\ latest = None => status = "" /\ \A a \in Asks : reading[a] = "idle"
    /\ latest # None =>
          /\ reading[latest] # "idle"
          /\ sawDone[latest] => sources # None /\ status = ""
          /\ reading[latest] = "over" => status = "" /\ (sources # None \/ errors # <<>>)
=============================================================================
