------------------------------ MODULE ChatTurns ------------------------------
(***************************************************************************)
(* The turns of chat conversations: a question is stored, an agent answers *)
(* it with the project's data sources, and the answer is stored.  A turn   *)
(* is "plain" (one response) or "streamed" (server-sent events, with a     *)
(* fallback that runs the agent again in a context of its own).  Turns of  *)
(* one conversation, its deletion and restarts interleave.                 *)
(* Texts are abstracted to the path that produced them.                    *)
(***************************************************************************)
EXTENDS SqlPools, Sequences

CONSTANTS
    Conversations,
    DatabaseTurns      \* the turns whose project has a database source

ASSUME DatabaseTurnsAssumption == DatabaseTurns \subseteq Turns
\* The title made from a question is a title.
ASSUME TitlesAssumption == "none" \notin Turns

VARIABLES
    exists,     \* conversation -> "no", "yes" or "deleted"
    title,      \* conversation -> "none", "given", or the turn it was made from
    messages,   \* conversation -> the sequence of its messages
    mode,       \* turn -> "plain" or "streamed"
    stage,      \* turn -> what it does next
    conv,       \* turn -> its conversation, or None
    reply,      \* turn -> the path whose reply it stores, or None
    shown,      \* turn -> the path of the text its client was sent last, or None
    told        \* turn -> the end of its response: "nothing", "complete", "error"

tableVars == <<exists, title, messages>>
turnVars == <<mode, stage, conv, reply, shown, told>>
vars == <<poolVars, tableVars, turnVars>>

Paths == {"agent", "invoke", "search", "route", "degraded", "error"}
Stages == {"idle", "ask", "askFirst", "title", "route", "agent", "sql", "rag",
           "synthesize", "invoke", "search", "persist", "reload", "cleanup", "over"}
Messages == [turn : Turns, role : {"user", "assistant"}]

Main(t) == <<t, "main">>
Fallback(t) == <<t, "fallback">>
Question(t) == [turn |-> t, role |-> "user"]
Answer(t) == [turn |-> t, role |-> "assistant"]
Stored(c, m) == \E i \in DOMAIN messages[c] : messages[c][i] = m

Init ==
    /\ PoolsInit
    /\ exists = [c \in Conversations |-> "no"]
    /\ title = [c \in Conversations |-> "none"]
    /\ messages = [c \in Conversations |-> <<>>]
    /\ mode \in [Turns -> {"plain", "streamed"}]
    /\ stage = [t \in Turns |-> "idle"]
    /\ conv = [t \in Turns |-> None]
    /\ reply = [t \in Turns |-> None]
    /\ shown = [t \in Turns |-> None]
    /\ told = [t \in Turns |-> "nothing"]

Goto(t, next) == stage' = [stage EXCEPT ![t] = next]

\* The client of a streamed turn is sent text of a path.
Send(t, path) ==
    shown' = IF mode[t] = "streamed" THEN [shown EXCEPT ![t] = path] ELSE shown

\* The request's own data go with it.
Over(t) ==
    /\ Goto(t, "over")
    /\ reply' = [reply EXCEPT ![t] = None]
    /\ shown' = [shown EXCEPT ![t] = None]

\* The end of a response.  A context that is still live is cleaned up next (in
\* the code before the error is sent: nothing here depends on that order).
Leave(t, end) ==
    /\ told' = [told EXCEPT ![t] = end]
    /\ IF Live(Main(t)) THEN Goto(t, "cleanup") /\ UNCHANGED <<reply, shown>>
                        ELSE Over(t)
    /\ UNCHANGED <<mode, conv>>

-----------------------------------------------------------------------------
(* Conversations.                                                          *)

CreateConversation(c, given) ==
    /\ exists[c] = "no"
    /\ exists' = [exists EXCEPT ![c] = "yes"]
    /\ title' = [title EXCEPT ![c] = given]
    /\ UNCHANGED <<poolVars, messages, turnVars>>

\* The messages go with it.
DeleteConversation(c) ==
    /\ exists[c] = "yes"
    /\ exists' = [exists EXCEPT ![c] = "deleted"]
    /\ title' = [title EXCEPT ![c] = "none"]
    /\ messages' = [messages EXCEPT ![c] = <<>>]
    /\ UNCHANGED <<poolVars, turnVars>>

\* createMessage: the insert fails on its foreign key when there is no row.
Insert(c, m) ==
    /\ exists[c] = "yes"
    /\ messages' = [messages EXCEPT ![c] = Append(@, m)]
    /\ UNCHANGED <<exists, title>>

-----------------------------------------------------------------------------
(* The question.                                                           *)

Begin(t, c) ==
    /\ stage[t] = "idle"
    /\ exists[c] = "yes"
    /\ conv' = [conv EXCEPT ![t] = c]
    /\ Goto(t, IF title[c] = "none" THEN "askFirst" ELSE "ask")
    /\ UNCHANGED <<poolVars, tableVars, mode, reply, shown, told>>

Ask(t) ==
    /\ stage[t] \in {"ask", "askFirst"}
    /\ Insert(conv[t], Question(t))
    /\ Goto(t, IF stage[t] = "askFirst" THEN "title" ELSE "route")
    /\ UNCHANGED <<poolVars, mode, conv, reply, shown, told>>

\* The update names the conversation and no title.
SetTitle(t) ==
    /\ stage[t] = "title"
    /\ title' = IF exists[conv[t]] = "yes"
                THEN [title EXCEPT ![conv[t]] = t] ELSE title
    /\ Goto(t, "route")
    /\ UNCHANGED <<poolVars, exists, messages, mode, conv, reply, shown, told>>

\* A streamed turn reads its conversation again before it routes.
Queries(t) ==
    \/ stage[t] \in {"ask", "askFirst", "title", "persist", "reload"}
    \/ stage[t] = "route" /\ mode[t] = "streamed"

\* Mutant: what follows the answer is tried again with it.
QueryRetries(t) ==
    /\ Queries(t)
    /\ Goto(t, IF stage[t] = "reload" THEN "persist" ELSE stage[t])
    /\ UNCHANGED <<poolVars, tableVars, mode, conv, reply, shown, told>>

\* The database fails, or has no row for the message's foreign key.
QueryFails(t) ==
    /\ Queries(t)
    /\ Leave(t, "error")
    /\ UNCHANGED <<poolVars, tableVars>>

-----------------------------------------------------------------------------
(* The reply.  A streamed turn hands it over while its main context is     *)
(* live; a plain turn has cleaned up before.                               *)

\* Without an API key the sources are searched.  The router, when it is
\* enabled, picks a route for streamed turns only.
Route(t) ==
    /\ stage[t] = "route"
    /\ \/ Goto(t, "search") /\ UNCHANGED poolVars
       \/ Goto(t, "agent") /\ NewContext(Main(t))
       \/ /\ mode[t] = "streamed"
          /\ Goto(t, "sql") \/ Goto(t, "rag")
          /\ NewContext(Main(t))
    /\ UNCHANGED <<tableVars, mode, conv, reply, shown, told>>

\* done(path), after the last text.
Done(t, path) ==
    /\ reply' = [reply EXCEPT ![t] = path]
    /\ Goto(t, "persist")
    /\ UNCHANGED <<tableVars, mode, conv, told>>

Text(t) ==
    /\ stage[t] \in {"agent", "synthesize"} /\ mode[t] = "streamed"
    /\ shown[t] = None
    /\ Send(t, IF stage[t] = "agent" THEN "agent" ELSE "route")
    /\ UNCHANGED <<poolVars, tableVars, mode, stage, conv, reply, told>>

CallTool(t) ==
    \E n \in Connections :
        /\ t \in DatabaseTurns
        /\ \/ stage[t] = "agent" /\ StartCall(Main(t), n)
           \/ stage[t] = "sql" /\ made[Main(t)] = 0 /\ StartCall(Main(t), n)
           \/ stage[t] = "invoke" /\ StartCall(Fallback(t), n)
        /\ UNCHANGED <<tableVars, turnVars>>

\* A call that threw may have been reported to the model as its result.
AgentAnswers(t) ==
    /\ stage[t] = "agent"
    /\ CallsOf(Main(t)) = {}
    /\ Done(t, "agent")
    /\ IF mode[t] = "streamed" THEN UNCHANGED poolVars ELSE DestroyAll(Main(t))
    /\ UNCHANGED shown

\* The model, the recursion limit or a call that threw.  A streamed turn
\* runs the agent once more, a plain one searches.
AgentFails(t) ==
    /\ stage[t] = "agent" /\ CallsOf(Main(t)) = {}
    /\ IF mode[t] = "streamed"
       THEN Goto(t, "invoke") /\ NewContext(Fallback(t))
       ELSE Goto(t, "search") /\ DestroyAll(Main(t))
    /\ UNCHANGED <<tableVars, mode, conv, reply, shown, told>>

\* Mutant: the fallback's reply is not streamed.
InvokeAnswersSilently(t) ==
    /\ stage[t] = "invoke" /\ CallsOf(Fallback(t)) = {}
    /\ Done(t, "invoke")
    /\ DestroyAll(Fallback(t))
    /\ UNCHANGED shown

InvokeAnswers(t) ==
    /\ stage[t] = "invoke" /\ CallsOf(Fallback(t)) = {}
    /\ Send(t, "invoke") /\ Done(t, "invoke")
    /\ DestroyAll(Fallback(t))

InvokeFails(t) ==
    /\ stage[t] = "invoke" /\ CallsOf(Fallback(t)) = {}
    /\ Goto(t, "search")
    /\ DestroyAll(Fallback(t))
    /\ UNCHANGED <<tableVars, mode, conv, reply, shown, told>>

SearchAnswers(t) ==
    /\ stage[t] = "search"
    /\ Send(t, "search") /\ Done(t, "search")
    /\ UNCHANGED poolVars

\* A kind of source without a provider throws.
SearchFails(t) ==
    /\ stage[t] = "search"
    /\ Leave(t, "error")
    /\ UNCHANGED <<poolVars, tableVars>>

-----------------------------------------------------------------------------
(* The routes of the router.                                               *)

\* No database tool, a call that threw, or a search that threw.
RouteFails(t) ==
    /\ \/ /\ stage[t] = "sql" /\ CallsOf(Main(t)) = {}
          /\ \/ context[Main(t)] = "failed"
             \/ t \notin DatabaseTurns
       \/ stage[t] = "rag"
    /\ Done(t, "error")
    /\ UNCHANGED <<poolVars, shown>>

RouteSucceeds(t) ==
    /\ \/ /\ stage[t] = "sql" /\ made[Main(t)] = 1
          /\ CallsOf(Main(t)) = {} /\ context[Main(t)] # "failed"
       \/ stage[t] = "rag"
    /\ Goto(t, "synthesize")
    /\ UNCHANGED <<poolVars, tableVars, mode, conv, reply, shown, told>>

Synthesize(t) ==
    /\ stage[t] = "synthesize"
    /\ \/ Done(t, "route") /\ UNCHANGED shown
       \/ Done(t, "degraded") /\ Send(t, "degraded")
    /\ UNCHANGED poolVars

-----------------------------------------------------------------------------
(* The answer.                                                             *)

\* Mutant: a failed insert is logged and passed over.
PersistOrLog(t) ==
    /\ stage[t] = "persist"
    /\ Insert(conv[t], Answer(t)) \/ UNCHANGED tableVars
    /\ Goto(t, "reload")
    /\ UNCHANGED <<poolVars, mode, conv, reply, shown, told>>

Persist(t) ==
    /\ stage[t] = "persist"
    /\ Insert(conv[t], Answer(t))
    /\ Goto(t, "reload")
    /\ UNCHANGED <<poolVars, mode, conv, reply, shown, told>>

\* A plain turn answers 404 when its conversation is gone.
Reload(t) ==
    /\ stage[t] = "reload"
    /\ Leave(t, IF mode[t] = "streamed" \/ exists[conv[t]] = "yes"
                THEN "complete" ELSE "error")
    /\ UNCHANGED <<poolVars, tableVars>>

Cleanup(t) ==
    /\ stage[t] = "cleanup"
    /\ DestroyAll(Main(t)) /\ Over(t)
    /\ UNCHANGED <<tableVars, mode, conv, told>>

\* The turns of a process end with it; what they stored stays.
Restart ==
    /\ PoolsRestart
    /\ stage' = [t \in Turns |-> IF stage[t] = "idle" THEN "idle" ELSE "over"]
    /\ reply' = [t \in Turns |-> None]
    /\ shown' = [t \in Turns |-> None]
    /\ UNCHANGED <<tableVars, mode, conv, told>>

TurnStep(t) ==
    \/ Ask(t) \/ SetTitle(t) \/ QueryFails(t) \/ Route(t)
    \/ Text(t) \/ CallTool(t) \/ AgentAnswers(t) \/ AgentFails(t)
    \/ InvokeAnswers(t) \/ InvokeFails(t) \/ SearchAnswers(t) \/ SearchFails(t)
    \/ RouteFails(t) \/ RouteSucceeds(t) \/ Synthesize(t)
    \/ Persist(t) \/ Reload(t) \/ Cleanup(t)

PoolStep ==
    /\ \/ \E x \in Contexts : Resolve(x) \/ ResolveFails(x)
       \/ \E k \in Calls : CallStep(k)
       \/ \E p \in Pools : LateSettles(p)
    /\ UNCHANGED <<tableVars, turnVars>>

Next ==
    \/ \E c \in Conversations :
          \/ \E given \in {"none", "given"} : CreateConversation(c, given)
          \/ DeleteConversation(c)
          \/ \E t \in Turns : Begin(t, c)
    \/ \E t \in Turns : TurnStep(t)
    \/ PoolStep
    \/ Restart

Spec == Init /\ [][Next]_vars

\* The model answers or fails, connects time out, pools settle and queries
\* have a statement timeout: every promise a turn awaits settles.
Fairness ==
    /\ \A t \in Turns : WF_vars(TurnStep(t))
    /\ \A x \in Contexts :
          WF_vars((Resolve(x) \/ ResolveFails(x)) /\ UNCHANGED <<tableVars, turnVars>>)
    /\ \A k \in Calls : WF_vars(CallStep(k) /\ UNCHANGED <<tableVars, turnVars>>)
    /\ \A p \in Pools : WF_vars(LateSettles(p) /\ UNCHANGED <<tableVars, turnVars>>)

FairSpec == Spec /\ Fairness

-----------------------------------------------------------------------------
(* Properties.                                                             *)

TablesTypeOK ==
    /\ exists \in [Conversations -> {"no", "yes", "deleted"}]
    /\ title \in [Conversations -> Turns \cup {"none", "given"}]
    /\ messages \in [Conversations -> Seq(Messages)]
    /\ \A c \in Conversations : exists[c] # "yes" => messages[c] = <<>>

TurnsTypeOK ==
    /\ mode \in [Turns -> {"plain", "streamed"}]
    /\ stage \in [Turns -> Stages]
    /\ conv \in [Turns -> Conversations \cup {None}]
    /\ reply \in [Turns -> Paths \cup {None}]
    /\ shown \in [Turns -> Paths \cup {None}]
    /\ told \in [Turns -> {"nothing", "complete", "error"}]

\* The shape of the variables; messages belong to a conversation that exists.
TypeOK == PoolsTypeOK /\ TablesTypeOK /\ TurnsTypeOK

\* ADR 0001: the agent's pools die at the end of the request.  Whatever
\* fails on the way, timeouts, fallbacks and failed writes included, an open
\* pool belongs to a context that is still to be cleaned up.
PoolsEndWithTheirTurn ==
    \A p \in Pools :
        pool[p] # None /\ pool[p].state = "open" => Live(pool[p].ctx)

\* A query never runs on a pool that is closed, or belongs to another turn.
QueriesHaveTheirPool ==
    \A k \in Calls :
        At(k, "query") =>
            /\ pool[call[k].pool] = [ctx |-> call[k].ctx,
                                     conn |-> call[k].conn, state |-> "open"]

\* A transcript: each turn has at most one question and one answer, the
\* answer after the question.
Transcript ==
    \A c \in Conversations : \A i, j \in DOMAIN messages[c] :
        messages[c][i].turn = messages[c][j].turn /\ i < j
            => messages[c][i].role = "user" /\ messages[c][j].role = "assistant"

\* A client told that its turn is complete finds question and answer in the
\* conversation for as long as it exists, and a title.
CompleteIsStored ==
    \A t \in Turns :
        told[t] = "complete" /\ exists[conv[t]] = "yes" =>
            /\ Stored(conv[t], Question(t)) /\ Stored(conv[t], Answer(t))
            /\ title[conv[t]] # "none"

\* The text a client of a streamed turn saw last is the whole answer that is
\* stored, except for errors of a route and replies without text.
AnswerIsStreamed ==
    \A t \in Turns :
        mode[t] = "streamed" /\ reply[t] \notin {None, "error"}
            => shown[t] \in {None, reply[t]}

\* Turns and their pools end: the service is idle again and again.
TurnsEnd ==
    []<>(/\ \A t \in Turns : stage[t] \in {"idle", "over"}
         /\ \A p \in Pools : pool[p] = None)

-----------------------------------------------------------------------------
(* Inductive invariants.                                                   *)

\* Which contexts a turn has, and where it waits for tool calls.
HasContexts(t) ==
    /\ stage[t] # "idle" => conv[t] \in Conversations
    /\ Live(Main(t)) => stage[t] \in
          {"agent", "sql", "rag", "synthesize", "invoke", "search",
           "persist", "reload", "cleanup"}
    /\ Live(Fallback(t)) => stage[t] = "invoke"
    /\ CallsOf(Main(t)) # {} => stage[t] \in {"agent", "sql"}
    /\ CallsOf(Fallback(t)) # {} => stage[t] = "invoke"

StagesHaveContexts == \A t \in Turns : HasContexts(t)

Answering == {"route", "agent", "sql", "rag", "synthesize", "invoke", "search",
              "persist", "reload"}

\* A turn writes to its own conversation, and each message at its own stage.
MessagesInPlace ==
    \A c \in Conversations : \A i \in DOMAIN messages[c] :
        LET m == messages[c][i] IN
            /\ conv[m.turn] = c
            /\ stage[m.turn] \notin {"idle", "ask", "askFirst"}
            /\ m.role = "assistant" => stage[m.turn] \in {"reload", "cleanup", "over"}

\* What a conversation holds of a turn, for as long as it exists.
HasStored(t) ==
    /\ told[t] = "complete" => stage[t] \in {"cleanup", "over"}
    /\ stage[t] # "idle" => exists[conv[t]] # "no"
    /\ stage[t] # "idle" /\ exists[conv[t]] = "yes" =>
          /\ stage[t] \in Answering \cup {"title"} \/ told[t] = "complete"
                => Stored(conv[t], Question(t))
          /\ stage[t] \in Answering \cup {"ask"} \/ told[t] = "complete"
                => title[conv[t]] # "none"
          /\ stage[t] = "reload" \/ told[t] = "complete"
                => Stored(conv[t], Answer(t))

StagesHaveStored == \A t \in Turns : HasStored(t)

\* What a turn has sent by the time it has a reply.
HasShown(t) ==
    /\ stage[t] \notin {"persist", "reload", "cleanup"} => reply[t] = None
    /\ mode[t] = "streamed" /\ reply[t] \notin {None, "error"}
          => shown[t] \in {None, reply[t]}
    /\ stage[t] \in {"idle", "ask", "askFirst", "title", "route", "sql", "rag"}
          => shown[t] = None
    /\ stage[t] = "agent" => shown[t] \in {None, "agent"}
    /\ stage[t] = "synthesize" => shown[t] \in {None, "route"}

StagesHaveShown == \A t \in Turns : HasShown(t)
=============================================================================
