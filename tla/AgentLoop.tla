----------------------------- MODULE AgentLoop -----------------------------
(***************************************************************************)
(* The chat agent: one user turn, from POST /chat to the last event of its *)
(* stream.  The Python service and its TypeScript port run the same loop:  *)
(* call the model, announce and dispatch each tool it asks for, answer it  *)
(* with the results, and again, for at most MaxTurns calls.                *)
(*                                                                         *)
(* The loop is a generator: it runs only while its consumer, the SSE       *)
(* handler, waits for the next event.  When the client leaves, the Python  *)
(* handler is cancelled and no longer pulls (what it is waiting for still  *)
(* runs up to its next event, in a thread); the TypeScript handler writes  *)
(* on into the void.                                                       *)
(*                                                                         *)
(* A message is its role and the tool_use or tool_result blocks in it.     *)
(***************************************************************************)
EXTENDS Integers, Sequences

CONSTANTS
    Impls,          \* of the implementations "py" and "ts"
    Histories,      \* the earlier messages a client may send along
    Blocks,         \* tool_use blocks, each with the name of its tool
    Answers,        \* the sequences of blocks in an answer of the model
    MaxTurns        \* max_turns

Message == [role : {"user", "assistant"}, blocks : Seq(Blocks)]
User(blocks) == [role |-> "user", blocks |-> blocks]
Assistant(blocks) == [role |-> "assistant", blocks |-> blocks]

\* What the model's API accepts: the user starts, roles alternate, and the blocks of an answer
\* are answered in the next message, all of them, in order.
WellFormed(ms) ==
    /\ Len(ms) > 0 => ms[1].role = "user"
    /\ \A n \in 1 .. Len(ms) - 1 :
        /\ ms[n].role # ms[n + 1].role
        /\ ms[n].role = "assistant" => ms[n + 1].blocks = ms[n].blocks

ASSUME AgentAssumption ==
    /\ Impls \subseteq {"py", "ts"}
    /\ Blocks \subseteq [id : Nat, name : STRING]
    /\ Answers \subseteq Seq(Blocks)
    /\ MaxTurns \in Nat \ {0}

\* A client sends whole exchanges: they end with an answer, and hold no open tool call.
ASSUME HistoryAssumption ==
    \A h \in Histories :
        /\ h \in Seq(Message) /\ WellFormed(h)
        /\ Len(h) > 0 => h[Len(h)] = Assistant(<<>>)

VARIABLES
    impl,
    messages,
    turn,
    results,    \* the blocks of the current answer that are answered
    events,     \* what the loop has yielded
    pc,         \* running: call, tool; suspended at a yield: streaming, asked, answered; or ended
    raised,     \* the model call has raised an exception, which ends the generator
    client,     \* open or gone
    runs        \* the blocks that have started a run

agentVars == <<impl, messages, turn, results, events, pc, raised, client, runs>>

Event == [type : {"text", "tool_use", "tool_result", "done", "error"}, blocks : Seq(Blocks), ok : BOOLEAN]
Said(type) == [type |-> type, blocks |-> <<>>, ok |-> TRUE]
ToolUse(b) == [type |-> "tool_use", blocks |-> <<b>>, ok |-> TRUE]
ToolResult(b, ok) == [type |-> "tool_result", blocks |-> <<b>>, ok |-> ok]
Terminal(e) == e.type \in {"done", "error"}

AgentTypeOK ==
    /\ impl \in Impls
    /\ messages \in Seq(Message)
    /\ turn \in 1 .. MaxTurns
    /\ results \in Seq(Blocks)
    /\ events \in Seq(Event)
    /\ pc \in {"call", "tool", "streaming", "asked", "answered", "ended"}
    /\ raised \in BOOLEAN
    /\ client \in {"open", "gone"}
    /\ runs \subseteq Blocks

AgentInit ==
    /\ impl \in Impls
    /\ \E h \in Histories : messages = Append(h, User(<<>>))
    /\ turn = 1
    /\ results = <<>>
    /\ events = <<>>
    /\ pc = "call"
    /\ raised = FALSE
    /\ client = "open"
    /\ runs = {}

-----------------------------------------------------------------------------
(* Helpers *)

\* The answer being worked on, and its block that comes next.
Asked == messages[Len(messages)].blocks
Current == Asked[Len(results) + 1]

Yield(event) == events' = Append(events, event)

\* Mutated Pulled: neither handler outlives its client.
PulledByClient == client = "open"

\* The SSE handler waits for the next event.
Pulled == client = "open" \/ impl = "ts"

\* What can be dispatched: the port leaves out the runs.
PyTools == {"list_influencers", "list_ratings", "list_recent_signals", "trigger_run", "get_run",
            "list_digests", "get_digest", "search_signals"}
TsTools == {"list_influencers", "list_ratings", "list_recent_signals", "list_digests", "get_digest",
            "search_signals"}
Toolbox == IF impl = "py" THEN PyTools ELSE TsTools

-----------------------------------------------------------------------------
(* The model *)

\* A text delta (one per call is enough to hold the answer up).
Streams ==
    /\ pc = "call"
    /\ events # <<>> => events[Len(events)].type # "text"
    /\ Yield(Said("text"))
    /\ pc' = "streaming"
    /\ UNCHANGED <<impl, messages, turn, results, raised, client, runs>>

Resumes ==
    /\ pc = "streaming" /\ Pulled
    /\ pc' = "call"
    /\ UNCHANGED <<impl, messages, turn, results, events, raised, client, runs>>

\* The final message stops for another reason than a tool (max_tokens may cut one off).
Finishes ==
    /\ pc = "call"
    /\ \E blocks \in Answers \cup {<<>>} : messages' = Append(messages, Assistant(blocks))
    /\ Yield(Said("done"))
    /\ pc' = "ended"
    /\ UNCHANGED <<impl, turn, results, raised, client, runs>>

\* It stops for its tools, and the first of them is announced.
AsksForTools ==
    /\ pc = "call"
    /\ \E blocks \in Answers :
        /\ blocks # <<>>
        /\ messages' = Append(messages, Assistant(blocks))
        /\ Yield(ToolUse(blocks[1]))
    /\ results' = <<>>
    /\ pc' = "asked"
    /\ UNCHANGED <<impl, turn, raised, client, runs>>

NoFinal ==
    /\ pc = "call"
    /\ Yield(Said("error"))
    /\ pc' = "ended"
    /\ UNCHANGED <<impl, messages, turn, results, raised, client, runs>>

\* The call itself fails: nothing catches it, and the stream just ends.
ModelRaises ==
    /\ pc = "call"
    /\ raised' = TRUE
    /\ pc' = "ended"
    /\ UNCHANGED <<impl, messages, turn, results, events, client, runs>>

-----------------------------------------------------------------------------
(* The tools *)

Dispatches ==
    /\ pc = "asked" /\ Pulled
    /\ pc' = "tool"
    /\ UNCHANGED <<impl, messages, turn, results, events, raised, client, runs>>

\* The API's answer to POST /runs, after which the run is there.
Starts == Current.name = "trigger_run" /\ Current.name \in Toolbox

ToolReturns ==
    /\ pc = "tool"
    /\ Current.name \in Toolbox
    /\ runs' = IF Starts THEN runs \cup {Current} ELSE runs
    /\ Yield(ToolResult(Current, TRUE))
    /\ results' = Append(results, Current)
    /\ pc' = "answered"
    /\ UNCHANGED <<impl, messages, turn, raised, client>>

\* Mutated ToolRaises: ok is not reset.
ToolRaisesOk ==
    /\ pc = "tool"
    /\ runs' \in {runs} \cup (IF Starts THEN {runs \cup {Current}} ELSE {})
    /\ Yield(ToolResult(Current, TRUE))
    /\ results' = Append(results, Current)
    /\ pc' = "answered"
    /\ UNCHANGED <<impl, messages, turn, raised, client>>

\* An unknown tool, an HTTP error, or a timeout, which a run may have been started before.
ToolRaises ==
    /\ pc = "tool"
    /\ runs' \in {runs} \cup (IF Starts THEN {runs \cup {Current}} ELSE {})
    /\ Yield(ToolResult(Current, FALSE))
    /\ results' = Append(results, Current)
    /\ pc' = "answered"
    /\ UNCHANGED <<impl, messages, turn, raised, client>>

\* Mutated AsksNext: the next tool is announced in place of the last one's successor.
AsksNextAgain ==
    /\ pc = "answered" /\ Pulled
    /\ Len(results) < Len(Asked)
    /\ Yield(ToolUse(Asked[Len(results)]))
    /\ pc' = "asked"
    /\ UNCHANGED <<impl, messages, turn, results, raised, client, runs>>

AsksNext ==
    /\ pc = "answered" /\ Pulled
    /\ Len(results) < Len(Asked)
    /\ Yield(ToolUse(Current))
    /\ pc' = "asked"
    /\ UNCHANGED <<impl, messages, turn, results, raised, client, runs>>

\* Mutated CallsAgain: one turn too many.
CallsOnceMore ==
    /\ pc = "answered" /\ Pulled
    /\ Len(results) >= Len(Asked)
    /\ turn <= MaxTurns
    /\ messages' = Append(messages, User(results))
    /\ turn' = turn + 1
    /\ pc' = "call"
    /\ UNCHANGED <<impl, results, events, raised, client, runs>>

\* Mutated CallsAgain: the results are not sent along.
CallsUnanswered ==
    /\ pc = "answered" /\ Pulled
    /\ Len(results) >= Len(Asked)
    /\ turn < MaxTurns
    /\ messages' = messages
    /\ turn' = turn + 1
    /\ pc' = "call"
    /\ UNCHANGED <<impl, results, events, raised, client, runs>>

\* All are answered: the results go to the model.
CallsAgain ==
    /\ pc = "answered" /\ Pulled
    /\ Len(results) >= Len(Asked)
    /\ turn < MaxTurns
    /\ messages' = Append(messages, User(results))
    /\ turn' = turn + 1
    /\ pc' = "call"
    /\ UNCHANGED <<impl, results, events, raised, client, runs>>

\* Or not, after the last turn, whose tools have taken effect all the same.
GivesUp ==
    /\ pc = "answered" /\ Pulled
    /\ Len(results) >= Len(Asked)
    /\ turn = MaxTurns
    /\ messages' = Append(messages, User(results))
    /\ Yield(Said("error"))
    /\ pc' = "ended"
    /\ UNCHANGED <<impl, turn, results, raised, client, runs>>

ClientLeaves ==
    /\ client = "open"
    /\ client' = "gone"
    /\ UNCHANGED <<impl, messages, turn, results, events, pc, raised, runs>>

-----------------------------------------------------------------------------
(* The specification *)

LoopStep ==
    \/ Streams \/ Resumes \/ Finishes \/ AsksForTools \/ NoFinal \/ ModelRaises
    \/ Dispatches \/ ToolReturns \/ ToolRaises \/ AsksNext \/ CallsAgain \/ GivesUp

AgentNext == LoopStep \/ ClientLeaves

\* The model and the tools answer or time out, and the handler pulls on.
AgentSpec == AgentInit /\ [][AgentNext]_agentVars /\ WF_agentVars(LoopStep)

-----------------------------------------------------------------------------
(* Properties *)

\* Whatever the tools did, the model is never sent a request that its API refuses: each tool_use
\* of an answer has its tool_result in the next message, also when the tool has raised.
RequestIsWellFormed == pc = "call" => WellFormed(messages) /\ messages[Len(messages)].role = "user"

\* The stream is a sequence of whole tool calls: each is announced, then answered, before the next,
\* and a terminal event is the last one; only a raised exception ends it without.
StreamTellsTheStory ==
    /\ \A n \in 1 .. Len(events) - 1 :
        /\ ~Terminal(events[n])
        /\ events[n].type = "tool_use" <=> events[n + 1].type = "tool_result"
        /\ events[n].type = "tool_use" => events[n + 1].blocks = events[n].blocks
    /\ events # <<>> => events[1].type # "tool_result"
    /\ pc = "ended" <=> raised \/ (events # <<>> /\ Terminal(events[Len(events)]))

\* A run is started only by a tool call that the client has been told of, and a call that is
\* reported to have worked has started one.  (A failed one may have, too.)
RunsAreTold ==
    /\ \A b \in runs : \E n \in 1 .. Len(events) : events[n] = ToolUse(b)
    /\ \A n \in 1 .. Len(events) :
        events[n].type = "tool_result" /\ events[n].ok /\ events[n].blocks[1].name = "trigger_run"
        => events[n].blocks[1] \in runs

\* Every turn comes to its end, however many tools the model asks for; only the Python loop is left
\* where it is when its client has gone.
EveryTurnEnds == <>(pc = "ended" \/ (impl = "py" /\ client = "gone"))
=============================================================================
