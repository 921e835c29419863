-------------------------- MODULE AgentLoopProofs --------------------------
(***************************************************************************)
(* Proofs about AgentLoop, for any histories, answers of the model, tools  *)
(* and number of turns.                                                    *)
(***************************************************************************)
EXTENDS AgentLoop, TLAPS

-----------------------------------------------------------------------------
(* The inductive invariant *)

Working == {"asked", "tool", "answered"}

\* What is sent is well formed at any time.  Between an answer that asks for tools and the message
\* that answers it, the results are a prefix of what was asked, a whole one only when all is answered.
MessagesInv ==
  /\ messages # <<>> /\ WellFormed(messages)
  /\ pc \in {"call", "streaming"} => messages[Len(messages)].role = "user"
  /\ pc \in Working =>
       /\ messages[Len(messages)].role = "assistant"
       /\ Len(results) <= Len(Asked)
       /\ \A n \in 1 .. Len(results) : results[n] = Asked[n]
  /\ pc \in {"asked", "tool"} => Len(results) < Len(Asked)

\* How the last event tells where the loop is.
LastEventInv ==
  /\ pc \in {"asked", "tool"} => events # <<>> /\ events[Len(events)] = ToolUse(Current)
  /\ pc \in {"call", "streaming", "answered"} /\ events # <<>> =>
       events[Len(events)].type \in {"text", "tool_result"}

IInv == AgentTypeOK /\ MessagesInv /\ LastEventInv /\ StreamTellsTheStory /\ RunsAreTold

-----------------------------------------------------------------------------
(* Sequences that grow *)

LEMMA Grown ==
  ASSUME NEW S, NEW s \in Seq(S), NEW e \in S
  PROVE  /\ Append(s, e) \in Seq(S)
         /\ Append(s, e) # <<>>
         /\ Len(s) \in Nat
         /\ Len(Append(s, e)) = Len(s) + 1
         /\ Append(s, e)[Len(s) + 1] = e
         /\ \A n \in 1 .. Len(s) : Append(s, e)[n] = s[n]
         /\ s # <<>> => Len(s) > 0
  OBVIOUS

\* A message that answers the last one.
LEMMA ConversationGrows ==
  ASSUME NEW ms \in Seq(Message), NEW m \in Message, WellFormed(ms), ms # <<>>,
         ms[Len(ms)].role # m.role,
         ms[Len(ms)].role = "assistant" => m.blocks = ms[Len(ms)].blocks
  PROVE  WellFormed(Append(ms, m))
<1> DEFINE grown == Append(ms, m)
<1>1. /\ Len(ms) \in Nat /\ Len(ms) > 0 /\ Len(grown) = Len(ms) + 1
      /\ grown[Len(ms) + 1] = m
      /\ \A n \in 1 .. Len(ms) : grown[n] = ms[n]
  BY Grown
<1> HIDE DEF grown
<1>2. Len(grown) > 0 => grown[1].role = "user"
  BY <1>1 DEF WellFormed
<1>3. ASSUME NEW n \in 1 .. Len(grown) - 1
      PROVE  /\ grown[n].role # grown[n + 1].role
             /\ grown[n].role = "assistant" => grown[n + 1].blocks = grown[n].blocks
  <2>1. CASE n = Len(ms)
    BY <1>1, <2>1
  <2>2. CASE n \in 1 .. Len(ms) - 1
    <3>1. n \in 1 .. Len(ms) /\ n + 1 \in 1 .. Len(ms)
      BY <1>1, <2>2
    <3> QED
      BY <1>1, <2>2, <3>1 DEF WellFormed
  <2> QED
    BY <1>1, <2>1, <2>2
<1>4. WellFormed(grown)
  BY <1>2, <1>3 DEF WellFormed
<1> QED
  BY <1>4 DEF grown

\* What StreamTellsTheStory says of the events alone.
Story(es) ==
  /\ \A n \in 1 .. Len(es) - 1 :
       /\ ~Terminal(es[n])
       /\ es[n].type = "tool_use" <=> es[n + 1].type = "tool_result"
       /\ es[n].type = "tool_use" => es[n + 1].blocks = es[n].blocks
  /\ es # <<>> => es[1].type # "tool_result"

\* An event that may follow the last one.
LEMMA StoryGoesOn ==
  ASSUME NEW es \in Seq(Event), NEW e \in Event, Story(es),
         es = <<>> => e.type # "tool_result",
         es # <<>> => LET last == es[Len(es)] IN
                        /\ ~Terminal(last)
                        /\ last.type = "tool_use" <=> e.type = "tool_result"
                        /\ last.type = "tool_use" => e.blocks = last.blocks
  PROVE  Story(Append(es, e))
<1> DEFINE grown == Append(es, e)
<1>1. /\ Len(es) \in Nat /\ Len(grown) = Len(es) + 1
      /\ grown[Len(es) + 1] = e
      /\ \A n \in 1 .. Len(es) : grown[n] = es[n]
      /\ es # <<>> => Len(es) > 0
  BY Grown
<1>2. es = <<>> => Len(es) = 0
  OBVIOUS
<1> HIDE DEF grown
<1>3. grown[1].type # "tool_result"
  BY <1>1, <1>2 DEF Story
<1>4. ASSUME NEW n \in 1 .. Len(grown) - 1
      PROVE  /\ ~Terminal(grown[n])
             /\ grown[n].type = "tool_use" <=> grown[n + 1].type = "tool_result"
             /\ grown[n].type = "tool_use" => grown[n + 1].blocks = grown[n].blocks
  <2>1. CASE n = Len(es)
    BY <1>1, <1>2, <2>1
  <2>2. CASE n \in 1 .. Len(es) - 1
    <3>1. n \in 1 .. Len(es) /\ n + 1 \in 1 .. Len(es)
      BY <1>1, <2>2
    <3> QED
      BY <1>1, <2>2, <3>1 DEF Story
  <2> QED
    BY <1>1, <2>1, <2>2
<1>5. Story(grown)
  BY <1>3, <1>4 DEF Story
<1> QED
  BY <1>5 DEF grown

\* What RunsAreTold says, of any runs and events.
Told(rs, es) ==
  /\ \A b \in rs : \E n \in 1 .. Len(es) : es[n] = ToolUse(b)
  /\ \A n \in 1 .. Len(es) :
       es[n].type = "tool_result" /\ es[n].ok /\ es[n].blocks[1].name = "trigger_run"
       => es[n].blocks[1] \in rs

LEMMA StillTold ==
  ASSUME NEW es \in Seq(Event), NEW e \in Event, NEW rs, NEW more, Told(rs, es), rs \subseteq more,
         \A b \in more \ rs : \E n \in 1 .. Len(es) : es[n] = ToolUse(b),
         e.type = "tool_result" /\ e.ok /\ e.blocks[1].name = "trigger_run" => e.blocks[1] \in more
  PROVE  Told(more, Append(es, e))
<1> DEFINE grown == Append(es, e)
<1>1. /\ Len(es) \in Nat /\ Len(grown) = Len(es) + 1
      /\ grown[Len(es) + 1] = e
      /\ \A n \in 1 .. Len(es) : grown[n] = es[n]
  BY Grown
<1> HIDE DEF grown
<1>2. ASSUME NEW b \in more PROVE \E n \in 1 .. Len(grown) : grown[n] = ToolUse(b)
  <2>1. PICK n \in 1 .. Len(es) : es[n] = ToolUse(b)
    BY DEF Told
  <2>2. n \in 1 .. Len(grown) /\ grown[n] = ToolUse(b)
    BY <1>1, <2>1
  <2> QED
    BY <2>2
<1>3. ASSUME NEW n \in 1 .. Len(grown),
             grown[n].type = "tool_result", grown[n].ok, grown[n].blocks[1].name = "trigger_run"
      PROVE  grown[n].blocks[1] \in more
  <2>1. CASE n = Len(es) + 1
    BY <1>1, <1>3, <2>1
  <2>2. CASE n \in 1 .. Len(es)
    BY <1>1, <1>3, <2>2 DEF Told
  <2> QED
    BY <1>1, <2>1, <2>2
<1>4. Told(more, grown)
  BY <1>2, <1>3 DEF Told
<1> QED
  BY <1>4 DEF grown

-----------------------------------------------------------------------------
(* What is said is typed *)

LEMMA Messages ==
  ASSUME NEW blocks \in Seq(Blocks)
  PROVE  /\ User(blocks) \in Message /\ User(blocks).role = "user" /\ User(blocks).blocks = blocks
         /\ Assistant(blocks) \in Message /\ Assistant(blocks).role = "assistant"
         /\ Assistant(blocks).blocks = blocks
  BY DEF User, Assistant, Message

LEMMA Events ==
  /\ \A t \in {"text", "done", "error"} : Said(t) \in Event /\ Said(t).type = t
  /\ \A b \in Blocks :
       /\ ToolUse(b) \in Event /\ ToolUse(b).type = "tool_use" /\ ToolUse(b).blocks = <<b>>
       /\ \A ok \in BOOLEAN :
            /\ ToolResult(b, ok) \in Event /\ ToolResult(b, ok).type = "tool_result"
            /\ ToolResult(b, ok).ok = ok /\ ToolResult(b, ok).blocks = <<b>>
  BY DEF Said, ToolUse, ToolResult, Event

LEMMA Typed ==
  ASSUME IInv
  PROVE  /\ messages \in Seq(Message) /\ Len(messages) \in Nat /\ Len(messages) > 0
         /\ messages[Len(messages)] \in Message
         /\ Asked \in Seq(Blocks) /\ Len(Asked) \in Nat
         /\ results \in Seq(Blocks) /\ Len(results) \in Nat
         /\ events \in Seq(Event) /\ Len(events) \in Nat
         /\ events # <<>> => Len(events) > 0
         /\ turn \in 1 .. MaxTurns /\ MaxTurns \in Nat
         /\ Story(events) /\ Told(runs, events)
<1>1. messages \in Seq(Message) /\ messages # <<>> /\ results \in Seq(Blocks) /\ events \in Seq(Event)
  BY DEF IInv, AgentTypeOK, MessagesInv
<1>2. Len(messages) \in Nat /\ Len(messages) > 0 /\ messages[Len(messages)] \in Message
  BY <1>1
<1>3. Asked \in Seq(Blocks)
  BY <1>2 DEF Asked, Message
<1>4. Len(Asked) \in Nat /\ Len(results) \in Nat /\ Len(events) \in Nat /\ (events # <<>> => Len(events) > 0)
  BY <1>1, <1>3
<1>5. Story(events) /\ Told(runs, events)
  BY DEF IInv, StreamTellsTheStory, RunsAreTold, Story, Told
<1> QED
  BY <1>1, <1>2, <1>3, <1>4, <1>5, AgentAssumption DEF IInv, AgentTypeOK

LEMMA CurrentIsABlock == ASSUME IInv, Len(results) < Len(Asked) PROVE Current \in Blocks
<1>1. Asked \in Seq(Blocks) /\ Len(results) + 1 \in 1 .. Len(Asked)
  BY Typed
<1> QED
  BY <1>1 DEF Current

-----------------------------------------------------------------------------
(* What the steps have in common *)

LEMMA NotEndedYet ==
  ASSUME IInv, pc # "ended"
  PROVE  raised = FALSE /\ (events # <<>> => ~Terminal(events[Len(events)]))
  BY DEF IInv, AgentTypeOK, StreamTellsTheStory

LEMMA InvariantFrom ==
  ASSUME AgentTypeOK', MessagesInv', LastEventInv', Story(events)', Told(runs, events)',
         (pc = "ended" <=> raised \/ (events # <<>> /\ Terminal(events[Len(events)])))'
  PROVE  IInv'
  BY DEF IInv, StreamTellsTheStory, RunsAreTold, Story, Told

\* An event other than a tool's result, while none is awaited.
LEMMA SaysMore ==
  ASSUME IInv, pc \in {"call", "answered"}, NEW e \in Event, e.type # "tool_result",
         Yield(e), runs' = runs
  PROVE  /\ events' \in Seq(Event) /\ events' # <<>> /\ events'[Len(events')] = e
         /\ Story(events)' /\ Told(runs, events)'
<1>1. events' = Append(events, e)
  BY DEF Yield
<1>2. events' \in Seq(Event) /\ events' # <<>> /\ events'[Len(events')] = e
  BY <1>1, Typed, Grown
<1>3. events # <<>> => /\ ~Terminal(events[Len(events)])
                      /\ events[Len(events)].type \in {"text", "tool_result"}
  BY NotEndedYet DEF IInv, LastEventInv
<1>4. Story(Append(events, e))
  BY <1>3, Typed, StoryGoesOn
<1>5. Told(runs, Append(events, e))
  BY Typed, StillTold
<1> QED
  BY <1>1, <1>2, <1>4, <1>5

\* Nothing is said, and nothing is started.
LEMMA SaysNothing ==
  ASSUME IInv, UNCHANGED <<events, runs>>
  PROVE  Story(events)' /\ Told(runs, events)'
  BY Typed DEF Story, Told

\* A message is added to the conversation.
LEMMA Says ==
  ASSUME IInv, NEW m \in Message, messages' = Append(messages, m),
         messages[Len(messages)].role # m.role,
         messages[Len(messages)].role = "assistant" => m.blocks = Asked
  PROVE  /\ messages' \in Seq(Message) /\ messages' # <<>> /\ WellFormed(messages)'
         /\ messages'[Len(messages')] = m
<1>1. WellFormed(Append(messages, m))
  BY Typed, ConversationGrows DEF IInv, MessagesInv, Asked
<1>2. Len(messages') = Len(messages) + 1 /\ messages'[Len(messages) + 1] = m
      /\ messages' \in Seq(Message) /\ messages' # <<>>
  BY Typed, Grown
<1> QED
  BY <1>1, <1>2

\* When all is answered, the results are what was asked.
LEMMA AllAnswered ==
  ASSUME IInv, pc = "answered", Len(results) >= Len(Asked)
  PROVE  results = Asked
<1>1. /\ results \in Seq(Blocks) /\ Asked \in Seq(Blocks)
      /\ Len(results) = Len(Asked)
      /\ \A n \in 1 .. Len(results) : results[n] = Asked[n]
  BY Typed DEF IInv, MessagesInv, Working
<1> QED
  BY <1>1

-----------------------------------------------------------------------------
(* Action by action *)

LEMMA InitIInv == AgentInit => IInv
<1> SUFFICES ASSUME AgentInit PROVE IInv
  OBVIOUS
<1>1. PICK h \in Histories : messages = Append(h, User(<<>>))
  BY DEF AgentInit
<1>2. <<>> \in Seq(Blocks)
  OBVIOUS
<1>3. /\ User(<<>>) \in Message /\ User(<<>>).role = "user" /\ User(<<>>).blocks = <<>>
      /\ Assistant(<<>>).role = "assistant" /\ Assistant(<<>>).blocks = <<>>
  BY <1>2, Messages
<1>4. h \in Seq(Message) /\ WellFormed(h) /\ (Len(h) > 0 => h[Len(h)] = Assistant(<<>>))
  BY HistoryAssumption
<1>5. /\ messages \in Seq(Message) /\ messages # <<>> /\ WellFormed(messages)
      /\ messages[Len(messages)] = User(<<>>)
  <2>1. Len(messages) = Len(h) + 1 /\ messages[Len(h) + 1] = User(<<>>)
        /\ messages \in Seq(Message) /\ messages # <<>>
    BY <1>1, <1>3, <1>4, Grown
  <2>2. CASE h = <<>>
    BY <1>3, <2>1, <2>2 DEF WellFormed
  <2>3. CASE h # <<>>
    <3>1. h[Len(h)] = Assistant(<<>>)
      BY <1>4, <2>3
    <3> QED
      BY <1>1, <1>3, <1>4, <2>1, <2>3, <3>1, ConversationGrows
  <2> QED
    BY <2>2, <2>3
<1>6. AgentTypeOK
  <2>1. <<>> \in Seq(Event) /\ 1 \in 1 .. MaxTurns
    BY AgentAssumption
  <2>2. results \in Seq(Blocks) /\ events \in Seq(Event) /\ turn \in 1 .. MaxTurns
    BY <1>2, <2>1 DEF AgentInit
  <2> QED
    BY <1>5, <2>2 DEF AgentInit, AgentTypeOK
<1>7. MessagesInv /\ LastEventInv
  BY <1>3, <1>5 DEF AgentInit, MessagesInv, LastEventInv, Working
<1>8. StreamTellsTheStory /\ RunsAreTold
  BY DEF AgentInit, StreamTellsTheStory, RunsAreTold
<1> QED
  BY <1>6, <1>7, <1>8 DEF IInv

LEMMA StreamsStep == ASSUME IInv, Streams PROVE IInv'
<1> DEFINE e == Said("text")
<1>1. e \in Event /\ e.type = "text"
  BY Events
<1> HIDE DEF e
<1>2. /\ events' \in Seq(Event) /\ events' # <<>> /\ events'[Len(events')] = e
      /\ Story(events)' /\ Told(runs, events)'
  BY <1>1, SaysMore DEF Streams, e
<1>3. AgentTypeOK'
  BY <1>2 DEF Streams, IInv, AgentTypeOK
<1>4. MessagesInv' /\ LastEventInv'
  BY <1>1, <1>2 DEF Streams, IInv, MessagesInv, LastEventInv, WellFormed, Working
<1>5. (pc = "ended" <=> raised \/ (events # <<>> /\ Terminal(events[Len(events)])))'
  BY <1>1, <1>2, NotEndedYet DEF Streams, Terminal
<1> QED
  BY <1>2, <1>3, <1>4, <1>5, InvariantFrom

LEMMA ResumesStep == ASSUME IInv, Resumes PROVE IInv'
<1>1. Story(events)' /\ Told(runs, events)'
  BY SaysNothing DEF Resumes
<1>2. AgentTypeOK'
  BY DEF Resumes, IInv, AgentTypeOK
<1>3. MessagesInv' /\ LastEventInv'
  BY DEF Resumes, IInv, MessagesInv, LastEventInv, WellFormed, Working
<1>4. (pc = "ended" <=> raised \/ (events # <<>> /\ Terminal(events[Len(events)])))'
  BY NotEndedYet DEF Resumes
<1> QED
  BY <1>1, <1>2, <1>3, <1>4, InvariantFrom

LEMMA FinishesStep == ASSUME IInv, Finishes PROVE IInv'
<1> DEFINE e == Said("done")
<1>1. e \in Event /\ e.type = "done"
  BY Events
<1> HIDE DEF e
<1>2. PICK blocks \in Seq(Blocks) : messages' = Append(messages, Assistant(blocks))
  <2>1. PICK blocks \in Answers \cup {<<>>} : messages' = Append(messages, Assistant(blocks))
    BY DEF Finishes
  <2>2. <<>> \in Seq(Blocks)
    OBVIOUS
  <2>3. blocks \in Answers => blocks \in Seq(Blocks)
    BY AgentAssumption
  <2>4. blocks = <<>> => blocks \in Seq(Blocks)
    BY <2>2, Zenon
  <2> QED
    BY <2>1, <2>3, <2>4
<1>3. Assistant(blocks) \in Message /\ Assistant(blocks).role = "assistant"
  BY Messages
<1>4. messages[Len(messages)].role = "user"
  BY DEF Finishes, IInv, MessagesInv
<1>5. messages' \in Seq(Message) /\ messages' # <<>> /\ WellFormed(messages)'
  BY <1>2, <1>3, <1>4, Says
<1>6. /\ events' \in Seq(Event) /\ events' # <<>> /\ events'[Len(events')] = e
      /\ Story(events)' /\ Told(runs, events)'
  BY <1>1, SaysMore DEF Finishes, e
<1>7. AgentTypeOK'
  BY <1>5, <1>6 DEF Finishes, IInv, AgentTypeOK
<1>8. MessagesInv' /\ LastEventInv'
  BY <1>5 DEF Finishes, MessagesInv, LastEventInv, Working
<1>9. (pc = "ended" <=> raised \/ (events # <<>> /\ Terminal(events[Len(events)])))'
  BY <1>1, <1>6 DEF Finishes, Terminal
<1> QED
  BY <1>6, <1>7, <1>8, <1>9, InvariantFrom

LEMMA AsksForToolsStep == ASSUME IInv, AsksForTools PROVE IInv'
<1>1. PICK blocks \in Answers : /\ blocks # <<>>
                               /\ messages' = Append(messages, Assistant(blocks))
                               /\ Yield(ToolUse(blocks[1]))
  BY DEF AsksForTools
<1>2. blocks \in Seq(Blocks) /\ Len(blocks) \in Nat /\ Len(blocks) > 0 /\ blocks[1] \in Blocks
  BY <1>1, AgentAssumption
<1>3. /\ Assistant(blocks) \in Message /\ Assistant(blocks).role = "assistant"
      /\ Assistant(blocks).blocks = blocks
  BY <1>2, Messages
<1>4. messages[Len(messages)].role = "user"
  BY DEF AsksForTools, IInv, MessagesInv
<1>5. /\ messages' \in Seq(Message) /\ messages' # <<>> /\ WellFormed(messages)'
      /\ messages'[Len(messages')] = Assistant(blocks)
  BY <1>1, <1>3, <1>4, Says
<1> DEFINE e == ToolUse(blocks[1])
<1>6. e \in Event /\ e.type = "tool_use"
  BY <1>2, Events
<1> HIDE DEF e
<1>7. /\ events' \in Seq(Event) /\ events' # <<>> /\ events'[Len(events')] = e
      /\ Story(events)' /\ Told(runs, events)'
  BY <1>1, <1>6, SaysMore DEF AsksForTools, e
<1>8. results' = <<>> /\ Len(results') = 0 /\ pc' = "asked" /\ UNCHANGED raised
  BY DEF AsksForTools
<1>9. AgentTypeOK'
  BY <1>5, <1>7, <1>8 DEF AsksForTools, IInv, AgentTypeOK
<1>10. Asked' = blocks /\ Current' = blocks[1]
  BY <1>3, <1>5, <1>8 DEF Asked, Current
<1>11. MessagesInv'
  BY <1>2, <1>3, <1>5, <1>8, <1>10 DEF MessagesInv, Working
<1>12. LastEventInv'
  BY <1>7, <1>8, <1>10 DEF LastEventInv, e
<1>13. (pc = "ended" <=> raised \/ (events # <<>> /\ Terminal(events[Len(events)])))'
  BY <1>6, <1>7, <1>8, NotEndedYet DEF AsksForTools, Terminal
<1> QED
  BY <1>7, <1>9, <1>11, <1>12, <1>13, InvariantFrom

LEMMA NoFinalStep == ASSUME IInv, NoFinal PROVE IInv'
<1> DEFINE e == Said("error")
<1>1. e \in Event /\ e.type = "error"
  BY Events
<1> HIDE DEF e
<1>2. /\ events' \in Seq(Event) /\ events' # <<>> /\ events'[Len(events')] = e
      /\ Story(events)' /\ Told(runs, events)'
  BY <1>1, SaysMore DEF NoFinal, e
<1>3. AgentTypeOK'
  BY <1>2 DEF NoFinal, IInv, AgentTypeOK
<1>4. MessagesInv' /\ LastEventInv'
  BY DEF NoFinal, IInv, MessagesInv, LastEventInv, WellFormed, Working
<1>5. (pc = "ended" <=> raised \/ (events # <<>> /\ Terminal(events[Len(events)])))'
  BY <1>1, <1>2 DEF NoFinal, Terminal
<1> QED
  BY <1>2, <1>3, <1>4, <1>5, InvariantFrom

LEMMA ModelRaisesStep == ASSUME IInv, ModelRaises PROVE IInv'
<1>1. Story(events)' /\ Told(runs, events)'
  BY SaysNothing DEF ModelRaises
<1>2. AgentTypeOK'
  BY DEF ModelRaises, IInv, AgentTypeOK
<1>3. MessagesInv' /\ LastEventInv'
  BY DEF ModelRaises, IInv, MessagesInv, LastEventInv, WellFormed, Working
<1>4. (pc = "ended" <=> raised \/ (events # <<>> /\ Terminal(events[Len(events)])))'
  BY DEF ModelRaises
<1> QED
  BY <1>1, <1>2, <1>3, <1>4, InvariantFrom

LEMMA DispatchesStep == ASSUME IInv, Dispatches PROVE IInv'
<1>1. Story(events)' /\ Told(runs, events)'
  BY SaysNothing DEF Dispatches
<1>2. AgentTypeOK'
  BY DEF Dispatches, IInv, AgentTypeOK
<1>3. MessagesInv' /\ LastEventInv'
  BY DEF Dispatches, IInv, MessagesInv, LastEventInv, WellFormed, Working, Asked, Current
<1>4. (pc = "ended" <=> raised \/ (events # <<>> /\ Terminal(events[Len(events)])))'
  BY NotEndedYet DEF Dispatches
<1> QED
  BY <1>1, <1>2, <1>3, <1>4, InvariantFrom

\* A tool's result, good or bad.  Only a good one says that there is a run.
LEMMA AnswerStep ==
  ASSUME IInv, pc = "tool", NEW ok \in BOOLEAN,
         runs' \in {runs, runs \cup {Current}},
         ok /\ Current.name = "trigger_run" => Current \in runs',
         Yield(ToolResult(Current, ok)),
         results' = Append(results, Current),
         pc' = "answered",
         UNCHANGED <<impl, messages, turn, raised, client>>
  PROVE  IInv'
<1> DEFINE b == Current
           e == ToolResult(b, ok)
<1>1. Len(results) < Len(Asked)
  BY DEF IInv, MessagesInv
<1>2. b \in Blocks
  BY <1>1, CurrentIsABlock
<1>3. events # <<>> /\ events[Len(events)] = ToolUse(b)
  BY DEF IInv, LastEventInv
<1>4. /\ ToolUse(b).type = "tool_use" /\ ToolUse(b).blocks = <<b>>
      /\ e \in Event /\ e.type = "tool_result" /\ e.ok = ok /\ e.blocks = <<b>>
  BY <1>2, Events
<1>5. events' = Append(events, e)
  BY DEF Yield
<1>6. events' \in Seq(Event) /\ events' # <<>> /\ events'[Len(events')] = e
  <2>1. events \in Seq(Event) /\ e \in Event
    BY <1>4, Typed
  <2> HIDE DEF e
  <2> QED
    BY <1>5, <2>1, Grown
<1>7. Asked' = Asked /\ results' = Append(results, b) /\ runs' \in {runs, runs \cup {b}}
      /\ (ok /\ b.name = "trigger_run" => b \in runs')
  BY DEF Asked
<1>8. b = Asked[Len(results) + 1]
  BY DEF Current
<1> HIDE DEF b, e
<1>9. Story(Append(events, e))
  <2>1. ~Terminal(events[Len(events)])
    BY <1>3, <1>4 DEF Terminal
  <2> QED
    BY <1>3, <1>4, <2>1, Typed, StoryGoesOn
<1>10. Told(runs', Append(events, e))
  <2>1. \A c \in runs' \ runs : \E n \in 1 .. Len(events) : events[n] = ToolUse(c)
    <3>1. Len(events) \in 1 .. Len(events)
      BY <1>3, Typed
    <3> QED
      BY <1>3, <1>7, <3>1
  <2>2. runs \subseteq runs'
    BY <1>7
  <2>3. e.type = "tool_result" /\ e.ok /\ e.blocks[1].name = "trigger_run" => e.blocks[1] \in runs'
    BY <1>4, <1>7
  <2> QED
    BY <1>4, <2>1, <2>2, <2>3, Typed, StillTold
<1>11. /\ results' \in Seq(Blocks) /\ Len(results') = Len(results) + 1
       /\ results'[Len(results) + 1] = b
       /\ \A n \in 1 .. Len(results) : results'[n] = results[n]
  BY <1>2, <1>7, Typed, Grown
<1>12. AgentTypeOK'
  BY <1>2, <1>6, <1>7, <1>11 DEF IInv, AgentTypeOK
<1>13. MessagesInv'
  <2>1. Len(results') <= Len(Asked')
    BY <1>1, <1>7, <1>11, Typed
  <2>2. \A n \in 1 .. Len(results') : results'[n] = Asked'[n]
    <3> SUFFICES ASSUME NEW n \in 1 .. Len(results') PROVE results'[n] = Asked[n]
      BY <1>7
    <3>1. n = Len(results) + 1 \/ n \in 1 .. Len(results)
      BY <1>11, Typed
    <3> QED
      BY <1>8, <1>11, <3>1 DEF IInv, MessagesInv, Working
  <2> QED
    BY <2>1, <2>2 DEF IInv, MessagesInv, WellFormed, Working
<1>14. LastEventInv'
  BY <1>4, <1>6 DEF LastEventInv
<1>15. (pc = "ended" <=> raised \/ (events # <<>> /\ Terminal(events[Len(events)])))'
  BY <1>4, <1>6, NotEndedYet DEF Terminal
<1> QED
  BY <1>5, <1>9, <1>10, <1>12, <1>13, <1>14, <1>15, InvariantFrom

LEMMA ToolReturnsStep == ASSUME IInv, ToolReturns PROVE IInv'
<1>1. runs' \in {runs, runs \cup {Current}}
      /\ (Current.name = "trigger_run" => Current \in runs')
  BY DEF ToolReturns, Starts
<1> QED
  BY <1>1, AnswerStep DEF ToolReturns

LEMMA ToolRaisesStep == ASSUME IInv, ToolRaises PROVE IInv'
<1>1. runs' \in {runs, runs \cup {Current}}
  BY DEF ToolRaises
<1> QED
  BY <1>1, AnswerStep DEF ToolRaises

LEMMA AsksNextStep == ASSUME IInv, AsksNext PROVE IInv'
<1> DEFINE e == ToolUse(Current)
<1>1. Current \in Blocks
  BY CurrentIsABlock DEF AsksNext
<1>2. e \in Event /\ e.type = "tool_use"
  BY <1>1, Events
<1> HIDE DEF e
<1>3. /\ events' \in Seq(Event) /\ events' # <<>> /\ events'[Len(events')] = e
      /\ Story(events)' /\ Told(runs, events)'
  BY <1>2, SaysMore DEF AsksNext, e
<1>4. Asked' = Asked /\ Current' = Current
  BY DEF AsksNext, Asked, Current
<1>5. AgentTypeOK'
  BY <1>3 DEF AsksNext, IInv, AgentTypeOK
<1>6. MessagesInv'
  BY <1>4 DEF AsksNext, IInv, MessagesInv, WellFormed, Working
<1>7. LastEventInv'
  BY <1>3, <1>4 DEF AsksNext, LastEventInv, e
<1>8. (pc = "ended" <=> raised \/ (events # <<>> /\ Terminal(events[Len(events)])))'
  BY <1>2, <1>3, NotEndedYet DEF AsksNext, Terminal
<1> QED
  BY <1>3, <1>5, <1>6, <1>7, <1>8, InvariantFrom

\* The message that answers all that was asked.
LEMMA AnswersAll ==
  ASSUME IInv, pc = "answered", Len(results) >= Len(Asked), messages' = Append(messages, User(results))
  PROVE  /\ messages' \in Seq(Message) /\ messages' # <<>> /\ WellFormed(messages)'
         /\ messages'[Len(messages')].role = "user"
<1>1. results \in Seq(Blocks) /\ results = Asked
  BY Typed, AllAnswered
<1>2. User(results) \in Message /\ User(results).role = "user" /\ User(results).blocks = Asked
  BY <1>1, Messages
<1>3. messages[Len(messages)].role = "assistant"
  BY DEF IInv, MessagesInv, Working
<1> QED
  BY <1>2, <1>3, Says

LEMMA CallsAgainStep == ASSUME IInv, CallsAgain PROVE IInv'
<1>1. /\ messages' \in Seq(Message) /\ messages' # <<>> /\ WellFormed(messages)'
      /\ messages'[Len(messages')].role = "user"
  BY AnswersAll DEF CallsAgain
<1>2. turn' \in 1 .. MaxTurns
  BY Typed DEF CallsAgain
<1>3. Story(events)' /\ Told(runs, events)'
  BY SaysNothing DEF CallsAgain
<1>4. AgentTypeOK'
  BY <1>1, <1>2 DEF CallsAgain, IInv, AgentTypeOK
<1>5. MessagesInv' /\ LastEventInv'
  BY <1>1 DEF CallsAgain, IInv, MessagesInv, LastEventInv, Working
<1>6. (pc = "ended" <=> raised \/ (events # <<>> /\ Terminal(events[Len(events)])))'
  BY NotEndedYet DEF CallsAgain
<1> QED
  BY <1>3, <1>4, <1>5, <1>6, InvariantFrom

LEMMA GivesUpStep == ASSUME IInv, GivesUp PROVE IInv'
<1> DEFINE e == Said("error")
<1>1. e \in Event /\ e.type = "error"
  BY Events
<1> HIDE DEF e
<1>2. messages' \in Seq(Message) /\ messages' # <<>> /\ WellFormed(messages)'
  BY AnswersAll DEF GivesUp
<1>3. /\ events' \in Seq(Event) /\ events' # <<>> /\ events'[Len(events')] = e
      /\ Story(events)' /\ Told(runs, events)'
  BY <1>1, SaysMore DEF GivesUp, e
<1>4. AgentTypeOK'
  BY <1>2, <1>3 DEF GivesUp, IInv, AgentTypeOK
<1>5. MessagesInv' /\ LastEventInv'
  BY <1>2 DEF GivesUp, MessagesInv, LastEventInv, Working
<1>6. (pc = "ended" <=> raised \/ (events # <<>> /\ Terminal(events[Len(events)])))'
  BY <1>1, <1>3 DEF GivesUp, Terminal
<1> QED
  BY <1>3, <1>4, <1>5, <1>6, InvariantFrom

LEMMA ClientLeavesStep == ASSUME IInv, ClientLeaves \/ UNCHANGED agentVars PROVE IInv'
<1>1. UNCHANGED <<impl, messages, turn, results, events, pc, raised, runs>> /\ client' \in {client, "gone"}
  BY DEF ClientLeaves, agentVars
<1>2. Story(events)' /\ Told(runs, events)'
  BY <1>1, SaysNothing
<1>3. AgentTypeOK'
  BY <1>1 DEF IInv, AgentTypeOK
<1>4. MessagesInv' /\ LastEventInv'
  BY <1>1 DEF IInv, MessagesInv, LastEventInv, WellFormed, Working, Asked, Current
<1>5. (pc = "ended" <=> raised \/ (events # <<>> /\ Terminal(events[Len(events)])))'
  BY <1>1 DEF IInv, StreamTellsTheStory
<1> QED
  BY <1>2, <1>3, <1>4, <1>5, InvariantFrom

LEMMA NextStep == IInv /\ [AgentNext]_agentVars => IInv'
  BY StreamsStep, ResumesStep, FinishesStep, AsksForToolsStep, NoFinalStep, ModelRaisesStep,
     DispatchesStep, ToolReturnsStep, ToolRaisesStep, AsksNextStep, CallsAgainStep, GivesUpStep,
     ClientLeavesStep
  DEF AgentNext, LoopStep

-----------------------------------------------------------------------------
(* The theorems *)

LEMMA InvariantHolds == AgentSpec => []IInv
  BY InitIInv, NextStep, PTL DEF AgentSpec

\* The state has its type, whatever the model and the tools answer.
THEOREM AgentTypeCorrect == AgentSpec => []AgentTypeOK
  BY InvariantHolds, PTL DEF IInv

\* Any number of turns, tools and failures of tools: what the loop sends to the model has alternating
\* roles, and each tool_use has its tool_result in the next message.
THEOREM RequestsAreWellFormed == AgentSpec => []RequestIsWellFormed
<1>1. IInv => RequestIsWellFormed
  BY DEF IInv, MessagesInv, RequestIsWellFormed
<1> QED
  BY <1>1, InvariantHolds, PTL

\* The events of a turn are whole tool calls and text, up to one terminal event, the last.
THEOREM StreamIsAStory == AgentSpec => []StreamTellsTheStory
  BY InvariantHolds, PTL DEF IInv

\* A run that a turn has started was announced as a tool call before, and one that is reported was started.
THEOREM EveryRunIsTold == AgentSpec => []RunsAreTold
  BY InvariantHolds, PTL DEF IInv
=============================================================================
