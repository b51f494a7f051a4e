--------------------------- MODULE AgentStreamProofs ---------------------------
(***************************************************************************)
(* Theorems about AgentStream, for any tools, step budget, number of tool  *)
(* uses and faults: what the coordinator sends to the model, what it       *)
(* leaves in the table and in its plan, and what the console shows of it.  *)
(***************************************************************************)
EXTENDS AgentStream, FiniteSetTheorems, TLAPS

AgentStep == Begin \/ Advance \/ Cancel

-------------------------------------------------------------------------------
\* The types of the coordinator's state.

\* While a call is executed its tool use is still at the head of todo, and in a conversation
\* its record is the last one of the log.
AtWork ==
  /\ pc \in {"tool", "scripted"} => todo # <<>>
  /\ pc = "tool" => tool_calls # <<>>

AgentTyped == AgentTypeOK /\ AtWork

LEMMA EventType ==
  /\ \A type \in Kinds : Event(type) \in Events
  /\ \A id \in Nat : [Event("tool_call") EXCEPT !.id = id] \in Events
  /\ \A use \in Uses, outcome \in Outcomes : Result(use, outcome) \in Events
BY DEF Event, Events, Kinds, Result, Uses

\* What is yielded in a step or two is a stream of events again.
LEMMA EmitType ==
  ASSUME AgentTypeOK, NEW e \in Events, NEW f \in Events, Emit(<<e>>) \/ Emit(<<e, f>>)
  PROVE  events' \in Seq(Events)
<1>1. <<e>> \in Seq(Events) /\ <<e, f>> \in Seq(Events)
  OBVIOUS
<1>2. events \o <<e>> \in Seq(Events) /\ events \o <<e, f>> \in Seq(Events)
  BY <1>1 DEF AgentTypeOK
<1> QED
  BY <1>2 DEF Emit

\* A plan made of the log is a plan.
LEMMA ActionsType ==
  ASSUME NEW calls \in Seq(Calls)
  PROVE  ActionsOf(calls) \in Seq(Actions)
<1>1. \A n \in 1..Len(calls) : calls[n].name \in Tools \cup {Unknown}
  <2>1. \A n \in 1..Len(calls) : calls[n] \in Calls
    OBVIOUS
  <2> QED
    BY <2>1 DEF Calls
<1>2. \A n \in 1..Len(calls) :
        [name |-> calls[n].name, ok |-> calls[n].outcome = "ok"] \in Actions
  BY <1>1 DEF Actions
<1> QED
  BY <1>2 DEF ActionsOf

LEMMA AgentTypedInit == AgentInit => AgentTyped
<1> SUFFICES ASSUME AgentInit PROVE AgentTyped
  OBVIOUS
<1>1. pc \in Points /\ pc = "new" /\ mode \in {"llm", "deterministic"} /\ max_steps \in 1..MaxSteps
  BY DEF AgentInit, Points
<1>2. constraints \subseteq {"supplier", "hubs"}
  BY DEF AgentInit
<1>3. 0 \in 0..max_steps
  BY <1>1, AgentAssumption
<1>4. NoPlan \in Plans /\ NoRow \in Rows
  <2>1. NoPlan \in Plans
    BY DEF NoPlan, Plans
  <2> QED
    BY <2>1 DEF NoRow, Rows
<1>5. /\ todo \in Seq(Uses) /\ tool_results \in Seq(Nat) /\ messages \in Seq(Turns)
      /\ tool_calls \in Seq(Calls) /\ events \in Seq(Events)
  BY DEF AgentInit
<1>6. AgentTypeOK
  BY <1>1, <1>2, <1>3, <1>4, <1>5 DEF AgentInit, AgentTypeOK
<1> QED
  BY <1>1, <1>6 DEF AgentTyped, AtWork

\* What is left of todo, and what its head is.
LEMMA Todo ==
  ASSUME AgentTyped, todo # <<>>
  PROVE  /\ Head(todo) \in Uses /\ Tail(todo) \in Seq(Uses)
         /\ Head(todo).id \in Nat /\ Head(todo).name \in Tools \cup {Unknown}
<1>1. Head(todo) \in Uses /\ Tail(todo) \in Seq(Uses)
  BY DEF AgentTyped, AgentTypeOK
<1> QED
  BY <1>1 DEF Uses

LEMMA BeginTyped == ASSUME AgentTyped, Begin PROVE AgentTyped'
<1> USE DEF AgentTyped, Begin, request
<1>1. Event("started") \in Events /\ Event("thought") \in Events
  BY EventType DEF Kinds
<1>2. CASE mode = "llm"
  <2>1. GoalTurn \in Turns
    BY DEF GoalTurn, Turns
  <2>2. messages' \in Seq(Turns)
    <3>1. messages' = <<GoalTurn>>
      BY <1>2
    <3>2. <<GoalTurn>> \in Seq(Turns)
      BY <2>1
    <3> QED
      BY <3>1, <3>2
  <2>3. events' \in Seq(Events)
    BY <1>1, <1>2, EmitType
  <2> QED
    BY <1>2, <2>2, <2>3 DEF AgentTypeOK, AtWork, Points
<1>3. CASE mode # "llm"
  <2>1. Script \in Seq(Uses)
    <3>1. /\ [id |-> 1, name |-> "forecast_supplier"] \in Uses
          /\ [id |-> 2, name |-> "optimize_route"] \in Uses
      BY AgentAssumption DEF Uses
    <3> QED
      BY <3>1 DEF Script
  <2>2. events' \in Seq(Events)
    BY <1>1, <1>3, EmitType
  <2> QED
    BY <1>3, <2>1, <2>2 DEF AgentTypeOK, AtWork, Points
<1> QED
  BY <1>2, <1>3

LEMMA StepTyped == ASSUME AgentTyped, Step PROVE AgentTyped'
<1>1. step_count' \in 0..max_steps
  BY AgentAssumption DEF AgentTyped, AgentTypeOK, Step
<1>2. events' \in Seq(Events)
  BY EventType DEF AgentTyped, AgentTypeOK, Step, Emit, Kinds
<1> QED
  BY <1>1, <1>2 DEF AgentTyped, AgentTypeOK, AtWork, Step, request, Points

LEMMA ReplyWithPlanTyped == ASSUME AgentTyped, ReplyWithPlan PROVE AgentTyped'
<1>1. plan' \in Plans
  BY DEF ReplyWithPlan, Plans
<1>2. AssistantTurn(<<>>) \in Turns
  BY DEF AssistantTurn, Turns
<1>3. messages' \in Seq(Turns)
  BY <1>2 DEF AgentTyped, AgentTypeOK, ReplyWithPlan
<1>4. events' \in Seq(Events)
  <2>1. Event("thought") \in Events /\ Event("plan") \in Events
    BY EventType DEF Kinds
  <2> QED
    BY <2>1, EmitType DEF AgentTyped, ReplyWithPlan
<1> QED
  BY <1>1, <1>3, <1>4 DEF AgentTyped, AgentTypeOK, AtWork, ReplyWithPlan, request, Points

\* The tool uses of a reply, numbered on from the calls logged.
Numbered(n, names) == [m \in 1..n |-> [id |-> Len(tool_calls) + m, name |-> names[m]]]

LEMMA RepliedUses ==
  ASSUME AgentTyped, ReplyWithTools
  PROVE  \E n \in Nat : \E names \in [1..n -> Asked] :
           /\ Numbered(n, names) \in Seq(Uses) /\ Len(Numbered(n, names)) = n
           /\ todo' = Numbered(n, names)
           /\ messages' = Append(messages, AssistantTurn(Numbered(n, names)))
<1>1. PICK n \in 1..(MaxCalls - Len(tool_calls)) : \E names \in [1..n -> Asked] :
           /\ todo' = Numbered(n, names)
           /\ messages' = Append(messages, AssistantTurn(Numbered(n, names)))
  BY DEF ReplyWithTools, Numbered
<1>2. PICK names \in [1..n -> Asked] :
           /\ todo' = Numbered(n, names)
           /\ messages' = Append(messages, AssistantTurn(Numbered(n, names)))
  BY <1>1
<1>3. Len(tool_calls) \in Nat /\ MaxCalls \in Nat /\ n \in Nat
  BY AgentAssumption DEF AgentTyped, AgentTypeOK
<1>4. \A m \in 1..n : [id |-> Len(tool_calls) + m, name |-> names[m]] \in Uses
  BY <1>3, AgentAssumption DEF Uses
<1>5. Numbered(n, names) \in Seq(Uses) /\ Len(Numbered(n, names)) = n
  BY <1>3, <1>4 DEF Numbered
<1> QED
  BY <1>2, <1>3, <1>5

LEMMA ReplyWithToolsTyped == ASSUME AgentTyped, ReplyWithTools PROVE AgentTyped'
<1>1. PICK us \in Seq(Uses) : todo' = us /\ messages' = Append(messages, AssistantTurn(us))
  BY RepliedUses
<1>2. AssistantTurn(us) \in Turns
  BY DEF AssistantTurn, Turns
<1>3. messages' \in Seq(Turns)
  BY <1>1, <1>2 DEF AgentTyped, AgentTypeOK
<1>4. events' \in Seq(Events)
  BY EventType DEF AgentTyped, AgentTypeOK, ReplyWithTools, Emit, Kinds
<1> QED
  BY <1>1, <1>3, <1>4 DEF AgentTyped, AgentTypeOK, AtWork, ReplyWithTools, request, Points

LEMMA ChatFailsTyped == ASSUME AgentTyped, ChatFails PROVE AgentTyped'
<1>1. events' \in Seq(Events)
  BY EventType DEF AgentTyped, AgentTypeOK, ChatFails, Emit, Kinds
<1> QED
  BY <1>1 DEF AgentTyped, AgentTypeOK, AtWork, ChatFails, request, Points

LEMMA CallToolTyped == ASSUME AgentTyped, CallTool PROVE AgentTyped'
<1>1. todo # <<>> /\ Head(todo).id \in Nat /\ Head(todo).name \in Tools \cup {Unknown}
  BY Todo DEF CallTool
<1>2. [id |-> Head(todo).id, name |-> Head(todo).name, outcome |-> "running"] \in Calls
  BY <1>1 DEF Calls
<1>3. tool_calls' \in Seq(Calls) /\ tool_calls' # <<>>
  BY <1>2 DEF AgentTyped, AgentTypeOK, CallTool
<1>4. events' \in Seq(Events)
  BY <1>1, EventType DEF AgentTyped, AgentTypeOK, CallTool, Emit
<1> QED
  BY <1>1, <1>3, <1>4 DEF AgentTyped, AgentTypeOK, AtWork, CallTool, request, Points

\* The outcome of the call under way goes into the last record of the log.
LEMMA ReturnedLog ==
  ASSUME AgentTyped, NEW outcome \in Outcomes, ToolReturns(outcome)
  PROVE  /\ tool_calls' \in Seq(Calls) /\ Len(tool_calls') = Len(tool_calls)
         /\ Len(tool_calls) \in Nat \ {0}
         /\ \A n \in 1..Len(tool_calls) :
              /\ tool_calls'[n].id = tool_calls[n].id
              /\ n # Len(tool_calls) => tool_calls'[n] = tool_calls[n]
              /\ n = Len(tool_calls) => tool_calls'[n].outcome = outcome
<1> DEFINE c == [tool_calls[Len(tool_calls)] EXCEPT !.outcome = outcome]
<1>1. tool_calls \in Seq(Calls) /\ tool_calls # <<>>
  BY DEF AgentTyped, AgentTypeOK, AtWork, ToolReturns
<1>2. Len(tool_calls) \in Nat \ {0} /\ tool_calls[Len(tool_calls)] \in Calls
  BY <1>1
<1>3. c \in Calls /\ c.id = tool_calls[Len(tool_calls)].id /\ c.outcome = outcome
  BY <1>2 DEF Calls
<1>4. tool_calls' = [tool_calls EXCEPT ![Len(tool_calls)] = c]
  BY DEF ToolReturns
<1> HIDE DEF c
<1> QED
  BY <1>1, <1>2, <1>3, <1>4

LEMMA ToolReturnsTyped ==
  ASSUME AgentTyped, NEW outcome \in Outcomes, ToolReturns(outcome)
  PROVE  AgentTyped'
<1>1. /\ Head(todo) \in Uses /\ Tail(todo) \in Seq(Uses) /\ Head(todo).id \in Nat
  BY Todo DEF AgentTyped, AtWork, ToolReturns
<1>2. tool_results' \in Seq(Nat)
  BY <1>1 DEF AgentTyped, AgentTypeOK, ToolReturns
<1>3. events' \in Seq(Events)
  BY <1>1, EventType DEF AgentTyped, AgentTypeOK, ToolReturns, Emit
<1>4. tool_calls' \in Seq(Calls)
  BY ReturnedLog
<1> QED
  BY <1>1, <1>2, <1>3, <1>4
     DEF AgentTyped, AgentTypeOK, AtWork, ToolReturns, request, Points

LEMMA EndTurnTyped == ASSUME AgentTyped, EndTurn PROVE AgentTyped'
<1>1. ResultsTurn(tool_results) \in Turns
  BY DEF AgentTyped, AgentTypeOK, ResultsTurn, Turns
<1>2. messages' \in Seq(Turns)
  BY <1>1 DEF AgentTyped, AgentTypeOK, EndTurn
<1> QED
  BY <1>2 DEF AgentTyped, AgentTypeOK, AtWork, EndTurn, request, Points

LEMMA PlansTyped == ASSUME AgentTyped, SynthesizePlan \/ ScriptPlan PROVE AgentTyped'
<1>1. ActionsOf(tool_calls) \in Seq(Actions)
  BY ActionsType DEF AgentTyped, AgentTypeOK
<1>2. plan' \in Plans
  BY <1>1 DEF SynthesizePlan, ScriptPlan, Plans
<1>3. events' \in Seq(Events)
  <2>1. Event("step") \in Events /\ Event("plan") \in Events
    BY EventType DEF Kinds
  <2> QED
    BY <2>1, EmitType DEF AgentTyped, SynthesizePlan, ScriptPlan
<1> QED
  BY <1>2, <1>3
     DEF AgentTyped, AgentTypeOK, AtWork, SynthesizePlan, ScriptPlan, request, Points

LEMMA ScriptCallTyped == ASSUME AgentTyped, ScriptCall PROVE AgentTyped'
<1>1. todo # <<>> /\ Head(todo).id \in Nat
  BY Todo DEF ScriptCall
<1>2. events' \in Seq(Events)
  BY <1>1, EventType DEF AgentTyped, AgentTypeOK, ScriptCall, Emit
<1> QED
  BY <1>1, <1>2 DEF AgentTyped, AgentTypeOK, AtWork, ScriptCall, request, Points

LEMMA ScriptReturnsTyped ==
  ASSUME AgentTyped, NEW outcome \in Outcomes, ScriptReturns(outcome)
  PROVE  AgentTyped'
<1>1. /\ Head(todo) \in Uses /\ Tail(todo) \in Seq(Uses)
      /\ Head(todo).id \in Nat /\ Head(todo).name \in Tools \cup {Unknown}
  BY Todo DEF AgentTyped, AtWork, ScriptReturns
<1>2. [id |-> Head(todo).id, name |-> Head(todo).name, outcome |-> "ok"] \in Calls
  BY <1>1, AgentAssumption DEF Calls
<1>3. tool_calls' \in Seq(Calls)
  BY <1>2 DEF AgentTyped, AgentTypeOK, ScriptReturns
<1>4. events' \in Seq(Events)
  BY <1>1, EventType DEF AgentTyped, AgentTypeOK, ScriptReturns, Emit
<1> QED
  BY <1>1, <1>3, <1>4 DEF AgentTyped, AgentTypeOK, AtWork, ScriptReturns, request, Points

LEMMA EndTyped == ASSUME AgentTyped, Persist \/ Done \/ Cancel PROVE AgentTyped'
<1>1. Status \in {"none", "completed", "error", "running"}
  BY DEF Status
<1>2. [status |-> Status, plan |-> plan] \in Rows
  BY <1>1 DEF AgentTyped, AgentTypeOK, Rows
<1>3. row' \in Rows
  BY <1>2 DEF AgentTyped, AgentTypeOK, Persist, Done, Cancel
<1>4. events' \in Seq(Events)
  <2>1. Event("warn") \in Events /\ Event("done") \in Events
    BY EventType DEF Kinds
  <2>2. events' = events \/ Emit(<<Event("warn")>>) \/ Emit(<<Event("done")>>)
    BY DEF Persist, Done, Cancel
  <2> QED
    BY <2>1, <2>2, EmitType DEF AgentTyped, AgentTypeOK
<1>5. pc' \in Points /\ pc' \notin {"tool", "scripted"}
  BY DEF Persist, Done, Cancel, Points
<1> QED
  BY <1>3, <1>4, <1>5 DEF AgentTyped, AgentTypeOK, AtWork, Persist, Done, Cancel, request

LEMMA AgentTypedStep == AgentTyped /\ AgentStep => AgentTyped'
BY BeginTyped, StepTyped, ReplyWithPlanTyped, ReplyWithToolsTyped, ChatFailsTyped, CallToolTyped,
   ToolReturnsTyped, EndTurnTyped, PlansTyped, ScriptCallTyped, ScriptReturnsTyped, EndTyped
   DEF AgentStep, Advance

-------------------------------------------------------------------------------
\* The conversation with the model.

Ids(us) == [m \in 1..Len(us) |-> us[m].id]

\* User and assistant alternate, and results answer the tool uses of the message before.
Alternates(ms) ==
  \A n \in 1..Len(ms) : ms[n].role = IF n % 2 = 1 THEN "user" ELSE "assistant"
Answers(ms) ==
  \A n \in 2..Len(ms) : ms[n].role = "user" => ms[n].results = Ids(ms[n - 1].uses)

\* In the middle of a turn the last message is the model's, and its tool uses are those
\* answered so far followed by those to do.
InTurn ==
  /\ Len(messages) > 0 /\ Len(messages) % 2 = 0
  /\ LET uses == messages[Len(messages)].uses
     IN  /\ Len(uses) = Len(tool_results) + Len(todo)
         /\ \A m \in 1..Len(tool_results) : uses[m].id = tool_results[m]
         /\ \A m \in 1..Len(todo) : uses[Len(tool_results) + m].id = todo[m].id

Talk ==
  /\ Alternates(messages) /\ Answers(messages)
  /\ pc = "new" => messages = <<>>
  /\ pc \in {"loop", "chat"} => Len(messages) % 2 = 1
  /\ pc \in {"turn", "tool"} => InTurn

\* The model's message comes after a user's.
LEMMA AssistantSpeaks ==
  ASSUME NEW ms \in Seq(Turns), Alternates(ms), Answers(ms), Len(ms) % 2 = 1, NEW us \in Seq(Uses)
  PROVE  LET ns == Append(ms, AssistantTurn(us))
         IN  /\ Alternates(ns) /\ Answers(ns) /\ Len(ns) = Len(ms) + 1
             /\ Len(ns) > 0 /\ Len(ns) % 2 = 0 /\ ns[Len(ns)].uses = us
<1> DEFINE t == AssistantTurn(us)
           ns == Append(ms, t)
<1>1. t.role = "assistant" /\ t.uses = us
  BY DEF AssistantTurn
<1> HIDE DEF t
<1>2. Len(ns) = Len(ms) + 1 /\ ns[Len(ms) + 1] = t /\ \A n \in 1..Len(ms) : ns[n] = ms[n]
  OBVIOUS
<1>3. Len(ms) \in Nat /\ (Len(ms) + 1) % 2 = 0
  OBVIOUS
<1> HIDE DEF ns
<1>4. \A n \in 1..Len(ns) : n \in 1..Len(ms) \/ n = Len(ms) + 1
  BY <1>2, <1>3
<1>5. Alternates(ns)
  BY <1>1, <1>2, <1>3, <1>4 DEF Alternates
<1>6. Answers(ns)
  <2>1. SUFFICES ASSUME NEW n \in 2..Len(ns), ns[n].role = "user"
                 PROVE  ns[n].results = Ids(ns[n - 1].uses)
    BY DEF Answers
  <2>2. n \in 2..Len(ms)
    BY <1>1, <1>2, <1>3, <1>4, <2>1
  <2>3. ns[n] = ms[n] /\ ns[n - 1] = ms[n - 1]
    BY <1>2, <1>3, <2>2
  <2> QED
    BY <2>1, <2>2, <2>3 DEF Answers
<1> QED
  BY <1>1, <1>2, <1>3, <1>5, <1>6 DEF ns, t

\* Results answer the model's message before them.
LEMMA UserAnswers ==
  ASSUME NEW ms \in Seq(Turns), Alternates(ms), Answers(ms), Len(ms) % 2 = 0, Len(ms) > 0,
         NEW ids \in Seq(Nat), ids = Ids(ms[Len(ms)].uses)
  PROVE  LET ns == Append(ms, ResultsTurn(ids))
         IN  Alternates(ns) /\ Answers(ns) /\ Len(ns) % 2 = 1
<1> DEFINE t == ResultsTurn(ids)
           ns == Append(ms, t)
<1>1. t.role = "user" /\ t.results = ids
  BY DEF ResultsTurn
<1> HIDE DEF t
<1>2. Len(ns) = Len(ms) + 1 /\ ns[Len(ms) + 1] = t /\ \A n \in 1..Len(ms) : ns[n] = ms[n]
  OBVIOUS
<1>3. Len(ms) \in Nat /\ (Len(ms) + 1) % 2 = 1
  OBVIOUS
<1> HIDE DEF ns
<1>4. \A n \in 1..Len(ns) : n \in 1..Len(ms) \/ n = Len(ms) + 1
  BY <1>2, <1>3
<1>5. Alternates(ns)
  BY <1>1, <1>2, <1>3, <1>4 DEF Alternates
<1>6. Answers(ns)
  <2>1. SUFFICES ASSUME NEW n \in 2..Len(ns), ns[n].role = "user"
                 PROVE  ns[n].results = Ids(ns[n - 1].uses)
    BY DEF Answers
  <2>2. CASE n \in 2..Len(ms)
    <3>1. ns[n] = ms[n] /\ ns[n - 1] = ms[n - 1]
      BY <1>2, <1>3, <2>2
    <3> QED
      BY <2>1, <2>2, <3>1 DEF Answers
  <2>3. CASE n = Len(ms) + 1
    <3>1. ns[n] = t /\ ns[n - 1] = ms[Len(ms)]
      BY <1>2, <1>3, <2>3
    <3> QED
      BY <1>1, <3>1
  <2> QED
    BY <1>3, <1>4, <2>1, <2>2, <2>3
<1> QED
  BY <1>1, <1>2, <1>3, <1>5, <1>6 DEF ns, t

LEMMA TalkInit == AgentInit => Talk
BY DEF AgentInit, Talk, Alternates, Answers

LEMMA TalkStep ==
  ASSUME AgentTyped, Talk, AgentStep
  PROVE  Talk'
<1> USE DEF Talk
<1>0. messages \in Seq(Turns) /\ todo \in Seq(Uses) /\ tool_results \in Seq(Nat)
  BY DEF AgentTyped, AgentTypeOK
<1>1. ASSUME UNCHANGED messages, pc' \notin {"new", "loop", "chat", "turn", "tool"} PROVE Talk'
  BY <1>1
<1>2. CASE Begin
  <2>1. CASE mode = "llm"
    <3>1. messages' = <<GoalTurn>> /\ pc' = "loop"
      BY <1>2, <2>1 DEF Begin
    <3>2. GoalTurn.role = "user"
      BY DEF GoalTurn
    <3>3. Alternates(messages') /\ Answers(messages') /\ Len(messages') % 2 = 1
      BY <3>1, <3>2 DEF Alternates, Answers
    <3> QED
      BY <3>1, <3>3
  <2>2. CASE mode # "llm"
    BY <1>1, <1>2, <2>2 DEF Begin
  <2> QED
    BY <2>1, <2>2
<1>3. CASE Step
  BY <1>3 DEF Step
<1>4. CASE ReplyWithPlan
  <2>1. <<>> \in Seq(Uses) /\ messages' = Append(messages, AssistantTurn(<<>>)) /\ pc' = "persist"
    BY <1>4 DEF ReplyWithPlan
  <2>2. Alternates(messages') /\ Answers(messages')
    BY <1>0, <1>4, <2>1, AssistantSpeaks DEF ReplyWithPlan
  <2> QED
    BY <2>1, <2>2
<1>5. CASE ReplyWithTools
  <2>1. PICK us \in Seq(Uses) : todo' = us /\ messages' = Append(messages, AssistantTurn(us))
    BY <1>5, RepliedUses
  <2>2. tool_results' = <<>> /\ pc' = "turn" /\ pc = "chat"
    BY <1>5 DEF ReplyWithTools
  <2>3. /\ Alternates(messages') /\ Answers(messages')
        /\ Len(messages') > 0 /\ Len(messages') % 2 = 0
        /\ messages'[Len(messages')].uses = us
    BY <1>0, <2>1, <2>2, AssistantSpeaks
  <2>4. InTurn'
    BY <2>1, <2>2, <2>3 DEF InTurn
  <2> QED
    BY <2>2, <2>3, <2>4
<1>6. CASE CallTool
  <2>1. UNCHANGED <<messages, todo, tool_results>> /\ pc = "turn" /\ pc' = "tool"
    BY <1>6 DEF CallTool
  <2> QED
    BY <2>1 DEF InTurn
<1>7. ASSUME NEW outcome \in Outcomes, ToolReturns(outcome) PROVE Talk'
  <2>1. /\ messages' = messages /\ pc = "tool" /\ pc' = "turn"
        /\ tool_results' = Append(tool_results, Head(todo).id) /\ todo' = Tail(todo)
    BY <1>7 DEF ToolReturns
  <2>2. todo # <<>> /\ Head(todo) = todo[1] /\ Head(todo).id \in Nat
    BY <1>0, <2>1, Todo DEF AgentTyped, AtWork
  <2>3. /\ Len(tool_results') = Len(tool_results) + 1
        /\ tool_results'[Len(tool_results) + 1] = todo[1].id
        /\ \A m \in 1..Len(tool_results) : tool_results'[m] = tool_results[m]
    BY <1>0, <2>1, <2>2
  <2>4. /\ Len(todo') = Len(todo) - 1
        /\ \A m \in 1..Len(todo') : todo'[m] = todo[m + 1] /\ m + 1 \in 1..Len(todo)
    BY <1>0, <2>1, <2>2
  <2>5. Len(tool_results) \in Nat /\ Len(todo) \in Nat \ {0}
    BY <1>0, <2>2
  <2> DEFINE uses == messages[Len(messages)].uses
  <2>6. /\ Len(uses) = Len(tool_results) + Len(todo)
        /\ \A m \in 1..Len(tool_results) : uses[m].id = tool_results[m]
        /\ \A m \in 1..Len(todo) : uses[Len(tool_results) + m].id = todo[m].id
    BY <2>1 DEF InTurn
  <2> HIDE DEF uses
  <2>7. Len(uses) = Len(tool_results') + Len(todo')
    BY <2>3, <2>4, <2>5, <2>6
  <2>8. ASSUME NEW m \in 1..Len(tool_results') PROVE uses[m].id = tool_results'[m]
    <3>1. m \in 1..Len(tool_results) \/ m = Len(tool_results) + 1
      BY <2>3, <2>5
    <3>2. 1 \in 1..Len(todo)
      BY <2>5
    <3> QED
      BY <2>3, <2>6, <3>1, <3>2
  <2>9. ASSUME NEW m \in 1..Len(todo') PROVE uses[Len(tool_results') + m].id = todo'[m].id
    <3>1. Len(tool_results') + m = Len(tool_results) + (m + 1)
      BY <2>3, <2>5
    <3> QED
      BY <2>4, <2>6, <3>1
  <2>10. InTurn'
    BY <2>1, <2>7, <2>8, <2>9 DEF InTurn, uses
  <2> QED
    BY <2>1, <2>10
<1>8. CASE EndTurn
  <2>1. /\ pc = "turn" /\ todo = <<>> /\ pc' = "loop"
        /\ messages' = Append(messages, ResultsTurn(tool_results))
    BY <1>8 DEF EndTurn
  <2> DEFINE uses == messages[Len(messages)].uses
  <2>2. /\ Len(messages) > 0 /\ Len(messages) % 2 = 0
        /\ Len(uses) = Len(tool_results)
        /\ \A m \in 1..Len(tool_results) : uses[m].id = tool_results[m]
    BY <1>0, <2>1 DEF InTurn
  <2> HIDE DEF uses
  <2>3. tool_results = Ids(uses)
    BY <1>0, <2>2 DEF Ids
  <2>4. Alternates(messages') /\ Answers(messages') /\ Len(messages') % 2 = 1
    BY <1>0, <2>1, <2>2, <2>3, UserAnswers DEF uses
  <2> QED
    BY <2>1, <2>4
<1>9. ASSUME NEW outcome \in Outcomes, ScriptReturns(outcome) PROVE Talk'
  BY <1>1, <1>9 DEF ScriptReturns
<1>10. CASE ChatFails \/ SynthesizePlan \/ ScriptCall \/ ScriptPlan \/ Persist \/ Done \/ Cancel
  BY <1>1, <1>10 DEF ChatFails, SynthesizePlan, ScriptCall, ScriptPlan, Persist, Done, Cancel
<1> QED
  BY <1>2, <1>3, <1>4, <1>5, <1>6, <1>7, <1>8, <1>9, <1>10 DEF AgentStep, Advance

-------------------------------------------------------------------------------
\* The session's row and the stream.

Streamed(es, type) == \E n \in 1..Len(es) : es[n].type = type

\* What an event adds to what was streamed.
LEMMA StreamedOne ==
  ASSUME NEW es \in Seq(Events), NEW e \in Events, NEW type
  PROVE  Streamed(es \o <<e>>, type) <=> Streamed(es, type) \/ e.type = type
<1> DEFINE fs == es \o <<e>>
<1>1. Len(fs) = Len(es) + 1 /\ fs[Len(es) + 1] = e /\ \A n \in 1..Len(es) : fs[n] = es[n]
  OBVIOUS
<1>2. Len(es) \in Nat
  OBVIOUS
<1> HIDE DEF fs
<1>3. 1..Len(fs) = (1..Len(es)) \cup {Len(es) + 1}
  BY <1>1, <1>2
<1>4. Streamed(fs, type) <=> Streamed(es, type) \/ e.type = type
  BY <1>1, <1>3 DEF Streamed
<1> QED
  BY <1>4 DEF fs

LEMMA StreamedTwo ==
  ASSUME NEW es \in Seq(Events), NEW e \in Events, NEW f \in Events, NEW type
  PROVE  Streamed(es \o <<e, f>>, type) <=> Streamed(es, type) \/ e.type = type \/ f.type = type
<1> DEFINE fs == es \o <<e, f>>
<1>1. /\ Len(fs) = Len(es) + 2 /\ fs[Len(es) + 1] = e /\ fs[Len(es) + 2] = f
      /\ \A n \in 1..Len(es) : fs[n] = es[n]
  OBVIOUS
<1>2. Len(es) \in Nat
  OBVIOUS
<1> HIDE DEF fs
<1>3. 1..Len(fs) = (1..Len(es)) \cup {Len(es) + 1, Len(es) + 2}
  BY <1>1, <1>2
<1>4. Streamed(fs, type) <=> Streamed(es, type) \/ e.type = type \/ f.type = type
  BY <1>1, <1>3 DEF Streamed
<1> QED
  BY <1>4 DEF fs

\* The points at which the outcome of the run is still open, and those at which it is known.
Early   == {"new", "loop", "chat", "turn", "tool", "script", "scripted"}
Settled == {"persist", "closing", "ended"}

Outcome == finished /\ (error <=> plan = NoPlan)

\* Until the outcome is known there is neither plan, error nor row; a plan was streamed exactly
\* if there is one, an error exactly if the run failed; a row is the outcome, and a run that has
\* been through its upsert has one or has warned.
Records ==
  /\ pc \in Early => plan = NoPlan /\ ~error /\ ~finished /\ row = NoRow
  /\ pc \in Settled => Outcome
  /\ Streamed(events, "plan") <=> plan # NoPlan
  /\ Streamed(events, "error") <=> error
  /\ row # NoRow => Outcome /\ row = [status |-> Status, plan |-> plan]
  /\ pc \in {"closing", "ended"} /\ pool => row # NoRow \/ Streamed(events, "warn")

LEMMA RecordsInit == AgentInit => Records
BY DEF AgentInit, Records, Early, Settled, Streamed

\* A step that yields one event, or two, of types that say nothing of the outcome.
LEMMA NothingTold ==
  ASSUME AgentTyped, NEW e \in Events, NEW f \in Events, Emit(<<e>>) \/ Emit(<<e, f>>),
         {e.type, f.type} \cap {"plan", "error"} = {}
  PROVE  /\ Streamed(events', "plan") <=> Streamed(events, "plan")
         /\ Streamed(events', "error") <=> Streamed(events, "error")
<1>1. events \in Seq(Events)
  BY DEF AgentTyped, AgentTypeOK
<1>2. CASE Emit(<<e>>)
  BY <1>1, <1>2, StreamedOne DEF Emit
<1>3. CASE Emit(<<e, f>>)
  BY <1>1, <1>3, StreamedTwo DEF Emit
<1> QED
  BY <1>2, <1>3

\* A step before the outcome is known that leaves it open.
LEMMA EarlyKeepsRecords ==
  ASSUME AgentTyped, Records, pc \in Early, pc' \in Early,
         UNCHANGED <<plan, error, finished, row>>,
         NEW e \in Events, NEW f \in Events,
         UNCHANGED events \/ Emit(<<e>>) \/ Emit(<<e, f>>),
         {e.type, f.type} \cap {"plan", "error"} = {}
  PROVE  Records'
<1>1. /\ Streamed(events', "plan") <=> Streamed(events, "plan")
      /\ Streamed(events', "error") <=> Streamed(events, "error")
  BY NothingTold
<1>2. pc' \notin {"persist", "closing", "ended"}
  BY DEF Early
<1> QED
  BY <1>1, <1>2 DEF Records, Settled

LEMMA EventTypes ==
  /\ \A type \in Kinds : Event(type) \in Events /\ Event(type).type = type
  /\ \A id \in Nat : LET e == [Event("tool_call") EXCEPT !.id = id]
                     IN  e \in Events /\ e.type = "tool_call" /\ e.id = id
  /\ \A use \in Uses, outcome \in Outcomes :
       Result(use, outcome) \in Events /\ Result(use, outcome).type = "tool_result"
BY EventType DEF Event, Result

LEMMA RecordsStep ==
  ASSUME AgentTyped, Records, AgentStep
  PROVE  Records'
<1> DEFINE started == Event("started")
           thought == Event("thought")
           step    == Event("step")
           planned == Event("plan")
           failed  == Event("error")
           warned  == Event("warn")
           done    == Event("done")
<1>1. /\ started \in Events /\ started.type = "started"
      /\ thought \in Events /\ thought.type = "thought"
      /\ step \in Events /\ step.type = "step"
      /\ planned \in Events /\ planned.type = "plan"
      /\ failed \in Events /\ failed.type = "error"
      /\ warned \in Events /\ warned.type = "warn"
      /\ done \in Events /\ done.type = "done"
  BY EventTypes DEF Kinds
<1>2. events \in Seq(Events)
  BY DEF AgentTyped, AgentTypeOK
<1>3. CASE Begin
  <2>1. /\ pc \in Early /\ pc' \in Early /\ UNCHANGED <<plan, error, finished, row>>
        /\ Emit(<<started>>) \/ Emit(<<started, thought>>)
    BY <1>3 DEF Begin, Early
  <2> HIDE DEF started, thought
  <2> QED
    BY <1>1, <2>1, EarlyKeepsRecords
<1>4. CASE Step
  <2>1. /\ pc \in Early /\ pc' \in Early /\ UNCHANGED <<plan, error, finished, row>>
        /\ Emit(<<step>>)
    BY <1>4 DEF Step, Early
  <2> HIDE DEF step
  <2> QED
    BY <1>1, <2>1, EarlyKeepsRecords
<1>5. CASE ReplyWithTools
  <2>1. /\ pc \in Early /\ pc' \in Early /\ UNCHANGED <<plan, error, finished, row>>
        /\ Emit(<<thought>>)
    BY <1>5 DEF ReplyWithTools, Early
  <2> HIDE DEF thought
  <2> QED
    BY <1>1, <2>1, EarlyKeepsRecords
<1>6. CASE CallTool \/ ScriptCall
  <2> DEFINE call == [Event("tool_call") EXCEPT !.id = Head(todo).id]
  <2>1. /\ pc \in Early /\ pc' \in Early /\ UNCHANGED <<plan, error, finished, row>>
        /\ Emit(<<call>>)
    BY <1>6 DEF CallTool, ScriptCall, Early
  <2>2. call \in Events /\ call.type = "tool_call"
    BY <1>6, Todo, EventTypes DEF CallTool, ScriptCall
  <2> HIDE DEF call
  <2> QED
    BY <2>1, <2>2, EarlyKeepsRecords
<1>7. ASSUME NEW outcome \in Outcomes, ToolReturns(outcome) \/ ScriptReturns(outcome)
      PROVE  Records'
  <2> DEFINE result == Result(Head(todo), outcome)
  <2>1. /\ pc \in Early /\ pc' \in Early /\ UNCHANGED <<plan, error, finished, row>>
        /\ Emit(<<result>>)
    BY <1>7 DEF ToolReturns, ScriptReturns, Early
  <2>2. result \in Events /\ result.type = "tool_result"
    BY <1>7, Todo, EventTypes DEF ToolReturns, ScriptReturns, AgentTyped, AtWork
  <2> HIDE DEF result
  <2> QED
    BY <2>1, <2>2, EarlyKeepsRecords
<1>8. CASE EndTurn
  <2>1. /\ pc \in Early /\ pc' \in Early /\ UNCHANGED <<plan, error, finished, row>>
        /\ UNCHANGED events
    BY <1>8 DEF EndTurn, Early
  <2> HIDE DEF step
  <2> QED
    BY <1>1, <2>1, EarlyKeepsRecords
<1>9. CASE ReplyWithPlan \/ SynthesizePlan \/ ScriptPlan
  <2>1. /\ pc \in Early /\ pc' = "persist" /\ UNCHANGED <<error, row>>
        /\ finished' /\ plan' # NoPlan
    BY <1>9 DEF ReplyWithPlan, SynthesizePlan, ScriptPlan, Early, NoPlan
  <2>2. Emit(<<planned>>) \/ Emit(<<thought, planned>>) \/ Emit(<<step, planned>>)
    BY <1>9 DEF ReplyWithPlan, SynthesizePlan, ScriptPlan
  <2> HIDE DEF planned, thought, step
  <2>3. Streamed(events', "plan") /\ (Streamed(events', "error") <=> Streamed(events, "error"))
    <3>1. CASE Emit(<<planned>>)
      BY <1>1, <1>2, <3>1, StreamedOne DEF Emit
    <3>2. CASE Emit(<<thought, planned>>)
      <4>1. events' = events \o <<thought, planned>>
        BY <3>2 DEF Emit
      <4>2. \A type : Streamed(events', type)
                       <=> Streamed(events, type) \/ thought.type = type \/ planned.type = type
        BY <1>1, <1>2, <4>1, StreamedTwo
      <4> QED
        BY <1>1, <4>2
    <3>3. CASE Emit(<<step, planned>>)
      <4>1. events' = events \o <<step, planned>>
        BY <3>3 DEF Emit
      <4>2. \A type : Streamed(events', type)
                       <=> Streamed(events, type) \/ step.type = type \/ planned.type = type
        BY <1>1, <1>2, <4>1, StreamedTwo
      <4> QED
        BY <1>1, <4>2
    <3> QED
      BY <2>2, <3>1, <3>2, <3>3
  <2> QED
    BY <2>1, <2>3 DEF Records, Outcome, Early, Settled
<1>10. CASE ChatFails
  <2>1. /\ pc \in Early /\ pc' = "persist" /\ UNCHANGED <<plan, row>> /\ finished' /\ error'
        /\ Emit(<<failed>>)
    BY <1>10 DEF ChatFails, Early
  <2> HIDE DEF failed
  <2>2. Streamed(events', "error") /\ (Streamed(events', "plan") <=> Streamed(events, "plan"))
    BY <1>1, <1>2, <2>1, StreamedOne DEF Emit
  <2> QED
    BY <2>1, <2>2 DEF Records, Outcome, Early, Settled
<1>11. CASE Persist
  <2>1. pc = "persist" /\ pc' = "closing" /\ UNCHANGED <<finished, error, plan, pool>>
    BY <1>11 DEF Persist, request
  <2>2. Outcome /\ Status' = Status /\ Outcome' = Outcome
    BY <2>1 DEF Records, Settled, Outcome, Status
  <2>3. CASE UNCHANGED events
    <3>1. (~pool /\ row' = row) \/ (pool /\ row' = [status |-> Status, plan |-> plan])
      <4>1. ~Emit(<<warned>>)
        <5> HIDE DEF warned
        <5>1. Len(events \o <<warned>>) = Len(events) + 1 /\ Len(events) \in Nat
          BY <1>1, <1>2
        <5> QED
          BY <2>3, <5>1 DEF Emit
      <4> QED
        BY <1>11, <4>1 DEF Persist
    <3>2. [status |-> Status, plan |-> plan] # NoRow
      BY DEF NoRow, Status
    <3> QED
      BY <2>1, <2>2, <2>3, <3>1, <3>2 DEF Records, Settled, Early
  <2>4. CASE Emit(<<warned>>)
    <3>1. row' = row \/ row' = [status |-> Status, plan |-> plan]
      BY <1>11 DEF Persist
    <3> HIDE DEF warned
    <3>2. /\ Streamed(events', "plan") <=> Streamed(events, "plan")
          /\ Streamed(events', "error") <=> Streamed(events, "error")
          /\ Streamed(events', "warn")
      BY <1>1, <1>2, <2>4, StreamedOne DEF Emit
    <3> QED
      BY <2>1, <2>2, <3>1, <3>2 DEF Records, Settled, Early
  <2> QED
    BY <1>11, <2>3, <2>4 DEF Persist
<1>12. CASE Done
  <2>1. /\ pc = "closing" /\ pc' = "ended" /\ UNCHANGED <<finished, error, plan, pool, row>>
        /\ Emit(<<done>>)
    BY <1>12 DEF Done, request
  <2>2. Outcome' = Outcome /\ Status' = Status
    BY <2>1 DEF Outcome, Status
  <2> HIDE DEF done
  <2>3. /\ Streamed(events', "plan") <=> Streamed(events, "plan")
        /\ Streamed(events', "error") <=> Streamed(events, "error")
        /\ Streamed(events', "warn") <=> Streamed(events, "warn")
    BY <1>1, <1>2, <2>1, StreamedOne DEF Emit
  <2> QED
    BY <2>1, <2>2, <2>3 DEF Records, Settled, Early
<1>13. CASE Cancel
  <2>1. /\ pc' = "cancelled" /\ UNCHANGED <<finished, error, plan, pool, events>>
        /\ row' = row \/ (pc = "persist" /\ row' = [status |-> Status, plan |-> plan])
    BY <1>13 DEF Cancel, request
  <2>2. Outcome' = Outcome /\ Status' = Status
    BY <2>1 DEF Outcome, Status
  <2> QED
    BY <2>1, <2>2 DEF Records, Settled, Early
<1> QED
  BY <1>3, <1>4, <1>5, <1>6, <1>7, <1>8, <1>9, <1>10, <1>11, <1>12, <1>13 DEF AgentStep, Advance

LEMMA RecordsImply == Records => RowAgreesWithStream
<1> SUFFICES ASSUME Records PROVE RowAgreesWithStream
  OBVIOUS
<1>1. ASSUME row # NoRow, error
      PROVE  /\ row.status = "error" /\ row.plan = NoPlan
             /\ Streamed(events, "error") /\ ~Streamed(events, "plan")
  BY <1>1 DEF Records, Outcome, Status
<1>2. ASSUME row # NoRow, ~error
      PROVE  /\ row.status = "completed" /\ row.plan = plan
             /\ Streamed(events, "plan") /\ ~Streamed(events, "error")
  BY <1>2 DEF Records, Outcome, Status
<1>3. pc = "ended" /\ pool => row # NoRow \/ Streamed(events, "warn")
  BY DEF Records
<1> QED
  BY <1>1, <1>2, <1>3 DEF RowAgreesWithStream, Streamed

-------------------------------------------------------------------------------
\* The log of calls and the stream.

\* The calls among the first n events, and how many they are.
Called(es, n) == {m \in 1..n : es[m].type = "tool_call"}
Count(es, n)  == Cardinality(Called(es, n))

\* The log has every call that was streamed, in order.
Logged(es, calls) ==
  /\ Len(calls) = Count(es, Len(es))
  /\ \A n \in Called(es, Len(es)) :
       Count(es, n) \in 1..Len(calls) /\ calls[Count(es, n)].id = es[n].id

\* Calls are counted up from none; what follows in the stream does not change the count.
LEMMA CountSteps ==
  ASSUME NEW es \in Seq(Events), NEW e \in Events
  PROVE  LET fs == es \o <<e>>
         IN  /\ \A n \in 0..Len(es) : Called(fs, n) = Called(es, n) /\ Count(es, n) \in Nat
             /\ Called(fs, Len(fs)) = IF e.type = "tool_call"
                                        THEN Called(es, Len(es)) \cup {Len(fs)}
                                        ELSE Called(es, Len(es))
             /\ Count(fs, Len(fs)) = IF e.type = "tool_call" THEN Count(es, Len(es)) + 1
                                                             ELSE Count(es, Len(es))
             /\ Len(fs) = Len(es) + 1 /\ fs[Len(fs)] = e
             /\ \A n \in 1..Len(es) : fs[n] = es[n]
<1> DEFINE fs == es \o <<e>>
<1>1. Len(fs) = Len(es) + 1 /\ fs[Len(es) + 1] = e /\ \A n \in 1..Len(es) : fs[n] = es[n]
  OBVIOUS
<1>2. Len(es) \in Nat
  OBVIOUS
<1> HIDE DEF fs
<1>3. ASSUME NEW n \in 0..Len(es)
      PROVE  Called(fs, n) = Called(es, n) /\ IsFiniteSet(Called(es, n)) /\ Count(es, n) \in Nat
  <2>1. Called(fs, n) = Called(es, n)
    BY <1>1, <1>2 DEF Called
  <2>2. IsFiniteSet(1..n) /\ Called(es, n) \in SUBSET (1..n)
    BY FS_Interval DEF Called
  <2>3. IsFiniteSet(Called(es, n))
    BY <2>2, FS_Subset
  <2> QED
    BY <2>1, <2>3, FS_CardinalityType DEF Count
<1>4. 1..Len(fs) = (1..Len(es)) \cup {Len(fs)} /\ Len(fs) \notin 1..Len(es)
  BY <1>1, <1>2
<1>5. Called(fs, Len(fs)) = IF e.type = "tool_call"
                              THEN Called(es, Len(es)) \cup {Len(fs)}
                              ELSE Called(es, Len(es))
  BY <1>1, <1>4 DEF Called
<1>6. Len(fs) \notin Called(es, Len(es))
  BY <1>4 DEF Called
<1>7. IsFiniteSet(Called(es, Len(es)))
  BY <1>2, <1>3
<1>8. Count(fs, Len(fs)) = IF e.type = "tool_call" THEN Count(es, Len(es)) + 1
                                                   ELSE Count(es, Len(es))
  BY <1>5, <1>6, <1>7, FS_AddElement DEF Count
<1> QED
  BY <1>1, <1>3, <1>5, <1>8 DEF fs

\* An event that is no call leaves the log as it is.
LEMMA LoggedQuiet ==
  ASSUME NEW es \in Seq(Events), NEW e \in Events, e.type # "tool_call",
         NEW calls, Logged(es, calls)
  PROVE  Logged(es \o <<e>>, calls)
<1> DEFINE fs == es \o <<e>>
<1>1. /\ Called(fs, Len(fs)) = Called(es, Len(es)) /\ Count(fs, Len(fs)) = Count(es, Len(es))
      /\ \A n \in 0..Len(es) : Called(fs, n) = Called(es, n)
      /\ \A n \in 1..Len(es) : fs[n] = es[n]
  BY CountSteps
<1> HIDE DEF fs
<1>2. \A n \in Called(es, Len(es)) : n \in 1..Len(es) /\ n \in 0..Len(es)
  BY DEF Called
<1>3. \A n \in Called(es, Len(es)) : Count(fs, n) = Count(es, n) /\ fs[n] = es[n]
  BY <1>1, <1>2 DEF Count
<1>4. Logged(fs, calls)
  BY <1>1, <1>3 DEF Logged
<1> QED
  BY <1>4 DEF fs

\* A call and its record.
LEMMA LoggedCall ==
  ASSUME NEW es \in Seq(Events), NEW e \in Events, e.type = "tool_call",
         NEW calls \in Seq(Calls), Logged(es, calls), NEW c \in Calls, c.id = e.id
  PROVE  Logged(es \o <<e>>, Append(calls, c))
<1> DEFINE fs == es \o <<e>>
           ds == Append(calls, c)
<1>1. /\ Called(fs, Len(fs)) = Called(es, Len(es)) \cup {Len(fs)}
      /\ Count(fs, Len(fs)) = Count(es, Len(es)) + 1
      /\ \A n \in 0..Len(es) : Called(fs, n) = Called(es, n)
      /\ \A n \in 1..Len(es) : fs[n] = es[n]
      /\ fs[Len(fs)] = e
  BY CountSteps
<1>2. /\ Len(ds) = Len(calls) + 1 /\ ds[Len(calls) + 1] = c
      /\ \A n \in 1..Len(calls) : ds[n] = calls[n]
  OBVIOUS
<1>3. Len(calls) \in Nat
  OBVIOUS
<1> HIDE DEF fs, ds
<1>4. \A n \in Called(es, Len(es)) : n \in 1..Len(es) /\ n \in 0..Len(es)
  BY DEF Called
<1>5. \A n \in Called(es, Len(es)) : Count(fs, n) = Count(es, n) /\ fs[n] = es[n]
  BY <1>1, <1>4 DEF Count
<1>6. \A n \in Called(es, Len(es)) :
        Count(fs, n) \in 1..Len(ds) /\ ds[Count(fs, n)].id = fs[n].id
  BY <1>2, <1>3, <1>5 DEF Logged
<1>7. Count(fs, Len(fs)) = Len(ds)
  BY <1>1, <1>2 DEF Logged
<1>8. Count(fs, Len(fs)) \in 1..Len(ds) /\ ds[Count(fs, Len(fs))].id = fs[Len(fs)].id
  BY <1>1, <1>2, <1>3, <1>7
<1>9. Logged(fs, ds)
  BY <1>1, <1>6, <1>7, <1>8 DEF Logged
<1> QED
  BY <1>9 DEF fs, ds

\* In a conversation the log follows the stream, all but the call under way have ended, and the
\* plan of a spent budget is the log as it then stood.
Ran(n) == tool_calls[n].outcome # "running"

Log ==
  /\ pc \in {"loop", "chat", "turn", "tool"} => mode = "llm"
  /\ pc \in {"script", "scripted"} => mode # "llm"
  /\ mode = "llm" => Logged(events, tool_calls)
  /\ pc \in {"new", "loop", "chat", "turn"} => \A n \in 1..Len(tool_calls) : Ran(n)
  /\ pc = "tool" => \A n \in 1..Len(tool_calls) : n # Len(tool_calls) => Ran(n)
  /\ plan.source = "budget" =>
       /\ mode = "llm" /\ plan.actions = ActionsOf(tool_calls)
       /\ \A n \in 1..Len(tool_calls) : Ran(n)

LEMMA LogInit == AgentInit => Log
<1> SUFFICES ASSUME AgentInit PROVE Log
  OBVIOUS
<1>1. events = <<>> /\ tool_calls = <<>> /\ pc = "new" /\ plan.source = "none"
  BY DEF AgentInit, NoPlan
<1>2. Called(events, Len(events)) = {}
  BY <1>1 DEF Called
<1>3. Logged(events, tool_calls)
  BY <1>1, <1>2, FS_EmptySet DEF Logged, Count
<1> QED
  BY <1>1, <1>3 DEF Log

\* A step that adds no call to either.
LEMMA QuietKeepsLogged ==
  ASSUME AgentTyped, Log, UNCHANGED <<mode, tool_calls>>,
         NEW e \in Events, NEW f \in Events, e.type # "tool_call", f.type # "tool_call",
         UNCHANGED events \/ Emit(<<e>>) \/ Emit(<<e, f>>)
  PROVE  mode' = "llm" => Logged(events', tool_calls')
<1>1. SUFFICES ASSUME mode = "llm" PROVE Logged(events', tool_calls)
  OBVIOUS
<1>2. Logged(events, tool_calls) /\ events \in Seq(Events)
  BY <1>1 DEF Log, AgentTyped, AgentTypeOK
<1>3. CASE UNCHANGED events
  BY <1>2, <1>3
<1>4. Logged(events \o <<e>>, tool_calls)
  BY <1>2, LoggedQuiet
<1>5. CASE Emit(<<e>>)
  BY <1>4, <1>5 DEF Emit
<1>6. CASE Emit(<<e, f>>)
  <2>1. events \o <<e>> \in Seq(Events)
    BY <1>2
  <2>2. Logged((events \o <<e>>) \o <<f>>, tool_calls)
    BY <1>4, <2>1, LoggedQuiet
  <2>3. (events \o <<e>>) \o <<f>> = events \o <<e, f>>
    <3> DEFINE a == events \o <<e>>
               b == a \o <<f>>
               c == events \o <<e, f>>
    <3>1. /\ Len(a) = Len(events) + 1 /\ a[Len(events) + 1] = e
          /\ \A n \in 1..Len(events) : a[n] = events[n]
      BY <1>2
    <3>2. Len(b) = Len(a) + 1 /\ b[Len(a) + 1] = f /\ \A n \in 1..Len(a) : b[n] = a[n]
      BY <2>1
    <3>3. /\ Len(c) = Len(events) + 2 /\ c[Len(events) + 1] = e /\ c[Len(events) + 2] = f
          /\ \A n \in 1..Len(events) : c[n] = events[n]
      BY <1>2
    <3>4. b \in Seq(Events) /\ c \in Seq(Events) /\ Len(events) \in Nat
      BY <1>2, <2>1
    <3> HIDE DEF a, b, c
    <3>5. Len(b) = Len(c) /\ \A n \in 1..Len(b) : b[n] = c[n]
      <4>1. 1..Len(b) = (1..Len(events)) \cup {Len(events) + 1, Len(events) + 2}
        BY <3>1, <3>2, <3>4
      <4>2. \A n \in 1..Len(events) : n \in 1..Len(a)
        BY <3>1, <3>4
      <4>3. Len(events) + 1 \in 1..Len(a)
        BY <3>1, <3>4
      <4> QED
        BY <3>1, <3>2, <3>3, <3>4, <4>1, <4>2, <4>3
    <3>6. b = c
      BY <3>4, <3>5
    <3> QED
      BY <3>6 DEF a, b, c
  <2> QED
    BY <1>6, <2>2, <2>3 DEF Emit
<1> QED
  BY <1>3, <1>5, <1>6

LEMMA LogStep ==
  ASSUME AgentTyped, Records, Log, AgentStep
  PROVE  Log'
<1> DEFINE started == Event("started")
           thought == Event("thought")
           step    == Event("step")
           planned == Event("plan")
           failed  == Event("error")
           warned  == Event("warn")
           done    == Event("done")
<1>1. /\ started \in Events /\ started.type # "tool_call"
      /\ thought \in Events /\ thought.type # "tool_call"
      /\ step \in Events /\ step.type # "tool_call"
      /\ planned \in Events /\ planned.type # "tool_call"
      /\ failed \in Events /\ failed.type # "tool_call"
      /\ warned \in Events /\ warned.type # "tool_call"
      /\ done \in Events /\ done.type # "tool_call"
  BY EventTypes DEF Kinds
<1> HIDE DEF started, thought, step, planned, failed, warned, done
<1>2. mode' = mode
  BY DEF AgentStep, Advance, Begin, Step, ReplyWithPlan, ReplyWithTools, ChatFails, CallTool,
         ToolReturns, EndTurn, SynthesizePlan, ScriptCall, ScriptReturns, ScriptPlan, Persist,
         Done, Cancel, request
<1>3. pc \in Early => plan.source = "none"
  BY DEF Records, NoPlan
<1>4. CASE Begin
  <2>1. /\ pc = "new" /\ UNCHANGED <<plan, tool_calls>>
        /\ pc' = IF mode = "llm" THEN "loop" ELSE "script"
        /\ Emit(<<started>>) \/ Emit(<<started, thought>>)
    BY <1>4 DEF Begin, started, thought
  <2>2. mode' = "llm" => Logged(events', tool_calls')
    BY <1>1, <1>2, <2>1, QuietKeepsLogged
  <2> QED
    BY <1>2, <1>3, <2>1, <2>2 DEF Log, Early, Ran
<1>5. CASE Step
  <2>1. /\ pc = "loop" /\ pc' = "chat" /\ UNCHANGED <<plan, tool_calls>> /\ Emit(<<step>>)
    BY <1>5 DEF Step, step
  <2>2. mode' = "llm" => Logged(events', tool_calls')
    BY <1>1, <1>2, <2>1, QuietKeepsLogged
  <2> QED
    BY <1>2, <1>3, <2>1, <2>2 DEF Log, Early, Ran
<1>6. CASE ReplyWithTools
  <2>1. /\ pc = "chat" /\ pc' = "turn" /\ UNCHANGED <<plan, tool_calls>> /\ Emit(<<thought>>)
    BY <1>6 DEF ReplyWithTools, thought
  <2>2. mode' = "llm" => Logged(events', tool_calls')
    BY <1>1, <1>2, <2>1, QuietKeepsLogged
  <2> QED
    BY <1>2, <1>3, <2>1, <2>2 DEF Log, Early, Ran
<1>7. CASE ReplyWithPlan
  <2>1. /\ pc' = "persist" /\ plan'.source = "reply" /\ UNCHANGED tool_calls
        /\ Emit(<<thought, planned>>)
    BY <1>7 DEF ReplyWithPlan, thought, planned
  <2>2. mode' = "llm" => Logged(events', tool_calls')
    BY <1>1, <1>2, <2>1, QuietKeepsLogged
  <2> QED
    BY <2>1, <2>2 DEF Log
<1>8. CASE ChatFails
  <2>1. /\ pc = "chat" /\ pc' = "persist" /\ UNCHANGED <<plan, tool_calls>> /\ Emit(<<failed>>)
    BY <1>8 DEF ChatFails, failed
  <2>2. mode' = "llm" => Logged(events', tool_calls')
    BY <1>1, <1>2, <2>1, QuietKeepsLogged
  <2> QED
    BY <1>3, <2>1, <2>2 DEF Log, Early
<1>9. CASE CallTool
  <2> DEFINE c == [id |-> Head(todo).id, name |-> Head(todo).name, outcome |-> "running"]
             e == [Event("tool_call") EXCEPT !.id = Head(todo).id]
  <2>1. /\ pc = "turn" /\ pc' = "tool" /\ todo # <<>> /\ UNCHANGED plan
        /\ tool_calls' = Append(tool_calls, c) /\ events' = events \o <<e>>
    BY <1>9 DEF CallTool, Emit
  <2>2. Head(todo).id \in Nat /\ Head(todo).name \in Tools \cup {Unknown}
    BY <2>1, Todo
  <2>3. c \in Calls /\ e \in Events /\ e.type = "tool_call" /\ c.id = e.id
    BY <2>2, EventTypes DEF Calls
  <2> HIDE DEF c, e
  <2>4. events \in Seq(Events) /\ tool_calls \in Seq(Calls)
    BY DEF AgentTyped, AgentTypeOK
  <2>5. Logged(events', tool_calls')
    BY <2>1, <2>3, <2>4, LoggedCall DEF Log
  <2>6. Len(tool_calls') = Len(tool_calls) + 1 /\ \A n \in 1..Len(tool_calls) :
          tool_calls'[n] = tool_calls[n]
    BY <2>1, <2>3, <2>4
  <2>7. \A n \in 1..Len(tool_calls') : n # Len(tool_calls') => n \in 1..Len(tool_calls)
    BY <2>4, <2>6
  <2>8. \A n \in 1..Len(tool_calls') : n # Len(tool_calls') => Ran(n)'
    BY <2>1, <2>6, <2>7 DEF Log, Ran
  <2> QED
    BY <1>2, <1>3, <2>1, <2>5, <2>8 DEF Log, Early
<1>10. ASSUME NEW outcome \in Outcomes, ToolReturns(outcome) PROVE Log'
  <2> DEFINE e == Result(Head(todo), outcome)
  <2>1. pc = "tool" /\ pc' = "turn" /\ UNCHANGED plan /\ events' = events \o <<e>>
    BY <1>10 DEF ToolReturns, Emit
  <2>2. e \in Events /\ e.type # "tool_call"
    BY <2>1, Todo, EventTypes DEF AgentTyped, AtWork
  <2> HIDE DEF e
  <2>3. /\ Len(tool_calls') = Len(tool_calls)
        /\ \A n \in 1..Len(tool_calls) :
             /\ tool_calls'[n].id = tool_calls[n].id
             /\ n # Len(tool_calls) => tool_calls'[n] = tool_calls[n]
             /\ n = Len(tool_calls) => tool_calls'[n].outcome = outcome
    BY <1>10, ReturnedLog
  <2>4. Logged(events, tool_calls')
    BY <2>1, <2>3 DEF Log, Logged
  <2>5. Logged(events', tool_calls')
    BY <2>1, <2>2, <2>4, LoggedQuiet DEF AgentTyped, AgentTypeOK
  <2>6. outcome # "running"
    BY AgentAssumption
  <2>7. \A n \in 1..Len(tool_calls') : Ran(n)'
    BY <2>1, <2>3, <2>6 DEF Log, Ran
  <2> QED
    BY <1>2, <1>3, <2>1, <2>5, <2>7 DEF Log, Early
<1>11. CASE EndTurn
  <2>1. pc = "turn" /\ pc' = "loop" /\ UNCHANGED <<plan, tool_calls, events>>
    BY <1>11 DEF EndTurn
  <2>2. mode' = "llm" => Logged(events', tool_calls')
    BY <1>2, <2>1 DEF Log
  <2> QED
    BY <1>2, <1>3, <2>1, <2>2 DEF Log, Early, Ran
<1>12. CASE SynthesizePlan
  <2>1. /\ pc = "loop" /\ pc' = "persist" /\ UNCHANGED tool_calls /\ Emit(<<step, planned>>)
        /\ plan'.actions = ActionsOf(tool_calls)
    BY <1>12 DEF SynthesizePlan, step, planned
  <2>2. mode' = "llm" => Logged(events', tool_calls')
    BY <1>1, <1>2, <2>1, QuietKeepsLogged
  <2>3. ActionsOf(tool_calls)' = ActionsOf(tool_calls)
    BY <2>1
  <2> QED
    BY <1>2, <2>1, <2>2, <2>3 DEF Log, Ran
<1>13. CASE ScriptCall
  <2>1. pc = "script" /\ pc' = "scripted" /\ UNCHANGED <<plan, tool_calls>>
    BY <1>13 DEF ScriptCall
  <2> QED
    BY <1>2, <1>3, <2>1 DEF Log, Early
<1>14. ASSUME NEW outcome \in Outcomes, ScriptReturns(outcome) PROVE Log'
  <2>1. pc = "scripted" /\ pc' = "script" /\ UNCHANGED plan
    BY <1>14 DEF ScriptReturns
  <2> QED
    BY <1>2, <1>3, <2>1 DEF Log, Early
<1>15. CASE ScriptPlan
  <2>1. pc = "script" /\ pc' = "persist" /\ plan'.source = "script"
    BY <1>15 DEF ScriptPlan
  <2> QED
    BY <1>2, <2>1 DEF Log
<1>16. CASE Persist \/ Done \/ Cancel
  <2>1. /\ pc' \in {"closing", "ended", "cancelled"} /\ UNCHANGED <<plan, tool_calls>>
        /\ UNCHANGED events \/ Emit(<<warned>>) \/ Emit(<<done>>)
    BY <1>16 DEF Persist, Done, Cancel, warned, done
  <2>2. mode' = "llm" => Logged(events', tool_calls')
    BY <1>1, <1>2, <2>1, QuietKeepsLogged
  <2>3. ActionsOf(tool_calls)' = ActionsOf(tool_calls)
    BY <2>1
  <2> QED
    BY <1>2, <2>1, <2>2, <2>3 DEF Log, Ran
<1> QED
  BY <1>4, <1>5, <1>6, <1>7, <1>8, <1>9, <1>10, <1>11, <1>12, <1>13, <1>14, <1>15, <1>16
     DEF AgentStep, Advance

LEMMA LogImplies == Log => BudgetPlanComplete
<1> SUFFICES ASSUME Log, plan.source = "budget"
    PROVE  /\ Len(tool_calls) = Cardinality(Called(events, Len(events)))
           /\ \A n \in Called(events, Len(events)) :
                tool_calls[Cardinality(Called(events, n))].id = events[n].id
           /\ \A n \in 1..Len(tool_calls) : tool_calls[n].outcome # "running"
           /\ plan.actions = ActionsOf(tool_calls)
  BY DEF BudgetPlanComplete, Called
<1>1. Logged(events, tool_calls)
  BY DEF Log
<1>2. \A n \in 1..Len(tool_calls) : tool_calls[n].outcome # "running"
  BY DEF Log, Ran
<1>3. plan.actions = ActionsOf(tool_calls)
  BY DEF Log
<1> QED
  BY <1>1, <1>2, <1>3 DEF Logged, Count

-------------------------------------------------------------------------------
\* The coordinator under all the steps of the system.

\* A run that has come to its end has said so last.
Closed == pc = "ended" => events # <<>> /\ events[Len(events)].type = "done"

AgentInv == AgentTyped /\ Talk /\ Records /\ Log /\ Closed

\* The stream is only ever extended.
Extends(es, fs) == Len(es) <= Len(fs) /\ \A n \in 1..Len(es) : fs[n] = es[n]

LEMMA AgentExtends ==
  ASSUME AgentTyped, AgentStep
  PROVE  Extends(events, events')
<1>1. events \in Seq(Events)
  BY DEF AgentTyped, AgentTypeOK
<1>2. ASSUME UNCHANGED events \/ (\E a : Emit(<<a>>)) \/ (\E a, b : Emit(<<a, b>>))
      PROVE  Extends(events, events')
  <2>1. CASE UNCHANGED events
    BY <1>1, <2>1 DEF Extends
  <2>2. ASSUME NEW a, Emit(<<a>>) PROVE Extends(events, events')
    BY <1>1, <2>2 DEF Extends, Emit
  <2>3. ASSUME NEW a, NEW b, Emit(<<a, b>>) PROVE Extends(events, events')
    BY <1>1, <2>3 DEF Extends, Emit
  <2> QED
    BY <1>2, <2>1, <2>2, <2>3
<1>3. UNCHANGED events \/ (\E a : Emit(<<a>>)) \/ (\E a, b : Emit(<<a, b>>))
  <2>1. CASE Begin
    BY <2>1 DEF Begin
  <2>2. CASE Step
    BY <2>2 DEF Step
  <2>3. CASE ReplyWithPlan
    BY <2>3 DEF ReplyWithPlan
  <2>4. CASE ReplyWithTools
    BY <2>4 DEF ReplyWithTools
  <2>5. CASE ChatFails
    BY <2>5 DEF ChatFails
  <2>6. CASE CallTool
    BY <2>6 DEF CallTool
  <2>7. CASE EndTurn
    BY <2>7 DEF EndTurn
  <2>8. CASE SynthesizePlan
    BY <2>8 DEF SynthesizePlan
  <2>9. CASE ScriptCall
    BY <2>9 DEF ScriptCall
  <2>10. CASE ScriptPlan
    BY <2>10 DEF ScriptPlan
  <2>11. CASE Persist
    BY <2>11 DEF Persist
  <2>12. CASE Done
    BY <2>12 DEF Done
  <2>13. CASE Cancel
    BY <2>13 DEF Cancel
  <2>14. ASSUME NEW outcome \in Outcomes, ToolReturns(outcome) \/ ScriptReturns(outcome)
         PROVE  \E a : Emit(<<a>>)
    BY <2>14 DEF ToolReturns, ScriptReturns
  <2> QED
    BY <2>1, <2>2, <2>3, <2>4, <2>5, <2>6, <2>7, <2>8, <2>9, <2>10, <2>11, <2>12, <2>13, <2>14
       DEF AgentStep, Advance
<1> QED
  BY <1>2, <1>3

LEMMA ClosedStep ==
  ASSUME AgentTyped, Closed, AgentStep
  PROVE  Closed' /\ pc # "ended"
<1>1. pc # "ended"
  BY DEF AgentStep, Advance, Begin, Step, ReplyWithPlan, ReplyWithTools, ChatFails, CallTool,
         ToolReturns, EndTurn, SynthesizePlan, ScriptCall, ScriptReturns, ScriptPlan, Persist,
         Done, Cancel
<1>2. pc' = "ended" => Done
  BY DEF AgentStep, Advance, Begin, Step, ReplyWithPlan, ReplyWithTools, ChatFails, CallTool,
         ToolReturns, EndTurn, SynthesizePlan, ScriptCall, ScriptReturns, ScriptPlan, Persist,
         Cancel
<1>3. ASSUME Done PROVE events' # <<>> /\ events'[Len(events')].type = "done"
  <2> DEFINE e == Event("done")
  <2>1. events' = events \o <<e>> /\ events \in Seq(Events) /\ e \in Events /\ e.type = "done"
    BY <1>3, EventTypes DEF Done, Emit, AgentTyped, AgentTypeOK, Kinds
  <2> HIDE DEF e
  <2>2. Len(events') = Len(events) + 1 /\ events'[Len(events) + 1] = e /\ Len(events) \in Nat
    BY <2>1
  <2> QED
    BY <2>1, <2>2
<1> QED
  BY <1>1, <1>2, <1>3 DEF Closed

LEMMA AgentInvInit == Init => AgentInv
BY AgentTypedInit, TalkInit, RecordsInit, LogInit DEF Init, AgentInv, AgentInit, Closed

\* A step of the system is one of the coordinator, or leaves it alone.
LEMMA AgentSteps == [Next]_vars => AgentStep \/ UNCHANGED agentVars
BY DEF Next, Run, Show, StreamEnds, StreamFails, StopRun, Accept, Invalid, Answer, Unavailable, Open,
       Pipe, PipeEnds, BodyTimeout, ClientGone, AgentDies, BackendDies, ProxyGone, CoordinatorAdvances, AgentStep,
       vars

LEMMA AgentInvStep == AgentInv /\ [Next]_vars => AgentInv'
<1> SUFFICES ASSUME AgentInv, [Next]_vars PROVE AgentInv'
  OBVIOUS
<1>1. CASE AgentStep
  BY <1>1, AgentTypedStep, TalkStep, RecordsStep, LogStep, ClosedStep DEF AgentInv
<1>2. CASE UNCHANGED agentVars
  BY <1>2 DEF agentVars, AgentInv, AgentTyped, AgentTypeOK, AtWork, Talk, InTurn, Records, Outcome,
              Status, Log, Ran, Closed
<1> QED
  BY <1>1, <1>2, AgentSteps

LEMMA AgentInvHolds == Spec => []AgentInv
BY AgentInvInit, AgentInvStep, PTL DEF Spec

\* The coordinator's run is a run of its own specification: the console and the proxy start
\* it, read it and cancel it, and change nothing in it.
THEOREM StreamRunsTheAgent == Spec => AgentSpec
<1>1. Init => AgentInit
  BY DEF Init
<1>2. [Next]_vars => [Begin \/ Advance \/ Cancel]_agentVars
  BY AgentSteps DEF AgentStep
<1> QED
  BY <1>1, <1>2, PTL DEF Spec, AgentSpec

\* The model is only ever sent a conversation it accepts, however the calls of a turn end.
THEOREM ConversationsAreAccepted == Spec => []Conversation
<1>1. AgentInv => Conversation
  BY DEF AgentInv, Talk, Alternates, Answers, Ids, Conversation
<1> QED
  BY <1>1, AgentInvHolds, PTL

\* What a session's row says is what its stream said.
THEOREM RowsTellTheStream == Spec => []RowAgreesWithStream
<1>1. AgentInv => RowAgreesWithStream
  BY RecordsImply DEF AgentInv
<1> QED
  BY <1>1, AgentInvHolds, PTL

\* The plan of a run whose budget is spent lists every call streamed, in order, with its outcome.
THEOREM SpentBudgetPlansAreComplete == Spec => []BudgetPlanComplete
<1>1. AgentInv => BudgetPlanComplete
  BY LogImplies DEF AgentInv
<1> QED
  BY <1>1, AgentInvHolds, PTL

-------------------------------------------------------------------------------
\* The console and the proxy.

StreamTypeOK ==
  /\ console \in {"idle", "running", "stopped"} /\ shown \in Seq(Events) /\ alert \in BOOLEAN
  /\ proxy \in {"idle", "connecting", "piping", "over", "dead"}
  /\ closed \in BOOLEAN /\ listening \in BOOLEAN
  /\ body \in {"none", "open", "ended", "timedout", "destroyed"} /\ piped \in 0..Len(events)
  /\ client \in {"none", "open", "refused", "broken", "aborted", "gone", "ended"}
  /\ downstream \in Seq(Events)
  /\ faults \in 0..MaxFaults

\* What is shown and what is under way continue each other, up to what was read of the stream
\* while there is somebody to write it to.
Follow ==
  /\ Len(shown) + Len(downstream) <= piped
  /\ client \in {"open", "ended"} => Len(shown) + Len(downstream) = piped
  /\ \A n \in 1..Len(shown) : shown[n] = events[n]
  /\ \A n \in 1..Len(downstream) : downstream[n] = events[Len(shown) + n]

\* How the two ends of the proxy go together.
Wires ==
  /\ console = "idle" => client = "none" /\ proxy = "idle" /\ piped = 0
  /\ client \in {"aborted", "gone"} => console = "stopped"
  /\ client = "refused" => pc = "new" /\ proxy = "over" /\ piped = 0
  /\ client = "broken" \/ proxy = "dead" => faults > 0
  /\ client = "ended" => body \in {"ended", "timedout"}
  /\ proxy = "idle" => pc = "new"
  /\ proxy \in {"idle", "connecting"} => body = "none" /\ piped = 0
  /\ body \in {"ended", "timedout"} => proxy = "over"
  /\ body = "destroyed" => proxy = "over" /\ client = "gone"
  /\ pc = "cancelled" => faults > 0 \/ body \in {"destroyed", "timedout"}
  /\ client = "ended" /\ body = "ended" /\ faults = 0 => pc = "ended" /\ piped = Len(events)

\* A console that runs has not seen the outcome; one that has stopped by itself, without a
\* fault, has seen it last, or was refused, or is one whose proxy gave up.
AtOutcome ==
  /\ console = "running" => \A n \in 1..Len(shown) : shown[n].type \notin {"done", "error"}
  /\ console = "stopped" /\ faults = 0 /\ client \notin {"aborted", "gone"}
       => \/ shown # <<>> /\ shown[Len(shown)].type \in {"done", "error"}
          \/ shown = <<>> /\ alert /\ client = "refused"
          \/ body = "timedout"

StreamInv == StreamTypeOK /\ Follow /\ Wires /\ AtOutcome

LEMMA StreamInvInit == Init => StreamInv
<1> SUFFICES ASSUME Init PROVE StreamInv
  OBVIOUS
<1>1. events = <<>> /\ pc = "new"
  BY DEF Init, AgentInit
<1>2. 0 \in 0..Len(events) /\ 0 \in 0..MaxFaults
  BY <1>1, FaultsAssumption
<1>3. StreamTypeOK
  <2>1. shown \in Seq(Events) /\ downstream \in Seq(Events)
    BY DEF Init
  <2> QED
    BY <1>2, <2>1 DEF Init, StreamTypeOK
<1>4. Follow /\ Wires /\ AtOutcome
  BY <1>1 DEF Init, Follow, Wires, AtOutcome
<1> QED
  BY <1>3, <1>4 DEF StreamInv

\* A step of the coordinator alone: what was shown and piped is still the beginning of the stream.
LEMMA AgentKeepsStream ==
  ASSUME AgentInv, StreamInv, AgentStep,
         UNCHANGED <<console, shown, alert, proxy, closed, listening, body, piped, client,
                     downstream>>,
         faults' \in 0..MaxFaults, faults' >= faults,
         pc' = "cancelled" => faults' > 0 \/ body \in {"destroyed", "timedout"},
         pc # "new" \/ proxy = "connecting"
  PROVE  StreamInv'
<1>1. Extends(events, events') /\ pc # "ended"
  BY AgentExtends, ClosedStep DEF AgentInv
<1>2. events \in Seq(Events) /\ events' \in Seq(Events)
  BY AgentTypedStep DEF AgentInv, AgentTyped, AgentTypeOK
<1>3. piped \in 0..Len(events')
  BY <1>1, <1>2 DEF StreamInv, StreamTypeOK, Extends
<1>4. StreamTypeOK'
  BY <1>3 DEF StreamInv, StreamTypeOK
<1>5. Follow'
  <2>1. \A n \in 1..Len(events) : events'[n] = events[n]
    BY <1>1 DEF Extends
  <2>2. \A n \in 1..Len(shown) : n \in 1..Len(events)
    BY <1>2 DEF StreamInv, StreamTypeOK, Follow
  <2>3. \A n \in 1..Len(downstream) : Len(shown) + n \in 1..Len(events)
    BY <1>2 DEF StreamInv, StreamTypeOK, Follow
  <2> QED
    BY <2>1, <2>2, <2>3 DEF StreamInv, Follow
<1>6. Wires'
  BY <1>1 DEF StreamInv, StreamTypeOK, Wires
<1>7. AtOutcome'
  BY DEF StreamInv, StreamTypeOK, AtOutcome
<1> QED
  BY <1>4, <1>5, <1>6, <1>7 DEF StreamInv

LEMMA RunKeeps == ASSUME AgentInv, StreamInv, Run PROVE StreamInv'
<1> USE DEF Run, StreamInv
<1>1. UNCHANGED <<events, pc, shown, downstream, piped, faults>>
  BY DEF agentVars
<1>2. piped = 0 /\ Len(shown) = 0 /\ Len(downstream) = 0
  BY DEF StreamTypeOK, Follow, Wires
<1>3. StreamTypeOK'
  BY <1>1 DEF StreamTypeOK
<1>4. Follow'
  BY <1>1, <1>2 DEF Follow
<1>5. Wires' /\ AtOutcome'
  BY <1>1, <1>2 DEF Wires, AtOutcome
<1> QED
  BY <1>3, <1>4, <1>5

LEMMA ShowKeeps == ASSUME AgentInv, StreamInv, Show PROVE StreamInv'
<1> USE DEF Show, StreamInv
<1> DEFINE d == Head(downstream)
<1>1. UNCHANGED <<events, pc, piped, faults, client, proxy, body>>
  BY DEF agentVars
<1>2. /\ shown \in Seq(Events) /\ downstream \in Seq(Events) /\ downstream # <<>>
      /\ d \in Events /\ Tail(downstream) \in Seq(Events)
  BY DEF StreamTypeOK
<1>3. /\ d = downstream[1] /\ 1 \in 1..Len(downstream)
      /\ Len(Tail(downstream)) = Len(downstream) - 1
      /\ \A n \in 1..Len(Tail(downstream)) : Tail(downstream)[n] = downstream[n + 1]
                                             /\ n + 1 \in 1..Len(downstream)
  BY <1>2
<1>4. shown' = Append(shown, d) /\ downstream' = Tail(downstream)
  OBVIOUS
<1>5. console' = IF d.type \in {"done", "error"} THEN "stopped" ELSE "running"
  OBVIOUS
<1> HIDE DEF d
<1>6. /\ Len(shown') = Len(shown) + 1 /\ shown'[Len(shown) + 1] = d
      /\ \A n \in 1..Len(shown) : shown'[n] = shown[n]
      /\ \A n \in 1..Len(shown') : n \in 1..Len(shown) \/ n = Len(shown) + 1
      /\ Len(shown) \in Nat /\ Len(downstream) \in Nat
  BY <1>2, <1>4
<1>7. StreamTypeOK'
  BY <1>1, <1>2, <1>4, <1>5 DEF StreamTypeOK
<1>8. Follow'
  <2>1. /\ Len(shown') + Len(downstream') = Len(shown) + Len(downstream)
    BY <1>3, <1>4, <1>6
  <2>2. \A n \in 1..Len(shown') : shown'[n] = events[n]
    BY <1>3, <1>6 DEF Follow
  <2>3. \A n \in 1..Len(downstream') : downstream'[n] = events[Len(shown') + n]
    <3>1. SUFFICES ASSUME NEW n \in 1..Len(downstream')
                   PROVE  downstream'[n] = events[Len(shown') + n]
      OBVIOUS
    <3>2. downstream'[n] = downstream[n + 1] /\ n + 1 \in 1..Len(downstream)
      BY <1>3, <1>4
    <3>3. Len(shown) + (n + 1) = Len(shown') + n
      BY <1>6
    <3> QED
      BY <3>2, <3>3 DEF Follow
  <2> QED
    BY <1>1, <2>1, <2>2, <2>3 DEF Follow
<1>9. Wires'
  BY <1>1, <1>5 DEF Wires
<1>10. AtOutcome'
  <2>1. console = "running" /\ \A n \in 1..Len(shown) : shown[n].type \notin {"done", "error"}
    BY DEF AtOutcome
  <2>2. CASE d.type \in {"done", "error"}
    <3>1. shown' # <<>> /\ shown'[Len(shown')] = d
      BY <1>6
    <3> QED
      BY <1>5, <2>2, <3>1 DEF AtOutcome
  <2>3. CASE d.type \notin {"done", "error"}
    BY <1>5, <1>6, <2>1, <2>3 DEF AtOutcome
  <2> QED
    BY <2>2, <2>3
<1> QED
  BY <1>7, <1>8, <1>9, <1>10

\* A response that ends before the outcome was shown has been cut short by a fault.
LEMMA StreamEndsKeeps == ASSUME AgentInv, StreamInv, StreamEnds PROVE StreamInv'
<1> USE DEF StreamEnds, StreamInv
<1>1. UNCHANGED <<events, pc, shown, downstream, piped, client, proxy, body, faults>>
  BY DEF agentVars
<1>2. StreamTypeOK' /\ Follow' /\ Wires'
  BY <1>1 DEF StreamTypeOK, Follow, Wires
<1>3. ASSUME faults = 0, body # "timedout" PROVE FALSE
  <2>1. pc = "ended" /\ piped = Len(events)
    BY <1>3 DEF Wires
  <2>2. events \in Seq(Events) /\ events # <<>> /\ events[Len(events)].type = "done"
    BY <2>1 DEF AgentInv, AgentTyped, AgentTypeOK, Closed
  <2>3. Len(shown) = Len(events) /\ Len(events) \in 1..Len(shown)
    BY <2>1, <2>2 DEF StreamTypeOK, Follow
  <2>4. shown[Len(events)].type = "done"
    BY <2>2, <2>3 DEF Follow
  <2> QED
    BY <2>3, <2>4 DEF AtOutcome
<1>4. AtOutcome'
  BY <1>1, <1>3 DEF AtOutcome
<1> QED
  BY <1>2, <1>4

LEMMA StopsKeep == ASSUME AgentInv, StreamInv, StreamFails \/ StopRun PROVE StreamInv'
<1> USE DEF StreamFails, StopRun, StreamInv
<1>1. UNCHANGED <<events, pc, shown, piped, proxy, body, faults>> /\ console' = "stopped"
      /\ downstream' = <<>> /\ console = "running"
  BY DEF agentVars
<1>2. /\ (client' = client /\ client \in {"refused", "broken"}) \/ client' = "aborted"
      /\ alert' \in BOOLEAN /\ UNCHANGED <<closed, listening>>
  BY DEF StreamTypeOK
<1>3. StreamTypeOK'
  BY <1>1, <1>2 DEF StreamTypeOK
<1>4. Follow'
  BY <1>1, <1>2 DEF StreamTypeOK, Follow
<1>5. Wires'
  BY <1>1, <1>2 DEF Wires
<1>6. AtOutcome'
  <2>1. CASE client' = "refused"
    <3>1. piped = 0 /\ shown = <<>>
      BY <1>2, <2>1 DEF StreamTypeOK, Follow, Wires
    <3>2. alert'
      BY <1>2, <2>1
    <3> QED
      BY <1>1, <2>1, <3>1, <3>2 DEF AtOutcome
  <2>2. CASE client' # "refused"
    BY <1>1, <1>2, <2>2 DEF AtOutcome, Wires
  <2> QED
    BY <2>1, <2>2
<1> QED
  BY <1>3, <1>4, <1>5, <1>6

LEMMA AcceptKeeps == ASSUME AgentInv, StreamInv, Accept \/ Invalid PROVE StreamInv'
BY DEF Accept, Invalid, StreamInv, StreamTypeOK, Follow, Wires, AtOutcome, agentVars

LEMMA UnavailableKeeps == ASSUME AgentInv, StreamInv, Unavailable PROVE StreamInv'
<1> USE DEF Unavailable, StreamInv
<1>1. UNCHANGED <<events, pc, shown, downstream, piped, body, console, alert, closed, listening>>
  BY DEF agentVars
<1>2. faults' \in 0..MaxFaults /\ faults' >= faults
  BY FaultsAssumption DEF StreamTypeOK, Fault
<1>3. client' = "refused" \/ (client' = client /\ client # "open")
  OBVIOUS
<1>4. StreamTypeOK' /\ Follow' /\ Wires' /\ AtOutcome'
  BY <1>1, <1>2, <1>3 DEF StreamTypeOK, Follow, Wires, AtOutcome
<1> QED
  BY <1>4

LEMMA OpenKeeps == ASSUME AgentInv, StreamInv, Open PROVE StreamInv'
BY DEF Open, StreamInv, StreamTypeOK, Follow, Wires, AtOutcome, agentVars

LEMMA PipeKeeps == ASSUME AgentInv, StreamInv, Pipe PROVE StreamInv'
<1> USE DEF Pipe, StreamInv
<1>1. UNCHANGED <<events, pc, shown, body, proxy, client, console, alert, closed, listening,
                  faults>>
  BY DEF agentVars
<1>2. events \in Seq(Events) /\ shown \in Seq(Events) /\ downstream \in Seq(Events)
  BY DEF StreamTypeOK, AgentInv, AgentTyped, AgentTypeOK
<1>3. piped \in Nat /\ piped + 1 \in 1..Len(events) /\ piped' = piped + 1
  BY <1>2 DEF StreamTypeOK
<1>4. CASE client = "open"
  <2> DEFINE e == events[piped + 1]
  <2>1. downstream' = Append(downstream, e) /\ e \in Events
    BY <1>2, <1>3, <1>4
  <2>2. e = events[Len(shown) + (Len(downstream) + 1)]
    BY <1>2, <1>3, <1>4 DEF Follow
  <2> HIDE DEF e
  <2>3. /\ Len(downstream') = Len(downstream) + 1 /\ downstream'[Len(downstream) + 1] = e
        /\ \A n \in 1..Len(downstream) : downstream'[n] = downstream[n]
        /\ \A n \in 1..Len(downstream') : n \in 1..Len(downstream) \/ n = Len(downstream) + 1
        /\ Len(shown) \in Nat /\ Len(downstream) \in Nat
    BY <1>2, <2>1
  <2>4. StreamTypeOK'
    BY <1>1, <1>2, <1>3, <2>1 DEF StreamTypeOK
  <2>5. Follow'
    BY <1>1, <1>3, <1>4, <2>2, <2>3 DEF Follow
  <2>6. Wires' /\ AtOutcome'
    BY <1>1, <1>4 DEF Wires, AtOutcome
  <2> QED
    BY <2>4, <2>5, <2>6
<1>5. CASE client # "open"
  <2>1. downstream' = downstream
    BY <1>5
  <2>2. client # "ended"
    BY DEF Wires
  <2>3. StreamTypeOK'
    BY <1>1, <1>2, <1>3, <2>1 DEF StreamTypeOK
  <2>4. Follow'
    BY <1>1, <1>2, <1>3, <1>5, <2>1, <2>2 DEF Follow
  <2>5. Wires' /\ AtOutcome'
    BY <1>1, <2>2 DEF Wires, AtOutcome
  <2> QED
    BY <2>3, <2>4, <2>5
<1> QED
  BY <1>4, <1>5

LEMMA PipeEndsKeeps == ASSUME AgentInv, StreamInv, PipeEnds PROVE StreamInv'
<1> USE DEF PipeEnds, StreamInv
<1>1. UNCHANGED <<events, pc, shown, downstream, piped, console, alert, closed, listening, faults>>
  BY DEF agentVars
<1>2. \/ client' = "ended" /\ client = "open"
      \/ client' = client /\ client \notin {"open", "ended"}
  BY DEF Wires
<1>3. body' = "ended" /\ (faults = 0 => pc = "ended" /\ piped = Len(events))
  BY DEF Wires, StreamTypeOK
<1>4. StreamTypeOK' /\ Follow'
  BY <1>1, <1>2 DEF StreamTypeOK, Follow
<1>5. Wires' /\ AtOutcome'
  BY <1>1, <1>2, <1>3 DEF Wires, AtOutcome
<1> QED
  BY <1>4, <1>5

LEMMA BodyTimeoutKeeps == ASSUME AgentInv, StreamInv, BodyTimeout PROVE StreamInv'
BY DEF BodyTimeout, StreamInv, StreamTypeOK, Follow, Wires, AtOutcome, agentVars

LEMMA ClientGoneKeeps == ASSUME AgentInv, StreamInv, ClientGone PROVE StreamInv'
BY DEF ClientGone, StreamInv, StreamTypeOK, Follow, Wires, AtOutcome, agentVars

LEMMA BackendDiesKeeps == ASSUME AgentInv, StreamInv, BackendDies PROVE StreamInv'
<1> USE DEF BackendDies, StreamInv
<1>1. UNCHANGED <<events, pc, shown, downstream, piped, body, console, alert, closed, listening>>
  BY DEF agentVars
<1>2. faults' \in 0..MaxFaults /\ faults' > 0
  BY FaultsAssumption DEF StreamTypeOK, Fault
<1>3. client' = "broken" \/ (client' = client /\ client # "open")
  OBVIOUS
<1>4. StreamTypeOK' /\ Follow'
  BY <1>1, <1>2, <1>3 DEF StreamTypeOK, Follow
<1>5. Wires' /\ AtOutcome'
  BY <1>1, <1>2, <1>3 DEF Wires, AtOutcome
<1> QED
  BY <1>4, <1>5

\* The steps that are the coordinator's: it begins, advances, dies or is cancelled.
LEMMA CoordinatorKeeps ==
  ASSUME AgentInv, StreamInv, Answer \/ AgentDies \/ ProxyGone \/ CoordinatorAdvances
  PROVE  StreamInv'
<1>1. CASE Answer \/ CoordinatorAdvances
  <2>1. AgentStep /\ UNCHANGED streamVars
    BY <1>1 DEF Answer, CoordinatorAdvances, AgentStep
  <2>2. pc' # "cancelled"
    BY <1>1 DEF Answer, CoordinatorAdvances, Advance, Begin, Step, ReplyWithPlan, ReplyWithTools,
                ChatFails, CallTool, ToolReturns, EndTurn, SynthesizePlan, ScriptCall,
                ScriptReturns, ScriptPlan, Persist, Done
  <2>3. pc # "new" \/ proxy = "connecting"
    BY <1>1 DEF Answer, CoordinatorAdvances, Advance, Step, ReplyWithPlan, ReplyWithTools,
                ChatFails, CallTool, ToolReturns, EndTurn, SynthesizePlan, ScriptCall,
                ScriptReturns, ScriptPlan, Persist, Done
  <2> QED
    BY <2>1, <2>2, <2>3, AgentKeepsStream DEF streamVars, StreamInv, StreamTypeOK
<1>2. CASE AgentDies
  <2>1. faults' \in 0..MaxFaults /\ faults' > 0 /\ faults' >= faults
    BY <1>2, FaultsAssumption DEF AgentDies, Fault, StreamInv, StreamTypeOK
  <2> QED
    BY <1>2, <2>1, AgentKeepsStream DEF AgentDies, AgentStep, Cancel
<1>3. CASE ProxyGone
  <2>1. faults > 0 \/ body \in {"destroyed", "timedout"}
    BY <1>3 DEF ProxyGone, StreamInv, Wires
  <2>2. pc # "new"
    BY <1>3 DEF ProxyGone, Cancel
  <2> QED
    BY <1>3, <2>1, <2>2, AgentKeepsStream
       DEF ProxyGone, AgentStep, streamVars, StreamInv, StreamTypeOK
<1> QED
  BY <1>1, <1>2, <1>3

LEMMA StreamInvStep == AgentInv /\ StreamInv /\ [Next]_vars => StreamInv'
<1> SUFFICES ASSUME AgentInv, StreamInv, [Next]_vars PROVE StreamInv'
  OBVIOUS
<1>1. CASE UNCHANGED vars
  BY <1>1 DEF vars, agentVars, streamVars, StreamInv, StreamTypeOK, Follow, Wires, AtOutcome
<1> QED
  BY <1>1, RunKeeps, ShowKeeps, StreamEndsKeeps, StopsKeep, AcceptKeeps, UnavailableKeeps,
     OpenKeeps, PipeKeeps, PipeEndsKeeps, BodyTimeoutKeeps, ClientGoneKeeps, BackendDiesKeeps,
     CoordinatorKeeps
     DEF Next

LEMMA StreamInvHolds == Spec => []StreamInv
BY AgentInvHolds, StreamInvInit, StreamInvStep, PTL DEF Spec

\* Every variable of the coordinator, the proxy and the console keeps its type, and the proxy
\* never reads what was not yielded.
THEOREM StreamTypeCorrect == Spec => []TypeOK
<1>1. AgentInv /\ StreamInv => TypeOK
  BY DEF AgentInv, AgentTyped, StreamInv, StreamTypeOK, TypeOK
<1> QED
  BY <1>1, AgentInvHolds, StreamInvHolds, PTL

LEMMA FollowIsPrefix ==
  ASSUME AgentInv, StreamInv
  PROVE  IsPrefix(shown, events)
<1>1. events \in Seq(Events) /\ shown \in Seq(Events)
  BY DEF AgentInv, AgentTyped, AgentTypeOK, StreamInv, StreamTypeOK
<1>2. Len(shown) <= Len(events) /\ \A n \in 1..Len(shown) : shown[n] = events[n]
  BY <1>1 DEF StreamInv, StreamTypeOK, Follow
<1>3. SubSeq(shown, 1, Len(shown)) = SubSeq(events, 1, Len(shown))
  BY <1>1, <1>2
<1> QED
  BY <1>2, <1>3 DEF IsPrefix

\* The console shows the coordinator's events from the first on, and stops at the outcome unless
\* a process died, its user stopped it, it was refused or its proxy gave up on a silent body.
THEOREM ConsoleShowsTheStream == Spec => []ConsoleFollows
<1>1. AgentInv /\ StreamInv => ConsoleFollows
  BY FollowIsPrefix DEF StreamInv, Wires, AtOutcome, ConsoleFollows
<1> QED
  BY <1>1, AgentInvHolds, StreamInvHolds, PTL
===============================================================================
