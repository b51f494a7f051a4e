--------------------------- MODULE AgentCoordinator ---------------------------
(***************************************************************************)
(* One run of the agent's coordinator                                      *)
(* (services/ml-agent/app/coordinator.py), from the request that starts it *)
(* (/agent/run of main.py) to the row it leaves in agent_sessions.         *)
(*                                                                         *)
(* run() is an async generator: it stops at every yield and at every await *)
(* (the model, a tool, the database).  Each action here goes from one such *)
(* point to the next, and appends to `events` what was yielded.            *)
(*                                                                         *)
(* Abstracted: texts, token counts, inputs and results of tools.  A tool   *)
(* use is its id and its name, a plan is where it came from and what it    *)
(* says of the calls made.                                                 *)
(***************************************************************************)
EXTENDS Naturals, Sequences, FiniteSets, SequencesExt

CONSTANTS
  Tools,        \* tools_by_name
  Unknown,      \* a name the model asks for that is no tool
  Asked,        \* the names the model asks for
  Outcomes,     \* the ways a call ends
  MaxSteps,     \* bound on max_steps
  MaxCalls      \* bound on the tool uses the model asks for

ASSUME AgentAssumption ==
  /\ Unknown \notin Tools /\ Asked \subseteq Tools \cup {Unknown}
  /\ {"forecast_supplier", "optimize_route"} \subseteq Tools
  /\ {"ok", "failed"} \subseteq Outcomes /\ Outcomes \subseteq {"ok", "failed", "untold"}
  /\ MaxSteps \in Nat \ {0} /\ MaxCalls \in Nat

VARIABLES
  pc,           \* where the generator stands
  mode,         \* "llm" when the client has a key, else "deterministic"
  max_steps,
  constraints,  \* which constraints came with the request
  todo,         \* tool uses of this turn not yet executed
  tool_results, \* results of this turn so far
  messages,     \* state.messages
  tool_calls,   \* state.tool_calls
  step_count, finished, error, plan,
  pool,         \* a database is configured
  row,          \* the session's row in agent_sessions
  events        \* everything yielded, in order

agentVars == <<pc, mode, max_steps, constraints, todo, tool_results, messages, tool_calls,
               step_count, finished, error, plan, pool, row, events>>

Points == {"new", "loop", "chat", "turn", "tool", "script", "scripted", "persist", "closing",
           "ended", "cancelled"}

\* A call ends with a result ("ok") or with an exception ("failed"), whose text may be
\* empty ("untold": the timeouts of httpx have none).
Uses    == [id: Nat, name: Tools \cup {Unknown}]
Turns   == [role: {"user", "assistant"}, uses: Seq(Uses), results: Seq(Nat)]
Actions == [name: Tools \cup {Unknown}, ok: BOOLEAN]
Calls   == [id: Nat, name: Tools \cup {Unknown}, outcome: Outcomes \cup {"running"}]
Plans   == [source: {"none", "reply", "budget", "script"}, actions: Seq(Actions)]
NoPlan  == [source |-> "none", actions |-> <<>>]
Rows    == [status: {"none", "completed", "error", "running"}, plan: Plans]
NoRow   == [status |-> "none", plan |-> NoPlan]
Kinds   == {"started", "step", "thought", "tool_call", "tool_result", "plan", "error", "warn",
            "done"}

\* An event: its type, the tool use it is about, and whether it carries the text of an
\* error; and, as history, whether the call it reports failed.
Events      == [type: Kinds, id: Nat, told: BOOLEAN, failed: BOOLEAN]
Event(type) == [type |-> type, id |-> 0, told |-> FALSE, failed |-> FALSE]
Result(use, outcome) ==
  [type |-> "tool_result", id |-> use.id, told |-> outcome = "failed", failed |-> outcome # "ok"]
Emit(es)    == events' = events \o es

GoalTurn           == [role |-> "user", uses |-> <<>>, results |-> <<>>]
AssistantTurn(us)  == [role |-> "assistant", uses |-> us, results |-> <<>>]
ResultsTurn(ids)   == [role |-> "user", uses |-> <<>>, results |-> ids]
ActionsOf(calls)   == [n \in 1..Len(calls) |-> [name |-> calls[n].name,
                                                ok |-> calls[n].outcome = "ok"]]

AgentInit ==
  /\ pc = "new"
  /\ mode \in {"llm", "deterministic"}
  /\ max_steps \in 1..MaxSteps
  /\ constraints \in IF mode = "llm" THEN {{}} ELSE SUBSET {"supplier", "hubs"}
  /\ pool \in BOOLEAN
  /\ todo = <<>> /\ tool_results = <<>> /\ messages = <<>> /\ tool_calls = <<>>
  /\ step_count = 0 /\ finished = FALSE /\ error = FALSE
  /\ plan = NoPlan /\ row = NoRow
  /\ events = <<>>

request == <<mode, max_steps, constraints, pool>>

-------------------------------------------------------------------------------

\* run() up to its first decision.
Script ==
  (IF "supplier" \in constraints THEN <<[id |-> 1, name |-> "forecast_supplier"]>> ELSE <<>>)
    \o (IF "hubs" \in constraints THEN <<[id |-> 2, name |-> "optimize_route"]>> ELSE <<>>)

Begin ==
  /\ pc = "new"
  /\ IF mode = "llm"
       THEN /\ pc' = "loop"
            /\ messages' = <<GoalTurn>>
            /\ Emit(<<Event("started")>>)
            /\ UNCHANGED todo
       ELSE /\ pc' = "script"
            /\ todo' = Script
            /\ Emit(<<Event("started"), Event("thought")>>)
            /\ UNCHANGED messages
  /\ UNCHANGED <<request, tool_results, tool_calls, step_count, finished, error, plan, row>>

\* Faulty variant of Step: the budget is compared one step late.
StepBeyond ==
  /\ pc = "loop"
  /\ ~finished /\ step_count <= max_steps
  /\ step_count' = step_count + 1
  /\ pc' = "chat"
  /\ Emit(<<Event("step")>>)
  /\ UNCHANGED <<request, todo, tool_results, messages, tool_calls, finished, error, plan, row>>

\* _run_llm: one more step, and the model is asked.
Step ==
  /\ pc = "loop"
  /\ ~finished /\ step_count < max_steps
  /\ step_count' = step_count + 1
  /\ pc' = "chat"
  /\ Emit(<<Event("step")>>)
  /\ UNCHANGED <<request, todo, tool_results, messages, tool_calls, finished, error, plan, row>>

\* A reply without tool uses is the plan.
ReplyWithPlan ==
  /\ pc = "chat"
  /\ plan' = [source |-> "reply", actions |-> <<>>]
  /\ messages' = Append(messages, AssistantTurn(<<>>))
  /\ finished' = TRUE
  /\ pc' = "persist"
  /\ Emit(<<Event("thought"), Event("plan")>>)
  /\ UNCHANGED <<request, todo, tool_results, tool_calls, step_count, error, row>>

\* A reply with tool uses is recorded before any of them is executed.
ReplyWithTools ==
  /\ pc = "chat"
  /\ \E n \in 1..(MaxCalls - Len(tool_calls)) : \E names \in [1..n -> Asked] :
       LET uses == [m \in 1..n |-> [id |-> Len(tool_calls) + m, name |-> names[m]]]
       IN  /\ todo' = uses
           /\ messages' = Append(messages, AssistantTurn(uses))
  /\ tool_results' = <<>>
  /\ pc' = "turn"
  /\ Emit(<<Event("thought")>>)
  /\ UNCHANGED <<request, tool_calls, step_count, finished, error, plan, row>>

\* Faulty variant of ChatFails: the run ends without saving the session.
ChatFailsUnsaved ==
  /\ pc = "chat"
  /\ error' = TRUE
  /\ finished' = TRUE
  /\ pc' = "closing"
  /\ Emit(<<Event("error")>>)
  /\ UNCHANGED <<request, todo, tool_results, messages, tool_calls, step_count, plan, row>>

\* The exception of a failed request to the model ends the run.
ChatFails ==
  /\ pc = "chat"
  /\ error' = TRUE
  /\ finished' = TRUE
  /\ pc' = "persist"
  /\ Emit(<<Event("error")>>)
  /\ UNCHANGED <<request, todo, tool_results, messages, tool_calls, step_count, plan, row>>

\* Faulty variant of CallTool: only known tools are logged.
CallToolKnown ==
  /\ pc = "turn" /\ todo # <<>>
  /\ tool_calls' = IF Head(todo).name = Unknown
                     THEN tool_calls
                     ELSE Append(tool_calls, [id |-> Head(todo).id, name |-> Head(todo).name,
                                              outcome |-> "running"])
  /\ pc' = "tool"
  /\ Emit(<<[Event("tool_call") EXCEPT !.id = Head(todo).id]>>)
  /\ UNCHANGED <<request, todo, tool_results, messages, step_count, finished, error, plan, row>>

\* The next tool use is logged, then executed.
CallTool ==
  /\ pc = "turn" /\ todo # <<>>
  /\ tool_calls' = Append(tool_calls, [id |-> Head(todo).id, name |-> Head(todo).name,
                                       outcome |-> "running"])
  /\ pc' = "tool"
  /\ Emit(<<[Event("tool_call") EXCEPT !.id = Head(todo).id]>>)
  /\ UNCHANGED <<request, todo, tool_results, messages, step_count, finished, error, plan, row>>

\* Faulty variant of ToolReturns: an unknown tool is passed over.
ToolReturnsKnown(outcome) ==
  /\ pc = "tool"
  /\ Head(todo).name = Unknown => outcome = "failed"
  /\ tool_calls' = [tool_calls EXCEPT ![Len(tool_calls)].outcome = outcome]
  /\ tool_results' = IF Head(todo).name = Unknown THEN tool_results
                                                  ELSE Append(tool_results, Head(todo).id)
  /\ todo' = Tail(todo)
  /\ pc' = "turn"
  /\ Emit(<<Result(Head(todo), outcome)>>)
  /\ UNCHANGED <<request, messages, step_count, finished, error, plan, row>>

\* The handler returns or raises; an unknown tool is an error of its own.
ToolReturns(outcome) ==
  /\ pc = "tool"
  /\ Head(todo).name = Unknown => outcome = "failed"
  /\ tool_calls' = [tool_calls EXCEPT ![Len(tool_calls)].outcome = outcome]
  /\ tool_results' = Append(tool_results, Head(todo).id)
  /\ todo' = Tail(todo)
  /\ pc' = "turn"
  /\ Emit(<<Result(Head(todo), outcome)>>)
  /\ UNCHANGED <<request, messages, step_count, finished, error, plan, row>>

\* All results of the turn go back to the model in one message.
EndTurn ==
  /\ pc = "turn" /\ todo = <<>>
  /\ messages' = Append(messages, ResultsTurn(tool_results))
  /\ pc' = "loop"
  /\ UNCHANGED <<request, todo, tool_results, tool_calls, step_count, finished, error, plan,
                 row, events>>

\* Faulty variant of SynthesizePlan: the run is not marked as finished.
SynthesizePlanOnly ==
  /\ pc = "loop"
  /\ ~finished /\ step_count >= max_steps
  /\ plan' = [source |-> "budget", actions |-> ActionsOf(tool_calls)]
  /\ pc' = "persist"
  /\ Emit(<<Event("step"), Event("plan")>>)
  /\ UNCHANGED <<request, todo, tool_results, messages, tool_calls, step_count, finished, error,
                 row>>

\* The step budget is spent: the plan lists the calls made.
SynthesizePlan ==
  /\ pc = "loop"
  /\ ~finished /\ step_count >= max_steps
  /\ plan' = [source |-> "budget", actions |-> ActionsOf(tool_calls)]
  /\ finished' = TRUE
  /\ pc' = "persist"
  /\ Emit(<<Event("step"), Event("plan")>>)
  /\ UNCHANGED <<request, todo, tool_results, messages, tool_calls, step_count, error, row>>

-------------------------------------------------------------------------------
\* _run_deterministic.

ScriptCall ==
  /\ pc = "script" /\ todo # <<>>
  /\ pc' = "scripted"
  /\ Emit(<<[Event("tool_call") EXCEPT !.id = Head(todo).id]>>)
  /\ UNCHANGED <<request, todo, tool_results, messages, tool_calls, step_count, finished, error,
                 plan, row>>

\* Only a call that succeeded is logged in tool_calls.
ScriptReturns(outcome) ==
  /\ pc = "scripted"
  /\ tool_calls' = IF outcome = "ok"
                     THEN Append(tool_calls, [id |-> Head(todo).id, name |-> Head(todo).name,
                                              outcome |-> "ok"])
                     ELSE tool_calls
  /\ todo' = Tail(todo)
  /\ pc' = "script"
  /\ Emit(<<Result(Head(todo), outcome)>>)
  /\ UNCHANGED <<request, tool_results, messages, step_count, finished, error, plan, row>>

ScriptPlan ==
  /\ pc = "script" /\ todo = <<>>
  /\ plan' = [source |-> "script", actions |-> ActionsOf(tool_calls)]
  /\ finished' = TRUE
  /\ pc' = "persist"
  /\ Emit(<<Event("plan")>>)
  /\ UNCHANGED <<request, todo, tool_results, messages, tool_calls, step_count, error, row>>

-------------------------------------------------------------------------------
\* The end of run().

Status == IF error THEN "error" ELSE IF finished THEN "completed" ELSE "running"

\* on_persist: nothing without a database; a failed upsert, which may have been applied,
\* is a warning.
Persist ==
  /\ pc = "persist"
  /\ \/ ~pool /\ UNCHANGED <<row, events>>
     \/ pool /\ row' = [status |-> Status, plan |-> plan] /\ UNCHANGED events
     \/ /\ pool
        /\ row' \in {row, [status |-> Status, plan |-> plan]}
        /\ Emit(<<Event("warn")>>)
  /\ pc' = "closing"
  /\ UNCHANGED <<request, todo, tool_results, messages, tool_calls, step_count, finished, error,
                 plan>>

Done ==
  /\ pc = "closing"
  /\ pc' = "ended"
  /\ Emit(<<Event("done")>>)
  /\ UNCHANGED <<request, todo, tool_results, messages, tool_calls, step_count, finished, error,
                 plan, row>>

\* The task that runs the generator is cancelled, or its process dies: nothing after the
\* point it stands at is executed, though an upsert under way may be applied.
Cancel ==
  /\ pc \notin {"new", "ended", "cancelled"}
  /\ pc' = "cancelled"
  /\ \/ UNCHANGED row
     \/ pc = "persist" /\ pool /\ row' = [status |-> Status, plan |-> plan]
  /\ UNCHANGED <<request, todo, tool_results, messages, tool_calls, step_count, finished, error,
                 plan, events>>

Advance ==
  \/ Step \/ ReplyWithPlan \/ ReplyWithTools \/ ChatFails
  \/ CallTool \/ EndTurn \/ SynthesizePlan \/ ScriptCall \/ ScriptPlan \/ Persist \/ Done
  \/ \E outcome \in Outcomes : ToolReturns(outcome) \/ ScriptReturns(outcome)

AgentSpec == AgentInit /\ [][Begin \/ Advance \/ Cancel]_agentVars
-------------------------------------------------------------------------------
\* Properties.

AgentTypeOK ==
  /\ pc \in Points /\ mode \in {"llm", "deterministic"} /\ max_steps \in 1..MaxSteps
  /\ constraints \subseteq {"supplier", "hubs"}
  /\ todo \in Seq(Uses) /\ tool_results \in Seq(Nat)
  /\ messages \in Seq(Turns) /\ tool_calls \in Seq(Calls)
  /\ step_count \in 0..max_steps /\ finished \in BOOLEAN /\ error \in BOOLEAN
  /\ plan \in Plans /\ pool \in BOOLEAN /\ row \in Rows
  /\ events \in Seq(Events)

\* What is sent to the model is a conversation it accepts: user and assistant alternate,
\* starting with the user, and every tool use is answered in the very next message, in
\* order, whether the tool succeeded, failed or does not exist.
Conversation ==
  pc = "chat" =>
    /\ Len(messages) % 2 = 1
    /\ \A n \in 1..Len(messages) :
         messages[n].role = IF n % 2 = 1 THEN "user" ELSE "assistant"
    /\ \A n \in 2..Len(messages) :
         messages[n].role = "user" =>
           messages[n].results = [m \in 1..Len(messages[n - 1].uses) |-> messages[n - 1].uses[m].id]

\* What a session's row says is what its stream said: completed with the plan that was
\* streamed, or failed with none, never still running; and a client that was told the run is
\* done finds it in the table, or was warned.
RowAgreesWithStream ==
  LET Streamed(type) == \E n \in 1..Len(events) : events[n].type = type
  IN  /\ row # NoRow =>
           \/ /\ row.status = "completed" /\ row.plan = plan
              /\ Streamed("plan") /\ ~Streamed("error")
           \/ /\ row.status = "error" /\ row.plan = NoPlan
              /\ Streamed("error") /\ ~Streamed("plan")
      /\ pc = "ended" /\ pool => row # NoRow \/ Streamed("warn")

\* The plan of a run whose budget is spent lists every call that was streamed, in order,
\* with its outcome.
BudgetPlanComplete ==
  plan.source = "budget" =>
    LET Called(n) == {m \in 1..n : events[m].type = "tool_call"}
    IN  /\ Len(tool_calls) = Cardinality(Called(Len(events)))
        /\ \A n \in Called(Len(events)) : tool_calls[Cardinality(Called(n))].id = events[n].id
        /\ \A n \in 1..Len(tool_calls) : tool_calls[n].outcome # "running"
        /\ plan.actions = ActionsOf(tool_calls)
===============================================================================
