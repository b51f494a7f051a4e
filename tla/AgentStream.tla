------------------------------ MODULE AgentStream -----------------------------
(***************************************************************************)
(* A run of the agent as its user sees it: the console of the frontend     *)
(* (apps/frontend/src/views/AgentConsole.tsx, lib/sse.ts), the proxy of    *)
(* the backend (apps/backend/src/routes/agent.ts) and the coordinator of   *)
(* ml-agent, connected by two HTTP responses that stream the events.       *)
(*                                                                         *)
(* A frame of the stream is one event; cutting the bytes into chunks and   *)
(* putting the frames together again is left out.                          *)
(***************************************************************************)
EXTENDS AgentCoordinator

CONSTANT MaxFaults      \* bound on dead processes and broken connections

ASSUME FaultsAssumption == MaxFaults \in Nat

VARIABLES
  console,      \* the console's run
  shown,        \* the console's events
  alert,        \* the console shows an error of its own
  proxy,        \* the backend's handler of /api/agent/run
  closed,       \* the request's 'close' event has been emitted
  listening,    \* ... and somebody listened
  body,         \* upstream.body
  piped,        \* events of the coordinator read by the proxy
  client,       \* the connection between the console and the backend
  downstream,   \* frames written to it and not yet read
  faults

streamVars == <<console, shown, alert, proxy, closed, listening, body, piped, client, downstream,
                faults>>
vars == <<agentVars, streamVars>>

Init ==
  /\ AgentInit
  /\ console = "idle" /\ shown = <<>> /\ alert = FALSE
  /\ proxy = "idle" /\ closed = FALSE /\ listening = FALSE /\ body = "none" /\ piped = 0
  /\ client = "none" /\ downstream = <<>>
  /\ faults = 0

Fault == faults < MaxFaults /\ faults' = faults + 1

-------------------------------------------------------------------------------
\* The console.

\* onRun: the request is sent.
Run ==
  /\ console = "idle"
  /\ console' = "running"
  /\ client' = "open"
  /\ UNCHANGED <<agentVars, shown, alert, proxy, closed, listening, body, piped, downstream, faults>>

\* A frame is shown; "done" and "error" end the run, and the rest is not read.
Show ==
  /\ console = "running" /\ downstream # <<>>
  /\ shown' = Append(shown, Head(downstream))
  /\ downstream' = Tail(downstream)
  /\ console' = IF Head(downstream).type \in {"done", "error"} THEN "stopped" ELSE "running"
  /\ UNCHANGED <<agentVars, alert, proxy, closed, listening, body, piped, client, faults>>

\* The response ends: so does the run, with what it has shown.
StreamEnds ==
  /\ console = "running" /\ client = "ended" /\ downstream = <<>>
  /\ console' = "stopped"
  /\ UNCHANGED <<agentVars, shown, alert, proxy, closed, listening, body, piped, client, downstream,
                 faults>>

\* The request is refused, or its connection breaks.
StreamFails ==
  /\ console = "running" /\ client \in {"refused", "broken"}
  /\ console' = "stopped"
  /\ alert' = TRUE
  /\ downstream' = <<>>
  /\ UNCHANGED <<agentVars, shown, proxy, closed, listening, body, piped, client, faults>>

\* onStop: the request is aborted.
StopRun ==
  /\ console = "running"
  /\ console' = "stopped"
  /\ client' = "aborted"
  /\ downstream' = <<>>
  /\ UNCHANGED <<agentVars, shown, alert, proxy, closed, listening, body, piped, faults>>

-------------------------------------------------------------------------------
\* The proxy.

\* The handler runs once the request's body has been read, which is when the server emits
\* the request's 'close' event (Node 16 and later).
Accept ==
  /\ proxy = "idle" /\ client \in {"open", "aborted"}
  /\ proxy' = "connecting"
  /\ closed' = TRUE
  /\ UNCHANGED <<agentVars, console, shown, alert, listening, body, piped, client, downstream, faults>>

\* RunBody.safeParse fails, for a goal that is too long say: 400, and nothing is asked upstream.
Invalid ==
  /\ proxy = "idle" /\ client \in {"open", "aborted"}
  /\ proxy' = "over"
  /\ closed' = TRUE
  /\ client' = IF client = "open" THEN "refused" ELSE client
  /\ UNCHANGED <<agentVars, console, shown, alert, listening, body, piped, downstream, faults>>

\* ml-agent answers, and its coordinator starts.
Answer ==
  /\ proxy = "connecting"
  /\ Begin
  /\ UNCHANGED streamVars

\* It cannot be reached, 503, or it finds the body invalid itself, which counts the goal's
\* characters in another way: its 422 is passed on.
Unavailable ==
  /\ proxy = "connecting" /\ pc = "new"
  /\ Fault \/ UNCHANGED faults
  /\ proxy' = "over"
  /\ client' = IF client = "open" THEN "refused" ELSE client
  /\ UNCHANGED <<agentVars, console, shown, alert, closed, listening, body, piped, downstream>>

\* The response is opened, the pipe laid, and the 'close' listener attached.
Open ==
  /\ proxy = "connecting" /\ pc # "new"
  /\ proxy' = "piping"
  /\ body' = "open"
  /\ listening' = ~closed
  /\ UNCHANGED <<agentVars, console, shown, alert, closed, piped, client, downstream, faults>>

\* Faulty variant of Pipe: a chunk that does not fit is dropped.
PipeDropping ==
  /\ proxy = "piping" /\ body = "open" /\ piped < Len(events)
  /\ piped' = piped + 1
  /\ downstream' = IF client = "open" /\ Len(downstream) < 2
                     THEN Append(downstream, events[piped + 1])
                     ELSE downstream
  /\ UNCHANGED <<agentVars, console, shown, alert, proxy, closed, listening, body, client, faults>>

\* 'data': what is read upstream is written to the response, whoever listens there.
Pipe ==
  /\ proxy = "piping" /\ body = "open" /\ piped < Len(events)
  /\ piped' = piped + 1
  /\ downstream' = IF client = "open" THEN Append(downstream, events[piped + 1]) ELSE downstream
  /\ UNCHANGED <<agentVars, console, shown, alert, proxy, closed, listening, body, client, faults>>

\* Faulty variant of PipeEnds: an upstream that fails leaves the response open.
PipeEndsClean ==
  /\ proxy = "piping" /\ body = "open"
  /\ pc = "ended" /\ piped = Len(events)
  /\ proxy' = "over"
  /\ body' = "ended"
  /\ client' = IF client = "open" THEN "ended" ELSE client
  /\ UNCHANGED <<agentVars, console, shown, alert, closed, listening, piped, downstream, faults>>

\* 'end' after the last event, or 'error' at any time once the coordinator is gone: the
\* response is ended either way.
PipeEnds ==
  /\ proxy = "piping" /\ body = "open"
  /\ pc = "cancelled" \/ (pc = "ended" /\ piped = Len(events))
  /\ proxy' = "over"
  /\ body' = "ended"
  /\ client' = IF client = "open" THEN "ended" ELSE client
  /\ UNCHANGED <<agentVars, console, shown, alert, closed, listening, piped, downstream, faults>>

\* undici gives up on a body silent for 300 s, while the model or the database is awaited, which
\* may take longer: 'error' again, and the response is ended like any other.
BodyTimeout ==
  /\ proxy = "piping" /\ body = "open"
  /\ pc \in {"chat", "persist"} /\ piped = Len(events)
  /\ proxy' = "over"
  /\ body' = "timedout"
  /\ client' = IF client = "open" THEN "ended" ELSE client
  /\ UNCHANGED <<agentVars, console, shown, alert, closed, listening, piped, downstream, faults>>

\* The backend notices that its client has gone.
ClientGone ==
  /\ proxy = "piping" /\ body = "open" /\ client = "aborted"
  /\ client' = "gone"
  /\ body' = IF listening THEN "destroyed" ELSE body
  /\ proxy' = IF listening THEN "over" ELSE proxy
  /\ UNCHANGED <<agentVars, console, shown, alert, closed, listening, piped, downstream, faults>>

-------------------------------------------------------------------------------
\* Faults.

\* ml-agent dies.
AgentDies == Cancel /\ Fault /\ UNCHANGED <<console, shown, alert, proxy, closed, listening, body,
                                            piped, client, downstream>>

\* The backend dies, and both its connections with it.
BackendDies ==
  /\ proxy \in {"connecting", "piping"}
  /\ Fault
  /\ proxy' = "dead"
  /\ client' = IF client = "open" THEN "broken" ELSE client
  /\ UNCHANGED <<agentVars, console, shown, alert, closed, listening, body, piped, downstream>>

\* ml-agent notices that the proxy has gone, and cancels the run.
ProxyGone ==
  /\ proxy = "dead" \/ body \in {"destroyed", "timedout"}
  /\ Cancel
  /\ UNCHANGED streamVars

CoordinatorAdvances == Advance /\ UNCHANGED streamVars

Next ==
  \/ Run \/ Show \/ StreamEnds \/ StreamFails \/ StopRun
  \/ Accept \/ Invalid \/ Answer \/ Unavailable \/ Open \/ Pipe \/ PipeEnds \/ BodyTimeout
  \/ ClientGone
  \/ AgentDies \/ BackendDies \/ ProxyGone \/ CoordinatorAdvances

Spec == Init /\ [][Next]_vars

\* Event loops run, and whatever is awaited comes or times out (30 s in the HTTP client of
\* the tools, 10 min an attempt in that of the model; the database answers or its connection
\* breaks).  Neither the user nor undici's timer is obliged to anything.
FairSpec ==
  /\ Spec
  /\ WF_vars(Show) /\ WF_vars(StreamEnds) /\ WF_vars(StreamFails)
  /\ WF_vars(Accept) /\ WF_vars(Answer) /\ WF_vars(Open) /\ WF_vars(Pipe) /\ WF_vars(PipeEnds)
  /\ WF_vars(CoordinatorAdvances)
-------------------------------------------------------------------------------
\* Properties.

TypeOK ==
  /\ AgentTypeOK
  /\ console \in {"idle", "running", "stopped"} /\ shown \in Seq(Events) /\ alert \in BOOLEAN
  /\ proxy \in {"idle", "connecting", "piping", "over", "dead"}
  /\ closed \in BOOLEAN /\ listening \in BOOLEAN
  /\ body \in {"none", "open", "ended", "timedout", "destroyed"} /\ piped \in 0..Len(events)
  /\ client \in {"none", "open", "refused", "broken", "aborted", "gone", "ended"}
  /\ downstream \in Seq(Events)
  /\ faults \in 0..MaxFaults

\* The console shows the coordinator's events from the first one on, none lost, repeated or
\* out of order; and when no process has died and nobody has stopped it, it stops at the
\* outcome (the error, or the end with the plan and the result of every call before it), unless
\* the request was refused, which it says, or the proxy gave up on a silent coordinator, which
\* nothing tells it.
ConsoleFollows ==
  LET Outcome == shown # <<>> /\ shown[Len(shown)].type \in {"done", "error"}
      Refused == shown = <<>> /\ alert /\ pc = "new"
  IN  /\ IsPrefix(shown, events)
      /\ console = "stopped" /\ faults = 0 /\ client \notin {"aborted", "gone"}
           => Outcome \/ Refused \/ body = "timedout"

\* The console does not run for ever, whichever process dies.
RunStops == console = "running" ~> console = "stopped"

\* The session of a run that somebody watches to its end is saved, whatever the model and the
\* tools do, or its user is warned: only a fault or the proxy's timeout loses it.
RunIsSaved ==
  pc \in {"loop", "script"} /\ pool ~>
    \/ row # NoRow
    \/ \E n \in 1..Len(events) : events[n].type = "warn"
    \/ faults > 0 \/ body = "timedout" \/ client \in {"aborted", "gone"}
===============================================================================
