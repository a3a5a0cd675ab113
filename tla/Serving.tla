------------------------------ MODULE Serving ------------------------------
(* The process as Slack, the remote agents and the cluster see it: HTTP      *)
(* requests, the work they start (some of it outlives the response), the     *)
(* registry of in-flight tasks, and the shutdown that drains them            *)
(* (server/http-server.ts, router/router.ts, server/in-flight-tasks.ts,      *)
(* server/shutdown.ts, index.ts).  Who is served first is up to the network; *)
(* between two awaits the single JavaScript thread is not interrupted, so an *)
(* action is what runs from one await to the next.                           *)
EXTENDS Naturals, FiniteSets

CONSTANTS
  Event,        \* POST /api/slack/events
  Interaction,  \* POST /api/slack/commands and /api/slack/interactivity
  Push,         \* POST /api/a2a/notifications
  MaxTicks      \* bound: ticks of the task reconciler that find none running

ASSUME ServingAssumption ==
  /\ MaxTicks \in Nat
  /\ Event \cap Interaction = {} /\ Event \cap Push = {} /\ Interaction \cap Push = {}

VARIABLES
  phase,    \* of the process: up, draining, drained, closing, exited, killed
  conn,     \* a request: absent, open (no response yet), refused, answered,
            \* gone (its client closed the connection first)
  job,      \* the promises the requests and the timer start
  pending,  \* InFlightTasks' pending
  awaited,  \* the promises waitForIdle's Promise.all was given
  acked,    \* interactions whose handler has called ctx.ack()
  early     \* history: the jobs begun before the drain was over

vars == <<phase, conn, job, pending, awaited, acked, early>>

Request == Event \cup Interaction \cup Push

Route(e) == <<"route", e>>        \* router.routeEvent of the event
Run(e) == <<"run", e>>            \* the mention the dispatcher runs in the background
Handler(i) == <<"handler", i>>    \* a plugin's onCommand or onBlockAction
Finalize(p) == <<"finalize", p>>  \* responseFinalizer.finalize
Tick(n) == <<"tick", n>>          \* taskReconciler.runOnce

Tracked == {Route(e) : e \in Event} \cup {Run(e) : e \in Event} \cup {Tick(n) : n \in 1..MaxTicks}
Untracked == {Handler(i) : i \in Interaction} \cup {Finalize(p) : p \in Push}
Job == Tracked \cup Untracked

Alive == phase \in {"up", "draining", "drained", "closing"}

TypeOK ==
  /\ phase \in {"up", "draining", "drained", "closing", "exited", "killed"}
  /\ conn \in [Request -> {"absent", "open", "refused", "answered", "gone"}]
  /\ job \in [Job -> {"none", "running", "done"}]
  /\ pending \subseteq Tracked
  /\ awaited \subseteq Tracked
  /\ acked \subseteq Interaction
  /\ early \subseteq Job

Init ==
  /\ phase = "up"
  /\ conn = [r \in Request |-> "absent"]
  /\ job = [j \in Job |-> "none"]
  /\ pending = {} /\ awaited = {} /\ acked = {} /\ early = {}

---------------------------------------------------------------------------
(* Jobs and their tracking.                                                *)

Begin(j) ==
  /\ job[j] = "none"
  /\ job' = [job EXCEPT ![j] = "running"]
  /\ early' = IF phase \in {"up", "draining"} THEN early \cup {j} ELSE early

Track(j) == pending' = pending \cup {j}

\* Mutant: a promise that rejects is not deleted.
EndResolvedOnly(j) ==
  /\ job[j] = "running"
  /\ job' = [job EXCEPT ![j] = "done"]
  /\ pending' \in {pending, pending \ {j}}
  /\ UNCHANGED early

\* track: the settled promise leaves pending whether it resolved or rejected.
End(j) ==
  /\ job[j] = "running"
  /\ job' = [job EXCEPT ![j] = "done"]
  /\ pending' = pending \ {j}
  /\ UNCHANGED early

Answer(r) == conn' = [conn EXCEPT ![r] = IF @ = "open" THEN "answered" ELSE @]

\* Mutant: a refused request is hung up on without a response.
RefuseHangsUp(r) ==
  /\ Alive
  /\ conn[r] = "open"
  /\ conn' = [conn EXCEPT ![r] = "reset"]
  /\ UNCHANGED <<phase, job, pending, awaited, acked, early>>

Refuse(r) ==
  /\ Alive
  /\ conn[r] = "open"
  /\ conn' = [conn EXCEPT ![r] = "refused"]
  /\ UNCHANGED <<phase, job, pending, awaited, acked, early>>

---------------------------------------------------------------------------
(* Requests.  A request is open from its first byte; its body arrives, and *)
(* the route runs, in a later step, if the client is still there.          *)

Connect(r) ==
  /\ phase \in {"up", "draining", "drained"}
  /\ conn[r] = "absent"
  /\ conn' = [conn EXCEPT ![r] = "open"]
  /\ UNCHANGED <<phase, job, pending, awaited, acked, early>>

\* The client does not wait any longer.  What its request has started goes on,
\* and its response has nowhere to go.
HangsUp(r) ==
  /\ Alive
  /\ conn[r] = "open"
  /\ conn' = [conn EXCEPT ![r] = "gone"]
  /\ UNCHANGED <<phase, job, pending, awaited, acked, early>>

\* The middleware's 401, for the three Slack paths.
Unsigned(r) == r \in Event \cup Interaction /\ (r \in Interaction => job[Handler(r)] = "none") /\ Refuse(r)

\* A body that is no interactivity payload, no command or no event envelope.
Malformed(r) == r \in Event \cup Interaction /\ (r \in Interaction => job[Handler(r)] = "none") /\ Refuse(r)

Unauthorized(p) == job[Finalize(p)] = "none" /\ Refuse(p)

\* The 200 leaves with routeEvent just begun.
ReceiveEvent(e) ==
  /\ Alive
  /\ conn[e] = "open"
  /\ Begin(Route(e)) /\ Track(Route(e))
  /\ Answer(e)
  /\ UNCHANGED <<phase, awaited, acked>>

\* onEvent accepts: the run is tracked before the route's promise resolves.
Dispatch(e) ==
  /\ Alive
  /\ job[Route(e)] = "running"
  /\ Begin(Run(e)) /\ Track(Run(e))
  /\ UNCHANGED <<phase, conn, awaited, acked>>

\* Every plugin's onEvent has settled; errors were logged, never rethrown.
RouteEnds(e) == Alive /\ End(Route(e)) /\ UNCHANGED <<phase, conn, awaited, acked>>

RunEnds(e) == Alive /\ End(Run(e)) /\ UNCHANGED <<phase, conn, awaited, acked>>

\* dispatch finds no plugin, or the plugin has no such handler: an ephemeral text.
NoHandler(i) == job[Handler(i)] = "none" /\ Refuse(i)

ReceiveInteraction(i) ==
  /\ Alive
  /\ conn[i] = "open"
  /\ Begin(Handler(i))
  /\ UNCHANGED <<phase, conn, pending, awaited, acked>>

\* ackPromise wins the race; a second call of ack does nothing.
Ack(i) ==
  /\ Alive
  /\ job[Handler(i)] = "running"
  /\ i \notin acked
  /\ acked' = acked \cup {i}
  /\ Answer(i)
  /\ UNCHANGED <<phase, job, pending, awaited, early>>

\* Mutant: dispatch waits for ack alone.
HandlerEndsUnraced(i) ==
  /\ Alive
  /\ End(Handler(i))
  /\ UNCHANGED <<phase, conn, awaited, acked>>

\* completion resolves, with or without an error: the response unless ack sent it.
HandlerEnds(i) ==
  /\ Alive
  /\ End(Handler(i))
  /\ Answer(i)
  /\ UNCHANGED <<phase, awaited, acked>>

ReceivePush(p) ==
  /\ Alive
  /\ conn[p] = "open"
  /\ Begin(Finalize(p))
  /\ UNCHANGED <<phase, conn, pending, awaited, acked>>

PushEnds(p) ==
  /\ Alive
  /\ End(Finalize(p))
  /\ Answer(p)
  /\ UNCHANGED <<phase, awaited, acked>>

---------------------------------------------------------------------------
(* The reconciler's interval.  A tick that finds one running returns a     *)
(* resolved promise and changes nothing.                                   *)

TickBegins(n) ==
  /\ Alive
  /\ \A m \in 1..MaxTicks : job[Tick(m)] # "running" /\ (m < n => job[Tick(m)] = "done")
  /\ Begin(Tick(n)) /\ Track(Tick(n))
  /\ UNCHANGED <<phase, conn, awaited, acked>>

TickEnds(n) == Alive /\ End(Tick(n)) /\ UNCHANGED <<phase, conn, awaited, acked>>

---------------------------------------------------------------------------
(* Shutdown.  The server serves until the drain is over; a second signal   *)
(* is ignored.                                                             *)

\* waitForIdle's loop test: idle, or await everything pending now.
Look ==
  /\ phase' = IF pending = {} THEN "drained" ELSE "draining"
  /\ awaited' = pending
  /\ UNCHANGED <<conn, job, pending, acked, early>>

Signal == phase = "up" /\ Look

\* Mutant: the pending set is looked at once.
DrainWakesOnce ==
  /\ phase = "draining" /\ awaited \cap pending = {}
  /\ phase' = "drained"
  /\ UNCHANGED <<conn, job, pending, awaited, acked, early>>

DrainWakes == phase = "draining" /\ awaited \cap pending = {} /\ Look

Close ==
  /\ phase = "drained"
  /\ phase' = "closing"
  /\ UNCHANGED <<conn, job, pending, awaited, acked, early>>

\* server.close calls back once no connection has a request open; it knows
\* nothing of the promises of clients that are gone.
Exit ==
  /\ phase = "closing"
  /\ \A r \in Request : conn[r] # "open"
  /\ phase' = "exited"
  /\ UNCHANGED <<conn, job, pending, awaited, acked, early>>

\* SIGKILL, or a crash: open connections break, and what was in memory is gone.
Kill ==
  /\ Alive
  /\ phase' = "killed"
  /\ conn' = [r \in Request |-> IF conn[r] = "open" THEN "gone" ELSE conn[r]]
  /\ job' = [j \in Job |-> "none"]
  /\ pending' = {} /\ awaited' = {} /\ acked' = {} /\ early' = {}

Over == ~Alive /\ UNCHANGED vars

Next ==
  \/ \E r \in Request : Connect(r) \/ HangsUp(r) \/ Unsigned(r) \/ Malformed(r)
  \/ \E e \in Event : ReceiveEvent(e) \/ Dispatch(e) \/ RouteEnds(e) \/ RunEnds(e)
  \/ \E i \in Interaction : NoHandler(i) \/ ReceiveInteraction(i) \/ Ack(i) \/ HandlerEnds(i)
  \/ \E p \in Push : Unauthorized(p) \/ ReceivePush(p) \/ PushEnds(p)
  \/ \E n \in 1..MaxTicks : TickBegins(n) \/ TickEnds(n)
  \/ Signal \/ DrainWakes \/ Close \/ Exit \/ Kill \/ Over

Spec == Init /\ [][Next]_vars

\* Bodies arrive, unless the client hangs up, and every call the work awaits
\* ends; the event loop runs whatever is ready.  Nobody has to signal, nobody
\* has to kill, and no client has to hang up.
Fairness ==
  /\ \A e \in Event : WF_vars(ReceiveEvent(e)) /\ WF_vars(RouteEnds(e)) /\ WF_vars(RunEnds(e))
  /\ \A i \in Interaction : WF_vars(ReceiveInteraction(i)) /\ WF_vars(HandlerEnds(i))
  /\ \A p \in Push : WF_vars(ReceivePush(p)) /\ WF_vars(PushEnds(p))
  /\ \A n \in 1..MaxTicks : WF_vars(TickEnds(n))
  /\ WF_vars(DrainWakes) /\ WF_vars(Close) /\ WF_vars(Exit)

FairSpec == Spec /\ Fairness

---------------------------------------------------------------------------
(* Properties.                                                             *)

\* An event or a tick taken up before the drain was over is finished when the
\* process exits, the run an event's route starts meanwhile included; and the
\* exit cuts off what a push notification asked for only if its sender has hung
\* up, for an open request holds the close (in-flight-tasks.ts waitForIdle,
\* dispatcher.ts:320, task-reconciler.ts:375, shutdown.ts:45-53).
DrainedWorkIsDone ==
  phase = "exited" =>
    /\ \A j \in early \cap Tracked : job[j] = "done"
    /\ \A p \in Push : job[Finalize(p)] = "running" => conn[p] = "gone"

\* The drain wakes up and ends, whatever keeps coming in meanwhile up to the
\* bounds, and so does the close (in-flight-tasks.ts track and waitForIdle).
ShutdownEnds == phase = "draining" ~> ~Alive

\* Every request gets its response while the process lives and its client waits:
\* an interaction by its handler's ack or its end, whichever is first
\* (router.ts:145).
EveryRequestAnswered ==
  \A r \in Request : conn[r] = "open" ~> conn[r] \in {"refused", "answered", "gone"} \/ ~Alive

\* What shutdown.ts:23-26 says, "Waits for whatever is already in flight ...,
\* plus anything newly accepted while draining, to finish before exiting",
\* of everything the process had taken up whose client did not hang up.  A push
\* is awaited by its request; an interaction is neither tracked nor, past its
\* ack, awaited by a request: see the run drain.
AcceptedIsFinished ==
  phase = "exited" =>
    /\ \A j \in early \cap Tracked : job[j] = "done"
    /\ \A i \in Interaction : Handler(i) \in early /\ conn[i] # "gone" => job[Handler(i)] = "done"
    /\ \A p \in Push : Finalize(p) \in early /\ conn[p] # "gone" => job[Finalize(p)] = "done"
=============================================================================
