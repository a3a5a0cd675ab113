--------------------------- MODULE Serving_proofs ---------------------------
(* Proofs about Serving, for any events, interactions, pushes and ticks. *)
EXTENDS Serving, TLAPS

USE ServingAssumption

\* While the process lives the registry holds what is tracked and running.
PendingIsRunning == Alive => \A j \in Tracked : job[j] = "running" <=> j \in pending

\* What began early has begun, and is over once the drain is.
EarlyBegun == \A j \in early : job[j] # "none"

EarlyDone ==
  phase \in {"drained", "closing", "exited"} => \A j \in early \cap Tracked : job[j] = "done"

\* A push keeps its request open until its sender hangs up, and no request is
\* open after the close.
PushesHeld == \A p \in Push : job[Finalize(p)] = "running" => conn[p] \in {"open", "gone"}

ExitsClosed == phase = "exited" => \A r \in Request : conn[r] # "open"

IInv == TypeOK /\ PendingIsRunning /\ EarlyBegun /\ EarlyDone /\ PushesHeld /\ ExitsClosed

-----------------------------------------------------------------------------
(* The names of the jobs.                                                  *)

LEMMA TrackedNames ==
  /\ \A e \in Event : Route(e) \in Tracked /\ Run(e) \in Tracked
  /\ \A n \in 1..MaxTicks : Tick(n) \in Tracked
BY DEF Tracked

LEMMA UntrackedNames ==
  /\ \A i \in Interaction : Handler(i) \in Untracked
  /\ \A p \in Push : Finalize(p) \in Untracked
BY DEF Untracked

LEMMA NamesApart ==
  /\ Job = Tracked \cup Untracked
  /\ Tracked \cap Untracked = {}
  /\ \A p, q \in Push : Finalize(p) = Finalize(q) => p = q
  /\ \A p \in Push, i \in Interaction : Finalize(p) # Handler(i)
BY DEF Job, Tracked, Untracked, Route, Run, Handler, Finalize, Tick

-----------------------------------------------------------------------------
(* Jobs begin and end.                                                     *)

LEMMA BeginKeeps ==
  ASSUME IInv, Alive, phase' = phase, NEW j \in Job, Begin(j),
         IF j \in Tracked THEN Track(j) ELSE pending' = pending
  PROVE  /\ job' \in [Job -> {"none", "running", "done"}]
         /\ pending' \subseteq Tracked /\ early' \subseteq Job
         /\ PendingIsRunning' /\ EarlyBegun' /\ EarlyDone'
         /\ \A k \in Job : k # j => job'[k] = job[k]
<1> USE NamesApart DEF IInv, TypeOK
<1>1. job[j] = "none" /\ job' = [job EXCEPT ![j] = "running"]
  BY DEF Begin
<1>2. job' \in [Job -> {"none", "running", "done"}] /\ job'[j] = "running"
  BY <1>1
<1>3. \A k \in Job : k # j => job'[k] = job[k]
  BY <1>1
<1>4. j \notin early /\ early' \in {early, early \cup {j}}
  BY <1>1 DEF Begin, EarlyBegun
<1>5. PendingIsRunning'
  BY <1>2, <1>3 DEF PendingIsRunning, Track, Alive
<1>6. EarlyBegun'
  BY <1>2, <1>3, <1>4 DEF EarlyBegun
<1>7. EarlyDone'
  <2>1. CASE phase \in {"up", "draining"}
    BY <2>1 DEF EarlyDone
  <2>2. CASE phase \notin {"up", "draining"}
    BY <2>2, <1>3, <1>4 DEF Begin, EarlyDone
  <2>3. QED BY <2>1, <2>2
<1>8. QED BY <1>2, <1>3, <1>4, <1>5, <1>6, <1>7 DEF Track

LEMMA EndKeeps ==
  ASSUME IInv, Alive, phase' = phase, NEW j \in Job, End(j)
  PROVE  /\ job' \in [Job -> {"none", "running", "done"}]
         /\ pending' \subseteq Tracked /\ early' \subseteq Job
         /\ PendingIsRunning' /\ EarlyBegun' /\ EarlyDone'
         /\ \A k \in Job : k # j => job'[k] = job[k]
         /\ job'[j] = "done"
<1> USE NamesApart DEF IInv, TypeOK
<1>1. job' = [job EXCEPT ![j] = "done"] /\ pending' = pending \ {j} /\ early' = early
  BY DEF End
<1>2. job' \in [Job -> {"none", "running", "done"}] /\ job'[j] = "done"
  BY <1>1
<1>3. \A k \in Job : k # j => job'[k] = job[k]
  BY <1>1
<1>4. PendingIsRunning'
  BY <1>1, <1>2, <1>3 DEF PendingIsRunning, Alive
<1>5. EarlyBegun'
  BY <1>1, <1>2, <1>3 DEF EarlyBegun
<1>6. EarlyDone'
  BY <1>1, <1>2, <1>3 DEF EarlyDone
<1>7. QED BY <1>1, <1>2, <1>3, <1>4, <1>5, <1>6

\* A request is answered: no other is touched, and it is open no more.
LEMMA AnswerConn ==
  ASSUME TypeOK, NEW r \in Request, Answer(r)
  PROVE  /\ conn' \in [Request -> {"absent", "open", "refused", "answered", "gone"}]
         /\ \A q \in Request : q # r => conn'[q] = conn[q]
BY DEF TypeOK, Answer

-----------------------------------------------------------------------------
(* The steps.                                                              *)

\* What begins or ends no job, and answers no request.
LEMMA SettledJobs ==
  ASSUME IInv, UNCHANGED <<job, pending, early>>, Alive, phase' = phase
  PROVE  PendingIsRunning' /\ EarlyBegun' /\ EarlyDone'
BY DEF IInv, PendingIsRunning, EarlyBegun, EarlyDone, Alive

LEMMA ConnectKeeps == ASSUME IInv, NEW r \in Request, Connect(r) PROVE IInv'
<1> USE DEF IInv, TypeOK
<1>1. Alive /\ phase' = phase /\ phase # "exited" /\ UNCHANGED <<job, pending, early, awaited, acked>>
  BY DEF Connect, Alive
<1>2. conn' = [conn EXCEPT ![r] = "open"]
  BY DEF Connect
<1>3. PushesHeld'
  BY <1>1, <1>2 DEF PushesHeld, Request
<1>4. PendingIsRunning' /\ EarlyBegun' /\ EarlyDone'
  BY <1>1, SettledJobs
<1>5. TypeOK'
  BY <1>1, <1>2
<1>6. QED BY <1>1, <1>3, <1>4, <1>5 DEF ExitsClosed

\* A request without a running handler is refused.
LEMMA RefuseKeeps ==
  ASSUME IInv, NEW r \in Request, Refuse(r), r \in Push => job[Finalize(r)] = "none"
  PROVE  IInv'
<1> USE DEF IInv, TypeOK
<1>1. Alive /\ phase' = phase /\ phase # "exited" /\ UNCHANGED <<job, pending, early, awaited, acked>>
  BY DEF Refuse, Alive
<1>2. conn' = [conn EXCEPT ![r] = "refused"]
  BY DEF Refuse
<1>3. PushesHeld'
  BY <1>1, <1>2 DEF PushesHeld, Request
<1>4. PendingIsRunning' /\ EarlyBegun' /\ EarlyDone'
  BY <1>1, SettledJobs
<1>5. TypeOK'
  BY <1>1, <1>2
<1>6. QED BY <1>1, <1>3, <1>4, <1>5 DEF ExitsClosed

\* The client of a request goes; what it started stays.
LEMMA HangsUpKeeps == ASSUME IInv, NEW r \in Request, HangsUp(r) PROVE IInv'
<1> USE DEF IInv, TypeOK
<1>1. Alive /\ phase' = phase /\ phase # "exited" /\ UNCHANGED <<job, pending, early, awaited, acked>>
  BY DEF HangsUp, Alive
<1>2. conn' = [conn EXCEPT ![r] = "gone"]
  BY DEF HangsUp
<1>3. PushesHeld'
  BY <1>1, <1>2 DEF PushesHeld, Request
<1>4. PendingIsRunning' /\ EarlyBegun' /\ EarlyDone'
  BY <1>1, SettledJobs
<1>5. TypeOK'
  BY <1>1, <1>2
<1>6. QED BY <1>1, <1>3, <1>4, <1>5 DEF ExitsClosed

LEMMA EventKeeps ==
  ASSUME IInv, NEW e \in Event,
         ReceiveEvent(e) \/ Dispatch(e) \/ RouteEnds(e) \/ RunEnds(e)
  PROVE  IInv'
<1> USE TrackedNames, NamesApart DEF IInv
<1>1. Alive /\ phase' = phase /\ phase # "exited" /\ awaited' = awaited /\ acked' = acked
  BY DEF ReceiveEvent, Dispatch, RouteEnds, RunEnds, Alive
<1>2. e \in Request /\ Route(e) \in Job /\ Run(e) \in Job
  BY DEF Request
<1>3. conn' \in [Request -> {"absent", "open", "refused", "answered", "gone"}]
      /\ \A q \in Push : conn'[q] = conn[q]
  <2>1. CASE ReceiveEvent(e)
    BY <2>1, <1>2, AnswerConn DEF ReceiveEvent, Request
  <2>2. CASE ~ReceiveEvent(e)
    BY <2>2 DEF Dispatch, RouteEnds, RunEnds, TypeOK
  <2>3. QED BY <2>1, <2>2
<1>4. /\ job' \in [Job -> {"none", "running", "done"}]
      /\ pending' \subseteq Tracked /\ early' \subseteq Job
      /\ PendingIsRunning' /\ EarlyBegun' /\ EarlyDone'
      /\ \A p \in Push : job'[Finalize(p)] = job[Finalize(p)]
  <2>u. \A p \in Push : Finalize(p) \in Job /\ Finalize(p) # Route(e) /\ Finalize(p) # Run(e)
    BY UntrackedNames
  <2>1. CASE ReceiveEvent(e)
    BY <2>1, <2>u, <1>1, <1>2, BeginKeeps DEF ReceiveEvent
  <2>2. CASE Dispatch(e)
    BY <2>2, <2>u, <1>1, <1>2, BeginKeeps DEF Dispatch
  <2>3. CASE RouteEnds(e)
    BY <2>3, <2>u, <1>1, <1>2, EndKeeps DEF RouteEnds
  <2>4. CASE RunEnds(e)
    BY <2>4, <2>u, <1>1, <1>2, EndKeeps DEF RunEnds
  <2>5. QED BY <2>1, <2>2, <2>3, <2>4
<1>5. PushesHeld'
  BY <1>3, <1>4 DEF PushesHeld
<1>6. QED BY <1>1, <1>3, <1>4, <1>5 DEF TypeOK, ExitsClosed

LEMMA TickKeeps ==
  ASSUME IInv, NEW n \in 1..MaxTicks, TickBegins(n) \/ TickEnds(n)
  PROVE  IInv'
<1> USE TrackedNames, NamesApart DEF IInv
<1>1. /\ Alive /\ phase' = phase /\ phase # "exited"
      /\ awaited' = awaited /\ acked' = acked /\ conn' = conn
  BY DEF TickBegins, TickEnds, Alive
<1>2. Tick(n) \in Job
  OBVIOUS
<1>3. \A p \in Push : Finalize(p) \in Job /\ Finalize(p) # Tick(n)
  BY UntrackedNames
<1>4. /\ job' \in [Job -> {"none", "running", "done"}]
      /\ pending' \subseteq Tracked /\ early' \subseteq Job
      /\ PendingIsRunning' /\ EarlyBegun' /\ EarlyDone'
      /\ \A p \in Push : job'[Finalize(p)] = job[Finalize(p)]
  <2>1. CASE TickBegins(n)
    BY <2>1, <1>1, <1>2, <1>3, BeginKeeps DEF TickBegins
  <2>2. CASE TickEnds(n)
    BY <2>2, <1>1, <1>2, <1>3, EndKeeps DEF TickEnds
  <2>3. QED BY <2>1, <2>2
<1>5. PushesHeld'
  BY <1>1, <1>4 DEF PushesHeld
<1>6. QED BY <1>1, <1>4, <1>5 DEF TypeOK, ExitsClosed

LEMMA InteractionKeeps ==
  ASSUME IInv, NEW i \in Interaction, ReceiveInteraction(i) \/ Ack(i) \/ HandlerEnds(i)
  PROVE  IInv'
<1> USE UntrackedNames, NamesApart DEF IInv
<1>1. Alive /\ phase' = phase /\ phase # "exited" /\ awaited' = awaited
  BY DEF ReceiveInteraction, Ack, HandlerEnds, Alive
<1>2. i \in Request /\ Handler(i) \in Job /\ Handler(i) \notin Tracked
  BY DEF Request
<1>3. conn' \in [Request -> {"absent", "open", "refused", "answered", "gone"}]
      /\ \A q \in Push : conn'[q] = conn[q]
  <2>1. CASE ReceiveInteraction(i)
    BY <2>1 DEF ReceiveInteraction, TypeOK
  <2>2. CASE Ack(i) \/ HandlerEnds(i)
    BY <2>2, <1>2, AnswerConn DEF Ack, HandlerEnds, Request
  <2>3. QED BY <2>1, <2>2
<1>4. acked' \subseteq Interaction
  BY DEF ReceiveInteraction, Ack, HandlerEnds, TypeOK
<1>5. /\ job' \in [Job -> {"none", "running", "done"}]
      /\ pending' \subseteq Tracked /\ early' \subseteq Job
      /\ PendingIsRunning' /\ EarlyBegun' /\ EarlyDone'
      /\ \A p \in Push : job'[Finalize(p)] = job[Finalize(p)]
  <2>1. CASE ReceiveInteraction(i)
    BY <2>1, <1>1, <1>2, BeginKeeps DEF ReceiveInteraction
  <2>2. CASE HandlerEnds(i)
    BY <2>2, <1>1, <1>2, EndKeeps DEF HandlerEnds
  <2>3. CASE Ack(i)
    <3>1. UNCHANGED <<job, pending, early>>
      BY <2>3 DEF Ack
    <3>2. QED BY <3>1, <1>1, SettledJobs DEF TypeOK
  <2>4. QED BY <2>1, <2>2, <2>3
<1>6. PushesHeld'
  BY <1>3, <1>5 DEF PushesHeld
<1>7. QED BY <1>1, <1>3, <1>4, <1>5, <1>6 DEF TypeOK, ExitsClosed

LEMMA PushKeeps ==
  ASSUME IInv, NEW p \in Push, ReceivePush(p) \/ PushEnds(p)
  PROVE  IInv'
<1> USE UntrackedNames, NamesApart DEF IInv
<1>1. Alive /\ phase' = phase /\ phase # "exited" /\ awaited' = awaited /\ acked' = acked
  BY DEF ReceivePush, PushEnds, Alive
<1>2. p \in Request /\ Finalize(p) \in Job /\ Finalize(p) \notin Tracked
  BY DEF Request
<1>3. /\ job' \in [Job -> {"none", "running", "done"}]
      /\ pending' \subseteq Tracked /\ early' \subseteq Job
      /\ PendingIsRunning' /\ EarlyBegun' /\ EarlyDone'
      /\ \A q \in Push : q # p => job'[Finalize(q)] = job[Finalize(q)]
  <2>1. CASE ReceivePush(p)
    BY <2>1, <1>1, <1>2, BeginKeeps DEF ReceivePush
  <2>2. CASE PushEnds(p)
    BY <2>2, <1>1, <1>2, EndKeeps DEF PushEnds
  <2>3. QED BY <2>1, <2>2
<1>4. conn' \in [Request -> {"absent", "open", "refused", "answered", "gone"}]
      /\ \A q \in Push : q # p => conn'[q] = conn[q]
  <2>1. CASE ReceivePush(p)
    BY <2>1 DEF ReceivePush, TypeOK
  <2>2. CASE PushEnds(p)
    BY <2>2, <1>2, AnswerConn DEF PushEnds, Request
  <2>3. QED BY <2>1, <2>2
<1>5. job'[Finalize(p)] = "running" => conn'[p] \in {"open", "gone"}
  <2>1. CASE ReceivePush(p)
    BY <2>1 DEF ReceivePush
  <2>2. CASE PushEnds(p)
    BY <2>2, <1>1, <1>2, EndKeeps DEF PushEnds
  <2>3. QED BY <2>1, <2>2
<1>6. PushesHeld'
  BY <1>3, <1>4, <1>5 DEF PushesHeld
<1>7. QED BY <1>1, <1>3, <1>4, <1>6 DEF TypeOK, ExitsClosed

\* The drain is over only when nothing tracked is running, so that whatever
\* began before is done; from there to the exit nothing early is left to begin.
LEMMA ShutdownKeeps ==
  ASSUME IInv, Signal \/ DrainWakes \/ Close \/ Exit
  PROVE  IInv'
<1> USE DEF IInv
<1>1. Alive /\ UNCHANGED <<job, conn, pending, acked, early>>
  BY DEF Signal, DrainWakes, Look, Close, Exit, Alive
<1>2. awaited' \subseteq Tracked /\ phase' \in {"draining", "drained", "closing", "exited"}
  BY DEF Signal, DrainWakes, Look, Close, Exit, TypeOK
<1>3. EarlyDone'
  <2>1. CASE Signal \/ DrainWakes
    <3>1. CASE pending = {}
      <4>1. \A j \in Tracked : job[j] # "running"
        BY <3>1, <1>1 DEF PendingIsRunning
      <4>2. \A j \in early \cap Tracked : job[j] = "done"
        BY <4>1 DEF EarlyBegun, TypeOK
      <4>3. QED BY <4>2, <1>1 DEF EarlyDone
    <3>2. CASE pending # {}
      BY <2>1, <3>2 DEF Signal, DrainWakes, Look, EarlyDone
    <3>3. QED BY <3>1, <3>2
  <2>2. CASE Close \/ Exit
    BY <2>2, <1>1 DEF Close, Exit, EarlyDone
  <2>3. QED BY <2>1, <2>2
<1>4. PendingIsRunning'
  BY <1>1 DEF PendingIsRunning
<1>5. EarlyBegun' /\ PushesHeld'
  BY <1>1 DEF EarlyBegun, PushesHeld
<1>6. ExitsClosed'
  BY <1>1 DEF Signal, DrainWakes, Look, Close, Exit, ExitsClosed
<1>7. TypeOK'
  BY <1>1, <1>2 DEF TypeOK
<1>8. QED BY <1>3, <1>4, <1>5, <1>6, <1>7

\* A process that is killed has nothing left that could be cut off later.
LEMMA KillKeeps == ASSUME IInv, Kill PROVE IInv'
<1>1. phase' = "killed" /\ pending' = {} /\ awaited' = {} /\ acked' = {} /\ early' = {}
  BY DEF Kill
<1>2. conn' \in [Request -> {"absent", "open", "refused", "answered", "gone"}]
  BY DEF Kill, IInv, TypeOK
<1>3. job' = [j \in Job |-> "none"]
  BY DEF Kill
<1>4. PushesHeld'
  BY <1>3, UntrackedNames, NamesApart DEF PushesHeld
<1>5. TypeOK'
  BY <1>1, <1>2, <1>3 DEF TypeOK
<1>6. QED
  BY <1>1, <1>4, <1>5 DEF IInv, PendingIsRunning, EarlyBegun, EarlyDone, ExitsClosed, Alive

LEMMA StutterKeeps == ASSUME IInv, UNCHANGED vars PROVE IInv'
BY DEF vars, IInv, TypeOK, PendingIsRunning, EarlyBegun, EarlyDone, PushesHeld, ExitsClosed, Alive

LEMMA InitHolds == Init => IInv
<1> SUFFICES ASSUME Init PROVE IInv
  OBVIOUS
<1>1. TypeOK
  BY DEF Init, TypeOK
<1>2. PendingIsRunning /\ PushesHeld
  BY NamesApart, UntrackedNames DEF Init, PendingIsRunning, PushesHeld
<1>3. EarlyBegun /\ EarlyDone /\ ExitsClosed
  BY DEF Init, EarlyBegun, EarlyDone, ExitsClosed
<1>4. QED BY <1>1, <1>2, <1>3 DEF IInv

LEMMA NextKeeps == IInv /\ [Next]_vars => IInv'
<1> SUFFICES ASSUME IInv, [Next]_vars PROVE IInv'
  OBVIOUS
<1>1. CASE UNCHANGED vars
  BY <1>1, StutterKeeps
<1>2. ASSUME NEW r \in Request, Connect(r) \/ HangsUp(r) \/ Unsigned(r) \/ Malformed(r) PROVE IInv'
  <2>1. CASE Connect(r) \/ HangsUp(r)
    BY <2>1, ConnectKeeps, HangsUpKeeps
  <2>2. CASE Unsigned(r) \/ Malformed(r)
    BY <2>2, RefuseKeeps DEF Unsigned, Malformed
  <2>3. QED BY <1>2, <2>1, <2>2
<1>3. ASSUME NEW i \in Interaction, NoHandler(i) PROVE IInv'
  BY <1>3, RefuseKeeps DEF NoHandler, Request
<1>4. ASSUME NEW p \in Push, Unauthorized(p) PROVE IInv'
  BY <1>4, RefuseKeeps DEF Unauthorized, Request
<1>5. CASE Over
  BY <1>5, StutterKeeps DEF Over
<1>6. QED
  BY <1>1, <1>2, <1>3, <1>4, <1>5, EventKeeps, InteractionKeeps, PushKeeps, TickKeeps, ShutdownKeeps,
     KillKeeps
  DEF Next

LEMMA Invariant == Spec => []IInv
BY InitHolds, NextKeeps, PTL DEF Spec

\* Every variable keeps its type, whatever requests come and however many.
THEOREM TypeCorrect == Spec => []TypeOK
<1>1. IInv => TypeOK
  BY DEF IInv
<1>2. QED BY <1>1, Invariant, PTL

\* However many events, pushes and ticks overlap the shutdown, and whoever hangs
\* up meanwhile, the process does not exit before what it had taken up by the end
\* of the drain, and tracks, is done, nor with a push notification half handled
\* whose sender still waits.
THEOREM NothingTrackedIsCutOff == Spec => []DrainedWorkIsDone
<1>1. IInv => DrainedWorkIsDone
  <2> SUFFICES ASSUME IInv, phase = "exited"
               PROVE  /\ \A j \in early \cap Tracked : job[j] = "done"
                      /\ \A p \in Push : job[Finalize(p)] = "running" => conn[p] = "gone"
    BY DEF DrainedWorkIsDone
  <2>1. \A j \in early \cap Tracked : job[j] = "done"
    BY DEF IInv, EarlyDone
  <2>2. \A p \in Push : job[Finalize(p)] = "running" => conn[p] = "gone"
    BY DEF IInv, PushesHeld, ExitsClosed, Request
  <2>3. QED BY <2>1, <2>2
<1>2. QED BY <1>1, Invariant, PTL
=============================================================================
