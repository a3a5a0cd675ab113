------------------------- MODULE TaskLifecycle_proofs -------------------------
(* Proofs about TaskLifecycle, for any tasks, pushes, turns and faults. *)
EXTENDS TaskLifecycle, TLAPS

USE NamesAssumption, StatesAssumption, RoundsAssumption

-----------------------------------------------------------------------------
(* What the statements on a row yield.                                     *)

LEMMA TransitionedRow ==
  ASSUME NEW row \in Row, NEW to \in Lifecycle
  PROVE  /\ Transitioned(row, to) \in Row
         /\ Transitioned(row, to).tracked = row.tracked
         /\ Transitioned(row, to).state = to.state
         /\ Transitioned(row, to).settled <=> to.state \in TerminalStates
         /\ Transitioned(row, to).age = "fresh"
<1> DEFINE s == to.state \in TerminalStates
           d == row.overdue /\ ~to.rearm
           r == [row EXCEPT !.state = to.state, !.settled = s,
                            !.overdue = d, !.age = "fresh"]
<1>1. Transitioned(row, to) = r
  BY DEF Transitioned
<1>2. s \in BOOLEAN /\ d \in BOOLEAN /\ (s <=> to.state \in TerminalStates)
  OBVIOUS
<1> HIDE DEF s, d
<1>3. /\ r \in Row /\ r.tracked = row.tracked /\ r.state = to.state
      /\ r.settled = s /\ r.age = "fresh"
  BY <1>2 DEF Row, Lifecycle, Ages
<1> HIDE DEF r
<1>4. QED BY <1>1, <1>2, <1>3

LEMMA UnsettledRow ==
  ASSUME NEW row \in Row
  PROVE  /\ Unsettled(row) \in Row
         /\ Unsettled(row).tracked = row.tracked
         /\ row.tracked => ~Unsettled(row).settled
BY DEF Unsettled, Row, Ages

LEMMA RecordedRow ==
  ASSUME NEW row \in Row, NEW state \in TaskStates, ~row.tracked
  PROVE  /\ Recorded(row, state) \in Row
         /\ Recorded(row, state).tracked
         /\ ~Recorded(row, state).settled
BY DEF Recorded, Row, Ages

LEMMA UntrackedRow ==
  /\ Untracked \in Row /\ ~Untracked.tracked /\ ~Untracked.settled
BY DEF Untracked, Row, Ages, TaskStates, ActiveExecutionStates

LEMMA AppliesRow ==
  ASSUME NEW row, NEW to, Applies(row, to)
  PROVE  row.tracked /\ ~row.settled
BY DEF Applies

LEMMA LifecycleType ==
  ASSUME NEW s \in TaskStates, NEW c \in TaskStates
  PROVE  /\ To(s) \in Lifecycle /\ To(s).state = s
         /\ ToFrom(s, c) \in Lifecycle /\ ToFrom(s, c).state = s
         /\ [ToFrom(s, c) EXCEPT !.rearm = TRUE] \in Lifecycle
         /\ [ToFrom(s, c) EXCEPT !.rearm = TRUE].state = s
         /\ [To(s) EXCEPT !.ifOverdue = TRUE] \in Lifecycle
         /\ [To(s) EXCEPT !.ifOverdue = TRUE].state = s
BY DEF To, ToFrom, Lifecycle

LEMMA TransitionTable ==
  ASSUME TypeOK, NEW t \in TaskId, NEW to \in Lifecycle, Transition(t, to)
  PROVE  /\ task' \in [TaskId -> Row]
         /\ \A x \in TaskId : x # t => task'[x] = task[x]
         /\ task'[t].tracked = task[t].tracked
         /\ task'[t].state = to.state
         /\ task'[t].settled <=> to.state \in TerminalStates
         /\ task'[t].age = "fresh"
<1>1. task \in [TaskId -> Row] /\ task[t] \in Row
  BY DEF TypeOK
<1>2. task' = [task EXCEPT ![t] = Transitioned(task[t], to)]
  BY DEF Transition
<1>3. QED BY <1>1, <1>2, TransitionedRow

-----------------------------------------------------------------------------
(* What the steps of an observer do to it.                                 *)

LEMMA GotoObserver ==
  ASSUME TypeOK, NEW o \in Observer, NEW pc \in ObserverPC, Goto(o, pc)
  PROVE  /\ obs' \in [Observer -> ObserverState]
         /\ \A p \in Observer : p # o => obs'[p] = obs[p]
         /\ obs'[o].pc = pc
         /\ obs'[o].task = obs[o].task /\ obs'[o].seen = obs[o].seen
<1>1. obs \in [Observer -> ObserverState]
  BY DEF TypeOK
<1>2. QED BY <1>1 DEF Goto, ObserverState

LEMMA IdleType ==
  ASSUME NEW pc \in ObserverPC
  PROVE  /\ [IdleObserver EXCEPT !.pc = pc] \in ObserverState
         /\ [IdleObserver EXCEPT !.pc = pc].pc = pc
         /\ [IdleObserver EXCEPT !.pc = pc].task = NoTask
BY DEF IdleObserver, ObserverState, RemoteTask, Unsent, TaskStates, ActiveExecutionStates

LEMMA DoneObserver ==
  ASSUME TypeOK, NEW o \in Observer, Done(o)
  PROVE  /\ obs' \in [Observer -> ObserverState]
         /\ \A p \in Observer : p # o => obs'[p] = obs[p]
         /\ obs'[o].pc \in {"idle", "sweep"}
         /\ obs'[o].task = NoTask
<1>1. \E pc \in {"idle", "sweep"} : obs' = [obs EXCEPT ![o] = [IdleObserver EXCEPT !.pc = pc]]
  BY DEF Done
<1>2. "idle" \in ObserverPC /\ "sweep" \in ObserverPC
  BY DEF ObserverPC
<1>3. QED BY <1>1, <1>2, IdleType DEF TypeOK

LEMMA WinObserver ==
  ASSUME TypeOK, NEW o \in Observer, NEW s \in TaskStates, Win(o, s),
         obs[o].task \in TaskId
  PROVE  /\ obs' \in [Observer -> ObserverState]
         /\ \A p \in Observer : p # o => obs'[p] = obs[p]
         /\ obs'[o].pc = "post" /\ obs'[o].task = obs[o].task
         /\ obs'[o].seen.state = s
<1> DEFINE w == [pc |-> "post", task |-> obs[o].task, row |-> "submitted",
                  seen |-> [state |-> s, round |-> 0]]
<1>1. obs \in [Observer -> ObserverState]
  BY DEF TypeOK
<1>2. /\ w \in ObserverState
      /\ w.pc = "post" /\ w.task = obs[o].task /\ w.seen.state = s
  BY DEF ObserverState, ObserverPC, RemoteTask, TaskStates, ActiveExecutionStates
<1>3. obs' = [obs EXCEPT ![o] = w]
  BY DEF Win
<1> HIDE DEF w
<1>4. QED BY <1>1, <1>2, <1>3

-----------------------------------------------------------------------------
(* Type correctness, by parts of the state.                                *)

ObsTyped == obs \in [Observer -> ObserverState] /\ \A o \in Observer : ObserverOK(obs[o])
TurnsTyped == turn \in [Turn -> TurnState] /\ \A u \in Turn : TurnOK(turn[u])
TableTyped == task \in [TaskId -> Row] /\ sweep \in [TaskId -> Row]
RemoteTyped == remote \in [TaskId -> RemoteTask]
SlackTyped ==
  /\ thinking \in BOOLEAN /\ answers \in [TaskId -> Nat]
  /\ outcome \in [TaskId -> Outcomes] /\ asked \in [TaskId -> [Rounds -> 0..2]]
  /\ responded \subseteq TaskId

Typed == ObsTyped /\ TurnsTyped /\ TableTyped /\ RemoteTyped /\ SlackTyped

LEMMA TypedIsTypeOK == Typed <=> TypeOK /\ ActorsOK
BY DEF Typed, ObsTyped, TurnsTyped, TableTyped, RemoteTyped, SlackTyped, TypeOK, ActorsOK

\* An observer that returns, or moves on with its task, stays well typed.
LEMMA DoneTyped ==
  ASSUME Typed, NEW o \in Observer, Done(o)
  PROVE  ObsTyped'
BY TypedIsTypeOK, DoneObserver DEF Typed, ObsTyped, ObserverOK

LEMMA GotoTyped ==
  ASSUME Typed, NEW o \in Observer, NEW pc \in ObserverPC, Goto(o, pc),
         obs[o].task \in TaskId,
         pc \in {"post", "unsettle"} => obs[o].seen.state \in TerminalStates,
         pc \in {"ask", "revert"} => obs[o].seen.state = "input-required"
  PROVE  ObsTyped'
BY TypedIsTypeOK, GotoObserver DEF Typed, ObsTyped, ObserverOK

LEMMA WinTyped ==
  ASSUME Typed, NEW o \in Observer, NEW s \in TerminalStates, Win(o, s),
         obs[o].task \in TaskId
  PROVE  ObsTyped'
<1>1. s \in TaskStates
  BY DEF TaskStates
<1>2. QED BY <1>1, TypedIsTypeOK, WinObserver DEF Typed, ObsTyped, ObserverOK

LEMMA TransitionTyped ==
  ASSUME Typed, NEW t \in TaskId, NEW to \in Lifecycle, Transition(t, to),
         UNCHANGED sweep
  PROVE  TableTyped'
BY TypedIsTypeOK, TransitionTable DEF Typed, TableTyped

LEMMA WorkingObserver ==
  ASSUME Typed, NEW o \in Observer,
         obs[o].pc \notin {"idle", "sweep", "prune", "report"}
  PROVE  obs[o].task \in TaskId
BY DEF Typed, ObsTyped, ObserverOK

LEMMA HeartbeatTyped == ASSUME Typed, NEW o \in Observer, Heartbeat(o) PROVE Typed'
<1> DEFINE to == To(obs[o].seen.state)
<1>1. obs[o].task \in TaskId
  BY WorkingObserver DEF Heartbeat
<1>2. to \in Lifecycle
  BY LifecycleType DEF Heartbeat, TaskStates, To
<1>3. TableTyped'
  BY <1>1, <1>2, TransitionTyped DEF Heartbeat, OthersUnchanged, Typed, TableTyped
<1>4. ObsTyped'
  <2>1. CASE Done(o)
    BY <2>1, DoneTyped
  <2>2. CASE obs' = [obs EXCEPT ![o] = [IdleObserver EXCEPT !.pc = "report"]]
    BY <2>2, IdleType DEF Typed, ObsTyped, ObserverOK, ObserverPC
  <2>3. QED BY <2>1, <2>2 DEF Heartbeat
<1>5. QED
  BY <1>3, <1>4 DEF Heartbeat, OthersUnchanged, SlackUnchanged, Typed, TurnsTyped,
                    RemoteTyped, SlackTyped

LEMMA ObserverTyped == ASSUME Typed, NEW o \in Observer, ObserverStep(o) PROVE Typed'
<1> USE WorkingObserver
<1>1. CASE FindRow(o)
  <2>1. ObsTyped'
    <3>1. CASE Goto(o, "relookup")
      BY <1>1, <3>1, GotoTyped DEF FindRow, ObserverPC
    <3>2. CASE obs' = [obs EXCEPT ![o].pc = "poll", ![o].row = task[obs[o].task].state]
      <4> DEFINE s == task[obs[o].task].state
      <4>1. s \in TaskStates /\ obs[o].task \in TaskId
        BY <1>1 DEF FindRow, Typed, TableTyped, Row
      <4>2. obs' = [obs EXCEPT ![o].pc = "poll", ![o].row = s]
        BY <3>2
      <4> HIDE DEF s
      <4>3. /\ obs' \in [Observer -> ObserverState]
            /\ obs'[o].pc = "poll" /\ obs'[o].task = obs[o].task
            /\ \A p \in Observer : p # o => obs'[p] = obs[p]
        BY <4>1, <4>2 DEF Typed, ObsTyped, ObserverState, ObserverPC
      <4>4. QED
        BY <4>1, <4>3 DEF Typed, ObsTyped, ObserverOK
    <3>3. QED BY <1>1, <3>1, <3>2, DoneTyped DEF FindRow
  <2>2. QED
    BY <1>1, <2>1 DEF FindRow, OthersUnchanged, SlackUnchanged, Typed, TurnsTyped, TableTyped,
         RemoteTyped, SlackTyped
<1>2. CASE Poll(o)
  <2>1. ObsTyped'
    BY <1>2 DEF Poll, Typed, ObsTyped, RemoteTyped, ObserverState, ObserverPC, ObserverOK
  <2>2. QED
    BY <1>2, <2>1 DEF Poll, OthersUnchanged, SlackUnchanged, Typed, TurnsTyped, TableTyped,
         RemoteTyped, SlackTyped
<1>3. CASE ObserveFails(o)
  BY <1>3, DoneTyped
  DEF ObserveFails, OthersUnchanged, SlackUnchanged, Typed, TurnsTyped, TableTyped,
         RemoteTyped, SlackTyped
<1>4. CASE TransitionFails(o)
  BY <1>4, DoneTyped
  DEF TransitionFails, OthersUnchanged, SlackUnchanged, Typed, TurnsTyped, TableTyped,
         RemoteTyped, SlackTyped
<1>5. CASE Heartbeat(o)
  BY <1>5, HeartbeatTyped
<1>6. CASE Report(o)
  BY <1>6, DoneTyped
  DEF Report, history, OthersUnchanged, SlackUnchanged, Typed, TurnsTyped, TableTyped,
         RemoteTyped, SlackTyped
<1>7. CASE SettleTerminal(o)
  <2> DEFINE to == To(obs[o].seen.state)
  <2>1. to \in Lifecycle /\ to.state \in TerminalStates /\ obs[o].task \in TaskId
    BY <1>7, LifecycleType DEF SettleTerminal, TaskStates, To
  <2>2. TableTyped'
    BY <1>7, <2>1, TransitionTyped
    DEF SettleTerminal, OthersUnchanged, Typed, TableTyped
  <2>3. ObsTyped'
    BY <1>7, <2>1, WinTyped, DoneTyped DEF SettleTerminal
  <2>4. QED
    BY <1>7, <2>2, <2>3 DEF SettleTerminal, OthersUnchanged, SlackUnchanged, Typed, TurnsTyped, TableTyped,
         RemoteTyped, SlackTyped
<1>8. CASE PostAnswer(o)
  <2>1. ObsTyped'
    BY <1>8, GotoTyped DEF PostAnswer, ObserverPC
  <2>2. obs[o].task \in TaskId /\ obs[o].seen.state \in Outcomes
    BY <1>8 DEF PostAnswer, Typed, ObsTyped, ObserverOK, Outcomes
  <2>3. SlackTyped'
    BY <1>8, <2>2 DEF PostAnswer, Typed, SlackTyped
  <2>4. QED
    BY <1>8, <2>1, <2>3 DEF PostAnswer, OthersUnchanged, SlackUnchanged, Typed, TurnsTyped, TableTyped,
         RemoteTyped, SlackTyped
<1>9. CASE PostFails(o)
  <2>1. ObsTyped'
    BY <1>9, GotoTyped DEF PostFails, ObserverPC, Typed, ObsTyped, ObserverOK
  <2>2. QED
    BY <1>9, <2>1 DEF PostFails, OthersUnchanged, SlackUnchanged, Typed, TurnsTyped, TableTyped,
         RemoteTyped, SlackTyped
<1>10. CASE Unsettle(o)
  <2>1. task' \in [TaskId -> Row]
    BY <1>10, UnsettledRow DEF Unsettle, Typed, TableTyped
  <2>2. QED
    BY <1>10, <2>1, DoneTyped DEF Unsettle, OthersUnchanged, SlackUnchanged, Typed, TurnsTyped, TableTyped,
         RemoteTyped, SlackTyped
<1>11. CASE UnsettleFails(o)
  BY <1>11, DoneTyped
  DEF UnsettleFails, Outcomes, OthersUnchanged, SlackUnchanged, Typed, TurnsTyped, TableTyped,
         RemoteTyped, SlackTyped
<1>12. CASE Clear(o)
  <2>1. ObsTyped'
    BY <1>12, GotoTyped, DoneTyped DEF Clear, ObserverPC
  <2>2. thinking' \in BOOLEAN
    BY <1>12 DEF Clear, ClearStatus, Typed, SlackTyped
  <2>3. QED
    BY <1>12, <2>1, <2>2 DEF Clear, history, OthersUnchanged, SlackUnchanged, Typed, TurnsTyped, TableTyped,
         RemoteTyped, SlackTyped
<1>13. CASE Mark(o)
  BY <1>13, DoneTyped
  DEF Mark, history, OthersUnchanged, SlackUnchanged, Typed, TurnsTyped, TableTyped,
         RemoteTyped, SlackTyped
<1>14. CASE SettleInputRequired(o)
  <2> DEFINE to == To("input-required")
  <2>1. to \in Lifecycle /\ obs[o].task \in TaskId
    BY <1>14, LifecycleType DEF SettleInputRequired, TaskStates
  <2>2. TableTyped'
    BY <1>14, <2>1, TransitionTyped
    DEF SettleInputRequired, OthersUnchanged, Typed, TableTyped
  <2>3. ObsTyped'
    BY <1>14, GotoTyped, DoneTyped DEF SettleInputRequired, ObserverPC
  <2>4. QED
    BY <1>14, <2>2, <2>3 DEF SettleInputRequired, OthersUnchanged, SlackUnchanged, Typed, TurnsTyped, TableTyped,
         RemoteTyped, SlackTyped
<1>15. CASE PostQuestion(o)
  <2>1. ObsTyped'
    BY <1>15, GotoTyped DEF PostQuestion, ObserverPC
  <2>2. asked' \in [TaskId -> [Rounds -> 0..2]]
    <3> DEFINE t == obs[o].task
               r == obs[o].seen.round
               q == asked[t]
               n == IF q[r] = 0 THEN 1 ELSE 2
    <3>1. asked \in [TaskId -> [Rounds -> 0..2]] /\ n \in 0..2
      BY DEF Typed, SlackTyped
    <3>2. asked' = [asked EXCEPT ![t] = [q EXCEPT ![r] = n]]
      BY <1>15 DEF PostQuestion
    <3>3. t \in TaskId
      BY <1>15 DEF PostQuestion
    <3> HIDE DEF t, r, n
    <3>4. [q EXCEPT ![r] = n] \in [Rounds -> 0..2]
      BY <3>1, <3>3
    <3>5. QED BY <3>1, <3>2, <3>3, <3>4
  <2>3. QED
    BY <1>15, <2>1, <2>2 DEF PostQuestion, OthersUnchanged, SlackUnchanged, Typed, TurnsTyped, TableTyped,
         RemoteTyped, SlackTyped
<1>16. CASE Revert(o)
  <2> DEFINE to == ToFrom(obs[o].row, "input-required")
  <2>1. to \in Lifecycle /\ obs[o].task \in TaskId
    BY <1>16, LifecycleType DEF Revert, TaskStates, Typed, ObsTyped, ObserverState
  <2>2. TableTyped'
    BY <1>16, <2>1, TransitionTyped DEF Revert, OthersUnchanged, Typed, TableTyped
  <2>3. outcome' \in [TaskId -> Outcomes]
    BY <1>16 DEF Revert, Outcomes, Typed, SlackTyped
  <2>4. QED
    BY <1>16, <2>2, <2>3, DoneTyped DEF Revert, OthersUnchanged, SlackUnchanged, Typed, TurnsTyped, TableTyped,
         RemoteTyped, SlackTyped
<1>17. QED
  BY <1>1, <1>2, <1>3, <1>4, <1>5, <1>6, <1>7, <1>8, <1>9, <1>10, <1>11, <1>12,
     <1>13, <1>14, <1>15, <1>16 DEF ObserverStep

LEMMA NextRowTyped ==
  ASSUME Typed, NEW t \in TaskId, NextRow(t) PROVE Typed'
<1> DEFINE s == sweep[t].state
           pc == IF /\ sweep[t].state \in ActiveExecutionStates
                    /\ sweep[t].overdue \/ task[t].overdue
                 THEN "expire" ELSE "poll"
           b == [pc |-> pc, task |-> t, row |-> s, seen |-> Unsent]
<1>1. s \in TaskStates /\ pc \in {"expire", "poll"}
  BY DEF Typed, TableTyped, Row
<1>2. obs' = [obs EXCEPT ![Reconciler] = b]
  BY DEF NextRow
<1> HIDE DEF s, pc
<1>3. b \in ObserverState /\ b.pc = pc /\ b.task = t
  <2>1. Unsent \in RemoteTask /\ pc \in ObserverPC
    BY <1>1 DEF Unsent, RemoteTask, ObserverPC
  <2>2. QED BY <1>1, <2>1 DEF ObserverState
<1> HIDE DEF b
<1>4. ObsTyped'
  BY <1>1, <1>2, <1>3 DEF Typed, ObsTyped, ObserverOK, Observer
<1>5. sweep' \in [TaskId -> Row]
  BY UntrackedRow DEF NextRow, Typed, TableTyped
<1>6. QED
  BY <1>4, <1>5 DEF NextRow, SlackUnchanged, Typed, TurnsTyped, TableTyped, RemoteTyped,
                    SlackTyped

LEMMA ExpireTyped == ASSUME Typed, Expire PROVE Typed'
<1> DEFINE to == [To("failed") EXCEPT !.ifOverdue = TRUE]
<1>1. Reconciler \in Observer /\ obs[Reconciler].task \in TaskId
  BY WorkingObserver DEF Expire, Rec, Observer
<1>2. "failed" \in TerminalStates /\ "failed" \in TaskStates
  BY DEF TerminalStates, TaskStates
<1>3. to \in Lifecycle
  BY <1>2, LifecycleType
<1> HIDE DEF to
<1>4. TableTyped'
  BY <1>1, <1>3, TransitionTyped DEF Expire, Rec, OthersUnchanged, Typed, TableTyped, to
<1>5. ObsTyped'
  BY <1>1, <1>2, WinTyped, GotoTyped DEF Expire, ObserverPC
<1>6. QED
  BY <1>4, <1>5 DEF Expire, OthersUnchanged, SlackUnchanged, Typed, TurnsTyped,
                    RemoteTyped, SlackTyped

LEMMA FailLostTyped == ASSUME Typed, FailLost PROVE Typed'
<1> DEFINE to == IF Rec.row \in ActiveExecutionStates
                 THEN To("failed") ELSE ToFrom("failed", Rec.row)
<1>1. Reconciler \in Observer /\ obs[Reconciler].task \in TaskId
  BY WorkingObserver DEF FailLost, Rec, Observer
<1>2. "failed" \in TerminalStates /\ "failed" \in TaskStates
  BY DEF TerminalStates, TaskStates
<1>3. Rec.row \in TaskStates
  BY <1>1 DEF Rec, Typed, ObsTyped, ObserverState
<1>4. to \in Lifecycle
  BY <1>2, <1>3, LifecycleType
<1> HIDE DEF to
<1>5. TableTyped'
  BY <1>1, <1>4, TransitionTyped DEF FailLost, Rec, OthersUnchanged, Typed, TableTyped, to
<1>6. ObsTyped'
  BY <1>1, <1>2, WinTyped, DoneTyped DEF FailLost
<1>7. QED
  BY <1>5, <1>6 DEF FailLost, OthersUnchanged, SlackUnchanged, Typed, TurnsTyped,
                    RemoteTyped, SlackTyped

LEMMA GotoTickTyped ==
  ASSUME Typed, NEW pc \in {"idle", "sweep", "prune"}, Goto(Reconciler, pc)
  PROVE  ObsTyped'
BY TypedIsTypeOK, GotoObserver DEF Typed, ObsTyped, ObserverOK, Observer, ObserverPC

LEMMA ReconcilerTyped == ASSUME Typed, ReconcilerStep PROVE Typed'
<1>1. CASE StartTick
  <2>1. sweep' \in [TaskId -> Row]
    BY <1>1, UntrackedRow DEF StartTick, Typed, TableTyped
  <2>2. QED
    BY <1>1, <2>1, GotoTickTyped
    DEF StartTick, SlackUnchanged, Typed, TurnsTyped, TableTyped, RemoteTyped, SlackTyped
<1>2. CASE \E t \in TaskId : NextRow(t)
  BY <1>2, NextRowTyped
<1>3. CASE Expire
  BY <1>3, ExpireTyped
<1>4. CASE PollGone
  <2>1. ObsTyped'
    BY <1>4, WorkingObserver, GotoTyped DEF PollGone, Rec, Observer, ObserverPC
  <2>2. QED
    BY <1>4, <2>1 DEF PollGone, OthersUnchanged, SlackUnchanged, Typed, TurnsTyped,
         TableTyped, RemoteTyped, SlackTyped
<1>5. CASE FailLost
  BY <1>5, FailLostTyped
<1>6. CASE EndSweep
  BY <1>6, GotoTickTyped DEF EndSweep, OthersUnchanged, SlackUnchanged, Typed, TurnsTyped,
       TableTyped, RemoteTyped, SlackTyped
<1>7. CASE Prune
  <2>1. Pruned(task) \in [TaskId -> Row]
    BY UntrackedRow DEF Pruned, Typed, TableTyped
  <2>2. QED
    BY <1>7, <2>1, GotoTickTyped DEF Prune, OthersUnchanged, SlackUnchanged, Typed,
         TurnsTyped, TableTyped, RemoteTyped, SlackTyped
<1>8. QED
  BY <1>1, <1>2, <1>3, <1>4, <1>5, <1>6, <1>7 DEF ReconcilerStep

LEMMA PushTyped ==
  ASSUME Typed, NEW o \in Push, NEW t \in TaskId, PushArrives(o, t)
  PROVE  Typed'
<1>1. ObsTyped'
  BY DEF PushArrives, Typed, ObsTyped, Observer, ObserverState, ObserverPC, ObserverOK
<1>2. QED
  BY <1>1 DEF PushArrives, OthersUnchanged, SlackUnchanged, Typed, TurnsTyped, TableTyped,
              RemoteTyped, SlackTyped

-----------------------------------------------------------------------------
(* Turns, the process, the agents and the clock.                           *)

LEMMA RepliedType ==
  ASSUME NEW r \in RemoteTask, NEW s \in TaskStates, CanReply(r, s)
  PROVE  Replied(r, s) \in RemoteTask /\ Replied(r, s).state = s
BY DEF Replied, CanReply, RemoteTask

LEMMA ReturnTyped == ASSUME Typed, NEW u \in Turn, Return(u) PROVE TurnsTyped'
<1> DEFINE c == [IdleTurn EXCEPT !.pc = "done"]
<1>1. c \in TurnState /\ c.pc = "done"
  BY DEF IdleTurn, TurnState, TurnPC, TaskStates, ActiveExecutionStates
<1>2. turn' = [turn EXCEPT ![u] = c]
  BY DEF Return
<1> HIDE DEF c
<1>3. QED BY <1>1, <1>2 DEF Typed, TurnsTyped, TurnOK

\* A turn whose message/send was answered with s for the task t.
LEMMA SentTyped ==
  ASSUME Typed, NEW u \in Turn, NEW t \in TaskId, NEW s \in TaskStates,
         NEW pc \in {"record", "rerecord"},
         turn' = [turn EXCEPT ![u] = [pc |-> pc, task |-> t, reply |-> s]]
  PROVE  TurnsTyped'
<1> DEFINE c == [pc |-> pc, task |-> t, reply |-> s]
<1>1. c \in TurnState /\ c.pc = pc /\ c.task = t
  BY DEF TurnState, TurnPC
<1> HIDE DEF c
<1>2. QED BY <1>1 DEF Typed, TurnsTyped, TurnOK, c

LEMMA StatusTyped == ASSUME Typed, ClearStatus PROVE thinking' \in BOOLEAN
BY DEF ClearStatus, Typed, SlackTyped

LEMMA TurnTyped == ASSUME Typed, NEW u \in Turn, TurnStep(u) PROVE Typed'
<1> SUFFICES TurnsTyped' /\ TableTyped' /\ RemoteTyped' /\ SlackTyped'
  BY DEF TurnStep, TurnStarts, TurnReplies, Send, SendFails, Record, RecordFails, Resume,
         ResumeFails, ResumeRejected, Rearm, Retire, ObserversUnchanged, Typed, ObsTyped
<1>r. remote \in [TaskId -> RemoteTask] /\ SendReplies \subseteq TaskStates
  BY DEF Typed, RemoteTyped
<1>t. turn \in [Turn -> TurnState]
  BY DEF Typed, TurnsTyped
<1>1. CASE TurnStarts(u)
  <2>1. TurnsTyped'
    BY <1>1 DEF TurnStarts, InputRequired, Typed, TurnsTyped, TurnState, TurnPC, TurnOK
  <2>2. QED
    BY <1>1, <2>1 DEF TurnStarts, ObserversUnchanged, history, Typed, TableTyped, RemoteTyped,
         SlackTyped
<1>2. CASE TurnReplies(u)
  BY <1>2, ReturnTyped, StatusTyped
  DEF TurnReplies, ObserversUnchanged, history, Typed, TableTyped, RemoteTyped, SlackTyped
<1>3. CASE Send(u)
  <2>1. PICK t \in TaskId, s \in SendReplies :
          /\ CanReply(remote[t], s)
          /\ remote' = [remote EXCEPT ![t] = Replied(remote[t], s)]
          /\ turn' = [turn EXCEPT ![u] =
               [pc |-> IF turn[u].pc = "delegate" THEN "record" ELSE "rerecord",
                task |-> t, reply |-> s]]
    BY <1>3 DEF Send
  <2>2. TurnsTyped'
    BY <2>1, <1>r, SentTyped
  <2>3. RemoteTyped'
    BY <2>1, <1>r, RepliedType DEF RemoteTyped
  <2>4. QED
    BY <1>3, <2>2, <2>3 DEF Send, ObserversUnchanged, SlackUnchanged, Typed, TableTyped,
         SlackTyped
<1>4. CASE SendFails(u)
  <2>1. RemoteTyped' /\ outcome' \in [TaskId -> Outcomes]
    BY <1>4, <1>r, RepliedType DEF SendFails, Typed, RemoteTyped, SlackTyped, Outcomes
  <2>2. QED
    BY <1>4, <2>1, ReturnTyped, StatusTyped
    DEF SendFails, ObserversUnchanged, Typed, TableTyped, SlackTyped
<1>5. CASE Record(u)
  <2>1. turn[u].task \in TaskId /\ turn[u].reply \in TaskStates
    BY <1>5, <1>t DEF Record, Typed, TurnsTyped, TurnOK, TurnState
  <2>2. Recorded(task[turn[u].task], turn[u].reply) \in Row
    BY <2>1, RecordedRow DEF Typed, TableTyped, Recorded
  <2>3. TableTyped'
    BY <1>5, <2>1, <2>2 DEF Record, ObserversUnchanged, Typed, TableTyped
  <2>4. QED
    BY <1>5, <2>3, ReturnTyped DEF Record, SlackUnchanged, Typed, RemoteTyped, SlackTyped
<1>6. CASE RecordFails(u)
  <2>1. outcome' \in [TaskId -> Outcomes] /\ thinking' \in BOOLEAN
    BY <1>6, StatusTyped DEF RecordFails, Typed, SlackTyped, Outcomes
  <2>2. QED
    BY <1>6, <2>1, ReturnTyped
    DEF RecordFails, ObserversUnchanged, Typed, TableTyped, RemoteTyped, SlackTyped
<1>7. CASE Resume(u)
  <2>1. turn[u].task \in TaskId
    BY <1>7 DEF Resume, Typed, TurnsTyped, TurnOK
  <2>2. RemoteTyped'
    BY <1>7, <2>1, <1>r, RepliedType DEF Resume, RemoteTyped
  <2>3. TurnsTyped'
    <3>1. PICK s \in TaskStates : turn' = [turn EXCEPT ![u].pc = "rearm", ![u].reply = s]
      BY <1>7, <1>r DEF Resume
    <3>2. QED
      BY <1>t, <2>1, <3>1 DEF Typed, TurnsTyped, TurnState, TurnPC, TurnOK
  <2>4. QED
    BY <1>7, <2>2, <2>3 DEF Resume, ObserversUnchanged, SlackUnchanged, Typed, TableTyped,
         SlackTyped
<1>8. CASE ResumeFails(u)
  <2>1. turn[u].task \in TaskId
    BY <1>8 DEF ResumeFails, Typed, TurnsTyped, TurnOK
  <2>2. RemoteTyped'
    BY <1>8, <2>1, <1>r, RepliedType DEF ResumeFails, RemoteTyped
  <2>3. QED
    BY <1>8, <2>2, ReturnTyped, StatusTyped
    DEF ResumeFails, ObserversUnchanged, history, Typed, TableTyped, SlackTyped
<1>9. CASE ResumeRejected(u)
  <2>1. TurnsTyped'
    BY <1>9, <1>t DEF ResumeRejected, Typed, TurnsTyped, TurnState, TurnPC, TurnOK
  <2>2. QED
    BY <1>9, <2>1 DEF ResumeRejected, ObserversUnchanged, SlackUnchanged, Typed, TableTyped,
         RemoteTyped, SlackTyped
<1>10. CASE Rearm(u)
  <2> DEFINE to == [ToFrom(turn[u].reply, "input-required") EXCEPT !.rearm = TRUE]
  <2>1. turn[u].task \in TaskId /\ to \in Lifecycle
    BY <1>10, <1>t, LifecycleType
    DEF Rearm, Typed, TurnsTyped, TurnOK, TurnState, TaskStates
  <2> HIDE DEF to
  <2>2. TableTyped'
    BY <1>10, <2>1, TransitionTyped DEF Rearm, ObserversUnchanged, Typed, TableTyped, to
  <2>3. outcome' \in [TaskId -> Outcomes]
    BY <1>10 DEF Rearm, Typed, SlackTyped, Outcomes
  <2>4. QED
    BY <1>10, <2>2, <2>3, ReturnTyped DEF Rearm, Typed, RemoteTyped, SlackTyped
<1>11. CASE Retire(u)
  <2> DEFINE to == ToFrom("failed", "input-required")
  <2>1. turn[u].task \in TaskId /\ to \in Lifecycle
    BY <1>11, LifecycleType
    DEF Retire, Typed, TurnsTyped, TurnOK, TaskStates, TerminalStates
  <2> HIDE DEF to
  <2>2. TableTyped'
    BY <1>11, <2>1, TransitionTyped DEF Retire, ObserversUnchanged, Typed, TableTyped, to
  <2>3. outcome' \in [TaskId -> Outcomes]
    BY <1>11 DEF Retire, Typed, SlackTyped, Outcomes
  <2>4. TurnsTyped'
    BY <1>11 DEF Retire, Typed, TurnsTyped, TurnState, TurnPC, TurnOK
  <2>5. QED
    BY <1>11, <2>2, <2>3, <2>4 DEF Retire, Typed, RemoteTyped, SlackTyped
<1>12. QED
  BY <1>1, <1>2, <1>3, <1>4, <1>5, <1>6, <1>7, <1>8, <1>9, <1>10, <1>11 DEF TurnStep

LEMMA CrashTyped == ASSUME Typed, Crash PROVE Typed'
<1> DEFINE idle == [IdleTurn EXCEPT !.pc = "done"]
<1>1. ObsTyped'
  BY DEF Crash, IdleObserver, ObsTyped, ObserverState, ObserverPC, ObserverOK, RemoteTask,
         Unsent, TaskStates, ActiveExecutionStates
<1>2. /\ IdleTurn \in TurnState /\ idle \in TurnState
      /\ TurnOK(IdleTurn) /\ TurnOK(idle)
  BY DEF IdleTurn, TurnState, TurnPC, TurnOK, TaskStates, ActiveExecutionStates
<1> HIDE DEF idle
<1>3. \A u \in Turn : turn'[u] \in {IdleTurn, idle}
  BY DEF Crash, idle
<1>4. TurnsTyped'
  BY <1>2, <1>3 DEF Crash, TurnsTyped
<1>5. sweep' \in [TaskId -> Row] /\ outcome' \in [TaskId -> Outcomes]
  BY UntrackedRow DEF Crash, Typed, SlackTyped, Outcomes
<1>6. QED
  BY <1>1, <1>4, <1>5 DEF Crash, Typed, TableTyped, RemoteTyped, SlackTyped

LEMMA EnvironmentTyped ==
  ASSUME Typed, NEW t \in TaskId, Environment(t) PROVE Typed'
<1>r. remote \in [TaskId -> RemoteTask] /\ task \in [TaskId -> Row]
  BY DEF Typed, RemoteTyped, TableTyped
<1>1. CASE RemoteWorks(t) \/ RemoteAsks(t) \/ RemoteEnds(t) \/ RemoteForgets(t)
  <2>1. RemoteTyped'
    <3>1. CASE RemoteAsks(t)
      BY <3>1, <1>r, RepliedType DEF RemoteAsks, RemoteTyped, TaskStates
    <3>2. CASE RemoteEnds(t)
      BY <3>2, <1>r DEF RemoteEnds, RemoteTyped, RemoteTask, TaskStates
    <3>3. CASE RemoteWorks(t) \/ RemoteForgets(t)
      BY <3>3, <1>r DEF RemoteWorks, RemoteForgets, RemoteTyped, RemoteTask, TaskStates,
                        ActiveExecutionStates
    <3>4. QED BY <1>1, <3>1, <3>2, <3>3
  <2>2. QED
    BY <1>1, <2>1 DEF RemoteWorks, RemoteAsks, RemoteEnds, RemoteForgets, BotUnchanged,
         SlackUnchanged, Typed, ObsTyped, TurnsTyped, TableTyped, SlackTyped
<1>2. CASE DeadlinePasses(t) \/ GraceElapses(t) \/ RetentionElapses(t)
  <2>1. task' \in [TaskId -> Row]
    <3>1. \/ task' = [task EXCEPT ![t].overdue = TRUE]
          \/ \E age \in Ages : task' = [task EXCEPT ![t].age = age]
      BY <1>2 DEF DeadlinePasses, GraceElapses, RetentionElapses, Ages
    <3>2. QED BY <1>r, <3>1 DEF Row
  <2>2. QED
    BY <1>2, <2>1 DEF DeadlinePasses, GraceElapses, RetentionElapses, BotUnchanged,
         SlackUnchanged, Typed, ObsTyped, TurnsTyped, TableTyped, RemoteTyped, SlackTyped
<1>3. QED BY <1>1, <1>2 DEF Environment

LEMMA InitTyped == Init => Typed
<1> SUFFICES ASSUME Init PROVE Typed
  OBVIOUS
<1>1. ObsTyped
  BY DEF Init, IdleObserver, ObsTyped, ObserverState, ObserverPC, ObserverOK, RemoteTask,
         Unsent, TaskStates, ActiveExecutionStates
<1>2. TurnsTyped
  BY DEF Init, IdleTurn, TurnsTyped, TurnState, TurnPC, TurnOK, TaskStates,
         ActiveExecutionStates
<1>3. TableTyped
  BY UntrackedRow DEF Init, TableTyped
<1>4. RemoteTyped
  BY DEF Init, RemoteTyped, RemoteTask, Unsent
<1>5. SlackTyped
  <2> DEFINE none == [r \in Rounds |-> 0]
  <2>1. none \in [Rounds -> 0..2]
    OBVIOUS
  <2>2. asked = [t \in TaskId |-> none]
    BY DEF Init
  <2> HIDE DEF none
  <2>3. asked \in [TaskId -> [Rounds -> 0..2]]
    BY <2>1, <2>2
  <2>4. QED BY <2>3 DEF Init, SlackTyped, Outcomes
<1>6. QED BY <1>1, <1>2, <1>3, <1>4, <1>5 DEF Typed

LEMMA NextTyped == Typed /\ [Next]_vars => Typed'
<1> SUFFICES ASSUME Typed, [Next]_vars PROVE Typed'
  OBVIOUS
<1>1. CASE UNCHANGED vars
  BY <1>1 DEF vars, Typed, ObsTyped, TurnsTyped, TableTyped, RemoteTyped, SlackTyped
<1>2. CASE Next
  BY <1>2, ObserverTyped, PushTyped, ReconcilerTyped, TurnTyped, EnvironmentTyped, CrashTyped
  DEF Next
<1>3. QED BY <1>1, <1>2

\* Every variable keeps its type, and every actor that works on a task knows
\* which one and with what to report: pushes, ticks, turns, crashes, whatever
\* the number of tasks, pushes and messages.
THEOREM TypeCorrect == Spec => [](TypeOK /\ ActorsOK)
BY InitTyped, NextTyped, TypedIsTypeOK, PTL DEF Spec
=============================================================================
