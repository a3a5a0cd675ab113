--------------------- MODULE TaskLifecycleSafety_proofs ---------------------
(* The safety of TaskLifecycle, from the inductive invariant IInv. *)
EXTENDS TaskLifecycle_proofs

USE NamesAssumption, StatesAssumption, RoundsAssumption

-----------------------------------------------------------------------------
(* The invariant, by task and by observer.                                 *)

\* What settlement, outcome and answers of one task have to do with each other.
SettleInv(t) ==
  /\ \A o, p \in Observer : Holds(o, t) /\ Holds(p, t) => o = p
  /\ \A o \in Observer : Holds(o, t) =>
       /\ task[t].tracked /\ task[t].settled /\ task[t].age # "old"
       /\ task[t].state = obs[o].seen.state
       /\ outcome[t] = "open" /\ answers[t] = 0
  /\ task[t].tracked /\ task[t].settled => Held(t) \/ outcome[t] # "open"
  /\ outcome[t] # "open" /\ task[t].tracked => task[t].settled
  /\ answers[t] = IF outcome[t] \in TerminalStates THEN 1 ELSE 0
  /\ answers[t] > 0 /\ task[t].tracked => task[t].settled /\ task[t].state = outcome[t]

RecordInv(t) ==
  /\ remote[t].state = "none" => ~task[t].tracked /\ outcome[t] = "open"
  /\ \A u \in Turn : Recording(u, t) =>
       /\ ~task[t].tracked /\ outcome[t] = "open" /\ remote[t].state # "none"
       /\ \A v \in Turn : Recording(v, t) => u = v

MarkInv(o) ==
  obs[o].pc = "mark" \/ (obs[o].pc = "clear" /\ obs[o].seen.state # "input-required")
    => answers[obs[o].task] = 1

Core ==
  /\ Typed
  /\ \A t \in TaskId : SettleInv(t)
  /\ \A t \in TaskId : RecordInv(t)
  /\ \A o \in Observer : MarkInv(o)
  /\ \A t \in responded : answers[t] = 1

LEMMA CoreIsIInv == Core <=> IInv
<1>1. (\A t \in TaskId : SettleInv(t)) <=>
        /\ SettlementElection /\ SettledAccounted /\ ClosedStaysClosed
        /\ AnswersOK /\ AnswerMatchesRow
  BY DEF SettleInv, SettlementElection, SettledAccounted, ClosedStaysClosed, AnswersOK,
         AnswerMatchesRow
<1>2. (\A t \in TaskId : RecordInv(t)) <=> RecordingOK
  BY DEF RecordInv, RecordingOK
<1>3. (\A o \in Observer : MarkInv(o)) <=> MarksOK
  BY DEF MarkInv, MarksOK
<1>4. QED
  BY <1>1, <1>2, <1>3, TypedIsTypeOK DEF Core, IInv, RespondedMeansAnswered

-----------------------------------------------------------------------------
(* What a step may do to one task's settlement.                            *)

Free(t) == \A o \in Observer : ~Holds(o, t)

SameHolders(t) ==
  \A o \in Observer :
    /\ Holds(o, t)' <=> Holds(o, t)
    /\ Holds(o, t) => obs'[o].seen = obs[o].seen

SameAccount(t) == outcome'[t] = outcome[t] /\ answers'[t] = answers[t]

SameRow(t) ==
  /\ task'[t].tracked = task[t].tracked
  /\ task'[t].settled = task[t].settled
  /\ task'[t].state = task[t].state

\* A step of o that neither starts nor ends holding t keeps the holders of t.
LEMMA KeepsHolders ==
  ASSUME NEW o \in Observer, NEW t \in TaskId,
         \A p \in Observer : p # o => obs'[p] = obs[p],
         ~Holds(o, t), ~Holds(o, t)'
  PROVE  SameHolders(t)
BY DEF SameHolders, Holds

LEMMA KeepsFree ==
  ASSUME NEW t \in TaskId, SameHolders(t)
  PROVE  Free(t) <=> Free(t)'
BY DEF SameHolders, Free

\* A row that is not settled has no holder, no answer and an open outcome.
LEMMA UnsettledIsOpen ==
  ASSUME NEW t \in TaskId, SettleInv(t), task[t].tracked, ~task[t].settled
  PROVE  Free(t) /\ outcome[t] = "open" /\ answers[t] = 0
BY DEF SettleInv, Free, TerminalStates

LEMMA SettleFrame ==
  ASSUME NEW t \in TaskId, SettleInv(t), SameHolders(t), SameAccount(t), SameRow(t),
         task'[t].age = "old" => task[t].age = "old" \/ Free(t)
  PROVE  SettleInv(t)'
BY DEF SettleInv, SameHolders, SameAccount, SameRow, Free, Held

LEMMA SettleForgotten ==
  ASSUME NEW t \in TaskId, SettleInv(t), SameHolders(t), SameAccount(t), Free(t),
         ~task'[t].tracked
  PROVE  SettleInv(t)'
BY DEF SettleInv, SameHolders, SameAccount, Free, Held

\* The row is, or goes back to, being unsettled.
LEMMA SettleOpen ==
  ASSUME NEW t \in TaskId, SettleInv(t), SameAccount(t), outcome[t] = "open", Free(t)',
         ~task'[t].settled
  PROVE  SettleInv(t)'
BY DEF SettleInv, SameAccount, Free, Held, TerminalStates

\* The bot is done with the task without an answer.
LEMMA SettleClosed ==
  ASSUME NEW t \in TaskId, SettleInv(t), outcome[t] = "open", Free(t)',
         answers'[t] = answers[t], outcome'[t] \notin {"open"} \cup TerminalStates,
         task'[t].tracked => task'[t].settled
  PROVE  SettleInv(t)'
BY DEF SettleInv, Free, Held, TerminalStates

LEMMA SettleClaimed ==
  ASSUME NEW t \in TaskId, SettleInv(t), SameAccount(t), task[t].tracked, ~task[t].settled,
         NEW o \in Observer, \A p \in Observer : p # o => obs'[p] = obs[p],
         Holds(o, t)',
         task'[t].tracked, task'[t].settled, task'[t].age = "fresh",
         task'[t].state = obs'[o].seen.state
  PROVE  SettleInv(t)'
<1>1. Free(t) /\ outcome[t] = "open" /\ answers[t] = 0
  BY UnsettledIsOpen
<1>2. \A p \in Observer : Holds(p, t)' => p = o
  BY <1>1 DEF Free, Holds
<1>3. outcome'[t] = "open" /\ answers'[t] = 0
  BY <1>1 DEF SameAccount
<1>4. QED BY <1>2, <1>3 DEF SettleInv, Held, TerminalStates

LEMMA SettleAnswered ==
  ASSUME NEW t \in TaskId, SettleInv(t), SameRow(t),
         NEW o \in Observer, Holds(o, t), Free(t)',
         obs[o].seen.state \in TerminalStates,
         outcome'[t] = obs[o].seen.state, answers'[t] = answers[t] + 1
  PROVE  SettleInv(t)'
<1>1. /\ task[t].settled /\ task[t].state = obs[o].seen.state /\ answers[t] = 0
  BY DEF SettleInv
<1>2. answers'[t] = 1 /\ outcome'[t] # "open"
  BY <1>1 DEF TerminalStates
<1>3. QED BY <1>1, <1>2 DEF SettleInv, SameRow, Free, Held

-----------------------------------------------------------------------------
(* Recording.                                                              *)

LEMMA RecordFrame ==
  ASSUME NEW t \in TaskId, RecordInv(t),
         remote'[t].state = "none" => remote[t].state = "none",
         \A u \in Turn : Recording(u, t)' => Recording(u, t),
         task[t].tracked \/ (~task'[t].tracked /\ outcome'[t] = outcome[t])
  PROVE  RecordInv(t)'
BY DEF RecordInv

LEMMA RecordEnds ==
  ASSUME NEW t \in TaskId, remote'[t].state # "none",
         \A u \in Turn : ~Recording(u, t)'
  PROVE  RecordInv(t)'
BY DEF RecordInv

-----------------------------------------------------------------------------
(* The steps of the observers.                                             *)

\* A step of o alone, which holds no task before and none after.
Quiet(o) ==
  /\ \A p \in Observer : p # o => obs'[p] = obs[p]
  /\ obs[o].pc \notin {"post", "unsettle"} /\ obs'[o].pc \notin {"post", "unsettle"}

LEMMA QuietHolders ==
  ASSUME NEW o \in Observer, Quiet(o), NEW t \in TaskId
  PROVE  SameHolders(t)
BY DEF Quiet, SameHolders, Holds

LEMMA QuietSettle ==
  ASSUME Core, NEW o \in Observer, Quiet(o), UNCHANGED <<task, outcome, answers>>,
         NEW t \in TaskId
  PROVE  SettleInv(t)'
BY QuietHolders, SettleFrame DEF Core, SameAccount, SameRow

LEMMA QuietObserver ==
  ASSUME Core, NEW o \in Observer,
         \/ FindRow(o) \/ Poll(o) \/ ObserveFails(o) \/ TransitionFails(o)
         \/ Report(o) \/ Clear(o) \/ Mark(o) \/ PostQuestion(o)
  PROVE  Quiet(o) /\ UNCHANGED <<task, outcome, answers>>
<1>1. TypeOK /\ obs \in [Observer -> ObserverState]
  BY TypedIsTypeOK DEF Core, Typed, ObsTyped
<1>2. CASE FindRow(o)
  <2>1. CASE obs' = [obs EXCEPT ![o].pc = "poll", ![o].row = task[obs[o].task].state]
    BY <1>1, <1>2, <2>1 DEF Quiet, FindRow, OthersUnchanged, SlackUnchanged, ObserverState
  <2>2. CASE Goto(o, "relookup")
    BY <1>1, <1>2, <2>2, GotoObserver
    DEF Quiet, FindRow, OthersUnchanged, SlackUnchanged, ObserverPC
  <2>3. CASE Done(o)
    BY <1>1, <1>2, <2>3, DoneObserver DEF Quiet, FindRow, OthersUnchanged, SlackUnchanged
  <2>4. QED BY <1>2, <2>1, <2>2, <2>3 DEF FindRow
<1>3. CASE Poll(o)
  BY <1>1, <1>3 DEF Quiet, Poll, OthersUnchanged, SlackUnchanged, ObserverState
<1>4. CASE ObserveFails(o) \/ TransitionFails(o) \/ Report(o) \/ Mark(o)
  BY <1>1, <1>4, DoneObserver
  DEF Quiet, ObserveFails, TransitionFails, Report, Mark, history, OthersUnchanged,
      SlackUnchanged
<1>5. CASE Clear(o)
  <2>1. Done(o) \/ Goto(o, "mark")
    BY <1>5 DEF Clear
  <2>2. QED
    BY <1>1, <1>5, <2>1, DoneObserver, GotoObserver
    DEF Quiet, Clear, history, OthersUnchanged, ObserverPC
<1>6. CASE PostQuestion(o)
  BY <1>1, <1>6, GotoObserver DEF Quiet, PostQuestion, OthersUnchanged, ObserverPC
<1>7. QED BY <1>2, <1>3, <1>4, <1>5, <1>6

LEMMA QuietReconciler ==
  ASSUME Core, StartTick \/ (\E t \in TaskId : NextRow(t)) \/ PollGone \/ EndSweep
  PROVE  Quiet(Reconciler) /\ UNCHANGED <<task, outcome, answers>>
<1>1. /\ TypeOK /\ obs \in [Observer -> ObserverState] /\ Reconciler \in Observer
  BY TypedIsTypeOK DEF Core, Typed, ObsTyped, Observer
<1>2. CASE StartTick \/ PollGone \/ EndSweep
  BY <1>1, <1>2, GotoObserver
  DEF Quiet, StartTick, PollGone, EndSweep, Rec, OthersUnchanged, SlackUnchanged, ObserverPC
<1>3. CASE \E t \in TaskId : NextRow(t)
  <2>1. PICK t \in TaskId : NextRow(t)
    BY <1>3
  <2> DEFINE pc == IF /\ sweep[t].state \in ActiveExecutionStates
                      /\ sweep[t].overdue \/ task[t].overdue
                   THEN "expire" ELSE "poll"
             b == [pc |-> pc, task |-> t, row |-> sweep[t].state, seen |-> Unsent]
  <2>2. obs' = [obs EXCEPT ![Reconciler] = b]
    BY <2>1 DEF NextRow
  <2>3. b.pc \in {"expire", "poll"}
    OBVIOUS
  <2> HIDE DEF b
  <2>4. QED BY <1>1, <2>1, <2>2, <2>3 DEF Quiet, NextRow, Rec, SlackUnchanged
<1>4. QED BY <1>2, <1>3

\* A transition to a state that is not terminal, by an observer that goes on
\* without holding the task.
LEMMA ExecutingSettle ==
  ASSUME Core, NEW o \in Observer, Quiet(o), NEW t \in TaskId, NEW to \in Lifecycle,
         Applies(task[t], to), Transition(t, to), to.state \notin TerminalStates,
         UNCHANGED <<outcome, answers>>, NEW x \in TaskId
  PROVE  SettleInv(x)'
<1>1. /\ \A y \in TaskId : y # t => task'[y] = task[y]
      /\ ~task'[t].settled
  BY TypedIsTypeOK, TransitionTable DEF Core
<1>2. SameHolders(x) /\ SettleInv(x) /\ SameAccount(x)
  BY QuietHolders DEF Core, SameAccount
<1>3. CASE x = t
  <2>1. Free(x) /\ outcome[x] = "open"
    BY <1>2, <1>3, AppliesRow, UnsettledIsOpen
  <2>2. QED BY <1>1, <1>2, <1>3, <2>1, KeepsFree, SettleOpen
<1>4. CASE x # t
  BY <1>1, <1>2, <1>4, SettleFrame DEF SameRow
<1>5. QED BY <1>3, <1>4

\* The election: a transition to a terminal state, won by an observer.
LEMMA ClaimSettle ==
  ASSUME Core, NEW o \in Observer, NEW s \in TerminalStates, NEW to \in Lifecycle,
         obs[o].task \in TaskId, obs[o].pc \notin {"post", "unsettle"},
         Applies(task[obs[o].task], to), Transition(obs[o].task, to), to.state = s,
         Win(o, s), UNCHANGED <<outcome, answers>>, NEW x \in TaskId
  PROVE  SettleInv(x)'
<1>t. PICK t \in TaskId : t = obs[o].task
  OBVIOUS
<1>1. /\ \A y \in TaskId : y # t => task'[y] = task[y]
      /\ task'[t].tracked = task[t].tracked /\ task'[t].state = s
      /\ task'[t].settled /\ task'[t].age = "fresh"
  BY <1>t, TypedIsTypeOK, TransitionTable DEF Core
<1>2. /\ \A p \in Observer : p # o => obs'[p] = obs[p]
      /\ obs'[o].pc = "post" /\ obs'[o].task = t /\ obs'[o].seen.state = s
  BY <1>t, TypedIsTypeOK, WinObserver DEF Core, TaskStates
<1>3. SettleInv(x) /\ SameAccount(x)
  BY DEF Core, SameAccount
<1>4. CASE x = t
  <2>1. task[t].tracked /\ ~task[t].settled /\ Holds(o, t)'
    BY <1>t, <1>2, AppliesRow DEF Holds
  <2>2. QED BY <1>1, <1>2, <1>3, <1>4, <2>1, SettleClaimed
<1>5. CASE x # t
  <2>1. SameHolders(x)
    BY <1>t, <1>2, <1>5, KeepsHolders DEF Holds
  <2>2. QED BY <1>1, <1>3, <1>5, <2>1, SettleFrame DEF SameRow
<1>6. QED BY <1>4, <1>5

\* A transition to a terminal state that no post goes with.
LEMMA BuriedSettle ==
  ASSUME Core, NEW t \in TaskId, NEW to \in Lifecycle, Applies(task[t], to),
         Transition(t, to), to.state \in TerminalStates,
         \A x \in TaskId : SameHolders(x),
         UNCHANGED answers, NEW why \in {"buried", "retired"},
         outcome' = [outcome EXCEPT ![t] = why], NEW x \in TaskId
  PROVE  SettleInv(x)'
<1>1. /\ \A y \in TaskId : y # t => task'[y] = task[y]
      /\ task'[t].settled
  BY TypedIsTypeOK, TransitionTable DEF Core
<1>2. SameHolders(x) /\ SettleInv(x) /\ outcome \in [TaskId -> Outcomes]
  BY DEF Core, Typed, SlackTyped
<1>3. CASE x = t
  <2>1. Free(x) /\ outcome[x] = "open" /\ outcome'[x] = why
    BY <1>2, <1>3, AppliesRow, UnsettledIsOpen
  <2>2. QED BY <1>1, <1>2, <1>3, <2>1, KeepsFree, SettleClosed DEF TerminalStates
<1>4. CASE x # t
  BY <1>1, <1>2, <1>4, SettleFrame DEF SameRow, SameAccount
<1>5. QED BY <1>3, <1>4

LEMMA ObserverSettle ==
  ASSUME Core, NEW o \in Observer, ObserverStep(o), NEW x \in TaskId
  PROVE  SettleInv(x)'
<1>o. /\ Typed /\ TypeOK /\ obs \in [Observer -> ObserverState] /\ SettleInv(x)
      /\ task \in [TaskId -> Row] /\ outcome \in [TaskId -> Outcomes]
      /\ answers \in [TaskId -> Nat]
  BY TypedIsTypeOK DEF Core, Typed, ObsTyped, TableTyped, SlackTyped
<1>1. CASE \/ FindRow(o) \/ Poll(o) \/ ObserveFails(o) \/ TransitionFails(o)
           \/ Report(o) \/ Clear(o) \/ Mark(o) \/ PostQuestion(o)
  BY <1>1, QuietObserver, QuietSettle
<1>2. CASE Heartbeat(o)
  <2>t. PICK t \in TaskId : t = obs[o].task
    BY <1>2, <1>o, WorkingObserver DEF Heartbeat
  <2>1. Quiet(o)
    <3>1. CASE Done(o)
      BY <1>o, <1>2, <3>1, DoneObserver DEF Quiet, Heartbeat
    <3>2. CASE obs' = [obs EXCEPT ![o] = [IdleObserver EXCEPT !.pc = "report"]]
      BY <1>o, <1>2, <3>2, IdleType DEF Quiet, Heartbeat, ObserverPC
    <3>3. QED BY <1>2, <3>1, <3>2 DEF Heartbeat
  <2>2. PICK s \in ActiveExecutionStates : s = obs[o].seen.state
    BY <1>2 DEF Heartbeat, To
  <2>3. To(s) \in Lifecycle /\ To(s).state \notin TerminalStates
    BY LifecycleType DEF TaskStates, ActiveExecutionStates, TerminalStates
  <2>4. UNCHANGED <<outcome, answers>>
    BY <1>2 DEF Heartbeat, SlackUnchanged
  <2>5. CASE Applies(task[t], To(s))
    <3>1. Transition(t, To(s))
      BY <1>2, <2>t, <2>2, <2>5 DEF Heartbeat
    <3>2. QED BY <2>1, <2>3, <2>4, <2>5, <3>1, ExecutingSettle
  <2>6. CASE ~Applies(task[t], To(s))
    BY <1>2, <2>t, <2>1, <2>2, <2>4, <2>6, QuietSettle DEF Heartbeat
  <2>7. QED BY <2>5, <2>6
<1>3. CASE SettleTerminal(o)
  <2>t. obs[o].task \in TaskId /\ obs[o].pc \notin {"post", "unsettle"}
    BY <1>3, <1>o, WorkingObserver DEF SettleTerminal
  <2>1. PICK s \in TerminalStates : s = obs[o].seen.state
    BY <1>3 DEF SettleTerminal, To
  <2>2. To(s) \in Lifecycle /\ To(s).state = s
    BY LifecycleType DEF TaskStates
  <2>3. UNCHANGED <<outcome, answers>>
    BY <1>3 DEF SettleTerminal, SlackUnchanged
  <2>4. CASE Applies(task[obs[o].task], To(s))
    <3>1. Transition(obs[o].task, To(s)) /\ Win(o, s)
      BY <1>3, <2>1, <2>2, <2>4 DEF SettleTerminal
    <3>2. QED BY <2>t, <2>2, <2>3, <2>4, <3>1, ClaimSettle
  <2>5. CASE ~Applies(task[obs[o].task], To(s))
    <3>1. UNCHANGED task /\ Done(o)
      BY <1>3, <2>1, <2>5 DEF SettleTerminal
    <3>2. Quiet(o)
      BY <1>o, <2>t, <3>1, DoneObserver DEF Quiet
    <3>3. QED BY <2>3, <3>1, <3>2, QuietSettle
  <2>6. QED BY <2>4, <2>5
<1>4. CASE PostAnswer(o)
  <2>t. PICK t \in TaskId : t = obs[o].task
    BY <1>4, <1>o, WorkingObserver DEF PostAnswer
  <2>1. /\ \A p \in Observer : p # o => obs'[p] = obs[p]
        /\ obs'[o].pc = "clear"
    BY <1>4, <1>o, GotoObserver DEF PostAnswer, ObserverPC
  <2>2. CASE x = t
    <3>1. Holds(o, x) /\ obs[o].seen.state \in TerminalStates
      BY <1>4, <1>o, <2>t, <2>2 DEF PostAnswer, Holds, Typed, ObsTyped, ObserverOK
    <3>2. Free(x)'
      BY <1>o, <2>1, <3>1 DEF SettleInv, Free, Holds
    <3>3. /\ SameRow(x) /\ outcome'[x] = obs[o].seen.state
          /\ answers'[x] = answers[x] + 1
      BY <1>4, <1>o, <2>t, <2>2 DEF PostAnswer, SameRow
    <3>4. QED BY <1>o, <3>1, <3>2, <3>3, SettleAnswered
  <2>3. CASE x # t
    <3>1. SameHolders(x)
      BY <1>4, <2>t, <2>1, <2>3, KeepsHolders DEF Holds
    <3>2. SameRow(x) /\ SameAccount(x) /\ task'[x] = task[x]
      BY <1>4, <2>t, <2>3 DEF PostAnswer, SameRow, SameAccount
    <3>3. QED BY <1>o, <3>1, <3>2, SettleFrame
  <2>4. QED BY <2>2, <2>3
<1>5. CASE PostFails(o)
  <2>1. \/ obs[o].pc = "post" /\ Goto(o, "unsettle")
        \/ obs[o].pc = "ask" /\ Goto(o, "revert")
    BY <1>5 DEF PostFails
  <2>2. SameHolders(x)
    BY <1>o, <2>1, GotoObserver DEF SameHolders, Holds, ObserverPC
  <2>3. SameRow(x) /\ SameAccount(x) /\ task' = task
    BY <1>5 DEF PostFails, SlackUnchanged, SameRow, SameAccount
  <2>4. QED BY <1>o, <2>2, <2>3, SettleFrame
<1>6. CASE Unsettle(o) \/ UnsettleFails(o)
  <2>t. PICK t \in TaskId : t = obs[o].task
    BY <1>6, <1>o, WorkingObserver DEF Unsettle, UnsettleFails
  <2>0. obs[o].pc = "unsettle"
    BY <1>6 DEF Unsettle, UnsettleFails
  <2>1. /\ \A p \in Observer : p # o => obs'[p] = obs[p]
        /\ obs'[o].pc \in {"idle", "sweep"}
    BY <1>6, <1>o, DoneObserver DEF Unsettle, UnsettleFails
  <2>2. CASE x = t
    <3>1. Holds(o, x) /\ task[x].tracked /\ task[x].settled /\ outcome[x] = "open"
      BY <1>o, <2>0, <2>t, <2>2 DEF Holds, SettleInv
    <3>2. Free(x)'
      BY <1>o, <2>1, <3>1 DEF SettleInv, Free, Holds
    <3>3. CASE Unsettle(o)
      <4>1. ~task'[x].settled
        BY <1>o, <2>t, <2>2, <3>1, <3>3, UnsettledRow DEF Unsettle
      <4>2. SameAccount(x)
        BY <3>3 DEF Unsettle, SlackUnchanged, SameAccount
      <4>3. QED BY <1>o, <3>1, <3>2, <4>1, <4>2, SettleOpen
    <3>4. CASE UnsettleFails(o)
      <4>1. /\ outcome'[x] = "abandoned" /\ answers' = answers /\ task' = task
        BY <1>o, <2>t, <2>2, <3>4 DEF UnsettleFails
      <4>2. QED BY <1>o, <3>1, <3>2, <4>1, SettleClosed DEF TerminalStates
    <3>5. QED BY <1>6, <3>3, <3>4
  <2>3. CASE x # t
    <3>1. SameHolders(x)
      BY <2>t, <2>1, <2>3, KeepsHolders DEF Holds
    <3>2. SameRow(x) /\ SameAccount(x) /\ task'[x] = task[x]
      <4>1. CASE Unsettle(o)
        BY <1>o, <2>t, <2>3, <4>1 DEF Unsettle, SlackUnchanged, SameRow, SameAccount
      <4>2. CASE UnsettleFails(o)
        BY <1>o, <2>t, <2>3, <4>2 DEF UnsettleFails, SameRow, SameAccount
      <4>3. QED BY <1>6, <4>1, <4>2
    <3>3. QED BY <1>o, <3>1, <3>2, SettleFrame
  <2>4. QED BY <2>2, <2>3
<1>7. CASE SettleInputRequired(o)
  <2>t. PICK t \in TaskId : t = obs[o].task
    BY <1>7, <1>o, WorkingObserver DEF SettleInputRequired
  <2>1. Quiet(o)
    BY <1>o, <1>7, DoneObserver, GotoObserver DEF Quiet, SettleInputRequired, ObserverPC
  <2>2. /\ To("input-required") \in Lifecycle
        /\ To("input-required").state \notin TerminalStates
    <3>1. "input-required" \in TaskStates /\ "input-required" \notin TerminalStates
      BY DEF TaskStates, TerminalStates
    <3>2. QED BY <3>1, LifecycleType
  <2>3. UNCHANGED <<outcome, answers>>
    BY <1>7 DEF SettleInputRequired, SlackUnchanged
  <2>4. CASE Applies(task[t], To("input-required"))
    <3>1. Transition(t, To("input-required"))
      BY <1>7, <2>t, <2>4 DEF SettleInputRequired
    <3>2. QED BY <2>1, <2>2, <2>3, <2>4, <3>1, ExecutingSettle
  <2>5. CASE ~Applies(task[t], To("input-required"))
    BY <1>7, <2>t, <2>1, <2>3, <2>5, QuietSettle DEF SettleInputRequired
  <2>6. QED BY <2>4, <2>5
<1>8. CASE Revert(o)
  <2>t. PICK t \in TaskId : t = obs[o].task
    BY <1>8, <1>o, WorkingObserver DEF Revert
  <2> DEFINE to == ToFrom(obs[o].row, "input-required")
  <2>1. to \in Lifecycle /\ to.state = obs[o].row
    BY <1>o, LifecycleType DEF ObserverState, TaskStates
  <2>2. Quiet(o)
    BY <1>o, <1>8, DoneObserver DEF Quiet, Revert
  <2>3. \A y \in TaskId : SameHolders(y)
    BY <2>2, QuietHolders
  <2>4. UNCHANGED answers
    BY <1>8 DEF Revert
  <2>5. CASE Applies(task[t], to)
    <3>1. /\ Transition(t, to)
          /\ outcome' = IF to.state \in TerminalStates
                        THEN [outcome EXCEPT ![t] = "buried"] ELSE outcome
      BY <1>8, <2>t, <2>5 DEF Revert
    <3> HIDE DEF to
    <3>2. CASE to.state \in TerminalStates
      BY <2>1, <2>3, <2>4, <2>5, <3>1, <3>2, BuriedSettle
    <3>3. CASE to.state \notin TerminalStates
      BY <2>1, <2>2, <2>4, <2>5, <3>1, <3>3, ExecutingSettle
    <3>4. QED BY <3>2, <3>3
  <2>6. CASE ~Applies(task[t], to)
    <3>1. UNCHANGED <<task, outcome, answers>>
      BY <1>8, <2>t, <2>6 DEF Revert
    <3>2. QED BY <2>2, <3>1, QuietSettle
  <2>7. QED BY <2>5, <2>6
<1>9. QED
  BY <1>1, <1>2, <1>3, <1>4, <1>5, <1>6, <1>7, <1>8 DEF ObserverStep

LEMMA ReconcilerSettle ==
  ASSUME Core, ReconcilerStep, NEW x \in TaskId
  PROVE  SettleInv(x)'
<1>o. /\ Typed /\ TypeOK /\ obs \in [Observer -> ObserverState] /\ SettleInv(x)
      /\ task \in [TaskId -> Row] /\ Reconciler \in Observer
  BY TypedIsTypeOK DEF Core, Typed, ObsTyped, TableTyped, Observer
<1>f. /\ "failed" \in TerminalStates /\ "failed" \in TaskStates
  BY DEF TerminalStates, TaskStates
<1>1. CASE StartTick \/ (\E t \in TaskId : NextRow(t)) \/ PollGone \/ EndSweep
  BY <1>1, <1>o, QuietReconciler, QuietSettle
<1>2. CASE Expire
  <2> DEFINE to == [To("failed") EXCEPT !.ifOverdue = TRUE]
  <2>1. to \in Lifecycle /\ to.state = "failed"
    BY <1>f, LifecycleType
  <2>2. /\ UNCHANGED <<outcome, answers>>
        /\ obs[Reconciler].task \in TaskId /\ obs[Reconciler].pc \notin {"post", "unsettle"}
    BY <1>2, <1>o, WorkingObserver DEF Expire, Rec, SlackUnchanged
  <2>3. \/ /\ Applies(task[obs[Reconciler].task], to)
           /\ Transition(obs[Reconciler].task, to) /\ Win(Reconciler, "failed")
        \/ Goto(Reconciler, "poll") /\ UNCHANGED task
    BY <1>2 DEF Expire, Rec
  <2> HIDE DEF to
  <2>4. CASE Applies(task[obs[Reconciler].task], to)
             /\ Transition(obs[Reconciler].task, to) /\ Win(Reconciler, "failed")
    BY <1>f, <1>o, <2>1, <2>2, <2>4, ClaimSettle
  <2>5. CASE Goto(Reconciler, "poll") /\ UNCHANGED task
    <3>1. Quiet(Reconciler)
      BY <1>o, <2>2, <2>5, GotoObserver DEF Quiet, ObserverPC
    <3>2. QED BY <1>o, <2>2, <2>5, <3>1, QuietSettle
  <2>6. QED BY <2>3, <2>4, <2>5
<1>3. CASE FailLost
  <2> DEFINE to == IF Rec.row \in ActiveExecutionStates
                   THEN To("failed") ELSE ToFrom("failed", Rec.row)
  <2>1. to \in Lifecycle /\ to.state = "failed"
    BY <1>f, <1>o, LifecycleType DEF Rec, ObserverState
  <2>2. /\ UNCHANGED <<outcome, answers>>
        /\ obs[Reconciler].task \in TaskId /\ obs[Reconciler].pc \notin {"post", "unsettle"}
    BY <1>3, <1>o, WorkingObserver DEF FailLost, Rec, SlackUnchanged
  <2>3. \/ /\ Applies(task[obs[Reconciler].task], to)
           /\ Transition(obs[Reconciler].task, to) /\ Win(Reconciler, "failed")
        \/ Done(Reconciler) /\ UNCHANGED task
    BY <1>3 DEF FailLost, Rec
  <2> HIDE DEF to
  <2>4. CASE Applies(task[obs[Reconciler].task], to)
             /\ Transition(obs[Reconciler].task, to) /\ Win(Reconciler, "failed")
    BY <1>f, <1>o, <2>1, <2>2, <2>4, ClaimSettle
  <2>5. CASE Done(Reconciler) /\ UNCHANGED task
    <3>1. Quiet(Reconciler)
      BY <1>o, <2>2, <2>5, DoneObserver DEF Quiet
    <3>2. QED BY <1>o, <2>2, <2>5, <3>1, QuietSettle
  <2>6. QED BY <2>3, <2>4, <2>5
<1>4. CASE Prune
  <2>1. SameHolders(x)
    BY <1>4, <1>o, GotoObserver, QuietHolders DEF Quiet, Prune, Rec, ObserverPC
  <2>2. SameAccount(x)
    BY <1>4 DEF Prune, SlackUnchanged, SameAccount
  <2>3. CASE task'[x] = task[x]
    BY <1>o, <2>1, <2>2, <2>3, SettleFrame DEF SameRow
  <2>4. CASE task'[x] # task[x]
    <3>1. task[x].age = "old" /\ task'[x] = Untracked
      BY <1>4, <2>4 DEF Prune, Pruned
    <3>2. Free(x)
      BY <1>o, <3>1 DEF SettleInv, Free
    <3>3. QED BY <1>o, <2>1, <2>2, <3>1, <3>2, SettleForgotten, UntrackedRow
  <2>5. QED BY <2>3, <2>4
<1>5. QED BY <1>1, <1>2, <1>3, <1>4 DEF ReconcilerStep

-----------------------------------------------------------------------------
(* The steps of the turns, the process, the agents and the clock.          *)

LEMMA StillHolders == ASSUME UNCHANGED obs, NEW t \in TaskId PROVE SameHolders(t)
BY DEF SameHolders, Holds

LEMMA TurnSettle ==
  ASSUME Core, NEW u \in Turn, TurnStep(u), NEW x \in TaskId
  PROVE  SettleInv(x)'
<1>o. /\ Typed /\ SettleInv(x) /\ RecordInv(x) /\ task \in [TaskId -> Row]
      /\ turn \in [Turn -> TurnState] /\ outcome \in [TaskId -> Outcomes]
      /\ TurnOK(turn[u])
  BY DEF Core, Typed, TableTyped, TurnsTyped, SlackTyped
<1>h. \A t \in TaskId : SameHolders(t)
  BY StillHolders
  DEF TurnStep, TurnStarts, TurnReplies, Send, SendFails, Record, RecordFails, Resume,
      ResumeFails, ResumeRejected, Rearm, Retire, ObserversUnchanged
<1>0. ASSUME UNCHANGED <<task, outcome, answers>> PROVE SettleInv(x)'
  BY <1>0, <1>o, <1>h, SettleFrame DEF SameRow, SameAccount
<1>1. CASE \/ TurnStarts(u) \/ TurnReplies(u) \/ Send(u) \/ Resume(u) \/ ResumeFails(u)
           \/ ResumeRejected(u)
  BY <1>0, <1>1 DEF TurnStarts, TurnReplies, Send, Resume, ResumeFails, ResumeRejected,
                    history, SlackUnchanged
<1>2. CASE SendFails(u) \/ RecordFails(u)
  <2>1. task' = task /\ answers' = answers
    BY <1>2 DEF SendFails, RecordFails
  <2>2. CASE outcome'[x] = outcome[x]
    BY <1>o, <1>h, <2>1, <2>2, SettleFrame DEF SameRow, SameAccount
  <2>3. CASE outcome'[x] # outcome[x]
    <3>1. /\ ~task[x].tracked /\ outcome[x] = "open"
          /\ outcome'[x] \in {"reported", "unrecorded"}
      <4>1. CASE SendFails(u)
        BY <1>o, <2>3, <4>1 DEF SendFails, RecordInv
      <4>2. CASE RecordFails(u)
        BY <1>o, <2>3, <4>2 DEF RecordFails, RecordInv, Recording
      <4>3. QED BY <1>2, <4>1, <4>2
    <3>2. Free(x)
      BY <1>o, <3>1 DEF SettleInv, Free
    <3>3. QED
      BY <1>o, <1>h, <2>1, <3>1, <3>2, KeepsFree, SettleClosed DEF TerminalStates
  <2>4. QED BY <2>2, <2>3
<1>3. CASE Record(u)
  <2>1. UNCHANGED <<outcome, answers>>
    BY <1>3 DEF Record, SlackUnchanged
  <2>2. CASE x = turn[u].task
    <3>1. ~task[x].tracked /\ outcome[x] = "open"
      BY <1>3, <1>o, <2>2 DEF Record, RecordInv, Recording
    <3>2. Free(x)
      BY <1>o, <3>1 DEF SettleInv, Free
    <3>3. ~task'[x].settled
      BY <1>3, <1>o, <2>2, <3>1, RecordedRow DEF Record, TurnState
    <3>4. QED BY <1>o, <1>h, <2>1, <3>1, <3>2, <3>3, KeepsFree, SettleOpen DEF SameAccount
  <2>3. CASE x # turn[u].task
    BY <1>3, <1>o, <1>h, <2>1, <2>3, SettleFrame DEF Record, SameRow, SameAccount
  <2>4. QED BY <2>2, <2>3
<1>4. CASE Rearm(u)
  <2> DEFINE to == [ToFrom(turn[u].reply, "input-required") EXCEPT !.rearm = TRUE]
  <2>t. PICK t \in TaskId : t = turn[u].task
    BY <1>4, <1>o DEF Rearm, TurnOK
  <2>1. to \in Lifecycle
    BY <1>o, LifecycleType DEF TurnState, TaskStates
  <2>2. \/ /\ Applies(task[t], to) /\ Transition(t, to)
           /\ outcome' = IF to.state \in TerminalStates
                         THEN [outcome EXCEPT ![t] = "buried"] ELSE outcome
        \/ UNCHANGED <<task, outcome>>
    BY <1>4, <2>t DEF Rearm
  <2>3. UNCHANGED <<answers, obs>>
    BY <1>4 DEF Rearm, ObserversUnchanged
  <2> HIDE DEF to
  <2>4. CASE Applies(task[t], to) /\ Transition(t, to) /\ to.state \in TerminalStates
    <3>1. CASE UNCHANGED <<task, outcome>>
      BY <1>0, <2>3, <3>1
    <3>2. CASE outcome' = [outcome EXCEPT ![t] = "buried"]
      BY <1>h, <2>1, <2>3, <2>4, <3>2, BuriedSettle
    <3>3. QED BY <2>2, <2>4, <3>1, <3>2
  <2>5. CASE /\ Applies(task[t], to) /\ Transition(t, to) /\ to.state \notin TerminalStates
             /\ outcome' = outcome
    <3>1. /\ \A y \in TaskId : y # t => task'[y] = task[y]
          /\ ~task'[t].settled
      BY <1>o, <2>1, <2>5, TypedIsTypeOK, TransitionTable
    <3>2. CASE x = t
      <4>1. Free(x) /\ outcome[x] = "open"
        BY <1>o, <2>5, <3>2, AppliesRow, UnsettledIsOpen
      <4>2. QED
        BY <1>o, <1>h, <2>3, <2>5, <3>1, <3>2, <4>1, KeepsFree, SettleOpen DEF SameAccount
    <3>3. CASE x # t
      BY <1>o, <1>h, <2>3, <2>5, <3>1, <3>3, SettleFrame DEF SameRow, SameAccount
    <3>4. QED BY <3>2, <3>3
  <2>6. QED BY <1>0, <2>2, <2>3, <2>4, <2>5
<1>5. CASE Retire(u)
  <2> DEFINE to == ToFrom("failed", "input-required")
  <2>t. PICK t \in TaskId : t = turn[u].task
    BY <1>5, <1>o DEF Retire, TurnOK
  <2>0. "failed" \in TaskStates /\ "failed" \in TerminalStates /\ "input-required" \in TaskStates
    BY DEF TaskStates, TerminalStates
  <2>1. to \in Lifecycle /\ to.state \in TerminalStates
    BY <2>0, LifecycleType
  <2>2. \/ /\ Applies(task[t], to) /\ Transition(t, to)
           /\ outcome' = [outcome EXCEPT ![t] = "retired"]
        \/ UNCHANGED <<task, outcome>>
    BY <1>5, <2>t DEF Retire
  <2>3. UNCHANGED answers
    BY <1>5 DEF Retire
  <2> HIDE DEF to
  <2>4. QED BY <1>0, <1>h, <2>1, <2>2, <2>3, BuriedSettle
<1>6. QED BY <1>1, <1>2, <1>3, <1>4, <1>5 DEF TurnStep

LEMMA PushSettle ==
  ASSUME Core, NEW o \in Push, NEW t \in TaskId, PushArrives(o, t), NEW x \in TaskId
  PROVE  SettleInv(x)'
<1>1. Quiet(o) /\ UNCHANGED <<task, outcome, answers>>
  BY DEF Core, Typed, ObsTyped, ObserverState, PushArrives, Quiet, Observer, SlackUnchanged
<1>2. QED BY <1>1, QuietSettle DEF Observer

LEMMA CrashSettle == ASSUME Core, Crash, NEW x \in TaskId PROVE SettleInv(x)'
<1>o. /\ SettleInv(x) /\ RecordInv(x) /\ task' = task /\ answers' = answers
  BY DEF Core, Crash
<1>1. Free(x)'
  BY DEF Crash, IdleObserver, Free, Holds
<1> DEFINE lost == Held(x) \/ \E u \in Turn : turn[u].task = x /\ turn[u].pc \in {"record", "rerecord"}
<1>2. outcome'[x] = IF lost THEN "abandoned" ELSE outcome[x]
  BY DEF Crash
<1>3. CASE lost
  <2>1. outcome[x] = "open" /\ (task[x].tracked => task[x].settled)
    BY <1>o, <1>3 DEF SettleInv, RecordInv, Recording, Held
  <2>2. QED BY <1>o, <1>1, <1>2, <1>3, <2>1, SettleClosed DEF TerminalStates
<1>4. CASE ~lost
  <2>1. SameHolders(x)
    BY <1>1, <1>4 DEF SameHolders, Free, Held
  <2>2. QED BY <1>o, <1>2, <1>4, <2>1, SettleFrame DEF SameRow, SameAccount
<1>5. QED BY <1>3, <1>4

LEMMA EnvironmentSettle ==
  ASSUME Core, NEW t \in TaskId, Environment(t), NEW x \in TaskId
  PROVE  SettleInv(x)'
<1>o. SettleInv(x) /\ task \in [TaskId -> Row]
  BY DEF Core, Typed, TableTyped
<1>1. SameHolders(x) /\ SameAccount(x)
  BY StillHolders
  DEF Environment, RemoteWorks, RemoteAsks, RemoteEnds, RemoteForgets, DeadlinePasses,
      GraceElapses, RetentionElapses, BotUnchanged, SlackUnchanged, SameAccount
<1>2. SameRow(x) /\ (task'[x].age = "old" => task[x].age = "old" \/ Free(x))
  <2>1. CASE RemoteWorks(t) \/ RemoteAsks(t) \/ RemoteEnds(t) \/ RemoteForgets(t)
    BY <2>1 DEF RemoteWorks, RemoteAsks, RemoteEnds, RemoteForgets, SameRow
  <2>2. CASE DeadlinePasses(t)
    BY <1>o, <2>2 DEF DeadlinePasses, SameRow, Row
  <2>3. CASE GraceElapses(t)
    BY <1>o, <2>3 DEF GraceElapses, SameRow, Row
  <2>4. CASE RetentionElapses(t)
    BY <1>o, <2>4 DEF RetentionElapses, SameRow, Row, Free, Held
  <2>5. QED BY <2>1, <2>2, <2>3, <2>4 DEF Environment
<1>3. QED BY <1>o, <1>1, <1>2, SettleFrame

LEMMA NextSettle == ASSUME Core, [Next]_vars, NEW x \in TaskId PROVE SettleInv(x)'
<1>1. CASE UNCHANGED vars
  <2>1. SettleInv(x) /\ SameHolders(x)
    BY <1>1, StillHolders DEF Core, vars
  <2>2. QED BY <1>1, <2>1, SettleFrame DEF vars, SameRow, SameAccount
<1>2. CASE Next
  BY <1>2, ObserverSettle, PushSettle, ReconcilerSettle, TurnSettle, EnvironmentSettle,
     CrashSettle
  DEF Next
<1>3. QED BY <1>1, <1>2

-----------------------------------------------------------------------------
(* Recording is kept: no step but the turn's own touches an untracked task. *)

\* A step that leaves the turns and the agents' view of existence alone, and
\* takes up tracked tasks only.
LEMMA RecordKept ==
  ASSUME Core, UNCHANGED turn, NEW x \in TaskId,
         remote'[x].state = "none" => remote[x].state = "none",
         task[x].tracked \/ (~task'[x].tracked /\ outcome'[x] = outcome[x])
  PROVE  RecordInv(x)'
<1>1. RecordInv(x) /\ \A u \in Turn : Recording(u, x)' => Recording(u, x)
  BY DEF Core, Recording
<1>2. QED BY <1>1, RecordFrame

\* A step that changes one task's row by a transition, if at all.
LEMMA TransitionRecord ==
  ASSUME Core, UNCHANGED <<turn, remote>>, NEW t \in TaskId, task[t].tracked,
         \A y \in TaskId : y # t => task'[y] = task[y] /\ outcome'[y] = outcome[y],
         NEW x \in TaskId
  PROVE  RecordInv(x)'
<1>1. CASE x = t
  BY <1>1, RecordKept
<1>2. CASE x # t
  BY <1>2, RecordKept DEF Core
<1>3. QED BY <1>1, <1>2

LEMMA QuietRecord ==
  ASSUME Core, UNCHANGED <<turn, remote, task, outcome>>, NEW x \in TaskId
  PROVE  RecordInv(x)'
BY RecordKept

LEMMA ObserverRecord ==
  ASSUME Core, NEW o \in Observer, ObserverStep(o), NEW x \in TaskId
  PROVE  RecordInv(x)'
<1>o. /\ Typed /\ TypeOK /\ UNCHANGED <<turn, remote>>
      /\ task \in [TaskId -> Row] /\ outcome \in [TaskId -> Outcomes]
  BY TypedIsTypeOK
  DEF Core, Typed, TableTyped, SlackTyped, ObserverStep, FindRow, Poll, ObserveFails,
      TransitionFails, Heartbeat, Report, SettleTerminal, PostAnswer, PostFails, Unsettle,
      UnsettleFails, Clear, Mark, SettleInputRequired, PostQuestion, Revert, OthersUnchanged
<1>1. CASE UNCHANGED <<task, outcome>>
  BY <1>o, <1>1, QuietRecord
<1>2. CASE ~UNCHANGED <<task, outcome>>
  <2>1. \/ Heartbeat(o) \/ SettleTerminal(o) \/ PostAnswer(o) \/ Unsettle(o)
        \/ UnsettleFails(o) \/ SettleInputRequired(o) \/ Revert(o)
    BY <1>2 DEF ObserverStep, FindRow, Poll, ObserveFails, TransitionFails, Report, PostFails,
         Clear, Mark, PostQuestion, SlackUnchanged, history
  <2>t. PICK t \in TaskId : t = obs[o].task
    BY <1>o, <2>1, WorkingObserver
    DEF Heartbeat, SettleTerminal, PostAnswer, Unsettle, UnsettleFails, SettleInputRequired,
        Revert
  <2>2. \A y \in TaskId : y # t => task'[y] = task[y] /\ outcome'[y] = outcome[y]
    BY <1>o, <2>1, <2>t
    DEF Heartbeat, SettleTerminal, PostAnswer, Unsettle, UnsettleFails, SettleInputRequired,
        Revert, Transition, SlackUnchanged
  <2>3. task[t].tracked
    <3>1. CASE PostAnswer(o) \/ Unsettle(o) \/ UnsettleFails(o)
      <4>1. Holds(o, t) /\ SettleInv(t)
        BY <2>t, <3>1 DEF Holds, PostAnswer, Unsettle, UnsettleFails, Core
      <4>2. QED BY <4>1 DEF SettleInv
    <3>2. CASE Heartbeat(o) \/ SettleTerminal(o) \/ SettleInputRequired(o) \/ Revert(o)
      BY <1>2, <2>t, <3>2, AppliesRow
      DEF Heartbeat, SettleTerminal, SettleInputRequired, Revert, SlackUnchanged
    <3>3. QED BY <2>1, <3>1, <3>2
  <2>4. QED BY <1>o, <2>2, <2>3, TransitionRecord
<1>3. QED BY <1>1, <1>2

LEMMA ReconcilerRecord ==
  ASSUME Core, ReconcilerStep, NEW x \in TaskId
  PROVE  RecordInv(x)'
<1>o. UNCHANGED <<turn, remote, outcome>>
  BY DEF ReconcilerStep, StartTick, NextRow, Expire, PollGone, FailLost, EndSweep, Prune,
         OthersUnchanged, SlackUnchanged
<1>k. task \in [TaskId -> Row]
  BY DEF Core, Typed, TableTyped
<1>1. task[x].tracked \/ ~task'[x].tracked
  <2>1. CASE StartTick \/ (\E t \in TaskId : NextRow(t)) \/ PollGone \/ EndSweep
    BY <2>1 DEF StartTick, NextRow, PollGone, EndSweep
  <2>2. CASE Expire
    <3>1. \/ UNCHANGED task
          \/ \E to : Applies(task[Rec.task], to) /\ Transition(Rec.task, to)
      BY <2>2 DEF Expire
    <3>2. QED BY <1>k, <3>1, AppliesRow DEF Transition
  <2>3. CASE FailLost
    <3>1. \/ UNCHANGED task
          \/ \E to : Applies(task[Rec.task], to) /\ Transition(Rec.task, to)
      BY <2>3 DEF FailLost
    <3>2. QED BY <1>k, <3>1, AppliesRow DEF Transition
  <2>4. CASE Prune
    BY <2>4, UntrackedRow DEF Prune, Pruned
  <2>5. QED BY <2>1, <2>2, <2>3, <2>4 DEF ReconcilerStep
<1>2. QED BY <1>o, <1>1, RecordKept

\* A turn that ends, or goes on without a task to record.
LEMMA TurnMoves ==
  ASSUME Typed, NEW u \in Turn,
         \/ Return(u) \/ TurnStarts(u) \/ Resume(u) \/ ResumeRejected(u) \/ Retire(u)
  PROVE  \A x \in TaskId : /\ ~Recording(u, x)'
                           /\ \A v \in Turn : v # u => (Recording(v, x)' <=> Recording(v, x))
<1>1. turn \in [Turn -> TurnState]
  BY DEF Typed, TurnsTyped
<1>2. /\ \A v \in Turn : v # u => turn'[v] = turn[v]
      /\ turn'[u].pc \notin {"record", "rerecord"}
  <2>1. CASE Return(u)
    <3> DEFINE c == [IdleTurn EXCEPT !.pc = "done"]
    <3>1. c.pc = "done" /\ turn' = [turn EXCEPT ![u] = c]
      BY <2>1 DEF IdleTurn, Return
    <3> HIDE DEF c
    <3>2. QED BY <1>1, <3>1
  <2>2. CASE TurnStarts(u) \/ Resume(u) \/ ResumeRejected(u) \/ Retire(u)
    BY <1>1, <2>2 DEF TurnStarts, Resume, ResumeRejected, Retire, TurnState
  <2>3. QED BY <2>1, <2>2
<1>3. QED BY <1>2 DEF Recording

LEMMA TurnRecord ==
  ASSUME Core, NEW u \in Turn, TurnStep(u), NEW x \in TaskId
  PROVE  RecordInv(x)'
<1>o. /\ Typed /\ RecordInv(x) /\ task \in [TaskId -> Row]
      /\ turn \in [Turn -> TurnState] /\ outcome \in [TaskId -> Outcomes]
      /\ remote \in [TaskId -> RemoteTask] /\ TurnOK(turn[u])
  BY DEF Core, Typed, TableTyped, TurnsTyped, SlackTyped, RemoteTyped
<1>s. \A t \in TaskId, s \in SendReplies :
        Replied(remote[t], s).state = s /\ s # "none"
  BY DEF Replied, TaskStates, ActiveExecutionStates, TerminalStates
<1>1. CASE \/ TurnStarts(u) \/ TurnReplies(u) \/ ResumeRejected(u)
  <2>1. /\ \A v \in Turn : Recording(v, x)' => Recording(v, x)
        /\ UNCHANGED <<task, remote, outcome>>
    BY <1>1, <1>o, TurnMoves
    DEF TurnStarts, TurnReplies, ResumeRejected, history, SlackUnchanged
  <2>2. QED BY <1>o, <2>1, RecordFrame DEF RecordInv
<1>2. CASE Resume(u) \/ ResumeFails(u)
  <2>1. /\ \A v \in Turn : Recording(v, x)' => Recording(v, x)
        /\ UNCHANGED <<task, outcome>>
    BY <1>2, <1>o, TurnMoves DEF Resume, ResumeFails, history, SlackUnchanged
  <2>2. remote'[x].state = "none" => remote[x].state = "none"
    BY <1>2, <1>o, <1>s DEF Resume, ResumeFails
  <2>3. task[x].tracked \/ (~task'[x].tracked /\ outcome'[x] = outcome[x])
    BY <2>1
  <2>4. QED BY <1>o, <2>1, <2>2, <2>3, RecordFrame
<1>3. CASE Send(u)
  <2>1. PICK t \in TaskId, s \in SendReplies, pc \in {"record", "rerecord"} :
          /\ remote[t].state = "none"
          /\ remote' = [remote EXCEPT ![t] = Replied(remote[t], s)]
          /\ turn' = [turn EXCEPT ![u] = [pc |-> pc, task |-> t, reply |-> s]]
    BY <1>3 DEF Send
  <2> DEFINE c == [pc |-> pc, task |-> t, reply |-> s]
  <2>2. c.task = t /\ turn' = [turn EXCEPT ![u] = c]
    BY <2>1
  <2> HIDE DEF c
  <2>3. UNCHANGED <<task, outcome>>
    BY <1>3 DEF Send, SlackUnchanged
  <2>4. CASE x = t
    <3>1. /\ ~task[x].tracked /\ outcome[x] = "open" /\ remote'[x].state # "none"
          /\ \A v \in Turn : ~Recording(v, x)
      BY <1>o, <1>s, <2>1, <2>4 DEF RecordInv
    <3>2. \A v \in Turn : Recording(v, x)' => v = u
      BY <1>o, <2>2, <3>1 DEF Recording
    <3>3. QED BY <2>3, <3>1, <3>2 DEF RecordInv
  <2>5. CASE x # t
    <3>1. /\ \A v \in Turn : Recording(v, x)' => Recording(v, x)
          /\ remote'[x] = remote[x]
      BY <1>o, <2>1, <2>2, <2>5 DEF Recording
    <3>2. task[x].tracked \/ (~task'[x].tracked /\ outcome'[x] = outcome[x])
      BY <2>3
    <3>3. QED BY <1>o, <3>1, <3>2, RecordFrame
  <2>6. QED BY <2>4, <2>5
<1>4. CASE SendFails(u)
  <2>1. /\ \A v \in Turn : Recording(v, x)' => Recording(v, x)
        /\ UNCHANGED task
    BY <1>4, <1>o, TurnMoves DEF SendFails
  <2>2. CASE UNCHANGED <<remote, outcome>>
    <3>1. task[x].tracked \/ (~task'[x].tracked /\ outcome'[x] = outcome[x])
      BY <2>1, <2>2
    <3>2. QED BY <1>o, <2>1, <2>2, <3>1, RecordFrame
  <2>3. CASE \E t \in TaskId, s \in SendReplies :
              /\ remote[t].state = "none"
              /\ remote' = [remote EXCEPT ![t] = Replied(remote[t], s)]
              /\ outcome' = [outcome EXCEPT ![t] = "reported"]
    <3>1. PICK t \in TaskId, s \in SendReplies :
              /\ remote[t].state = "none"
              /\ remote' = [remote EXCEPT ![t] = Replied(remote[t], s)]
              /\ outcome' = [outcome EXCEPT ![t] = "reported"]
      BY <2>3
    <3>2. CASE x = t
      <4>1. remote'[x].state # "none" /\ \A v \in Turn : ~Recording(v, x)'
        BY <1>o, <1>s, <2>1, <3>1, <3>2 DEF RecordInv
      <4>2. QED BY <4>1, RecordEnds
    <3>3. CASE x # t
      <4>1. remote'[x] = remote[x] /\ outcome'[x] = outcome[x]
        BY <1>o, <3>1, <3>3
      <4>2. task[x].tracked \/ (~task'[x].tracked /\ outcome'[x] = outcome[x])
        BY <2>1, <4>1
      <4>3. QED BY <1>o, <2>1, <4>1, <4>2, RecordFrame
    <3>4. QED BY <3>2, <3>3
  <2>4. QED BY <1>4, <2>2, <2>3 DEF SendFails
<1>5. CASE Record(u) \/ RecordFails(u)
  <2>1. /\ ~Recording(u, x)'
        /\ \A v \in Turn : v # u => (Recording(v, x)' <=> Recording(v, x))
        /\ UNCHANGED remote
    BY <1>5, <1>o, TurnMoves DEF Record, RecordFails
  <2>2. CASE x = turn[u].task
    <3>1. Recording(u, x)
      BY <1>5, <2>2 DEF Record, RecordFails, Recording
    <3>2. remote'[x].state # "none" /\ \A v \in Turn : ~Recording(v, x)'
      BY <1>o, <2>1, <3>1 DEF RecordInv
    <3>3. QED BY <3>2, RecordEnds
  <2>3. CASE x # turn[u].task
    <3>1. task'[x] = task[x] /\ outcome'[x] = outcome[x]
      BY <1>5, <1>o, <2>3 DEF Record, RecordFails, SlackUnchanged
    <3>2. task[x].tracked \/ (~task'[x].tracked /\ outcome'[x] = outcome[x])
      BY <3>1
    <3>3. \A v \in Turn : Recording(v, x)' => Recording(v, x)
      BY <2>1
    <3>4. QED BY <1>o, <2>1, <3>2, <3>3, RecordFrame
  <2>4. QED BY <2>2, <2>3
<1>6. CASE Rearm(u) \/ Retire(u)
  <2>1. \A v \in Turn : Recording(v, x)' => Recording(v, x)
    BY <1>6, <1>o, TurnMoves DEF Rearm
  <2>2. UNCHANGED remote
    BY <1>6 DEF Rearm, Retire
  <2>3. task[x].tracked \/ (~task'[x].tracked /\ outcome'[x] = outcome[x])
    <3>1. CASE UNCHANGED <<task, outcome>>
      BY <3>1
    <3>2. CASE ~UNCHANGED <<task, outcome>>
      <4>1. task[turn[u].task].tracked
        BY <1>6, <3>2, AppliesRow DEF Rearm, Retire
      <4>2. x # turn[u].task => task'[x] = task[x] /\ outcome'[x] = outcome[x]
        BY <1>6, <1>o DEF Rearm, Retire, Transition
      <4>3. QED BY <4>1, <4>2
    <3>3. QED BY <3>1, <3>2
  <2>4. QED BY <1>o, <2>1, <2>2, <2>3, RecordFrame
<1>7. QED BY <1>1, <1>2, <1>3, <1>4, <1>5, <1>6 DEF TurnStep

LEMMA CrashRecord == ASSUME Core, Crash, NEW x \in TaskId PROVE RecordInv(x)'
<1>o. RecordInv(x) /\ SettleInv(x) /\ remote' = remote /\ task' = task
  BY DEF Core, Crash
<1>1. \A u \in Turn : ~Recording(u, x)'
  BY DEF Crash, IdleTurn, Recording
<1>2. CASE remote[x].state = "none"
  <2>1. outcome'[x] = outcome[x]
    BY <1>o, <1>2 DEF Crash, RecordInv, Recording, SettleInv, Held
  <2>2. QED BY <1>o, <1>1, <1>2, <2>1, RecordFrame DEF RecordInv
<1>3. CASE remote[x].state # "none"
  BY <1>o, <1>1, <1>3, RecordEnds
<1>4. QED BY <1>2, <1>3

LEMMA EnvironmentRecord ==
  ASSUME Core, NEW t \in TaskId, Environment(t), NEW x \in TaskId
  PROVE  RecordInv(x)'
<1>o. task \in [TaskId -> Row] /\ remote \in [TaskId -> RemoteTask] /\ RecordInv(x)
  BY DEF Core, Typed, TableTyped, RemoteTyped
<1>1. UNCHANGED <<turn, outcome>>
  BY DEF Environment, RemoteWorks, RemoteAsks, RemoteEnds, RemoteForgets, DeadlinePasses,
         GraceElapses, RetentionElapses, BotUnchanged, SlackUnchanged
<1>2. task'[x].tracked = task[x].tracked
  <2>1. CASE RemoteWorks(t) \/ RemoteAsks(t) \/ RemoteEnds(t) \/ RemoteForgets(t)
    BY <2>1 DEF RemoteWorks, RemoteAsks, RemoteEnds, RemoteForgets
  <2>2. CASE DeadlinePasses(t) \/ GraceElapses(t) \/ RetentionElapses(t)
    BY <1>o, <2>2 DEF DeadlinePasses, GraceElapses, RetentionElapses, Row
  <2>3. QED BY <2>1, <2>2 DEF Environment
<1>3. remote'[x].state = "none" => remote[x].state = "none"
  <2>1. CASE RemoteWorks(t) \/ RemoteForgets(t)
    BY <1>o, <2>1 DEF RemoteWorks, RemoteForgets, RemoteTask
  <2>2. CASE RemoteAsks(t)
    BY <1>o, <2>2 DEF RemoteAsks, Replied
  <2>3. CASE RemoteEnds(t)
    BY <1>o, <2>3 DEF RemoteEnds, RemoteTask, TerminalStates
  <2>4. CASE DeadlinePasses(t) \/ GraceElapses(t) \/ RetentionElapses(t)
    BY <2>4 DEF DeadlinePasses, GraceElapses, RetentionElapses
  <2>5. QED BY <2>1, <2>2, <2>3, <2>4 DEF Environment
<1>4. QED BY <1>1, <1>2, <1>3, RecordKept

LEMMA NextRecord == ASSUME Core, [Next]_vars, NEW x \in TaskId PROVE RecordInv(x)'
<1>1. CASE UNCHANGED vars
  BY <1>1, QuietRecord DEF vars
<1>2. CASE Next
  <2>1. CASE \E o \in Push, t \in TaskId : PushArrives(o, t)
    BY <2>1, QuietRecord DEF PushArrives, OthersUnchanged, SlackUnchanged
  <2>2. QED
    BY <1>2, <2>1, ObserverRecord, ReconcilerRecord, TurnRecord, EnvironmentRecord, CrashRecord
    DEF Next
<1>3. QED BY <1>1, <1>2

-----------------------------------------------------------------------------
(* Marks: an answered task stays answered.                                 *)

\* Only PostAnswer changes answers, and only of a task that has none.
LEMMA AnswersChange ==
  ASSUME Core, [Next]_vars, ~UNCHANGED answers
  PROVE  \E o \in Observer : PostAnswer(o)
<1>1. CASE \E o \in Observer : ObserverStep(o)
  BY <1>1 DEF ObserverStep, FindRow, Poll, ObserveFails, TransitionFails, Heartbeat, Report,
       SettleTerminal, PostFails, Unsettle, UnsettleFails, Clear, Mark, SettleInputRequired,
       PostQuestion, Revert, SlackUnchanged, history
<1>2. CASE ReconcilerStep
  BY <1>2 DEF ReconcilerStep, StartTick, NextRow, Expire, PollGone, FailLost, EndSweep, Prune,
       SlackUnchanged
<1>3. CASE \E u \in Turn : TurnStep(u)
  BY <1>3 DEF TurnStep, TurnStarts, TurnReplies, Send, SendFails, Record, RecordFails, Resume,
       ResumeFails, ResumeRejected, Rearm, Retire, SlackUnchanged, history
<1>4. CASE \E t \in TaskId : Environment(t)
  BY <1>4 DEF Environment, RemoteWorks, RemoteAsks, RemoteEnds, RemoteForgets, DeadlinePasses,
       GraceElapses, RetentionElapses, BotUnchanged, SlackUnchanged
<1>5. CASE UNCHANGED vars \/ Crash \/ \E o \in Push, t \in TaskId : PushArrives(o, t)
  BY <1>5 DEF vars, Crash, PushArrives, SlackUnchanged
<1>6. QED BY <1>1, <1>2, <1>3, <1>4, <1>5 DEF Next

LEMMA AnsweredStays ==
  ASSUME Core, [Next]_vars, NEW x \in TaskId, answers[x] = 1
  PROVE  answers'[x] = 1
<1>1. CASE UNCHANGED answers
  BY <1>1
<1>2. ASSUME NEW o \in Observer, PostAnswer(o) PROVE answers'[x] = 1
  <2>1. PICK t \in TaskId : t = obs[o].task
    BY <1>2, WorkingObserver DEF PostAnswer, Core
  <2>2. Holds(o, t) /\ SettleInv(t)
    BY <1>2, <2>1 DEF PostAnswer, Holds, Core
  <2>3. t # x
    BY <2>2 DEF SettleInv
  <2>4. QED BY <1>2, <2>1, <2>3 DEF PostAnswer, Core, Typed, SlackTyped
<1>3. QED BY <1>1, <1>2, AnswersChange

\* An observer a step leaves as it is, or sends anywhere but to clear and mark.
LEMMA MarkFrame ==
  ASSUME Core, [Next]_vars, NEW o \in Observer,
         obs'[o] = obs[o] \/ obs'[o].pc \notin {"clear", "mark"}
  PROVE  MarkInv(o)'
<1>1. CASE obs'[o].pc \notin {"clear", "mark"}
  BY <1>1 DEF MarkInv
<1>2. CASE obs'[o] = obs[o] /\ obs[o].pc \in {"clear", "mark"}
  <2>1. obs[o].task \in TaskId /\ MarkInv(o)
    BY <1>2, WorkingObserver DEF Core
  <2>2. QED BY <1>2, <2>1, AnsweredStays DEF MarkInv
<1>3. QED BY <1>1, <1>2

LEMMA ObserverMark ==
  ASSUME Core, NEW p \in Observer, ObserverStep(p), NEW o \in Observer
  PROVE  MarkInv(o)'
<1>o. /\ Typed /\ TypeOK /\ obs \in [Observer -> ObserverState] /\ [Next]_vars
      /\ MarkInv(p)
  BY TypedIsTypeOK DEF Core, Typed, ObsTyped, Next
<1>1. CASE FindRow(p) \/ Poll(p) \/ ObserveFails(p) \/ TransitionFails(p) \/ Report(p)
           \/ Mark(p)
  <2>1. o # p => obs'[o] = obs[o]
    BY <1>1, QuietObserver DEF Quiet
  <2>2. obs'[p].pc \notin {"clear", "mark"}
    <3>1. CASE FindRow(p)
      BY <1>o, <3>1, DoneObserver, GotoObserver DEF FindRow, ObserverState, ObserverPC
    <3>2. CASE Poll(p)
      BY <1>o, <3>2 DEF Poll, ObserverState
    <3>3. CASE ObserveFails(p) \/ TransitionFails(p) \/ Report(p) \/ Mark(p)
      BY <1>o, <3>3, DoneObserver DEF ObserveFails, TransitionFails, Report, Mark
    <3>4. QED BY <1>1, <3>1, <3>2, <3>3
  <2>3. QED BY <1>o, <2>1, <2>2, MarkFrame
<1>2. CASE Heartbeat(p)
  <2>1. (o # p => obs'[o] = obs[o]) /\ obs'[p].pc \notin {"clear", "mark"}
    <3>1. CASE Done(p)
      BY <1>o, <3>1, DoneObserver
    <3>2. CASE obs' = [obs EXCEPT ![p] = [IdleObserver EXCEPT !.pc = "report"]]
      BY <1>o, <3>2, IdleType DEF ObserverPC
    <3>3. QED BY <1>2, <3>1, <3>2 DEF Heartbeat
  <2>2. QED BY <1>o, <2>1, MarkFrame
<1>3. CASE SettleTerminal(p)
  <2>1. obs[p].task \in TaskId
    BY <1>3, <1>o, WorkingObserver DEF SettleTerminal
  <2>2. Done(p) \/ \E s \in TerminalStates : Win(p, s)
    BY <1>3 DEF SettleTerminal
  <2>3. (o # p => obs'[o] = obs[o]) /\ obs'[p].pc \notin {"clear", "mark"}
    BY <1>o, <2>1, <2>2, DoneObserver, WinObserver DEF TaskStates
  <2>4. QED BY <1>o, <2>3, MarkFrame
<1>4. CASE PostAnswer(p)
  <2>1. /\ o # p => obs'[o] = obs[o]
        /\ obs'[p].task = obs[p].task
    BY <1>4, <1>o, GotoObserver DEF PostAnswer, ObserverPC
  <2>2. PICK t \in TaskId : t = obs[p].task
    BY <1>4, <1>o, WorkingObserver DEF PostAnswer
  <2>3. Holds(p, t) /\ SettleInv(t)
    BY <1>4, <2>2 DEF PostAnswer, Holds, Core
  <2>4. answers'[t] = 1
    BY <1>4, <2>2, <2>3 DEF PostAnswer, SettleInv, Core, Typed, SlackTyped
  <2>5. CASE o = p
    BY <2>1, <2>2, <2>4, <2>5 DEF MarkInv
  <2>6. QED BY <1>o, <2>1, <2>5, MarkFrame
<1>5. CASE PostFails(p) \/ Unsettle(p) \/ UnsettleFails(p) \/ SettleInputRequired(p)
           \/ Revert(p)
  <2>1. (o # p => obs'[o] = obs[o]) /\ obs'[p].pc \notin {"clear", "mark"}
    BY <1>5, <1>o, DoneObserver, GotoObserver
    DEF PostFails, Unsettle, UnsettleFails, SettleInputRequired, Revert, ObserverPC
  <2>2. QED BY <1>o, <2>1, MarkFrame
<1>6. CASE Clear(p)
  <2>1. \/ Done(p)
        \/ Goto(p, "mark") /\ obs[p].seen.state # "input-required"
    BY <1>6 DEF Clear
  <2>2. CASE Done(p)
    BY <1>o, <2>2, DoneObserver, MarkFrame
  <2>3. CASE Goto(p, "mark") /\ obs[p].seen.state # "input-required"
    <3>1. /\ o # p => obs'[o] = obs[o]
          /\ obs'[p].task = obs[p].task
      BY <1>o, <2>3, GotoObserver DEF ObserverPC
    <3>2. answers[obs[p].task] = 1 /\ answers' = answers
      BY <1>6, <1>o, <2>3 DEF Clear, MarkInv, history
    <3>3. CASE o = p
      BY <3>1, <3>2, <3>3 DEF MarkInv
    <3>4. QED BY <1>o, <3>1, <3>3, MarkFrame
  <2>4. QED BY <2>1, <2>2, <2>3
<1>7. CASE PostQuestion(p)
  <2>1. /\ o # p => obs'[o] = obs[o]
        /\ obs'[p].pc = "clear" /\ obs'[p].seen = obs[p].seen
    BY <1>7, <1>o, GotoObserver DEF PostQuestion, ObserverPC
  <2>2. obs[p].seen.state = "input-required"
    BY <1>7, <1>o DEF PostQuestion, Typed, ObsTyped, ObserverOK
  <2>3. CASE o = p
    BY <2>1, <2>2, <2>3 DEF MarkInv
  <2>4. QED BY <1>o, <2>1, <2>3, MarkFrame
<1>8. QED
  BY <1>1, <1>2, <1>3, <1>4, <1>5, <1>6, <1>7 DEF ObserverStep

LEMMA ReconcilerMark ==
  ASSUME Core, ReconcilerStep, NEW o \in Observer
  PROVE  MarkInv(o)'
<1>o. /\ Typed /\ TypeOK /\ obs \in [Observer -> ObserverState] /\ [Next]_vars
      /\ Reconciler \in Observer
  BY TypedIsTypeOK DEF Core, Typed, ObsTyped, Next, Observer
<1>1. CASE StartTick \/ PollGone \/ EndSweep \/ Prune
  BY <1>o, <1>1, GotoObserver, MarkFrame
  DEF StartTick, PollGone, EndSweep, Prune, ObserverPC
<1>2. CASE \E t \in TaskId : NextRow(t)
  <2>1. PICK t \in TaskId : NextRow(t)
    BY <1>2
  <2> DEFINE pc == IF /\ sweep[t].state \in ActiveExecutionStates
                      /\ sweep[t].overdue \/ task[t].overdue
                   THEN "expire" ELSE "poll"
             b == [pc |-> pc, task |-> t, row |-> sweep[t].state, seen |-> Unsent]
  <2>2. obs' = [obs EXCEPT ![Reconciler] = b] /\ b.pc \in {"expire", "poll"}
    BY <2>1 DEF NextRow
  <2> HIDE DEF b
  <2>3. QED BY <1>o, <2>2, MarkFrame
<1>3. CASE Expire \/ FailLost
  <2>1. obs[Reconciler].task \in TaskId
    BY <1>o, <1>3, WorkingObserver DEF Expire, FailLost, Rec
  <2>2. Done(Reconciler) \/ Goto(Reconciler, "poll") \/ Win(Reconciler, "failed")
    BY <1>3 DEF Expire, FailLost
  <2>3. "failed" \in TaskStates
    BY DEF TaskStates, TerminalStates
  <2>4. (o # Reconciler => obs'[o] = obs[o]) /\ obs'[Reconciler].pc \notin {"clear", "mark"}
    BY <1>o, <2>1, <2>2, <2>3, DoneObserver, GotoObserver, WinObserver DEF ObserverPC
  <2>5. QED BY <1>o, <2>4, MarkFrame
<1>4. QED BY <1>1, <1>2, <1>3 DEF ReconcilerStep

LEMMA NextMark ==
  ASSUME Core, [Next]_vars, NEW o \in Observer
  PROVE  MarkInv(o)'
<1>1. CASE UNCHANGED obs
  BY <1>1, MarkFrame
<1>2. CASE \E p \in Push, t \in TaskId : PushArrives(p, t)
  BY <1>2, MarkFrame DEF PushArrives, Core, Typed, ObsTyped, ObserverState, Observer
<1>3. CASE Crash
  BY <1>3, MarkFrame DEF Crash, IdleObserver
<1>4. CASE \E u \in Turn : TurnStep(u)
  BY <1>1, <1>4 DEF TurnStep, TurnStarts, TurnReplies, Send, SendFails, Record, RecordFails,
     Resume, ResumeFails, ResumeRejected, Rearm, Retire, ObserversUnchanged
<1>5. CASE \E t \in TaskId : Environment(t)
  BY <1>1, <1>5 DEF Environment, RemoteWorks, RemoteAsks, RemoteEnds, RemoteForgets,
     DeadlinePasses, GraceElapses, RetentionElapses, BotUnchanged
<1>6. QED
  BY <1>1, <1>2, <1>3, <1>4, <1>5, ObserverMark, ReconcilerMark DEF Next, vars

\* responded only grows, and by the task of a call that is at mark.
LEMMA NextResponded ==
  ASSUME Core, [Next]_vars, NEW x \in responded'
  PROVE  answers'[x] = 1
<1>r. responded \subseteq TaskId /\ \A t \in responded : answers[t] = 1
  BY DEF Core, Typed, SlackTyped
<1>1. CASE x \in responded
  BY <1>1, <1>r, AnsweredStays
<1>2. CASE x \notin responded
  <2>1. \E o \in Observer : Mark(o)
    <3>1. CASE \E o \in Observer : ObserverStep(o)
      BY <1>2, <3>1 DEF ObserverStep, FindRow, Poll, ObserveFails, TransitionFails, Heartbeat,
         Report, SettleTerminal, PostAnswer, PostFails, Unsettle, UnsettleFails, Clear,
         SettleInputRequired, PostQuestion, Revert, SlackUnchanged
    <3>2. CASE ReconcilerStep
      BY <1>2, <3>2 DEF ReconcilerStep, StartTick, NextRow, Expire, PollGone, FailLost,
         EndSweep, Prune, SlackUnchanged
    <3>3. CASE \E u \in Turn : TurnStep(u)
      BY <1>2, <3>3 DEF TurnStep, TurnStarts, TurnReplies, Send, SendFails, Record,
         RecordFails, Resume, ResumeFails, ResumeRejected, Rearm, Retire, SlackUnchanged
    <3>4. CASE \E t \in TaskId : Environment(t)
      BY <1>2, <3>4 DEF Environment, RemoteWorks, RemoteAsks, RemoteEnds, RemoteForgets,
         DeadlinePasses, GraceElapses, RetentionElapses, BotUnchanged, SlackUnchanged
    <3>5. CASE UNCHANGED vars \/ Crash \/ \E o \in Push, t \in TaskId : PushArrives(o, t)
      BY <1>2, <3>5 DEF vars, Crash, PushArrives, SlackUnchanged
    <3>6. QED BY <3>1, <3>2, <3>3, <3>4, <3>5 DEF Next
  <2>2. PICK o \in Observer : Mark(o)
    BY <2>1
  <2>3. /\ x = obs[o].task /\ obs[o].pc = "mark" /\ answers' = answers /\ MarkInv(o)
    BY <1>2, <2>2 DEF Mark, history, Core
  <2>4. QED BY <2>3 DEF MarkInv
<1>3. QED BY <1>1, <1>2

-----------------------------------------------------------------------------
(* The theorems.                                                           *)

LEMMA InitCore == Init => Core
<1> SUFFICES ASSUME Init PROVE Core
  OBVIOUS
<1>1. Typed
  BY InitTyped
<1>2. ASSUME NEW t \in TaskId PROVE SettleInv(t) /\ RecordInv(t)
  <2>1. ~task[t].tracked /\ outcome[t] = "open" /\ answers[t] = 0
    BY UntrackedRow DEF Init
  <2>2. \A o \in Observer : ~Holds(o, t)
    BY DEF Init, IdleObserver, Holds
  <2>3. \A u \in Turn : ~Recording(u, t)
    BY DEF Init, IdleTurn, Recording
  <2>4. QED BY <2>1, <2>2, <2>3 DEF SettleInv, RecordInv, Held, TerminalStates
<1>3. \A o \in Observer : MarkInv(o)
  BY DEF Init, IdleObserver, MarkInv
<1>4. \A t \in responded : answers[t] = 1
  BY DEF Init
<1>5. QED BY <1>1, <1>2, <1>3, <1>4 DEF Core

LEMMA NextCore == Core /\ [Next]_vars => Core'
<1> SUFFICES ASSUME Core, [Next]_vars PROVE Core'
  OBVIOUS
<1>1. Typed'
  BY NextTyped DEF Core
<1>2. QED
  BY <1>1, NextSettle, NextRecord, NextMark, NextResponded DEF Core

LEMMA AlwaysCore == Spec => []Core
BY InitCore, NextCore, PTL DEF Spec

\* The inductive invariant, for any number of tasks, pushes and messages and any
\* set of faults.
THEOREM Invariant == Spec => []IInv
BY AlwaysCore, CoreIsIInv, PTL

\* One winner at a time between a task's terminal transition and the fate of its
\* post, on a row that stays as the winner left it.
THEOREM ElectionHolds == Spec => []SettlementElection
<1>1. IInv => SettlementElection
  BY DEF IInv
<1>2. QED BY <1>1, Invariant, PTL

\* No task is answered twice.
THEOREM NeverAnsweredTwice == Spec => []AnsweredOnce
<1>1. IInv => AnsweredOnce
  <2> SUFFICES ASSUME IInv, NEW t \in TaskId PROVE answers[t] <= 1
    BY DEF AnsweredOnce
  <2>1. answers[t] = 0 \/ answers[t] = 1
    BY DEF IInv, AnswersOK
  <2>2. QED BY <2>1
<1>2. QED BY <1>1, Invariant, PTL

\* The row of an answered task says what the thread was told.
THEOREM RowsMatchAnswers == Spec => []AnswerMatchesRow
<1>1. IInv => AnswerMatchesRow
  BY DEF IInv
<1>2. QED BY <1>1, Invariant, PTL

\* No row is settled that nobody answers, retires or loses for a named reason.
THEOREM SettledIsAccounted == Spec => []SettledAccounted
<1>1. IInv => SettledAccounted
  BY DEF IInv
<1>2. QED BY <1>1, Invariant, PTL

\* A task the bot is done with never returns to the reconciler or to a turn.
THEOREM ClosedIsClosed == Spec => []ClosedStaysClosed
<1>1. IInv => ClosedStaysClosed
  BY DEF IInv
<1>2. QED BY <1>1, Invariant, PTL

\* An event is marked responded only after Slack acknowledged the answer.
THEOREM MarksAreEarned == Spec => []RespondedMeansAnswered
<1>1. IInv => RespondedMeansAnswered
  BY DEF IInv
<1>2. QED BY <1>1, Invariant, PTL

LEMMA OutcomeKept ==
  ASSUME Core, [Next]_vars, NEW t \in TaskId, outcome[t] # "open"
  PROVE  outcome'[t] = outcome[t]
<1>o. /\ Typed /\ SettleInv(t) /\ RecordInv(t) /\ task \in [TaskId -> Row]
      /\ outcome \in [TaskId -> Outcomes] /\ (task[t].tracked => task[t].settled)
  BY DEF Core, Typed, TableTyped, SlackTyped, SettleInv
<1>h. \A o \in Observer : ~Holds(o, t)
  BY <1>o DEF SettleInv
<1>1. CASE \E o \in Observer : ObserverStep(o)
  <2>1. PICK o \in Observer : ObserverStep(o)
    BY <1>1
  <2>2. CASE PostAnswer(o) \/ UnsettleFails(o)
    <3>1. obs[o].task # t
      BY <1>h, <2>2 DEF PostAnswer, UnsettleFails, Holds
    <3>2. QED BY <1>o, <2>2, <3>1 DEF PostAnswer, UnsettleFails
  <2>3. CASE Revert(o)
    <3>1. CASE UNCHANGED outcome
      BY <3>1
    <3>2. CASE ~UNCHANGED outcome
      <4>1. /\ outcome' = [outcome EXCEPT ![obs[o].task] = "buried"]
            /\ ~task[obs[o].task].settled /\ task[obs[o].task].tracked
        BY <2>3, <3>2, AppliesRow DEF Revert
      <4>2. QED BY <1>o, <4>1
    <3>3. QED BY <3>1, <3>2
  <2>4. CASE ~PostAnswer(o) /\ ~UnsettleFails(o) /\ ~Revert(o)
    BY <2>1, <2>4 DEF ObserverStep, FindRow, Poll, ObserveFails, TransitionFails, Heartbeat,
       Report, SettleTerminal, PostFails, Unsettle, Clear, Mark, SettleInputRequired,
       PostQuestion, SlackUnchanged, history
  <2>5. QED BY <2>2, <2>3, <2>4
<1>2. CASE ReconcilerStep
  BY <1>2 DEF ReconcilerStep, StartTick, NextRow, Expire, PollGone, FailLost, EndSweep,
     Prune, SlackUnchanged
<1>3. CASE \E u \in Turn : TurnStep(u)
  <2>1. PICK u \in Turn : TurnStep(u)
    BY <1>3
  <2>2. CASE SendFails(u)
    BY <1>o, <2>2 DEF SendFails, RecordInv
  <2>3. CASE RecordFails(u)
    BY <1>o, <2>3 DEF RecordFails, RecordInv, Recording
  <2>4. CASE Rearm(u) \/ Retire(u)
    <3>1. CASE UNCHANGED outcome
      BY <3>1
    <3>2. CASE ~UNCHANGED outcome
      <4>1. /\ \E why : outcome' = [outcome EXCEPT ![turn[u].task] = why]
            /\ ~task[turn[u].task].settled /\ task[turn[u].task].tracked
        BY <2>4, <3>2, AppliesRow DEF Rearm, Retire
      <4>2. QED BY <1>o, <4>1
    <3>3. QED BY <3>1, <3>2
  <2>5. CASE ~SendFails(u) /\ ~RecordFails(u) /\ ~Rearm(u) /\ ~Retire(u)
    BY <2>1, <2>5 DEF TurnStep, TurnStarts, TurnReplies, Send, Record, Resume, ResumeFails,
       ResumeRejected, SlackUnchanged, history
  <2>6. QED BY <2>2, <2>3, <2>4, <2>5
<1>4. CASE \E x \in TaskId : Environment(x)
  BY <1>4 DEF Environment, RemoteWorks, RemoteAsks, RemoteEnds, RemoteForgets,
     DeadlinePasses, GraceElapses, RetentionElapses, BotUnchanged, SlackUnchanged
<1>5. CASE Crash
  BY <1>o, <1>h, <1>5 DEF Crash, Held, RecordInv, Recording
<1>6. CASE UNCHANGED vars \/ \E o \in Push, x \in TaskId : PushArrives(o, x)
  BY <1>6 DEF vars, PushArrives, SlackUnchanged
<1>7. QED BY <1>1, <1>2, <1>3, <1>4, <1>5, <1>6 DEF Next

\* The outcome of a task, once it has one, is final.
THEOREM OutcomesAreFinal == Spec => OutcomeIsFinal
<1>1. Core /\ [Next]_vars => (\A t \in TaskId : outcome[t] # "open" => outcome'[t] = outcome[t])
  BY OutcomeKept
<1>2. QED BY <1>1, AlwaysCore, PTL DEF Spec, OutcomeIsFinal

-----------------------------------------------------------------------------
(* Which faults can cost an answer.                                        *)

\* A settled row is answered, about to be, replaced on the user's reply, or
\* settled by a statement no post goes with (the best-effort transition of a
\* resume, the revert of a question).
AnswersArrive ==
  \A t \in TaskId :
    task[t].tracked /\ task[t].settled =>
      Held(t) \/ answers[t] = 1 \/ outcome[t] \in {"retired", "buried"}

\* Without a failing statement and without a restart, nothing is abandoned or
\* goes unrecorded, and what the user is told has failed never had a row.
NeverForfeited(t) ==
  /\ outcome[t] \notin {"abandoned", "unrecorded"}
  /\ outcome[t] = "reported" => ~task[t].tracked

\* What the steps can make of an outcome when no statement fails.
LEMMA OutcomeMoves ==
  ASSUME Core, Next, {"db", "crash"} \cap Faults = {}, NEW t \in TaskId,
         outcome'[t] # outcome[t]
  PROVE  \/ outcome'[t] \in TerminalStates \cup {"retired", "buried"}
         \/ outcome'[t] = "reported" /\ ~task'[t].tracked
<1>o. /\ Typed /\ RecordInv(t) /\ outcome \in [TaskId -> Outcomes]
  BY DEF Core, Typed, SlackTyped
<1>f. "db" \notin Faults /\ "crash" \notin Faults
  OBVIOUS
<1>1. CASE \E o \in Observer : ObserverStep(o)
  <2>1. PICK o \in Observer : ObserverStep(o)
    BY <1>1
  <2>2. CASE PostAnswer(o)
    <3>1. obs[o].seen.state \in TerminalStates
      BY <2>2, TypedIsTypeOK, CoreIsIInv DEF Core, IInv, ActorsOK, ObserverOK, PostAnswer
    <3>2. QED BY <1>o, <2>2, <3>1 DEF PostAnswer
  <2>3. CASE Revert(o)
    BY <1>o, <2>3 DEF Revert
  <2>4. CASE ~PostAnswer(o) /\ ~Revert(o)
    BY <1>f, <2>1, <2>4 DEF ObserverStep, FindRow, Poll, ObserveFails, TransitionFails, Heartbeat,
       Report, SettleTerminal, PostFails, Unsettle, UnsettleFails, Clear, Mark,
       SettleInputRequired, PostQuestion, SlackUnchanged, history
  <2>5. QED BY <2>2, <2>3, <2>4
<1>2. CASE ReconcilerStep
  BY <1>2 DEF ReconcilerStep, StartTick, NextRow, Expire, PollGone, FailLost, EndSweep,
     Prune, SlackUnchanged
<1>3. CASE \E u \in Turn : TurnStep(u)
  <2>1. PICK u \in Turn : TurnStep(u)
    BY <1>3
  <2>2. CASE SendFails(u)
    BY <1>o, <2>2 DEF SendFails, RecordInv
  <2>3. CASE Rearm(u) \/ Retire(u)
    BY <1>o, <2>3 DEF Rearm, Retire
  <2>4. CASE ~SendFails(u) /\ ~Rearm(u) /\ ~Retire(u)
    BY <1>f, <2>1, <2>4 DEF TurnStep, TurnStarts, TurnReplies, Send, Record, RecordFails, Resume,
       ResumeFails, ResumeRejected, SlackUnchanged, history
  <2>5. QED BY <2>2, <2>3, <2>4
<1>4. CASE \E x \in TaskId : Environment(x)
  BY <1>4 DEF Environment, RemoteWorks, RemoteAsks, RemoteEnds, RemoteForgets,
     DeadlinePasses, GraceElapses, RetentionElapses, BotUnchanged, SlackUnchanged
<1>5. CASE \E o \in Push, x \in TaskId : PushArrives(o, x)
  BY <1>5 DEF PushArrives, SlackUnchanged
<1>6. QED BY <1>f, <1>1, <1>2, <1>3, <1>4, <1>5 DEF Next, Crash

\* Only recordDelegated makes a row, and no turn has a closed task to record.
LEMMA ClosedStaysUntracked ==
  ASSUME Core, Next, NEW t \in TaskId, outcome[t] # "open", ~task[t].tracked
  PROVE  ~task'[t].tracked
<1>o. /\ Typed /\ TypeOK /\ RecordInv(t) /\ task \in [TaskId -> Row]
  BY TypedIsTypeOK DEF Core, Typed, TableTyped
<1>a. ASSUME NEW x \in TaskId, NEW to, Transition(x, to), Applies(task[x], to)
      PROVE  ~task'[t].tracked
  <2>1. x # t
    BY <1>a, AppliesRow
  <2>2. QED BY <1>o, <1>a, <2>1 DEF Transition
<1>b. ASSUME UNCHANGED task PROVE ~task'[t].tracked
  BY <1>b
<1>1. CASE \E o \in Observer : ObserverStep(o)
  <2>1. PICK o \in Observer : ObserverStep(o)
    BY <1>1
  <2>2. CASE Unsettle(o)
    BY <1>o, <2>2 DEF Unsettle, Unsettled
  <2>3. CASE Heartbeat(o) \/ SettleTerminal(o) \/ SettleInputRequired(o) \/ Revert(o)
    <3>1. obs[o].task \in TaskId
      BY <1>o, <2>3, WorkingObserver
      DEF Heartbeat, SettleTerminal, SettleInputRequired, Revert
    <3>2. QED
      BY <1>a, <1>b, <2>3, <3>1 DEF Heartbeat, SettleTerminal, SettleInputRequired, Revert
  <2>4. CASE ~Unsettle(o) /\ ~Heartbeat(o) /\ ~SettleTerminal(o) /\ ~SettleInputRequired(o)
             /\ ~Revert(o)
    BY <1>b, <2>1, <2>4 DEF ObserverStep, FindRow, Poll, ObserveFails, TransitionFails, Report,
       PostAnswer, PostFails, UnsettleFails, Clear, Mark, PostQuestion
  <2>5. QED BY <2>2, <2>3, <2>4
<1>2. CASE ReconcilerStep
  <2>1. CASE Expire \/ FailLost
    <3>1. Rec.task \in TaskId
      <4>1. Reconciler \in Observer
        BY DEF Observer
      <4>2. QED BY <1>o, <2>1, <4>1, WorkingObserver DEF Expire, FailLost, Rec
    <3>2. QED BY <1>a, <1>b, <2>1, <3>1 DEF Expire, FailLost
  <2>2. CASE Prune
    BY <1>o, <2>2 DEF Prune, Pruned, Untracked
  <2>3. CASE ~Expire /\ ~FailLost /\ ~Prune
    BY <1>2, <1>b, <2>3 DEF ReconcilerStep, StartTick, NextRow, PollGone, EndSweep
  <2>4. QED BY <2>1, <2>2, <2>3
<1>3. CASE \E u \in Turn : TurnStep(u)
  <2>1. PICK u \in Turn : TurnStep(u)
    BY <1>3
  <2>2. CASE Record(u)
    <3>1. turn[u].task # t
      BY <1>o, <2>2 DEF Record, RecordInv, Recording
    <3>2. QED BY <1>o, <2>2, <3>1 DEF Record
  <2>3. CASE Rearm(u) \/ Retire(u)
    <3>1. turn[u].task \in TaskId
      BY <2>3, CoreIsIInv DEF Core, IInv, ActorsOK, TurnOK, Rearm, Retire
    <3>2. QED BY <1>a, <1>b, <2>3, <3>1 DEF Rearm, Retire
  <2>4. CASE ~Record(u) /\ ~Rearm(u) /\ ~Retire(u)
    BY <1>b, <2>1, <2>4 DEF TurnStep, TurnStarts, TurnReplies, Send, SendFails, RecordFails,
       Resume, ResumeFails, ResumeRejected
  <2>5. QED BY <2>2, <2>3, <2>4
<1>4. CASE \E x \in TaskId : Environment(x)
  <2>1. PICK x \in TaskId : Environment(x)
    BY <1>4
  <2>2. CASE DeadlinePasses(x) \/ GraceElapses(x)
    <3>1. x # t
      BY <2>2 DEF DeadlinePasses, GraceElapses
    <3>2. QED BY <1>o, <2>2, <3>1 DEF DeadlinePasses, GraceElapses
  <2>3. CASE RetentionElapses(x)
    <3>1. task'[t].tracked = task[t].tracked
      BY <1>o, <2>3 DEF RetentionElapses
    <3>2. QED BY <3>1
  <2>4. CASE RemoteWorks(x) \/ RemoteAsks(x) \/ RemoteEnds(x) \/ RemoteForgets(x)
    BY <1>b, <2>4 DEF RemoteWorks, RemoteAsks, RemoteEnds, RemoteForgets
  <2>5. QED BY <2>1, <2>2, <2>3, <2>4 DEF Environment
<1>5. CASE Crash \/ \E o \in Push, x \in TaskId : PushArrives(o, x)
  BY <1>b, <1>5 DEF Crash, PushArrives
<1>6. QED BY <1>1, <1>2, <1>3, <1>4, <1>5 DEF Next

LEMMA NeverForfeitedKept ==
  ASSUME Core, [Next]_vars, {"db", "crash"} \cap Faults = {}, NEW t \in TaskId,
         NeverForfeited(t)
  PROVE  NeverForfeited(t)'
<1>1. CASE UNCHANGED vars
  BY <1>1 DEF vars, NeverForfeited
<1>2. CASE Next /\ outcome'[t] = outcome[t]
  <2>1. outcome[t] = "reported" => ~task'[t].tracked
    BY <1>2, ClosedStaysUntracked DEF NeverForfeited
  <2>2. QED BY <1>2, <2>1 DEF NeverForfeited
<1>3. CASE Next /\ outcome'[t] # outcome[t]
  <2>1. \/ outcome'[t] \in TerminalStates \cup {"retired", "buried"}
        \/ outcome'[t] = "reported" /\ ~task'[t].tracked
    BY <1>3, OutcomeMoves
  <2>2. QED BY <2>1 DEF NeverForfeited, TerminalStates
<1>4. QED BY <1>1, <1>2, <1>3

\* Lost, repeated and reordered pushes, failing polls, posts and sends and agents
\* that forget cost no answer: a row is only left settled without one when a
\* statement fails or the process dies, when the user's reply replaced the task,
\* or when a statement without a post settled it (response-finalizer.ts:191,
\* resume-active-task.ts:300).
THEOREM OnlyFaultsForfeit ==
  ASSUME {"db", "crash"} \cap Faults = {}
  PROVE  Spec => []AnswersArrive
<1> DEFINE Kept == \A t \in TaskId : NeverForfeited(t)
<1>1. Init => Kept
  BY DEF Init, NeverForfeited
<1>2. Core /\ Kept /\ [Next]_vars => Kept'
  BY NeverForfeitedKept
<1>3. Core /\ Kept => AnswersArrive
  <2> SUFFICES ASSUME Core, Kept, NEW t \in TaskId, task[t].tracked, task[t].settled, ~Held(t)
               PROVE  answers[t] = 1 \/ outcome[t] \in {"retired", "buried"}
    BY DEF AnswersArrive
  <2>1. SettleInv(t) /\ NeverForfeited(t) /\ outcome[t] \in Outcomes
    BY DEF Core, Typed, SlackTyped
  <2>2. outcome[t] \in TerminalStates \cup {"retired", "buried"}
    BY <2>1 DEF SettleInv, NeverForfeited, Outcomes
  <2>3. QED BY <2>1, <2>2 DEF SettleInv
<1>4. QED
  <2> HIDE DEF Kept
  <2>1. QED BY <1>1, <1>2, <1>3, AlwaysCore, PTL DEF Spec
-----------------------------------------------------------------------------
(* What the thread is told of a task's end is so.                          *)

\* What an observer has seen, or decided, and the agents' tasks and the table
\* still bear out.
Grounded(o) ==
  LET t == obs[o].task
      s == obs[o].seen.state
  IN /\ obs[o].pc \in {"post", "unsettle"} => Warranted(t, s)
     /\ obs[o].pc = "dispatch" /\ s \in TerminalStates => remote[t].state \in {s, "gone"}
     /\ obs[o].pc = "lost" => remote[t].state = "gone"

AnswerGrounded(t) == outcome[t] \in TerminalStates => Warranted(t, outcome[t])

\* A remote task that has ended is what it is until the agent forgets it.
LEMMA RemoteStays ==
  ASSUME Core, [Next]_vars, NEW t \in TaskId,
         remote[t].state \in TerminalStates \cup {"gone"}
  PROVE  remote'[t].state \in {remote[t].state, "gone"}
<1>o. remote \in [TaskId -> RemoteTask]
  BY TypedIsTypeOK DEF Core, TypeOK
<1>n. /\ remote[t].state \notin {"none", "submitted", "working", "input-required"}
      /\ ~Resumable(remote[t])
  BY DEF TerminalStates, Resumable, ActiveExecutionStates
<1>b. ASSUME UNCHANGED remote PROVE remote'[t].state \in {remote[t].state, "gone"}
  BY <1>b
<1>1. CASE \E o \in Observer : ObserverStep(o)
  BY <1>b, <1>1 DEF ObserverStep, FindRow, Poll, ObserveFails, TransitionFails, Heartbeat,
     Report, SettleTerminal, PostAnswer, PostFails, Unsettle, UnsettleFails, Clear, Mark,
     SettleInputRequired, PostQuestion, Revert, OthersUnchanged
<1>2. CASE ReconcilerStep
  BY <1>b, <1>2 DEF ReconcilerStep, StartTick, NextRow, Expire, PollGone, FailLost, EndSweep,
     Prune, OthersUnchanged
<1>3. CASE \E u \in Turn : TurnStep(u)
  <2>1. PICK u \in Turn : TurnStep(u)
    BY <1>3
  <2>2. CASE Send(u)
    BY <1>o, <1>n, <2>2 DEF Send
  <2>3. CASE SendFails(u)
    BY <1>o, <1>n, <2>3 DEF SendFails
  <2>4. CASE Resume(u)
    <3>1. turn[u].task # t
      BY <1>n, <2>4 DEF Resume
    <3>2. QED BY <1>o, <2>4, <3>1 DEF Resume
  <2>5. CASE ResumeFails(u)
    <3>1. CASE UNCHANGED remote
      BY <1>b, <3>1
    <3>2. CASE ~UNCHANGED remote
      <4>1. turn[u].task # t
        BY <1>n, <2>5, <3>2 DEF ResumeFails
      <4>2. QED BY <1>o, <2>5, <4>1 DEF ResumeFails
    <3>3. QED BY <3>1, <3>2
  <2>6. CASE ~Send(u) /\ ~SendFails(u) /\ ~Resume(u) /\ ~ResumeFails(u)
    BY <1>b, <2>1, <2>6 DEF TurnStep, TurnStarts, TurnReplies, Record, RecordFails,
       ResumeRejected, Rearm, Retire
  <2>7. QED BY <2>2, <2>3, <2>4, <2>5, <2>6
<1>4. CASE \E x \in TaskId : Environment(x)
  <2>1. PICK x \in TaskId : Environment(x)
    BY <1>4
  <2>2. CASE RemoteWorks(x) \/ RemoteAsks(x) \/ RemoteEnds(x)
    <3>1. x # t
      BY <1>n, <2>2 DEF RemoteWorks, RemoteAsks, RemoteEnds
    <3>2. QED BY <1>o, <2>2, <3>1 DEF RemoteWorks, RemoteAsks, RemoteEnds
  <2>3. CASE RemoteForgets(x)
    BY <1>o, <2>3 DEF RemoteForgets, RemoteTask
  <2>4. CASE DeadlinePasses(x) \/ GraceElapses(x) \/ RetentionElapses(x)
    BY <1>b, <2>4 DEF DeadlinePasses, GraceElapses, RetentionElapses
  <2>5. QED BY <2>1, <2>2, <2>3, <2>4 DEF Environment
<1>5. CASE UNCHANGED vars \/ Crash \/ \E o \in Push, x \in TaskId : PushArrives(o, x)
  BY <1>b, <1>5 DEF vars, Crash, PushArrives, OthersUnchanged
<1>6. QED BY <1>1, <1>2, <1>3, <1>4, <1>5 DEF Next

\* The deadline of a settled row is not re-armed: only a transition does that,
\* and none applies to it.
LEMMA OverdueStays ==
  ASSUME Core, [Next]_vars, NEW t \in TaskId,
         task[t].tracked, task[t].settled, task[t].overdue
  PROVE  task'[t].tracked => task'[t].overdue
<1>o. /\ Typed /\ TypeOK /\ task \in [TaskId -> Row] /\ task[t] \in Row
  BY TypedIsTypeOK DEF Core, Typed, TableTyped
<1>a. ASSUME NEW x \in TaskId, NEW to, Transition(x, to), Applies(task[x], to)
      PROVE  task'[t].overdue
  <2>1. x # t
    BY <1>a, AppliesRow
  <2>2. QED BY <1>o, <1>a, <2>1 DEF Transition
<1>b. ASSUME UNCHANGED task PROVE task'[t].overdue
  BY <1>b
<1>1. CASE \E o \in Observer : ObserverStep(o)
  <2>1. PICK o \in Observer : ObserverStep(o)
    BY <1>1
  <2>2. CASE Unsettle(o)
    <3> DEFINE q == [task[t] EXCEPT !.settled = FALSE]
               r == [q EXCEPT !.age = "fresh"]
    <3>1. Unsettled(task[t]) = r
      BY <1>o DEF Unsettled, Row
    <3>2. q \in Row /\ q.overdue
      BY <1>o DEF Row
    <3> HIDE DEF q
    <3>3. r.overdue
      BY <3>2 DEF Row
    <3>4. task'[t] = task[t] \/ task'[t] = Unsettled(task[t])
      BY <1>o, <2>2 DEF Unsettle
    <3>5. QED BY <3>1, <3>3, <3>4
  <2>3. CASE Heartbeat(o) \/ SettleTerminal(o) \/ SettleInputRequired(o) \/ Revert(o)
    <3>1. obs[o].task \in TaskId
      BY <1>o, <2>3, WorkingObserver
      DEF Heartbeat, SettleTerminal, SettleInputRequired, Revert
    <3>2. QED
      BY <1>a, <1>b, <2>3, <3>1 DEF Heartbeat, SettleTerminal, SettleInputRequired, Revert
  <2>4. CASE ~Unsettle(o) /\ ~Heartbeat(o) /\ ~SettleTerminal(o) /\ ~SettleInputRequired(o)
             /\ ~Revert(o)
    BY <1>b, <2>1, <2>4 DEF ObserverStep, FindRow, Poll, ObserveFails, TransitionFails, Report,
       PostAnswer, PostFails, UnsettleFails, Clear, Mark, PostQuestion
  <2>5. QED BY <2>2, <2>3, <2>4
<1>2. CASE ReconcilerStep
  <2>1. CASE Expire \/ FailLost
    <3>1. Rec.task \in TaskId
      <4>1. Reconciler \in Observer
        BY DEF Observer
      <4>2. QED BY <1>o, <2>1, <4>1, WorkingObserver DEF Expire, FailLost, Rec
    <3>2. QED BY <1>a, <1>b, <2>1, <3>1 DEF Expire, FailLost
  <2>2. CASE Prune
    BY <1>b, <1>o, <2>2 DEF Prune, Pruned, Untracked
  <2>3. CASE ~Expire /\ ~FailLost /\ ~Prune
    BY <1>2, <1>b, <2>3 DEF ReconcilerStep, StartTick, NextRow, PollGone, EndSweep
  <2>4. QED BY <2>1, <2>2, <2>3
<1>3. CASE \E u \in Turn : TurnStep(u)
  <2>1. PICK u \in Turn : TurnStep(u)
    BY <1>3
  <2>2. CASE Record(u)
    BY <1>o, <2>2 DEF Record, Recorded
  <2>3. CASE Rearm(u) \/ Retire(u)
    <3>1. turn[u].task \in TaskId
      BY <2>3, CoreIsIInv DEF Core, IInv, ActorsOK, TurnOK, Rearm, Retire
    <3>2. QED BY <1>a, <1>b, <2>3, <3>1 DEF Rearm, Retire
  <2>4. CASE ~Record(u) /\ ~Rearm(u) /\ ~Retire(u)
    BY <1>b, <2>1, <2>4 DEF TurnStep, TurnStarts, TurnReplies, Send, SendFails, RecordFails,
       Resume, ResumeFails, ResumeRejected
  <2>5. QED BY <2>2, <2>3, <2>4
<1>4. CASE \E x \in TaskId : Environment(x)
  <2>1. PICK x \in TaskId : Environment(x)
    BY <1>4
  <2>2. CASE DeadlinePasses(x) \/ GraceElapses(x) \/ RetentionElapses(x)
    BY <1>o, <2>2 DEF DeadlinePasses, GraceElapses, RetentionElapses, Row
  <2>3. CASE RemoteWorks(x) \/ RemoteAsks(x) \/ RemoteEnds(x) \/ RemoteForgets(x)
    BY <1>b, <2>3 DEF RemoteWorks, RemoteAsks, RemoteEnds, RemoteForgets
  <2>4. QED BY <2>1, <2>2, <2>3 DEF Environment
<1>5. CASE UNCHANGED vars \/ Crash \/ \E o \in Push, x \in TaskId : PushArrives(o, x)
  BY <1>b, <1>5 DEF vars, Crash, PushArrives
<1>6. QED BY <1>1, <1>2, <1>3, <1>4, <1>5 DEF Next

\* What warrants an answer goes on to warrant it: of a task whose row is settled,
\* or that the bot is done with.
LEMMA WarrantStays ==
  ASSUME Core, [Next]_vars, NEW t \in TaskId, NEW s \in TerminalStates, Warranted(t, s),
         task[t].tracked => task[t].settled,
         ~task[t].tracked => outcome[t] # "open"
  PROVE  Warranted(t, s)'
<1>1. CASE UNCHANGED vars
  BY <1>1 DEF vars, Warranted
<1>2. CASE Next /\ remote[t].state \in {s, "gone"}
  BY <1>2, RemoteStays DEF Warranted
<1>3. CASE Next /\ s = "failed" /\ task[t].tracked /\ task[t].overdue
  BY <1>3, OverdueStays DEF Warranted
<1>4. CASE Next /\ s = "failed" /\ ~task[t].tracked
  BY <1>4, ClosedStaysUntracked DEF Warranted
<1>5. QED BY <1>1, <1>2, <1>3, <1>4 DEF Warranted

\* An observer a step leaves where it is, or lets fail its post; or takes to a
\* place that needs no ground.
LEMMA GroundedFrame ==
  ASSUME Core, [Next]_vars, NEW o \in Observer, Grounded(o),
         \/ obs'[o].pc \notin {"post", "unsettle", "dispatch", "lost"}
         \/ /\ obs'[o].task = obs[o].task /\ obs'[o].seen = obs[o].seen
            /\ \/ obs'[o].pc = obs[o].pc
               \/ obs[o].pc = "post" /\ obs'[o].pc = "unsettle"
  PROVE  Grounded(o)'
<1>1. CASE obs'[o].pc \notin {"post", "unsettle", "dispatch", "lost"}
  BY <1>1 DEF Grounded
<1>2. CASE /\ obs'[o].pc \in {"post", "unsettle"} /\ obs[o].pc \in {"post", "unsettle"}
           /\ obs'[o].task = obs[o].task /\ obs'[o].seen = obs[o].seen
  <2>1. obs[o].task \in TaskId /\ obs[o].seen.state \in TerminalStates
    BY <1>2, TypedIsTypeOK DEF Core, ActorsOK, ObserverOK
  <2>2. PICK t \in TaskId, s \in TerminalStates :
          t = obs[o].task /\ s = obs[o].seen.state
    BY <2>1
  <2>3. Holds(o, t) /\ SettleInv(t)
    BY <1>2, <2>2 DEF Holds, Core
  <2>4. task[t].tracked /\ task[t].settled
    BY <2>3 DEF SettleInv
  <2>5. Warranted(t, s)
    BY <1>2, <2>2 DEF Grounded
  <2>6. Warranted(t, s)'
    BY <2>4, <2>5, WarrantStays
  <2>7. t = obs'[o].task /\ s = obs'[o].seen.state
    BY <1>2, <2>2
  <2>8. QED BY <1>2, <2>6, <2>7 DEF Grounded
<1>3. CASE /\ obs'[o].pc \in {"dispatch", "lost"} /\ obs[o].pc = obs'[o].pc
           /\ obs'[o].task = obs[o].task /\ obs'[o].seen = obs[o].seen
  <2>1. PICK t \in TaskId : t = obs[o].task
    BY <1>3, WorkingObserver DEF Core
  <2>2. t = obs'[o].task
    BY <1>3, <2>1
  <2>3. QED BY <1>3, <2>1, <2>2, RemoteStays DEF Grounded
<1>4. QED BY <1>1, <1>2, <1>3

LEMMA ObserverGrounded ==
  ASSUME Core, NEW p \in Observer, ObserverStep(p), NEW o \in Observer, Grounded(o)
  PROVE  Grounded(o)'
<1>o. /\ Typed /\ TypeOK /\ obs \in [Observer -> ObserverState] /\ [Next]_vars
  BY TypedIsTypeOK DEF Core, Typed, ObsTyped, Next
<1>1. CASE FindRow(p) \/ ObserveFails(p) \/ TransitionFails(p) \/ Report(p) \/ Clear(p)
           \/ Mark(p) \/ PostQuestion(p)
  <2>1. o # p => obs'[o] = obs[o]
    BY <1>1, QuietObserver DEF Quiet
  <2>2. obs'[p].pc \notin {"post", "unsettle", "dispatch", "lost"}
    <3>1. CASE FindRow(p)
      BY <1>o, <3>1, DoneObserver, GotoObserver DEF FindRow, ObserverState, ObserverPC
    <3>2. CASE ObserveFails(p) \/ TransitionFails(p) \/ Report(p) \/ Mark(p)
      BY <1>o, <3>2, DoneObserver DEF ObserveFails, TransitionFails, Report, Mark
    <3>3. CASE Clear(p) \/ PostQuestion(p)
      BY <1>o, <3>3, DoneObserver, GotoObserver DEF Clear, PostQuestion, ObserverPC
    <3>4. QED BY <1>1, <3>1, <3>2, <3>3
  <2>3. QED BY <1>o, <2>1, <2>2, GroundedFrame
<1>2. CASE Poll(p)
  <2>1. (o # p => obs'[o] = obs[o]) /\ obs'[p].pc = "dispatch"
        /\ obs'[p].task = obs[p].task /\ obs'[p].seen = remote[obs[p].task]
        /\ remote' = remote
    BY <1>o, <1>2 DEF Poll, ObserverState, OthersUnchanged
  <2>2. CASE o = p
    BY <2>1, <2>2 DEF Grounded
  <2>3. QED BY <1>o, <2>1, <2>2, GroundedFrame
<1>3. CASE Heartbeat(p)
  <2>1. /\ o # p => obs'[o] = obs[o]
        /\ obs'[p].pc \notin {"post", "unsettle", "dispatch", "lost"}
    <3>1. CASE Done(p)
      BY <1>o, <3>1, DoneObserver
    <3>2. CASE obs' = [obs EXCEPT ![p] = [IdleObserver EXCEPT !.pc = "report"]]
      BY <1>o, <3>2, IdleType DEF ObserverPC
    <3>3. QED BY <1>3, <3>1, <3>2 DEF Heartbeat
  <2>2. QED BY <1>o, <2>1, GroundedFrame
<1>4. CASE SettleTerminal(p)
  <2>1. PICK s \in TerminalStates : s = obs[p].seen.state
    BY <1>4 DEF SettleTerminal, To
  <2>2. PICK t \in TaskId : t = obs[p].task
    BY <1>4, <1>o, WorkingObserver DEF SettleTerminal
  <2>3. CASE Done(p)
    BY <1>o, <2>3, DoneObserver, GroundedFrame
  <2>4. CASE Win(p, s)
    <3>1. /\ o # p => obs'[o] = obs[o]
          /\ obs'[p].pc = "post" /\ obs'[p].task = t /\ obs'[p].seen.state = s
      BY <1>o, <2>2, <2>4, WinObserver DEF TaskStates
    <3>2. CASE o = p
      <4>1. remote[t].state \in {s, "gone"} /\ remote' = remote
        BY <1>4, <2>1, <2>2, <3>2 DEF Grounded, SettleTerminal, OthersUnchanged
      <4>2. QED BY <3>1, <3>2, <4>1 DEF Grounded, Warranted
    <3>3. QED BY <1>o, <3>1, <3>2, GroundedFrame
  <2>5. QED BY <1>4, <2>1, <2>3, <2>4 DEF SettleTerminal, To
<1>5. CASE PostFails(p)
  <2>1. /\ o # p => obs'[o] = obs[o]
        /\ obs'[p].task = obs[p].task /\ obs'[p].seen = obs[p].seen
        /\ \/ obs[p].pc = "post" /\ obs'[p].pc = "unsettle"
           \/ obs'[p].pc = "revert"
    BY <1>o, <1>5, GotoObserver DEF PostFails, ObserverPC
  <2>2. QED BY <1>o, <2>1, GroundedFrame
<1>6. CASE PostAnswer(p) \/ Unsettle(p) \/ UnsettleFails(p) \/ SettleInputRequired(p) \/ Revert(p)
  <2>1. /\ o # p => obs'[o] = obs[o]
        /\ obs'[p].pc \notin {"post", "unsettle", "dispatch", "lost"}
    <3>1. CASE Done(p)
      BY <1>o, <3>1, DoneObserver
    <3>2. CASE Goto(p, "clear") \/ Goto(p, "ask")
      BY <1>o, <3>2, GotoObserver DEF ObserverPC
    <3>3. QED
      BY <1>6, <3>1, <3>2 DEF PostAnswer, Unsettle, UnsettleFails, SettleInputRequired, Revert
  <2>2. QED BY <1>o, <2>1, GroundedFrame
<1>7. QED BY <1>1, <1>2, <1>3, <1>4, <1>5, <1>6 DEF ObserverStep

LEMMA ReconcilerGrounded ==
  ASSUME Core, ReconcilerStep, NEW o \in Observer, Grounded(o)
  PROVE  Grounded(o)'
<1>o. /\ Typed /\ TypeOK /\ obs \in [Observer -> ObserverState] /\ [Next]_vars
      /\ Reconciler \in Observer
  BY TypedIsTypeOK DEF Core, Typed, ObsTyped, Next, Observer
<1>1. CASE StartTick \/ EndSweep \/ Prune
  BY <1>o, <1>1, GotoObserver, GroundedFrame DEF StartTick, EndSweep, Prune, ObserverPC
<1>2. CASE \E t \in TaskId : NextRow(t)
  <2>1. PICK t \in TaskId : NextRow(t)
    BY <1>2
  <2> DEFINE pc == IF /\ sweep[t].state \in ActiveExecutionStates
                      /\ sweep[t].overdue \/ task[t].overdue
                   THEN "expire" ELSE "poll"
             b == [pc |-> pc, task |-> t, row |-> sweep[t].state, seen |-> Unsent]
  <2>2. obs' = [obs EXCEPT ![Reconciler] = b] /\ b.pc \in {"expire", "poll"}
    BY <2>1 DEF NextRow
  <2> HIDE DEF b
  <2>3. QED BY <1>o, <2>2, GroundedFrame
<1>3. CASE PollGone
  <2>1. /\ o # Reconciler => obs'[o] = obs[o]
        /\ obs'[Reconciler].pc = "lost" /\ obs'[Reconciler].task = obs[Reconciler].task
        /\ remote'[obs[Reconciler].task].state = "gone"
    BY <1>o, <1>3, GotoObserver DEF PollGone, ObserverPC, Rec, OthersUnchanged
  <2>2. CASE o = Reconciler
    BY <2>1, <2>2 DEF Grounded
  <2>3. QED BY <1>o, <2>1, <2>2, GroundedFrame
<1>4. CASE Expire \/ FailLost
  <2>1. PICK t \in TaskId : t = Rec.task
    BY <1>o, <1>4, WorkingObserver DEF Expire, FailLost, Rec
  <2>2. CASE Done(Reconciler)
    BY <1>o, <2>2, DoneObserver, GroundedFrame
  <2>3. CASE Goto(Reconciler, "poll")
    BY <1>o, <2>3, GotoObserver, GroundedFrame DEF ObserverPC
  <2>4. CASE Win(Reconciler, "failed")
    <3>1. "failed" \in TaskStates /\ "failed" \in TerminalStates
      BY DEF TaskStates, TerminalStates
    <3>2. /\ o # Reconciler => obs'[o] = obs[o]
          /\ obs'[Reconciler].pc = "post" /\ obs'[Reconciler].task = t
          /\ obs'[Reconciler].seen.state = "failed"
      BY <1>o, <2>1, <2>4, <3>1, WinObserver DEF Rec
    <3>3. CASE o = Reconciler
      <4>1. CASE FailLost
        <5>1. remote'[t].state = "gone"
          BY <2>1, <3>3, <4>1 DEF Grounded, FailLost, Rec, OthersUnchanged
        <5>2. QED BY <3>2, <3>3, <5>1 DEF Grounded, Warranted
      <4>2. CASE Expire
        <5> DEFINE to == [To("failed") EXCEPT !.ifOverdue = TRUE]
        <5>1. Applies(task[t], to) /\ Transition(t, to)
          <6>1. obs'[Reconciler].pc # "poll"
            BY <3>2
          <6>2. ~Goto(Reconciler, "poll")
            BY <1>o, <6>1, GotoObserver DEF ObserverPC
          <6>3. QED BY <2>1, <4>2, <6>2 DEF Expire
        <5>2. to.ifOverdue /\ ~to.rearm
          BY DEF To
        <5>3. task[t].overdue
          BY <5>1, <5>2 DEF Applies
        <5>4. task'[t].overdue
          <6>1. task \in [TaskId -> Row] /\ task'[t] = Transitioned(task[t], to)
            BY <1>o, <5>1 DEF Typed, TableTyped, Transition
          <6> HIDE DEF to
          <6>2. Transitioned(task[t], to).overdue = (task[t].overdue /\ ~to.rearm)
            BY <6>1 DEF Transitioned, Row
          <6>3. QED BY <5>2, <5>3, <6>1, <6>2
        <5>5. QED BY <3>2, <3>3, <5>4 DEF Grounded, Warranted
      <4>3. QED BY <1>4, <4>1, <4>2
    <3>4. QED BY <1>o, <3>2, <3>3, GroundedFrame
  <2>5. QED BY <1>4, <2>2, <2>3, <2>4 DEF Expire, FailLost
<1>5. QED BY <1>1, <1>2, <1>3, <1>4 DEF ReconcilerStep

LEMMA NextGrounded ==
  ASSUME Core, [Next]_vars, NEW o \in Observer, Grounded(o)
  PROVE  Grounded(o)'
<1>1. CASE UNCHANGED obs
  BY <1>1, GroundedFrame
<1>2. CASE \E p \in Push, t \in TaskId : PushArrives(p, t)
  BY <1>2, GroundedFrame DEF PushArrives, Core, Typed, ObsTyped, ObserverState, Observer
<1>3. CASE Crash
  BY <1>3, GroundedFrame DEF Crash, IdleObserver
<1>4. CASE \E u \in Turn : TurnStep(u)
  BY <1>1, <1>4 DEF TurnStep, TurnStarts, TurnReplies, Send, SendFails, Record, RecordFails,
     Resume, ResumeFails, ResumeRejected, Rearm, Retire, ObserversUnchanged
<1>5. CASE \E t \in TaskId : Environment(t)
  BY <1>1, <1>5 DEF Environment, RemoteWorks, RemoteAsks, RemoteEnds, RemoteForgets,
     DeadlinePasses, GraceElapses, RetentionElapses, BotUnchanged
<1>6. QED
  BY <1>1, <1>2, <1>3, <1>4, <1>5, ObserverGrounded, ReconcilerGrounded DEF Next, vars

\* Only a post makes an outcome an answer, and the call that posts is grounded.
LEMMA NextAnswerGrounded ==
  ASSUME Core, [Next]_vars, \A o \in Observer : Grounded(o), NEW t \in TaskId,
         AnswerGrounded(t)
  PROVE  AnswerGrounded(t)'
<1>o. /\ SettleInv(t) /\ SettleInv(t)' /\ outcome \in [TaskId -> Outcomes]
      /\ outcome' \in [TaskId -> Outcomes]
  BY NextCore DEF Core, Typed, SlackTyped
<1>1. CASE outcome[t] \in TerminalStates
  <2>1. outcome[t] # "open" /\ outcome'[t] = outcome[t]
    BY <1>1, OutcomeKept DEF TerminalStates
  <2>2. PICK s \in TerminalStates : s = outcome[t]
    BY <1>1
  <2>3. Warranted(t, s)'
    BY <1>o, <1>1, <2>1, <2>2, WarrantStays DEF AnswerGrounded, SettleInv
  <2>4. QED BY <2>1, <2>2, <2>3 DEF AnswerGrounded
<1>2. CASE outcome[t] \notin TerminalStates /\ outcome'[t] \in TerminalStates
  <2>1. answers[t] = 0 /\ answers'[t] = 1
    BY <1>o, <1>2 DEF SettleInv
  <2>2. PICK o \in Observer : PostAnswer(o)
    BY <2>1, AnswersChange
  <2>3. obs[o].task = t
    BY <2>1, <2>2 DEF PostAnswer, Core, Typed, SlackTyped
  <2>4. /\ outcome'[t] = obs[o].seen.state /\ task' = task /\ remote' = remote
        /\ Warranted(t, obs[o].seen.state)
    BY <1>o, <2>2, <2>3 DEF PostAnswer, Grounded, OthersUnchanged, Core, Typed, SlackTyped
  <2>5. QED BY <2>4 DEF AnswerGrounded, Warranted
<1>3. CASE outcome'[t] \notin TerminalStates
  BY <1>3 DEF AnswerGrounded
<1>4. QED BY <1>1, <1>2, <1>3

\* The thread is told no untruth: an answer says what the agent's own task came
\* to, or that it failed when a deadline nothing had replaced was over or the
\* agent had forgotten it, however old what the call had read when it posted.
THEOREM AnswersHold == Spec => []AnswersAreTrue
<1> DEFINE Ground == /\ \A o \in Observer : Grounded(o)
                     /\ \A t \in TaskId : AnswerGrounded(t)
<1>1. Init => Ground
  BY DEF Init, IdleObserver, Grounded, AnswerGrounded, TerminalStates
<1>2. Core /\ Ground /\ [Next]_vars => Ground'
  BY NextGrounded, NextAnswerGrounded
<1>3. Core /\ Ground => AnswersAreTrue
  BY DEF Core, SettleInv, AnswerGrounded, AnswersAreTrue
<1>4. QED
  <2> HIDE DEF Ground
  <2>1. QED BY <1>1, <1>2, <1>3, AlwaysCore, PTL DEF Spec
=============================================================================
