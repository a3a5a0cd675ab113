------------------- MODULE TaskLifecycleRefinement_proofs -------------------
(* TaskLifecycle implements TaskAnswer, from the same invariant. *)
EXTENDS TaskLifecycleSafety_proofs

USE NamesAssumption, StatesAssumption, RoundsAssumption

-----------------------------------------------------------------------------
(* How one task's phase may change.                                        *)

SamePhases(S) == \A x \in TaskId \ S : Phase(x)' = Phase(x)

LEMMA PhaseFrame ==
  ASSUME NEW x \in TaskId, SameHolders(x), outcome'[x] = outcome[x]
  PROVE  Phase(x)' = Phase(x)
BY DEF Phase, Held, SameHolders

LEMMA FreePhase ==
  ASSUME NEW x \in TaskId, Free(x), outcome[x] = "open"
  PROVE  Phase(x) = "pending"
BY DEF Phase, Held, Free

LEMMA HeldPhase == ASSUME NEW x \in TaskId, Held(x) PROVE Phase(x) = "claimed"
BY DEF Phase

LEMMA ClosedPhase ==
  ASSUME NEW x \in TaskId, Free(x), outcome[x] \notin {"open"} \cup TerminalStates
  PROVE  Phase(x) = "closed"
BY DEF Phase, Held, Free

LEMMA AbstractClaim ==
  ASSUME NEW t \in TaskId, Phase(t) = "pending", Phase(t)' = "claimed", SamePhases({t})
  PROVE  Abstract!Next
<1>1. Abstract!Claim(t)
  BY DEF Abstract!Claim, SamePhases
<1>2. QED BY <1>1 DEF Abstract!Next

LEMMA AbstractAnswer ==
  ASSUME NEW t \in TaskId, Phase(t) = "claimed", Phase(t)' = "answered", SamePhases({t})
  PROVE  Abstract!Next
<1>1. Abstract!Answer(t)
  BY DEF Abstract!Answer, SamePhases
<1>2. QED BY <1>1 DEF Abstract!Next

LEMMA AbstractRelease ==
  ASSUME NEW t \in TaskId, Phase(t) = "claimed", Phase(t)' = "pending", SamePhases({t})
  PROVE  Abstract!Next
<1>1. Abstract!Release(t)
  BY DEF Abstract!Release, SamePhases
<1>2. QED BY <1>1 DEF Abstract!Next

LEMMA AbstractClose ==
  ASSUME NEW S \in SUBSET TaskId, \A t \in S : Phase(t) \in {"pending", "claimed"},
         \A t \in S : Phase(t)' = "closed", SamePhases(S)
  PROVE  Abstract!Next
<1>1. Abstract!Close(S)
  BY DEF Abstract!Close, SamePhases
<1>2. QED BY <1>1 DEF Abstract!Next

\* A pending task is closed.
LEMMA ClosesPending ==
  ASSUME NEW t \in TaskId, Free(t), outcome[t] = "open", \A x \in TaskId : SameHolders(x),
         outcome'[t] \notin {"open"} \cup TerminalStates,
         \A x \in TaskId : x # t => outcome'[x] = outcome[x]
  PROVE  Abstract!Next
<1>1. Phase(t) = "pending"
  BY FreePhase
<1>2. Phase(t)' = "closed"
  BY KeepsFree, ClosedPhase DEF Phase, Held, Free, SameHolders
<1>3. SamePhases({t})
  BY PhaseFrame DEF SamePhases
<1>4. QED BY <1>1, <1>2, <1>3, AbstractClose

Stutters == UNCHANGED [t \in TaskId |-> Phase(t)]

LEMMA SameStutters ==
  ASSUME \A x \in TaskId : SameHolders(x), UNCHANGED outcome
  PROVE  Stutters
BY PhaseFrame DEF Stutters

\* An observer wins the election.
LEMMA ClaimImplements ==
  ASSUME Core, NEW o \in Observer, NEW s \in TerminalStates,
         obs[o].task \in TaskId, obs[o].pc \notin {"post", "unsettle"},
         task[obs[o].task].tracked, ~task[obs[o].task].settled,
         Win(o, s), UNCHANGED outcome
  PROVE  Abstract!Next
<1>t. PICK t \in TaskId : t = obs[o].task
  OBVIOUS
<1>1. /\ \A p \in Observer : p # o => obs'[p] = obs[p]
      /\ obs'[o].pc = "post" /\ obs'[o].task = t
  BY <1>t, TypedIsTypeOK, WinObserver DEF Core, TaskStates
<1>2. Phase(t) = "pending"
  BY <1>t, UnsettledIsOpen, FreePhase DEF Core
<1>3. Phase(t)' = "claimed"
  BY <1>1 DEF Phase, Held, Holds
<1>4. SamePhases({t})
  BY <1>t, <1>1, KeepsHolders, PhaseFrame DEF SamePhases, Holds
<1>5. QED BY <1>2, <1>3, <1>4, AbstractClaim

-----------------------------------------------------------------------------
(* Every step maps to an abstract step or a stutter.                       *)

LEMMA ObserverImplements ==
  ASSUME Core, NEW o \in Observer, ObserverStep(o)
  PROVE  Abstract!Next \/ Stutters
<1>o. /\ Typed /\ TypeOK /\ obs \in [Observer -> ObserverState]
      /\ outcome \in [TaskId -> Outcomes] /\ \A x \in TaskId : SettleInv(x)
  BY TypedIsTypeOK DEF Core, Typed, ObsTyped, SlackTyped
<1>1. CASE \/ FindRow(o) \/ Poll(o) \/ ObserveFails(o) \/ TransitionFails(o)
           \/ Report(o) \/ Clear(o) \/ Mark(o) \/ PostQuestion(o)
  BY <1>1, QuietObserver, QuietHolders, SameStutters
<1>2. CASE Heartbeat(o)
  <2>1. CASE Done(o)
    BY <1>o, <1>2, <2>1, DoneObserver, KeepsHolders, SameStutters
    DEF Heartbeat, Holds, SlackUnchanged
  <2>2. CASE obs' = [obs EXCEPT ![o] = [IdleObserver EXCEPT !.pc = "report"]]
    <3>1. Quiet(o)
      BY <1>o, <1>2, <2>2, IdleType DEF Quiet, Heartbeat, ObserverPC
    <3>2. QED BY <1>2, <3>1, QuietHolders, SameStutters DEF Heartbeat, SlackUnchanged
  <2>3. QED BY <1>2, <2>1, <2>2 DEF Heartbeat
<1>3. CASE SettleTerminal(o)
  <2>1. obs[o].task \in TaskId /\ obs[o].pc \notin {"post", "unsettle"}
    BY <1>3, <1>o, WorkingObserver DEF SettleTerminal
  <2>2. CASE Done(o)
    <3>1. Quiet(o)
      BY <1>o, <2>1, <2>2, DoneObserver DEF Quiet
    <3>2. QED BY <1>3, <3>1, QuietHolders, SameStutters DEF SettleTerminal, SlackUnchanged
  <2>3. CASE ~Done(o)
    <3>1. PICK s \in TerminalStates : Win(o, s)
      BY <1>3, <2>3 DEF SettleTerminal
    <3>2. task[obs[o].task].tracked /\ ~task[obs[o].task].settled
      BY <1>3, <2>3, AppliesRow DEF SettleTerminal
    <3>3. QED BY <1>3, <2>1, <3>1, <3>2, ClaimImplements DEF SettleTerminal, SlackUnchanged
  <2>4. QED BY <2>2, <2>3
<1>4. CASE PostAnswer(o)
  <2>t. PICK t \in TaskId : t = obs[o].task
    BY <1>4, <1>o, WorkingObserver DEF PostAnswer
  <2>1. /\ \A p \in Observer : p # o => obs'[p] = obs[p]
        /\ obs'[o].pc = "clear"
    BY <1>4, <1>o, GotoObserver DEF PostAnswer, ObserverPC
  <2>2. Holds(o, t) /\ obs[o].seen.state \in TerminalStates
    BY <1>4, <1>o, <2>t DEF PostAnswer, Holds, Typed, ObsTyped, ObserverOK
  <2>3. Phase(t) = "claimed"
    BY <2>2, HeldPhase DEF Held
  <2>4. Free(t)'
    BY <1>o, <2>1, <2>2 DEF SettleInv, Free, Holds
  <2>5. outcome'[t] \in TerminalStates
    BY <1>4, <1>o, <2>t, <2>2 DEF PostAnswer
  <2>6. Phase(t)' = "answered"
    BY <2>4, <2>5 DEF Phase, Free, Held, TerminalStates
  <2>7. SamePhases({t})
    <3>1. \A x \in TaskId : x # t => outcome'[x] = outcome[x]
      BY <1>4, <2>t DEF PostAnswer
    <3>2. \A x \in TaskId : x # t => SameHolders(x)
      BY <2>t, <2>1, KeepsHolders DEF Holds
    <3>3. QED BY <3>1, <3>2, PhaseFrame DEF SamePhases
  <2>8. QED BY <2>3, <2>6, <2>7, AbstractAnswer
<1>5. CASE PostFails(o)
  <2>1. \A x \in TaskId : SameHolders(x)
    BY <1>o, <1>5, GotoObserver DEF PostFails, SameHolders, Holds, ObserverPC
  <2>2. QED BY <1>5, <2>1, SameStutters DEF PostFails, SlackUnchanged
<1>6. CASE Unsettle(o) \/ UnsettleFails(o)
  <2>t. PICK t \in TaskId : t = obs[o].task
    BY <1>6, <1>o, WorkingObserver DEF Unsettle, UnsettleFails
  <2>1. /\ \A p \in Observer : p # o => obs'[p] = obs[p]
        /\ obs'[o].pc \in {"idle", "sweep"}
    BY <1>6, <1>o, DoneObserver DEF Unsettle, UnsettleFails
  <2>2. Holds(o, t)
    BY <1>6, <2>t DEF Unsettle, UnsettleFails, Holds
  <2>3. Phase(t) = "claimed" /\ outcome[t] = "open"
    BY <1>o, <2>2, HeldPhase DEF Held, SettleInv
  <2>4. Free(t)'
    BY <1>o, <2>1, <2>2 DEF SettleInv, Free, Holds
  <2>5. SamePhases({t})
    <3>1. \A x \in TaskId : x # t => outcome'[x] = outcome[x]
      <4>1. CASE Unsettle(o)
        BY <4>1 DEF Unsettle, SlackUnchanged
      <4>2. CASE UnsettleFails(o)
        BY <1>o, <2>t, <4>2 DEF UnsettleFails
      <4>3. QED BY <1>6, <4>1, <4>2
    <3>2. \A x \in TaskId : x # t => SameHolders(x)
      BY <2>t, <2>1, KeepsHolders DEF Holds
    <3>3. QED BY <3>1, <3>2, PhaseFrame DEF SamePhases
  <2>6. CASE Unsettle(o)
    <3>1. Phase(t)' = "pending"
      BY <2>3, <2>4, <2>6 DEF Unsettle, SlackUnchanged, Phase, Free, Held
    <3>2. QED BY <2>3, <2>5, <3>1, AbstractRelease
  <2>7. CASE UnsettleFails(o)
    <3>1. outcome'[t] = "abandoned"
      BY <1>o, <2>t, <2>7 DEF UnsettleFails
    <3>2. Phase(t)' = "closed"
      BY <2>4, <3>1 DEF Phase, Free, Held, TerminalStates
    <3>3. QED BY <2>3, <2>5, <3>2, AbstractClose
  <2>8. QED BY <1>6, <2>6, <2>7
<1>7. CASE SettleInputRequired(o)
  <2>1. Quiet(o)
    BY <1>o, <1>7, DoneObserver, GotoObserver DEF Quiet, SettleInputRequired, ObserverPC
  <2>2. QED BY <1>7, <2>1, QuietHolders, SameStutters DEF SettleInputRequired, SlackUnchanged
<1>8. CASE Revert(o)
  <2>1. Quiet(o)
    BY <1>o, <1>8, DoneObserver DEF Quiet, Revert
  <2>2. \A x \in TaskId : SameHolders(x)
    BY <2>1, QuietHolders
  <2>3. CASE UNCHANGED outcome
    BY <2>2, <2>3, SameStutters
  <2>4. CASE ~UNCHANGED outcome
    <3>t. PICK t \in TaskId : t = obs[o].task
      BY <1>8, <1>o, WorkingObserver DEF Revert
    <3>1. /\ outcome' = [outcome EXCEPT ![t] = "buried"]
          /\ task[t].tracked /\ ~task[t].settled
      BY <1>8, <2>4, <3>t, AppliesRow DEF Revert
    <3>2. /\ outcome'[t] \notin {"open"} \cup TerminalStates
          /\ \A x \in TaskId : x # t => outcome'[x] = outcome[x]
      BY <1>o, <3>1 DEF TerminalStates
    <3>3. Free(t) /\ outcome[t] = "open"
      BY <1>o, <3>1, UnsettledIsOpen
    <3>4. QED BY <2>2, <3>2, <3>3, ClosesPending
  <2>5. QED BY <2>3, <2>4
<1>9. QED
  BY <1>1, <1>2, <1>3, <1>4, <1>5, <1>6, <1>7, <1>8 DEF ObserverStep

LEMMA ReconcilerImplements ==
  ASSUME Core, ReconcilerStep
  PROVE  Abstract!Next \/ Stutters
<1>o. /\ TypeOK /\ Typed /\ Reconciler \in Observer /\ UNCHANGED outcome
  BY TypedIsTypeOK
  DEF Core, Observer, ReconcilerStep, StartTick, NextRow, Expire, PollGone, FailLost,
      EndSweep, Prune, SlackUnchanged
<1>1. CASE StartTick \/ (\E t \in TaskId : NextRow(t)) \/ PollGone \/ EndSweep
  BY <1>o, <1>1, QuietReconciler, QuietHolders, SameStutters
<1>2. CASE Prune
  <2>1. Quiet(Reconciler)
    BY <1>2, <1>o, GotoObserver DEF Quiet, Prune, Rec, ObserverPC
  <2>2. QED BY <1>o, <2>1, QuietHolders, SameStutters
<1>3. CASE Expire \/ FailLost
  <2>1. obs[Reconciler].task \in TaskId /\ obs[Reconciler].pc \notin {"post", "unsettle"}
    BY <1>o, <1>3, WorkingObserver DEF Expire, FailLost, Rec
  <2>2. \/ Done(Reconciler) \/ Goto(Reconciler, "poll")
        \/ /\ Win(Reconciler, "failed")
           /\ task[obs[Reconciler].task].tracked /\ ~task[obs[Reconciler].task].settled
    BY <1>3, AppliesRow DEF Expire, FailLost, Rec
  <2>3. CASE Done(Reconciler) \/ Goto(Reconciler, "poll")
    <3>1. Quiet(Reconciler)
      BY <1>o, <2>1, <2>3, DoneObserver, GotoObserver DEF Quiet, ObserverPC
    <3>2. QED BY <1>o, <3>1, QuietHolders, SameStutters
  <2>4. CASE /\ Win(Reconciler, "failed")
             /\ task[obs[Reconciler].task].tracked /\ ~task[obs[Reconciler].task].settled
    <3>1. "failed" \in TerminalStates
      BY DEF TerminalStates
    <3>2. QED BY <1>o, <2>1, <2>4, <3>1, ClaimImplements
  <2>5. QED BY <2>2, <2>3, <2>4
<1>4. QED BY <1>1, <1>2, <1>3 DEF ReconcilerStep

LEMMA TurnImplements ==
  ASSUME Core, NEW u \in Turn, TurnStep(u)
  PROVE  Abstract!Next \/ Stutters
<1>o. /\ \A x \in TaskId : SettleInv(x) /\ RecordInv(x)
      /\ outcome \in [TaskId -> Outcomes] /\ TurnOK(turn[u])
  BY DEF Core, Typed, SlackTyped, TurnsTyped
<1>h. \A x \in TaskId : SameHolders(x)
  BY StillHolders
  DEF TurnStep, TurnStarts, TurnReplies, Send, SendFails, Record, RecordFails, Resume,
      ResumeFails, ResumeRejected, Rearm, Retire, ObserversUnchanged
<1>1. CASE UNCHANGED outcome
  BY <1>h, <1>1, SameStutters
<1>2. CASE ~UNCHANGED outcome
  <2>1. \E t \in TaskId, why \in {"reported", "unrecorded", "buried", "retired"} :
          /\ outcome' = [outcome EXCEPT ![t] = why]
          /\ outcome[t] = "open" /\ (task[t].tracked => ~task[t].settled)
    <3>1. CASE SendFails(u)
      BY <1>o, <1>2, <3>1 DEF SendFails, RecordInv
    <3>2. CASE RecordFails(u)
      BY <1>o, <3>2 DEF RecordFails, RecordInv, Recording, TurnOK
    <3>3. CASE Rearm(u) \/ Retire(u)
      <4>1. /\ outcome' = [outcome EXCEPT ![turn[u].task] = "buried"]
               \/ outcome' = [outcome EXCEPT ![turn[u].task] = "retired"]
            /\ task[turn[u].task].tracked /\ ~task[turn[u].task].settled
            /\ turn[u].task \in TaskId
        BY <1>o, <1>2, <3>3, AppliesRow DEF Rearm, Retire, TurnOK
      <4>2. QED BY <1>o, <4>1, UnsettledIsOpen
    <3>4. QED
      BY <1>2, <3>1, <3>2, <3>3 DEF TurnStep, TurnStarts, TurnReplies, Send, Record, Resume,
         ResumeFails, ResumeRejected, SlackUnchanged, history
  <2>2. PICK t \in TaskId, why \in {"reported", "unrecorded", "buried", "retired"} :
          /\ outcome' = [outcome EXCEPT ![t] = why]
          /\ outcome[t] = "open" /\ (task[t].tracked => ~task[t].settled)
    BY <2>1
  <2>3. Free(t)
    BY <1>o, <2>2 DEF SettleInv, Free
  <2>4. /\ outcome'[t] \notin {"open"} \cup TerminalStates
        /\ \A x \in TaskId : x # t => outcome'[x] = outcome[x]
    BY <1>o, <2>2 DEF TerminalStates
  <2>5. QED BY <1>h, <2>2, <2>3, <2>4, ClosesPending
<1>3. QED BY <1>1, <1>2

LEMMA CrashImplements == ASSUME Core, Crash PROVE Abstract!Next \/ Stutters
<1>o. \A x \in TaskId : SettleInv(x) /\ RecordInv(x)
  BY DEF Core
<1>1. \A x \in TaskId : Free(x)'
  BY DEF Crash, IdleObserver, Free, Holds
<1> DEFINE lost(x) == Held(x) \/ \E u \in Turn : turn[u].task = x /\ turn[u].pc \in {"record", "rerecord"}
           S == {x \in TaskId : lost(x)}
<1>2. \A x \in TaskId : outcome'[x] = IF lost(x) THEN "abandoned" ELSE outcome[x]
  BY DEF Crash
<1>3. ASSUME NEW x \in S PROVE Phase(x) \in {"pending", "claimed"} /\ Phase(x)' = "closed"
  <2>1. x \in TaskId /\ lost(x) /\ outcome'[x] = "abandoned"
    BY <1>2
  <2>2. Held(x) \/ outcome[x] = "open"
    BY <1>o, <2>1 DEF RecordInv, Recording
  <2>3. Phase(x) \in {"pending", "claimed"}
    BY <2>2 DEF Phase
  <2>4. Phase(x)' = "closed"
    BY <1>1, <2>1 DEF Phase, Held, Free, TerminalStates
  <2>5. QED BY <2>3, <2>4
<1>4. SamePhases(S)
  <2> SUFFICES ASSUME NEW x \in TaskId, ~lost(x) PROVE Phase(x)' = Phase(x)
    BY DEF SamePhases
  <2>1. SameHolders(x)
    BY <1>1 DEF SameHolders, Free, Held
  <2>2. outcome'[x] = outcome[x]
    BY <1>2
  <2>3. QED BY <2>1, <2>2, PhaseFrame
<1> HIDE DEF S
<1>5. S \in SUBSET TaskId
  BY DEF S
<1>6. QED BY <1>3, <1>4, <1>5, AbstractClose

LEMMA NextImplements == Core /\ [Next]_vars => Abstract!Next \/ Stutters
<1> SUFFICES ASSUME Core, [Next]_vars PROVE Abstract!Next \/ Stutters
  OBVIOUS
<1>1. CASE UNCHANGED vars \/ \E t \in TaskId : Environment(t)
  <2>1. UNCHANGED <<obs, outcome>>
    BY <1>1 DEF vars, Environment, RemoteWorks, RemoteAsks, RemoteEnds, RemoteForgets,
       DeadlinePasses, GraceElapses, RetentionElapses, BotUnchanged, SlackUnchanged
  <2>2. QED BY <2>1, StillHolders, SameStutters
<1>2. CASE \E o \in Push, t \in TaskId : PushArrives(o, t)
  <2>1. PICK o \in Push, t \in TaskId : PushArrives(o, t)
    BY <1>2
  <2>2. o \in Observer /\ Quiet(o) /\ UNCHANGED outcome
    BY <2>1 DEF Core, Typed, ObsTyped, ObserverState, PushArrives, Quiet, Observer,
         SlackUnchanged
  <2>3. QED BY <2>2, QuietHolders, SameStutters
<1>3. QED
  BY <1>1, <1>2, ObserverImplements, ReconcilerImplements, TurnImplements, CrashImplements
  DEF Next

LEMMA InitImplements == Init => Abstract!Init
<1> SUFFICES ASSUME Init PROVE Abstract!Init
  OBVIOUS
<1>1. \A t \in TaskId : Phase(t) = "pending"
  BY DEF Init, IdleObserver, Phase, Held, Holds
<1>2. QED BY <1>1 DEF Abstract!Init

\* Whatever pushes, ticks, turns, agents and crashes do, each task goes through
\* the phases TaskAnswer allows: claimed by one observer at a time, answered or
\* closed for good.
THEOREM Implementation == Spec => ImplementsTaskAnswer
<1>1. Core /\ [Next]_vars => [Abstract!Next]_([t \in TaskId |-> Phase(t)])
  BY NextImplements DEF Stutters
<1>2. QED
  BY <1>1, InitImplements, AlwaysCore, PTL DEF Spec, ImplementsTaskAnswer, Abstract!Spec
=============================================================================
