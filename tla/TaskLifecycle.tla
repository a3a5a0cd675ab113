---------------------------- MODULE TaskLifecycle ----------------------------
(***************************************************************************)
(* The life of the tasks one Slack thread delegates to remote A2A agents.  *)
(* Push notification handlers and the reconciler (the observers) race to   *)
(* settle a task and to post its answer; turns (the user's messages)       *)
(* delegate tasks and resume those that wait for input.  All of them run   *)
(* in one process and share the a2a_task table; every await of the source  *)
(* separates two steps.                                                    *)
(***************************************************************************)
EXTENDS A2aTaskTracker, Naturals

CONSTANTS
  Push,        \* push notifications that may be in progress at a time
  Reconciler,  \* the reconciler, not a member of Push
  NoTask,      \* not a TaskId: an idle actor's task
  Turn,        \* the user's messages in the thread, one turn each
  SendReplies, \* the task states message/send may answer with
  Endings,     \* the terminal states a remote task may reach
  MaxRounds,   \* bound: times a remote task asks for input
  Faults       \* what may go wrong: "db", "poll", "post", "send", "crash", "purge"

ASSUME NamesAssumption == Reconciler \notin Push /\ NoTask \notin TaskId
ASSUME StatesAssumption == SendReplies \subseteq TaskStates /\ Endings \subseteq TerminalStates
ASSUME RoundsAssumption == MaxRounds \in Nat

VARIABLES
  task,     \* the a2a_task table
  remote,   \* the remote agents' own tasks
  obs,      \* the observers
  sweep,    \* the rows the reconciler's current tick has still to visit
  turn,     \* the turns
  thinking, \* the thread's assistant status indicator is on
  answers,  \* history: answers of a task that Slack acknowledged
  outcome,  \* history: how the bot's dealings with a task ended
  asked,    \* history: acknowledged posts of a question, counted up to 2
  responded \* tasks whose event a settle marked responded in event_log

vars == <<task, remote, obs, sweep, turn, thinking, answers, outcome, asked, responded>>
history == <<answers, outcome, asked>>

Observer == Push \cup {Reconciler}
Rounds == 1..MaxRounds

\* What tasks/get shows.  round counts the questions the task has asked;
\* "none" is a task not created yet, "gone" one the agent has forgotten.
RemoteTask == [state : TaskStates \cup {"none", "gone"}, round : 0..MaxRounds]
Unsent == [state |-> "none", round |-> 0]

ObserverPC == {"idle", "lookup", "relookup", "sweep", "expire", "poll", "dispatch",
               "lost", "report", "post", "unsettle", "ask", "revert", "clear",
               "mark", "prune"}
\* row is the state in the row the caller read; seen is what tasks/get
\* returned, or the failure the reconciler decided on.
ObserverState == [pc : ObserverPC, task : TaskId \cup {NoTask},
                  row : TaskStates, seen : RemoteTask]

TurnPC == {"idle", "delegate", "record", "resume", "rearm", "retire",
           "redelegate", "rerecord", "done"}
TurnState == [pc : TurnPC, task : TaskId \cup {NoTask}, reply : TaskStates]

\* "open" until the bot is done with the task.  A terminal state: the answer
\* posted says so.  "retired": replaced by a new task on the user's reply.
\* "reported", "unrecorded": never recorded, and the user was told, or not.
\* "abandoned": the settling call died (crash, failed unsettle) before its post.
\* "buried": settled by a statement that no post goes with.
Outcomes == {"open", "retired", "reported", "unrecorded", "abandoned", "buried"}
              \cup TerminalStates

TypeOK ==
  /\ task \in [TaskId -> Row]
  /\ remote \in [TaskId -> RemoteTask]
  /\ obs \in [Observer -> ObserverState]
  /\ sweep \in [TaskId -> Row]
  /\ turn \in [Turn -> TurnState]
  /\ thinking \in BOOLEAN
  /\ answers \in [TaskId -> Nat]
  /\ outcome \in [TaskId -> Outcomes]
  /\ asked \in [TaskId -> [Rounds -> 0..2]]
  /\ responded \subseteq TaskId

IdleObserver == [pc |-> "idle", task |-> NoTask, row |-> "submitted", seen |-> Unsent]
IdleTurn == [pc |-> "idle", task |-> NoTask, reply |-> "submitted"]

Init ==
  /\ task = [t \in TaskId |-> Untracked]
  /\ remote = [t \in TaskId |-> Unsent]
  /\ obs = [o \in Observer |-> IdleObserver]
  /\ sweep = [t \in TaskId |-> Untracked]
  /\ turn = [u \in Turn |-> IdleTurn]
  /\ thinking = FALSE
  /\ answers = [t \in TaskId |-> 0]
  /\ outcome = [t \in TaskId |-> "open"]
  /\ asked = [t \in TaskId |-> [r \in Rounds |-> 0]]
  /\ responded = {}

-----------------------------------------------------------------------------
(* What the steps of an observer are written with.                         *)

Goto(o, pc) == obs' = [obs EXCEPT ![o].pc = pc]

\* The handler returns; the reconciler goes on with the rest of its tick.
Done(o) ==
  obs' = [obs EXCEPT ![o] =
            [IdleObserver EXCEPT !.pc = IF o = Reconciler THEN "sweep" ELSE "idle"]]

Transition(t, to) == task' = [task EXCEPT ![t] = Transitioned(@, to)]

\* The observer goes on to post that the task ended in state.
Win(o, state) ==
  obs' = [obs EXCEPT ![o] = [pc |-> "post", task |-> obs[o].task, row |-> "submitted",
                             seen |-> [state |-> state, round |-> 0]]]

\* The observer has won the transition to a terminal state and has yet to
\* post the answer, or to roll the row back.
Holds(o, t) == obs[o].task = t /\ obs[o].pc \in {"post", "unsettle"}
Held(t) == \E o \in Observer : Holds(o, t)

SlackUnchanged == UNCHANGED <<thinking, answers, outcome, asked, responded>>
OthersUnchanged == UNCHANGED <<remote, sweep, turn>>

\* trySetAssistantStatus swallows a failure, so the indicator may stay.
ClearStatus == thinking' \in (IF "post" \in Faults THEN {FALSE, thinking} ELSE {FALSE})

-----------------------------------------------------------------------------
(* The finalizer: finalize, finalizeRow, dispatchTask.                     *)

\* The endpoint is handed a taskId, for any task the agents know of, any
\* number of times and in any order.
PushArrives(o, t) ==
  /\ obs[o].pc = "idle"
  /\ remote[t].state # "none"
  /\ obs' = [obs EXCEPT ![o].pc = "lookup", ![o].task = t]
  /\ UNCHANGED task /\ OthersUnchanged /\ SlackUnchanged

\* findByTaskId; a row that is missing is looked up again after a delay.
FindRow(o) ==
  LET t == obs[o].task IN
  /\ obs[o].pc \in {"lookup", "relookup"}
  /\ \/ /\ task[t].tracked
        /\ obs' = [obs EXCEPT ![o].pc = "poll", ![o].row = task[t].state]
     \/ ~task[t].tracked /\ obs[o].pc = "lookup" /\ Goto(o, "relookup")
     \/ ~task[t].tracked /\ obs[o].pc = "relookup" /\ Done(o)
  /\ UNCHANGED task /\ OthersUnchanged /\ SlackUnchanged

\* tasks/get.
Poll(o) ==
  LET t == obs[o].task IN
  /\ obs[o].pc = "poll"
  /\ remote[t].state # "gone"
  /\ obs' = [obs EXCEPT ![o].pc = "dispatch", ![o].seen = remote[t]]
  /\ UNCHANGED task /\ OthersUnchanged /\ SlackUnchanged

\* The lookup fails, the agent is not registered, tasks/get fails or returns
\* no usable task, or (for a push) says the task is unknown.
ObserveFails(o) ==
  /\ \/ obs[o].pc \in {"lookup", "relookup"} /\ "db" \in Faults
     \/ obs[o].pc = "poll" /\ "poll" \in Faults
     \/ obs[o].pc = "poll" /\ o # Reconciler /\ remote[obs[o].task].state = "gone"
  /\ Done(o)
  /\ UNCHANGED task /\ OthersUnchanged /\ SlackUnchanged

\* The transition statement an observer is about to run fails, the row unchanged.
TransitionFails(o) ==
  /\ "db" \in Faults
  /\ obs[o].pc \in {"dispatch", "lost", "revert"}
  /\ Done(o)
  /\ UNCHANGED task /\ OthersUnchanged /\ SlackUnchanged

\* submitted / working: the heartbeat.
Heartbeat(o) ==
  LET t == obs[o].task
      to == To(obs[o].seen.state)
  IN /\ obs[o].pc = "dispatch"
     /\ to.state \in ActiveExecutionStates
     /\ IF Applies(task[t], to)
        THEN Transition(t, to) /\ obs' = [obs EXCEPT ![o] = [IdleObserver EXCEPT !.pc = "report"]]
        ELSE UNCHANGED task /\ Done(o)
     /\ OthersUnchanged /\ SlackUnchanged

\* taskProgressStatus.report: nothing is shown when the task carries no
\* message, or the one shown last.
Report(o) ==
  /\ obs[o].pc = "report"
  /\ thinking' \in {thinking, TRUE}
  /\ Done(o)
  /\ UNCHANGED <<task, responded>> /\ OthersUnchanged /\ UNCHANGED history

\* settleTerminal up to the post: the winner of the transition goes on, the
\* others return 'duplicate'.
SettleTerminal(o) ==
  LET t == obs[o].task
      to == To(obs[o].seen.state)
  IN /\ obs[o].pc = "dispatch"
     /\ to.state \in TerminalStates
     /\ IF Applies(task[t], to)
        THEN Transition(t, to) /\ Win(o, to.state)
        ELSE UNCHANGED task /\ Done(o)
     /\ OthersUnchanged /\ SlackUnchanged

\* Slack acknowledges the answer.
PostAnswer(o) ==
  LET t == obs[o].task IN
  /\ obs[o].pc = "post"
  /\ answers' = [answers EXCEPT ![t] = @ + 1]
  /\ outcome' = [outcome EXCEPT ![t] = obs[o].seen.state]
  /\ Goto(o, "clear")
  /\ UNCHANGED <<task, thinking, asked, responded>> /\ OthersUnchanged

\* Mutant of PostFails: the failure of an answer's post is taken for a success.
PostFailsUnseen(o) ==
  /\ "post" \in Faults
  /\ \/ obs[o].pc = "post" /\ Goto(o, "clear")
     \/ obs[o].pc = "ask" /\ Goto(o, "revert")
  /\ UNCHANGED task /\ OthersUnchanged /\ SlackUnchanged

PostFails(o) ==
  /\ "post" \in Faults
  /\ \/ obs[o].pc = "post" /\ Goto(o, "unsettle")
     \/ obs[o].pc = "ask" /\ Goto(o, "revert")
  /\ UNCHANGED task /\ OthersUnchanged /\ SlackUnchanged

Unsettle(o) ==
  /\ obs[o].pc = "unsettle"
  /\ task' = [task EXCEPT ![obs[o].task] = Unsettled(@)]
  /\ Done(o)
  /\ OthersUnchanged /\ SlackUnchanged

UnsettleFails(o) ==
  /\ obs[o].pc = "unsettle" /\ "db" \in Faults
  /\ outcome' = [outcome EXCEPT ![obs[o].task] = "abandoned"]
  /\ Done(o)
  /\ UNCHANGED <<task, thinking, answers, asked, responded>> /\ OthersUnchanged

\* taskProgressStatus.clear, after an answer or a question.
Clear(o) ==
  /\ obs[o].pc = "clear"
  /\ ClearStatus
  /\ IF obs[o].seen.state = "input-required" THEN Done(o) ELSE Goto(o, "mark")
  /\ UNCHANGED <<task, responded>> /\ OthersUnchanged /\ UNCHANGED history

\* markResponded; a failure is only logged.
Mark(o) ==
  /\ obs[o].pc = "mark"
  /\ \/ responded' = responded \cup {obs[o].task}
     \/ "db" \in Faults /\ UNCHANGED responded
  /\ Done(o)
  /\ UNCHANGED <<task, thinking>> /\ OthersUnchanged /\ UNCHANGED history

\* settleInputRequired up to the post.
SettleInputRequired(o) ==
  LET t == obs[o].task
      to == To("input-required")
  IN /\ obs[o].pc = "dispatch"
     /\ obs[o].seen.state = "input-required"
     /\ IF Applies(task[t], to)
        THEN Transition(t, to) /\ Goto(o, "ask")
        ELSE UNCHANGED task /\ Done(o)
     /\ OthersUnchanged /\ SlackUnchanged

\* Slack acknowledges the question.
PostQuestion(o) ==
  LET t == obs[o].task
      r == obs[o].seen.round
  IN /\ obs[o].pc = "ask"
     /\ asked' = [asked EXCEPT ![t][r] = IF @ = 0 THEN 1 ELSE 2]
     /\ Goto(o, "clear")
     /\ UNCHANGED <<task, thinking, answers, outcome, responded>> /\ OthersUnchanged

\* The question did not reach Slack: the row goes back to the state the caller
\* read before, which need not be the one the transition replaced.
Revert(o) ==
  LET t == obs[o].task
      to == ToFrom(obs[o].row, "input-required")
  IN /\ obs[o].pc = "revert"
     /\ IF Applies(task[t], to)
        THEN /\ Transition(t, to)
             /\ outcome' = IF to.state \in TerminalStates
                           THEN [outcome EXCEPT ![t] = "buried"] ELSE outcome
        ELSE UNCHANGED <<task, outcome>>
     /\ Done(o)
     /\ UNCHANGED <<thinking, answers, asked, responded>> /\ OthersUnchanged

-----------------------------------------------------------------------------
(* The reconciler: runOnce, reconcileRow.  isRunning keeps it to one tick  *)
(* at a time, so it is one observer.                                       *)

Rec == obs[Reconciler]

StartTick ==
  /\ Rec.pc = "idle"
  /\ \/ sweep' = [t \in TaskId |-> IF t \in FindUnsettled(task) THEN task[t] ELSE Untracked]
     \/ "db" \in Faults /\ UNCHANGED sweep
  /\ Goto(Reconciler, "sweep")
  /\ UNCHANGED <<task, remote, turn>> /\ SlackUnchanged

\* The next row of the tick, and its deadline check.  The code takes the rows
\* oldest first; here they come in any order.
NextRow(t) ==
  /\ Rec.pc = "sweep"
  /\ sweep[t].tracked
  /\ sweep' = [sweep EXCEPT ![t] = Untracked]
  /\ obs' = [obs EXCEPT ![Reconciler] =
       [pc |-> IF /\ sweep[t].state \in ActiveExecutionStates
                  /\ sweep[t].overdue \/ task[t].overdue
               THEN "expire" ELSE "poll",
        task |-> t, row |-> sweep[t].state, seen |-> Unsent]]
  /\ UNCHANGED <<task, remote, turn>> /\ SlackUnchanged

\* Mutants of Expire: the deadline is not read again in the statement; a state
\* of its own is recorded.
ExpireStale ==
  LET t == Rec.task
      to == To("failed")
  IN /\ Rec.pc = "expire"
     /\ IF Applies(task[t], to)
        THEN Transition(t, to) /\ Win(Reconciler, "failed")
        ELSE Goto(Reconciler, "poll") /\ UNCHANGED task
     /\ OthersUnchanged /\ SlackUnchanged

ExpireUnnamed ==
  LET t == Rec.task IN
  /\ Rec.pc = "expire"
  /\ Applies(task[t], [To("failed") EXCEPT !.ifOverdue = TRUE])
  /\ Transition(t, To("failed"))
  /\ Win(Reconciler, "timed-out")
  /\ OthersUnchanged /\ SlackUnchanged

\* The deadline failure; a row it does not apply to is polled instead.
Expire ==
  LET t == Rec.task
      to == [To("failed") EXCEPT !.ifOverdue = TRUE]
  IN /\ Rec.pc = "expire"
     /\ \/ /\ Applies(task[t], to)
           /\ Transition(t, to)
           /\ Win(Reconciler, "failed")
        \/ /\ ~Applies(task[t], to) \/ "db" \in Faults
           /\ Goto(Reconciler, "poll")
           /\ UNCHANGED task
     /\ OthersUnchanged /\ SlackUnchanged

\* tasks/get answers TaskNotFound.
PollGone ==
  /\ Rec.pc = "poll"
  /\ remote[Rec.task].state = "gone"
  /\ Goto(Reconciler, "lost")
  /\ UNCHANGED task /\ OthersUnchanged /\ SlackUnchanged

\* Mutant of FailLost: the default guard for a row that waits for input too.
FailLostActive ==
  LET t == Rec.task
      to == To("failed")
  IN /\ Rec.pc = "lost"
     /\ IF Applies(task[t], to)
        THEN Transition(t, to) /\ Win(Reconciler, "failed")
        ELSE UNCHANGED task /\ Done(Reconciler)
     /\ OthersUnchanged /\ SlackUnchanged

FailLost ==
  LET t == Rec.task
      to == IF Rec.row \in ActiveExecutionStates
            THEN To("failed") ELSE ToFrom("failed", Rec.row)
  IN /\ Rec.pc = "lost"
     /\ IF Applies(task[t], to)
        THEN Transition(t, to) /\ Win(Reconciler, "failed")
        ELSE UNCHANGED task /\ Done(Reconciler)
     /\ OthersUnchanged /\ SlackUnchanged

EndSweep ==
  /\ Rec.pc = "sweep"
  /\ \A t \in TaskId : ~sweep[t].tracked
  /\ Goto(Reconciler, "prune")
  /\ UNCHANGED task /\ OthersUnchanged /\ SlackUnchanged

\* deleteSettledOlderThan ends the tick.
Prune ==
  /\ Rec.pc = "prune"
  /\ \/ task' = Pruned(task)
     \/ "db" \in Faults /\ UNCHANGED task
  /\ Goto(Reconciler, "idle")
  /\ OthersUnchanged /\ SlackUnchanged

-----------------------------------------------------------------------------
(* Turns: the dispatcher, the delegation tool and resumeActiveTask.        *)

Return(u) == turn' = [turn EXCEPT ![u] = [IdleTurn EXCEPT !.pc = "done"]]
ObserversUnchanged == UNCHANGED <<obs, sweep>>

\* A remote task after it took a message and answered with state s.
Replied(r, s) == [state |-> s,
                  round |-> IF s = "input-required" THEN r.round + 1 ELSE r.round]
CanReply(r, s) == s = "input-required" => r.round < MaxRounds

\* The status is set and the thread's waiting task looked up: a waiting task is
\* resumed, otherwise the conversation agent answers.
TurnStarts(u) ==
  /\ turn[u].pc = "idle"
  /\ \/ \E t \in InputRequired(task) :
          turn' = [turn EXCEPT ![u].pc = "resume", ![u].task = t]
     \/ /\ InputRequired(task) = {}
        /\ turn' = [turn EXCEPT ![u].pc = "delegate"]
  /\ thinking' = TRUE
  /\ UNCHANGED <<task, remote, responded>> /\ ObserversUnchanged /\ UNCHANGED history

\* The turn ends with a message of its own: the agent's reply, or the notice
\* of a failure (the lookup's, the agent's, the image description's).
TurnReplies(u) ==
  /\ turn[u].pc \in {"delegate", "resume"}
  /\ ClearStatus
  /\ Return(u)
  /\ UNCHANGED <<task, remote, responded>> /\ ObserversUnchanged /\ UNCHANGED history

\* message/send for a new task, by the delegation tool or by redelegate.
Send(u) ==
  /\ turn[u].pc \in {"delegate", "redelegate"}
  /\ \E t \in TaskId, s \in SendReplies :
       /\ remote[t].state = "none" /\ CanReply(remote[t], s)
       /\ remote' = [remote EXCEPT ![t] = Replied(@, s)]
       /\ turn' = [turn EXCEPT ![u] =
            [pc |-> IF @.pc = "delegate" THEN "record" ELSE "rerecord",
             task |-> t, reply |-> s]]
  /\ UNCHANGED task /\ ObserversUnchanged /\ SlackUnchanged

\* message/send fails, or its result is malformed although the agent has
\* created the task; the user is told.
SendFails(u) ==
  /\ "send" \in Faults
  /\ turn[u].pc \in {"delegate", "redelegate"}
  /\ \/ UNCHANGED <<remote, outcome>>
     \/ \E t \in TaskId, s \in SendReplies :
          /\ remote[t].state = "none" /\ CanReply(remote[t], s)
          /\ remote' = [remote EXCEPT ![t] = Replied(@, s)]
          /\ outcome' = [outcome EXCEPT ![t] = "reported"]
  /\ ClearStatus
  /\ Return(u)
  /\ UNCHANGED <<task, answers, asked, responded>> /\ ObserversUnchanged

\* recordDelegated.  The turn then ends without a message.
Record(u) ==
  LET t == turn[u].task IN
  /\ turn[u].pc \in {"record", "rerecord"}
  /\ task' = [task EXCEPT ![t] = Recorded(@, turn[u].reply)]
  /\ Return(u)
  /\ UNCHANGED remote /\ ObserversUnchanged /\ SlackUnchanged

\* A failed record: redelegate tells the user; the delegation tool tells the
\* agent, whose reply a turn that has delegated does not post.
RecordFails(u) ==
  LET t == turn[u].task IN
  /\ "db" \in Faults
  /\ \/ /\ turn[u].pc = "record"
        /\ outcome' = [outcome EXCEPT ![t] = "unrecorded"]
        /\ UNCHANGED thinking
     \/ /\ turn[u].pc = "rerecord"
        /\ outcome' = [outcome EXCEPT ![t] = "reported"]
        /\ ClearStatus
  /\ Return(u)
  /\ UNCHANGED <<task, remote, answers, asked, responded>> /\ ObserversUnchanged

Resumable(r) == r.state \in ActiveExecutionStates \cup {"input-required"}

\* message/send to the waiting task is accepted.
Resume(u) ==
  LET t == turn[u].task IN
  /\ turn[u].pc = "resume"
  /\ Resumable(remote[t])
  /\ \E s \in SendReplies :
       /\ CanReply(remote[t], s)
       /\ remote' = [remote EXCEPT ![t] = Replied(@, s)]
       /\ turn' = [turn EXCEPT ![u].pc = "rearm", ![u].reply = s]
  /\ UNCHANGED task /\ ObserversUnchanged /\ SlackUnchanged

\* It fails or its result is malformed, whether or not the agent has taken it;
\* the user is told.
ResumeFails(u) ==
  LET t == turn[u].task IN
  /\ "send" \in Faults
  /\ turn[u].pc = "resume"
  /\ \/ UNCHANGED remote
     \/ \E s \in SendReplies :
          /\ Resumable(remote[t]) /\ CanReply(remote[t], s)
          /\ remote' = [remote EXCEPT ![t] = Replied(@, s)]
  /\ ClearStatus
  /\ Return(u)
  /\ UNCHANGED <<task, responded>> /\ ObserversUnchanged /\ UNCHANGED history

\* It is rejected: the task is gone or already terminal.
ResumeRejected(u) ==
  /\ turn[u].pc = "resume"
  /\ ~Resumable(remote[turn[u].task])
  /\ turn' = [turn EXCEPT ![u].pc = "retire"]
  /\ UNCHANGED <<task, remote>> /\ ObserversUnchanged /\ SlackUnchanged

\* The accepted resume is recorded with a fresh deadline (transitionBestEffort:
\* a lost race or a failed statement is only logged).
Rearm(u) ==
  LET t == turn[u].task
      to == [ToFrom(turn[u].reply, "input-required") EXCEPT !.rearm = TRUE]
  IN /\ turn[u].pc = "rearm"
     /\ \/ /\ Applies(task[t], to)
           /\ Transition(t, to)
           /\ outcome' = IF to.state \in TerminalStates
                         THEN [outcome EXCEPT ![t] = "buried"] ELSE outcome
        \/ ~Applies(task[t], to) /\ UNCHANGED <<task, outcome>>
        \/ "db" \in Faults /\ UNCHANGED <<task, outcome>>
     /\ Return(u)
     /\ UNCHANGED <<remote, thinking, answers, asked, responded>> /\ ObserversUnchanged

\* Mutant of Retire: the row is settled whatever state it has reached meanwhile.
RetireAnyway(u) ==
  LET t == turn[u].task IN
  /\ turn[u].pc = "retire"
  /\ Transition(t, To("failed"))
  /\ outcome' = [outcome EXCEPT ![t] = "retired"]
  /\ turn' = [turn EXCEPT ![u].pc = "redelegate"]
  /\ UNCHANGED <<remote, thinking, answers, asked, responded>> /\ ObserversUnchanged

\* settleAndRedelegate: the old row is settled without a post, if it still
\* waits for input; the message then goes to a new task either way.
Retire(u) ==
  LET t == turn[u].task
      to == ToFrom("failed", "input-required")
  IN /\ turn[u].pc = "retire"
     /\ \/ /\ Applies(task[t], to)
           /\ Transition(t, to)
           /\ outcome' = [outcome EXCEPT ![t] = "retired"]
        \/ ~Applies(task[t], to) /\ UNCHANGED <<task, outcome>>
        \/ "db" \in Faults /\ UNCHANGED <<task, outcome>>
     /\ turn' = [turn EXCEPT ![u].pc = "redelegate"]
     /\ UNCHANGED <<remote, thinking, answers, asked, responded>> /\ ObserversUnchanged

-----------------------------------------------------------------------------
(* The process, the remote agents and the clock.                           *)

\* The process stops and starts again: what it was doing is lost, the table
\* and what Slack shows stay.
Crash ==
  /\ "crash" \in Faults
  /\ obs' = [o \in Observer |-> IdleObserver]
  /\ sweep' = [t \in TaskId |-> Untracked]
  /\ turn' = [u \in Turn |-> IF turn[u].pc = "idle" THEN IdleTurn
                             ELSE [IdleTurn EXCEPT !.pc = "done"]]
  /\ outcome' = [t \in TaskId |->
       IF \/ Held(t)
          \/ \E u \in Turn : turn[u].task = t /\ turn[u].pc \in {"record", "rerecord"}
       THEN "abandoned" ELSE outcome[t]]
  /\ UNCHANGED <<task, remote, thinking, answers, asked, responded>>

BotUnchanged == UNCHANGED <<obs, sweep, turn>> /\ SlackUnchanged

RemoteWorks(t) ==
  /\ remote[t].state = "submitted"
  /\ remote' = [remote EXCEPT ![t].state = "working"]
  /\ UNCHANGED task /\ BotUnchanged

RemoteAsks(t) ==
  /\ remote[t].state = "working"
  /\ CanReply(remote[t], "input-required")
  /\ remote' = [remote EXCEPT ![t] = Replied(@, "input-required")]
  /\ UNCHANGED task /\ BotUnchanged

RemoteEnds(t) ==
  /\ Resumable(remote[t])
  /\ \E s \in Endings : remote' = [remote EXCEPT ![t].state = s]
  /\ UNCHANGED task /\ BotUnchanged

RemoteForgets(t) ==
  /\ "purge" \in Faults
  /\ remote[t].state \notin {"none", "gone"}
  /\ remote' = [remote EXCEPT ![t].state = "gone"]
  /\ UNCHANGED task /\ BotUnchanged

DeadlinePasses(t) ==
  /\ task[t].tracked /\ ~task[t].overdue
  /\ task' = [task EXCEPT ![t].overdue = TRUE]
  /\ UNCHANGED remote /\ BotUnchanged

GraceElapses(t) ==
  /\ task[t].tracked /\ task[t].age = "fresh"
  /\ task' = [task EXCEPT ![t].age = "stale"]
  /\ UNCHANGED remote /\ BotUnchanged

\* No Slack or database call is under way for as long as the retention period.
RetentionElapses(t) ==
  /\ task[t].settled /\ task[t].age = "stale"
  /\ ~Held(t)
  /\ task' = [task EXCEPT ![t].age = "old"]
  /\ UNCHANGED remote /\ BotUnchanged

ObserverStep(o) ==
  \/ FindRow(o) \/ Poll(o) \/ ObserveFails(o) \/ TransitionFails(o)
  \/ Heartbeat(o) \/ Report(o)
  \/ SettleTerminal(o) \/ PostAnswer(o) \/ PostFails(o)
  \/ Unsettle(o) \/ UnsettleFails(o) \/ Clear(o) \/ Mark(o)
  \/ SettleInputRequired(o) \/ PostQuestion(o) \/ Revert(o)

ReconcilerStep ==
  \/ StartTick \/ (\E t \in TaskId : NextRow(t)) \/ Expire \/ PollGone \/ FailLost
  \/ EndSweep \/ Prune

TurnStep(u) ==
  \/ TurnStarts(u) \/ TurnReplies(u) \/ Send(u) \/ SendFails(u)
  \/ Record(u) \/ RecordFails(u)
  \/ Resume(u) \/ ResumeFails(u) \/ ResumeRejected(u) \/ Rearm(u) \/ Retire(u)

Environment(t) ==
  \/ RemoteWorks(t) \/ RemoteAsks(t) \/ RemoteEnds(t) \/ RemoteForgets(t)
  \/ DeadlinePasses(t) \/ GraceElapses(t) \/ RetentionElapses(t)

Next ==
  \/ \E o \in Observer : ObserverStep(o)
  \/ \E o \in Push, t \in TaskId : PushArrives(o, t)
  \/ ReconcilerStep
  \/ \E u \in Turn : TurnStep(u)
  \/ \E t \in TaskId : Environment(t)
  \/ Crash

Spec == Init /\ [][Next]_vars

-----------------------------------------------------------------------------
(* Safety.                                                                 *)

\* However pushes and ticks interleave, at most one call is between winning a
\* task's terminal transition and the fate of its post; the row stays settled
\* meanwhile, in the state that call is about to report, and nothing has
\* reported or replaced the task before (settleTerminal, settleFailure).
SettlementElection ==
  \A t \in TaskId :
    /\ \A o, p \in Observer : Holds(o, t) /\ Holds(p, t) => o = p
    /\ \A o \in Observer : Holds(o, t) =>
         /\ task[t].tracked /\ task[t].settled /\ task[t].age # "old"
         /\ task[t].state = obs[o].seen.state
         /\ outcome[t] = "open" /\ answers[t] = 0

\* Slack never acknowledges two answers of one task: not for duplicate pushes,
\* a tick racing a push, retries of failed posts, nor a restart in between.
AnsweredOnce == \A t \in TaskId : answers[t] <= 1

\* The table agrees with what the thread was told: once a task is answered, its
\* row, while it is kept, is settled in the state the answer reported, whatever
\* stale observation, resume or deadline arrives later.
AnswerMatchesRow ==
  \A t \in TaskId :
    answers[t] > 0 /\ task[t].tracked =>
      task[t].settled /\ task[t].state = outcome[t]

\* A settled row has been answered, is about to be, was replaced by the user's
\* reply, or is one of the losses outcome names; it never just went quiet.
SettledAccounted ==
  \A t \in TaskId :
    task[t].tracked /\ task[t].settled => Held(t) \/ outcome[t] # "open"

\* A task the bot is done with is never taken up again: its row, while there is
\* one, stays out of findUnsettled and of findActiveInputRequired.
ClosedStaysClosed ==
  \A t \in TaskId : outcome[t] # "open" /\ task[t].tracked => task[t].settled

\* How a task may be said to have ended: the agent's own task is in that state,
\* or forgotten; or it failed by a deadline that had passed, not one a resume or
\* a question has replaced since.
Warranted(t, state) ==
  \/ remote[t].state \in {state, "gone"}
  \/ state = "failed" /\ (task[t].tracked => task[t].overdue)

\* What the thread is told of a task's end is so, however old the observation or
\* the sweep it rests on: a task still at work, or that a resume has re-armed
\* since the tick read its row, is not declared failed (failDeadlineExceeded,
\* failTaskNotFound, settleTerminal).
AnswersAreTrue == \A t \in TaskId : answers[t] > 0 => Warranted(t, outcome[t])

\* A settle marks an event responded only for an answer Slack has acknowledged.
RespondedMeansAnswered == \A t \in responded : answers[t] = 1

\* How a task ended is final: an answered task is not retired by a late reply,
\* and a task retired by a reply is not answered by a late observation.
OutcomeIsFinal ==
  [][\A t \in TaskId : outcome[t] # "open" => outcome'[t] = outcome[t]]_vars

-----------------------------------------------------------------------------
(* The inductive invariant: what the properties above rest on.             *)

\* Every actor that works on a task knows which, and what it is to report.
ObserverOK(b) ==
  /\ b.pc \notin {"idle", "sweep", "prune", "report"} => b.task \in TaskId
  /\ b.pc \in {"post", "unsettle"} => b.seen.state \in TerminalStates
  /\ b.pc \in {"ask", "revert"} => b.seen.state = "input-required"

TurnOK(c) ==
  c.pc \in {"record", "rerecord", "resume", "rearm", "retire"} => c.task \in TaskId

ActorsOK ==
  /\ \A o \in Observer : ObserverOK(obs[o])
  /\ \A u \in Turn : TurnOK(turn[u])

Recording(u, t) == turn[u].task = t /\ turn[u].pc \in {"record", "rerecord"}

\* A task is untracked and open until the one turn that sent it records it.
RecordingOK ==
  \A t \in TaskId :
    /\ remote[t].state = "none" => ~task[t].tracked /\ outcome[t] = "open"
    /\ \A u \in Turn : Recording(u, t) =>
         /\ ~task[t].tracked /\ outcome[t] = "open" /\ remote[t].state # "none"
         /\ \A v \in Turn : Recording(v, t) => u = v

\* outcome is a terminal state exactly when the task was answered, once.
AnswersOK ==
  \A t \in TaskId : answers[t] = IF outcome[t] \in TerminalStates THEN 1 ELSE 0

\* Whoever is about to mark the event responded has seen its post acknowledged.
MarksOK ==
  \A o \in Observer :
    obs[o].pc = "mark" \/ (obs[o].pc = "clear" /\ obs[o].seen.state # "input-required")
      => answers[obs[o].task] = 1

IInv ==
  /\ TypeOK /\ ActorsOK
  /\ RecordingOK
  /\ SettlementElection /\ SettledAccounted /\ ClosedStaysClosed
  /\ AnswersOK /\ AnswerMatchesRow
  /\ MarksOK /\ RespondedMeansAnswered

-----------------------------------------------------------------------------
(* The abstract specification this one implements.                         *)

Phase(t) ==
  IF Held(t) THEN "claimed"
  ELSE IF outcome[t] = "open" THEN "pending"
  ELSE IF outcome[t] \in TerminalStates THEN "answered"
  ELSE "closed"

Abstract == INSTANCE TaskAnswer WITH phase <- [t \in TaskId |-> Phase(t)]

\* Every behaviour of pushes, ticks, turns and crashes is one TaskAnswer allows.
ImplementsTaskAnswer == Abstract!Spec

-----------------------------------------------------------------------------
(* Liveness.                                                               *)

\* Time passes, the interval timer fires, the calls a handler has started
\* return, and a Slack or agent outage does not last for ever.
Fairness ==
  /\ \A t \in TaskId : WF_vars(GraceElapses(t)) /\ WF_vars(NextRow(t))
  /\ WF_vars(StartTick) /\ WF_vars(EndSweep) /\ WF_vars(Prune)
  /\ WF_vars(Expire) /\ WF_vars(PollGone) /\ WF_vars(FailLost)
  /\ SF_vars(Poll(Reconciler))
  /\ \A o \in Observer :
       /\ SF_vars(PostAnswer(o)) /\ SF_vars(PostQuestion(o))
       /\ WF_vars(ObserverStep(o))
  /\ \A u \in Turn : WF_vars(Record(u)) /\ WF_vars(Rearm(u))

FairSpec == Spec /\ Fairness

\* A tracked task that ended other than by failing, or that its agent has
\* forgotten, is eventually answered, whatever pushes are lost and posts fail.
DecidedIsAnswered ==
  \A t \in TaskId :
    (task[t].tracked /\ remote[t].state \in {"completed", "canceled", "rejected", "gone"})
      ~> (outcome[t] # "open")

-----------------------------------------------------------------------------
(* What comments and tests of the source say, and the code does not keep.  *)

\* "a later attempt can retry it" (response-finalizer.ts, on unsettle): a task
\* that ended by failing is eventually answered too.
FailedIsAnswered ==
  \A t \in TaskId :
    (task[t].tracked /\ remote[t].state = "failed") ~> (outcome[t] # "open")

\* A row does not stay "stuck at input-required with the question never having
\* reached Slack" (response-finalizer.ts, on the revert).
Unasked(t, r) ==
  /\ task[t].tracked /\ task[t].state = "input-required"
  /\ remote[t].state = "input-required" /\ remote[t].round = r
  /\ asked[t][r] = 0

QuestionReachesSlack ==
  \A t \in TaskId, r \in Rounds : Unasked(t, r) ~> ~Unasked(t, r)

\* A stale "thinking..." indicator "never lingers" (task-progress-status.ts, on
\* clear), and no heartbeat "would resurrect" it after the answer
\* (response-finalizer.ts): with nothing left to do in the thread, it is off.
IndicatorCleared ==
  (/\ \A o \in Observer : obs[o].pc = "idle"
   /\ \A u \in Turn : turn[u].pc = "done"
   /\ \A t \in TaskId : task[t].tracked => task[t].settled
   /\ \E t \in TaskId : answers[t] > 0) => ~thinking
=============================================================================
