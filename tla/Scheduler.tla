------------------------------ MODULE Scheduler ----------------------------
(* The in-memory scheduler (scheduler/scheduler.ts): named tasks that are    *)
(* run every interval until their tick is done or their time is up.  A task  *)
(* is known by its name: the map from names to tasks is `names`, and what    *)
(* the timer callbacks hold on to is the task itself, `runs`.  A module that *)
(* schedules extends this one and says what a tick does.  No caller cancels. *)
EXTENDS Naturals, FiniteSets

CONSTANTS
  Task,         \* what schedule() may be called for, once each
  Name,         \* task names
  NoTask,       \* no entry under a name
  MaxTasks,     \* maxConcurrentTasks
  Interval,     \* intervalMs
  MaxDuration   \* maxDurationMs

ASSUME SchedulerAssumption ==
  /\ NoTask \notin Task
  /\ Name # {}
  /\ MaxTasks \in Nat
  /\ Interval \in Nat \ {0}
  /\ MaxDuration \in Nat

VARIABLES
  names,  \* tasks: Map<string, RunningTask>
  runs    \* per task: its run and its timer

schedulerVars == <<names, runs>>

\* none: not scheduled yet; refused: schedule() returned an error; armed: a
\* timer is set; ticking: in tick(); wrapup: in tick() past the outcome; late:
\* in onTimeout(); ended: nothing will run again.
RunStates == {"none", "refused", "armed", "ticking", "wrapup", "late", "ended"}

Runs == [st : RunStates, name : Name, age : 0..MaxDuration + 1, timer : 0..Interval]

Run(st, name, timer) == [st |-> st, name |-> name, age |-> 0, timer |-> timer]

\* A task without an entry: nothing looks at its name or its times.
Idle(st) == Run(st, CHOOSE n \in Name : TRUE, 0)

SchedulerTypeOK ==
  /\ names \in [Name -> Task \cup {NoTask}]
  /\ runs \in [Task -> Runs]

SchedulerInit ==
  /\ names = [n \in Name |-> NoTask]
  /\ runs = [t \in Task |-> Idle("none")]

Active == {n \in Name : names[n] # NoTask}

\* Only the name is compared, never the task it stands for.
IsRunning(t) == names[runs[t].name] # NoTask

\* schedule(def): a duplicate name or a full scheduler is an error.
Accepts(n) == names[n] = NoTask /\ Cardinality(Active) < MaxTasks

Schedule(t, n) ==
  IF Accepts(n)
  THEN /\ names' = [names EXCEPT ![n] = t]
       /\ runs' = [runs EXCEPT ![t] = Run("armed", n, Interval)]
  ELSE /\ names' = names
       /\ runs' = [runs EXCEPT ![t] = Idle("refused")]

\* schedule(state): the next timer.
ReArm(t) == runs' = [runs EXCEPT ![t].st = "armed", ![t].timer = Interval]

\* transition(state, status): the entry goes, if there is one under the name.
Retire(t, st) ==
  /\ names' = [names EXCEPT ![runs[t].name] = NoTask]
  /\ runs' = [runs EXCEPT ![t] = Idle(st)]

Moves(t, st) == runs' = [runs EXCEPT ![t].st = st] /\ UNCHANGED names

Due(t) == runs[t].st = "armed" /\ runs[t].timer = 0

\* Mutant: a task whose time is up ticks on.
NeverExpired(t) == FALSE

Expired(t) == runs[t].age > MaxDuration

\* run(state) up to its first await: times out and is retired, or ticks.
TimesOut(t) == Due(t) /\ IsRunning(t) /\ Expired(t) /\ Retire(t, "late")

StartsTick(t) == Due(t) /\ IsRunning(t) /\ ~Expired(t) /\ Moves(t, "ticking")

\* tick() was not done, or threw and onError returned: the next interval.
Continues(t) == runs[t].st = "ticking" /\ IsRunning(t) /\ ReArm(t) /\ UNCHANGED names

\* Mutant: a task that is done keeps its entry.
CompletesKept(t) == runs[t].st = "wrapup" /\ IsRunning(t) /\ Moves(t, "ended")

\* tick() was done.
Completes(t) == runs[t].st = "wrapup" /\ IsRunning(t) /\ Retire(t, "ended")

\* onTimeout() returned.
LateEnds(t) == runs[t].st = "late" /\ Moves(t, "ended")

\* Time passes for every task that may still look at it.
Elapse ==
  runs' = [t \in Task |->
    IF runs[t].st \in {"armed", "ticking"}
    THEN [runs[t] EXCEPT
           !.age = IF @ <= MaxDuration THEN @ + 1 ELSE @,
           !.timer = IF @ > 0 THEN @ - 1 ELSE @]
    ELSE runs[t]]

\* Every entry belongs to the one task that is at work under its name, and
\* every task at work has its entry: isRunning's look at the name alone never
\* takes one task for another, and no entry stays behind to use up MaxTasks.
NamesAreLive ==
  /\ \A t \in Task : runs[t].st \in {"armed", "ticking", "wrapup"} => names[runs[t].name] = t
  /\ \A n \in Active :
       runs[names[n]].name = n /\ runs[names[n]].st \in {"armed", "ticking", "wrapup"}
=============================================================================
