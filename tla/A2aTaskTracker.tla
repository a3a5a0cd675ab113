--------------------------- MODULE A2aTaskTracker ---------------------------
(***************************************************************************)
(* The a2a_task table and the statements a2a-task-tracker.ts runs on it.   *)
(* A row keeps what decides who may settle it.  Time is kept as what the   *)
(* statements compare it with: overdue says deadlineAt <= now(), age says  *)
(* how updatedAt compares with the reconciler's grace period ("stale") and *)
(* with the retention period ("old").  A statement runs atomically.        *)
(***************************************************************************)
CONSTANT TaskId

ActiveExecutionStates == {"submitted", "working"}
TerminalStates == {"completed", "failed", "canceled", "rejected"}
TaskStates == ActiveExecutionStates \cup {"input-required"} \cup TerminalStates

Ages == {"fresh", "stale", "old"}

Row == [tracked : BOOLEAN, state : TaskStates, settled : BOOLEAN,
        overdue : BOOLEAN, age : Ages]

\* No row with this taskId is in the table.
Untracked == [tracked |-> FALSE, state |-> "submitted", settled |-> FALSE,
              overdue |-> FALSE, age |-> "fresh"]

\* recordDelegated: INSERT ... ON CONFLICT DO NOTHING; settled defaults to
\* false whatever the state is, and the deadline is armed.
Recorded(row, state) ==
  IF row.tracked THEN row
  ELSE [tracked |-> TRUE, state |-> state, settled |-> FALSE,
        overdue |-> FALSE, age |-> "fresh"]

-----------------------------------------------------------------------------
(* An A2aTaskLifecycle: require is requireCurrentStates ({} when it is     *)
(* omitted), rearm says deadlineAt is given, ifOverdue says                *)
(* ifDeadlineAtOrBefore is.                                                *)
Lifecycle == [state : TaskStates, require : SUBSET TaskStates,
              rearm : BOOLEAN, ifOverdue : BOOLEAN]

To(state) == [state |-> state, require |-> {}, rearm |-> FALSE, ifOverdue |-> FALSE]

ToFrom(state, current) == [To(state) EXCEPT !.require = {current}]

\* The states transitionGuard lets the UPDATE touch.
RequireStates(to) ==
  IF to.require # {} THEN to.require
  ELSE IF to.state \in {"failed", "input-required"} THEN ActiveExecutionStates
  ELSE TaskStates

\* Mutants of Applies: no settled guard; one for terminal transitions only.
AppliesUnguarded(row, to) ==
  row.tracked /\ row.state \in RequireStates(to) /\ (to.ifOverdue => row.overdue)

AppliesToTerminal(row, to) ==
  /\ AppliesUnguarded(row, to)
  /\ to.state \in TerminalStates => ~row.settled

\* The WHERE clause of transition(): whether the UPDATE finds the row.
Applies(row, to) ==
  /\ row.tracked
  /\ ~row.settled
  /\ row.state \in RequireStates(to)
  /\ to.ifOverdue => row.overdue

\* Mutant of Transitioned: settled is never derived from the state.
TransitionedOpen(row, to) ==
  [row EXCEPT !.state = to.state, !.overdue = @ /\ ~to.rearm, !.age = "fresh"]

\* The SET clause of transition(): settled is derived from the new state.
Transitioned(row, to) ==
  [row EXCEPT !.state = to.state,
              !.settled = to.state \in TerminalStates,
              !.overdue = @ /\ ~to.rearm,
              !.age = "fresh"]

\* Mutant of Unsettled: the roll-back is lost.
UnsettledNot(row) == row

\* unsettle(): settled goes back to false, the state stays terminal.
Unsettled(row) ==
  IF row.tracked /\ row.settled
  THEN [row EXCEPT !.settled = FALSE, !.age = "fresh"]
  ELSE row

-----------------------------------------------------------------------------
\* Mutant of FindUnsettled: only the executing rows are reconciled.
FindUnsettledActive(table) ==
  {t \in TaskId : /\ table[t].tracked /\ ~table[t].settled /\ table[t].age # "fresh"
                  /\ table[t].state \in ActiveExecutionStates}

\* findUnsettled(now - grace), without its LIMIT: unsettled rows nothing has
\* updated for the grace period.
FindUnsettled(table) ==
  {t \in TaskId : table[t].tracked /\ ~table[t].settled /\ table[t].age # "fresh"}

\* findActiveInputRequired: the rows of the thread a user's message may resume.
\* The query returns the newest; the table does not order them here.
InputRequired(table) ==
  {t \in TaskId : /\ table[t].tracked
                  /\ ~table[t].settled
                  /\ table[t].state = "input-required"}

\* deleteSettledOlderThan(now - retention).
Pruned(table) ==
  [t \in TaskId |-> IF table[t].settled /\ table[t].age = "old"
                    THEN Untracked ELSE table[t]]
=============================================================================
