------------------------------ MODULE TaskAnswer ------------------------------
(***************************************************************************)
(* What the bot promises about each request it takes on, a delegated task  *)
(* or a Slack event, whoever observes its end: one claimant at a time      *)
(* tries to post the answer, a failed attempt gives the claim back, and an *)
(* answer acknowledged by Slack, or a request closed without one, is final.*)
(***************************************************************************)
CONSTANT TaskId

VARIABLE phase

Init == phase = [t \in TaskId |-> "pending"]

\* Somebody wins the right to post the answer.
Claim(t) ==
  /\ phase[t] = "pending"
  /\ phase' = [phase EXCEPT ![t] = "claimed"]

Answer(t) ==
  /\ phase[t] = "claimed"
  /\ phase' = [phase EXCEPT ![t] = "answered"]

\* The post failed: anybody may claim the task again.
Release(t) ==
  /\ phase[t] = "claimed"
  /\ phase' = [phase EXCEPT ![t] = "pending"]

\* The bot gives the tasks of S up, or has replaced them: never an answered one.
Close(S) ==
  /\ \A t \in S : phase[t] \in {"pending", "claimed"}
  /\ phase' = [t \in TaskId |-> IF t \in S THEN "closed" ELSE phase[t]]

Next ==
  \/ \E t \in TaskId : Claim(t) \/ Answer(t) \/ Release(t)
  \/ \E S \in SUBSET TaskId : Close(S)

Spec == Init /\ [][Next]_phase
=============================================================================
