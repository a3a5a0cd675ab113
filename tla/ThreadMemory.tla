------------------------------ MODULE ThreadMemory ----------------------------
(***************************************************************************)
(* What the conversation agent promises to remember of a Slack thread, as  *)
(* if each turn read its memory and wrote it in one step: a turn adds its  *)
(* own message and messages it has not passed yet, moves on to its own     *)
(* place and never back, and leaves nobody else's message behind unless it *)
(* says so.                                                                *)
(***************************************************************************)
EXTENDS Naturals, Sequences

CONSTANT MaxTs  \* bound: messages in the thread

VARIABLES
  posts,   \* the authors of the thread's messages, by ts
  memory,  \* [turns, injected, cursor]
  omitted  \* messages a turn knowingly left out

vars == <<posts, memory, omitted>>

Init ==
  /\ posts = <<>>
  /\ memory = [turns |-> {}, injected |-> {}, cursor |-> 0]
  /\ omitted = {}

Post ==
  /\ Len(posts) < MaxTs
  /\ \E author \in {"human", "guest", "own", "other"} : posts' = Append(posts, author)
  /\ UNCHANGED <<memory, omitted>>

\* The messages turn t passes.
Passed(t) == (memory.cursor + 1)..(t - 1)

\* The turn of message t: it hears some of what it passes and leaves out some.
Remember(t) ==
  /\ t \in 1..Len(posts) /\ posts[t] = "human" /\ t \notin memory.turns
  /\ \E heard \in SUBSET Passed(t), left \in SUBSET (1..MaxTs) :
       /\ \A m \in Passed(t) : posts[m] \in {"guest", "other"} => m \in heard \cup left
       /\ memory' = [turns    |-> memory.turns \cup {t},
                     injected |-> memory.injected \cup heard,
                     cursor   |-> IF t > memory.cursor THEN t ELSE memory.cursor]
       /\ omitted' = omitted \cup left
  /\ UNCHANGED posts

Next == Post \/ \E t \in 1..MaxTs : Remember(t)

Spec == Init /\ [][Next]_vars
=============================================================================
