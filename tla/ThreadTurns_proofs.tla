------------------------- MODULE ThreadTurns_proofs -------------------------
(* Proofs about ThreadTurns, for any number of messages and turns, any       *)
(* limits and any faults.                                                    *)
EXTENDS ThreadTurns, WellFoundedInduction, TLAPS

USE BoundsAssumption

\* The call of a turn is in the queue, waiting or running.
Live(t) == turn[t].pc = "queued" \/ Running(t)

\* It waits for another one.
Waits(t) == turn[t].pc = "queued" /\ prior[t] # 0 /\ Live(prior[t])

\* Only queued calls have somebody to wait for, who has been queued before.
PriorsQueued ==
  \A t \in Ts :
    /\ turn[t].pc # "queued" => prior[t] = 0
    /\ prior[t] # 0 => Live(prior[t]) \/ Settled(prior[t])

\* Nobody is waited for twice.
PriorsDiffer == \A t, u \in Ts : prior[t] # 0 /\ prior[t] = prior[u] => t = u

\* Of the calls in the queue one at most waits for nobody: the next to run.
OneHead == \A t, u \in Ts : Live(t) /\ Live(u) /\ ~Waits(t) /\ ~Waits(u) => t = u

\* And the waiting goes in no circle.
NoCircle ==
  \A S \in SUBSET Ts :
    S # {} /\ (\A t \in S : Live(t)) => \E t \in S : prior[t] \notin S

\* The Map entry is a call's that is in the queue.
TailLive == tail # 0 => Live(tail)

QueueInv == TailLive /\ PriorsQueued /\ PriorsDiffer /\ EntryIsLast /\ OneHead /\ NoCircle

Stranger(m) == posts[m] \in {"other", "guest"}

\* Turns are for the messages of people, and only turns are in flight.
TurnsAreHuman ==
  /\ \A t \in Ts : turn[t].pc # "none" => t <= Len(posts) /\ posts[t] = "human"
  /\ \A t \in inFlight : turn[t].pc # "none"

\* What a turn knows at each await, next to the thread's checkpoint.
ContextOK(t) ==
  /\ turn[t].pc \notin {"fetch", "invoke", "write"} => ctx[t] = EmptyContext
  /\ turn[t].pc = "fetch" => ctx[t].cursor = checkpoint.cursor /\ ctx[t].inject = {}
  /\ turn[t].pc \in {"invoke", "write"} =>
       /\ ctx[t].max < t
       /\ \A m \in ctx[t].inject : checkpoint.cursor < m /\ m <= ctx[t].max
       /\ \A m \in Ts : checkpoint.cursor < m /\ m < t /\ Stranger(m) =>
            m \in ctx[t].inject \cup ctx[t].omit
  /\ turn[t].pc = "write" => turn[t].base = checkpoint

\* The cursor is past all the checkpoint holds, and at a message.
CursorOK ==
  /\ \A m \in checkpoint.turns \cup checkpoint.injected : m <= checkpoint.cursor
  /\ checkpoint.cursor <= Len(posts)

AgentInv ==
  TurnsAreHuman /\ (\A t \in Ts : ContextOK(t)) /\ CursorOK /\ StrangersReachAgent

IInv == TypeOK /\ QueueInv /\ AgentInv

-----------------------------------------------------------------------------
(* Data.                                                                   *)

LEMMA Bounds == MaxTs \in Nat /\ Turns \in Nat /\ 0 \notin Ts
BY DEF Ts

LEMMA MaxBounded ==
  ASSUME NEW S \in SUBSET (0..MaxTs), S # {}
  PROVE  Max(S) \in S /\ \A y \in S : y <= Max(S)
<1> DEFINE T == {MaxTs - x : x \in S}
<1>1. T \subseteq Nat /\ T # {}
  <2>1. \A x \in S : MaxTs - x \in Nat
    BY Bounds
  <2>2. PICK x \in S : TRUE
    OBVIOUS
  <2>3. MaxTs - x \in T
    BY <2>2
  <2>4. T \subseteq Nat
    BY <2>1
  <2>5. QED BY <2>3, <2>4
<1>2. PICK z \in T : \A y \in T : ~(<<y, z>> \in OpToRel(<, Nat))
  BY <1>1, NatLessThanWellFounded, WFMin
<1>3. \A y \in T : ~(y < z)
  BY <1>1, <1>2 DEF OpToRel
<1>4. PICK x \in S : z = MaxTs - x
  OBVIOUS
<1>5. ASSUME NEW y \in S
      PROVE  x >= y
  <2>1. MaxTs - y \in T
    OBVIOUS
  <2>2. ~(MaxTs - y < MaxTs - x)
    BY <2>1, <1>3, <1>4
  <2>3. QED BY <2>2, Bounds
<1>6. Max(S) \in S /\ \A y \in S : Max(S) >= y
  BY <1>5 DEF Max
<1>7. QED BY <1>6

LEMMA EmptyTyped ==
  /\ Empty \in Checkpoint
  /\ EmptyContext \in Context
  /\ EmptyContext.inject = {}
BY DEF Empty, EmptyContext, Checkpoint, Context

\* The messages there were keep their authors.
Grows ==
  /\ posts' \in Seq(Author) /\ Len(posts') <= MaxTs
  /\ Len(posts) <= Len(posts')
  /\ \A m \in 1..Len(posts) : posts'[m] = posts[m]

LEMMA AppendGrows ==
  ASSUME TypeOK, Room, NEW a \in Author, posts' = Append(posts, a)
  PROVE  Grows /\ Len(posts') = Len(posts) + 1 /\ posts'[Len(posts) + 1] = a
BY DEF TypeOK, Room, Grows

LEMMA PostedGrows ==
  ASSUME TypeOK, posts' = posts \/ posts' = Posted("own")
  PROVE  Grows
<1>1. CASE posts' = posts
  BY <1>1 DEF TypeOK, Grows
<1>2. CASE posts' = Posted("own") /\ Room
  BY <1>2, AppendGrows DEF Posted, Author
<1>3. CASE posts' = Posted("own") /\ ~Room
  BY <1>3 DEF TypeOK, Grows, Posted
<1>4. QED BY <1>1, <1>2, <1>3

\* What Goto does to a turn.
LEMMA GotoMoves ==
  ASSUME TypeOK, NEW t \in Ts, NEW pc \in TurnPC, Goto(t, pc)
  PROVE  /\ turn' \in [Ts -> [pc : TurnPC, base : Checkpoint]]
         /\ turn'[t].pc = pc /\ turn'[t].base = turn[t].base
         /\ \A u \in Ts \ {t} : turn'[u] = turn[u]
<1>1. turn[t] \in [pc : TurnPC, base : Checkpoint]
  BY DEF TypeOK
<1>2. [turn[t] EXCEPT !.pc = pc] \in [pc : TurnPC, base : Checkpoint]
      /\ [turn[t] EXCEPT !.pc = pc].pc = pc /\ [turn[t] EXCEPT !.pc = pc].base = turn[t].base
  BY <1>1
<1>3. turn' = [turn EXCEPT ![t] = [turn[t] EXCEPT !.pc = pc]]
  BY DEF Goto, TypeOK
<1>4. QED BY <1>2, <1>3 DEF TypeOK

-----------------------------------------------------------------------------
(* The queue.                                                              *)

\* Steps that leave the queue alone.
LEMMA QueueStays ==
  ASSUME TypeOK, QueueInv, QueueUnchanged,
         \A t \in Ts : /\ turn'[t].pc = "queued" <=> turn[t].pc = "queued"
                       /\ Running(t)' <=> Running(t)
                       /\ Settled(t) => Settled(t)'
  PROVE  QueueInv'
<1> USE DEF QueueUnchanged
<1>1. \A t \in Ts : Live(t)' <=> Live(t)
  BY DEF Live
<1>2. \A t \in Ts : prior[t] # 0 => prior[t] \in Ts
  BY Bounds DEF TypeOK, Ts
<1>3. \A t \in Ts : Waits(t)' <=> Waits(t)
  BY <1>1, <1>2 DEF Waits
<1>4. PriorsQueued'
  BY <1>1, <1>2 DEF QueueInv, PriorsQueued
<1>5. PriorsDiffer'
  BY DEF QueueInv, PriorsDiffer
<1>6. EntryIsLast'
  BY DEF QueueInv, EntryIsLast
<1>7. OneHead'
  BY <1>1, <1>3 DEF QueueInv, OneHead
<1>8. NoCircle'
  BY <1>1 DEF QueueInv, NoCircle
<1>9. TailLive'
  <2>1. tail # 0 => tail \in Ts
    BY Bounds DEF TypeOK, Ts
  <2>2. QED BY <1>1, <2>1 DEF QueueInv, TailLive
<1>10. QED BY <1>4, <1>5, <1>6, <1>7, <1>8, <1>9 DEF QueueInv

LEMMA EnqueueKeepsQueue ==
  ASSUME TypeOK, QueueInv, NEW t \in Ts, Enqueue(t)
  PROVE  QueueInv'
<1>1. turn[t].pc = "images" /\ ~Live(t) /\ ~Settled(t)
  BY DEF Enqueue, Live, Running, Settled
<1>2. turn'[t].pc = "queued" /\ \A u \in Ts \ {t} : turn'[u] = turn[u]
  BY GotoMoves DEF Enqueue, TurnPC
<1>3. tail' = t /\ prior'[t] = tail /\ \A u \in Ts \ {t} : prior'[u] = prior[u]
  BY DEF Enqueue, TypeOK
<1>4. Live(t)' /\ \A u \in Ts \ {t} : /\ Live(u)' <=> Live(u)
                                      /\ Settled(u)' <=> Settled(u)
                                      /\ turn'[u].pc = "queued" <=> turn[u].pc = "queued"
  BY <1>2 DEF Live, Running, Settled
<1>5. t # 0 /\ (tail # 0 => tail \in Ts) /\ \A u \in Ts : prior[u] # 0 => prior[u] \in Ts
  BY Bounds DEF TypeOK, Ts
<1>6. tail # 0 => Live(tail) /\ tail # t
  BY <1>1 DEF QueueInv, TailLive
<1>7. \A u \in Ts : prior[u] # t
  BY <1>1, <1>5 DEF QueueInv, PriorsQueued
<1>8. prior[t] = 0
  BY <1>1 DEF QueueInv, PriorsQueued
<1>9. TailLive'
  BY <1>3, <1>4 DEF TailLive
<1>10. PriorsQueued'
  BY <1>1, <1>2, <1>3, <1>4, <1>5, <1>6, <1>7 DEF QueueInv, PriorsQueued
<1>11. tail # 0 => \A u \in Ts : prior[u] # tail
  BY <1>5, <1>6 DEF QueueInv, EntryIsLast, Live
<1>12. PriorsDiffer'
  BY <1>3, <1>5, <1>8, <1>11 DEF QueueInv, PriorsDiffer
<1>13. EntryIsLast'
  <2>1. \A u \in Ts : turn'[u].pc = "queued" \/ Running(u)' <=> Live(u)'
    BY DEF Live
  <2>2. \A u \in Ts : Live(u) => (u = tail) = (\A v \in Ts : prior[v] # u)
    BY DEF QueueInv, EntryIsLast, Live
  <2>3. ASSUME NEW u \in Ts, Live(u)'
        PROVE  (u = t) = (\A v \in Ts : prior'[v] # u)
    <3>1. CASE u = t
      BY <3>1, <1>1, <1>3, <1>6, <1>7, <1>5
    <3>2. CASE u # t
      <4>1. Live(u) /\ u # 0
        BY <2>3, <3>2, <1>4, Bounds
      <4>2. CASE u = tail
        BY <3>2, <4>2, <1>3
      <4>3. CASE u # tail
        <5>1. PICK v \in Ts : prior[v] = u
          BY <4>1, <4>3, <2>2
        <5>2. prior'[v] = u
          BY <5>1, <4>1, <1>3, <1>8
        <5>3. QED BY <3>2, <5>2
      <4>4. QED BY <4>2, <4>3
    <3>3. QED BY <3>1, <3>2
  <2>4. tail' # 0 /\ Live(t)'
    BY <1>3, <1>4, <1>5
  <2>5. QED BY <2>1, <2>3, <2>4, <1>3 DEF EntryIsLast
<1>14. OneHead'
  <2>1. \A u \in Ts \ {t} : Waits(u)' <=> Waits(u)
    BY <1>3, <1>4, <1>5, <1>7 DEF Waits
  <2>2. CASE tail = 0
    <3>1. \A u \in Ts : ~Live(u)
      BY <2>2 DEF QueueInv, EntryIsLast, Live
    <3>2. QED BY <3>1, <1>4 DEF OneHead
  <2>3. CASE tail # 0
    <3>1. Waits(t)'
      BY <2>3, <1>2, <1>3, <1>4, <1>5, <1>6 DEF Waits
    <3>2. QED BY <3>1, <2>1, <1>4 DEF QueueInv, OneHead
  <2>4. QED BY <2>2, <2>3
<1>15. NoCircle'
  <2> SUFFICES ASSUME NEW S \in SUBSET Ts, S # {}, \A u \in S : Live(u)'
               PROVE  \E u \in S : prior'[u] \notin S
    BY DEF NoCircle
  <2>1. CASE S = {t}
    BY <2>1, <1>3, <1>5, <1>6
  <2>2. CASE S # {t}
    <3> DEFINE R == S \ {t}
    <3>1. R # {} /\ R \in SUBSET Ts /\ \A u \in R : Live(u)
      BY <2>2, <1>4
    <3>2. PICK u \in R : prior[u] \notin R
      BY <3>1 DEF QueueInv, NoCircle
    <3>3. prior'[u] \notin S
      BY <3>2, <1>3, <1>7
    <3>4. QED BY <3>2, <3>3
  <2>3. QED BY <2>1, <2>2
<1>16. QED BY <1>9, <1>10, <1>12, <1>13, <1>14, <1>15 DEF QueueInv

LEMMA StartKeepsQueue ==
  ASSUME TypeOK, QueueInv, NEW t \in Ts, Start(t)
  PROVE  QueueInv'
<1>1. turn[t].pc = "queued" /\ (prior[t] # 0 => Settled(prior[t])) /\ tail' = tail
  BY DEF Start
<1>2. turn'[t].pc = "sync" /\ \A u \in Ts \ {t} : turn'[u] = turn[u]
  BY GotoMoves DEF Start, TurnPC
<1>3. prior'[t] = 0 /\ \A u \in Ts \ {t} : prior'[u] = prior[u]
  BY DEF Start, TypeOK
<1>4. \A u \in Ts : /\ Live(u)' <=> Live(u)
                    /\ Settled(u)' <=> Settled(u)
                    /\ u # t => (turn'[u].pc = "queued" <=> turn[u].pc = "queued")
  BY <1>1, <1>2 DEF Live, Running, Settled
<1>5. (tail # 0 => tail \in Ts) /\ \A u \in Ts : prior[u] # 0 => prior[u] \in Ts
  BY Bounds DEF TypeOK, Ts
<1>6. Live(t) /\ \A u \in Ts : Settled(u) => ~Live(u)
  BY <1>1 DEF Live, Running, Settled
<1>7. TailLive'
  BY <1>1, <1>4, <1>5 DEF QueueInv, TailLive
<1>8. PriorsQueued'
  BY <1>2, <1>3, <1>4, <1>5 DEF QueueInv, PriorsQueued
<1>9. PriorsDiffer'
  BY <1>3 DEF QueueInv, PriorsDiffer
<1>10. EntryIsLast'
  <2>1. \A u \in Ts : (turn'[u].pc = "queued" \/ Running(u)' <=> Live(u)')
                      /\ (turn[u].pc = "queued" \/ Running(u) <=> Live(u))
    BY DEF Live
  <2>2. \A u \in Ts : Live(u) => ((\A v \in Ts : prior'[v] # u) <=> (\A v \in Ts : prior[v] # u))
    BY <1>1, <1>3, <1>5, <1>6, Bounds
  <2>3. QED BY <2>1, <2>2, <1>1, <1>4 DEF QueueInv, EntryIsLast
<1>11. OneHead'
  <2>1. \A u \in Ts : Waits(u)' <=> Waits(u)
    BY <1>1, <1>2, <1>3, <1>4, <1>5, <1>6 DEF Waits
  <2>2. QED BY <2>1, <1>4 DEF QueueInv, OneHead
<1>12. NoCircle'
  <2> SUFFICES ASSUME NEW S \in SUBSET Ts, S # {}, \A u \in S : Live(u)'
               PROVE  \E u \in S : prior'[u] \notin S
    BY DEF NoCircle
  <2>1. PICK u \in S : prior[u] \notin S
    BY <1>4 DEF QueueInv, NoCircle
  <2>2. prior'[u] \notin S
    BY <2>1, <1>3, Bounds
  <2>3. QED BY <2>2
<1>13. QED BY <1>7, <1>8, <1>9, <1>10, <1>11, <1>12 DEF QueueInv

\* What Leave does to a turn.
LEMMA LeaveMoves ==
  ASSUME TypeOK, NEW t \in Ts, NEW pc \in TurnPC, Leave(t, pc)
  PROVE  /\ turn' \in [Ts -> [pc : TurnPC, base : Checkpoint]]
         /\ turn'[t].pc = pc
         /\ \A u \in Ts \ {t} : turn'[u] = turn[u]
         /\ ctx' \in [Ts -> Context]
         /\ ctx'[t] = EmptyContext
         /\ \A u \in Ts \ {t} : ctx'[u] = ctx[u]
         /\ tail' \in 0..MaxTs /\ prior' = prior
BY EmptyTyped, Bounds DEF Leave, TypeOK

LEMMA LeaveKeepsQueue ==
  ASSUME TypeOK, QueueInv, NEW t \in Ts, Running(t),
         NEW pc \in {"reply", "quiet", "fail"}, Leave(t, pc)
  PROVE  QueueInv'
<1>1. Live(t) /\ turn[t].pc # "queued" /\ ~Waits(t) /\ prior[t] = 0
  BY DEF Live, Running, Waits, QueueInv, PriorsQueued
<1>2. turn'[t].pc = pc /\ \A u \in Ts \ {t} : turn'[u] = turn[u]
  BY LeaveMoves DEF TurnPC
<1>3. prior' = prior /\ tail' = IF tail = t THEN 0 ELSE tail
  BY DEF Leave
<1>4. /\ ~Live(t)' /\ Settled(t)' /\ turn'[t].pc # "queued"
      /\ \A u \in Ts \ {t} : /\ Live(u)' <=> Live(u)
                             /\ Settled(u)' <=> Settled(u)
                             /\ turn'[u].pc = "queued" <=> turn[u].pc = "queued"
  BY <1>2 DEF Live, Running, Settled
<1>5. (tail # 0 => tail \in Ts) /\ t # 0 /\ \A u \in Ts : prior[u] # 0 => prior[u] \in Ts
  BY Bounds DEF TypeOK, Ts
<1>6. \A u \in Ts : Live(u) /\ ~Waits(u) => u = t
  BY <1>1 DEF QueueInv, OneHead
<1>7. TailLive'
  BY <1>3, <1>4, <1>5 DEF QueueInv, TailLive
<1>8. PriorsQueued'
  BY <1>1, <1>3, <1>4, <1>5 DEF QueueInv, PriorsQueued
<1>9. PriorsDiffer'
  BY <1>3 DEF QueueInv, PriorsDiffer
<1>10. \A u \in Ts : Live(u) => ((u = tail) <=> (\A v \in Ts : prior[v] # u))
  BY DEF QueueInv, EntryIsLast, Live
<1>11. tail = t => \A u \in Ts : Live(u) => u = t
  <2> SUFFICES ASSUME tail = t, NEW w \in Ts, Live(w), w # t PROVE FALSE
    OBVIOUS
  <2> DEFINE S == {u \in Ts \ {t} : Live(u)}
  <2>1. S # {} /\ S \in SUBSET Ts /\ \A u \in S : Live(u)
    OBVIOUS
  <2>2. PICK u \in S : prior[u] \notin S
    BY <2>1 DEF QueueInv, NoCircle
  <2>3. Waits(u)
    BY <2>2, <1>6
  <2>4. prior[u] = t
    BY <2>2, <2>3, <1>5 DEF Waits
  <2>5. QED BY <2>2, <2>4, <1>1, <1>10
<1>12. tail # t => tail # 0 /\ Live(tail)'
  <2>1. tail # 0
    BY <1>1 DEF QueueInv, EntryIsLast, Live
  <2>2. tail \in Ts /\ Live(tail)
    BY <2>1, <1>5 DEF QueueInv, TailLive
  <2>3. QED BY <2>1, <2>2, <1>3, <1>4
<1>13. EntryIsLast'
  <2>1. \A u \in Ts : turn'[u].pc = "queued" \/ Running(u)' <=> Live(u)'
    BY DEF Live
  <2>2. tail' = 0 <=> \A u \in Ts : ~Live(u)'
    BY <1>3, <1>4, <1>5, <1>11, <1>12
  <2>3. \A u \in Ts : Live(u)' => Live(u) /\ u # t
    BY <1>4
  <2>4. \A u \in Ts : Live(u)' => ((u = tail') <=> (\A v \in Ts : prior'[v] # u))
    BY <2>3, <1>3, <1>10, <1>11
  <2>5. QED BY <2>1, <2>2, <2>4 DEF EntryIsLast
<1>14. OneHead'
  <2>1. \A u \in Ts \ {t} : Live(u)' /\ ~Waits(u)' => prior[u] = t
    BY <1>3, <1>4, <1>5, <1>6 DEF Waits
  <2>2. QED BY <2>1, <1>4, <1>5 DEF QueueInv, PriorsDiffer, OneHead
<1>15. NoCircle'
  <2> SUFFICES ASSUME NEW S \in SUBSET Ts, S # {}, \A u \in S : Live(u)'
               PROVE  \E u \in S : prior'[u] \notin S
    BY DEF NoCircle
  <2>1. \A u \in S : Live(u)
    BY <1>4
  <2>2. QED BY <2>1, <1>3 DEF QueueInv, NoCircle
<1>16. QED BY <1>7, <1>8, <1>9, <1>13, <1>14, <1>15 DEF QueueInv

\* Only one turn is between its cursor and its checkpoint.
LEMMA Alone ==
  ASSUME QueueInv, NEW t \in Ts, NEW u \in Ts, Running(t), Running(u)
  PROVE  t = u
BY DEF QueueInv, OneHead, Live, Waits, Running

-----------------------------------------------------------------------------
(* Steps that leave the agent's state alone.                               *)

AtAgent == {"fetch", "invoke", "write"}

\* A turn stays where it is, or moves between awaits that have no context.
LEMMA AgentStays ==
  ASSUME TypeOK, AgentInv, Grows, TurnsAreHuman', UNCHANGED <<ctx, checkpoint, omitted>>,
         \A u \in Ts : turn'[u] = turn[u] \/ {turn[u].pc, turn'[u].pc} \cap AtAgent = {}
  PROVE  AgentInv'
<1>1. Ts = 1..MaxTs /\ Len(posts) \in Nat /\ checkpoint.cursor \in Nat /\ Len(posts') \in Nat
  BY Bounds DEF Ts, TypeOK, Checkpoint, Grows
<1>2. \A m \in Ts : m <= Len(posts) => (Stranger(m)' <=> Stranger(m)) /\ posts'[m] = posts[m]
  BY <1>1 DEF Grows, Stranger
<1>3. CursorOK'
  BY <1>1 DEF AgentInv, CursorOK, Grows
<1>4. StrangersReachAgent'
  BY <1>1, <1>2 DEF AgentInv, CursorOK, StrangersReachAgent, Stranger
<1>5. ASSUME NEW u \in Ts
      PROVE  ContextOK(u)'
  <2>1. CASE turn'[u].pc \notin AtAgent
    BY <2>1 DEF AgentInv, ContextOK, AtAgent
  <2>2. CASE turn'[u].pc \in AtAgent
    <3>1. turn'[u] = turn[u] /\ turn[u].pc # "none"
      BY <2>2 DEF AtAgent
    <3>2. u <= Len(posts) /\ \A m \in Ts : m < u => m <= Len(posts)
      BY <3>1, <1>1 DEF AgentInv, TurnsAreHuman
    <3>3. QED BY <2>2, <3>1, <3>2, <1>2 DEF AgentInv, ContextOK, AtAgent
  <2>3. QED BY <2>1, <2>2
<1>6. QED BY <1>3, <1>4, <1>5 DEF AgentInv

\* A turn that exists already goes on.
LEMMA HumansStay ==
  ASSUME TypeOK, AgentInv, Grows, NEW t \in Ts, turn[t].pc # "none",
         \A u \in Ts \ {t} : turn'[u] = turn[u],
         turn'[t].pc # "none", inFlight' \subseteq inFlight \cup {t}
  PROVE  TurnsAreHuman'
<1>1. Len(posts) \in Nat /\ Len(posts') \in Nat /\ Ts = 1..MaxTs /\ inFlight \subseteq Ts
  BY DEF TypeOK, Ts, Grows
<1>2. \A u \in Ts : turn'[u].pc # "none" => turn[u].pc # "none"
  OBVIOUS
<1>3. \A u \in Ts : turn[u].pc # "none" => u <= Len(posts') /\ posts'[u] = "human"
  BY <1>1, Bounds DEF AgentInv, TurnsAreHuman, Grows
<1>4. \A u \in inFlight' : turn'[u].pc # "none"
  BY <1>1 DEF AgentInv, TurnsAreHuman
<1>5. QED BY <1>2, <1>3, <1>4 DEF TurnsAreHuman

LEMMA PostsStay == ASSUME TypeOK, posts' = posts PROVE Grows
BY PostedGrows

LEMMA ThreadKeeps ==
  ASSUME IInv, HumanPosts \/ OtherBotPosts \/ TaskPosts
  PROVE  IInv'
<1> USE DEF IInv
<1>0. Ts = 1..MaxTs /\ Len(posts) \in Nat /\ Len(posts) + 1 \in Ts
  BY Bounds DEF TypeOK, Ts, Room, HumanPosts, OtherBotPosts, TaskPosts
<1>1. QueueUnchanged /\ AgentUnchanged /\ inFlight' = inFlight
  BY DEF HumanPosts, OtherBotPosts, TaskPosts
<1>2. Grows
  BY AppendGrows DEF HumanPosts, OtherBotPosts, TaskPosts, Author
<1>3. CASE turn' = turn
  <2>1. TypeOK'
    BY <1>1, <1>2, <1>3 DEF TypeOK, QueueUnchanged, AgentUnchanged, Grows
  <2>2. QueueInv'
    BY <1>1, <1>3, QueueStays DEF Running, Settled
  <2>3. TurnsAreHuman'
    <3>1. \A u \in Ts : turn[u].pc # "none" => u <= Len(posts') /\ posts'[u] = "human"
      BY <1>0, <1>2 DEF Grows, AgentInv, TurnsAreHuman
    <3>2. QED BY <3>1, <1>1, <1>3 DEF AgentInv, TurnsAreHuman
  <2>4. AgentInv'
    BY <2>3, <1>1, <1>2, <1>3, AgentStays DEF AgentUnchanged
  <2>5. QED BY <2>1, <2>2, <2>4
<1>4. CASE turn' # turn
  <2> DEFINE t == Len(posts) + 1
  <2>1. posts' = Append(posts, "human") /\ Goto(t, "dispatch") /\ Room
    BY <1>4 DEF HumanPosts, OtherBotPosts, TaskPosts
  <2>2. turn[t].pc = "none"
    BY <1>0 DEF AgentInv, TurnsAreHuman
  <2>3. /\ turn' \in [Ts -> [pc : TurnPC, base : Checkpoint]]
        /\ turn'[t].pc = "dispatch" /\ \A u \in Ts \ {t} : turn'[u] = turn[u]
    BY <1>0, <2>1, GotoMoves DEF TurnPC
  <2>4. Len(posts') = t /\ posts'[t] = "human"
    BY <2>1, AppendGrows DEF Author
  <2>5. TypeOK'
    BY <1>1, <1>2, <2>3 DEF TypeOK, QueueUnchanged, AgentUnchanged, Grows
  <2>6. QueueInv'
    BY <1>1, <2>2, <2>3, QueueStays DEF Running, Settled
  <2>7. TurnsAreHuman'
    <3>1. \A u \in Ts \ {t} : turn[u].pc # "none" => u <= Len(posts') /\ posts'[u] = "human"
      BY <1>0, <1>2, <2>4 DEF AgentInv, TurnsAreHuman, Grows
    <3>2. \A u \in inFlight : u \in Ts /\ u # t
      BY <2>2 DEF AgentInv, TurnsAreHuman, TypeOK
    <3>3. QED BY <3>1, <3>2, <2>3, <2>4, <1>0, <1>1 DEF AgentInv, TurnsAreHuman
  <2>8. AgentInv'
    BY <2>2, <2>3, <2>7, <1>1, <1>2, AgentStays DEF AgentUnchanged, AtAgent
  <2>9. QED BY <2>5, <2>6, <2>8
<1>5. QED BY <1>3, <1>4

\* A turn moves on outside the queued call.
LEMMA OutsideKeeps ==
  ASSUME IInv, NEW t \in Ts, NEW pc \in TurnPC,
         posts' = posts \/ posts' = Posted("own"),
         Goto(t, pc), QueueUnchanged, UNCHANGED <<ctx, checkpoint, omitted>>,
         delegated' = delegated, replies' \subseteq Ts,
         inFlight' \subseteq inFlight \cup {t},
         turn[t].pc \notin {"none", "queued"}, ~Running(t),
         pc \notin {"none", "queued", "sync", "fetch", "invoke", "write"},
         Settled(t) => pc \in {"finish", "fail", "done"}
  PROVE  IInv'
<1>1. /\ turn' \in [Ts -> [pc : TurnPC, base : Checkpoint]]
      /\ turn'[t].pc = pc /\ \A u \in Ts \ {t} : turn'[u] = turn[u]
  BY GotoMoves DEF IInv
<1>2. Grows
  BY PostedGrows DEF IInv
<1>3. TypeOK'
  BY <1>1, <1>2 DEF IInv, TypeOK, QueueUnchanged, Grows
<1>4. QueueInv'
  BY <1>1, QueueStays DEF IInv, Running, Settled
<1>5. TurnsAreHuman'
  BY <1>1, <1>2, HumansStay DEF IInv
<1>6. AgentInv'
  BY <1>1, <1>2, <1>5, AgentStays DEF IInv, AtAgent, Running
<1>7. QED BY <1>3, <1>4, <1>6 DEF IInv

LEMMA DispatchKeeps ==
  ASSUME IInv, NEW t \in Ts, Begin(t) \/ ResumeEnds(t) \/ ImagesFail(t)
  PROVE  IInv'
<1>1. PICK pc \in {"images", "resume", "finish", "fail"} :
        Goto(t, pc) /\ (pc \in {"images", "resume"} => turn[t].pc = "dispatch")
  BY DEF Begin, ResumeEnds, ImagesFail, Goto
<1>2. /\ posts' = posts /\ QueueUnchanged /\ AgentUnchanged
      /\ inFlight' \subseteq inFlight \cup {t}
      /\ turn[t].pc \in {"dispatch", "resume", "images"}
  BY DEF Begin, ResumeEnds, ImagesFail
<1>3. replies' \subseteq Ts
  BY <1>2 DEF AgentUnchanged, IInv, TypeOK
<1>4. QED BY <1>1, <1>2, <1>3, OutsideKeeps DEF AgentUnchanged, TurnPC, Running, Settled

LEMMA EndKeeps ==
  ASSUME IInv, NEW t \in Ts, Reply(t) \/ ReplyQuietly(t) \/ TellFailure(t) \/ Finish(t)
  PROVE  IInv'
<1>1. PICK pc \in {"finish", "fail", "done"} : Goto(t, pc)
  BY DEF Reply, ReplyQuietly, TellFailure, Finish
<1>2. /\ posts' = posts \/ posts' = Posted("own")
      /\ QueueUnchanged /\ UNCHANGED <<ctx, checkpoint, omitted, delegated>>
      /\ inFlight' \subseteq inFlight \cup {t}
      /\ turn[t].pc \in {"reply", "quiet", "fail", "finish"}
  BY DEF Reply, ReplyQuietly, TellFailure, Finish, AgentUnchanged
<1>3. replies' \subseteq Ts
  BY DEF Reply, ReplyQuietly, TellFailure, Finish, AgentUnchanged, IInv, TypeOK
<1>4. QED BY <1>1, <1>2, <1>3, OutsideKeeps DEF TurnPC, Running, Settled

LEMMA QueueKeeps ==
  ASSUME IInv, NEW t \in Ts, Enqueue(t) \/ Start(t)
  PROVE  IInv'
<1>1. PICK pc \in {"queued", "sync"} : Goto(t, pc)
  BY DEF Enqueue, Start
<1>2. /\ turn' \in [Ts -> [pc : TurnPC, base : Checkpoint]]
      /\ turn'[t].pc = pc /\ \A u \in Ts \ {t} : turn'[u] = turn[u]
  BY <1>1, GotoMoves DEF IInv, TurnPC
<1>3. /\ posts' = posts /\ inFlight' = inFlight /\ AgentUnchanged
      /\ turn[t].pc \in {"images", "queued"}
  BY DEF Enqueue, Start
<1>4. Grows
  BY <1>3, PostsStay DEF IInv
<1>5. prior' \in [Ts -> 0..MaxTs] /\ tail' \in 0..MaxTs
  BY Bounds DEF IInv, TypeOK, Ts, Enqueue, Start
<1>6. TypeOK'
  BY <1>2, <1>3, <1>5 DEF IInv, TypeOK, AgentUnchanged
<1>7. QueueInv'
  BY EnqueueKeepsQueue, StartKeepsQueue DEF IInv
<1>8. TurnsAreHuman'
  BY <1>2, <1>3, <1>4, HumansStay DEF IInv
<1>9. AgentInv'
  BY <1>2, <1>3, <1>4, <1>8, AgentStays DEF IInv, AgentUnchanged, AtAgent
<1>10. QED BY <1>6, <1>7, <1>9 DEF IInv

-----------------------------------------------------------------------------
(* The queued call.                                                        *)

\* A step of the running turn that stays in the queue.
LEMMA RunningKeeps ==
  ASSUME IInv, NEW t \in Ts, Running(t),
         /\ turn' \in [Ts -> [pc : TurnPC, base : Checkpoint]]
         /\ turn'[t].pc \in AtAgent /\ \A u \in Ts \ {t} : turn'[u] = turn[u],
         ctx' \in [Ts -> Context], \A u \in Ts \ {t} : ctx'[u] = ctx[u],
         UNCHANGED <<posts, inFlight, checkpoint, delegated, replies, omitted>>,
         QueueUnchanged, ContextOK(t)'
  PROVE  IInv'
<1>1. TypeOK'
  BY DEF IInv, TypeOK, QueueUnchanged
<1>2. QueueInv'
  BY QueueStays DEF IInv, Running, Settled, AtAgent
<1>3. TurnsAreHuman'
  BY PostsStay, HumansStay DEF IInv, Running, AtAgent
<1>4. \A u \in Ts : ContextOK(u)'
  BY DEF IInv, AgentInv, ContextOK, Stranger
<1>5. CursorOK' /\ StrangersReachAgent'
  BY DEF IInv, AgentInv, CursorOK, StrangersReachAgent
<1>6. QED BY <1>1, <1>2, <1>3, <1>4, <1>5 DEF IInv, AgentInv

\* A turn that injects nothing leaves out all since the cursor.
LEMMA NothingOK ==
  ASSUME IInv, NEW t \in Ts
  PROVE  /\ Nothing(t) \in Context
         /\ Nothing(t).inject = {} /\ Nothing(t).max < t
         /\ \A m \in Ts : checkpoint.cursor < m /\ m < t => m \in Nothing(t).omit
<1>1. Ts = 1..MaxTs /\ checkpoint.cursor \in Nat
  BY DEF Ts, IInv, TypeOK, Checkpoint
<1>2. (checkpoint.cursor + 1)..(t - 1) \in SUBSET Ts
  BY <1>1, Bounds
<1>3. /\ Nothing(t) \in Context /\ Nothing(t).omit = (checkpoint.cursor + 1)..(t - 1)
      /\ Nothing(t).inject = {} /\ Nothing(t).max = 0
  <2>1. EmptyContext \in Context /\ EmptyContext.inject = {} /\ EmptyContext.max = 0
    BY EmptyTyped DEF EmptyContext
  <2> DEFINE O == (checkpoint.cursor + 1)..(t - 1)
  <2>2. Nothing(t) = [EmptyContext EXCEPT !.omit = O]
    BY DEF Nothing
  <2>3. O \in SUBSET Ts
    BY <1>2
  <2> HIDE DEF O
  <2>4. QED BY <2>1, <2>2, <2>3 DEF Context, O
<1>4. QED BY <1>1, <1>3, Bounds

LEMMA ReadCursorKeeps ==
  ASSUME IInv, NEW t \in Ts, ReadCursor(t)
  PROVE  IInv'
<1>0. turn[t].pc = "sync" /\ Running(t) /\ ctx[t] = EmptyContext
  BY DEF ReadCursor, Running, IInv, AgentInv, ContextOK
<1>1. CASE ctx' = [ctx EXCEPT ![t].cursor = checkpoint.cursor] /\ Goto(t, "fetch")
  <2> DEFINE c == [ctx[t] EXCEPT !.cursor = checkpoint.cursor]
  <2>1. c \in Context /\ c.cursor = checkpoint.cursor /\ c.inject = {}
    <3>1. checkpoint.cursor \in 0..MaxTs
      BY DEF IInv, TypeOK, Checkpoint
    <3>2. ctx[t] \in Context /\ ctx[t].inject = {}
      BY <1>0, EmptyTyped
    <3>3. QED BY <3>1, <3>2 DEF Context
  <2>2. ctx' = [ctx EXCEPT ![t] = c]
    BY <1>1 DEF IInv, TypeOK
  <2> HIDE DEF c
  <2>3. ctx' \in [Ts -> Context] /\ ctx'[t] = c /\ \A u \in Ts \ {t} : ctx'[u] = ctx[u]
    BY <2>1, <2>2 DEF IInv, TypeOK
  <2>4. /\ turn' \in [Ts -> [pc : TurnPC, base : Checkpoint]]
        /\ turn'[t].pc = "fetch" /\ \A u \in Ts \ {t} : turn'[u] = turn[u]
    BY <1>1, GotoMoves DEF IInv, TurnPC
  <2>5. ContextOK(t)'
    BY <2>1, <2>3, <2>4 DEF ContextOK, ReadCursor
  <2>6. QED BY <1>0, <2>3, <2>4, <2>5, RunningKeeps DEF ReadCursor, AtAgent
<1>2. CASE ctx' = [ctx EXCEPT ![t] = Nothing(t)] /\ Goto(t, "invoke")
  <2>1. ctx' \in [Ts -> Context] /\ ctx'[t] = Nothing(t) /\ \A u \in Ts \ {t} : ctx'[u] = ctx[u]
    BY <1>2, NothingOK DEF IInv, TypeOK
  <2>2. /\ turn' \in [Ts -> [pc : TurnPC, base : Checkpoint]]
        /\ turn'[t].pc = "invoke" /\ \A u \in Ts \ {t} : turn'[u] = turn[u]
    BY <1>2, GotoMoves DEF IInv, TurnPC
  <2>3. ContextOK(t)'
    BY <2>1, <2>2, NothingOK DEF ContextOK, ReadCursor, Stranger
  <2>4. QED BY <1>0, <2>1, <2>2, <2>3, RunningKeeps DEF ReadCursor, AtAgent
<1>3. QED BY <1>1, <1>2 DEF ReadCursor

\* What a fetch makes of the messages since the cursor.
LEMMA FetchedOK ==
  ASSUME IInv, NEW t \in Ts, turn[t].pc = "fetch"
  PROVE  LET selected == {m \in Fetched(t) : ShouldInject(m, ctx[t].cursor)}
             kept == Newest(selected)
             omit == (selected \cup (Thread(t) \ Fetched(t))) \ kept
             max == Max(Fetched(t) \cup {0})
         IN  /\ kept \in SUBSET Ts /\ omit \in SUBSET Ts
             /\ max \in 0..MaxTs /\ max < t
             /\ \A m \in kept : checkpoint.cursor < m /\ m <= max
             /\ \A m \in Ts : checkpoint.cursor < m /\ m < t /\ Stranger(m) => m \in kept \cup omit
<1> DEFINE selected == {m \in Fetched(t) : ShouldInject(m, ctx[t].cursor)}
           kept == Newest(selected)
           omit == (selected \cup (Thread(t) \ Fetched(t))) \ kept
           max == Max(Fetched(t) \cup {0})
<1>1. Ts = 1..MaxTs /\ ctx[t].cursor = checkpoint.cursor /\ checkpoint.cursor \in Nat
      /\ t <= Len(posts) /\ Len(posts) \in Nat
  BY DEF Ts, IInv, TypeOK, Checkpoint, AgentInv, ContextOK, TurnsAreHuman
<1>2. Fetched(t) \subseteq Thread(t) /\ Thread(t) \subseteq Ts /\ \A m \in Thread(t) : m < t
  BY DEF Fetched, Thread
<1>3. kept \subseteq selected /\ selected \subseteq Fetched(t)
  BY DEF Newest
<1>4. Fetched(t) \cup {0} \in SUBSET (0..MaxTs)
  BY <1>1, <1>2, Bounds
<1>5. max \in Fetched(t) \cup {0} /\ \A m \in Fetched(t) : m <= max
  BY <1>4, MaxBounded
<1>6. max \in 0..MaxTs /\ max < t
  BY <1>1, <1>2, <1>4, <1>5
<1>7. ASSUME NEW m \in kept
      PROVE  checkpoint.cursor < m /\ m <= max
  <2>1. m \in Fetched(t) /\ ShouldInject(m, ctx[t].cursor)
    BY <1>3
  <2>2. m > checkpoint.cursor
    BY <2>1, <1>1 DEF ShouldInject
  <2>3. QED BY <2>1, <2>2, <1>1, <1>2, <1>5
<1>8. ASSUME NEW m \in Ts, checkpoint.cursor < m, m < t, Stranger(m)
      PROVE  m \in kept \cup omit
  <2>1. m \in Thread(t)
    BY <1>8, <1>1 DEF Thread
  <2>2. posts[m] # "own" /\ (posts[m] # "other" => m \notin inFlight)
    BY <1>8 DEF Stranger, IInv, AgentInv, TurnsAreHuman
  <2>3. ShouldInject(m, ctx[t].cursor)
    BY <1>8, <2>2, <1>1 DEF ShouldInject
  <2>4. CASE m \in Fetched(t)
    BY <2>3, <2>4
  <2>5. CASE m \notin Fetched(t)
    BY <2>1, <2>5
  <2>6. QED BY <2>4, <2>5
<1>9. kept \in SUBSET Ts /\ omit \in SUBSET Ts
  BY <1>2, <1>3
<1>10. QED BY <1>6, <1>7, <1>8, <1>9

LEMMA FetchKeeps ==
  ASSUME IInv, NEW t \in Ts, Fetch(t)
  PROVE  IInv'
<1> DEFINE selected == {m \in Fetched(t) : ShouldInject(m, ctx[t].cursor)}
           kept == Newest(selected)
           c == [cursor |-> 0, inject |-> kept, max |-> Max(Fetched(t) \cup {0}),
                 omit |-> (selected \cup (Thread(t) \ Fetched(t))) \ kept]
<1>0. turn[t].pc = "fetch" /\ Running(t) /\ Goto(t, "invoke")
  BY DEF Fetch, Running
<1>1. PICK d \in Context :
        /\ ctx' = [ctx EXCEPT ![t] = d]
        /\ d.max < t
        /\ \A m \in d.inject : checkpoint.cursor < m /\ m <= d.max
        /\ \A m \in Ts : checkpoint.cursor < m /\ m < t /\ Stranger(m) => m \in d.inject \cup d.omit
  <2>1. CASE ctx' = [ctx EXCEPT ![t] = c]
    <3>1. /\ c \in Context /\ c.max < t
          /\ \A m \in c.inject : checkpoint.cursor < m /\ m <= c.max
          /\ \A m \in Ts : checkpoint.cursor < m /\ m < t /\ Stranger(m) => m \in c.inject \cup c.omit
      BY <1>0, FetchedOK, Bounds DEF Context
    <3> HIDE DEF c
    <3>2. QED BY <2>1, <3>1
  <2>2. CASE ctx' = [ctx EXCEPT ![t] = Nothing(t)]
    BY <2>2, NothingOK
  <2>3. QED BY <2>1, <2>2 DEF Fetch
<1>2. ctx' \in [Ts -> Context] /\ ctx'[t] = d /\ \A u \in Ts \ {t} : ctx'[u] = ctx[u]
  BY <1>1 DEF IInv, TypeOK
<1>3. /\ turn' \in [Ts -> [pc : TurnPC, base : Checkpoint]]
      /\ turn'[t].pc = "invoke" /\ \A u \in Ts \ {t} : turn'[u] = turn[u]
  BY <1>0, GotoMoves DEF IInv, TurnPC
<1>4. UNCHANGED <<posts, inFlight, checkpoint, delegated, replies, omitted>> /\ QueueUnchanged
  BY DEF Fetch
<1>5. ContextOK(t)'
  BY <1>1, <1>2, <1>3, <1>4 DEF ContextOK, Stranger
<1>6. QED BY <1>0, <1>2, <1>3, <1>4, <1>5, RunningKeeps DEF AtAgent

LEMMA InvokeKeeps ==
  ASSUME IInv, NEW t \in Ts, Invoke(t)
  PROVE  IInv'
<1>1. turn[t].pc = "invoke" /\ Running(t)
  BY DEF Invoke, Running
<1>2. [pc |-> "write", base |-> checkpoint] \in [pc : TurnPC, base : Checkpoint]
  BY DEF IInv, TypeOK, TurnPC
<1>3. /\ turn' \in [Ts -> [pc : TurnPC, base : Checkpoint]]
      /\ turn'[t].pc = "write" /\ turn'[t].base = checkpoint
      /\ \A u \in Ts \ {t} : turn'[u] = turn[u]
  BY <1>2 DEF Invoke, IInv, TypeOK
<1>4. UNCHANGED <<posts, inFlight, ctx, checkpoint, delegated, replies, omitted>> /\ QueueUnchanged
  BY DEF Invoke, AgentUnchanged
<1>5. ContextOK(t)'
  BY <1>1, <1>3, <1>4 DEF ContextOK, IInv, AgentInv, Stranger
<1>6. ctx' \in [Ts -> Context]
  BY <1>4 DEF IInv, TypeOK
<1>7. QED BY <1>1, <1>3, <1>4, <1>5, <1>6, RunningKeeps DEF AtAgent

\* What the turn writes holds what was there, and covers all it has passed.
LEMMA WrittenOK ==
  ASSUME IInv, NEW t \in Ts, turn[t].pc = "write"
  PROVE  /\ Written(t) \in Checkpoint
         /\ checkpoint.turns \subseteq Written(t).turns
         /\ checkpoint.injected \subseteq Written(t).injected
         /\ checkpoint.cursor <= Written(t).cursor
         /\ \A m \in Written(t).turns \cup Written(t).injected : m <= Written(t).cursor
         /\ Written(t).cursor <= Len(posts)
         /\ \A m \in Ts : m <= Written(t).cursor /\ Stranger(m) =>
              m \in Written(t).injected \cup omitted \cup ctx[t].omit
<1> DEFINE n == Max({checkpoint.cursor, t, ctx[t].max})
<1>1. ContextOK(t) /\ turn[t].base = checkpoint /\ ctx[t].max < t
  BY DEF IInv, AgentInv, ContextOK
<1>2. /\ Ts = 1..MaxTs /\ checkpoint \in Checkpoint /\ checkpoint.cursor \in 0..MaxTs
      /\ ctx[t].max \in 0..MaxTs /\ ctx[t].inject \subseteq Ts
      /\ checkpoint.turns \subseteq Ts /\ checkpoint.injected \subseteq Ts
      /\ Len(posts) \in Nat
  <2>1. ctx[t] \in Context /\ checkpoint \in Checkpoint /\ Len(posts) \in Nat
    BY DEF IInv, TypeOK
  <2>2. ctx[t].max \in 0..MaxTs /\ ctx[t].inject \subseteq Ts
    BY <2>1 DEF Context
  <2>3. checkpoint.cursor \in 0..MaxTs /\ checkpoint.turns \subseteq Ts
        /\ checkpoint.injected \subseteq Ts
    BY <2>1 DEF Checkpoint
  <2>4. QED BY <2>1, <2>2, <2>3 DEF Ts
<1>3. {checkpoint.cursor, t, ctx[t].max} \in SUBSET (0..MaxTs)
  BY <1>2, Bounds
<1>4. n \in {checkpoint.cursor, t, ctx[t].max} /\ checkpoint.cursor <= n /\ t <= n /\ ctx[t].max <= n
  BY <1>3, MaxBounded
<1>5. Written(t) = [turns |-> checkpoint.turns \cup {t},
                    injected |-> checkpoint.injected \cup ctx[t].inject, cursor |-> n]
  BY <1>1 DEF Written
<1> HIDE DEF n
<1>6. n \in 0..MaxTs /\ (n = checkpoint.cursor \/ n = t)
  BY <1>1, <1>2, <1>3, <1>4, Bounds
<1>7. Written(t) \in Checkpoint
  BY <1>2, <1>5, <1>6 DEF Checkpoint
<1>8. t <= Len(posts) /\ posts[t] = "human" /\ checkpoint.cursor <= Len(posts)
  BY DEF IInv, AgentInv, TurnsAreHuman, CursorOK
<1>9. ASSUME NEW m \in Written(t).turns \cup Written(t).injected
      PROVE  m <= Written(t).cursor
  <2>1. CASE m \in checkpoint.turns \cup checkpoint.injected
    <3>1. m <= checkpoint.cursor /\ m \in Ts
      BY <2>1, <1>2 DEF IInv, AgentInv, CursorOK
    <3>2. QED BY <3>1, <1>2, <1>4, <1>5, <1>6, Bounds
  <2>2. CASE m = t
    BY <2>2, <1>4, <1>5
  <2>3. CASE m \in ctx[t].inject
    <3>1. m <= ctx[t].max /\ m \in Ts
      BY <2>3, <1>1, <1>2 DEF ContextOK
    <3>2. QED BY <3>1, <1>2, <1>4, <1>5, <1>6, Bounds
  <2>4. QED BY <2>1, <2>2, <2>3, <1>5
<1>10. ASSUME NEW m \in Ts, m <= n, Stranger(m)
       PROVE  m \in Written(t).injected \cup omitted \cup ctx[t].omit
  <2>1. m # t
    BY <1>8, <1>10 DEF Stranger
  <2>2. CASE m <= checkpoint.cursor
    BY <2>2, <1>5, <1>10 DEF IInv, AgentInv, StrangersReachAgent, Stranger
  <2>3. CASE ~(m <= checkpoint.cursor)
    <3>1. checkpoint.cursor < m /\ m < t
      BY <2>1, <2>3, <1>2, <1>6, <1>10, Bounds
    <3>2. QED BY <3>1, <1>1, <1>5, <1>10 DEF ContextOK
  <2>4. QED BY <2>2, <2>3
<1>11. QED BY <1>4, <1>5, <1>6, <1>7, <1>8, <1>9, <1>10

\* The turn's call settles, with or without a checkpoint of its own.
LEMMA LeaveKeeps ==
  ASSUME IInv, NEW t \in Ts, Running(t), NEW pc \in {"reply", "quiet", "fail"}, Leave(t, pc),
         UNCHANGED <<posts, inFlight, replies>>, delegated' \in BOOLEAN,
         \/ UNCHANGED <<checkpoint, omitted>>
         \/ /\ turn[t].pc = "write"
            /\ checkpoint' = Written(t) /\ omitted' = omitted \cup ctx[t].omit
  PROVE  IInv'
<1>1. /\ turn' \in [Ts -> [pc : TurnPC, base : Checkpoint]]
      /\ turn'[t].pc = pc /\ \A u \in Ts \ {t} : turn'[u] = turn[u]
      /\ ctx' \in [Ts -> Context] /\ ctx'[t] = EmptyContext
      /\ \A u \in Ts \ {t} : ctx'[u] = ctx[u]
      /\ tail' \in 0..MaxTs /\ prior' = prior
  BY LeaveMoves DEF IInv, TurnPC
<1>2. checkpoint' \in Checkpoint /\ omitted' \subseteq Ts
  <2>1. omitted \subseteq Ts /\ ctx[t].omit \subseteq Ts /\ checkpoint \in Checkpoint
    BY DEF IInv, TypeOK, Context
  <2>2. QED BY <2>1, WrittenOK
<1>3. TypeOK'
  BY <1>1, <1>2 DEF IInv, TypeOK
<1>4. QueueInv'
  BY LeaveKeepsQueue DEF IInv
<1>5. TurnsAreHuman'
  BY <1>1, PostsStay, HumansStay DEF IInv, Running
<1>6. ASSUME NEW u \in Ts
      PROVE  ContextOK(u)'
  <2>1. CASE u = t
    BY <2>1, <1>1 DEF ContextOK
  <2>2. CASE u # t
    <3>1. ~Running(u) /\ turn'[u] = turn[u] /\ ctx'[u] = ctx[u]
      BY <2>2, <1>1, Alone DEF IInv
    <3>2. QED BY <3>1 DEF Running, IInv, AgentInv, ContextOK
  <2>3. QED BY <2>1, <2>2
<1>7. CursorOK' /\ StrangersReachAgent'
  <2>1. CASE UNCHANGED <<checkpoint, omitted>>
    BY <2>1 DEF IInv, AgentInv, CursorOK, StrangersReachAgent
  <2>2. CASE turn[t].pc = "write" /\ checkpoint' = Written(t) /\ omitted' = omitted \cup ctx[t].omit
    BY <2>2, WrittenOK DEF CursorOK, StrangersReachAgent, Stranger
  <2>3. QED BY <2>1, <2>2
<1>8. QED BY <1>3, <1>4, <1>5, <1>6, <1>7 DEF IInv, AgentInv

LEMMA CallKeeps ==
  ASSUME IInv, NEW t \in Ts, DescribeFails(t) \/ Respond(t) \/ AgentFails(t)
  PROVE  IInv'
<1>1. Running(t) /\ delegated \in BOOLEAN
  BY DEF DescribeFails, Respond, AgentFails, Running, IInv, TypeOK
<1>2. CASE DescribeFails(t)
  BY <1>1, <1>2, LeaveKeeps DEF DescribeFails
<1>3. CASE Respond(t)
  BY <1>1, <1>3, LeaveKeeps DEF Respond
<1>4. CASE AgentFails(t)
  <2>1. delegated' \in BOOLEAN
    BY <1>1, <1>4 DEF AgentFails
  <2>2. QED BY <1>1, <1>4, <2>1, LeaveKeeps DEF AgentFails
<1>5. QED BY <1>2, <1>3, <1>4

-----------------------------------------------------------------------------
(* The invariant and what follows from it.                                 *)

LEMMA InitIInv == Init => IInv
<1> SUFFICES ASSUME Init PROVE IInv
  OBVIOUS
<1>1. TypeOK
  <2>1. posts \in Seq(Author) /\ Len(posts) = 0
    BY DEF Init
  <2>2. turn \in [Ts -> [pc : TurnPC, base : Checkpoint]]
    BY EmptyTyped DEF Init, TurnPC
  <2>3. ctx \in [Ts -> Context] /\ checkpoint \in Checkpoint /\ prior \in [Ts -> 0..MaxTs]
    BY EmptyTyped, Bounds DEF Init
  <2>4. tail \in 0..MaxTs /\ inFlight \subseteq Ts /\ replies \subseteq Ts /\ omitted \subseteq Ts
    BY Bounds DEF Init
  <2>5. delegated \in BOOLEAN
    BY DEF Init
  <2>6. QED BY <2>1, <2>2, <2>3, <2>4, <2>5, Bounds DEF TypeOK
<1>2. \A t \in Ts : ~Live(t) /\ turn[t].pc = "none" /\ prior[t] = 0
  BY DEF Init, Live, Running
<1>3. QueueInv
  <2>1. TailLive /\ PriorsQueued /\ PriorsDiffer /\ OneHead /\ NoCircle
    BY <1>2 DEF Init, TailLive, PriorsQueued, PriorsDiffer, OneHead, NoCircle
  <2>2. EntryIsLast
    BY <1>2 DEF Init, EntryIsLast, Live
  <2>3. QED BY <2>1, <2>2 DEF QueueInv
<1>4. \A t \in Ts : ContextOK(t)
  BY <1>2 DEF Init, ContextOK
<1>5. TurnsAreHuman /\ CursorOK /\ StrangersReachAgent
  <2>1. checkpoint.turns = {} /\ checkpoint.injected = {} /\ checkpoint.cursor = 0
        /\ Len(posts) = 0 /\ inFlight = {}
    BY DEF Init, Empty
  <2>2. TurnsAreHuman /\ CursorOK
    BY <2>1, <1>2 DEF TurnsAreHuman, CursorOK
  <2>3. StrangersReachAgent
    BY <2>1 DEF StrangersReachAgent, Ts
  <2>4. QED BY <2>2, <2>3
<1>6. QED BY <1>1, <1>3, <1>4, <1>5 DEF IInv, AgentInv

LEMMA StutterKeeps == ASSUME IInv, UNCHANGED vars PROVE IInv'
<1>1. TypeOK' /\ QueueInv'
  BY QueueStays DEF IInv, vars, TypeOK, QueueUnchanged, Running, Settled
<1>2. Grows /\ TurnsAreHuman'
  BY PostsStay DEF IInv, vars, AgentInv, TurnsAreHuman
<1>3. AgentInv'
  BY <1>2, AgentStays DEF IInv, vars
<1>4. QED BY <1>1, <1>3 DEF IInv

LEMMA NextIInv == IInv /\ [Next]_vars => IInv'
<1> SUFFICES ASSUME IInv, [Next]_vars PROVE IInv'
  OBVIOUS
<1>1. CASE HumanPosts \/ OtherBotPosts \/ TaskPosts
  BY <1>1, ThreadKeeps
<1>2. ASSUME NEW t \in Ts, Step(t)
      PROVE  IInv'
  BY <1>2, DispatchKeeps, EndKeeps, QueueKeeps, ReadCursorKeeps, FetchKeeps, InvokeKeeps,
     CallKeeps DEF Step
<1>3. CASE UNCHANGED vars
  BY <1>3, StutterKeeps
<1>4. QED BY <1>1, <1>2, <1>3 DEF Next

LEMMA Invariant == Spec => []IInv
BY InitIInv, NextIInv, PTL DEF Spec

\* Type correctness of a thread's turns, its queue and its checkpoint.
THEOREM TypeCorrect == Spec => []TypeOK
<1>1. IInv => TypeOK
  BY DEF IInv
<1>2. QED BY <1>1, Invariant, PTL

\* At most one turn of a thread is between its cursor and its checkpoint
\* (thread-turn-queue.ts run).
THEOREM OneTurnAtATime == Spec => []TurnsSerialized
<1>1. IInv => TurnsSerialized
  BY Alone DEF IInv, TurnsSerialized
<1>2. QED BY <1>1, Invariant, PTL

\* The queue's Map entry is the last call's, and goes with it
\* (thread-turn-queue.ts:25).
THEOREM TheLastHasTheEntry == Spec => []EntryIsLast
<1>1. IInv => EntryIsLast
  BY DEF IInv, QueueInv
<1>2. QED BY <1>1, Invariant, PTL

\* No message is injected that the checkpoint holds already
\* (sync-thread-context.ts:113-120).
THEOREM NothingTwice == Spec => []NeverInjectedAgain
<1>1. IInv => NeverInjectedAgain
  <2> SUFFICES ASSUME IInv, NEW t \in Ts, Running(t), NEW m \in ctx[t].inject,
                      m \in checkpoint.turns \cup checkpoint.injected
               PROVE  FALSE
    BY DEF NeverInjectedAgain
  <2>1. m <= checkpoint.cursor /\ ContextOK(t)
    BY DEF IInv, AgentInv, CursorOK
  <2>2. checkpoint.cursor \in Nat /\ m \in Nat
    BY Bounds DEF IInv, TypeOK, Checkpoint, Context, Ts
  <2>3. turn[t].pc \in {"invoke", "write"}
    BY <2>1, EmptyTyped DEF ContextOK, Running
  <2>4. QED BY <2>1, <2>2, <2>3 DEF ContextOK
<1>2. QED BY <1>1, Invariant, PTL

\* No message of a stranger that the cursor has passed is missing
\* (sync-thread-context.ts, conversation-agent.ts:266).
THEOREM NoStrangerMissed == Spec => []StrangersReachAgent
<1>1. IInv => StrangersReachAgent
  BY DEF IInv, AgentInv
<1>2. QED BY <1>1, Invariant, PTL

\* No checkpoint drops what the one before held, and the cursor never moves
\* back (thread-turn-queue.ts run, conversation-agent.ts:266).
THEOREM HistoryIsKept == Spec => NothingForgotten
<1> DEFINE Kept == /\ checkpoint.turns \subseteq checkpoint'.turns
                   /\ checkpoint.injected \subseteq checkpoint'.injected
                   /\ checkpoint.cursor <= checkpoint'.cursor
<1>1. IInv /\ [Next]_vars => [Kept]_vars
  <2> SUFFICES ASSUME IInv, Next PROVE Kept
    OBVIOUS
  <2>1. checkpoint.cursor \in Nat
    BY DEF IInv, TypeOK, Checkpoint
  <2>2. CASE checkpoint' = checkpoint
    BY <2>1, <2>2
  <2>3. ASSUME NEW t \in Ts, turn[t].pc = "write", checkpoint' = Written(t)
        PROVE  Kept
    BY <2>3, WrittenOK
  <2>4. checkpoint' = checkpoint \/ \E t \in Ts : turn[t].pc = "write" /\ checkpoint' = Written(t)
    BY DEF Next, Step, HumanPosts, OtherBotPosts, TaskPosts, Begin, ResumeEnds, Enqueue,
           ImagesFail, Start, ReadCursor, Fetch, DescribeFails, Invoke, Respond, AgentFails,
           Reply, ReplyQuietly, TellFailure, Finish, AgentUnchanged
  <2>5. QED BY <2>2, <2>3, <2>4
<1>2. QED BY <1>1, Invariant, PTL DEF Spec, NothingForgotten

\* The call may start: nobody is before it, or who was has settled.
MayStart(t) == turn[t].pc = "queued" /\ (prior[t] # 0 => Settled(prior[t]))

\* The queue never waits for itself: while its Map entry stands, a call runs or
\* the next may start, whatever became of those before (thread-turn-queue.ts:16).
QueueNeverStalls == tail # 0 => \E t \in Ts : Running(t) \/ MayStart(t)

\* What liveness rests on and no fairness gives: there is always somebody to go
\* on, for any number of turns (thread-turn-queue.ts run).
THEOREM NeverStalls == Spec => []QueueNeverStalls
<1>1. IInv => QueueNeverStalls
  <2> SUFFICES ASSUME IInv, tail # 0 PROVE \E t \in Ts : Running(t) \/ MayStart(t)
    BY DEF QueueNeverStalls
  <2> DEFINE S == {t \in Ts : Live(t)}
  <2>1. tail \in S
    BY Bounds DEF IInv, TypeOK, QueueInv, TailLive, Ts
  <2>2. PICK t \in S : prior[t] \notin S
    BY <2>1 DEF IInv, QueueInv, NoCircle
  <2>3. t \in Ts /\ Live(t)
    OBVIOUS
  <2>4. CASE turn[t].pc = "queued"
    <3>1. prior[t] \in 0..MaxTs
      BY <2>3 DEF IInv, TypeOK
    <3>2. prior[t] # 0 => prior[t] \in Ts
      BY <3>1, Bounds DEF Ts
    <3>3. prior[t] # 0 => Settled(prior[t])
      BY <2>2, <2>3, <3>2 DEF IInv, QueueInv, PriorsQueued
    <3>4. QED BY <2>3, <2>4, <3>3 DEF MayStart
  <2>5. QED BY <2>3, <2>4 DEF Live
<1>2. QED BY <1>1, Invariant, PTL

-----------------------------------------------------------------------------
(* ThreadTurns implements ThreadMemory.                                    *)

\* A turn writes once: what the checkpoint holds of turns, they have left.
TurnsLeft == \A t \in checkpoint.turns : Settled(t)

\* A turn that has left the queue does not come back.
LEMMA SettledStays ==
  ASSUME IInv, [Next]_vars, NEW u \in Ts, Settled(u)
  PROVE  Settled(u)'
<1>1. turn \in [Ts -> [pc : TurnPC, base : Checkpoint]]
  BY DEF IInv, TypeOK
<1>2. CASE turn'[u] = turn[u]
  BY <1>2 DEF Settled
<1>3. ASSUME NEW pc \in {"reply", "quiet", "fail", "finish", "done"}, turn'[u].pc = pc
      PROVE  Settled(u)'
  BY <1>3 DEF Settled
<1>4. CASE HumanPosts
  <2>1. u # Len(posts) + 1
    <3>1. u <= Len(posts) /\ Len(posts) \in Nat /\ u \in Nat
      BY DEF IInv, TypeOK, AgentInv, TurnsAreHuman, Settled, Ts
    <3>2. QED BY <3>1
  <2>2. turn'[u] = turn[u]
    BY <1>1, <1>4, <2>1 DEF HumanPosts, Goto
  <2>3. QED BY <2>2, <1>2
<1>5. ASSUME NEW t \in Ts, Step(t) PROVE Settled(u)'
  <2>1. CASE t # u
    <3>1. turn'[u] = turn[u]
      BY <1>1, <1>5, <2>1 DEF Step, Begin, ResumeEnds, Enqueue, ImagesFail, Start, ReadCursor, Fetch,
         DescribeFails, Invoke, Respond, AgentFails, Reply, ReplyQuietly, TellFailure, Finish,
         Goto, Leave
    <3>2. QED BY <3>1, <1>2
  <2>2. CASE t = u
    <3>1. Reply(u) \/ ReplyQuietly(u) \/ TellFailure(u) \/ Finish(u)
      BY <1>5, <2>2 DEF Settled, Step, Begin, ResumeEnds, Enqueue, ImagesFail, Start, ReadCursor,
         Fetch, DescribeFails, Invoke, Respond, AgentFails
    <3>2. \E pc \in {"finish", "fail", "done"} : turn' = [turn EXCEPT ![u].pc = pc]
      BY <3>1 DEF Reply, ReplyQuietly, TellFailure, Finish, Goto
    <3>3. QED BY <3>2, <1>1, <1>3
  <2>3. QED BY <2>1, <2>2
<1>6. CASE OtherBotPosts \/ TaskPosts \/ UNCHANGED vars
  BY <1>6, <1>2 DEF OtherBotPosts, TaskPosts, vars
<1>7. QED BY <1>4, <1>5, <1>6 DEF Next

\* What a step does to the thread's checkpoint.
Writes(t) ==
  /\ turn[t].pc = "write" /\ Settled(t)'
  /\ checkpoint' = Written(t) /\ omitted' = omitted \cup ctx[t].omit /\ posts' = posts

LEMMA StepWrites ==
  ASSUME IInv, [Next]_vars
  PROVE  \/ UNCHANGED <<checkpoint, omitted>>
         \/ \E t \in Ts : Writes(t)
<1>1. ASSUME NEW t \in Ts, Respond(t) \/ AgentFails(t)
      PROVE  UNCHANGED <<checkpoint, omitted>> \/ Writes(t)
  <2>1. turn[t].pc = "write" /\ posts' = posts
    BY <1>1 DEF Respond, AgentFails
  <2>2. \E pc \in {"reply", "quiet", "fail"} : Leave(t, pc)
    BY <1>1 DEF Respond, AgentFails
  <2>3. Settled(t)'
    BY <2>2 DEF Leave, Settled, IInv, TypeOK
  <2>4. UNCHANGED <<checkpoint, omitted>>
        \/ (checkpoint' = Written(t) /\ omitted' = omitted \cup ctx[t].omit)
    BY <1>1 DEF Respond, AgentFails
  <2>5. QED BY <2>1, <2>3, <2>4 DEF Writes
<1>2. \/ UNCHANGED <<checkpoint, omitted>>
      \/ \E t \in Ts : Respond(t) \/ AgentFails(t)
  BY DEF Next, Step, HumanPosts, OtherBotPosts, TaskPosts, Begin, ResumeEnds, Enqueue,
         ImagesFail, Start, ReadCursor, Fetch, DescribeFails, Invoke,
         Reply, ReplyQuietly, TellFailure, Finish, AgentUnchanged, vars
<1>3. QED BY <1>1, <1>2

LEMMA LeftKept ==
  ASSUME IInv, TurnsLeft, [Next]_vars
  PROVE  TurnsLeft'
<1>1. checkpoint.turns \subseteq Ts
  BY DEF IInv, TypeOK, Checkpoint
<1>2. \A u \in checkpoint.turns : Settled(u)'
  BY <1>1, SettledStays DEF TurnsLeft
<1>3. CASE checkpoint' = checkpoint
  BY <1>2, <1>3 DEF TurnsLeft
<1>4. ASSUME NEW t \in Ts, Writes(t) PROVE TurnsLeft'
  <2>1. turn[t].base = checkpoint
    BY <1>4 DEF Writes, IInv, AgentInv, ContextOK
  <2>2. checkpoint'.turns = checkpoint.turns \cup {t}
    BY <1>4, <2>1 DEF Writes, Written
  <2>3. QED BY <1>2, <1>4, <2>2 DEF TurnsLeft, Writes
<1>5. QED BY <1>3, <1>4, StepWrites

\* What a turn writes, told without what it read.
LEMMA WrittenAs ==
  ASSUME IInv, NEW t \in Ts, turn[t].pc = "write"
  PROVE  Written(t) = [turns    |-> checkpoint.turns \cup {t},
                       injected |-> checkpoint.injected \cup ctx[t].inject,
                       cursor   |-> IF t > checkpoint.cursor THEN t ELSE checkpoint.cursor]
<1> DEFINE n == Max({checkpoint.cursor, t, ctx[t].max})
<1>1. turn[t].base = checkpoint /\ ctx[t].max < t
  BY DEF IInv, AgentInv, ContextOK
<1>2. checkpoint.cursor \in 0..MaxTs /\ t \in 0..MaxTs /\ ctx[t].max \in 0..MaxTs
  BY Bounds DEF IInv, TypeOK, Checkpoint, Context, Ts
<1>3. n \in {checkpoint.cursor, t, ctx[t].max} /\ checkpoint.cursor <= n /\ t <= n
  BY <1>2, MaxBounded
<1>4. Written(t) = [turns |-> checkpoint.turns \cup {t},
                    injected |-> checkpoint.injected \cup ctx[t].inject, cursor |-> n]
  BY <1>1 DEF Written
<1> HIDE DEF n
<1>5. n = IF t > checkpoint.cursor THEN t ELSE checkpoint.cursor
  BY <1>1, <1>2, <1>3, Bounds
<1>6. QED BY <1>4, <1>5

LEMMA WritesRemember ==
  ASSUME IInv, TurnsLeft, NEW t \in Ts, Writes(t)
  PROVE  Memory!Remember(t)
<1>1. ContextOK(t) /\ turn[t].pc = "write" /\ ~Settled(t)
  BY DEF Writes, IInv, AgentInv, Settled
<1>2. t \in 1..Len(posts) /\ posts[t] = "human" /\ t \notin checkpoint.turns
  BY <1>1 DEF IInv, AgentInv, TurnsAreHuman, TypeOK, TurnsLeft, Ts
<1>3. checkpoint.cursor \in Nat /\ ctx[t].inject \subseteq Ts /\ ctx[t].omit \subseteq 1..MaxTs
      /\ ctx[t].max \in Nat
  BY Bounds DEF IInv, TypeOK, Checkpoint, Context, Ts
<1>4. ctx[t].inject \in SUBSET (checkpoint.cursor + 1..t - 1)
  <2>1. \A m \in ctx[t].inject : checkpoint.cursor < m /\ m <= ctx[t].max /\ ctx[t].max < t
    BY <1>1 DEF ContextOK
  <2>2. QED BY <2>1, <1>3, Bounds DEF Ts
<1>5. \A m \in checkpoint.cursor + 1..t - 1 :
        posts[m] \in {"guest", "other"} => m \in ctx[t].inject \cup ctx[t].omit
  <2>1. SUFFICES ASSUME NEW m \in checkpoint.cursor + 1..t - 1, posts[m] \in {"guest", "other"}
                 PROVE  m \in ctx[t].inject \cup ctx[t].omit
    OBVIOUS
  <2>2. m \in Ts /\ checkpoint.cursor < m /\ m < t
    BY <1>3, Bounds DEF Ts
  <2>3. QED BY <1>1, <2>1, <2>2 DEF ContextOK, Stranger
<1>6. checkpoint' = [turns    |-> checkpoint.turns \cup {t},
                     injected |-> checkpoint.injected \cup ctx[t].inject,
                     cursor   |-> IF t > checkpoint.cursor THEN t ELSE checkpoint.cursor]
  BY <1>1, WrittenAs DEF Writes
<1>7. omitted' = omitted \cup ctx[t].omit /\ posts' = posts
  BY DEF Writes
<1>8. QED BY <1>2, <1>3, <1>4, <1>5, <1>6, <1>7 DEF Memory!Remember, Memory!Passed

\* What a step that does not write does to the thread.
LEMMA StepPosts ==
  ASSUME [Next]_vars, UNCHANGED <<checkpoint, omitted>>
  PROVE  UNCHANGED <<posts, checkpoint, omitted>> \/ Memory!Post
<1>1. posts' = posts \/ \E a \in Author : Room /\ posts' = Append(posts, a)
  <2>1. CASE HumanPosts \/ OtherBotPosts \/ TaskPosts
    BY <2>1 DEF HumanPosts, OtherBotPosts, TaskPosts, Author
  <2>2. ASSUME NEW t \in Ts, Step(t)
        PROVE  posts' = posts \/ \E a \in Author : Room /\ posts' = Append(posts, a)
    <3>1. posts' = posts \/ posts' = Posted("own")
      BY <2>2 DEF Step, Begin, ResumeEnds, Enqueue, ImagesFail, Start, ReadCursor, Fetch,
         DescribeFails, Invoke, Respond, AgentFails, Reply, ReplyQuietly, TellFailure, Finish
    <3>2. QED BY <3>1 DEF Posted, Author
  <2>3. CASE UNCHANGED vars
    BY <2>3 DEF vars
  <2>4. QED BY <2>1, <2>2, <2>3 DEF Next
<1>2. QED BY <1>1 DEF Memory!Post, Room, Author

\* Whatever turns interleave, wait and fail, the thread's checkpoint is one that
\* turns would leave which read and wrote it at once (thread-turn-queue.ts run,
\* sync-thread-context.ts, conversation-agent.ts:266).
THEOREM Implementation == Spec => ImplementsThreadMemory
<1>1. Init => Memory!Init /\ TurnsLeft
  BY DEF Init, Empty, Memory!Init, TurnsLeft
<1>2. IInv /\ TurnsLeft /\ [Next]_vars => TurnsLeft'
  BY LeftKept
<1>3. IInv /\ TurnsLeft /\ [Next]_vars => [Memory!Next]_(Memory!vars)
  <2> SUFFICES ASSUME IInv, TurnsLeft, [Next]_vars
               PROVE  Memory!Next \/ UNCHANGED Memory!vars
    OBVIOUS
  <2>1. CASE UNCHANGED <<checkpoint, omitted>>
    BY <2>1, StepPosts DEF Memory!Next, Memory!vars
  <2>2. ASSUME NEW t \in Ts, Writes(t) PROVE Memory!Next
    BY <2>2, WritesRemember DEF Memory!Next, Ts
  <2>3. QED BY <2>1, <2>2, StepWrites
<1>4. QED BY <1>1, <1>2, <1>3, Invariant, PTL DEF Spec, ImplementsThreadMemory, Memory!Spec
=============================================================================
