----------------------------- MODULE ThreadTurns -----------------------------
(***************************************************************************)
(* What the conversation agent knows of one Slack thread.  Turns run one   *)
(* after the other through thread-turn-queue; each first injects the       *)
(* messages the thread's checkpoint does not hold yet (sync-thread-        *)
(* context), then reads the checkpoint and writes it back with its own     *)
(* message.  A message is named by its ts; every await separates two steps.*)
(***************************************************************************)
EXTENDS FiniteSetsExt, Naturals, Sequences

CONSTANTS
  MaxTs,  \* bound: messages in the thread
  Turns,  \* bound: turns in the thread
  Limit,  \* messages a turn injects at most (THREAD_CONTEXT_MESSAGE_LIMIT, CHAR_BUDGET)
  Pages,  \* messages conversations.replies yields at most (REPLIES_MAX_PAGES pages)
  Faults  \* what may fail: "images", "cursor", "replies", "agent", "post" (or its markResponded)

ASSUME BoundsAssumption == {MaxTs, Turns} \subseteq Nat /\ {Limit, Pages} \subseteq Nat \ {0}

VARIABLES
  posts,      \* the authors of the thread's messages, by ts
  turn,       \* the turn of each human message
  prior,      \* thread-turn-queue: the turn each run waits for, 0 for none
  tail,       \* the queue's Map entry for the thread, 0 when it has none
  inFlight,   \* in-flight-turns: the ts of the turns under way
  ctx,        \* what each turn has fetched to inject
  checkpoint, \* the thread's checkpoint
  delegated,  \* a task has been delegated in the thread
  replies,    \* history: messages of the bot that are AIMessages in the checkpoint
  omitted     \* history: messages a turn knowingly left out

vars == <<posts, turn, prior, tail, inFlight, ctx, checkpoint, delegated, replies, omitted>>

Ts == 1..MaxTs

\* "human" messages trigger a turn; "guest" is a human's before the bot took
\* part in the thread; "own" is the bot's, "other" another bot's.
Author == {"human", "guest", "own", "other"}

TurnPC == {"none", "dispatch", "images", "queued", "sync", "fetch", "invoke", "write",
           "resume", "reply", "quiet", "fail", "finish", "done"}

\* cursor is the thread cursor to fetch from; max the latest ts it fetched.
Context == [cursor : 0..MaxTs, inject : SUBSET Ts, max : 0..MaxTs, omit : SUBSET Ts]

\* turns: the messages that are HumanMessages of their own; injected: those in
\* some turn's thread_context; cursor: the latest turnTs or contextMaxTs tag.
Checkpoint == [turns : SUBSET Ts, injected : SUBSET Ts, cursor : 0..MaxTs]

TypeOK ==
  /\ posts \in Seq(Author) /\ Len(posts) <= MaxTs
  /\ turn \in [Ts -> [pc : TurnPC, base : Checkpoint]]
  /\ prior \in [Ts -> 0..MaxTs]
  /\ tail \in 0..MaxTs
  /\ inFlight \subseteq Ts
  /\ ctx \in [Ts -> Context]
  /\ checkpoint \in Checkpoint
  /\ delegated \in BOOLEAN
  /\ replies \subseteq Ts /\ omitted \subseteq Ts

Empty == [turns |-> {}, injected |-> {}, cursor |-> 0]
EmptyContext == [cursor |-> 0, inject |-> {}, max |-> 0, omit |-> {}]

Init ==
  /\ posts = <<>>
  /\ turn = [t \in Ts |-> [pc |-> "none", base |-> Empty]]
  /\ prior = [t \in Ts |-> 0]
  /\ tail = 0
  /\ inFlight = {}
  /\ ctx = [t \in Ts |-> EmptyContext]
  /\ checkpoint = Empty
  /\ delegated = FALSE
  /\ replies = {} /\ omitted = {}

Goto(t, pc) == turn' = [turn EXCEPT ![t].pc = pc]
QueueUnchanged == UNCHANGED <<prior, tail>>
AgentUnchanged == UNCHANGED <<ctx, checkpoint, delegated, replies, omitted>>

-----------------------------------------------------------------------------
(* The thread.                                                             *)

\* Bound: MaxTs messages are kept track of.  A turn reads only messages older
\* than its own, so one posted after the last of them is read by no turn.
Room == Len(posts) < MaxTs
Posted(author) == IF Room THEN Append(posts, author) ELSE posts

\* A person posts; once the bot takes part in the thread, that is a turn.
HumanPosts ==
  /\ Room
  /\ \/ /\ Cardinality({t \in Ts : turn[t].pc # "none"}) < Turns
        /\ posts' = Append(posts, "human") /\ Goto(Len(posts) + 1, "dispatch")
     \/ /\ \A t \in Ts : turn[t].pc = "none"
        /\ posts' = Append(posts, "guest") /\ UNCHANGED turn
  /\ UNCHANGED inFlight /\ QueueUnchanged /\ AgentUnchanged

OtherBotPosts ==
  /\ Room
  /\ posts' = Append(posts, "other")
  /\ UNCHANGED <<turn, inFlight>> /\ QueueUnchanged /\ AgentUnchanged

\* The finalizer posts a delegated task's question or answer.
TaskPosts ==
  /\ delegated /\ Room
  /\ posts' = Append(posts, "own")
  /\ UNCHANGED <<turn, inFlight>> /\ QueueUnchanged /\ AgentUnchanged

-----------------------------------------------------------------------------
(* runMentionInBackground.                                                 *)

\* inFlightTurns.start.  The turn resumes a waiting task or is a new one.
Begin(t) ==
  /\ turn[t].pc = "dispatch"
  /\ inFlight' = inFlight \cup {t}
  /\ \/ Goto(t, "images")
     \/ delegated /\ Goto(t, "resume")
  /\ UNCHANGED posts /\ QueueUnchanged /\ AgentUnchanged

\* The task is resumed, silently, or the turn goes on to a message about it.
ResumeEnds(t) ==
  /\ turn[t].pc = "resume"
  /\ turn' \in {[turn EXCEPT ![t].pc = pc] : pc \in {"finish", "fail"}}
  /\ UNCHANGED <<posts, inFlight>> /\ QueueUnchanged /\ AgentUnchanged

\* threadTurnQueue.run, once the images are resolved.
Enqueue(t) ==
  /\ turn[t].pc = "images"
  /\ Goto(t, "queued")
  /\ prior' = [prior EXCEPT ![t] = tail]
  /\ tail' = t
  /\ UNCHANGED <<posts, inFlight>> /\ AgentUnchanged

ImagesFail(t) ==
  /\ turn[t].pc = "images" /\ "images" \in Faults
  /\ Goto(t, "fail")
  /\ UNCHANGED <<posts, inFlight>> /\ QueueUnchanged /\ AgentUnchanged

\* The promise of a queued call has settled.
Settled(t) == turn[t].pc \in {"reply", "quiet", "fail", "finish", "done"}

\* Mutant of Start: a rejected predecessor is not followed (prior.then(fn)).
StartAfterSuccess(t) ==
  /\ turn[t].pc = "queued"
  /\ prior[t] # 0 => turn[prior[t]].pc \in {"reply", "quiet"}
  /\ Goto(t, "sync")
  /\ prior' = [prior EXCEPT ![t] = 0]
  /\ UNCHANGED <<posts, inFlight, tail>> /\ AgentUnchanged

\* Mutant of Start: the turns of a thread run concurrently.
StartAtOnce(t) ==
  /\ turn[t].pc = "queued"
  /\ Goto(t, "sync")
  /\ prior' = [prior EXCEPT ![t] = 0]
  /\ UNCHANGED <<posts, inFlight, tail>> /\ AgentUnchanged

\* prior.then(fn, fn).
Start(t) ==
  /\ turn[t].pc = "queued"
  /\ prior[t] # 0 => Settled(prior[t])
  /\ Goto(t, "sync")
  /\ prior' = [prior EXCEPT ![t] = 0]
  /\ UNCHANGED <<posts, inFlight, tail>> /\ AgentUnchanged

\* Mutant of Leave: whoever settles drops the Map entry.
LeaveAnyway(t, pc) ==
  /\ turn' = [turn EXCEPT ![t] = [pc |-> pc, base |-> Empty]]
  /\ ctx' = [ctx EXCEPT ![t] = EmptyContext]
  /\ tail' = 0 /\ UNCHANGED prior

\* The queued call settles and the turn goes on to pc.  The Map entry is dropped
\* if it is still this call's, the last one registered.
Leave(t, pc) ==
  /\ turn' = [turn EXCEPT ![t] = [pc |-> pc, base |-> Empty]]
  /\ ctx' = [ctx EXCEPT ![t] = EmptyContext]
  /\ tail' = IF tail = t THEN 0 ELSE tail
  /\ UNCHANGED prior

-----------------------------------------------------------------------------
(* respondWithConversationAgent: resolveThreadContextForTurn, respond.     *)

\* EMPTY_THREAD_CONTEXT: nothing is injected, though the cursor is to move.
Nothing(t) == [EmptyContext EXCEPT !.omit = (checkpoint.cursor + 1) .. (t - 1)]

\* getThreadCursor; without a cursor nothing is injected.
ReadCursor(t) ==
  /\ turn[t].pc = "sync"
  /\ \/ /\ ctx' = [ctx EXCEPT ![t].cursor = checkpoint.cursor]
        /\ Goto(t, "fetch")
     \/ /\ "cursor" \in Faults
        /\ ctx' = [ctx EXCEPT ![t] = Nothing(t)]
        /\ Goto(t, "invoke")
  /\ UNCHANGED <<posts, inFlight, checkpoint, delegated, replies, omitted>> /\ QueueUnchanged

\* Mutant of ShouldInject: oldest is taken to be exclusive.
ShouldInjectAgain(m, cursor) ==
  IF posts[m] = "own" THEN cursor = 0 ELSE posts[m] = "other" \/ m \notin inFlight

\* Mutant of ShouldInject: another bot's message is looked for among the turns.
ShouldInjectHumans(m, cursor) ==
  /\ m > cursor
  /\ IF posts[m] = "own" THEN cursor = 0 ELSE posts[m] # "other" /\ m \notin inFlight

\* Which of the fetched messages a turn injects.
ShouldInject(m, cursor) ==
  /\ m > cursor
  /\ CASE posts[m] = "own" -> cursor = 0
       [] posts[m] = "other" -> TRUE
       [] OTHER -> m \notin inFlight

\* conversations.replies, oldest first: from the cursor, which Slack includes,
\* up to the turn's own message, which it does not.
Thread(t) == {m \in Ts : ctx[t].cursor <= m /\ m < t}
Fetched(t) == {m \in Thread(t) : Cardinality({n \in Thread(t) : n < m}) < Pages}

\* Of the messages to inject the newest are kept, one at least.
Newest(selected) == {m \in selected : Cardinality({n \in selected : n > m}) < Limit}

Fetch(t) ==
  LET selected == {m \in Fetched(t) : ShouldInject(m, ctx[t].cursor)}
      kept == Newest(selected)
  IN /\ turn[t].pc = "fetch"
     /\ \/ ctx' = [ctx EXCEPT ![t] =
                      [cursor |-> 0, inject |-> kept, max |-> Max(Fetched(t) \cup {0}),
                       omit |-> (selected \cup (Thread(t) \ Fetched(t))) \ kept]]
        \/ "replies" \in Faults /\ ctx' = [ctx EXCEPT ![t] = Nothing(t)]
     /\ Goto(t, "invoke")
     /\ UNCHANGED <<posts, inFlight, checkpoint, delegated, replies, omitted>> /\ QueueUnchanged

\* The turn's images, or those it would inject, could not be described.
DescribeFails(t) ==
  /\ turn[t].pc = "invoke" /\ "images" \in Faults
  /\ Leave(t, "fail")
  /\ UNCHANGED <<posts, inFlight, checkpoint, delegated, replies, omitted>>

\* agent.invoke reads the checkpoint, ...
Invoke(t) ==
  /\ turn[t].pc = "invoke"
  /\ turn' = [turn EXCEPT ![t] = [pc |-> "write", base |-> checkpoint]]
  /\ UNCHANGED <<posts, inFlight>> /\ QueueUnchanged /\ AgentUnchanged

\* Mutant of Written: the cursor is the ts to fetch from next.
WrittenPast(t) ==
  LET base == turn[t].base IN
  [turns |-> base.turns \cup {t},
   injected |-> base.injected \cup ctx[t].inject,
   cursor |-> Max({base.cursor, t, ctx[t].max}) + 1]

\* ... and writes a child of what it read: the tagged HumanMessage.
Written(t) ==
  LET base == turn[t].base IN
  [turns |-> base.turns \cup {t},
   injected |-> base.injected \cup ctx[t].inject,
   cursor |-> Max({base.cursor, t, ctx[t].max})]

\* The agent has answered, or has delegated and the turn will post nothing.
Respond(t) ==
  /\ turn[t].pc = "write"
  /\ checkpoint' = Written(t)
  /\ omitted' = omitted \cup ctx[t].omit
  /\ \/ Leave(t, "reply") /\ UNCHANGED delegated
     \/ Leave(t, "quiet") /\ delegated' = TRUE
  /\ UNCHANGED <<posts, inFlight, replies>>

\* The agent fails, before or after it checkpoints its input, and delegates.
AgentFails(t) ==
  /\ turn[t].pc = "write" /\ "agent" \in Faults
  /\ \/ UNCHANGED <<checkpoint, omitted>>
     \/ checkpoint' = Written(t) /\ omitted' = omitted \cup ctx[t].omit
  /\ delegated' \in {delegated, TRUE}
  /\ Leave(t, "fail")
  /\ UNCHANGED <<posts, inFlight, replies>>

-----------------------------------------------------------------------------
(* The end of a turn; the queue no longer waits for it.                    *)

\* The reply is posted: an own message whose AIMessage is in the checkpoint.
Reply(t) ==
  /\ turn[t].pc = "reply"
  /\ \/ /\ posts' = Posted("own")
        /\ replies' = replies \cup (Ts \cap {Len(posts) + 1})
        /\ Goto(t, "finish")
     \/ /\ "post" \in Faults
        /\ Goto(t, "fail") /\ UNCHANGED <<posts, replies>>
  /\ UNCHANGED <<inFlight, ctx, checkpoint, delegated, omitted>> /\ QueueUnchanged

\* suppressFinalResponse: a turn that delegated posts nothing.
ReplyQuietly(t) ==
  /\ turn[t].pc = "quiet"
  /\ \/ Goto(t, "finish")
     \/ "post" \in Faults /\ Goto(t, "fail")
  /\ UNCHANGED <<posts, inFlight>> /\ QueueUnchanged /\ AgentUnchanged

\* A failure is told in the thread, if Slack takes the notice.
TellFailure(t) ==
  /\ turn[t].pc = "fail"
  /\ \/ posts' = Posted("own")
     \/ "post" \in Faults /\ UNCHANGED posts
  /\ Goto(t, "finish")
  /\ UNCHANGED inFlight /\ QueueUnchanged /\ AgentUnchanged

\* inFlightTurns.finish.
Finish(t) ==
  /\ turn[t].pc = "finish"
  /\ inFlight' = inFlight \ {t}
  /\ Goto(t, "done")
  /\ UNCHANGED posts /\ QueueUnchanged /\ AgentUnchanged

Step(t) ==
  \/ Begin(t) \/ ResumeEnds(t) \/ Enqueue(t) \/ ImagesFail(t) \/ Start(t)
  \/ ReadCursor(t) \/ Fetch(t) \/ DescribeFails(t) \/ Invoke(t) \/ Respond(t) \/ AgentFails(t)
  \/ Reply(t) \/ ReplyQuietly(t) \/ TellFailure(t) \/ Finish(t)

Next ==
  \/ HumanPosts \/ OtherBotPosts \/ TaskPosts
  \/ \E t \in Ts : Step(t)

Spec == Init /\ [][Next]_vars

-----------------------------------------------------------------------------
(* Safety.                                                                 *)

Running(t) == turn[t].pc \in {"sync", "fetch", "invoke", "write"}

\* At most one turn of a thread is between reading its cursor and writing its
\* checkpoint, whichever calls were rejected or dropped the Map entry before.
TurnsSerialized == \A t, u \in Ts : Running(t) /\ Running(u) => t = u

\* The queue's Map entry is there exactly while calls are waiting or running,
\* and is the last of them: none is overtaken, and the Map does not leak.
EntryIsLast ==
  /\ tail = 0 <=> \A t \in Ts : turn[t].pc # "queued" /\ ~Running(t)
  /\ \A t \in Ts : turn[t].pc = "queued" \/ Running(t) =>
       (t = tail) = (\A u \in Ts : prior[u] # t)

\* No turn's history is dropped: what a checkpoint holds, its successors hold,
\* and the thread cursor never moves back.
NothingForgotten ==
  [][/\ checkpoint.turns \subseteq checkpoint'.turns
     /\ checkpoint.injected \subseteq checkpoint'.injected
     /\ checkpoint.cursor <= checkpoint'.cursor]_vars

Memory == INSTANCE ThreadMemory WITH memory <- checkpoint

\* However the turns' reads, fetches and writes interleave and fail, the
\* checkpoint is one that turns would leave which read and wrote it at once
\* (thread-turn-queue.ts run; a turn that fails writes what it would, or nothing).
ImplementsThreadMemory == Memory!Spec

\* A message is injected at most once, and never after its own turn has put it
\* into the checkpoint, although the message at the cursor is fetched again.
\* (The other order, injected before its own turn began, the design accepts.)
NeverInjectedAgain ==
  \A t \in Ts : Running(t) =>
    ctx[t].inject \cap (checkpoint.turns \cup checkpoint.injected) = {}

\* Injection is the only way for a message of another bot, or one from before
\* the bot took part, to reach the agent: none the cursor has passed is missing,
\* but for those a truncated or failed sync left out.
StrangersReachAgent ==
  \A m \in Ts :
    (m <= checkpoint.cursor /\ posts[m] \in {"other", "guest"}) =>
      m \in checkpoint.injected \cup omitted

-----------------------------------------------------------------------------
(* Liveness.                                                               *)

\* The calls the turns have started return, in whatever order: while a turn can
\* take a step, some turn does.
FairSpec == Spec /\ WF_vars(\E t \in Ts : Step(t))

\* Every turn comes to its end, however the turns queued before it ended, and
\* is in flight no longer.
TurnsEnd == \A t \in Ts : turn[t].pc = "dispatch" ~> turn[t].pc = "done" /\ t \notin inFlight

-----------------------------------------------------------------------------
(* What a comment of the source says, and the code does not keep.          *)

\* "Own-bot messages are excluded once a checkpoint exists (its AIMessages
\* already cover them)" (sync-thread-context.ts): a message of the bot the
\* cursor has passed is in the checkpoint as an AIMessage, or was injected.
OwnMessagesCovered ==
  \A m \in Ts :
    (m <= checkpoint.cursor /\ posts[m] = "own") =>
      m \in replies \cup checkpoint.injected \cup omitted
=============================================================================
