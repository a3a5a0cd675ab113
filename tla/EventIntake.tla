----------------------------- MODULE EventIntake -----------------------------
(***************************************************************************)
(* The messages of one Slack thread from their delivery to the bot to the  *)
(* fate of their single response: the event gate of plugin.ts, event_log,  *)
(* conversation_thread, the dispatcher's background run and the steps that *)
(* end it.  Deliveries run concurrently; every await separates two steps.  *)
(***************************************************************************)
EXTENDS FiniteSets, Naturals

CONSTANTS
  Mention,    \* messages of a channel that mention the bot
  Attachment, \* messages that mention the bot and carry a file
  Direct,     \* direct messages
  Plain,      \* replies in the thread that do not mention the bot
  Delivery,   \* deliveries: POSTs to /api/slack/events, one event each
  NoEvent,    \* the event of a delivery that has not been made
  Faults      \* calls that may fail; "ack" and "crash" too

Message == Mention \cup Attachment \cup Direct \cup Plain

\* Slack sends two events, with an event_id each, for a message that mentions
\* the bot in a channel.
Event == (Message \X {"message"}) \cup ((Mention \cup Attachment) \X {"app_mention"})

ASSUME MessagesAssumption ==
  /\ Mention \cap (Attachment \cup Direct \cup Plain) = {}
  /\ Attachment \cap (Direct \cup Plain) = {} /\ Direct \cap Plain = {}
ASSUME EventsAssumption == NoEvent \notin Event
ASSUME FaultsAssumption ==
  Faults \subseteq {"ack", "crash", "gate", "record", "activity", "lookup", "rollback",
                    "run", "mark", "post", "unmark", "notice"}

VARIABLES
  slack,      \* "queued": Slack will (re)deliver the event; "acked": it will not
  del,        \* the deliveries
  log,        \* the event_log table
  thread,     \* [row: the thread is in conversation_thread, checkpoint: it has one]
  delegated,  \* events whose run has delegated a task
  fate,       \* history: how the bot's dealings with an event ended
  told,       \* history: events whose failure Slack was told
  responses   \* history: acknowledged responses of an event

vars == <<slack, del, log, thread, delegated, fate, told, responses>>
history == <<fate, told, responses>>

\* The final ones: "gated" by a rule, "dropped" by a failure, "done".
PC == {"idle", "gate", "record", "activity", "duplicate", "dispatch", "notify", "rollback",
       "run", "mark", "post", "unmark", "fail", "gated", "dropped", "done"}

\* quiet: the run ended with a task at work on the message, and posts nothing.
DeliveryState == [pc : PC, event : Event \cup {NoEvent}, quiet : BOOLEAN]

\* "open" until a run of the event has ended for good.  "silent": a delegated
\* task answers in its place.  "lost": it ended and Slack shows nothing.
Fates == {"open", "responded", "silent", "told", "lost"}

TypeOK ==
  /\ slack \in [Event -> {"queued", "acked"}]
  /\ del \in [Delivery -> DeliveryState]
  /\ log \in [Event -> {"absent", "accepted", "responded"}]
  /\ thread \in [row : BOOLEAN, checkpoint : BOOLEAN]
  /\ delegated \subseteq Event
  /\ fate \in [Event -> Fates]
  /\ told \subseteq Event
  /\ responses \in [Event -> Nat]

Init ==
  /\ slack = [e \in Event |-> "queued"]
  /\ del = [d \in Delivery |-> [pc |-> "idle", event |-> NoEvent, quiet |-> FALSE]]
  /\ log = [e \in Event |-> "absent"]
  /\ thread = [row |-> FALSE, checkpoint |-> FALSE]
  /\ delegated = {}
  /\ fate = [e \in Event |-> "open"]
  /\ told = {}
  /\ responses = [e \in Event |-> 0]

-----------------------------------------------------------------------------
Goto(d, pc) == del' = [del EXCEPT ![d].pc = pc]

\* The run of d's event is over, and ended so.
Ends(d, end) ==
  /\ fate' = [fate EXCEPT ![del[d].event] = end]
  /\ Goto(d, "done")

\* From the INSERT that accepted an event to the end of its run.
Holding == {"activity", "dispatch", "notify", "rollback", "run", "mark", "post", "unmark", "fail"}
Holds(d, e) == del[d].event = e /\ del[d].pc \in Holding
Held(e) == \E d \in Delivery : Holds(d, e)

-----------------------------------------------------------------------------
(* The gate: the events endpoint, routeEvent, runOnEvent.                  *)

\* Slack posts the event.  It is answered 200 before the handler has done more
\* than the first checks of the gate; the answer may be lost.
Deliver(d, e) ==
  LET m == e[1] IN
  /\ del[d].pc = "idle" /\ slack[e] = "queued"
  /\ \/ slack' = [slack EXCEPT ![e] = "acked"]
     \/ "ack" \in Faults /\ UNCHANGED slack
  /\ del' = [del EXCEPT ![d].event = e, ![d].pc =
       IF e[2] = "app_mention" \/ m \in Plain THEN "gate"
       ELSE IF m \in Mention THEN "gated"      \* duplicate_of_app_mention
       ELSE "record"]                          \* dm, mention_with_attachment
  /\ UNCHANGED <<log, thread, delegated>> /\ UNCHANGED history

\* hasAcceptedSibling: another event of the same message is in event_log.
Sibling(e) == \E f \in Event : f[1] = e[1] /\ f # e /\ log[f] # "absent"

\* decideForAppMention; when the lookup fails the event is dropped.
GateMention(d) ==
  /\ del[d].pc = "gate" /\ del[d].event[2] = "app_mention"
  /\ \/ Goto(d, IF Sibling(del[d].event) THEN "gated" ELSE "record")
     \/ "gate" \in Faults /\ Goto(d, "dropped")
  /\ UNCHANGED <<slack, log, thread, delegated>> /\ UNCHANGED history

\* decideForMessage's lookups, each a miss when it fails: a task that waits for
\* input, the checkpoint, the conversation_thread row.  They run in parallel;
\* the last two never go away, so deciding in one step comes to the same.
GateReply(d) ==
  /\ del[d].pc = "gate" /\ del[d].event[2] = "message"
  /\ \E hit \in BOOLEAN :
       /\ hit => thread.row \/ thread.checkpoint \/ delegated # {}
       /\ ~hit => "gate" \in Faults \/ ~(thread.row \/ thread.checkpoint)
       /\ Goto(d, IF hit THEN "record" ELSE "gated")
  /\ UNCHANGED <<slack, log, thread, delegated>> /\ UNCHANGED history

\* Mutant of RecordReceived: a conflict counts as an insertion.
RecordReceivedAgain(d) ==
  /\ del[d].pc = "record"
  /\ log' = [log EXCEPT ![del[d].event] = "accepted"]
  /\ Goto(d, "activity")
  /\ UNCHANGED <<slack, thread, delegated>> /\ UNCHANGED history

\* recordReceived: INSERT ... ON CONFLICT DO NOTHING.
RecordReceived(d) ==
  LET e == del[d].event IN
  /\ del[d].pc = "record"
  /\ \/ log[e] = "absent" /\ log' = [log EXCEPT ![e] = "accepted"] /\ Goto(d, "activity")
     \/ log[e] # "absent" /\ UNCHANGED log /\ Goto(d, "duplicate")
     \/ "record" \in Faults /\ UNCHANGED log /\ Goto(d, "dropped")
  /\ UNCHANGED <<slack, thread, delegated>> /\ UNCHANGED history

\* recordActivity, for a duplicate too; a failure is only logged.
RecordActivity(d) ==
  /\ del[d].pc \in {"activity", "duplicate"}
  /\ \/ thread' = [thread EXCEPT !.row = TRUE]
     \/ "activity" \in Faults /\ UNCHANGED thread
  /\ Goto(d, IF del[d].pc = "activity" THEN "dispatch" ELSE "done")
  /\ UNCHANGED <<slack, log, delegated>> /\ UNCHANGED history

-----------------------------------------------------------------------------
(* The dispatcher: createTaskDispatcher, runMentionInBackground.           *)

\* findActiveInputRequired, whose failure makes onAccepted reject; otherwise the
\* run goes on in the background.
Dispatch(d) ==
  /\ del[d].pc = "dispatch"
  /\ \/ Goto(d, "run")
     \/ "lookup" \in Faults /\ Goto(d, "notify")
  /\ UNCHANGED <<slack, log, thread, delegated>> /\ UNCHANGED history

\* reportDispatchFailure: the notice is best effort.
Tell(d) ==
  \/ told' = told \cup {del[d].event}
  \/ "notice" \in Faults /\ UNCHANGED told

Notify(d) ==
  /\ del[d].pc = "notify"
  /\ Tell(d) /\ Goto(d, "rollback")
  /\ UNCHANGED <<slack, log, thread, delegated, fate, responses>>

\* deleteReceived, after onAccepted rejected; if it fails the event stays taken.
Rollback(d) ==
  LET e == del[d].event IN
  /\ del[d].pc = "rollback"
  /\ \/ log' = [log EXCEPT ![e] = "absent"] /\ UNCHANGED fate
     \/ /\ "rollback" \in Faults
        /\ fate' = [fate EXCEPT ![e] = IF e \in told THEN "told" ELSE "lost"]
        /\ UNCHANGED log
  /\ Goto(d, IF e \in told THEN "done" ELSE "dropped")
  /\ UNCHANGED <<slack, thread, delegated, told, responses>>

\* The conversation agent delegates a task while it answers.
Delegate(d) ==
  /\ del[d].pc = "run"
  /\ delegated' = delegated \cup {del[d].event}
  /\ UNCHANGED <<slack, del, log, thread>> /\ UNCHANGED history

\* Mutant of RunEnds: the turn is not checkpointed.
RunEndsForgotten(d) ==
  /\ del[d].pc = "run"
  /\ del' = [del EXCEPT ![d].pc = "mark", ![d].quiet = del[d].event \in delegated]
  /\ UNCHANGED <<slack, log, thread, delegated>> /\ UNCHANGED history

\* Mutant of RunEnds: a run that delegated posts a response as well.
RunEndsLoudly(d) ==
  /\ del[d].pc = "run"
  /\ thread' = [thread EXCEPT !.checkpoint = TRUE]
  /\ del' = [del EXCEPT ![d].pc = "mark", ![d].quiet = FALSE]
  /\ UNCHANGED <<slack, log, delegated>> /\ UNCHANGED history

\* The agent has answered, having delegated or not, or a task that waited for
\* input was resumed, or not.  The agent leaves a checkpoint.
RunEnds(d) ==
  /\ del[d].pc = "run"
  /\ \E resumed, sent \in BOOLEAN :
       /\ resumed => delegated # {} /\ del[d].event \notin delegated
       /\ thread' = [thread EXCEPT !.checkpoint = @ \/ ~resumed]
       /\ del' = [del EXCEPT ![d].pc = "mark",
            ![d].quiet = IF resumed THEN sent ELSE del[d].event \in delegated]
  /\ UNCHANGED <<slack, log, delegated>> /\ UNCHANGED history

\* The images could not be described, or the agent failed, some way into its turn.
RunFails(d) ==
  /\ del[d].pc = "run" /\ "run" \in Faults
  /\ thread' \in {thread, [thread EXCEPT !.checkpoint = TRUE]}
  /\ Goto(d, "fail")
  /\ UNCHANGED <<slack, log, delegated>> /\ UNCHANGED history

-----------------------------------------------------------------------------
(* How a run ends: postFinalResponse, suppressFinalResponse and the notice *)
(* of a failure.                                                           *)

\* markResponded, which only the first to get there wins.
Mark(d) ==
  LET e == del[d].event
      quiet == del[d].quiet
  IN /\ del[d].pc = "mark"
     /\ \/ /\ log[e] = "accepted"
           /\ log' = [log EXCEPT ![e] = "responded"]
           /\ IF quiet THEN Ends(d, "silent") ELSE Goto(d, "post") /\ UNCHANGED fate
        \/ /\ log[e] # "accepted"
           /\ Ends(d, IF quiet THEN "silent" ELSE "lost")
           /\ UNCHANGED log
        \/ "mark" \in Faults /\ Goto(d, "fail") /\ UNCHANGED <<log, fate>>
     /\ UNCHANGED <<slack, thread, delegated, told, responses>>

\* Mutant of Post: a post whose indicator could not be cleared is rolled back.
PostOrClearFails(d) ==
  /\ del[d].pc = "post"
  /\ \/ responses' = [responses EXCEPT ![del[d].event] = @ + 1]
     \/ UNCHANGED responses
  /\ Goto(d, "unmark")
  /\ UNCHANGED <<slack, log, thread, delegated, fate, told>>

\* Slack acknowledges the response, or not.
Post(d) ==
  /\ del[d].pc = "post"
  /\ \/ responses' = [responses EXCEPT ![del[d].event] = @ + 1] /\ Ends(d, "responded")
     \/ "post" \in Faults /\ Goto(d, "unmark") /\ UNCHANGED <<fate, responses>>
  /\ UNCHANGED <<slack, log, thread, delegated, told>>

\* Mutant of Unmark: an outcome of its own.
UnmarkUnnamed(d) ==
  /\ del[d].pc = "unmark"
  /\ log' = [log EXCEPT ![del[d].event] = "unresponded"]
  /\ Goto(d, "fail")
  /\ UNCHANGED <<slack, thread, delegated>> /\ UNCHANGED history

\* unmarkResponded, before the failure goes on to runMentionInBackground's catch.
Unmark(d) ==
  /\ del[d].pc = "unmark"
  /\ \/ log' = [log EXCEPT ![del[d].event] = "accepted"]
     \/ "unmark" \in Faults /\ UNCHANGED log
  /\ Goto(d, "fail")
  /\ UNCHANGED <<slack, thread, delegated>> /\ UNCHANGED history

\* Mutant of Fail: the catch only logs.
FailUntold(d) ==
  /\ del[d].pc = "fail"
  /\ Goto(d, "done")
  /\ UNCHANGED <<slack, log, thread, delegated>> /\ UNCHANGED history

\* The catch of runMentionInBackground: reportDispatchFailure, ungated.
Fail(d) ==
  LET e == del[d].event IN
  /\ del[d].pc = "fail"
  /\ Tell(d)
  /\ Ends(d, IF e \in told' THEN "told" ELSE "lost")
  /\ UNCHANGED <<slack, log, thread, delegated, responses>>

-----------------------------------------------------------------------------
\* The finalizer marks the event of a delegated task whose answer it posted.
TaskMarks(e) ==
  /\ e \in delegated /\ log[e] = "accepted"
  /\ log' = [log EXCEPT ![e] = "responded"]
  /\ UNCHANGED <<slack, del, thread, delegated>> /\ UNCHANGED history

\* pruneOlderThan, whatever the row's outcome.  After the retention period Slack
\* no longer retries, and no call about the message is under way.
Prune(e) ==
  /\ log[e] # "absent"
  /\ \A f \in Event : f[1] = e[1] => slack[f] = "acked"
  /\ \A d \in Delivery : del[d].event # NoEvent /\ del[d].event[1] = e[1] =>
       del[d].pc \in {"done", "gated", "dropped"}
  /\ log' = [log EXCEPT ![e] = "absent"]
  /\ UNCHANGED <<slack, del, thread, delegated>> /\ UNCHANGED history

\* The process stops and starts again; what it was doing is lost.
Crash ==
  /\ "crash" \in Faults
  /\ \E d \in Delivery : del[d].pc \notin {"idle", "done", "gated", "dropped"}
  /\ del' = [d \in Delivery |->
       IF del[d].pc \in {"idle", "done", "gated"} THEN del[d] ELSE [del[d] EXCEPT !.pc = "dropped"]]
  /\ fate' = [e \in Event |-> IF Held(e) THEN "lost" ELSE fate[e]]
  /\ UNCHANGED <<slack, log, thread, delegated, told, responses>>

Step(d) ==
  \/ GateMention(d) \/ GateReply(d) \/ RecordReceived(d) \/ RecordActivity(d)
  \/ Dispatch(d) \/ Notify(d) \/ Rollback(d) \/ RunEnds(d) \/ RunFails(d)
  \/ Mark(d) \/ Post(d) \/ Unmark(d) \/ Fail(d)

Next ==
  \/ \E d \in Delivery : Step(d) \/ Delegate(d) \/ \E e \in Event : Deliver(d, e)
  \/ \E e \in Event : TaskMarks(e) \/ Prune(e)
  \/ Crash

Spec == Init /\ [][Next]_vars

-----------------------------------------------------------------------------
(* Safety.                                                                 *)

\* recordReceived elects one delivery per event: while it has the event, the
\* row is there (marked responded while a post is under way), no other delivery
\* runs it, and nothing has been concluded about it before.
OneRunPerEvent ==
  \A e \in Event, d \in Delivery : Holds(d, e) =>
    /\ \A f \in Delivery : Holds(f, e) => f = d
    /\ log[e] # "absent" /\ (del[d].pc \in {"post", "unmark"} => log[e] = "responded")
    /\ fate[e] = "open" /\ responses[e] = 0

\* "A redelivered event can never double-post": Slack acknowledges at most one
\* response of an event, through redeliveries, roll-backs, failed posts, crashes.
OneResponse == \A e \in Event : responses[e] <= 1

\* An answered event stays marked, so that no later run could answer it again,
\* for as long as its row is kept.
AnsweredStaysMarked ==
  \A e \in Event : responses[e] > 0 => log[e] \in {"responded", "absent"}

\* The mark that keeps an event from being answered twice never keeps its only
\* response from being posted: a run that has one of its own finds its event
\* unmarked, though finalizers of delegated tasks mark events at any time and
\* a refused markResponded drops the response without a word
\* (post-final-response.ts).
MarkNeverSwallows ==
  \A d \in Delivery :
    del[d].pc = "mark" /\ ~del[d].quiet => log[del[d].event] = "accepted"

\* The user is never told that a request failed after its response was posted
\* (runMentionInBackground's catch is not gated by event_log).
NoNoticeAfterResponse ==
  [][\A e \in told' \ told : responses[e] = 0 /\ fate[e] = "open"]_vars

\* A thread the bot has answered in is one whose replies can pass the gate
\* without a mention, even if conversation_thread could not be written.
AnsweredThreadsListen ==
  (\E e \in Event : responses[e] > 0) =>
    thread.row \/ thread.checkpoint \/ delegated # {}

\* What TaskAnswer promises of tasks holds of events: the delivery that runs an
\* event has claimed it, and gives it back only by deleting its row.
Phase(e) ==
  IF Held(e) THEN "claimed"
  ELSE IF fate[e] = "open" THEN "pending"
  ELSE IF fate[e] = "responded" THEN "answered"
  ELSE "closed"

Abstract == INSTANCE TaskAnswer WITH TaskId <- Event, phase <- [e \in Event |-> Phase(e)]

\* Every interleaving of deliveries, runs and crashes is one TaskAnswer allows.
ImplementsTaskAnswer == Abstract!Spec

-----------------------------------------------------------------------------
(* Liveness.                                                               *)

\* Slack makes the deliveries it owes, and the calls of a handler return.
Fairness ==
  /\ \A e \in Event : WF_vars(\E d \in Delivery : Deliver(d, e))
  /\ \A d \in Delivery : WF_vars(Step(d))

FairSpec == Spec /\ Fairness

\* Nobody is ignored: every event that reaches the bot is gated by a rule or
\* ends in a response, a task at work on it or a notice of the failure; unless
\* the process died, Slack refused the notice itself, or a statement before the
\* dispatch failed.
Accounted(e) ==
  \/ fate[e] # "open" \/ e \in told
  \/ \E d \in Delivery : del[d].event = e /\ del[d].pc \in {"gated", "dropped"}

NobodyIgnored ==
  \A e \in Event : (\E d \in Delivery : del[d].event = e) ~> Accounted(e)
=============================================================================
