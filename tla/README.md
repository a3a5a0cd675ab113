# A formal model of slack-bot

These TLA+ modules model the parts of `fohte/slack-bot` where several actors
share state: push notifications, a reconciler and the turns of a Slack thread
racing over the tasks the bot has delegated; deliveries and redeliveries of
Slack events racing over the one response each event is due; the turns of a
thread racing over what the conversation agent remembers; HTTP requests and the
work they start around a shutdown; the clicks, patches and timers behind one
Slack message of the blog plugin; and the window of rows and the cached agents
the reconciler works with. TLC checks small instances; TLAPS proves the safety
of the task lifecycle, the event intake, the turns of a thread, the shutdown,
the blog plugin, the reconciler's window and the agent cache for every instance.

Paths below are relative to `src/src/`; the plugin's are under
`plugins/llm-agent/`.

    tlc -workers 2 -config lifecycle_safety.cfg MCTaskLifecycle
    tlapm TaskLifecycleSafety_proofs.tla

`PROJECT.json` lists the components, the runs, for every definition the lines
of source it stands for, the hazards the properties are for, and for every
property a mutant: a plausible bug in the code that violates it.

## 1. Inventory

| Component | State | Operations | What makes it correct |
|---|---|---|---|
| `a2a-task-tracker.ts`, `a2a-task-transition-guard.ts` | the table `a2a_task` | `recordDelegated`, `transition`, `unsettle`, `findUnsettled`, `findActiveInputRequired`, `deleteSettledOlderThan` | a row is settled by one caller; a settled row is touched by nobody but the one who gives it back |
| `response-finalizer.ts` | none of its own | `finalize` (a push), `finalizeTask` (the reconciler), `settleFailure` | at most one answer of a task; no row settled without an answer or a known reason |
| `task-reconciler.ts` | one tick at a time | `runOnce`: sweep, deadlines, forgotten tasks, retention | every task is answered although no push arrives |
| `push-notification-endpoint.ts` | none | POST of a task by an agent | lost, duplicated, reordered pushes change nothing |
| `task-progress-status.ts`, `assistant-status.ts` | the thread's indicator | `report`, `clear` | the indicator goes out with the answer |
| `resume-active-task.ts` | none of its own | resume a waiting task, or retire it and delegate anew | a user's reply never overwrites an answer |
| `delegation-tool-factory.ts` | none of its own | `message/send`, record the row | every task sent is recorded, or the user is told |
| `plugin.ts` (event gate), `event-log-store.ts`, `conversation-thread-store.ts` | `event_log`, `conversation_thread` | accept or reject an event, roll back, retention | one run per event |
| `dispatcher.ts`, `steps/post-final-response.ts`, `steps/suppress-final-response.ts` | none of their own | run, mark, post, unmark, failure notice | one response per event; nobody is ignored |
| `thread-turn-queue.ts`, `in-flight-turns.ts` | a Map of promise chains; a Set of turns | `run`; `start`, `finish` | the turns of a thread are serialised, in order, and the Map does not leak |
| `steps/sync-thread-context.ts`, `conversation-agent.ts` | the thread's LangGraph checkpoint and cursor | fetch, select and inject what the agent does not know; invoke | nothing is injected twice, nothing is missed, no history is lost |
| `remote-agent-registry.ts` | Agent Card cache, the fetch in flight | `listAgents` with a TTL, one shared fetch | no handle is served past its TTL; a failed fetch does not outlive its cause |
| `server/http-server.ts`, `router/`, `push-notification-endpoint.ts` | the requests and the promises they start | events, commands, interactivity, notifications | every client that waits is answered, by the ack or the end of the handler |
| `server/in-flight-tasks.ts`, `server/shutdown.ts` | the Set of tracked promises | `track`, `waitForIdle`; drain, close | what was tracked before the drain ended is finished before exit; the shutdown ends |
| `scheduler/` | a Map from names to tasks, timers | `schedule`, ticks, timeouts | one task at work under a name, no entry left behind |
| `interaction/message-updater.ts` | uses and age of a `response_url` | `patch` | at most five uses, within thirty minutes |
| `plugins/blog/` | the message it patches, a CI watch | list, plan, apply, cancel | the message leaves "applying"; a watch ends |
| bootstrap, configuration, logging, migrations, model adapters, paraphraser | set-up | | |

How they interact. The process is single-threaded: state changes between
awaits are atomic, and each await is a place for another actor to run. The
*event gate* accepts an event into `event_log` and hands it to the *dispatcher*
which runs it in the background: either it resumes a task that waits for input,
or the *conversation agent* runs, behind the *thread turn queue*, and may
delegate tasks. The row of a task in `a2a_task` is what the *finalizer* (called
by a push) and the *reconciler* (called by an interval timer) agree through,
and `event_log`'s `responded` mark is what the final response and the finalizer
agree through. The finalizer's posts come back into the thread as messages the
*thread context sync* sees. The *router* hands an event to the gate in a tracked
promise, an interaction to the *blog plugin* in one that is not, and the
*shutdown* waits for what is tracked. A blog handler patches its message through
an *updater* and leaves a CI watch to the *scheduler*, which patches it again
through the same updater. The reconciler polls with the handles of the *agent
registry*.

What is hard. The settle is optimistic: a conditional UPDATE elects a winner,
which then posts, and gives the row back if the post fails; every other
actor may look at the row in between, and the process may die in between.
Observations (`tasks/get`) are several awaits old when they are applied. Slack
redelivers events it has seen no ack of; agents lose, repeat and reorder
pushes; remote agents forget tasks. Deadlines are re-armed by replies while a
tick is deciding on them. The response of an interaction leaves with `ctx.ack()`
while its handler goes on. A `response_url`'s counter is raised after the reply.
A watch is recognised by its name. A tick sees the oldest rows only, through a
cache that is dated when its fetch began. A client may close its connection
while what its request has started goes on, and the shutdown does not see it.

## 2. The modules

| Module | Kind | What it is |
|---|---|---|
| `A2aTaskTracker` | operators | the rows of `a2a_task` and what each SQL statement does to them |
| `TaskLifecycle` | state machine | observers (pushes, reconciler), turns and remote agents over the table |
| `TaskAnswer` | abstract specification | a request is claimed by one, answered or given back; final once answered or closed |
| `EventIntake` | state machine | deliveries of Slack events from the gate to the fate of their response |
| `ThreadTurns` | state machine | the turns of one thread: queue, sync, checkpoint |
| `ThreadMemory` | abstract specification | what the agent remembers of a thread, as if each turn read and wrote in one step |
| `Serving` | state machine | requests, the promises they start, the registry of tracked ones, the shutdown |
| `Scheduler` | actions on variables of its own | named tasks, their timers and timeouts |
| `MessageUpdater` | operators | what an updater counts, and how its next patch goes out |
| `BlogPublish` | state machine | the interactions and watches around one message of the blog plugin |
| `Reconciliation` | state machine | which rows a tick visits, and with which cached handles |
| `MCTaskLifecycle`, `MCReconciliation` | for TLC | the symmetry of the lifecycle's actors; the agents of the rows |
| `TaskLifecycle_proofs` | proofs | type correctness of the task lifecycle |
| `TaskLifecycleSafety_proofs` | proofs | its inductive invariant, safety and action properties; which faults can cost an answer |
| `TaskLifecycleRefinement_proofs` | proofs | `TaskLifecycle` implements `TaskAnswer` |
| `EventIntake_proofs` | proofs | one run and one response per event, none swallowed, none lost; `EventIntake` implements `TaskAnswer` |
| `ThreadTurns_proofs` | proofs | turns are serialised and never stall; the checkpoint loses and repeats nothing; `ThreadTurns` implements `ThreadMemory` |
| `Serving_proofs` | proofs | the drain loses nothing that was tracked |
| `BlogPublish_proofs` | proofs | the limits of a `response_url` and of the scheduler, one patch at a time, live names, "applying" has an owner |
| `Reconciliation_proofs` | proofs | types, who may overtake whom, cached handles are fresh |

`TaskLifecycle` EXTENDS `A2aTaskTracker`; `BlogPublish` EXTENDS `Scheduler` and
`MessageUpdater`, and its watches are the scheduler's tasks. `TaskLifecycle` and
`EventIntake` both implement `TaskAnswer`, each under a mapping of its own: what
the bot promises about a delegated task and about a Slack event is the same.
`ThreadTurns` implements `ThreadMemory`, whose `memory` is the checkpoint.
`Reconciliation` takes the reconciler of `TaskLifecycle` from the other side:
there a tick's calls interleave with the other observers of a row, here a visit
is one step and the question is which rows are visited at all.

### TaskLifecycle and the code

| Variable | In the code |
|---|---|
| `task` | the table `a2a_task`: `state`, `settled`; `overdue` is `deadlineAt <= now()`; `age` is how `updatedAt` compares with the grace period and with the retention period |
| `remote` | the agents' own tasks, what `tasks/get` and `message/send` show; `round` counts the questions asked |
| `obs` | the local variables of each `finalize` under way and of the reconciler: where it is, on which task, with which row and which observation read how long ago |
| `sweep` | the rows `findUnsettled` returned to the current tick |
| `turn` | the local variables of a turn that delegates or resumes |
| `thinking` | the assistant status indicator, in Slack |
| `responded` | the marks the finalizer has made in `event_log` |
| `answers`, `outcome`, `asked` | history: what Slack acknowledged, and how the bot's dealings with each task ended; no guard reads them |

Every await of the source is the border between two actions. `FindRow`,
`Poll`, `Heartbeat`, `SettleTerminal`, `SettleInputRequired` are the legs of
`finalizeRow` and `dispatchTask`; `PostAnswer`, `PostFails`, `Unsettle`,
`Clear`, `Mark` and `PostQuestion`, `Revert` the rest of the two settles;
`StartTick`, `NextRow`, `Expire`, `PollGone`, `FailLost`, `EndSweep`, `Prune`
are `runOnce`; `TurnStarts` to `Retire` are the delegation tool and
`resumeActiveTask`. A failure of a call is an alternative of its own,
switched on by `Faults`: `"db"` (a statement fails), `"poll"` (`tasks/get`, or
the agent is not registered), `"post"` (Slack), `"send"` (`message/send`, or its
result is malformed), `"purge"` (the agent forgets a task), `"crash"`.

`outcome` names the ways a task can end without an answer, so that a property
can say there are no others: `retired` (replaced on the user's reply),
`reported` and `unrecorded` (never recorded; the user was told, or was not),
`abandoned` (the process died, or unsettle failed, before the post), `buried`
(settled by a statement with no post behind it: the best-effort transition of a
resume, or the revert of a question).

### EventIntake and the code

`slack` says whether Slack still owes the event; `del` is the handler of each
POST, from the events endpoint through `runOnEvent` to the background run; `log` is
`event_log` (`accepted` and `responded` are the outcomes that matter); `thread`
is the row of `conversation_thread` and whether a checkpoint exists;
`delegated` the events whose run has delegated a task, whose finalizer may mark
the event at any later time (`TaskMarks`). A message that mentions the bot in a
channel is two events with an `event_id` each. `Fault`s are named after the
calls that fail.

### ThreadTurns and the code

`prior` and `tail` are the promise chain and the Map entry of
`thread-turn-queue.ts`, `inFlight` the Set of `in-flight-turns.ts`, `ctx` what
`sync-thread-context.ts` fetched for a turn, `checkpoint` LangGraph's, read by
`Invoke` and written by `Respond` as a child of what was read: nothing in the
model serialises the turns but the queue. `own`, `other`, `guest` and `human`
are the authors the sync tells apart. `replies` and `omitted` are history.

### Serving and the code

`phase` is the process from SIGTERM to its exit (or SIGKILL); `conn` a request's
connection, which its client may close before the response (`"gone"`) and which
breaks when the process is killed; `job` the promises: an event's `routeEvent` and the run it leaves in
the background, an interaction's handler, a push's `finalize`, a tick of the
reconciler. `pending` is the Set of `in-flight-tasks.ts` and `awaited` the
promises the current `Promise.all` of `waitForIdle` was given: the loop looks
again when they have settled. The server keeps serving until `Close`. `acked`
tells the two ways an interaction's response can leave: with `ctx.ack()`, or
with the end of its handler. `early` is history. `Exit` waits for open requests,
as `server.close` does, and for nothing else.

### BlogPublish, Scheduler, MessageUpdater and the code

`pc` is what an interaction's handler awaits, `out` its updater and the patch it
last sent, `names` the scheduler's Map and `runs` what its timer callbacks hold
on to. `shown` is the one Slack message; `offered` the buttons it has ever had,
since whoever has an old version on screen may still press them; `hasRef`
whether the clicks carry the message's channel and ts; without them, and without
a reply of the `response_url` that names the message (`Acknowledged`), there is no
`chat.update` to fall back to. A patch arrives, is refused, or arrives and its
reply is lost (`"lost"`): it has then used the `response_url` without being
counted. Only the name is compared when a tick asks whether it is still wanted
(`IsRunning`), as in the code.

### Reconciliation and the code

`order` are the unsettled rows by `updatedAt`, `aged` how many of them are past
the grace period, `overdue` the executing ones past their deadline; `tick.window`
is what `findUnsettled` returned and `tick.handles` what `listAgents` did.
`cache` and `fetch` are the registry's, aged from the start of the fetch;
`resolved` is history: how long ago each card arrived.

## 3. The runs

| Run | Question | Bounds |
|---|---|---|
| `lifecycle_safety` | Is a settle elected, an answer posted once, is what it says so, does the row agree with it, is no settled row without an account, does the whole implement `TaskAnswer`, whatever fails? (`SettlementElection`, `AnsweredOnce`, `AnswersAreTrue`, `AnswerMatchesRow`, `SettledAccounted`, `RespondedMeansAnswered`, `OutcomeIsFinal`, `ImplementsTaskAnswer`) | 1 task, 1 push, the reconciler, 2 turns (the second resumes the task or races its end), 1 question, every fault |
| `lifecycle_liveness` | With pushes that may never come, failing posts and forgetful agents, does the reconciler answer every tracked task that ended other than by failing? (`DecidedIsAnswered`) | 1 task, 1 push, 1 turn |
| `intake` | One run and one response per event, no response swallowed by the mark (`MarkNeverSwallows`), no failure notice after a response, nobody ignored, `TaskAnswer` implemented, under lost acks, crashes and the failure of any call | 2 deliveries among 3 events: a mention with a file (two events) and a plain reply |
| `turns` | Turns serialised, the Map entry exact, nothing injected twice, no stranger's message missed, the thread's memory as if each turn ran at once (`ImplementsThreadMemory`), every turn ends | 4 messages, 3 turns, 1 message injected per turn, 2 fetched |
| `serving` | Is what was tracked before the drain ended finished at the exit, is a push cut off only if its sender hung up, does the shutdown end while work keeps coming, is every client that waits answered? (`DrainedWorkIsDone`, `ShutdownEnds`, `EveryRequestAnswered`) | 1 event, 1 interaction, 1 push, 2 ticks |
| `blog` | Does no `response_url` carry more patches than allowed, do handler and watch take turns, do names stay live, do watches end, does the message leave "applying"? (`PatchesWithinLimit`, `PatchesSerialized`, `NamesAreLive`, `WatchEnds`, `ApplyingIsTransient`) | 1 command, 1 selection, 2 Applys, 1 Cancel, 1 PR name; `MaxUses` 2, `Ttl`, `Interval`, `MaxDuration` and `MaxTasks` 1 |
| `reconciliation` | Is a handle never served past its TTL, does no row get in front of another, and is an overdue row failed whatever its neighbours and the cards do, if its own agent ever stops reporting progress? (`HandlesAreFresh`, `NobodyOvertakes`, `BacklogReached`) | 2 rows of 2 agents, `Limit` 1, `Ttl` 1 |
| `failed_answer`, `question_stuck`, `indicator`, `answers_unseen`, `drain` | what a comment says and the code does not do (section 6) | the smallest instance that shows it |

Why the bounds are enough. A settlement involves one task, so its races are
between actors over one row: a push handler may be called again and again, and
with the reconciler gives two observers, one of which also expires, buries and
prunes; the second turn resumes or replaces. One question is enough for a row to
go from executing to waiting and back, and two (`MaxRounds = 2`,
`question_stuck`) for a question to be asked of a row read at the previous one.
That more pushes, turns and tasks change nothing is what the proofs of section 4
say. In `intake` two deliveries are an event and its redelivery, or the two
events of one message, or two messages. `Limit = 1` and `Pages = 2` make the
truncation of the injected history and of the fetched pages happen with four
messages. In `serving` an event can be routed, and its run begun, while the drain
waits for a tick, and a tick begin while it waits for the run. In `blog` a use limit of two is passed by an Apply's three
patches (applying, applied, verdict), so the change to `chat.update` happens in
the middle of one; a limit of one watch and one name make the second refused, and
one that comes after it start under the same name. In `reconciliation` a window of one row of two is the window of 100 of
more than 100, and `Ttl = 1` is enough for a fetch that outlives it.

Bounds that are not runs' constants: ages and timers are capped where older
makes no difference (`Older`, `Elapse`); at most `MaxTicks`
ticks of the reconciler in `Serving`.

Deadlock is checked in the lifecycle runs and in `serving`, where only a process
that has ended stops (`Over`); in `blog` and `reconciliation` time can always
pass, so the check says nothing there. It is off in `intake` and `turns`: once
every delivery, or every turn, has ended nothing more happens in the instance.

### Fairness

`TaskLifecycle!Fairness`: time passes (`GraceElapses`), the interval timer
fires (`StartTick` and the steps of a tick), the calls a handler has started
return with some result (`WF` on the observers' steps), and an outage of the
agent or of Slack does not last for ever (`SF` on the reconciler's `Poll`, on
`PostAnswer` and `PostQuestion`: a call that is tried again and again succeeds
at last). Nothing is assumed of pushes, which nobody retries, nor of the remote
agent, nor of users. `EventIntake!Fairness`: Slack makes the deliveries it
owes, and a handler's calls return. `ThreadTurns!FairSpec`: while some turn can
take a step, some turn does; every action of a turn advances that turn, so this is enough.
`Serving!Fairness`: the body of a request arrives unless its client hangs up,
handlers end one way or the other, and the event loop runs what is ready; nothing
is assumed of who calls or hangs up, and `ShutdownEnds` allows for a SIGKILL. `BlogPublish!Fairness`: calls made for
an Apply and its watch return or throw, timers fire, time goes on; the handlers
of commands, selections and Cancels may hang. `Reconciliation!Fairness`: the
interval fires and a tick goes on, a card request is answered or fails, time
passes, and (`SF` on `Expire`) the database does not refuse one row's deadline
update for ever. Nothing is assumed of the agents there: `BacklogReached` is asked
only of a row whose agent does not report progress for ever.

## 4. The proofs

### The task lifecycle

Assumptions: `NamesAssumption` (the reconciler is not a push handler, `NoTask`
is no task), `StatesAssumption` (replies and endings are task states),
`RoundsAssumption` (`MaxRounds` is a natural number). Nothing is assumed of the
number of tasks, pushes and turns, nor of `Faults`.

*Type correctness* (`TypeCorrect`): `TypeOK` needs `ActorsOK` (an actor that
works on a task knows which, and a claimant holds a terminal state). One lemma
per group of actions.

*The inductive invariant* (`Invariant`). That Slack never acknowledges two
answers does not follow from the table alone: between winning a transition and
posting, the row says "settled" whether or not the answer will come. `IInv`
therefore relates the table to the actors and to history:

- `SettlementElection`: at most one observer holds a task; meanwhile its row is
  settled in the state it will report, and nothing has been concluded before;
- `SettledAccounted`: a settled row is held by somebody or concluded;
- `ClosedStaysClosed`: a concluded task's row, if any, is settled;
- `RecordingOK`: a task is untracked and open until the one turn that sent it
  records it (else `recordDelegated` could reopen an answered one);
- `AnswersOK`, `AnswerMatchesRow`: answers and outcome agree with each other
  and with the row;
- `MarksOK`, `RespondedMeansAnswered`: a mark follows an acknowledged post.

Why it is preserved: `Applies` demands an unsettled row, an unsettled row is
neither held nor concluded, so whoever wins is the only holder and the first;
`Unsettled` is run only by the holder; `Pruned` takes only settled rows that are
old, and a held row is not. The proof splits the invariant into what is said of
one task: settlement (`Settle` lemmas), recording (`Record` lemmas) and marks
(`Mark` lemmas), with one lemma for each group of actions in each.

*From it*: `ElectionHolds`, `NeverAnsweredTwice`, `RowsMatchAnswers`,
`SettledIsAccounted`, `ClosedIsClosed`, `MarksAreEarned`; and the action
property `OutcomesAreFinal`. `IInv` itself and `ClosedStaysClosed` are stated by
theorems only; no run lists them.

*Answers are true* (`AnswersHold`). `AnswersAreTrue` relates what the thread was
told to the agent's own task: it ended that way, or is forgotten, or the answer is
a failure by a deadline that has passed and that nothing has replaced. What an
answer rests on is several awaits old when it is posted, so the proof carries it
along (`Grounded`): from `tasks/get`, or the expired deadline, through the settle
to the post. It lasts because a remote task that has ended only changes by being
forgotten (`RemoteStays`), and because a deadline is re-armed only by a transition,
which no settled row takes (`OverdueStays`).

*Which faults cost an answer* (`OnlyFaultsForfeit`). With `"db"` and `"crash"`
out of `Faults`, and whatever else in it, `AnswersArrive`: a settled row is
answered, held, replaced on the user's reply, or buried. `SettledAccounted` is
the weaker fact for all faults. The proof adds to the invariant that a task whose
failure the user was told of has no row (`NeverForfeited`), which lasts because
only `recordDelegated` makes rows and only of open tasks (`ClosedStaysUntracked`).

*Refinement* (`Implementation`): `TaskLifecycle` implements `TaskAnswer` under
`Phase`. A step that wins a terminal transition is a `Claim`, `PostAnswer` is an
`Answer`, `Unsettle` a `Release`; `UnsettleFails`, `RecordFails`, a retired or
buried row and a crash are a `Close`, and every other step changes no phase.

### The event intake

Assumptions: `MessagesAssumption` (a message is of one kind),
`EventsAssumption` (`NoEvent` is no event), `FaultsAssumption`. Nothing is assumed of how many messages and
deliveries there are, nor of which calls fail.

`OneRunPerEvent` is nearly inductive. What it lacks is that an event whose row
was deleted is not run a second time after it was answered: `Prune` deletes the
rows of answered events, and `Rollback` those of events that Slack may deliver
again. `AbsentOK` tells the two apart: an event without a row is still open, or
Slack no longer owes it and no delivery of it is under way. `FateOK` ties the
response count to the fate and the mark, and `ListenOK` says that a run that
reaches its end has made the thread listen.

Every step of a delivery is shown once to be one of six moves of its own event
(`Outside`, `Wins`, `Inside`, `Returns`, `Gives`, `Answers`) that leaves the
other events alone (`Frame`); that the moves keep the invariant (`MovesKeep`)
and that each is a step of `TaskAnswer` or changes no phase (`MovesImplement`)
is then proved of the six moves, not of the fourteen actions. *From it*:
`OneRun`, `RespondedOnce`, `AnswersStayMarked`, `AnsweredListen`, `NoLateNotice`
and `Implementation`.

*The mark never swallows a response* (`SwallowsNothing`). `markResponded` refuses
an event that is marked already, and the run then posts nothing. The refusal is
right only if whoever marked the event has answered it: a run that has a response
of its own (it is not `quiet`) has delegated nothing, so no finalizer has marked
its event, and no earlier run has (`MarkOK`).

*Nothing is lost* (`NothingIsLost`). If the process does not die and Slack takes
the notices (`"crash"` and `"notice"` not in `Faults`), no run ends with its event
unanswered, not delegated and nobody told, whatever other calls fail. It needs
`MarkOK`, and `ToldFirst`: a delivery that is about to roll its event back has
already told the user.

### The turns of a thread

Assumption: `BoundsAssumption`. The queue is a chain of promises, each call
waiting for the one that was last when it came. That only one of them runs needs
the chain to be one chain: `QueueInv` says that the tail is the last live call
(`TailLive`, `EntryIsLast`), that a call waits for one that is in the queue
(`PriorsQueued`), that no two wait for the same (`PriorsDiffer`), that at most
one waits for nobody (`OneHead`) and that there is no circle. `NoCircle` replaces
an induction along the chain: of any set of live calls that is not empty, one
waits for a call outside it, or for none. `OneTurnAtATime` and
`TheLastHasTheEntry` follow.

That the chain is never stuck (`NeverStalls`) comes from `NoCircle` too: one of the
live calls waits for no live call, and it is running or may start.

`AgentInv` builds on it: the checkpoint a turn read is still the thread's when
it writes, because no other turn has run since. So what it writes contains what
was there (`HistoryIsKept`), what the sync selected was in no checkpoint
(`NothingTwice`), and a message of a stranger the cursor passes is written with
it (`NoStrangerMissed`). The cursor is the greatest ts of a finite set, whose
existence comes from the well-founded order of the naturals.

*Refinement* (`Implementation`): a turn reads the cursor, fetches pages, invokes
the agent and writes, each in a step of its own, and any of them may fail, but the
step that writes is one `Remember` of `ThreadMemory` and every other step leaves
the memory alone. It uses that the checkpoint the turn selected with is still the
thread's, and that its own message is not yet in it (`TurnsLeft`: whoever is in it
has left the queue). `HistoryIsKept` rests on the same invariant and is stated by a
theorem only.

### The shutdown

Assumption: events, interactions and pushes are different requests
(`ServingAssumption`). `NothingTrackedIsCutOff` is `DrainedWorkIsDone` for any
number of each. It is not inductive. `IInv` adds: while the process lives
`pending` holds exactly the tracked promises that run (`PendingIsRunning`); once
the drain is over, those that began before are done (`EarlyDone`), which holds
because `waitForIdle` returns only when it finds `pending` empty, and because
a route starts its event's run before it ends itself; a push's
`finalize` runs only while its request is open or its sender has hung up, and no
request is open after the close (`PushesHeld`, `ExitsClosed`). So what the exit may
cut off of a push is the work of a sender that has gone, and no more.

### The blog plugin

Assumptions: `SchedulerAssumption`, `UpdaterAssumption`, `WatchesAssumption` (the
watches are those of the Applys), `InteractionsAssumption` (interactions of
different kinds differ).
`UrlsKeepTheirLimit` is `PatchesWithinLimit`: although the counter is raised
after the reply, no more than the limit is ever sent. It rests on `Accounted`:
patches sent are patches counted, plus one that is in flight and had a use left
when it was sent. That there is only one in flight is `HandlerFirst`: a watch
is scheduled by the last step of its handler (`OnePatchAtATime`).
`NamesStayLive` is `NamesAreLive`, by induction over `schedule`, `transition`
and the ticks: an entry is made only under a free name and removed only by the
task that has it.

`WorkIsBounded`: `schedule` compares the number of *names* with the limit, not
the number of tasks at work. The tasks at work inject into the names
(`NamesAreLive`), so they are no more (`FS_Injection`). That is so because nothing
in the source cancels a task; no action of the model does.

`ApplyingIsOwned` is the safety half of `ApplyingIsTransient`, for any
interactions: while the message shows "applying" and every patch so far was
acknowledged, some Apply awaits the service or has a later text on its way, so
somebody is there to replace it. It needs `WatchesConclude`: a watch never patches
"applying".

### The reconciler's window and the agent cache

Assumption: `ReconciliationAssumption`. `TypeCorrect` says that `order` holds every
unsettled row once and a window no row twice. What is left of `order` without a row
(`Others`) is described by the row's place (`PlaceOf`) and not by recursion, which
is what makes its lemmas (`RemoveAtProperties`, `OthersProperties`) provable.

`NobodyIsOvertaken` is `NobodyOvertakes`: the rows before a row only ever become
fewer until it is written or settled itself, because every write puts a row at the
end of `order`, and a row that `findUnsettled` considers goes on being considered.
It is the safety half of `BacklogReached`: a row is kept from a tick by those that
were before it, and by nobody new.

`FreshHandles` is `HandlesAreFresh`: a card arrives after its fetch began, so a
cache dated when the fetch began is at least as old as every handle in it
(`NoOlder`); and a fetch runs only while there is no valid cache (`OneSource`), so
a card that arrives never makes a handle look fresh that the cache took from an
earlier fetch.

## 5. What is only model-checked, and what is not modelled

Only checked by TLC: liveness (`DecidedIsAnswered`, `NobodyIgnored`, `TurnsEnd`,
`ShutdownEnds`, `EveryRequestAnswered`, `WatchEnds`, `ApplyingIsTransient`,
`BacklogReached`), which is out of reach of the prover, as is `ENABLED`. For
`NobodyIgnored`, `TurnsEnd`, `ApplyingIsTransient` and `BacklogReached` a part of
the safety they rest on is proved (`NothingIsLost`, `NeverStalls`,
`ApplyingIsOwned`, `NobodyIsOvertaken`); what fairness adds to it is left to TLC.
The runs of section 6 are counterexamples and have no theorem. Every invariant,
every action property and every refinement of a passing run has one.

Left out of the modelled parts: texts (paraphrasing, block formatting, the
usage-limit text), logs and counters; several waiting tasks are resumed in any
order, the code takes the newest; the reuse of an A2A context id; the contents
of a message beyond its author and ts; thumbnails and downloads, which only fail
or not. Outside `BlogPublish` a Slack call that succeeded but whose reply was
lost is not distinguished from one that failed before reaching Slack:
`AnsweredOnce` and `OneResponse` count acknowledged posts. In `Serving` which
plugin an interaction leads to, and whether a request is refused for its
signature or its payload, is a free choice. In `Scheduler` cancelling through a
handle and `listActive`, in `MessageUpdater` the delete and the updater of a
posted message, are left out because nothing in the source calls them.

Not modelled, and why: the persona paraphraser and the model adapters, the
configuration, logging, counters and migrations keep no state that two actors
share; file downloads and the LLM loop are I/O and external. `PROJECT.json`
lists each component with its status.

## 6. Where the code and its comments disagree

Each is a run TLC ends with a counterexample.

1. `failed_answer`: `response-finalizer.ts:191-192` says a refused post can be
   retried after `unsettle()`. Not for a task that ended `failed`: the row is
   left in `failed`, and `transitionGuard` lets `failed` replace only
   `submitted` and `working`.
2. `question_stuck`: `response-finalizer.ts:293-297` says the revert keeps a row
   from being stuck at `input-required` with its question never posted. It
   reverts to the state the row was *read* in, which is `input-required` when the
   question before was resumed after the read.
3. `indicator`: `response-finalizer.ts:380-384` gates the report on the
   heartbeat's own transition so that it cannot resurrect the indicator; the
   answer and the clear may come between the two.
4. `answers_unseen`: `sync-thread-context.ts:96-97` says the bot's own messages
   are covered by the checkpoint's AIMessages. The answers of delegated tasks,
   posted by the finalizer, are not.
5. `drain`: `server/shutdown.ts:22-26` says the shutdown waits for whatever is in
   flight. An interaction's handler past `ctx.ack()` is neither tracked nor holds
   a request open, and is cut off: a publish accepted before the signal may leave
   its message at "applying". The property leaves aside requests whose client hung
up.

Seen on the models and not given a run:

- a heartbeat built on an older `tasks/get` has no guard and moves a row back
  from `input-required`; the next observer posts the same question again, or the
  deadline the question had stopped fails the task while its user is being asked,
  which `task-reconciler.test.ts:363` excludes for a row that is still
  `input-required` (`response-finalizer.ts:366`);
- an agent that never stops pushing progress keeps its overdue row in its grace,
  and no tick looks at the deadline: the exception `BacklogReached` makes for it is
  needed, TLC finds the loop without it. The comment at `response-finalizer.ts:363`
  wants a live task left alone, `a2a-counters.ts:20-21` speaks of a task that
  "never updated before its deadline" (`response-finalizer.ts:366`);
- a push whose sender hangs up before the exit is cut off, perhaps between its
  settle and its post: its request is all that holds the close, and its `finalize`
  is not tracked (`push-notification-endpoint.ts:74`, `shutdown.ts:45-53`);
- an event that was rolled back is not redelivered, for its 200 left with the
  ack: the user's notice is all there is (`plugin.ts:426`);
- a resume that `message/send` answers with a terminal state at once settles the
  row with no post (`buried`, `resume-active-task.ts:300-312`);
- a task whose `recordDelegated` failed is told of to nobody, because a turn that
  delegated posts no reply (`unrecorded`, `delegation-tool-factory.ts:252-271`,
  `dispatcher.ts:165-188`);
- a message whose own turn is in flight is not injected into another, and is in
  no checkpoint if its turn then fails or resumes a task
  (`sync-thread-context.ts:100-102`);
- a mention with a file is answered twice if its `app_mention` is recorded first,
  which `plugin.ts:258-261` accepts;
- a question nobody answers, and a `failed` row whose post was refused, keep
  their place in `findUnsettled`'s window: a hundred of them hide every younger
  row from the reconciler, which is the exception `BacklogReached` names
  (`a2a-task-tracker.ts:241`);
- an event that arrives between the end of the drain and the close of the server
  is acknowledged and cut off (`shutdown.ts:45-53`);
- a second Apply of a PR, or one beyond the scheduler's limit, has no watch, which
  only a log tells (`ci-watcher.ts:179`).

## 7. Plan

Done, in this order: `A2aTaskTracker` and `TaskLifecycle` (where an error costs
an answer), `TaskAnswer`, `EventIntake`, `ThreadTurns`, `ThreadMemory`, `Serving`,
`MessageUpdater`, `Scheduler`, `BlogPublish`, `Reconciliation`; the proofs of
every state machine, and that each abstract specification is implemented. Next:

1. Composition: `EventIntake` with `ThreadTurns` through the dispatcher, and
   `EventIntake!TaskMarks` as what `TaskLifecycle!Mark` does.
2. What the abstract specifications imply by themselves (an answer is final, the
   memory only grows), so that it is inherited by refinement.
