---------------------------- MODULE BlogPublish ----------------------------
(* The blog plugin: one Slack message that shows a list of notes, then a     *)
(* publish plan, then what became of it, and the interactions that move it   *)
(* on: slash commands, the selection, Apply and Cancel clicks, and the CI    *)
(* watch an Apply starts (plugins/blog/plugin.ts, handlers/*.ts,             *)
(* ci-watcher.ts, over scheduler.ts and message-updater.ts).  Every          *)
(* interaction has its own context, updater and response_url.  Slack and the *)
(* publisher service are external: each call of theirs may fail.             *)
EXTENDS Scheduler, MessageUpdater

CONSTANTS
  Command,  \* slash commands: /blog-post, /blog-status, /blog-cancel
  Select,   \* clicks of the selection's Submit button
  Apply,    \* clicks of Apply
  Discard,  \* clicks of Cancel
  Faults    \* what may go wrong: service, patch, lost, notice

ASSUME WatchesAssumption == Task = Apply
ASSUME InteractionsAssumption ==
  /\ Command \cap (Select \cup Apply \cup Discard) = {}
  /\ Select \cap (Apply \cup Discard) = {} /\ Apply \cap Discard = {}

VARIABLES
  pc,          \* per interaction: what its handler awaits
  out,         \* per interaction: its updater and the patch it has in flight
  shown,       \* what the message shows
  hasRef,      \* the clicks on it name it (pickRefFromBlockActions)
  offered,     \* the buttons it has ever offered
  patchFailed  \* history: Slack has refused a patch, or its reply was lost

vars == <<names, runs, pc, out, shown, hasRef, offered, patchFailed>>

Interaction == Command \cup Select \cup Apply \cup Discard

\* plan: with an Apply button; blocked: with none, or a disabled one.
Texts == {"none", "notes", "plan", "blocked", "applying", "applied", "already",
          "failed", "error", "discarded", "verdict", "timeout"}

HandlerStates == {"idle", "call", "notice", "report", "patch", "done"}

\* text and via of the patch last sent; posts counts those sent through the
\* response_url, acknowledged or not.
Unused == [text |-> "none", via |-> "none", upd |-> NewUpdater(FALSE), posts |-> 0]

TypeOK ==
  /\ SchedulerTypeOK
  /\ pc \in [Interaction -> HandlerStates]
  /\ out \in [Interaction ->
       [text : Texts, via : {"url", "update", "none"}, upd : Updaters, posts : Nat]]
  /\ shown \in Texts
  /\ hasRef \in BOOLEAN
  /\ offered \subseteq {"submit", "apply", "cancel"}
  /\ patchFailed \in BOOLEAN

Init ==
  /\ SchedulerInit
  /\ pc = [i \in Interaction |-> "idle"]
  /\ out = [i \in Interaction |-> Unused]
  /\ shown = "none" /\ offered = {}
  /\ hasRef \in BOOLEAN
  /\ patchFailed = FALSE

---------------------------------------------------------------------------
(* The message and the patches on their way to it.                         *)

\* renderPlanBlocks: no Apply button over its limit, a disabled one for a plan
\* with errors; Cancel always.
Buttons(t) ==
  CASE t = "notes" -> {"submit"}
    [] t = "plan" -> {"apply", "cancel"}
    [] t = "blocked" -> {"cancel"}
    [] OTHER -> {}

\* Whoever still sees the buttons of an earlier text may yet press them.
Shows(t) == shown' = t /\ offered' = offered \cup Buttons(t) /\ UNCHANGED hasRef

KeepsMessage == UNCHANGED <<shown, hasRef, offered>>

\* updater.patch(t): how it goes out is decided at once, the rest is awaited.
Sent(o, t) ==
  [o EXCEPT !.text = t, !.via = Via(o.upd),
            !.posts = @ + (IF Via(o.upd) = "url" THEN 1 ELSE 0)]

Sends(i, t) == out' = [out EXCEPT ![i] = Sent(@, t)]

\* ctx.originalUpdater() is created by the handler's first patch.
FirstSends(i, t) ==
  out' = [out EXCEPT ![i] = Sent([Unused EXCEPT !.upd = NewUpdater(hasRef)], t)]

Counted(i) ==
  \E named \in BOOLEAN : out' = [out EXCEPT ![i].upd = Acknowledged(@, out[i].via, named)]

\* The context of an interaction that will patch no more is gone.
Released(i) == out' = [out EXCEPT ![i] = Unused]

Goes(i, st) == pc' = [pc EXCEPT ![i] = st]

\* A patch arrives and is acknowledged; or it is refused, or has no way out,
\* or arrives and its reply is lost.
Arrives(i) == out[i].via # "none" /\ Shows(out[i].text) /\ UNCHANGED patchFailed

Fails(i) ==
  /\ out[i].via = "none" \/ "patch" \in Faults
  /\ KeepsMessage \/ (out[i].via # "none" /\ "lost" \in Faults /\ Shows(out[i].text))
  /\ patchFailed' = TRUE

---------------------------------------------------------------------------
(* The handlers.  Each acks first, so Slack's response is out at once.     *)

MayStart(i) ==
  /\ pc[i] = "idle"
  /\ i \in Select => "submit" \in offered
  /\ i \in Apply => "apply" \in offered
  /\ i \in Discard => "cancel" \in offered

\* Not an allowed user, or an action of no handler: ack, with a text or none.
NotForUs(i) ==
  /\ MayStart(i)
  /\ Goes(i, "done")
  /\ KeepsMessage /\ UNCHANGED <<names, runs, out, patchFailed>>

\* handlePostCommand, handleStatusCommand, handleCancelCommand with a number,
\* handleSelectSubmit with a selection: a call of the service.
StartCall(i) ==
  /\ i \in Command \cup Select
  /\ MayStart(i)
  /\ Goes(i, "call")
  /\ KeepsMessage /\ UNCHANGED <<names, runs, out, patchFailed>>

\* A number that does not parse, nothing selected, a button value that does
\* not decode: only a notice.
StartNotice(i) ==
  /\ i \notin Discard
  /\ MayStart(i)
  /\ Goes(i, "notice")
  /\ KeepsMessage /\ UNCHANGED <<names, runs, out, patchFailed>>

StartApply(a) ==
  /\ MayStart(a)
  /\ Goes(a, "patch")
  /\ FirstSends(a, "applying")
  /\ KeepsMessage /\ UNCHANGED <<names, runs, patchFailed>>

StartDiscard(x) ==
  /\ MayStart(x)
  /\ Goes(x, "patch")
  /\ FirstSends(x, "discarded")
  /\ KeepsMessage /\ UNCHANGED <<names, runs, patchFailed>>

---------------------------------------------------------------------------
(* The service answers.                                                    *)

\* listNotes, listPrs, cancelPr: the answer goes out as a followUp.
CommandAnswered(k) ==
  /\ k \in Command
  /\ pc[k] = "call"
  /\ Goes(k, "notice")
  /\ KeepsMessage /\ UNCHANGED <<names, runs, out, patchFailed>>

\* buildPlan.
PlanBuilt(s) ==
  /\ s \in Select
  /\ pc[s] = "call"
  /\ Goes(s, "patch")
  /\ \E t \in {"plan", "blocked"} : FirstSends(s, t)
  /\ KeepsMessage /\ UNCHANGED <<names, runs, patchFailed>>

\* Mutant: the watch does not wait for the patch that shows the PR.
AppliedUnawaited(a) ==
  \E n \in Name :
    /\ pc[a] = "call"
    /\ Goes(a, "patch")
    /\ Sends(a, "applied")
    /\ Schedule(a, n)
    /\ KeepsMessage /\ UNCHANGED patchFailed

\* client.apply: success; which PR it names is first looked at below.
Applied(a) ==
  /\ pc[a] = "call"
  /\ Goes(a, "patch")
  /\ Sends(a, "applied")
  /\ KeepsMessage /\ UNCHANGED <<names, runs, patchFailed>>

\* Mutant: planChanged, alreadyApplied and failed leave the message alone.
NotAppliedUnshown(a) ==
  /\ pc[a] = "call"
  /\ Goes(a, "done")
  /\ KeepsMessage /\ UNCHANGED <<names, runs, out, patchFailed>>

\* client.apply: planChanged, with the new plan, alreadyApplied or failed.
NotApplied(a) ==
  /\ pc[a] = "call"
  /\ Goes(a, "patch")
  /\ \E t \in {"plan", "blocked", "already", "failed"} : Sends(a, t)
  /\ KeepsMessage /\ UNCHANGED <<names, runs, patchFailed>>

\* A call of the service rejects, whatever it has done: apply shows the error.
ServiceFails(i) ==
  /\ pc[i] = "call" /\ "service" \in Faults
  /\ IF i \in Apply
     THEN Goes(i, "patch") /\ Sends(i, "error")
     ELSE Goes(i, "report") /\ UNCHANGED out
  /\ KeepsMessage /\ UNCHANGED <<names, runs, patchFailed>>

---------------------------------------------------------------------------
(* A handler's patch comes back.                                           *)

\* "applying": on to client.apply.
ApplyingShown(a) ==
  /\ pc[a] = "patch" /\ out[a].text = "applying"
  /\ Arrives(a) /\ Counted(a)
  /\ Goes(a, "call")
  /\ UNCHANGED <<names, runs>>

\* "applied": onSuccess starts the watch; if the scheduler refuses, only a log
\* says so.
AppliedShown(a) ==
  /\ pc[a] = "patch" /\ out[a].text = "applied"
  /\ Arrives(a)
  /\ \E n \in Name :
       /\ Schedule(a, n)
       /\ IF Accepts(n) THEN Counted(a) ELSE Released(a)
  /\ Goes(a, "done")

\* patchError: shown or not, the error itself is still reported.
ErrorPatched(a) ==
  /\ pc[a] = "patch" /\ out[a].text = "error"
  /\ Arrives(a) \/ Fails(a)
  /\ Released(a)
  /\ Goes(a, "report")
  /\ UNCHANGED <<names, runs>>

OutcomeShown(i) ==
  /\ pc[i] = "patch" /\ out[i].text \notin {"applying", "applied", "error"}
  /\ Arrives(i)
  /\ Released(i)
  /\ Goes(i, "done")
  /\ UNCHANGED <<names, runs>>

PatchFails(i) ==
  /\ pc[i] = "patch" /\ out[i].text # "error"
  /\ Fails(i)
  /\ Released(i)
  /\ Goes(i, "report")
  /\ UNCHANGED <<names, runs>>

---------------------------------------------------------------------------
(* Ephemeral notices: ctx.followUp, which counts no use of the url.        *)

\* /blog-post's notice is the message itself.
NoticeSent(i) ==
  /\ pc[i] = "notice"
  /\ Goes(i, "done")
  /\ KeepsMessage \/ (i \in Command /\ shown = "none" /\ Shows("notes"))
  /\ UNCHANGED <<names, runs, out, patchFailed>>

NoticeFails(i) ==
  /\ pc[i] = "notice" /\ "notice" \in Faults
  /\ Goes(i, "report")
  /\ KeepsMessage /\ UNCHANGED <<names, runs, out, patchFailed>>

\* reportError: one followUp, whose own failure is only logged.
Reported(i) ==
  /\ pc[i] = "report"
  /\ Goes(i, "done")
  /\ KeepsMessage /\ UNCHANGED <<names, runs, out, patchFailed>>

---------------------------------------------------------------------------
(* The CI watch, with the updater of the click that started it.            *)

WatchTicks(a) ==
  /\ StartsTick(a)
  /\ KeepsMessage /\ UNCHANGED <<pc, out, patchFailed>>

\* getCiStatus: pending, or it threw and onError logged it.
WatchGoesOn(a) ==
  /\ Continues(a)
  /\ KeepsMessage /\ UNCHANGED <<pc, out, patchFailed>>

\* getCiStatus: success or failure.
WatchDecides(a) ==
  /\ runs[a].st = "ticking"
  /\ Moves(a, "wrapup")
  /\ Sends(a, "verdict")
  /\ KeepsMessage /\ UNCHANGED <<pc, patchFailed>>

WatchTimesOut(a) ==
  /\ TimesOut(a)
  /\ Sends(a, "timeout")
  /\ KeepsMessage /\ UNCHANGED <<pc, patchFailed>>

\* safePatch swallows a failure: the watch ends either way.
WatchPatched(a) ==
  /\ Completes(a) \/ LateEnds(a)
  /\ Arrives(a) \/ Fails(a)
  /\ Released(a)
  /\ UNCHANGED pc

\* The clocks of whoever may still look at them.
InUse(a) ==
  \/ pc[a] = "call"
  \/ pc[a] = "patch" /\ out[a].text \in {"applying", "applied"}
  \/ runs[a].st \in {"armed", "ticking"}

TimePasses ==
  /\ Elapse
  /\ out' = [i \in Interaction |->
       IF i \in Apply /\ InUse(i) THEN [out[i] EXCEPT !.upd = Older(@)] ELSE out[i]]
  /\ KeepsMessage /\ UNCHANGED <<names, pc, patchFailed>>

HandlerStep(i) ==
  \/ CommandAnswered(i) \/ PlanBuilt(i) \/ ServiceFails(i)
  \/ OutcomeShown(i) \/ PatchFails(i)
  \/ NoticeSent(i) \/ NoticeFails(i) \/ Reported(i)

ApplyStep(a) ==
  \/ Applied(a) \/ NotApplied(a)
  \/ ApplyingShown(a) \/ AppliedShown(a) \/ ErrorPatched(a)

WatchStep(a) ==
  \/ WatchTicks(a) \/ WatchGoesOn(a) \/ WatchDecides(a) \/ WatchTimesOut(a)
  \/ WatchPatched(a)

Next ==
  \/ \E i \in Interaction : NotForUs(i) \/ StartCall(i) \/ StartNotice(i) \/ HandlerStep(i)
  \/ \E a \in Apply : StartApply(a) \/ ApplyStep(a) \/ WatchStep(a)
  \/ \E x \in Discard : StartDiscard(x)
  \/ TimePasses

Spec == Init /\ [][Next]_vars

\* The calls of an Apply and of its watch return or throw, timers fire, and time
\* goes on; the other handlers may hang.
Fairness ==
  /\ \A a \in Apply : WF_vars(HandlerStep(a) \/ ApplyStep(a)) /\ WF_vars(WatchStep(a))
  /\ WF_vars(TimePasses)

FairSpec == Spec /\ Fairness

---------------------------------------------------------------------------
(* Properties.                                                             *)

\* A response_url never carries more patches than the code allows itself, its
\* handler's and its watch's together, acknowledged or not, though the counter
\* is raised only after the reply (message-updater.ts:76).
PatchesWithinLimit == \A i \in Interaction : out[i].posts <= MaxUses

\* That rests on this: an updater never has two patches in flight, its
\* handler's and its watch's (apply-button.ts:90, ci-watcher.ts).
PatchesSerialized ==
  \A a \in Apply : ~(pc[a] = "patch" /\ runs[a].st \in {"wrapup", "late"})

\* A watch comes to an end, by a verdict or by its time, whatever its ticks and
\* patches meet with (scheduler.ts run, ci-watcher.ts onError).
WatchEnds == \A a \in Apply : runs[a].st = "armed" ~> runs[a].st = "ended"

\* The message does not stay at "applying", however clicks overlap, unless a
\* patch failed (apply-button.ts handleApplyResult, patchError).
ApplyingIsTransient == shown = "applying" ~> shown # "applying" \/ patchFailed
=============================================================================
