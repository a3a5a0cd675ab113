------------------------- MODULE BlogPublish_proofs -------------------------
(* Proofs about BlogPublish and the scheduler and updaters it uses, for any  *)
(* interactions, names, limits and times.                                    *)
EXTENDS BlogPublish, FiniteSetTheorems, TLAPS

USE SchedulerAssumption, UpdaterAssumption, WatchesAssumption

AtWork == {"armed", "ticking", "wrapup"}

\* The scheduler's part of the invariant.
SInv == SchedulerTypeOK /\ NamesAreLive

Outs == [text : Texts, via : {"url", "update", "none"}, upd : Updaters, posts : Nat]

MessageOK ==
  /\ shown \in Texts
  /\ hasRef \in BOOLEAN
  /\ offered \subseteq {"submit", "apply", "cancel"}
  /\ patchFailed \in BOOLEAN

\* A patch of the interaction's updater is on its way.
InFlight(i) == pc[i] = "patch" \/ (i \in Apply /\ runs[i].st \in {"wrapup", "late"})

Flying(i) == InFlight(i) /\ out[i].via = "url"

\* A watch runs only when its handler is done.
HandlerFirst(i) == i \in Apply /\ pc[i] # "done" => runs[i].st = "none"

\* Every patch sent through the url is counted or in flight, and that one had
\* a use left.
Accounted(i) ==
  /\ Flying(i) => out[i].posts = out[i].upd.uses + 1 /\ out[i].upd.uses < MaxUses
  /\ ~Flying(i) => out[i].posts = out[i].upd.uses

IInv ==
  /\ SInv
  /\ MessageOK
  /\ pc \in [Interaction -> HandlerStates]
  /\ out \in [Interaction -> Outs]
  /\ \A i \in Interaction : HandlerFirst(i) /\ Accounted(i)

-----------------------------------------------------------------------------
(* The scheduler.                                                          *)

LEMMA IdleIsRun ==
  ASSUME NEW st \in RunStates
  PROVE  Idle(st) \in Runs /\ Idle(st).st = st
<1> DEFINE n == CHOOSE m \in Name : TRUE
<1>1. n \in Name
  OBVIOUS
<1> HIDE DEF n
<1>2. Run(st, n, 0) \in Runs /\ Run(st, n, 0).st = st
  BY <1>1 DEF Run, Runs
<1>3. QED BY <1>2 DEF Idle, n

LEMMA RunIsRun ==
  ASSUME NEW n \in Name
  PROVE  /\ Run("armed", n, Interval) \in Runs
         /\ Run("armed", n, Interval).st = "armed"
         /\ Run("armed", n, Interval).name = n
BY DEF Run, Runs, RunStates

LEMMA ScheduleKeeps ==
  ASSUME SInv, NEW t \in Task, NEW n \in Name, runs[t].st = "none", Schedule(t, n)
  PROVE  SInv' /\ runs'[t].st \in {"armed", "refused"} /\ \A u \in Task \ {t} : runs'[u] = runs[u]
<1> USE DEF SInv, SchedulerTypeOK
<1>0. runs[t].st \notin AtWork /\ \A m \in Active : names[m] # t
  BY DEF NamesAreLive, AtWork
<1>1. CASE Accepts(n)
  <2>1. names' = [names EXCEPT ![n] = t] /\ runs' = [runs EXCEPT ![t] = Run("armed", n, Interval)]
    BY <1>1 DEF Schedule
  <2>2. SchedulerTypeOK' /\ runs'[t].st = "armed" /\ runs'[t].name = n
    BY <2>1, RunIsRun
  <2>3. \A u \in Task \ {t} : runs'[u] = runs[u]
    BY <2>1
  <2>4. names'[n] = t /\ \A m \in Name \ {n} : names'[m] = names[m]
    BY <2>1
  <2>5. names[n] = NoTask
    BY <1>1 DEF Accepts
  <2>6. \A u \in Task : runs[u] \in Runs
    OBVIOUS
  <2>7. NamesAreLive'
    BY <1>0, <2>2, <2>3, <2>4, <2>5, <2>6 DEF NamesAreLive, Active, Runs
  <2>8. QED BY <2>2, <2>3, <2>7
<1>2. CASE ~Accepts(n)
  <2>1. names' = names /\ runs' = [runs EXCEPT ![t] = Idle("refused")]
    BY <1>2 DEF Schedule
  <2>2. SchedulerTypeOK' /\ runs'[t].st = "refused"
    BY <2>1, IdleIsRun DEF RunStates
  <2>3. \A u \in Task \ {t} : runs'[u] = runs[u]
    BY <2>1
  <2>4. NamesAreLive'
    BY <1>0, <2>1, <2>2, <2>3 DEF NamesAreLive, Active
  <2>5. QED BY <2>2, <2>3, <2>4
<1>3. QED BY <1>1, <1>2

\* A task that keeps its name and stays at work, or that was not at work and
\* still is not.
LEMMA MovesKeeps ==
  ASSUME SInv, NEW t \in Task, names' = names,
         runs' \in [Task -> Runs],
         \A u \in Task \ {t} : runs'[u] = runs[u],
         runs'[t].name = runs[t].name,
         runs[t].st \in AtWork <=> runs'[t].st \in AtWork
  PROVE  SInv'
<1>1. SchedulerTypeOK'
  BY DEF SInv, SchedulerTypeOK
<1>2. NamesAreLive'
  BY DEF SInv, SchedulerTypeOK, NamesAreLive, Active, AtWork
<1>3. QED BY <1>1, <1>2 DEF SInv

LEMMA StateMoves ==
  ASSUME SInv, NEW t \in Task, NEW st \in RunStates,
         runs' = [runs EXCEPT ![t].st = st], names' = names,
         runs[t].st \in AtWork <=> st \in AtWork
  PROVE  SInv' /\ runs'[t].st = st /\ \A u \in Task \ {t} : runs'[u] = runs[u]
<1>1. runs' \in [Task -> Runs] /\ runs'[t].st = st /\ runs'[t].name = runs[t].name
  BY DEF SInv, SchedulerTypeOK, Runs
<1>2. \A u \in Task \ {t} : runs'[u] = runs[u]
  BY DEF SInv, SchedulerTypeOK
<1>3. QED BY <1>1, <1>2, MovesKeeps

LEMMA ContinuesKeeps ==
  ASSUME SInv, NEW t \in Task, Continues(t)
  PROVE  SInv' /\ runs'[t].st = "armed" /\ \A u \in Task \ {t} : runs'[u] = runs[u]
<1>1. runs' = [runs EXCEPT ![t].st = "armed", ![t].timer = Interval] /\ names' = names
  BY DEF Continues, ReArm
<1>2. runs' \in [Task -> Runs] /\ runs'[t].st = "armed" /\ runs'[t].name = runs[t].name
  <2> DEFINE q == [runs[t] EXCEPT !.st = "armed"]
             r == [q EXCEPT !.timer = Interval]
  <2>1. runs' = [runs EXCEPT ![t] = r]
    BY <1>1 DEF SInv, SchedulerTypeOK
  <2>2. q \in Runs /\ q.st = "armed" /\ q.name = runs[t].name
    BY DEF SInv, SchedulerTypeOK, Runs, RunStates
  <2> HIDE DEF q
  <2>3. r \in Runs /\ r.st = "armed" /\ r.name = runs[t].name
    BY <2>2 DEF Runs
  <2> HIDE DEF r
  <2>4. QED BY <2>1, <2>3 DEF SInv, SchedulerTypeOK
<1>3. \A u \in Task \ {t} : runs'[u] = runs[u]
  BY <1>1 DEF SInv, SchedulerTypeOK
<1>4. runs[t].st = "ticking"
  BY DEF Continues
<1>5. QED BY <1>1, <1>2, <1>3, <1>4, MovesKeeps DEF AtWork

LEMMA RetireKeeps ==
  ASSUME SInv, NEW t \in Task, NEW st \in RunStates \ AtWork,
         runs[t].st \in AtWork, Retire(t, st)
  PROVE  SInv' /\ runs'[t].st = st /\ \A u \in Task \ {t} : runs'[u] = runs[u]
<1> USE DEF SInv, SchedulerTypeOK
<1>1. names' = [names EXCEPT ![runs[t].name] = NoTask] /\ runs' = [runs EXCEPT ![t] = Idle(st)]
  BY DEF Retire
<1>2. runs[t].name \in Name /\ names[runs[t].name] = t
  BY DEF Runs, NamesAreLive, AtWork
<1>3. SchedulerTypeOK' /\ runs'[t].st = st
  BY <1>1, <1>2, IdleIsRun
<1>4. \A u \in Task \ {t} : runs'[u] = runs[u]
  BY <1>1
<1>5. names'[runs[t].name] = NoTask /\ \A m \in Name \ {runs[t].name} : names'[m] = names[m]
  BY <1>1, <1>2
<1>6. \A u \in Task : runs[u].name \in Name
  BY DEF Runs
<1>7. NamesAreLive'
  <2>1. ASSUME NEW u \in Task, runs'[u].st \in AtWork
        PROVE  names'[runs'[u].name] = u
    BY <2>1, <1>2, <1>3, <1>4, <1>5, <1>6 DEF NamesAreLive, AtWork
  <2>2. ASSUME NEW m \in Name, names'[m] # NoTask
        PROVE  runs'[names'[m]].name = m /\ runs'[names'[m]].st \in AtWork
    <3>1. m # runs[t].name /\ names'[m] = names[m]
      BY <2>2, <1>5
    <3>2. names[m] \in Task /\ runs[names[m]].name = m /\ runs[names[m]].st \in AtWork
      BY <2>2, <3>1 DEF NamesAreLive, Active, AtWork
    <3>3. QED BY <3>1, <3>2, <1>4
  <2>3. QED BY <2>1, <2>2 DEF NamesAreLive, Active, AtWork
<1>8. QED BY <1>3, <1>4, <1>7

LEMMA ElapseKeeps ==
  ASSUME SInv, names' = names, Elapse
  PROVE  SInv' /\ \A t \in Task : runs'[t].st = runs[t].st
<1> USE DEF SInv, SchedulerTypeOK
<1>1. ASSUME NEW t \in Task
      PROVE  runs'[t] \in Runs /\ runs'[t].st = runs[t].st /\ runs'[t].name = runs[t].name
  <2>1. CASE runs[t].st \in {"armed", "ticking"}
    <3> DEFINE a == IF runs[t].age <= MaxDuration THEN runs[t].age + 1 ELSE runs[t].age
               m == IF runs[t].timer > 0 THEN runs[t].timer - 1 ELSE runs[t].timer
    <3>1. runs[t].age \in 0..MaxDuration + 1 /\ runs[t].timer \in 0..Interval
      BY DEF Runs
    <3>2. a \in 0..MaxDuration + 1 /\ m \in 0..Interval
      BY <3>1
    <3> DEFINE q == [runs[t] EXCEPT !.age = a]
               r == [q EXCEPT !.timer = m]
    <3>3. runs'[t] = r
      BY <2>1 DEF Elapse
    <3> HIDE DEF a, m
    <3>4. q \in Runs /\ q.st = runs[t].st /\ q.name = runs[t].name
      BY <3>2 DEF Runs
    <3> HIDE DEF q
    <3>5. r \in Runs /\ r.st = runs[t].st /\ r.name = runs[t].name
      BY <3>2, <3>4 DEF Runs
    <3> HIDE DEF r
    <3>6. QED BY <3>3, <3>5
  <2>2. CASE runs[t].st \notin {"armed", "ticking"}
    BY <2>2 DEF Elapse
  <2>3. QED BY <2>1, <2>2
<1>2. SchedulerTypeOK'
  BY <1>1 DEF Elapse
<1>3. NamesAreLive'
  BY <1>1 DEF NamesAreLive, Active
<1>4. QED BY <1>1, <1>2, <1>3

-----------------------------------------------------------------------------
(* The updaters.                                                           *)

LEMMA UnusedIsOut ==
  Unused \in Outs /\ Unused.posts = Unused.upd.uses /\ Unused.via = "none"
BY DEF Unused, Outs, Updaters, NewUpdater, Texts

LEMMA FreshIsOut ==
  ASSUME NEW ref \in BOOLEAN
  PROVE  LET o == [Unused EXCEPT !.upd = NewUpdater(ref)]
         IN  o \in Outs /\ o.posts = o.upd.uses
<1>1. NewUpdater(ref) \in Updaters /\ NewUpdater(ref).uses = 0
  BY DEF NewUpdater, Updaters
<1> DEFINE n == NewUpdater(ref)
<1> HIDE DEF n
<1>2. n \in Updaters /\ n.uses = 0
  BY <1>1 DEF n
<1>3. [Unused EXCEPT !.upd = n] \in Outs /\ [Unused EXCEPT !.upd = n].upd = n
        /\ [Unused EXCEPT !.upd = n].posts = 0
  BY <1>2 DEF Unused, Outs, Texts
<1>4. QED BY <1>2, <1>3 DEF n

LEMMA SentIsOut ==
  ASSUME NEW o \in Outs, NEW t \in Texts, o.posts = o.upd.uses
  PROVE  /\ Sent(o, t) \in Outs
         /\ Sent(o, t).via = "url" =>
              Sent(o, t).posts = Sent(o, t).upd.uses + 1 /\ Sent(o, t).upd.uses < MaxUses
         /\ Sent(o, t).via # "url" => Sent(o, t).posts = Sent(o, t).upd.uses
<1> DEFINE v == Via(o.upd)
<1>1. v \in {"url", "update", "none"} /\ (v = "url" => o.upd.uses < MaxUses)
  BY DEF Via, IsUrlAvailable
<1> DEFINE p == [o EXCEPT !.text = t]
           q == [p EXCEPT !.via = v]
           n == o.posts + (IF v = "url" THEN 1 ELSE 0)
           r == [q EXCEPT !.posts = n]
<1>2. Sent(o, t) = r
  BY DEF Sent, Outs
<1> HIDE DEF v
<1>3. p \in Outs /\ p.posts = o.posts /\ p.upd = o.upd
  BY DEF Outs
<1> HIDE DEF p
<1>4. q \in Outs /\ q.posts = o.posts /\ q.upd = o.upd /\ q.via = v
  BY <1>1, <1>3 DEF Outs
<1> HIDE DEF q
<1>5. n \in Nat /\ (v = "url" => n = o.upd.uses + 1) /\ (v # "url" => n = o.upd.uses)
  BY DEF Outs, Updaters
<1> HIDE DEF n
<1>6. r \in Outs /\ r.posts = n /\ r.upd = o.upd /\ r.via = v
  BY <1>4, <1>5 DEF Outs
<1> HIDE DEF r
<1>7. QED BY <1>1, <1>2, <1>5, <1>6

-----------------------------------------------------------------------------
(* What one actor's step leaves to prove.                                  *)

LEMMA MessageKeeps ==
  ASSUME MessageOK, KeepsMessage
  PROVE  shown' \in Texts /\ hasRef' \in BOOLEAN /\ offered' \subseteq {"submit", "apply", "cancel"}
BY DEF MessageOK, KeepsMessage

LEMMA PatchKeeps ==
  ASSUME MessageOK, NEW i \in Interaction, out[i] \in Outs, Arrives(i) \/ Fails(i)
  PROVE  MessageOK'
<1>1. out[i].text \in Texts
  BY DEF Outs
<1>2. Buttons(out[i].text) \subseteq {"submit", "apply", "cancel"}
  BY DEF Buttons
<1>3. QED BY <1>1, <1>2 DEF MessageOK, Arrives, Fails, Shows, KeepsMessage

\* A step of interaction i, or of its watch, that moves the rest not at all.
LEMMA LocalStep ==
  ASSUME IInv, NEW i \in Interaction, SInv', MessageOK',
         NEW st \in HandlerStates, NEW o \in Outs,
         pc' = [pc EXCEPT ![i] = st], out' = [out EXCEPT ![i] = o],
         \A j \in Apply \ {i} : runs'[j] = runs[j],
         HandlerFirst(i)', Accounted(i)'
  PROVE  IInv'
<1>1. pc' \in [Interaction -> HandlerStates] /\ out' \in [Interaction -> Outs]
  BY DEF IInv
<1>2. ASSUME NEW j \in Interaction, j # i
      PROVE  HandlerFirst(j)' /\ Accounted(j)'
  <2>1. pc'[j] = pc[j] /\ out'[j] = out[j] /\ (j \in Apply => runs'[j] = runs[j])
    BY <1>2 DEF IInv
  <2>2. QED BY <2>1 DEF IInv, HandlerFirst, Accounted, Flying, InFlight
<1>3. QED BY <1>1, <1>2 DEF IInv

\* A step of a handler that is not done and leaves the scheduler alone.
LEMMA HandlerKeeps ==
  ASSUME IInv, NEW i \in Interaction, pc[i] # "done", MessageOK',
         names' = names, runs' = runs,
         NEW st \in HandlerStates, NEW o \in Outs,
         pc' = [pc EXCEPT ![i] = st], out' = [out EXCEPT ![i] = o],
         IF st = "patch" /\ o.via = "url"
         THEN o.posts = o.upd.uses + 1 /\ o.upd.uses < MaxUses
         ELSE o.posts = o.upd.uses
  PROVE  IInv'
<1>1. SInv'
  BY DEF IInv, SInv, SchedulerTypeOK, NamesAreLive, Active
<1>2. pc'[i] = st /\ out'[i] = o
  BY DEF IInv
<1>3. i \in Apply => runs[i].st = "none" /\ runs'[i].st = "none"
  BY DEF IInv, HandlerFirst
<1>4. HandlerFirst(i)' /\ Accounted(i)'
  BY <1>2, <1>3 DEF HandlerFirst, Accounted, Flying, InFlight
<1>5. QED BY <1>1, <1>4, LocalStep

\* A handler that is at no patch has nothing in flight.
LEMMA Settled ==
  ASSUME IInv, NEW i \in Interaction, pc[i] \notin {"patch", "done"}
  PROVE  out[i] \in Outs /\ out[i].posts = out[i].upd.uses
BY DEF IInv, Accounted, Flying, InFlight, HandlerFirst

-----------------------------------------------------------------------------
(* The handlers.                                                           *)

\* The handlers' steps that send nothing.
LEMMA QuietKeeps ==
  ASSUME IInv, NEW i \in Interaction, pc[i] \notin {"patch", "done"},
         MessageOK', names' = names, runs' = runs, out' = out,
         NEW st \in HandlerStates \ {"patch"}, Goes(i, st)
  PROVE  IInv'
<1>1. out[i] \in Outs /\ out[i].posts = out[i].upd.uses
  BY Settled
<1>2. out' = [out EXCEPT ![i] = out[i]]
  BY DEF IInv
<1>3. QED BY <1>1, <1>2, HandlerKeeps DEF Goes

\* Those that send a patch.
LEMMA SendKeeps ==
  ASSUME IInv, NEW i \in Interaction, pc[i] \notin {"patch", "done"},
         MessageOK', names' = names, runs' = runs,
         NEW t \in Texts, Sends(i, t) \/ FirstSends(i, t), Goes(i, "patch")
  PROVE  IInv'
<1>1. PICK o \in Outs : o.posts = o.upd.uses /\ out' = [out EXCEPT ![i] = Sent(o, t)]
  <2>1. CASE Sends(i, t)
    <3>1. out[i] \in Outs /\ out[i].posts = out[i].upd.uses
      BY Settled
    <3>2. out' = [out EXCEPT ![i] = Sent(out[i], t)]
      BY <2>1 DEF Sends, IInv
    <3>3. QED BY <3>1, <3>2
  <2>2. CASE FirstSends(i, t)
    BY <2>2, FreshIsOut DEF FirstSends, IInv, MessageOK
  <2>3. QED BY <2>1, <2>2
<1>2. QED BY <1>1, SentIsOut, HandlerKeeps DEF Goes, HandlerStates

\* Those whose patch came back and that patch no more.
LEMMA ReleaseKeeps ==
  ASSUME IInv, NEW i \in Interaction, pc[i] = "patch",
         Arrives(i) \/ Fails(i), names' = names, runs' = runs,
         NEW st \in {"done", "report"}, Goes(i, st), Released(i)
  PROVE  IInv'
<1>1. MessageOK'
  BY PatchKeeps DEF IInv
<1>2. QED BY <1>1, UnusedIsOut, HandlerKeeps DEF Goes, Released, HandlerStates

LEMMA StartKeeps ==
  ASSUME IInv, NEW i \in Interaction,
         \/ NotForUs(i) \/ StartCall(i) \/ StartNotice(i)
         \/ i \in Apply /\ StartApply(i)
         \/ i \in Discard /\ StartDiscard(i)
  PROVE  IInv'
<1>1. MayStart(i) /\ pc[i] \notin {"patch", "done"}
  BY DEF NotForUs, StartCall, StartNotice, StartApply, StartDiscard, MayStart
<1>2. MessageOK' /\ names' = names /\ runs' = runs
  BY MessageKeeps DEF IInv, MessageOK, NotForUs, StartCall, StartNotice, StartApply, StartDiscard
<1>3. CASE NotForUs(i) \/ StartCall(i) \/ StartNotice(i)
  BY <1>1, <1>2, <1>3, QuietKeeps DEF NotForUs, StartCall, StartNotice, HandlerStates
<1>4. CASE StartApply(i) \/ StartDiscard(i)
  BY <1>1, <1>2, <1>4, SendKeeps DEF StartApply, StartDiscard, Texts
<1>5. QED BY <1>3, <1>4

LEMMA HandlerStepKeeps ==
  ASSUME IInv, NEW i \in Interaction, HandlerStep(i)
  PROVE  IInv'
<1>1. CASE CommandAnswered(i)
  BY <1>1, MessageKeeps, QuietKeeps DEF CommandAnswered, IInv, MessageOK, HandlerStates
<1>2. CASE PlanBuilt(i)
  <2>1. PICK t \in {"plan", "blocked"} : FirstSends(i, t)
    BY <1>2 DEF PlanBuilt
  <2>2. MessageOK'
    BY <1>2, MessageKeeps DEF PlanBuilt, IInv, MessageOK
  <2>3. QED BY <1>2, <2>1, <2>2, SendKeeps DEF PlanBuilt, Texts
<1>3. CASE ServiceFails(i)
  <2>1. MessageOK'
    BY <1>3, MessageKeeps DEF ServiceFails, IInv, MessageOK
  <2>2. CASE i \in Apply
    BY <1>3, <2>1, <2>2, SendKeeps DEF ServiceFails, Texts
  <2>3. CASE i \notin Apply
    BY <1>3, <2>1, <2>3, QuietKeeps DEF ServiceFails, HandlerStates
  <2>4. QED BY <2>2, <2>3
<1>4. CASE OutcomeShown(i)
  BY <1>4, ReleaseKeeps DEF OutcomeShown
<1>5. CASE PatchFails(i)
  BY <1>5, ReleaseKeeps DEF PatchFails
<1>6. CASE NoticeSent(i)
  <2>1. MessageOK'
    BY <1>6 DEF NoticeSent, IInv, MessageOK, KeepsMessage, Shows, Buttons, Texts
  <2>2. QED BY <1>6, <2>1, QuietKeeps DEF NoticeSent, HandlerStates
<1>7. CASE NoticeFails(i)
  BY <1>7, MessageKeeps, QuietKeeps DEF NoticeFails, IInv, MessageOK, HandlerStates
<1>8. CASE Reported(i)
  BY <1>8, MessageKeeps, QuietKeeps DEF Reported, IInv, MessageOK, HandlerStates
<1>9. QED BY <1>1, <1>2, <1>3, <1>4, <1>5, <1>6, <1>7, <1>8 DEF HandlerStep

\* The acknowledged patch of a handler has become a counted use.
LEMMA CountedIsOut ==
  ASSUME IInv, NEW i \in Interaction, pc[i] = "patch", Counted(i)
  PROVE  \E o \in Outs : o.posts = o.upd.uses /\ out' = [out EXCEPT ![i] = o]
<1>1. PICK named \in BOOLEAN :
        out' = [out EXCEPT ![i].upd = Acknowledged(@, out[i].via, named)]
  BY DEF Counted
<1> DEFINE w == out[i].upd
           u == Acknowledged(w, out[i].via, named)
           o == [out[i] EXCEPT !.upd = u]
<1>2. out[i] \in Outs /\ w \in Updaters
  BY DEF IInv, Outs
<1>3. /\ out[i].via = "url" => out[i].posts = w.uses + 1 /\ w.uses < MaxUses
      /\ out[i].via # "url" => out[i].posts = w.uses
  BY DEF IInv, Accounted, Flying, InFlight
<1>4. out' = [out EXCEPT ![i] = o]
  BY <1>1 DEF IInv
<1> HIDE DEF w
<1>5. ASSUME out[i].via = "url" PROVE u \in Updaters /\ u.uses = out[i].posts
  <2> DEFINE m == w.uses + 1
             f == w.ref \/ named
             q == [w EXCEPT !.uses = m]
             r == [q EXCEPT !.ref = f]
  <2>1. u = r
    BY <1>2, <1>5 DEF Acknowledged, Updaters
  <2>2. m \in 0..MaxUses /\ m = out[i].posts
    BY <1>2, <1>3, <1>5, UpdaterAssumption DEF Updaters
  <2>3. f \in BOOLEAN
    OBVIOUS
  <2> HIDE DEF m, f
  <2>4. q \in Updaters /\ q.uses = m
    BY <1>2, <2>2 DEF Updaters
  <2> HIDE DEF q
  <2>5. r \in Updaters /\ r.uses = m
    BY <2>3, <2>4 DEF Updaters
  <2>6. QED BY <2>1, <2>2, <2>5
<1>6. ASSUME out[i].via # "url" PROVE u \in Updaters /\ u.uses = out[i].posts
  BY <1>2, <1>3, <1>6 DEF Acknowledged
<1>7. u \in Updaters /\ u.uses = out[i].posts
  BY <1>5, <1>6
<1> HIDE DEF u
<1>8. o \in Outs /\ o.posts = o.upd.uses
  BY <1>2, <1>7 DEF Outs
<1>9. QED BY <1>4, <1>8

LEMMA ApplyStepKeeps ==
  ASSUME IInv, NEW a \in Apply, ApplyStep(a)
  PROVE  IInv'
<1>0. a \in Interaction /\ a \in Task
  BY DEF Interaction
<1>1. CASE Applied(a)
  BY <1>0, <1>1, MessageKeeps, SendKeeps DEF Applied, IInv, MessageOK, Texts
<1>2. CASE NotApplied(a)
  <2>1. PICK t \in {"plan", "blocked", "already", "failed"} : Sends(a, t)
    BY <1>2 DEF NotApplied
  <2>2. MessageOK'
    BY <1>2, MessageKeeps DEF NotApplied, IInv, MessageOK
  <2>3. QED BY <1>0, <1>2, <2>1, <2>2, SendKeeps DEF NotApplied, Texts
<1>3. CASE ApplyingShown(a)
  <2>1. MessageOK'
    BY <1>0, <1>3, PatchKeeps DEF ApplyingShown, IInv
  <2>2. QED BY <1>0, <1>3, <2>1, CountedIsOut, HandlerKeeps DEF ApplyingShown, Goes, HandlerStates
<1>4. CASE AppliedShown(a)
  <2>1. PICK n \in Name : Schedule(a, n) /\ (IF Accepts(n) THEN Counted(a) ELSE Released(a))
    BY <1>4 DEF AppliedShown
  <2>2. MessageOK' /\ pc[a] = "patch" /\ pc' = [pc EXCEPT ![a] = "done"]
    BY <1>0, <1>4, PatchKeeps DEF AppliedShown, IInv, Goes
  <2>3. runs[a].st = "none"
    BY <1>0, <2>2 DEF IInv, HandlerFirst
  <2>4. SInv' /\ runs'[a].st \in {"armed", "refused"} /\ \A u \in Task \ {a} : runs'[u] = runs[u]
    BY <1>0, <2>1, <2>3, ScheduleKeeps DEF IInv
  <2>5. PICK o \in Outs : o.posts = o.upd.uses /\ out' = [out EXCEPT ![a] = o]
    BY <1>0, <2>1, <2>2, CountedIsOut, UnusedIsOut DEF Released
  <2>6. pc'[a] = "done" /\ out'[a] = o
    BY <1>0, <2>2, <2>5 DEF IInv
  <2>7. HandlerFirst(a)' /\ Accounted(a)'
    BY <2>4, <2>5, <2>6 DEF HandlerFirst, Accounted, Flying, InFlight
  <2>8. QED BY <1>0, <2>2, <2>4, <2>5, <2>7, LocalStep DEF HandlerStates
<1>5. CASE ErrorPatched(a)
  BY <1>0, <1>5, ReleaseKeeps DEF ErrorPatched
<1>6. QED BY <1>1, <1>2, <1>3, <1>4, <1>5 DEF ApplyStep

-----------------------------------------------------------------------------
(* The watches and time.                                                   *)

\* A watch's step that sends nothing and has nothing in flight.
LEMMA WatchQuiet ==
  ASSUME IInv, NEW a \in Apply, SInv', MessageOK', pc' = pc, out' = out,
         runs[a].st \in {"armed", "ticking"}, runs'[a].st \in {"armed", "ticking"},
         \A u \in Task \ {a} : runs'[u] = runs[u]
  PROVE  IInv'
<1>1. a \in Interaction
  BY DEF Interaction
<1>2. pc' = [pc EXCEPT ![a] = pc[a]] /\ out' = [out EXCEPT ![a] = out[a]]
      /\ pc[a] \in HandlerStates /\ out[a] \in Outs
  BY <1>1 DEF IInv
<1>3. HandlerFirst(a)' /\ Accounted(a)'
  BY <1>1 DEF IInv, HandlerFirst, Accounted, Flying, InFlight
<1>4. QED BY <1>1, <1>2, <1>3, LocalStep

\* A watch's step that sends its one patch.
LEMMA WatchSends ==
  ASSUME IInv, NEW a \in Apply, SInv', MessageOK', pc' = pc,
         NEW t \in Texts, Sends(a, t),
         runs[a].st \in {"armed", "ticking"}, runs'[a].st \in {"wrapup", "late"},
         \A u \in Task \ {a} : runs'[u] = runs[u]
  PROVE  IInv'
<1>1. a \in Interaction
  BY DEF Interaction
<1>2. pc[a] = "done" /\ out[a] \in Outs /\ out[a].posts = out[a].upd.uses
  BY <1>1 DEF IInv, HandlerFirst, Accounted, Flying, InFlight
<1>3. out' = [out EXCEPT ![a] = Sent(out[a], t)] /\ out'[a] = Sent(out[a], t)
  BY <1>1 DEF Sends, IInv
<1>4. pc' = [pc EXCEPT ![a] = "done"] /\ pc'[a] = "done"
  BY <1>1, <1>2 DEF IInv
<1>5. Sent(out[a], t) \in Outs
  BY <1>2, SentIsOut
<1>6. HandlerFirst(a)' /\ Accounted(a)'
  BY <1>2, <1>3, <1>4, SentIsOut DEF HandlerFirst, Accounted, Flying, InFlight
<1>7. QED BY <1>1, <1>3, <1>4, <1>5, <1>6, LocalStep DEF HandlerStates

LEMMA WatchStepKeeps ==
  ASSUME IInv, NEW a \in Apply, WatchStep(a)
  PROVE  IInv'
<1>0. a \in Interaction /\ a \in Task /\ SInv
  BY DEF Interaction, IInv
<1>1. CASE WatchTicks(a)
  <2>1. runs[a].st = "armed" /\ runs' = [runs EXCEPT ![a].st = "ticking"] /\ names' = names
    BY <1>1 DEF WatchTicks, StartsTick, Due, Moves
  <2>2. SInv' /\ runs'[a].st = "ticking" /\ \A u \in Task \ {a} : runs'[u] = runs[u]
    BY <1>0, <2>1, StateMoves DEF AtWork, RunStates
  <2>3. QED BY <1>1, <2>1, <2>2, MessageKeeps, WatchQuiet DEF WatchTicks, IInv, MessageOK
<1>2. CASE WatchGoesOn(a)
  <2>1. runs[a].st = "ticking"
    BY <1>2 DEF WatchGoesOn, Continues
  <2>2. SInv' /\ runs'[a].st = "armed" /\ \A u \in Task \ {a} : runs'[u] = runs[u]
    BY <1>0, <1>2, ContinuesKeeps DEF WatchGoesOn
  <2>3. QED BY <1>2, <2>1, <2>2, MessageKeeps, WatchQuiet DEF WatchGoesOn, IInv, MessageOK
<1>3. CASE WatchDecides(a)
  <2>1. runs[a].st = "ticking" /\ runs' = [runs EXCEPT ![a].st = "wrapup"] /\ names' = names
    BY <1>3 DEF WatchDecides, Moves
  <2>2. SInv' /\ runs'[a].st = "wrapup" /\ \A u \in Task \ {a} : runs'[u] = runs[u]
    BY <1>0, <2>1, StateMoves DEF AtWork, RunStates
  <2>3. MessageOK'
    BY <1>3, MessageKeeps DEF WatchDecides, IInv, MessageOK
  <2>4. QED BY <1>3, <2>1, <2>2, <2>3, WatchSends DEF WatchDecides, Texts
<1>4. CASE WatchTimesOut(a)
  <2>1. runs[a].st = "armed" /\ Retire(a, "late")
    BY <1>4 DEF WatchTimesOut, TimesOut, Due
  <2>2. SInv' /\ runs'[a].st = "late" /\ \A u \in Task \ {a} : runs'[u] = runs[u]
    BY <1>0, <2>1, RetireKeeps DEF AtWork, RunStates
  <2>3. MessageOK'
    BY <1>4, MessageKeeps DEF WatchTimesOut, IInv, MessageOK
  <2>4. QED BY <1>4, <2>1, <2>2, <2>3, WatchSends DEF WatchTimesOut, Texts
<1>5. CASE WatchPatched(a)
  <2>1. runs[a].st \in {"wrapup", "late"}
    BY <1>5 DEF WatchPatched, Completes, LateEnds
  <2>2. SInv' /\ runs'[a].st = "ended" /\ \A u \in Task \ {a} : runs'[u] = runs[u]
    <3>1. CASE Completes(a)
      BY <1>0, <3>1, RetireKeeps DEF Completes, AtWork, RunStates
    <3>2. CASE LateEnds(a)
      <4>1. runs[a].st = "late" /\ runs' = [runs EXCEPT ![a].st = "ended"] /\ names' = names
        BY <3>2 DEF LateEnds, Moves
      <4>2. QED BY <1>0, <4>1, StateMoves DEF AtWork, RunStates
    <3>3. QED BY <1>5, <3>1, <3>2 DEF WatchPatched
  <2>3. MessageOK'
    BY <1>0, <1>5, PatchKeeps DEF WatchPatched, IInv
  <2>4. pc[a] = "done" /\ pc' = [pc EXCEPT ![a] = "done"] /\ pc'[a] = "done"
    BY <1>0, <1>5, <2>1 DEF IInv, HandlerFirst, WatchPatched
  <2>5. out' = [out EXCEPT ![a] = Unused] /\ out'[a] = Unused
    BY <1>0, <1>5 DEF WatchPatched, Released, IInv
  <2>6. HandlerFirst(a)' /\ Accounted(a)'
    BY <2>2, <2>4, <2>5, UnusedIsOut DEF HandlerFirst, Accounted, Flying, InFlight
  <2>7. QED BY <1>0, <2>2, <2>3, <2>4, <2>5, <2>6, UnusedIsOut, LocalStep DEF HandlerStates
<1>6. QED BY <1>1, <1>2, <1>3, <1>4, <1>5 DEF WatchStep

LEMMA OlderIsUpdater ==
  ASSUME NEW u \in Updaters
  PROVE  Older(u) \in Updaters /\ Older(u).uses = u.uses
BY DEF Older, Updaters

LEMMA TimeKeeps ==
  ASSUME IInv, TimePasses
  PROVE  IInv'
<1>1. SInv' /\ (\A t \in Task : runs'[t].st = runs[t].st) /\ pc' = pc
  BY ElapseKeeps DEF TimePasses, IInv
<1>2. MessageOK'
  BY MessageKeeps DEF TimePasses, IInv, MessageOK
<1>3. ASSUME NEW i \in Interaction
      PROVE  /\ out'[i] \in Outs /\ out'[i].via = out[i].via
             /\ out'[i].posts = out[i].posts /\ out'[i].upd.uses = out[i].upd.uses
  <2>1. out[i] \in Outs /\ out[i].upd \in Updaters
    BY DEF IInv, Outs
  <2>2. out'[i] = out[i] \/ out'[i] = [out[i] EXCEPT !.upd = Older(out[i].upd)]
    BY DEF TimePasses
  <2>3. QED BY <2>1, <2>2, OlderIsUpdater DEF Outs
<1>4. out' \in [Interaction -> Outs]
  BY <1>3 DEF TimePasses
<1>5. \A i \in Interaction : HandlerFirst(i)' /\ Accounted(i)'
  BY <1>1, <1>3 DEF IInv, HandlerFirst, Accounted, Flying, InFlight
<1>6. QED BY <1>1, <1>2, <1>4, <1>5 DEF IInv

-----------------------------------------------------------------------------
(* The invariant and what follows from it.                                 *)

LEMMA InitIInv == Init => IInv
<1> SUFFICES ASSUME Init PROVE IInv
  OBVIOUS
<1>1. SInv
  BY IdleIsRun DEF Init, SchedulerInit, SInv, SchedulerTypeOK, NamesAreLive, Active, RunStates
<1>2. MessageOK
  BY DEF Init, MessageOK, Texts
<1>3. pc \in [Interaction -> HandlerStates] /\ out \in [Interaction -> Outs]
  BY UnusedIsOut DEF Init, HandlerStates
<1>4. \A i \in Interaction : HandlerFirst(i) /\ Accounted(i)
  BY UnusedIsOut, IdleIsRun DEF Init, SchedulerInit, HandlerFirst, Accounted, Flying, InFlight, RunStates
<1>5. QED BY <1>1, <1>2, <1>3, <1>4 DEF IInv

LEMMA NextIInv == IInv /\ [Next]_vars => IInv'
<1> SUFFICES ASSUME IInv, [Next]_vars PROVE IInv'
  OBVIOUS
<1>1. ASSUME NEW i \in Interaction, NotForUs(i) \/ StartCall(i) \/ StartNotice(i) \/ HandlerStep(i)
      PROVE  IInv'
  BY <1>1, StartKeeps, HandlerStepKeeps
<1>2. ASSUME NEW a \in Apply, StartApply(a) \/ ApplyStep(a) \/ WatchStep(a)
      PROVE  IInv'
  BY <1>2, StartKeeps, ApplyStepKeeps, WatchStepKeeps DEF Interaction
<1>3. ASSUME NEW x \in Discard, StartDiscard(x)
      PROVE  IInv'
  BY <1>3, StartKeeps DEF Interaction
<1>4. CASE TimePasses
  BY <1>4, TimeKeeps
<1>5. CASE UNCHANGED vars
  BY <1>5 DEF vars, IInv, SInv, SchedulerTypeOK, NamesAreLive, Active, MessageOK,
              HandlerFirst, Accounted, Flying, InFlight
<1>6. QED BY <1>1, <1>2, <1>3, <1>4, <1>5 DEF Next

LEMMA Invariant == Spec => []IInv
BY InitIInv, NextIInv, PTL DEF Spec

\* Type correctness of the blog plugin, its scheduler and its updaters: among
\* others, that no response_url's counter ever passes its limit
\* (message-updater.ts:76).
THEOREM TypeCorrect == Spec => []TypeOK
<1>1. IInv => TypeOK
  BY DEF IInv, SInv, MessageOK, TypeOK, Outs
<1>2. QED BY <1>1, Invariant, PTL

\* The name a tick looks at stands for the task whose tick it is, and no entry
\* stays behind (scheduler.ts isRunning, transition).
THEOREM NamesStayLive == Spec => []NamesAreLive
<1>1. IInv => NamesAreLive
  BY DEF IInv, SInv
<1>2. QED BY <1>1, Invariant, PTL

\* The handler and the watch of one Apply never patch at once
\* (apply-button.ts:90, ci-watcher.ts).
THEOREM OnePatchAtATime == Spec => []PatchesSerialized
<1>1. IInv => PatchesSerialized
  BY DEF IInv, HandlerFirst, PatchesSerialized, Interaction
<1>2. QED BY <1>1, Invariant, PTL

\* No response_url carries more patches than its limit, though the counter is
\* raised only after the reply (message-updater.ts:76).
THEOREM UrlsKeepTheirLimit == Spec => []PatchesWithinLimit
<1>1. IInv => PatchesWithinLimit
  <2> SUFFICES ASSUME IInv, NEW i \in Interaction PROVE out[i].posts <= MaxUses
    BY DEF PatchesWithinLimit
  <2>1. out[i].posts \in Nat /\ out[i].upd.uses \in 0..MaxUses
    BY DEF IInv, Outs, Updaters
  <2>2. QED BY <2>1 DEF IInv, Accounted
<1>2. QED BY <1>1, Invariant, PTL

-----------------------------------------------------------------------------
(* The limit of the scheduler.                                             *)

NamesWithinMax == IsFiniteSet(Active) /\ Cardinality(Active) <= MaxTasks

\* The tasks that may still tick.
Working == {t \in Task : runs[t].st \in AtWork}

\* schedule() counts entries under names, not tasks (scheduler.ts:52).
TasksWithinMax == IsFiniteSet(Working) /\ Cardinality(Working) <= MaxTasks

LEMMA ActiveSubset ==
  ASSUME NamesWithinMax, Active' \subseteq Active
  PROVE  NamesWithinMax'
<1>1. IsFiniteSet(Active') /\ Cardinality(Active') <= Cardinality(Active)
  BY FS_Subset DEF NamesWithinMax
<1>2. Cardinality(Active') \in Nat /\ Cardinality(Active) \in Nat
  BY <1>1, FS_CardinalityType DEF NamesWithinMax
<1>3. QED BY <1>1, <1>2 DEF NamesWithinMax

LEMMA ScheduleWithinMax ==
  ASSUME SInv, NamesWithinMax, NEW t \in Task, NEW n \in Name, Schedule(t, n)
  PROVE  NamesWithinMax'
<1>1. CASE Accepts(n)
  <2>1. names' = [names EXCEPT ![n] = t] /\ names \in [Name -> Task \cup {NoTask}]
    BY <1>1 DEF Schedule, SInv, SchedulerTypeOK
  <2>2. Active' = Active \cup {n}
    BY <2>1 DEF Active
  <2>3. IsFiniteSet(Active') /\ Cardinality(Active') = Cardinality(Active) + 1
    <3>1. n \notin Active
      BY <1>1 DEF Accepts, Active
    <3>2. IsFiniteSet(Active)
      BY DEF NamesWithinMax
    <3>3. QED BY <2>2, <3>1, <3>2, FS_AddElement
  <2>4. Cardinality(Active) < MaxTasks
    BY <1>1 DEF Accepts
  <2>5. Cardinality(Active) \in Nat /\ Cardinality(Active') \in Nat
    BY <2>3, FS_CardinalityType DEF NamesWithinMax
  <2>6. QED BY <2>3, <2>4, <2>5 DEF NamesWithinMax
<1>2. CASE ~Accepts(n)
  <2>1. Active' = Active
    BY <1>2 DEF Schedule, Active
  <2>2. QED BY <2>1, ActiveSubset
<1>3. QED BY <1>1, <1>2

LEMMA RetireFrees ==
  ASSUME SInv, NEW t \in Task, NEW st, Retire(t, st)
  PROVE  Active' \subseteq Active
BY DEF Retire, Active, SInv, SchedulerTypeOK

LEMMA NextWithinMax ==
  ASSUME IInv, NamesWithinMax, [Next]_vars
  PROVE  NamesWithinMax'
<1>0. SInv
  BY DEF IInv
<1>1. CASE names' = names
  BY <1>1, ActiveSubset DEF Active
<1>2. ASSUME NEW a \in Apply, AppliedShown(a) PROVE NamesWithinMax'
  BY <1>0, <1>2, ScheduleWithinMax DEF AppliedShown
<1>3. ASSUME NEW a \in Apply, NEW st, Retire(a, st) PROVE NamesWithinMax'
  BY <1>0, <1>3, RetireFrees, ActiveSubset
<1>4. ASSUME NEW a \in Apply, ApplyStep(a) PROVE NamesWithinMax'
  <2>1. names' = names \/ AppliedShown(a)
    BY <1>4 DEF ApplyStep, Applied, NotApplied, ApplyingShown, ErrorPatched
  <2>2. QED BY <2>1, <1>1, <1>2
<1>5. ASSUME NEW a \in Apply, WatchStep(a) PROVE NamesWithinMax'
  <2>1. names' = names \/ \E st : Retire(a, st)
    BY <1>5 DEF WatchStep, WatchTicks, StartsTick, WatchGoesOn, Continues, WatchDecides, WatchTimesOut,
       TimesOut, WatchPatched, Completes, LateEnds, Moves
  <2>2. QED BY <2>1, <1>1, <1>3
<1>6. ASSUME NEW i \in Interaction,
             \/ NotForUs(i) \/ StartCall(i) \/ StartNotice(i) \/ HandlerStep(i)
             \/ StartApply(i) \/ StartDiscard(i)
      PROVE  NamesWithinMax'
  BY <1>1, <1>6 DEF NotForUs, StartCall, StartNotice, StartApply, StartDiscard, HandlerStep,
     CommandAnswered, PlanBuilt, ServiceFails, OutcomeShown, PatchFails, NoticeSent, NoticeFails, Reported
<1>7. CASE TimePasses \/ UNCHANGED vars
  BY <1>1, <1>7 DEF TimePasses, vars
<1>8. QED BY <1>4, <1>5, <1>6, <1>7 DEF Next, Interaction

\* A task that may still tick has an entry of its own.
LEMMA WorkingAreNamed ==
  ASSUME SInv, NamesWithinMax
  PROVE  TasksWithinMax
<1> DEFINE entry == [t \in Working |-> runs[t].name]
<1>1. ASSUME NEW t \in Working PROVE entry[t] \in Active /\ names[entry[t]] = t
  <2>1. runs[t].name \in Name /\ names[runs[t].name] = t /\ t # NoTask
    BY DEF Working, AtWork, SInv, SchedulerTypeOK, Runs, NamesAreLive
  <2>2. QED BY <2>1 DEF Active
<1>2. entry \in Injection(Working, Active)
  <2>1. entry \in [Working -> Active]
    BY <1>1
  <2>2. IsInjective(entry)
    BY <1>1 DEF IsInjective
  <2>3. QED BY <2>1, <2>2 DEF Injection
<1> HIDE DEF entry
<1>3. IsFiniteSet(Working) /\ Cardinality(Working) <= Cardinality(Active)
  BY <1>2, FS_Injection DEF NamesWithinMax
<1>4. Cardinality(Working) \in Nat /\ Cardinality(Active) \in Nat
  BY <1>3, FS_CardinalityType DEF NamesWithinMax
<1>5. QED BY <1>3, <1>4 DEF NamesWithinMax, TasksWithinMax

\* No more than maxConcurrentTasks tasks are ever at work, though schedule()
\* looks at the map of names only (scheduler.ts schedule).
THEOREM WorkIsBounded == Spec => []TasksWithinMax
<1>1. Init => NamesWithinMax
  <2> SUFFICES ASSUME Init PROVE NamesWithinMax
    OBVIOUS
  <2>1. Active = {}
    BY DEF Init, SchedulerInit, Active
  <2>2. QED BY <2>1, FS_EmptySet DEF NamesWithinMax
<1>2. IInv /\ NamesWithinMax /\ [Next]_vars => NamesWithinMax'
  BY NextWithinMax
<1>3. IInv /\ NamesWithinMax => TasksWithinMax
  BY WorkingAreNamed DEF IInv
<1>4. QED BY <1>1, <1>2, <1>3, Invariant, PTL DEF Spec

-----------------------------------------------------------------------------
(* "applying" has somebody who takes it back.                              *)

\* The Apply awaits its service's answer, or has a later text on its way.
TakesBack(a) == pc[a] = "call" \/ (pc[a] = "patch" /\ out[a].text # "applying")

\* While the message shows "applying" some Apply is at work that will replace
\* it, however clicks and watches overlap, until a patch fails.
ApplyingHasOwner == shown = "applying" /\ ~patchFailed => \E a \in Apply : TakesBack(a)

\* What a watch has on its way is a verdict.
WatchesConclude ==
  \A a \in Apply : runs[a].st \in {"wrapup", "late"} => out[a].text # "applying"

\* A handler's step that neither shows nor refuses a patch.
LEMMA OwnerStays ==
  ASSUME ApplyingHasOwner, KeepsMessage, patchFailed' = patchFailed,
         \A a \in Apply : TakesBack(a) => TakesBack(a)'
  PROVE  ApplyingHasOwner'
BY DEF ApplyingHasOwner, KeepsMessage

LEMMA OwnerGoes ==
  ASSUME shown' # "applying" \/ patchFailed'
  PROVE  ApplyingHasOwner'
BY DEF ApplyingHasOwner

LEMMA PatchIsOver ==
  ASSUME NEW i \in Interaction, (out[i].text # "applying" /\ Arrives(i)) \/ Fails(i)
  PROVE  ApplyingHasOwner'
<1>1. shown' # "applying" \/ patchFailed'
  BY DEF Arrives, Fails, Shows
<1>2. QED BY <1>1, OwnerGoes

\* What interaction i does, to itself alone.
LEMMA OthersTakeBack ==
  ASSUME NEW i \in Interaction, \A a \in Apply \ {i} : pc'[a] = pc[a] /\ out'[a].text = out[a].text,
         i \in Apply /\ TakesBack(i) => TakesBack(i)'
  PROVE  \A a \in Apply : TakesBack(a) => TakesBack(a)'
BY DEF TakesBack

\* A step that leaves a watch where it is, or where it has nothing on its way.
LEMMA WatchesStay ==
  ASSUME WatchesConclude,
         \A a \in Apply : runs'[a].st \in {"wrapup", "late"} =>
            \/ runs[a].st \in {"wrapup", "late"} /\ out'[a].text = out[a].text
            \/ out'[a].text # "applying"
  PROVE  WatchesConclude'
BY DEF WatchesConclude

\* A handler has no watch yet.
LEMMA HandlerWatches ==
  ASSUME IInv, WatchesConclude, NEW i \in Interaction, pc[i] # "done", runs' = runs,
         \A a \in Apply \ {i} : out'[a] = out[a]
  PROVE  WatchesConclude'
<1>1. i \in Apply => runs[i].st = "none"
  BY DEF IInv, HandlerFirst
<1>2. QED BY <1>1, WatchesStay

\* Which interactions a handler's step leaves alone.
LEMMA HandlerFrame ==
  ASSUME IInv, NEW i \in Interaction, NEW st, Goes(i, st),
         \/ out' = out \/ \E t : Sends(i, t) \/ FirstSends(i, t)
         \/ Counted(i) \/ Released(i)
  PROVE  /\ pc'[i] = st
         /\ \A a \in Apply \ {i} : pc'[a] = pc[a] /\ out'[a] = out[a]
BY DEF Goes, Sends, FirstSends, Counted, Released, IInv, Interaction

\* Steps of a handler that does not take back anything.
LEMMA StartOwners ==
  ASSUME IInv, ApplyingHasOwner, WatchesConclude, NEW i \in Interaction,
         \/ NotForUs(i) \/ StartCall(i) \/ StartNotice(i)
         \/ i \in Apply /\ StartApply(i)
         \/ i \in Discard /\ StartDiscard(i)
  PROVE  ApplyingHasOwner' /\ WatchesConclude'
<1>1. MayStart(i) /\ pc[i] = "idle" /\ KeepsMessage /\ patchFailed' = patchFailed /\ runs' = runs
  BY DEF NotForUs, StartCall, StartNotice, StartApply, StartDiscard, MayStart
<1>2. \E st : Goes(i, st)
  BY DEF NotForUs, StartCall, StartNotice, StartApply, StartDiscard
<1>3. out' = out \/ \E t : Sends(i, t) \/ FirstSends(i, t)
  BY DEF NotForUs, StartCall, StartNotice, StartApply, StartDiscard
<1>4. \A a \in Apply \ {i} : pc'[a] = pc[a] /\ out'[a] = out[a]
  BY <1>2, <1>3, HandlerFrame
<1>5. ~TakesBack(i)
  BY <1>1 DEF TakesBack
<1>6. QED BY <1>1, <1>4, <1>5, OthersTakeBack, OwnerStays, HandlerWatches

LEMMA HandlerOwners ==
  ASSUME IInv, ApplyingHasOwner, WatchesConclude, NEW i \in Interaction, HandlerStep(i)
  PROVE  ApplyingHasOwner' /\ WatchesConclude'
<1>1. runs' = runs /\ pc[i] \in {"call", "patch", "notice", "report"}
  BY DEF HandlerStep, CommandAnswered, PlanBuilt, ServiceFails, OutcomeShown, PatchFails, NoticeSent,
     NoticeFails, Reported
<1>2. \E st : Goes(i, st)
  BY DEF HandlerStep, CommandAnswered, PlanBuilt, ServiceFails, OutcomeShown, PatchFails, NoticeSent,
     NoticeFails, Reported
<1>3. out' = out \/ (\E t : Sends(i, t) \/ FirstSends(i, t)) \/ Released(i)
  BY DEF HandlerStep, CommandAnswered, PlanBuilt, ServiceFails, OutcomeShown, PatchFails, NoticeSent,
     NoticeFails, Reported
<1>4. \A a \in Apply \ {i} : pc'[a] = pc[a] /\ out'[a] = out[a]
  BY <1>2, <1>3, HandlerFrame
<1>5. WatchesConclude'
  BY <1>1, <1>4, HandlerWatches
<1>6. CASE OutcomeShown(i) \/ PatchFails(i)
  <2>1. (out[i].text # "applying" /\ Arrives(i)) \/ Fails(i)
    BY <1>6 DEF OutcomeShown, PatchFails
  <2>2. QED BY <1>5, <2>1, PatchIsOver
<1>7. CASE \/ CommandAnswered(i) \/ PlanBuilt(i) \/ ServiceFails(i)
           \/ NoticeSent(i) \/ NoticeFails(i) \/ Reported(i)
  <2>1. patchFailed' = patchFailed /\ (KeepsMessage \/ shown' # "applying")
    BY <1>7 DEF CommandAnswered, PlanBuilt, ServiceFails, NoticeSent, NoticeFails, Reported, Shows
  <2>2. i \in Apply /\ TakesBack(i) => TakesBack(i)'
    <3>1. CASE ServiceFails(i) /\ i \in Apply
      <4>1. Goes(i, "patch") /\ out' = [out EXCEPT ![i] = Sent(@, "error")]
        BY <3>1 DEF ServiceFails, Sends
      <4>2. pc'[i] = "patch" /\ out'[i].text = "error"
        BY <4>1 DEF Goes, IInv, Sent, Outs
      <4>3. QED BY <4>2 DEF TakesBack
    <3>2. CASE ~(ServiceFails(i) /\ i \in Apply) /\ i \in Apply
      <4>1. pc[i] \notin {"call", "patch"}
        BY <1>7, <3>2, InteractionsAssumption DEF CommandAnswered, PlanBuilt, ServiceFails, NoticeSent,
           NoticeFails, Reported
      <4>2. QED BY <4>1 DEF TakesBack
    <3>3. QED BY <3>1, <3>2
  <2>3. QED BY <1>4, <1>5, <2>1, <2>2, OthersTakeBack, OwnerStays, OwnerGoes
<1>8. QED BY <1>6, <1>7 DEF HandlerStep

LEMMA ApplyOwners ==
  ASSUME IInv, ApplyingHasOwner, WatchesConclude, NEW a \in Apply, ApplyStep(a)
  PROVE  ApplyingHasOwner' /\ WatchesConclude'
<1>0. a \in Interaction /\ a \in Task
  BY DEF Interaction
<1>1. CASE Applied(a) \/ NotApplied(a)
  <2>1. PICK t \in {"applied", "plan", "blocked", "already", "failed"} : Sends(a, t)
    BY <1>1 DEF Applied, NotApplied
  <2>2. /\ pc[a] = "call" /\ Goes(a, "patch") /\ KeepsMessage
        /\ patchFailed' = patchFailed /\ runs' = runs
    BY <1>1 DEF Applied, NotApplied
  <2>3. pc'[a] = "patch" /\ \A b \in Apply \ {a} : pc'[b] = pc[b] /\ out'[b] = out[b]
    BY <1>0, <2>1, <2>2, HandlerFrame
  <2>4. out'[a].text = t
    BY <1>0, <2>1 DEF Sends, Sent, IInv, Outs
  <2>5. TakesBack(a)'
    BY <2>3, <2>4 DEF TakesBack
  <2>6. QED BY <1>0, <2>2, <2>3, <2>5, OthersTakeBack, OwnerStays, HandlerWatches
<1>2. CASE ApplyingShown(a)
  <2>1. pc[a] = "patch" /\ Goes(a, "call") /\ Counted(a) /\ runs' = runs
    BY <1>2 DEF ApplyingShown
  <2>2. pc'[a] = "call" /\ \A b \in Apply \ {a} : pc'[b] = pc[b] /\ out'[b] = out[b]
    BY <1>0, <2>1, HandlerFrame
  <2>3. ApplyingHasOwner'
    BY <2>2 DEF ApplyingHasOwner, TakesBack
  <2>4. QED BY <1>0, <2>1, <2>2, <2>3, HandlerWatches
<1>3. CASE ErrorPatched(a)
  <2>1. pc[a] = "patch" /\ Goes(a, "report") /\ Released(a) /\ runs' = runs
    BY <1>3 DEF ErrorPatched
  <2>2. \A b \in Apply \ {a} : pc'[b] = pc[b] /\ out'[b] = out[b]
    BY <1>0, <2>1, HandlerFrame
  <2>3. ApplyingHasOwner'
    BY <1>0, <1>3, PatchIsOver DEF ErrorPatched
  <2>4. QED BY <1>0, <2>1, <2>2, <2>3, HandlerWatches
<1>4. CASE AppliedShown(a)
  <2>1. PICK n \in Name : Schedule(a, n) /\ (IF Accepts(n) THEN Counted(a) ELSE Released(a))
    BY <1>4 DEF AppliedShown
  <2>2. pc[a] = "patch" /\ Goes(a, "done") /\ ApplyingHasOwner'
    BY <1>0, <1>4, PatchIsOver DEF AppliedShown
  <2>3. \A b \in Apply \ {a} : out'[b] = out[b]
    BY <1>0, <2>1, <2>2, HandlerFrame
  <2>4. runs[a].st = "none"
    BY <1>0, <2>2 DEF IInv, HandlerFirst
  <2>5. runs'[a].st \in {"armed", "refused"} /\ \A b \in Apply \ {a} : runs'[b] = runs[b]
    BY <1>0, <2>1, <2>4, ScheduleKeeps DEF IInv
  <2>6. WatchesConclude'
    BY <2>3, <2>5, WatchesStay
  <2>7. QED BY <2>2, <2>6
<1>5. QED BY <1>1, <1>2, <1>3, <1>4 DEF ApplyStep

LEMMA WatchOwners ==
  ASSUME IInv, ApplyingHasOwner, WatchesConclude, NEW a \in Apply, WatchStep(a)
  PROVE  ApplyingHasOwner' /\ WatchesConclude'
<1>0. a \in Interaction /\ a \in Task /\ SInv
  BY DEF Interaction, IInv
<1>1. pc[a] = "done" /\ pc' = pc
  BY <1>0 DEF IInv, HandlerFirst, WatchStep, WatchTicks, StartsTick, Due, WatchGoesOn, Continues,
     WatchDecides, WatchTimesOut, TimesOut, WatchPatched, Completes, LateEnds
<1>2. /\ \A b \in Apply \ {a} : out'[b] = out[b]
      /\ \A b \in Apply \ {a} : runs'[b].st = runs[b].st
  <2>1. \A b \in Apply \ {a} : out'[b] = out[b]
    BY <1>0 DEF IInv, Interaction, WatchStep, WatchTicks, WatchGoesOn, WatchDecides, WatchTimesOut,
       WatchPatched, Sends, Released
  <2>2. \A b \in Apply \ {a} : runs'[b] = runs[b]
    BY <1>0 DEF SInv, SchedulerTypeOK, WatchStep, WatchTicks, StartsTick, WatchGoesOn, Continues, ReArm,
       WatchDecides, WatchTimesOut, TimesOut, WatchPatched, Completes, LateEnds, Moves, Retire
  <2>3. QED BY <2>1, <2>2
<1>3. \A b \in Apply : TakesBack(b) => TakesBack(b)'
  BY <1>1, <1>2 DEF TakesBack
<1>4. CASE WatchTicks(a) \/ WatchGoesOn(a)
  <2>1. KeepsMessage /\ patchFailed' = patchFailed /\ out' = out
    BY <1>4 DEF WatchTicks, WatchGoesOn
  <2>2. runs'[a].st \in {"ticking", "armed"}
    <3>1. CASE WatchTicks(a)
      BY <1>0, <3>1 DEF WatchTicks, StartsTick, Moves, SInv, SchedulerTypeOK, Runs
    <3>2. CASE WatchGoesOn(a)
      BY <1>0, <3>2, ContinuesKeeps DEF WatchGoesOn
    <3>3. QED BY <1>4, <3>1, <3>2
  <2>3. QED BY <1>2, <1>3, <2>1, <2>2, OwnerStays, WatchesStay
<1>5. CASE WatchDecides(a) \/ WatchTimesOut(a)
  <2>1. PICK t \in {"verdict", "timeout"} : Sends(a, t)
    BY <1>5 DEF WatchDecides, WatchTimesOut
  <2>2. KeepsMessage /\ patchFailed' = patchFailed
    BY <1>5 DEF WatchDecides, WatchTimesOut
  <2>3. out'[a].text = t
    BY <1>0, <2>1 DEF Sends, Sent, IInv, Outs
  <2>4. QED BY <1>2, <1>3, <2>2, <2>3, OwnerStays, WatchesStay
<1>6. CASE WatchPatched(a)
  <2>1. runs[a].st \in {"wrapup", "late"}
    BY <1>6 DEF WatchPatched, Completes, LateEnds
  <2>2. out[a].text # "applying"
    BY <2>1 DEF WatchesConclude
  <2>3. out'[a].text # "applying"
    BY <1>0, <1>6 DEF WatchPatched, Released, IInv, Unused
  <2>4. QED BY <1>0, <1>2, <1>6, <2>2, <2>3, PatchIsOver, WatchesStay DEF WatchPatched
<1>7. QED BY <1>4, <1>5, <1>6 DEF WatchStep

LEMMA TimeOwners ==
  ASSUME IInv, ApplyingHasOwner, WatchesConclude, TimePasses
  PROVE  ApplyingHasOwner' /\ WatchesConclude'
<1>1. \A a \in Apply : out'[a].text = out[a].text /\ pc'[a] = pc[a]
  BY DEF TimePasses, Interaction, IInv, Outs
<1>2. \A a \in Apply : runs'[a].st = runs[a].st
  BY ElapseKeeps DEF TimePasses, IInv
<1>3. \A a \in Apply : TakesBack(a) => TakesBack(a)'
  BY <1>1 DEF TakesBack
<1>4. QED BY <1>1, <1>2, <1>3, OwnerStays, WatchesStay DEF TimePasses

\* The message never shows "applying" with nobody at work to replace it, until
\* a patch fails: what ApplyingIsTransient needs of every state
\* (apply-button.ts handleApplyResult, patchError).
THEOREM ApplyingIsOwned == Spec => []ApplyingHasOwner
<1>1. Init => ApplyingHasOwner /\ WatchesConclude
  BY IdleIsRun DEF Init, SchedulerInit, ApplyingHasOwner, WatchesConclude, RunStates
<1>2. IInv /\ ApplyingHasOwner /\ WatchesConclude /\ [Next]_vars => ApplyingHasOwner' /\ WatchesConclude'
  <2> SUFFICES ASSUME IInv, ApplyingHasOwner, WatchesConclude, [Next]_vars
               PROVE  ApplyingHasOwner' /\ WatchesConclude'
    OBVIOUS
  <2>1. CASE UNCHANGED vars
    BY <2>1 DEF vars, ApplyingHasOwner, WatchesConclude, TakesBack
  <2>2. CASE Next
    BY <2>2, StartOwners, HandlerOwners, ApplyOwners, WatchOwners, TimeOwners DEF Next, Interaction
  <2>3. QED BY <2>1, <2>2
<1>3. QED BY <1>1, <1>2, Invariant, PTL DEF Spec
=============================================================================
