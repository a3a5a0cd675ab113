---------------------------- MODULE Reconciliation -------------------------
(* What the task reconciler gets to see: the window of a2a_task rows a tick  *)
(* looks at (findUnsettled, a2a-task-tracker.ts) and the handles of the      *)
(* remote agents it polls them with (remote-agent-registry.ts).              *)
(* TaskLifecycle interleaves the calls of one row with those of its other    *)
(* observers; here a row is visited in one step, and what matters is which   *)
(* rows are visited at all.                                                  *)
EXTENDS Sequences, FiniteSets, SequencesExt

CONSTANTS
  Row,        \* delegated tasks and their rows
  Agent,      \* agents of REMOTE_AGENT_URLS
  AgentOf,    \* a row's agentName
  Limit,      \* FIND_UNSETTLED_LIMIT
  Ttl,        \* cacheTtlMs
  Faults      \* what may go wrong: db, post, card, poll

ASSUME ReconciliationAssumption ==
  /\ AgentOf \in [Row -> Agent]
  /\ Limit \in Nat \ {0} /\ Ttl \in Nat

VARIABLES
  remote,    \* external: what tasks/get would say of each task
  row,       \* none, settled, or the state of the unsettled row
  order,     \* the unsettled rows, the one longest not updated first
  aged,      \* how many of them are past graceMs
  overdue,   \* the rows that are executing past their deadlineAt
  tick,      \* the reconciler's run
  cache,     \* the registry's cache
  fetch,     \* the registry's inFlight
  resolved   \* history: how long ago each agent's card last arrived

rowVars == <<remote, row, order, aged, overdue>>
registryVars == <<cache, fetch, resolved>>
vars == <<rowVars, tick, registryVars>>

States == {"working", "input-required", "completed", "failed"}

\* asked: waits for input; gone: TaskNotFound.
RemoteStates == {"unsent", "working", "asked", "completed", "failed", "gone"}

\* age is since fetchedAt, and Ttl once it makes no difference any more.  No
\* cache, or one that has expired.
NoCache == [handles |-> {}, age |-> Ttl]

NoFetch == [asked |-> {}, handles |-> {}, age |-> 0]

NoTick == [st |-> "idle", window |-> <<>>, handles |-> {}]

TypeOK ==
  /\ remote \in [Row -> RemoteStates]
  /\ row \in [Row -> States \cup {"none", "settled"}]
  /\ order \in Seq(Row) /\ IsInjective(order)
  /\ ToSet(order) = {r \in Row : row[r] \in States}
  /\ aged \in 0..Len(order)
  /\ overdue \subseteq {r \in Row : row[r] = "working"}
  /\ DOMAIN tick = {"st", "window", "handles"}
  /\ tick.st \in {"idle", "listing", "sweeping"} /\ tick.handles \subseteq Agent
  /\ tick.window \in Seq(Row) /\ IsInjective(tick.window)
  /\ Len(tick.window) <= Limit
  /\ cache \in [handles : SUBSET Agent, age : 0..Ttl]
  /\ fetch \in [asked : SUBSET Agent, handles : SUBSET Agent, age : 0..Ttl]
  /\ resolved \in [Agent -> 0..Ttl]

Init ==
  /\ remote = [r \in Row |-> "unsent"]
  /\ row = [r \in Row |-> "none"]
  /\ order = <<>> /\ aged = 0 /\ overdue = {}
  /\ tick = NoTick
  /\ cache = NoCache /\ fetch = NoFetch
  /\ resolved = [g \in Agent |-> Ttl]

---------------------------------------------------------------------------
(* Rows.  Every UPDATE of a row sets updatedAt.                            *)

\* An unsettled row's place, and the order without it.
PlaceOf(r) == CHOOSE i \in DOMAIN order : order[i] = r

Others(r) == RemoveAt(order, PlaceOf(r))

\* Mutant of Rejuvenate: the UPDATE lacks its WHERE.
RejuvenateAll(r) == aged' = 0

\* A row among the aged ones leaves them.
Rejuvenate(r) == aged' = IF PlaceOf(r) <= aged THEN aged - 1 ELSE aged

\* Mutant: a row that is updated keeps its place too.
UpdatedTwice(r, s) ==
  /\ row' = [row EXCEPT ![r] = s]
  /\ order' = Append(order, r)
  /\ UNCHANGED <<remote, aged, overdue>>

Updated(r, s) ==
  /\ row' = [row EXCEPT ![r] = s]
  /\ order' = Append(Others(r), r)
  /\ Rejuvenate(r)
  /\ overdue' = IF s = "working" THEN overdue ELSE overdue \ {r}
  /\ UNCHANGED remote

\* Nobody asks again what became of the task.
Settled(r) ==
  /\ row' = [row EXCEPT ![r] = "settled"]
  /\ order' = Others(r)
  /\ Rejuvenate(r)
  /\ overdue' = overdue \ {r}
  /\ remote' = [remote EXCEPT ![r] = "gone"]

\* The transition is won; a refused post unsettles the row again, if it can.
Settles(r, s) == Settled(r) \/ ("post" \in Faults /\ Updated(r, s))

KeepsRows == UNCHANGED rowVars

\* recordDelegated.
Record(r) ==
  /\ row[r] = "none"
  /\ row' = [row EXCEPT ![r] = "working"]
  /\ order' = Append(order, r)
  /\ remote' = [remote EXCEPT ![r] = "working"]
  /\ UNCHANGED <<aged, overdue, tick, registryVars>>

\* A user answers: message/send, then the row's new deadline, if that can be
\* written.
Resume(r) ==
  /\ row[r] = "input-required" /\ remote[r] = "asked"
  /\ remote' = [remote EXCEPT ![r] = "working"]
  /\ \/ /\ row' = [row EXCEPT ![r] = "working"]
        /\ order' = Append(Others(r), r)
        /\ Rejuvenate(r)
        /\ overdue' = overdue \ {r}
     \/ "db" \in Faults /\ UNCHANGED <<row, order, aged, overdue>>
  /\ UNCHANGED <<tick, registryVars>>

\* dispatchTask.  A heartbeat has no guard; a question and a failure are for a
\* row that is executing; the rest is for any unsettled row.
Dispatched(r) ==
  IF row[r] \notin States THEN KeepsRows
  ELSE \/ remote[r] = "working" /\ Updated(r, "working")
       \/ /\ remote[r] = "asked" /\ row[r] = "working"
          /\ \E s \in {"input-required"} \cup (IF "post" \in Faults THEN {"working"} ELSE {}) :
               Updated(r, s)
       \/ remote[r] = "completed" /\ Settles(r, "completed")
       \/ remote[r] = "failed" /\ row[r] = "working" /\ Settles(r, "failed")
       \/ remote[r] \in {"asked", "failed"} /\ row[r] # "working" /\ KeepsRows
       \/ "db" \in Faults /\ KeepsRows

\* A push notification, whose finalizer has its own handle.  The heartbeat of an
\* overdue row renews its grace like any other's.
Push(r) ==
  /\ row[r] \in States /\ remote[r] # "gone"
  /\ Dispatched(r)
  /\ UNCHANGED <<tick, registryVars>>

\* The remote agent asks, ends a task or forgets it; nobody looks at a settled one.
RemoteMoves(r) ==
  /\ row[r] \in States
  /\ \/ remote[r] = "working" /\ \E s \in {"asked", "completed", "failed"} : remote' = [remote EXCEPT ![r] = s]
     \/ remote[r] # "gone" /\ remote' = [remote EXCEPT ![r] = "gone"]
  /\ UNCHANGED <<row, order, aged, overdue, tick, registryVars>>

---------------------------------------------------------------------------
(* The registry.  What a caller gets from an expired cache is the fetch in *)
(* flight, its own or one begun before.                                    *)

IsCached == cache.age < Ttl

Fetching == fetch.asked # {}

StartFetch == fetch' = IF Fetching THEN fetch ELSE [NoFetch EXCEPT !.asked = Agent]

\* listAgents called by a turn or a push.
Ask ==
  /\ ~IsCached /\ ~Fetching
  /\ StartFetch
  /\ UNCHANGED <<rowVars, tick, cache, resolved>>

\* Mutant: the cache is dated when the fetch ends.
DatedAtEnd(handles) == [handles |-> handles, age |-> 0]

\* The cache is dated when the fetch began.
Dated(handles) == IF fetch.age < Ttl THEN [handles |-> handles, age |-> fetch.age] ELSE NoCache

\* A tick polls its rows with these handles: of the others it makes no use.
Sweep(window, handles) ==
  [st |-> "sweeping", window |-> window,
   handles |-> handles \cap {AgentOf[r] : r \in ToSet(window)}]

\* The last card fills the cache and serves everyone who waits.
CardEnds(g, handles) ==
  /\ g \in fetch.asked
  /\ IF fetch.asked = {g}
     THEN /\ fetch' = NoFetch
          /\ cache' = Dated(handles)
          /\ tick' = IF tick.st = "listing" THEN Sweep(tick.window, handles) ELSE tick
     ELSE /\ fetch' = [fetch EXCEPT !.asked = @ \ {g}, !.handles = handles]
          /\ UNCHANGED <<cache, tick>>
  /\ UNCHANGED rowVars

\* Of a fetch too old to be cached, the cards' ages are not kept.
CardArrives(g) ==
  /\ CardEnds(g, fetch.handles \cup {g})
  /\ resolved' = [resolved EXCEPT ![g] = IF fetch.age < Ttl THEN 0 ELSE Ttl]

\* The card cannot be fetched or does not parse.
CardFails(g) ==
  /\ "card" \in Faults
  /\ CardEnds(g, fetch.handles)
  /\ UNCHANGED resolved

---------------------------------------------------------------------------
(* A tick.                                                                 *)

Lesser(m, n) == IF m < n THEN m ELSE n

\* Mutant: the rows updated last first.
NewestWindow == SubSeq(order, aged - Lesser(aged, Limit) + 1, aged)

\* findUnsettled: ORDER BY updatedAt LIMIT.
FindUnsettled == SubSeq(order, 1, Lesser(aged, Limit))

\* runOnce: no rows, no listAgents.  A failed query finds none either.
StartTick ==
  /\ tick.st = "idle" /\ FindUnsettled # <<>>
  /\ IF IsCached
     THEN /\ tick' = Sweep(FindUnsettled, cache.handles)
          /\ UNCHANGED fetch
     ELSE /\ tick' = [st |-> "listing", window |-> FindUnsettled, handles |-> {}]
          /\ StartFetch
  /\ UNCHANGED <<rowVars, cache, resolved>>

\* The row whose turn it is in the sweep.
At(r) == tick.st = "sweeping" /\ tick.window # <<>> /\ Head(tick.window) = r

Visited(r) ==
  /\ At(r)
  /\ tick' = IF Len(tick.window) = 1 THEN NoTick ELSE [tick EXCEPT !.window = Tail(@)]
  /\ UNCHANGED registryVars

\* The deadline transition, settleFailure.
Expire(r) ==
  /\ Visited(r)
  /\ r \in overdue
  /\ Settles(r, "failed")

\* The deadline transition is not attempted, or it failed.
MayPoll(r) == r \in overdue => "db" \in Faults

\* No handle, or tasks/get failed.
Unpolled(r) ==
  /\ Visited(r) /\ MayPoll(r)
  /\ AgentOf[r] \notin tick.handles \/ "poll" \in Faults
  /\ KeepsRows

Polled(r) ==
  /\ Visited(r) /\ MayPoll(r)
  /\ AgentOf[r] \in tick.handles /\ remote[r] # "gone"
  /\ Dispatched(r)

\* TaskNotFound fails the row from whatever state it was read in.
PollGone(r) ==
  /\ Visited(r) /\ MayPoll(r)
  /\ AgentOf[r] \in tick.handles /\ remote[r] = "gone"
  /\ IF row[r] \in States
     THEN Settles(r, "failed") \/ ("db" \in Faults /\ KeepsRows)
     ELSE KeepsRows

Visit(r) == Expire(r) \/ Unpolled(r) \/ Polled(r) \/ PollGone(r)

---------------------------------------------------------------------------
(* Time.                                                                   *)

GraceElapses ==
  /\ aged < Len(order)
  /\ aged' = aged + 1
  /\ UNCHANGED <<remote, row, order, overdue, tick, registryVars>>

DeadlinePasses(r) ==
  /\ row[r] = "working" /\ r \notin overdue
  /\ overdue' = overdue \cup {r}
  /\ UNCHANGED <<remote, row, order, aged, tick, registryVars>>

Older(age) == Lesser(age + 1, Ttl)

TtlElapses ==
  /\ cache' = IF cache.age + 1 < Ttl THEN [cache EXCEPT !.age = @ + 1] ELSE NoCache
  /\ fetch' = IF Fetching THEN [fetch EXCEPT !.age = Older(@)] ELSE fetch
  /\ resolved' = [g \in Agent |->
       IF g \in cache'.handles \cup fetch'.handles THEN Older(resolved[g]) ELSE Ttl]
  /\ UNCHANGED <<rowVars, tick>>

Next ==
  \/ \E r \in Row :
       \/ Record(r) \/ Resume(r) \/ Push(r) \/ RemoteMoves(r) \/ DeadlinePasses(r)
       \/ Expire(r) \/ Unpolled(r) \/ Polled(r) \/ PollGone(r)
  \/ \E g \in Agent : CardArrives(g) \/ CardFails(g)
  \/ Ask \/ StartTick \/ GraceElapses \/ TtlElapses

Spec == Init /\ [][Next]_vars

\* The interval fires and a tick goes on; a card request is answered or fails;
\* time passes; the database does not refuse a row's deadline for ever.
Fairness ==
  /\ WF_vars(StartTick) /\ WF_vars(\E r \in Row : Visit(r))
  /\ \A g \in Agent : WF_vars(CardArrives(g) \/ CardFails(g))
  /\ WF_vars(GraceElapses)
  /\ \A r \in Row : WF_vars(DeadlinePasses(r)) /\ SF_vars(Expire(r))

FairSpec == Spec /\ Fairness

---------------------------------------------------------------------------
(* Properties.                                                             *)

\* The rows a tick looks at before r, or instead of it.
Before(r) == {q \in ToSet(order) : \E i, j \in 1..Len(order) : i < j /\ order[i] = q /\ order[j] = r}

IsAged(r) == r \in ToSet(SubSeq(order, 1, aged))

\* A row never loses its turn to another: while it stays unsettled and is not
\* updated itself, nobody gets in front of it, and once findUnsettled considers
\* it, it goes on to (updatedAt only ever moves a row to the end,
\* a2a-task-tracker.ts findUnsettled).
NobodyOvertakes ==
  [][\A r \in ToSet(order) \cap ToSet(order') :
       \/ order' = Append(Others(r), r)
       \/ Before(r)' \subseteq Before(r) /\ (IsAged(r) => IsAged(r)')]_vars

\* A handle taken from the cache was resolved less than the TTL ago, however
\* long the slowest card of its fetch took (remote-agent-registry.ts:123).
HandlesAreFresh == IsCached => \A g \in cache.handles : resolved[g] < Ttl

\* An overdue task is failed though its agent's card never arrives and its
\* neighbours keep failing or keep reporting, by ticks that see Limit rows each;
\* unless its own agent never stops reporting progress, each report of which
\* renews the row's grace (response-finalizer.ts:366), or as many older rows are
\* waiting for something else than their deadline: a question its user never
\* answers keeps its place in the window for good (a2a-task-tracker.ts
\* findUnsettled, task-reconciler.ts runOnceLocked).
BacklogReached ==
  \A r \in Row :
    <>[][~(r \in overdue /\ Push(r))]_vars =>
      (r \in overdue ~> r \notin overdue \/ Cardinality({q \in Before(r) : row[q] # "working"}) >= Limit)
=============================================================================
