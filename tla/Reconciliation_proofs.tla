------------------------ MODULE Reconciliation_proofs -----------------------
(* Proofs about Reconciliation, for any rows and agents, any limit and TTL:  *)
(* the order of the rows, its types and who may overtake whom; the         *)
(* registry's cache.                                                         *)
EXTENDS Reconciliation, SequenceTheorems, TLAPS

USE ReconciliationAssumption

RegistryTypeOK ==
  /\ cache \in [handles : SUBSET Agent, age : 0..Ttl]
  /\ fetch \in [asked : SUBSET Agent, handles : SUBSET Agent, age : 0..Ttl]
  /\ resolved \in [Agent -> 0..Ttl]

\* A fetch runs only while there is no valid cache, and holds handles only
\* while it runs.
OneSource ==
  /\ ~IsCached => cache.handles = {}
  /\ Fetching => ~IsCached
  /\ ~Fetching => fetch.handles = {}

\* A handle is no older than what holds it.
NoOlder ==
  /\ \A g \in cache.handles : resolved[g] <= cache.age
  /\ \A g \in fetch.handles : resolved[g] <= fetch.age

IInv == RegistryTypeOK /\ OneSource /\ NoOlder

-----------------------------------------------------------------------------
(* The ages.                                                               *)

LEMMA OlderAge ==
  ASSUME NEW a \in 0..Ttl, NEW b \in 0..Ttl, a <= b
  PROVE  Older(a) \in 0..Ttl /\ Older(a) <= Older(b) /\ Older(a) <= a + 1
BY DEF Older, Lesser

LEMMA DatedType ==
  ASSUME RegistryTypeOK, NEW H \in SUBSET Agent
  PROVE  /\ Dated(H) \in [handles : SUBSET Agent, age : 0..Ttl]
         /\ Dated(H).handles \subseteq H
         /\ Dated(H).handles # {} => Dated(H).age = fetch.age
         /\ Dated(H).age = Ttl => Dated(H).handles = {}
<1>1. CASE fetch.age < Ttl
  BY <1>1 DEF Dated, RegistryTypeOK
<1>2. CASE ~(fetch.age < Ttl)
  BY <1>2 DEF Dated, NoCache
<1>3. QED BY <1>1, <1>2

-----------------------------------------------------------------------------
(* The steps.                                                              *)

LEMMA RegistryUnchanged == ASSUME IInv, UNCHANGED registryVars PROVE IInv'
BY DEF IInv, registryVars, RegistryTypeOK, OneSource, NoOlder, IsCached, Fetching

LEMMA StartFetchKeeps ==
  ASSUME IInv, ~IsCached, StartFetch, UNCHANGED <<cache, resolved>>
  PROVE  IInv'
<1> USE DEF IInv, RegistryTypeOK, OneSource, IsCached, Fetching
<1>1. CASE Fetching
  BY <1>1 DEF StartFetch, NoOlder
<1>2. CASE ~Fetching
  <2>1. fetch' = [asked |-> Agent, handles |-> {}, age |-> 0]
    BY <1>2 DEF StartFetch, NoFetch
  <2>2. QED BY <2>1 DEF NoOlder
<1>3. QED BY <1>1, <1>2

LEMMA AskKeeps == ASSUME IInv, Ask PROVE IInv'
BY StartFetchKeeps DEF Ask

LEMMA StartTickKeeps == ASSUME IInv, StartTick PROVE IInv'
<1>1. CASE IsCached
  BY <1>1, RegistryUnchanged DEF StartTick, registryVars
<1>2. CASE ~IsCached
  BY <1>2, StartFetchKeeps DEF StartTick
<1>3. QED BY <1>1, <1>2

\* What a card leaves behind: handles no older than the fetch.
LEMMA CardEndsKeeps ==
  ASSUME IInv, NEW g \in Agent, NEW H \in SUBSET Agent, CardEnds(g, H),
         resolved' \in [Agent -> 0..Ttl], \A h \in H : resolved'[h] <= fetch.age
  PROVE  IInv'
<1> USE DEF IInv, RegistryTypeOK
<1>1. g \in fetch.asked /\ Fetching /\ cache.handles = {} /\ ~IsCached
  BY DEF CardEnds, Fetching, OneSource
<1>2. CASE fetch.asked = {g}
  <2>1. fetch' = [asked |-> {}, handles |-> {}, age |-> 0] /\ cache' = Dated(H)
    BY <1>2 DEF CardEnds, NoFetch
  <2>2. RegistryTypeOK'
    BY <2>1, DatedType
  <2>3. OneSource'
    BY <2>1, DatedType DEF OneSource, IsCached, Fetching
  <2>4. NoOlder'
    BY <2>1, DatedType DEF NoOlder
  <2>5. QED BY <2>2, <2>3, <2>4
<1>3. CASE fetch.asked # {g}
  <2>1. cache' = cache /\ fetch' = [fetch EXCEPT !.asked = @ \ {g}, !.handles = H]
    BY <1>3 DEF CardEnds
  <2>2. fetch'.asked # {} /\ fetch'.handles = H /\ fetch'.age = fetch.age
    BY <2>1, <1>1, <1>3
  <2>3. QED BY <2>1, <2>2, <1>1 DEF OneSource, NoOlder, IsCached, Fetching
<1>4. QED BY <1>2, <1>3

LEMMA CardArrivesKeeps == ASSUME IInv, NEW g \in Agent, CardArrives(g) PROVE IInv'
<1> USE DEF IInv, RegistryTypeOK
<1>1. resolved' \in [Agent -> 0..Ttl]
  BY DEF CardArrives
<1>2. \A h \in fetch.handles \cup {g} : resolved'[h] <= fetch.age
  BY DEF CardArrives, NoOlder
<1>3. QED BY <1>1, <1>2, CardEndsKeeps DEF CardArrives

LEMMA CardFailsKeeps == ASSUME IInv, NEW g \in Agent, CardFails(g) PROVE IInv'
BY CardEndsKeeps DEF CardFails, IInv, RegistryTypeOK, NoOlder

LEMMA TtlElapsesKeeps == ASSUME IInv, TtlElapses PROVE IInv'
<1> USE DEF IInv, RegistryTypeOK
<1>1. /\ cache' \in [handles : SUBSET Agent, age : 0..Ttl]
      /\ IsCached' => cache'.handles = cache.handles /\ cache'.age = cache.age + 1
      /\ IsCached' => IsCached
      /\ ~IsCached' => cache'.handles = {}
  BY DEF TtlElapses, NoCache, IsCached
<1>2. /\ fetch' \in [asked : SUBSET Agent, handles : SUBSET Agent, age : 0..Ttl]
      /\ fetch'.asked = fetch.asked /\ fetch'.handles = fetch.handles
      /\ Fetching => fetch'.age = Older(fetch.age)
  BY OlderAge DEF TtlElapses, Fetching
<1>3. \A g \in cache'.handles \cup fetch'.handles :
        resolved'[g] = Older(resolved[g]) /\ resolved[g] \in 0..Ttl
  BY <1>1, <1>2 DEF TtlElapses
<1>4. resolved' \in [Agent -> 0..Ttl]
  BY OlderAge DEF TtlElapses
<1>5. OneSource'
  BY <1>1, <1>2 DEF OneSource, Fetching
<1>6. \A g \in cache'.handles : resolved'[g] <= cache'.age
  BY <1>1, <1>3, OlderAge DEF NoOlder
<1>7. \A g \in fetch'.handles : resolved'[g] <= fetch'.age
  BY <1>2, <1>3, OlderAge DEF NoOlder, OneSource
<1>8. QED BY <1>1, <1>2, <1>4, <1>5, <1>6, <1>7 DEF NoOlder

LEMMA InitHolds == Init => IInv
BY DEF Init, NoCache, NoFetch, IInv, RegistryTypeOK, OneSource, NoOlder, IsCached, Fetching

LEMMA NextKeeps == IInv /\ [Next]_vars => IInv'
<1> SUFFICES ASSUME IInv, [Next]_vars PROVE IInv'
  OBVIOUS
<1>1. ASSUME NEW r \in Row,
             \/ Record(r) \/ Resume(r) \/ Push(r) \/ RemoteMoves(r) \/ DeadlinePasses(r)
             \/ Expire(r) \/ Unpolled(r) \/ Polled(r) \/ PollGone(r)
      PROVE  UNCHANGED registryVars
  BY <1>1 DEF Record, Resume, Push, RemoteMoves, DeadlinePasses, Expire, Unpolled, Polled,
       PollGone, Visited
<1>2. CASE GraceElapses \/ UNCHANGED vars
  BY <1>2, RegistryUnchanged DEF GraceElapses, vars
<1>3. QED
  BY <1>1, <1>2, RegistryUnchanged, AskKeeps, StartTickKeeps, CardArrivesKeeps,
     CardFailsKeeps, TtlElapsesKeeps DEF Next

\* No handle is served from the cache at or past the TTL, however long the
\* slowest card of the fetch that cached it took, for any agents and any TTL.
THEOREM FreshHandles == Spec => []HandlesAreFresh
<1>1. IInv => HandlesAreFresh
  BY DEF IInv, RegistryTypeOK, NoOlder, HandlesAreFresh, IsCached
<1>2. QED BY <1>1, InitHolds, NextKeeps, PTL DEF Spec

-----------------------------------------------------------------------------
(* The order of the rows.                                                  *)

\* What leaving an injective sequence does to it.
LEMMA RemoveAtProperties ==
  ASSUME NEW S, NEW s \in Seq(S), IsInjective(s), NEW i \in DOMAIN s
  PROVE  /\ RemoveAt(s, i) \in Seq(S)
         /\ Len(RemoveAt(s, i)) = Len(s) - 1
         /\ \A j \in 1..(Len(s) - 1) : RemoveAt(s, i)[j] = IF j < i THEN s[j] ELSE s[j + 1]
         /\ IsInjective(RemoveAt(s, i))
         /\ ToSet(RemoveAt(s, i)) = ToSet(s) \ {s[i]}
<1> DEFINE a == SubSeq(s, 1, i - 1)
           b == SubSeq(s, i + 1, Len(s))
           c == RemoveAt(s, i)
<1>1. i \in 1..Len(s) /\ Len(s) \in Nat /\ \A j \in 1..Len(s) : s[j] \in S
  OBVIOUS
<1>2. a \in Seq(S) /\ Len(a) = i - 1 /\ \A j \in 1..(i - 1) : a[j] = s[j]
  <2>1. \A j \in 1..(i - 1) : s[j] \in S
    BY <1>1
  <2>2. /\ a \in Seq(S)
        /\ Len(a) = IF 1 <= i - 1 THEN (i - 1) - 1 + 1 ELSE 0
        /\ \A j \in 1..((i - 1) - 1 + 1) : a[j] = s[1 + j - 1]
    BY <2>1, <1>1, SubSeqProperties, 1 \in Int, i - 1 \in Int
  <2>3. \A j \in 1..(i - 1) : 1 + j - 1 = j
    OBVIOUS
  <2>4. QED BY <2>2, <2>3, <1>1
<1>3. b \in Seq(S) /\ Len(b) = Len(s) - i /\ \A j \in 1..(Len(s) - i) : b[j] = s[i + j]
  <2>1. \A j \in (i + 1)..Len(s) : s[j] \in S
    BY <1>1
  <2>2. /\ b \in Seq(S)
        /\ Len(b) = IF i + 1 <= Len(s) THEN Len(s) - (i + 1) + 1 ELSE 0
        /\ \A j \in 1..(Len(s) - (i + 1) + 1) : b[j] = s[(i + 1) + j - 1]
    BY <2>1, <1>1, SubSeqProperties, i + 1 \in Int, Len(s) \in Int
  <2>3. \A j \in 1..(Len(s) - i) : (i + 1) + j - 1 = i + j
    BY <1>1
  <2>4. QED BY <2>2, <2>3, <1>1
<1>c. c = a \o b
  BY DEF RemoveAt
<1> HIDE DEF a, b, c
<1>4. /\ c \in Seq(S)
      /\ Len(c) = Len(s) - 1
      /\ \A j \in 1..(Len(s) - 1) : c[j] = IF j <= i - 1 THEN a[j] ELSE b[j - (i - 1)]
  <2>2. /\ a \o b \in Seq(S)
        /\ Len(a \o b) = Len(a) + Len(b)
        /\ \A j \in 1..(Len(a) + Len(b)) : (a \o b)[j] = IF j <= Len(a) THEN a[j] ELSE b[j - Len(a)]
    BY <1>2, <1>3, ConcatProperties
  <2>3. Len(a) + Len(b) = Len(s) - 1
    BY <1>1, <1>2, <1>3
  <2>4. QED BY <1>c, <2>2, <2>3, <1>2
<1>5. ASSUME NEW j \in 1..(Len(s) - 1)
      PROVE  c[j] = IF j < i THEN s[j] ELSE s[j + 1]
  <2>1. CASE j < i
    BY <2>1, <1>1, <1>2, <1>4
  <2>2. CASE ~(j < i)
    <3>1. j - (i - 1) \in 1..(Len(s) - i) /\ i + (j - (i - 1)) = j + 1
      BY <2>2, <1>1
    <3>2. c[j] = b[j - (i - 1)]
      BY <2>2, <1>1, <1>4
    <3>3. b[j - (i - 1)] = s[j + 1]
      BY <3>1, <1>3
    <3>4. QED BY <2>2, <3>2, <3>3
  <2>3. QED BY <2>1, <2>2
<1>6. DOMAIN c = 1..(Len(s) - 1) /\ DOMAIN s = 1..Len(s)
  BY <1>4
<1>7. IsInjective(c)
  <2>1. SUFFICES ASSUME NEW j \in 1..(Len(s) - 1), NEW k \in 1..(Len(s) - 1), c[j] = c[k]
                 PROVE  j = k
    BY <1>6 DEF IsInjective
  <2>2. PICK m \in 1..Len(s) : c[j] = s[m] /\ m = IF j < i THEN j ELSE j + 1
    BY <1>1, <1>5
  <2>3. PICK n \in 1..Len(s) : c[k] = s[n] /\ n = IF k < i THEN k ELSE k + 1
    BY <1>1, <1>5
  <2>4. m = n
    BY <2>1, <2>2, <2>3, <1>6 DEF IsInjective
  <2>5. QED BY <2>2, <2>3, <2>4, <1>1
<1>8. ToSet(c) = ToSet(s) \ {s[i]}
  <2>1. ASSUME NEW x \in ToSet(c) PROVE x \in ToSet(s) \ {s[i]}
    BY <2>1, <1>1, <1>5, <1>6 DEF ToSet, IsInjective
  <2>2. ASSUME NEW x \in ToSet(s) \ {s[i]} PROVE x \in ToSet(c)
    <3>1. PICK k \in 1..Len(s) : x = s[k] /\ k # i
      BY <2>2, <1>6 DEF ToSet
    <3>2. CASE k < i
      <4>1. k \in 1..(Len(s) - 1) /\ c[k] = x
        BY <3>1, <3>2, <1>1, <1>5
      <4>2. QED BY <4>1, <1>6 DEF ToSet
    <3>3. CASE k > i
      <4>1. k - 1 \in 1..(Len(s) - 1) /\ ~(k - 1 < i) /\ (k - 1) + 1 = k
        BY <3>1, <3>3, <1>1
      <4>2. c[k - 1] = x
        BY <4>1, <3>1, <1>5
      <4>3. QED BY <4>1, <4>2, <1>6 DEF ToSet
    <3>4. QED BY <3>1, <3>2, <3>3, <1>1
  <2>3. QED BY <2>1, <2>2
<1>9. QED BY <1>4, <1>5, <1>7, <1>8 DEF c

LEMMA AppendNew ==
  ASSUME NEW S, NEW s \in Seq(S), IsInjective(s), NEW e \in S, e \notin ToSet(s)
  PROVE  /\ Append(s, e) \in Seq(S)
         /\ Len(Append(s, e)) = Len(s) + 1
         /\ \A j \in 1..Len(s) : Append(s, e)[j] = s[j]
         /\ Append(s, e)[Len(s) + 1] = e
         /\ IsInjective(Append(s, e))
         /\ ToSet(Append(s, e)) = ToSet(s) \cup {e}
<1> DEFINE t == Append(s, e)
<1>1. /\ t \in Seq(S)
      /\ Len(t) = Len(s) + 1
      /\ \A j \in 1..Len(s) : t[j] = s[j]
      /\ t[Len(s) + 1] = e
  BY AppendProperties
<1>2. DOMAIN t = 1..(Len(s) + 1) /\ DOMAIN s = 1..Len(s) /\ Len(s) \in Nat
  BY <1>1
<1>3. \A j \in 1..(Len(s) + 1) : j \in 1..Len(s) \/ j = Len(s) + 1
  BY <1>2
<1>4. \A j \in 1..Len(s) : t[j] \in ToSet(s) /\ t[j] # e
  BY <1>1, <1>2 DEF ToSet
<1>5. IsInjective(t)
  BY <1>1, <1>2, <1>3, <1>4 DEF IsInjective
<1>6. ToSet(t) = ToSet(s) \cup {e}
  BY <1>1, <1>2, <1>3 DEF ToSet
<1>7. QED BY <1>1, <1>5, <1>6

\* A prefix of an injective sequence, and what is left of one without its head.
LEMMA PrefixProperties ==
  ASSUME NEW S, NEW s \in Seq(S), IsInjective(s), NEW n \in 0..Len(s)
  PROVE  /\ SubSeq(s, 1, n) \in Seq(S)
         /\ Len(SubSeq(s, 1, n)) = n
         /\ \A j \in 1..n : SubSeq(s, 1, n)[j] = s[j]
         /\ IsInjective(SubSeq(s, 1, n))
<1> DEFINE p == SubSeq(s, 1, n)
<1>1. /\ p \in Seq(S)
      /\ Len(p) = IF 1 <= n THEN n - 1 + 1 ELSE 0
      /\ \A j \in 1..(n - 1 + 1) : p[j] = s[1 + j - 1]
  <2>1. \A j \in 1..n : s[j] \in S
    OBVIOUS
  <2>2. QED BY <2>1, SubSeqProperties, 1 \in Int, n \in Int
<1>2. Len(p) = n /\ \A j \in 1..n : p[j] = s[j]
  BY <1>1
<1>3. DOMAIN p = 1..n /\ DOMAIN s = 1..Len(s) /\ \A j \in 1..n : j \in 1..Len(s)
  BY <1>1, <1>2
<1>4. IsInjective(p)
  BY <1>2, <1>3 DEF IsInjective
<1>5. QED BY <1>1, <1>2, <1>4

LEMMA TailInjective ==
  ASSUME NEW S, NEW s \in Seq(S), IsInjective(s), s # <<>>
  PROVE  Tail(s) \in Seq(S) /\ Len(Tail(s)) = Len(s) - 1 /\ IsInjective(Tail(s))
<1>1. /\ Tail(s) \in Seq(S)
      /\ Len(Tail(s)) = Len(s) - 1
      /\ \A j \in 1..Len(Tail(s)) : Tail(s)[j] = s[j + 1]
  BY HeadTailProperties
<1>2. DOMAIN Tail(s) = 1..Len(Tail(s)) /\ DOMAIN s = 1..Len(s) /\ Len(s) \in Nat
  BY <1>1
<1>3. \A j \in 1..Len(Tail(s)) : j + 1 \in 1..Len(s)
  BY <1>1, <1>2
<1>4. IsInjective(Tail(s))
  BY <1>1, <1>2, <1>3 DEF IsInjective
<1>5. QED BY <1>1, <1>4

-----------------------------------------------------------------------------
(* The rows and the ticks.                                                 *)

OrderOK ==
  /\ remote \in [Row -> RemoteStates]
  /\ row \in [Row -> States \cup {"none", "settled"}]
  /\ order \in Seq(Row) /\ IsInjective(order)
  /\ ToSet(order) = {r \in Row : row[r] \in States}
  /\ aged \in 0..Len(order)

OverdueOK == overdue \subseteq {r \in Row : row[r] = "working"}

RowsOK == OrderOK /\ OverdueOK

TickOK ==
  /\ DOMAIN tick = {"st", "window", "handles"}
  /\ tick.st \in {"idle", "listing", "sweeping"} /\ tick.handles \subseteq Agent
  /\ tick.window \in Seq(Row) /\ IsInjective(tick.window)
  /\ Len(tick.window) <= Limit

\* An unsettled row has its place, and leaves the others in order behind.
LEMMA OthersProperties ==
  ASSUME OrderOK, NEW r \in Row, row[r] \in States
  PROVE  /\ PlaceOf(r) \in 1..Len(order) /\ order[PlaceOf(r)] = r
         /\ Others(r) \in Seq(Row) /\ IsInjective(Others(r))
         /\ Len(Others(r)) = Len(order) - 1
         /\ \A j \in 1..(Len(order) - 1) :
              Others(r)[j] = IF j < PlaceOf(r) THEN order[j] ELSE order[j + 1]
         /\ ToSet(Others(r)) = ToSet(order) \ {r}
<1>1. \E i \in DOMAIN order : order[i] = r
  BY DEF OrderOK, ToSet
<1>2. PlaceOf(r) \in DOMAIN order /\ order[PlaceOf(r)] = r
  BY <1>1 DEF PlaceOf
<1>3. order \in Seq(Row) /\ IsInjective(order) /\ DOMAIN order = 1..Len(order)
  BY DEF OrderOK
<1>4. ASSUME NEW i \in DOMAIN order, i = PlaceOf(r)
      PROVE  /\ Others(r) \in Seq(Row) /\ IsInjective(Others(r))
             /\ Len(Others(r)) = Len(order) - 1
             /\ \A j \in 1..(Len(order) - 1) :
                  Others(r)[j] = IF j < i THEN order[j] ELSE order[j + 1]
             /\ ToSet(Others(r)) = ToSet(order) \ {order[i]}
  <2>1. Others(r) = RemoveAt(order, i)
    BY <1>4 DEF Others
  <2>2. /\ RemoveAt(order, i) \in Seq(Row)
        /\ Len(RemoveAt(order, i)) = Len(order) - 1
        /\ \A j \in 1..(Len(order) - 1) :
             RemoveAt(order, i)[j] = IF j < i THEN order[j] ELSE order[j + 1]
        /\ IsInjective(RemoveAt(order, i))
        /\ ToSet(RemoveAt(order, i)) = ToSet(order) \ {order[i]}
    BY <1>3, RemoveAtProperties, Zenon
  <2>3. QED BY <2>1, <2>2
<1>5. QED BY <1>2, <1>3, <1>4

LEMMA RejuvenateType ==
  ASSUME OrderOK, NEW r \in Row, row[r] \in States, Rejuvenate(r)
  PROVE  aged' \in 0..(Len(order) - 1)
<1>1. PlaceOf(r) \in 1..Len(order) /\ aged \in 0..Len(order) /\ Len(order) \in Nat
  BY OthersProperties DEF OrderOK
<1>2. aged' = IF PlaceOf(r) <= aged THEN aged - 1 ELSE aged
  BY DEF Rejuvenate
<1>3. QED BY <1>1, <1>2

LEMMA MovedToEnd ==
  ASSUME OrderOK, NEW r \in Row, row[r] \in States
  PROVE  /\ Append(Others(r), r) \in Seq(Row) /\ IsInjective(Append(Others(r), r))
         /\ Len(Append(Others(r), r)) = Len(order)
         /\ ToSet(Append(Others(r), r)) = ToSet(order)
         /\ \A j \in 1..(Len(order) - 1) : Append(Others(r), r)[j] = Others(r)[j]
         /\ Append(Others(r), r)[Len(order)] = r
<1>1. /\ Others(r) \in Seq(Row) /\ IsInjective(Others(r))
      /\ Len(Others(r)) = Len(order) - 1 /\ Len(order) \in Nat
      /\ ToSet(Others(r)) = ToSet(order) \ {r}
  BY OthersProperties DEF OrderOK
<1>2. r \in ToSet(order)
  BY DEF OrderOK
<1> DEFINE o == Others(r)
<1>3. /\ Append(o, r) \in Seq(Row) /\ IsInjective(Append(o, r))
      /\ Len(Append(o, r)) = Len(o) + 1
      /\ \A j \in 1..Len(o) : Append(o, r)[j] = o[j]
      /\ Append(o, r)[Len(o) + 1] = r
      /\ ToSet(Append(o, r)) = ToSet(o) \cup {r}
  <2> HIDE DEF o
  <2>1. o \in Seq(Row) /\ IsInjective(o) /\ r \notin ToSet(o)
    BY <1>1 DEF o
  <2>2. QED BY <2>1, AppendNew
<1>4. Len(Others(r)) + 1 = Len(order)
  BY <1>1
<1>5. QED BY <1>1, <1>2, <1>3, <1>4

LEMMA UpdatedKeeps ==
  ASSUME RowsOK, NEW r \in Row, row[r] \in States, NEW s \in States, Updated(r, s)
  PROVE  RowsOK'
<1> USE DEF RowsOK
<1>1. /\ order' = Append(Others(r), r) /\ Rejuvenate(r)
      /\ row' = [row EXCEPT ![r] = s] /\ remote' = remote
  BY DEF Updated
<1>2. order' \in Seq(Row) /\ IsInjective(order') /\ Len(order') = Len(order)
  BY <1>1, MovedToEnd
<1>3. row' \in [Row -> States \cup {"none", "settled"}] /\ remote' \in [Row -> RemoteStates]
  BY <1>1 DEF OrderOK
<1>4. {q \in Row : row'[q] \in States} = {q \in Row : row[q] \in States}
  BY <1>1 DEF OrderOK
<1>5. ToSet(order') = {q \in Row : row'[q] \in States}
  BY <1>1, <1>4, MovedToEnd DEF OrderOK
<1>6. aged' \in 0..Len(order')
  BY <1>1, <1>2, RejuvenateType DEF OrderOK
<1>7. OverdueOK'
  BY DEF Updated, OverdueOK, OrderOK
<1>8. QED BY <1>2, <1>3, <1>5, <1>6, <1>7 DEF OrderOK

LEMMA SettledKeeps ==
  ASSUME RowsOK, NEW r \in Row, row[r] \in States, Settled(r)
  PROVE  RowsOK'
<1> USE DEF RowsOK
<1>1. /\ order' = Others(r) /\ Rejuvenate(r)
      /\ row' = [row EXCEPT ![r] = "settled"] /\ remote' = [remote EXCEPT ![r] = "gone"]
  BY DEF Settled
<1>2. order' \in Seq(Row) /\ IsInjective(order') /\ Len(order') = Len(order) - 1
  BY <1>1, OthersProperties
<1>3. row' \in [Row -> States \cup {"none", "settled"}] /\ remote' \in [Row -> RemoteStates]
  BY <1>1 DEF OrderOK, RemoteStates
<1>4. {q \in Row : row'[q] \in States} = {q \in Row : row[q] \in States} \ {r}
  BY <1>1 DEF OrderOK, States
<1>5. ToSet(order') = {q \in Row : row'[q] \in States}
  BY <1>1, <1>4, OthersProperties DEF OrderOK
<1>6. aged' \in 0..Len(order')
  BY <1>1, <1>2, RejuvenateType
<1>7. OverdueOK'
  BY DEF Settled, OverdueOK, OrderOK
<1>8. QED BY <1>2, <1>3, <1>5, <1>6, <1>7 DEF OrderOK

LEMMA SettlesKeeps ==
  ASSUME RowsOK, NEW r \in Row, row[r] \in States, NEW s \in States, Settles(r, s)
  PROVE  RowsOK'
BY SettledKeeps, UpdatedKeeps DEF Settles

LEMMA RowsUnchanged == ASSUME RowsOK, KeepsRows PROVE RowsOK'
BY DEF KeepsRows, rowVars, RowsOK, OrderOK, OverdueOK

LEMMA DispatchedKeeps ==
  ASSUME RowsOK, NEW r \in Row, Dispatched(r)
  PROVE  RowsOK'
<1>1. {"working", "input-required", "completed", "failed"} \subseteq States
  BY DEF States
<1>2. CASE row[r] \notin States
  BY <1>2, RowsUnchanged DEF Dispatched
<1>3. CASE row[r] \in States
  <2>1. \/ \E s \in States : Updated(r, s) \/ Settles(r, s)
        \/ KeepsRows
    BY <1>1, <1>3 DEF Dispatched
  <2>2. QED BY <2>1, <1>3, UpdatedKeeps, SettlesKeeps, RowsUnchanged
<1>4. QED BY <1>2, <1>3

LEMMA RecordKeeps ==
  ASSUME RowsOK, NEW r \in Row, Record(r)
  PROVE  RowsOK'
<1> USE DEF RowsOK
<1>1. /\ row[r] = "none" /\ row' = [row EXCEPT ![r] = "working"]
      /\ remote' = [remote EXCEPT ![r] = "working"]
      /\ order' = Append(order, r) /\ aged' = aged /\ overdue' = overdue
  BY DEF Record
<1>2. order \in Seq(Row) /\ IsInjective(order) /\ r \notin ToSet(order)
  BY <1>1 DEF OrderOK, States
<1>3. /\ order' \in Seq(Row) /\ IsInjective(order') /\ Len(order') = Len(order) + 1
      /\ ToSet(order') = ToSet(order) \cup {r}
  BY <1>1, <1>2, AppendNew
<1>4. {q \in Row : row'[q] \in States} = {q \in Row : row[q] \in States} \cup {r}
  BY <1>1 DEF OrderOK, States
<1>5. row' \in [Row -> States \cup {"none", "settled"}] /\ remote' \in [Row -> RemoteStates]
  BY <1>1 DEF OrderOK, States, RemoteStates
<1>6. aged' \in 0..Len(order')
  BY <1>1, <1>2, <1>3 DEF OrderOK
<1>7. ToSet(order') = {q \in Row : row'[q] \in States}
  BY <1>3, <1>4 DEF OrderOK
<1>8. OverdueOK'
  BY <1>1 DEF OverdueOK, OrderOK
<1>9. QED BY <1>3, <1>5, <1>6, <1>7, <1>8 DEF OrderOK

LEMMA ResumeKeeps ==
  ASSUME RowsOK, NEW r \in Row, Resume(r)
  PROVE  RowsOK'
<1> USE DEF RowsOK
<1>0. row[r] = "input-required" /\ row[r] \in States
  BY DEF Resume, States
<1>1. remote' = [remote EXCEPT ![r] = "working"] /\ remote' \in [Row -> RemoteStates]
  BY DEF Resume, OrderOK, RemoteStates
<1>2. CASE UNCHANGED <<row, order, aged, overdue>>
  BY <1>1, <1>2 DEF OrderOK, OverdueOK
<1>3. CASE /\ row' = [row EXCEPT ![r] = "working"]
           /\ order' = Append(Others(r), r)
           /\ Rejuvenate(r)
           /\ overdue' = overdue \ {r}
  <2>1. order' \in Seq(Row) /\ IsInjective(order') /\ Len(order') = Len(order)
    BY <1>0, <1>3, MovedToEnd
  <2>2. row' \in [Row -> States \cup {"none", "settled"}]
    BY <1>3 DEF OrderOK, States
  <2>3. {q \in Row : row'[q] \in States} = {q \in Row : row[q] \in States}
    BY <1>0, <1>3 DEF OrderOK, States
  <2>4. ToSet(order') = {q \in Row : row'[q] \in States}
    BY <1>0, <1>3, <2>3, MovedToEnd DEF OrderOK
  <2>5. aged' \in 0..Len(order')
    BY <1>0, <1>3, <2>1, RejuvenateType DEF OrderOK
  <2>6. OverdueOK'
    BY <1>3 DEF OverdueOK, OrderOK
  <2>7. QED BY <1>1, <2>1, <2>2, <2>4, <2>5, <2>6 DEF OrderOK
<1>4. QED BY <1>2, <1>3 DEF Resume

LEMMA PollGoneKeeps ==
  ASSUME RowsOK, NEW r \in Row, PollGone(r)
  PROVE  RowsOK'
<1>1. "failed" \in States
  BY DEF States
<1>2. CASE row[r] \in States
  BY <1>1, <1>2, SettlesKeeps, RowsUnchanged DEF PollGone
<1>3. CASE row[r] \notin States
  BY <1>3, RowsUnchanged DEF PollGone
<1>4. QED BY <1>2, <1>3

LEMMA ExpireKeeps ==
  ASSUME RowsOK, NEW r \in Row, Expire(r)
  PROVE  RowsOK' /\ row[r] \in States
<1>1. row[r] \in States /\ "failed" \in States
  BY DEF Expire, RowsOK, OverdueOK, States
<1>2. QED BY <1>1, SettlesKeeps DEF Expire

LEMMA FindUnsettledType ==
  ASSUME OrderOK
  PROVE  /\ FindUnsettled \in Seq(Row) /\ IsInjective(FindUnsettled)
         /\ Len(FindUnsettled) <= Limit
<1> DEFINE n == Lesser(aged, Limit)
<1>1. n \in 0..Len(order) /\ n <= Limit
  BY DEF Lesser, OrderOK
<1>2. order \in Seq(Row) /\ IsInjective(order) /\ FindUnsettled = SubSeq(order, 1, n)
  BY DEF OrderOK, FindUnsettled
<1> HIDE DEF n
<1>3. /\ SubSeq(order, 1, n) \in Seq(Row) /\ Len(SubSeq(order, 1, n)) = n
      /\ IsInjective(SubSeq(order, 1, n))
  BY <1>1, <1>2, PrefixProperties
<1>4. QED BY <1>1, <1>2, <1>3

\* Whatever window a tick sweeps, it keeps handles of known agents only.
LEMMA SweepType ==
  ASSUME NEW w \in Seq(Row), IsInjective(w), Len(w) <= Limit, NEW H \in SUBSET Agent,
         tick' = Sweep(w, H)
  PROVE  TickOK'
BY DEF Sweep, TickOK

LEMMA CardEndsTick ==
  ASSUME TickOK, NEW g \in Agent, NEW H \in SUBSET Agent, CardEnds(g, H)
  PROVE  TickOK'
<1>1. CASE tick' = tick
  BY <1>1 DEF TickOK
<1>2. CASE tick' = Sweep(tick.window, H)
  BY <1>2, SweepType DEF TickOK
<1>3. QED BY <1>1, <1>2 DEF CardEnds

LEMMA StartTickTick ==
  ASSUME OrderOK, RegistryTypeOK, TickOK, StartTick
  PROVE  TickOK'
<1> DEFINE w == FindUnsettled
<1>1. w \in Seq(Row) /\ IsInjective(w) /\ Len(w) <= Limit
  BY FindUnsettledType
<1>2. \/ tick' = Sweep(w, cache.handles)
      \/ tick' = [st |-> "listing", window |-> w, handles |-> {}]
  BY DEF StartTick
<1> HIDE DEF w
<1>3. cache.handles \in SUBSET Agent
  BY DEF RegistryTypeOK
<1>4. CASE tick' = Sweep(w, cache.handles)
  BY <1>1, <1>3, <1>4, SweepType
<1>5. CASE tick' = [st |-> "listing", window |-> w, handles |-> {}]
  BY <1>1, <1>5 DEF TickOK
<1>6. QED BY <1>2, <1>4, <1>5

LEMMA VisitedTick ==
  ASSUME TickOK, NEW r \in Row, Visited(r)
  PROVE  TickOK'
<1>1. CASE tick' = NoTick
  BY <1>1 DEF TickOK, NoTick, IsInjective
<1>2. CASE tick' = [tick EXCEPT !.window = Tail(@)]
  <2>1. tick.window # <<>> /\ tick.window \in Seq(Row) /\ IsInjective(tick.window)
    BY DEF Visited, At, TickOK
  <2>2. /\ Tail(tick.window) \in Seq(Row) /\ IsInjective(Tail(tick.window))
        /\ Len(Tail(tick.window)) = Len(tick.window) - 1
    BY <2>1, TailInjective
  <2>3. /\ tick'.window = Tail(tick.window) /\ tick'.st = tick.st
        /\ tick'.handles = tick.handles /\ DOMAIN tick' = DOMAIN tick
    BY <1>2 DEF TickOK
  <2>4. Len(tick'.window) <= Limit
    BY <2>1, <2>2, <2>3 DEF TickOK
  <2>5. QED BY <2>2, <2>3, <2>4 DEF TickOK
<1>3. QED BY <1>1, <1>2 DEF Visited

\* The invariant of the whole module.
Inv == IInv /\ RowsOK /\ TickOK

LEMMA InvHoldsFirst == Init => Inv
<1> SUFFICES ASSUME Init PROVE Inv
  OBVIOUS
<1>1. OrderOK
  BY DEF Init, OrderOK, RemoteStates, States, IsInjective, ToSet
<1>2. OverdueOK /\ TickOK
  BY DEF Init, OverdueOK, TickOK, NoTick, IsInjective
<1>3. QED BY <1>1, <1>2, InitHolds DEF Inv, RowsOK

LEMMA RowStep ==
  ASSUME RowsOK, TickOK, NEW r \in Row,
         \/ Record(r) \/ Resume(r) \/ Push(r) \/ RemoteMoves(r) \/ DeadlinePasses(r)
         \/ Expire(r) \/ Unpolled(r) \/ Polled(r) \/ PollGone(r)
  PROVE  RowsOK' /\ TickOK'
<1>1. CASE Record(r) \/ Resume(r) \/ Push(r)
  <2>1. RowsOK'
    BY <1>1, RecordKeeps, ResumeKeeps, DispatchedKeeps DEF Push
  <2>2. QED BY <1>1, <2>1 DEF Record, Resume, Push, TickOK
<1>2. CASE RemoteMoves(r)
  BY <1>2 DEF RemoteMoves, RowsOK, OrderOK, OverdueOK, TickOK, RemoteStates
<1>3. CASE DeadlinePasses(r)
  BY <1>3 DEF DeadlinePasses, RowsOK, OrderOK, OverdueOK, TickOK
<1>4. CASE Expire(r) \/ Unpolled(r) \/ Polled(r) \/ PollGone(r)
  <2>1. RowsOK'
    BY <1>4, ExpireKeeps, RowsUnchanged, DispatchedKeeps, PollGoneKeeps DEF Unpolled, Polled
  <2>2. Visited(r)
    BY <1>4 DEF Expire, Unpolled, Polled, PollGone
  <2>3. QED BY <2>1, <2>2, VisitedTick
<1>5. QED BY <1>1, <1>2, <1>3, <1>4

LEMMA OtherStep ==
  ASSUME RowsOK, TickOK, RegistryTypeOK,
         \/ \E g \in Agent : CardArrives(g) \/ CardFails(g)
         \/ Ask \/ StartTick \/ GraceElapses \/ TtlElapses \/ UNCHANGED vars
  PROVE  RowsOK' /\ TickOK'
<1>1. ASSUME NEW g \in Agent, CardArrives(g) \/ CardFails(g) PROVE RowsOK' /\ TickOK'
  <2>1. PICK H \in SUBSET Agent : CardEnds(g, H)
    BY <1>1 DEF CardArrives, CardFails, RegistryTypeOK
  <2>2. KeepsRows
    BY <2>1 DEF CardEnds, KeepsRows
  <2>3. QED BY <2>1, <2>2, CardEndsTick, RowsUnchanged
<1>2. CASE StartTick
  <2>1. KeepsRows
    BY <1>2 DEF StartTick, KeepsRows
  <2>2. QED BY <1>2, <2>1, RowsUnchanged, StartTickTick DEF RowsOK
<1>3. CASE Ask \/ TtlElapses \/ UNCHANGED vars
  <2>1. KeepsRows /\ tick' = tick
    BY <1>3 DEF Ask, TtlElapses, KeepsRows, vars, rowVars
  <2>2. QED BY <2>1, RowsUnchanged DEF TickOK
<1>4. CASE GraceElapses
  BY <1>4 DEF GraceElapses, RowsOK, OrderOK, OverdueOK, TickOK
<1>5. QED BY <1>1, <1>2, <1>3, <1>4

LEMMA InvKept == Inv /\ [Next]_vars => Inv'
<1> SUFFICES ASSUME Inv, [Next]_vars PROVE Inv'
  OBVIOUS
<1>1. RowsOK /\ TickOK /\ RegistryTypeOK /\ IInv'
  BY NextKeeps DEF Inv, IInv
<1>2. RowsOK' /\ TickOK'
  BY <1>1, RowStep, OtherStep DEF Next
<1>3. QED BY <1>1, <1>2 DEF Inv

\* The unsettled rows are in order, each once; a tick's window holds no more of
\* them than the LIMIT, and none twice, however rows come, move and go.
THEOREM TypeCorrect == Spec => []TypeOK
<1>1. Inv => TypeOK
  BY DEF Inv, IInv, RegistryTypeOK, RowsOK, OrderOK, OverdueOK, TickOK, TypeOK
<1>2. QED BY <1>1, InvHoldsFirst, InvKept, PTL DEF Spec

-----------------------------------------------------------------------------
(* Nobody overtakes.                                                       *)

\* All that a step can do to the order: nothing, but some grace may elapse; a
\* new row comes last; or one row leaves its place, for the end or for good.
OrderStep ==
  \/ order' = order /\ aged' \in {aged, aged + 1}
  \/ \E r \in Row : row[r] = "none" /\ order' = Append(order, r) /\ aged' = aged
  \/ \E r \in Row : /\ row[r] \in States /\ Rejuvenate(r)
                    /\ order' \in {Others(r), Append(Others(r), r)}

LEMMA DispatchedOrder ==
  ASSUME NEW r \in Row, row[r] \in States, \/ Dispatched(r)
                                           \/ \E s \in States : Settles(r, s)
  PROVE  OrderStep
<1>1. CASE KeepsRows
  BY <1>1 DEF KeepsRows, rowVars, OrderStep
<1>2. ASSUME NEW s \in States, Updated(r, s) \/ Settled(r) PROVE OrderStep
  BY <1>2 DEF Updated, Settled, OrderStep
<1>3. {"working", "input-required", "completed", "failed"} \subseteq States
  BY DEF States
<1>4. KeepsRows \/ \E s \in States : Updated(r, s) \/ Settled(r)
  BY <1>3 DEF Dispatched, Settles
<1>5. QED BY <1>1, <1>2, <1>4

LEMMA NextOrder ==
  ASSUME RowsOK, [Next]_vars
  PROVE  OrderStep
<1>1. CASE UNCHANGED <<order, aged>>
  BY <1>1 DEF OrderStep
<1>2. CASE GraceElapses
  BY <1>2 DEF GraceElapses, OrderStep
<1>3. ASSUME NEW r \in Row, Record(r) \/ Resume(r) PROVE OrderStep
  <2>1. Resume(r) => row[r] \in States
    BY DEF Resume, States
  <2>2. QED BY <1>3, <2>1 DEF Record, Resume, OrderStep
<1>4. ASSUME NEW r \in Row, Push(r) \/ Expire(r) \/ Polled(r) \/ PollGone(r) PROVE OrderStep
  <2>1. "failed" \in States /\ (Expire(r) => row[r] \in States)
    BY DEF Expire, RowsOK, OverdueOK, States
  <2>2. CASE Push(r) \/ Expire(r)
    BY <2>1, <2>2, DispatchedOrder DEF Push, Expire
  <2>3. CASE Polled(r)
    <3>1. CASE row[r] \in States
      BY <2>3, <3>1, DispatchedOrder DEF Polled
    <3>2. CASE row[r] \notin States
      BY <2>3, <3>2, <1>1 DEF Polled, Dispatched, KeepsRows, rowVars
    <3>3. QED BY <3>1, <3>2
  <2>4. CASE PollGone(r)
    <3>1. CASE KeepsRows
      BY <3>1, <1>1 DEF KeepsRows, rowVars
    <3>2. CASE row[r] \in States /\ Settles(r, "failed")
      BY <2>1, <3>2, DispatchedOrder
    <3>3. QED BY <2>4, <3>1, <3>2 DEF PollGone
  <2>5. QED BY <1>4, <2>2, <2>3, <2>4
<1>5. \/ UNCHANGED <<order, aged>> \/ GraceElapses
      \/ \E r \in Row : \/ Record(r) \/ Resume(r)
                        \/ Push(r) \/ Expire(r) \/ Polled(r) \/ PollGone(r)
  BY DEF Next, RemoteMoves, DeadlinePasses, Unpolled, KeepsRows, rowVars, CardArrives, CardFails,
         CardEnds, Ask, StartTick, TtlElapses, vars
<1>6. QED BY <1>1, <1>2, <1>3, <1>4, <1>5

LEMMA PrefixPlaces ==
  ASSUME NEW S, NEW s \in Seq(S), IsInjective(s), NEW n \in 0..Len(s), NEW q
  PROVE  q \in ToSet(SubSeq(s, 1, n)) <=> \E j \in 1..n : s[j] = q
<1>1. /\ SubSeq(s, 1, n) \in Seq(S)
      /\ Len(SubSeq(s, 1, n)) = n
      /\ \A j \in 1..n : SubSeq(s, 1, n)[j] = s[j]
  BY PrefixProperties
<1>2. DOMAIN SubSeq(s, 1, n) = 1..n
  BY <1>1
<1>3. QED BY <1>1, <1>2 DEF ToSet

\* If every row keeps all those behind it behind it, none is overtaken; lift
\* gives the place where the row at a new place was.
LEMMA Lifted ==
  ASSUME OrderOK, OrderOK', NEW q \in ToSet(order'), NEW m \in Nat, NEW lift \in [1..m -> 1..Len(order)],
         m <= Len(order'),
         \A j \in 1..m : order'[j] = order[lift[j]],
         \A i, j \in 1..m : i < j => lift[i] < lift[j],
         \A j \in 1..Len(order') : order'[j] = q => j <= m,
         \A j \in 1..m : lift[j] <= aged => j <= aged'
  PROVE  Before(q)' \subseteq Before(q) /\ (IsAged(q) => IsAged(q)')
<1>1. /\ order \in Seq(Row) /\ order' \in Seq(Row) /\ IsInjective(order) /\ IsInjective(order')
      /\ DOMAIN order = 1..Len(order) /\ DOMAIN order' = 1..Len(order')
      /\ Len(order) \in Nat /\ Len(order') \in Nat
      /\ aged \in 0..Len(order) /\ aged' \in 0..Len(order')
  BY DEF OrderOK
<1>2. ASSUME NEW x \in Before(q)' PROVE x \in Before(q)
  <2>1. PICK i \in 1..Len(order'), j \in 1..Len(order') : i < j /\ order'[i] = x /\ order'[j] = q
    BY <1>2 DEF Before
  <2>2. i \in 1..m /\ j \in 1..m
    BY <2>1
  <2>3. lift[i] < lift[j] /\ order[lift[i]] = x /\ order[lift[j]] = q
    BY <2>1, <2>2
  <2>4. x \in ToSet(order)
    BY <2>2, <2>3, <1>1 DEF ToSet
  <2>5. QED BY <2>2, <2>3, <2>4 DEF Before
<1>3. ASSUME IsAged(q) PROVE IsAged(q)'
  <2>1. PICK k \in 1..aged : order[k] = q
    BY <1>1, <1>3, PrefixPlaces DEF IsAged
  <2>2. PICK j \in 1..Len(order') : order'[j] = q
    BY <1>1 DEF ToSet
  <2>3. j \in 1..m /\ order[lift[j]] = q
    BY <2>2
  <2>4. lift[j] = k
    BY <2>1, <2>3, <1>1 DEF IsInjective
  <2>5. j \in 1..aged'
    BY <2>1, <2>3, <2>4, <1>1
  <2>6. \E l \in 1..aged' : order'[l] = q
    BY <2>2, <2>5
  <2>7. QED BY <2>6, <1>1, PrefixPlaces DEF IsAged
<1>4. QED BY <1>2, <1>3

LEMMA GraceOvertakesNobody ==
  ASSUME OrderOK, OrderOK', order' = order, aged' \in {aged, aged + 1}, NEW q \in ToSet(order')
  PROVE  Before(q)' \subseteq Before(q) /\ (IsAged(q) => IsAged(q)')
<1>1. Len(order) \in Nat /\ aged \in 0..Len(order)
  BY DEF OrderOK
<1> DEFINE lift == [j \in 1..Len(order) |-> j]
<1>2. lift \in [1..Len(order) -> 1..Len(order)]
  OBVIOUS
<1>3. \A j \in 1..Len(order) : lift[j] = j
  OBVIOUS
<1> HIDE DEF lift
<1>4. QED BY <1>1, <1>2, <1>3, Lifted

LEMMA RecordOvertakesNobody ==
  ASSUME OrderOK, OrderOK', NEW r \in Row, row[r] = "none", order' = Append(order, r), aged' = aged,
         NEW q \in ToSet(order) \cap ToSet(order')
  PROVE  Before(q)' \subseteq Before(q) /\ (IsAged(q) => IsAged(q)')
<1>1. Len(order) \in Nat /\ aged \in 0..Len(order)
  BY DEF OrderOK
<1>2. r # q
  BY DEF OrderOK, States
<1>3. /\ Len(order') = Len(order) + 1
      /\ \A j \in 1..Len(order) : order'[j] = order[j]
      /\ order'[Len(order) + 1] = r
  BY AppendProperties DEF OrderOK
<1> DEFINE lift == [j \in 1..Len(order) |-> j]
<1>4. lift \in [1..Len(order) -> 1..Len(order)]
  OBVIOUS
<1>5. \A j \in 1..Len(order) : lift[j] = j
  OBVIOUS
<1> HIDE DEF lift
<1>6. \A j \in 1..Len(order') : order'[j] = q => j <= Len(order)
  BY <1>1, <1>2, <1>3
<1>7. \A j \in 1..Len(order) : order'[j] = order[lift[j]]
  BY <1>3, <1>5
<1>8. \A j \in 1..Len(order) : lift[j] <= aged => j <= aged'
  BY <1>5
<1>9. \A i, j \in 1..Len(order) : i < j => lift[i] < lift[j]
  BY <1>5
<1>10. Len(order) <= Len(order')
  BY <1>1, <1>3
<1>11. QED BY <1>1, <1>4, <1>6, <1>7, <1>8, <1>9, <1>10, Lifted

LEMMA LeavingOvertakesNobody ==
  ASSUME OrderOK, OrderOK', NEW r \in Row, row[r] \in States, Rejuvenate(r),
         order' \in {Others(r), Append(Others(r), r)},
         NEW q \in ToSet(order) \cap ToSet(order'), q # r
  PROVE  Before(q)' \subseteq Before(q) /\ (IsAged(q) => IsAged(q)')
<1> DEFINE p == PlaceOf(r)
           m == Len(order) - 1
<1>1. /\ p \in 1..Len(order)
      /\ \A j \in 1..m : Others(r)[j] = IF j < p THEN order[j] ELSE order[j + 1]
      /\ Len(Others(r)) = m
  BY OthersProperties
<1>2. Len(order) \in Nat /\ aged \in 0..Len(order) /\ aged' = IF p <= aged THEN aged - 1 ELSE aged
  BY DEF OrderOK, Rejuvenate
<1>3. /\ m <= Len(order') /\ Len(order') <= m + 1
      /\ \A j \in 1..m : order'[j] = Others(r)[j]
      /\ m + 1 \in 1..Len(order') => order'[m + 1] = r
  <2>1. CASE order' = Others(r)
    BY <2>1, <1>1, <1>2
  <2>2. CASE order' = Append(Others(r), r)
    <3>1. /\ Len(order') = Len(order)
          /\ \A j \in 1..(Len(order) - 1) : order'[j] = Others(r)[j]
          /\ order'[Len(order)] = r
      BY <2>2, MovedToEnd
    <3>2. QED BY <3>1, <1>2
  <2>3. QED BY <2>1, <2>2
<1> DEFINE lift == [j \in 1..m |-> IF j < p THEN j ELSE j + 1]
<1>4. /\ lift \in [1..m -> 1..Len(order)]
      /\ \A j \in 1..m : lift[j] = IF j < p THEN j ELSE j + 1
  BY <1>2
<1>5. m \in Nat
  BY <1>1, <1>2
<1> HIDE DEF p, m, lift
<1>6. \A j \in 1..m : order'[j] = order[lift[j]]
  BY <1>1, <1>3, <1>4
<1>7. \A i, j \in 1..m : i < j => lift[i] < lift[j]
  BY <1>1, <1>4, <1>5
<1>8. \A j \in 1..Len(order') : order'[j] = q => j <= m
  <2>1. Len(order') \in Nat
    BY DEF OrderOK
  <2>2. QED BY <2>1, <1>3, <1>5
<1>9. \A j \in 1..m : lift[j] <= aged => j <= aged'
  BY <1>1, <1>2, <1>4, <1>5
<1>10. QED BY <1>3, <1>4, <1>5, <1>6, <1>7, <1>8, <1>9, Lifted

\* A row that stays unsettled and is not updated itself keeps its turn, for any
\* number of rows, any LIMIT, and whatever fails.
THEOREM NobodyIsOvertaken == Spec => NobodyOvertakes
<1> DEFINE Kept == \A r \in ToSet(order) \cap ToSet(order') :
                     \/ order' = Append(Others(r), r)
                     \/ Before(r)' \subseteq Before(r) /\ (IsAged(r) => IsAged(r)')
<1>1. Inv /\ Inv' /\ [Next]_vars => [Kept]_vars
  <2> SUFFICES ASSUME Inv, Inv', [Next]_vars, NEW q \in ToSet(order) \cap ToSet(order'),
                      order' # Append(Others(q), q)
               PROVE  Before(q)' \subseteq Before(q) /\ (IsAged(q) => IsAged(q)')
    OBVIOUS
  <2>1. OrderOK /\ OrderOK' /\ OrderStep
    BY NextOrder DEF Inv, RowsOK
  <2>2. CASE order' = order /\ aged' \in {aged, aged + 1}
    BY <2>1, <2>2, GraceOvertakesNobody
  <2>3. ASSUME NEW r \in Row, row[r] = "none" /\ order' = Append(order, r) /\ aged' = aged
        PROVE  Before(q)' \subseteq Before(q) /\ (IsAged(q) => IsAged(q)')
    BY <2>1, <2>3, RecordOvertakesNobody
  <2>4. ASSUME NEW r \in Row, row[r] \in States, Rejuvenate(r),
               order' \in {Others(r), Append(Others(r), r)}
        PROVE  Before(q)' \subseteq Before(q) /\ (IsAged(q) => IsAged(q)')
    <3>1. q # r
      <4>1. ASSUME q = r PROVE FALSE
        <5>1. order' = Others(r)
          BY <2>4, <4>1
        <5>2. q \notin ToSet(order')
          BY <2>1, <2>4, <4>1, <5>1, OthersProperties
        <5>3. QED BY <5>2
      <4>2. QED BY <4>1
    <3>2. QED BY <2>1, <2>4, <3>1, LeavingOvertakesNobody
  <2>5. QED BY <2>1, <2>2, <2>3, <2>4 DEF OrderStep
<1>2. QED BY <1>1, InvHoldsFirst, InvKept, PTL DEF Spec, NobodyOvertakes
=============================================================================
