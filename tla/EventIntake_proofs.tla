------------------------- MODULE EventIntake_proofs -------------------------
(* Proofs about EventIntake, for any messages, deliveries and faults.        *)
EXTENDS EventIntake, TLAPS

USE EventsAssumption, FaultsAssumption

Final == {"gated", "dropped", "done"}

LogStates == {"absent", "accepted", "responded"}

EventOK ==
  \A d \in Delivery :
    /\ del[d].pc = "idle" => del[d].event = NoEvent
    /\ del[d].pc # "idle" => del[d].event \in Event

\* What an event's row, its run and its fate have to do with each other.
RunOK(e) ==
  \A d \in Delivery : Holds(d, e) =>
    /\ \A f \in Delivery : Holds(f, e) => f = d
    /\ log[e] # "absent" /\ (del[d].pc \in {"post", "unmark"} => log[e] = "responded")
    /\ fate[e] = "open" /\ responses[e] = 0

\* An event without a row has not been answered yet, or is never run again.
AbsentOK(e) ==
  log[e] = "absent" =>
    \/ fate[e] = "open"
    \/ slack[e] = "acked" /\ \A d \in Delivery : del[d].event = e => del[d].pc \in Final

FateOK(e) ==
  /\ fate[e] = "responded" => responses[e] = 1 /\ log[e] \in {"responded", "absent"}
  /\ fate[e] # "responded" => responses[e] = 0

EventInv(e) == RunOK(e) /\ AbsentOK(e) /\ FateOK(e)

Listening == thread.row \/ thread.checkpoint \/ delegated # {}

\* Where an answer may come from, there the thread listens.
ListenOK ==
  /\ \A d \in Delivery : del[d].pc \in {"mark", "post", "unmark"} => Listening
  /\ \A e \in Event : fate[e] = "responded" => Listening

IInv == TypeOK /\ EventOK /\ (\A e \in Event : EventInv(e)) /\ ListenOK

-----------------------------------------------------------------------------
(* What a step of delivery d does to its event e.                          *)

\* Nothing else is touched.
Frame(d, e) ==
  /\ \A u \in Delivery \ {d} : del'[u] = del[u]
  /\ del[d].event \in {e, NoEvent} /\ del'[d].event = e /\ del'[d].pc # "idle"
  /\ \A g \in Event \ {e} : /\ log'[g] = log[g] /\ fate'[g] = fate[g]
                            /\ responses'[g] = responses[g] /\ slack'[g] = slack[g]

\* Before it has the event, or after it has found it taken.
Outside(d, e) ==
  /\ ~Holds(d, e) /\ ~Holds(d, e)'
  /\ (del[d].event = e /\ del[d].pc \notin Final) \/ slack[e] = "queued"
  /\ log'[e] = log[e] /\ fate'[e] = fate[e] /\ responses'[e] = responses[e]

\* It wins the event.
Wins(d, e) ==
  /\ del[d].event = e /\ del[d].pc = "record" /\ Holds(d, e)' /\ del'[d].pc = "activity"
  /\ log[e] = "absent" /\ log'[e] = "accepted"
  /\ fate'[e] = fate[e] /\ responses'[e] = responses[e]

\* It goes on with it.
Inside(d, e) ==
  /\ Holds(d, e) /\ Holds(d, e)'
  /\ log'[e] # "absent" /\ (del'[d].pc \in {"post", "unmark"} => log'[e] = "responded")
  /\ fate'[e] = fate[e] /\ responses'[e] = responses[e]

\* It gives the event back.
Returns(d, e) ==
  /\ Holds(d, e) /\ del'[d].pc \in Final
  /\ log'[e] = "absent" /\ fate'[e] = fate[e] /\ responses'[e] = responses[e]

\* Its run ends without an answer of its own.
Gives(d, e) ==
  /\ Holds(d, e) /\ del'[d].pc \in Final
  /\ log'[e] # "absent" /\ fate'[e] \in {"silent", "told", "lost"} /\ responses'[e] = responses[e]

\* It is answered.
Answers(d, e) ==
  /\ Holds(d, e) /\ del[d].pc = "post" /\ del'[d].pc \in Final
  /\ log'[e] = log[e] /\ fate'[e] = "responded" /\ responses'[e] = responses[e] + 1

Moves(d, e) ==
  /\ Frame(d, e)
  /\ \/ Outside(d, e) \/ Wins(d, e) \/ Inside(d, e)
     \/ Returns(d, e) \/ Gives(d, e) \/ Answers(d, e)

LEMMA HoldingPCs == Holding \subseteq PC \ (Final \cup {"idle", "gate", "record", "duplicate"})
BY DEF Holding, PC, Final

\* Other events do not notice.
LEMMA OtherEvents ==
  ASSUME IInv, NEW d \in Delivery, NEW e \in Event, Frame(d, e), NEW g \in Event \ {e}
  PROVE  EventInv(g)'
<1>1. g # NoEvent /\ del[d].event # g /\ del'[d].event # g
  BY EventsAssumption DEF Frame
<1>2. \A u \in Delivery : /\ Holds(u, g)' <=> Holds(u, g)
                          /\ Holds(u, g) => del'[u] = del[u]
                          /\ del'[u].event = g => del[u].event = g /\ del'[u] = del[u]
  BY <1>1 DEF Frame, Holds
<1>3. EventInv(g) /\ log'[g] = log[g] /\ fate'[g] = fate[g]
      /\ responses'[g] = responses[g] /\ slack'[g] = slack[g]
  BY DEF IInv, Frame
<1>4. RunOK(g)'
  BY <1>2, <1>3 DEF EventInv, RunOK
<1>5. AbsentOK(g)' /\ FateOK(g)'
  BY <1>2, <1>3 DEF EventInv, AbsentOK, FateOK
<1>6. QED BY <1>4, <1>5 DEF EventInv

LEMMA OwnEvent ==
  ASSUME IInv, NEW d \in Delivery, NEW e \in Event, Moves(d, e)
  PROVE  EventInv(e)'
<1>0. EventInv(e) /\ Frame(d, e)
  BY DEF IInv, Moves
<1>1. \A u \in Delivery \ {d} : del'[u] = del[u] /\ (Holds(u, e)' <=> Holds(u, e))
  BY <1>0 DEF Frame, Holds
<1>2. CASE Outside(d, e)
  <2>1. ~Holds(d, e)' /\ ~Holds(d, e)
    BY <1>2 DEF Outside
  <2>2. log'[e] = log[e] /\ fate'[e] = fate[e] /\ responses'[e] = responses[e]
    BY <1>2 DEF Outside
  <2>3. log[e] = "absent" => fate[e] = "open"
    BY <1>0, <1>2 DEF Outside, EventInv, AbsentOK
  <2>4. QED BY <1>0, <1>1, <2>1, <2>2, <2>3 DEF EventInv, RunOK, AbsentOK, FateOK
<1>3. CASE Wins(d, e)
  <2>1. \A u \in Delivery : ~Holds(u, e)
    BY <1>0, <1>3 DEF Wins, EventInv, RunOK
  <2>2. fate[e] = "open" /\ responses[e] = 0
    BY <1>0, <1>3 DEF Wins, EventInv, AbsentOK, FateOK, Final
  <2>3. QED BY <1>1, <1>3, <2>1, <2>2 DEF Wins, EventInv, RunOK, AbsentOK, FateOK
<1>4. CASE ~Outside(d, e) /\ ~Wins(d, e)
  <2>1. Holds(d, e) /\ (Inside(d, e) \/ Returns(d, e) \/ Gives(d, e) \/ Answers(d, e))
    BY <1>4 DEF Moves, Inside, Returns, Gives, Answers
  <2>2. fate[e] = "open" /\ responses[e] = 0 /\ log[e] # "absent"
        /\ (del[d].pc = "post" => log[e] = "responded")
        /\ \A u \in Delivery \ {d} : ~Holds(u, e) /\ ~Holds(u, e)'
    BY <1>0, <1>1, <2>1 DEF EventInv, RunOK
  <2>3. CASE Inside(d, e)
    BY <2>2, <2>3 DEF Inside, EventInv, RunOK, AbsentOK, FateOK
  <2>4. CASE Returns(d, e) \/ Gives(d, e) \/ Answers(d, e)
    <3>1. \A u \in Delivery : ~Holds(u, e)'
      BY <2>2, <2>4, HoldingPCs DEF Returns, Gives, Answers, Holds
    <3>2. RunOK(e)'
      BY <3>1 DEF RunOK
    <3>3. CASE Returns(d, e)
      BY <2>2, <3>2, <3>3 DEF Returns, EventInv, AbsentOK, FateOK
    <3>4. CASE Gives(d, e)
      BY <2>2, <3>2, <3>4 DEF Gives, EventInv, AbsentOK, FateOK
    <3>5. CASE Answers(d, e)
      BY <2>2, <3>2, <3>5 DEF Answers, EventInv, AbsentOK, FateOK
    <3>6. QED BY <2>4, <3>3, <3>4, <3>5
  <2>5. QED BY <2>1, <2>3, <2>4
<1>5. QED BY <1>2, <1>3, <1>4

\* A run that gets to its end has made the thread listen.
Heard(d, e) ==
  /\ Listening => Listening'
  /\ del'[d].pc \in {"mark", "post", "unmark"} =>
       del[d].pc \in {"mark", "post", "unmark"} \/ Listening'

LEMMA MovesKeep ==
  ASSUME IInv, NEW d \in Delivery, NEW e \in Event, Moves(d, e), Heard(d, e), TypeOK'
  PROVE  IInv'
<1>1. \A g \in Event : EventInv(g)'
  BY OtherEvents, OwnEvent DEF Moves
<1>2. EventOK'
  BY DEF IInv, Moves, Frame, EventOK
<1>3. ListenOK'
  <2>1. \A u \in Delivery : del'[u].pc \in {"mark", "post", "unmark"} => Listening'
    BY DEF IInv, ListenOK, Heard, Moves, Frame
  <2>2. ASSUME NEW g \in Event, fate'[g] = "responded"
        PROVE  Listening'
    <3>1. CASE fate[g] = "responded"
      BY <3>1 DEF IInv, ListenOK, Heard
    <3>2. CASE fate[g] # "responded"
      <4>1. g = e
        BY <2>2, <3>2 DEF Moves, Frame
      <4>2. Answers(d, e)
        BY <2>2, <3>2, <4>1 DEF Moves, Outside, Wins, Inside, Returns, Gives
      <4>3. QED BY <4>2 DEF Answers, IInv, ListenOK, Heard
    <3>3. QED BY <3>1, <3>2
  <2>3. QED BY <2>1, <2>2 DEF ListenOK
<1>4. QED BY <1>1, <1>2, <1>3 DEF IInv

-----------------------------------------------------------------------------
(* The actions.                                                            *)

\* What Goto does to a delivery.
LEMMA GotoMoves ==
  ASSUME TypeOK, NEW d \in Delivery, NEW pc \in PC, Goto(d, pc)
  PROVE  /\ del' \in [Delivery -> DeliveryState]
         /\ del'[d].pc = pc /\ del'[d].event = del[d].event
         /\ \A u \in Delivery \ {d} : del'[u] = del[u]
<1>1. del[d] \in DeliveryState
  BY DEF TypeOK
<1>2. [del[d] EXCEPT !.pc = pc] \in DeliveryState
      /\ [del[d] EXCEPT !.pc = pc].pc = pc /\ [del[d] EXCEPT !.pc = pc].event = del[d].event
  BY <1>1 DEF DeliveryState
<1>3. del' = [del EXCEPT ![d] = [del[d] EXCEPT !.pc = pc]]
  BY DEF Goto, TypeOK
<1>4. QED BY <1>2, <1>3 DEF TypeOK

\* A delivery under way has an event.
LEMMA UnderWay ==
  ASSUME IInv, NEW d \in Delivery, del[d].pc # "idle"
  PROVE  del[d].event \in Event
BY DEF IInv, EventOK

\* Steps that leave the row, the fate and the responses alone.
LEMMA QuietKeeps ==
  ASSUME IInv, NEW d \in Delivery, del[d].pc \notin Final \cup {"idle"},
         NEW pc \in PC \ {"idle"}, Goto(d, pc),
         UNCHANGED <<slack, log, fate, responses>>,
         del[d].pc \in Holding <=> pc \in Holding,
         pc \in {"post", "unmark"} => log[del[d].event] = "responded",
         thread' \in [row : BOOLEAN, checkpoint : BOOLEAN],
         delegated' = delegated, told' \subseteq Event,
         Listening => Listening',
         pc \in {"mark", "post", "unmark"} => del[d].pc \in {"mark", "post", "unmark"} \/ Listening'
  PROVE  IInv' /\ Moves(d, del[d].event)
<1>1. PICK e \in Event : del[d].event = e
  BY UnderWay
<1>2. del[d].event = e
  BY <1>1
<1>3. /\ del' \in [Delivery -> DeliveryState] /\ del'[d].pc = pc /\ del'[d].event = e
      /\ \A u \in Delivery \ {d} : del'[u] = del[u]
  BY <1>2, GotoMoves DEF IInv
<1>4. Frame(d, e)
  BY <1>2, <1>3 DEF Frame
<1>5. Outside(d, e) \/ Inside(d, e)
  <2>1. CASE pc \in Holding
    <3>1. Holds(d, e) /\ Holds(d, e)'
      BY <2>1, <1>2, <1>3 DEF Holds, Holding
    <3>2. log[e] # "absent"
      BY <3>1, <1>1 DEF IInv, EventInv, RunOK
    <3>3. QED BY <3>1, <3>2, <1>2, <1>3 DEF Inside
  <2>2. CASE pc \notin Holding
    BY <2>2, <1>2, <1>3 DEF Outside, Holds
  <2>3. QED BY <2>1, <2>2
<1>6. TypeOK'
  BY <1>3 DEF IInv, TypeOK
<1>7. Heard(d, e)
  BY <1>3 DEF Heard
<1>8. QED BY <1>1, <1>2, <1>4, <1>5, <1>6, <1>7, MovesKeep DEF Moves

LEMMA DeliverKeeps ==
  ASSUME IInv, NEW d \in Delivery, NEW e \in Event, Deliver(d, e)
  PROVE  IInv' /\ Moves(d, e)
<1> DEFINE pc == IF e[2] = "app_mention" \/ e[1] \in Plain THEN "gate"
                 ELSE IF e[1] \in Mention THEN "gated" ELSE "record"
           r == [del[d] EXCEPT !.event = e]
           s == [r EXCEPT !.pc = pc]
<1>1. del[d].pc = "idle" /\ del[d].event = NoEvent /\ slack[e] = "queued"
  BY DEF Deliver, IInv, EventOK
<1>2. pc \in {"gate", "gated", "record"}
  OBVIOUS
<1>3. del' = [del EXCEPT ![d] = s]
  BY DEF Deliver, IInv, TypeOK
<1> HIDE DEF pc
<1>4. r \in DeliveryState /\ r.event = e
  BY DEF IInv, TypeOK, DeliveryState
<1> HIDE DEF r
<1>5. s \in DeliveryState /\ s.event = e /\ s.pc = pc
  BY <1>2, <1>4 DEF DeliveryState, PC
<1> HIDE DEF s
<1>6. /\ del' \in [Delivery -> DeliveryState] /\ del'[d] = s
      /\ \A u \in Delivery \ {d} : del'[u] = del[u]
  BY <1>3, <1>5 DEF IInv, TypeOK
<1>7. /\ slack' \in [Event -> {"queued", "acked"}]
      /\ \A g \in Event \ {e} : slack'[g] = slack[g]
  BY DEF Deliver, IInv, TypeOK
<1>8. UNCHANGED <<log, thread, delegated, fate, told, responses>>
  BY DEF Deliver, history
<1>9. Frame(d, e)
  BY <1>1, <1>2, <1>5, <1>6, <1>7, <1>8 DEF Frame
<1>10. Outside(d, e)
  BY <1>1, <1>2, <1>5, <1>6, <1>8 DEF Outside, Holds, Holding
<1>11. TypeOK' /\ Heard(d, e)
  BY <1>2, <1>5, <1>6, <1>7, <1>8 DEF IInv, TypeOK, Heard, Listening
<1>12. QED BY <1>9, <1>10, <1>11, MovesKeep DEF Moves

LEMMA GateKeeps ==
  ASSUME IInv, NEW d \in Delivery, GateMention(d) \/ GateReply(d)
  PROVE  IInv' /\ Moves(d, del[d].event)
<1>1. PICK pc \in {"gated", "record", "dropped"} : Goto(d, pc)
  BY DEF GateMention, GateReply
<1>2. del[d].pc = "gate" /\ UNCHANGED <<slack, log, thread, delegated, fate, told, responses>>
  BY DEF GateMention, GateReply, history
<1>3. Listening => Listening'
  BY <1>2 DEF Listening
<1>4. QED BY <1>1, <1>2, <1>3, QuietKeeps DEF PC, Final, Holding, IInv, TypeOK

LEMMA RecordReceivedKeeps ==
  ASSUME IInv, NEW d \in Delivery, RecordReceived(d)
  PROVE  IInv' /\ Moves(d, del[d].event)
<1>0. PICK e \in Event : del[d].event = e
  BY UnderWay DEF RecordReceived
<1>1. del[d].pc = "record" /\ UNCHANGED <<slack, thread, delegated, fate, told, responses>>
      /\ (Listening => Listening')
  BY DEF RecordReceived, history, Listening
<1>2. CASE UNCHANGED log
  <2>1. PICK pc \in {"duplicate", "dropped"} : Goto(d, pc)
    <3>1. ~(log[e] = "absent" /\ log' = [log EXCEPT ![e] = "accepted"])
      BY <1>2 DEF IInv, TypeOK
    <3>2. QED BY <1>0, <3>1 DEF RecordReceived
  <2>2. QED BY <1>1, <1>2, <2>1, QuietKeeps DEF PC, Final, Holding, IInv, TypeOK
<1>3. CASE log[e] = "absent" /\ log' = [log EXCEPT ![e] = "accepted"] /\ Goto(d, "activity")
  <2>3. /\ del' \in [Delivery -> DeliveryState] /\ del'[d].pc = "activity" /\ del'[d].event = e
        /\ \A u \in Delivery \ {d} : del'[u] = del[u]
    BY <1>0, <1>3, GotoMoves DEF IInv, PC
  <2>4. log' \in [Event -> LogStates] /\ log'[e] = "accepted" /\ \A g \in Event \ {e} : log'[g] = log[g]
    BY <1>3 DEF IInv, TypeOK, LogStates
  <2>5. Frame(d, e) /\ Wins(d, e)
    <3>1. log[e] = "absent" /\ UNCHANGED slack /\ UNCHANGED fate /\ UNCHANGED responses
      BY <1>1, <1>3
    <3>2. Frame(d, e)
      BY <1>0, <2>3, <2>4, <3>1 DEF Frame
    <3>3. Holds(d, e)'
      BY <2>3 DEF Holds, Holding
    <3>4. QED BY <1>0, <1>1, <2>3, <2>4, <3>1, <3>2, <3>3 DEF Wins
  <2>6. TypeOK' /\ Heard(d, e)
    BY <1>1, <2>3, <2>4 DEF IInv, TypeOK, LogStates, Heard
  <2>7. QED BY <1>0, <2>5, <2>6, MovesKeep DEF Moves
<1>4. QED BY <1>0, <1>2, <1>3 DEF RecordReceived

LEMMA RecordActivityKeeps ==
  ASSUME IInv, NEW d \in Delivery, RecordActivity(d)
  PROVE  IInv' /\ Moves(d, del[d].event)
<1>1. PICK pc \in {"dispatch", "done"} : Goto(d, pc) /\ (pc = "dispatch" <=> del[d].pc = "activity")
  BY DEF RecordActivity
<1>2. del[d].pc \in {"activity", "duplicate"} /\ UNCHANGED <<slack, log, delegated, fate, told, responses>>
  BY DEF RecordActivity, history
<1>3. thread' \in [row : BOOLEAN, checkpoint : BOOLEAN] /\ (Listening => Listening')
  BY <1>2 DEF RecordActivity, IInv, TypeOK, Listening
<1>4. QED BY <1>1, <1>2, <1>3, QuietKeeps DEF PC, Final, Holding, IInv, TypeOK

LEMMA DispatchKeeps ==
  ASSUME IInv, NEW d \in Delivery, Dispatch(d)
  PROVE  IInv' /\ Moves(d, del[d].event)
<1>1. PICK pc \in {"run", "notify"} : Goto(d, pc)
  BY DEF Dispatch
<1>2. del[d].pc = "dispatch" /\ UNCHANGED <<slack, log, thread, delegated, fate, told, responses>>
  BY DEF Dispatch, history
<1>3. Listening => Listening'
  BY <1>2 DEF Listening
<1>4. QED BY <1>1, <1>2, <1>3, QuietKeeps DEF PC, Final, Holding, IInv, TypeOK

LEMMA NotifyKeeps ==
  ASSUME IInv, NEW d \in Delivery, Notify(d)
  PROVE  IInv' /\ Moves(d, del[d].event)
<1>1. del[d].pc = "notify" /\ Goto(d, "rollback") /\ UNCHANGED <<slack, log, thread, delegated, fate, responses>>
  BY DEF Notify
<1>2. told' \subseteq Event
  BY <1>1, UnderWay DEF Notify, Tell, IInv, TypeOK
<1>3. Listening => Listening'
  BY <1>1 DEF Listening
<1>4. QED BY <1>1, <1>2, <1>3, QuietKeeps DEF PC, Final, Holding, IInv, TypeOK

LEMMA RunFailsKeeps ==
  ASSUME IInv, NEW d \in Delivery, RunFails(d)
  PROVE  IInv' /\ Moves(d, del[d].event)
<1>1. del[d].pc = "run" /\ Goto(d, "fail") /\ UNCHANGED <<slack, log, delegated, fate, told, responses>>
  BY DEF RunFails, history
<1>2. thread' \in [row : BOOLEAN, checkpoint : BOOLEAN] /\ (Listening => Listening')
  BY <1>1 DEF RunFails, IInv, TypeOK, Listening
<1>3. QED BY <1>1, <1>2, QuietKeeps DEF PC, Final, Holding, IInv, TypeOK

LEMMA RunEndsKeeps ==
  ASSUME IInv, NEW d \in Delivery, RunEnds(d)
  PROVE  IInv' /\ Moves(d, del[d].event)
<1> DEFINE e == del[d].event
<1>1. del[d].pc = "run" /\ UNCHANGED <<slack, log, delegated, fate, told, responses>>
  BY DEF RunEnds, history
<1>2. PICK resumed \in BOOLEAN, sent \in BOOLEAN :
        /\ resumed => delegated # {} /\ e \notin delegated
        /\ thread' = [thread EXCEPT !.checkpoint = @ \/ ~resumed]
        /\ del' = [del EXCEPT ![d].pc = "mark",
             ![d].quiet = IF resumed THEN sent ELSE e \in delegated]
  BY DEF RunEnds
<1>3. e \in Event
  BY <1>1, UnderWay
<1> DEFINE quiet == IF resumed THEN sent ELSE e \in delegated
           r == [del[d] EXCEPT !.pc = "mark"]
           s == [r EXCEPT !.quiet = quiet]
<1>4. del' = [del EXCEPT ![d] = s]
  BY <1>2 DEF IInv, TypeOK
<1>5. quiet \in BOOLEAN
  <2>1. CASE resumed
    BY <2>1
  <2>2. CASE ~resumed
    BY <2>2
  <2>3. QED BY <2>1, <2>2
<1>6. r \in DeliveryState /\ r.pc = "mark" /\ r.event = e
  BY DEF IInv, TypeOK, DeliveryState, PC
<1> HIDE DEF quiet, r
<1>7. s \in DeliveryState /\ s.pc = "mark" /\ s.event = e
  BY <1>5, <1>6 DEF DeliveryState
<1> HIDE DEF s
<1>8. /\ del' \in [Delivery -> DeliveryState] /\ del'[d] = s
      /\ \A u \in Delivery \ {d} : del'[u] = del[u]
  BY <1>4, <1>7 DEF IInv, TypeOK
<1>9. thread' \in [row : BOOLEAN, checkpoint : BOOLEAN] /\ Listening'
  <2>1. thread \in [row : BOOLEAN, checkpoint : BOOLEAN]
    BY DEF IInv, TypeOK
  <2>2. thread' = [thread EXCEPT !.checkpoint = thread.checkpoint \/ ~resumed]
    BY <1>2
  <2>3. thread' \in [row : BOOLEAN, checkpoint : BOOLEAN]
        /\ (~resumed => thread'.checkpoint)
    BY <2>1, <2>2
  <2>4. QED BY <2>3, <1>1, <1>2 DEF Listening
<1>10. log[e] # "absent" /\ Holds(d, e)
  BY <1>1, <1>3 DEF IInv, EventInv, RunOK, Holds, Holding
<1>11. Frame(d, e) /\ Inside(d, e)
  BY <1>1, <1>7, <1>8, <1>10 DEF Frame, Inside, Holds, Holding
<1>12. TypeOK' /\ Heard(d, e)
  BY <1>1, <1>8, <1>9 DEF IInv, TypeOK, Heard
<1>13. QED BY <1>3, <1>11, <1>12, MovesKeep DEF Moves

\* What a delivery that has an event knows of it.
LEMMA Holder ==
  ASSUME IInv, NEW d \in Delivery, del[d].pc \in Holding
  PROVE  /\ del[d].event \in Event /\ Holds(d, del[d].event)
         /\ log[del[d].event] # "absent"
         /\ del[d].pc \in {"post", "unmark"} => log[del[d].event] = "responded"
         /\ fate[del[d].event] = "open" /\ responses[del[d].event] = 0
<1> DEFINE e == del[d].event
<1>1. e \in Event
  BY UnderWay, HoldingPCs
<1>2. Holds(d, e) /\ EventInv(e)
  BY <1>1 DEF Holds, IInv
<1>3. QED BY <1>1, <1>2 DEF EventInv, RunOK

\* Nothing of other events changes.
ChangesOnly(e) ==
  /\ log' \in [Event -> LogStates] /\ fate' \in [Event -> Fates] /\ responses' \in [Event -> Nat]
  /\ \A g \in Event \ {e} :
       log'[g] = log[g] /\ fate'[g] = fate[g] /\ responses'[g] = responses[g]

\* An update of the row, and of the fate, is one of these.
LEMMA UpdateOnly ==
  ASSUME IInv, NEW e \in Event, NEW l \in LogStates, NEW f \in Fates,
         log' = [log EXCEPT ![e] = l] \/ (UNCHANGED log /\ l = log[e]),
         fate' = [fate EXCEPT ![e] = f] \/ (UNCHANGED fate /\ f = fate[e]),
         UNCHANGED responses
  PROVE  ChangesOnly(e) /\ log'[e] = l /\ fate'[e] = f /\ responses'[e] = responses[e]
<1>1. log \in [Event -> LogStates] /\ fate \in [Event -> Fates] /\ responses \in [Event -> Nat]
  BY DEF IInv, TypeOK, LogStates
<1>2. log' \in [Event -> LogStates] /\ log'[e] = l /\ \A g \in Event \ {e} : log'[g] = log[g]
  BY <1>1
<1>3. fate' \in [Event -> Fates] /\ fate'[e] = f /\ \A g \in Event \ {e} : fate'[g] = fate[g]
  BY <1>1
<1>4. QED BY <1>1, <1>2, <1>3 DEF ChangesOnly

\* Steps of a holder that change the row, the fate or the responses of its event.
LEMMA HolderKeeps ==
  ASSUME IInv, NEW d \in Delivery, del[d].pc \in Holding,
         NEW e \in Event, del[d].event = e,
         NEW pc \in PC \ {"idle", "mark"}, Goto(d, pc),
         pc \in {"post", "unmark"} => del[d].pc \in {"mark", "post"},
         ChangesOnly(e),
         UNCHANGED <<slack, thread, delegated>>, told' \subseteq Event,
         \/ /\ pc \in Holding /\ log'[e] # "absent"
            /\ pc \in {"post", "unmark"} => log'[e] = "responded"
            /\ fate'[e] = fate[e] /\ responses'[e] = responses[e]
         \/ /\ pc \in Final /\ log'[e] = "absent"
            /\ fate'[e] = fate[e] /\ responses'[e] = responses[e]
         \/ /\ pc \in Final /\ log'[e] # "absent"
            /\ fate'[e] \in {"silent", "told", "lost"} /\ responses'[e] = responses[e]
         \/ /\ pc \in Final /\ del[d].pc = "post" /\ log'[e] = log[e]
            /\ fate'[e] = "responded" /\ responses'[e] = responses[e] + 1
  PROVE  IInv' /\ Moves(d, del[d].event)
<1>1. /\ del' \in [Delivery -> DeliveryState] /\ del'[d].pc = pc /\ del'[d].event = e
      /\ \A u \in Delivery \ {d} : del'[u] = del[u]
  BY GotoMoves DEF IInv
<1>2. UNCHANGED slack /\ UNCHANGED thread /\ UNCHANGED delegated
  OBVIOUS
<1>3. Frame(d, e)
  BY <1>1, <1>2 DEF Frame, ChangesOnly
<1>4. Holds(d, e) /\ (pc \in Holding => Holds(d, e)')
  BY <1>1 DEF Holds, Holding
<1>5. Inside(d, e) \/ Returns(d, e) \/ Gives(d, e) \/ Answers(d, e)
  BY <1>1, <1>4 DEF Inside, Returns, Gives, Answers
<1>6. TypeOK'
  BY <1>1, <1>2 DEF IInv, TypeOK, LogStates, ChangesOnly
<1>7. Heard(d, e)
  BY <1>1, <1>2 DEF Heard, Listening
<1>8. QED BY <1>3, <1>5, <1>6, <1>7, MovesKeep DEF Moves

LEMMA RollbackKeeps ==
  ASSUME IInv, NEW d \in Delivery, Rollback(d)
  PROVE  IInv' /\ Moves(d, del[d].event)
<1>1. PICK e \in Event : e = del[d].event /\ log[e] # "absent" /\ fate[e] = "open"
  BY Holder DEF Rollback, Holding
<1>2. del[d].pc = "rollback" /\ UNCHANGED <<slack, thread, delegated, told, responses>>
      /\ del[d].pc \in Holding /\ told' \subseteq Event
  BY DEF Rollback, Holding, IInv, TypeOK
<1>3. PICK pc \in {"done", "dropped"} : Goto(d, pc)
  BY DEF Rollback
<1>4. pc \in PC \ {"idle", "mark"} /\ pc \in Final /\ pc \notin {"post", "unmark"}
  BY DEF PC, Final
<1>5. log[e] \in LogStates /\ fate[e] \in Fates
  BY DEF IInv, TypeOK, LogStates
<1>6. CASE log' = [log EXCEPT ![e] = "absent"] /\ UNCHANGED fate
  <2>1. ChangesOnly(e) /\ log'[e] = "absent" /\ fate'[e] = fate[e] /\ responses'[e] = responses[e]
    BY <1>2, <1>5, <1>6, UpdateOnly DEF LogStates
  <2>2. QED BY <1>1, <1>2, <1>3, <1>4, <2>1, HolderKeeps
<1>7. CASE fate' = [fate EXCEPT ![e] = IF e \in told THEN "told" ELSE "lost"] /\ UNCHANGED log
  <2>1. PICK f \in {"told", "lost"} : fate' = [fate EXCEPT ![e] = f]
    BY <1>7
  <2>2. ChangesOnly(e) /\ log'[e] = log[e] /\ fate'[e] = f /\ responses'[e] = responses[e]
    BY <1>2, <1>5, <1>7, <2>1, UpdateOnly DEF Fates
  <2>3. QED BY <1>1, <1>2, <1>3, <1>4, <2>2, HolderKeeps
<1>8. QED BY <1>1, <1>6, <1>7 DEF Rollback

LEMMA MarkKeeps ==
  ASSUME IInv, NEW d \in Delivery, Mark(d)
  PROVE  IInv' /\ Moves(d, del[d].event)
<1>1. PICK e \in Event : e = del[d].event /\ log[e] # "absent" /\ fate[e] = "open"
  BY Holder DEF Mark, Holding
<1>2. del[d].pc = "mark" /\ UNCHANGED <<slack, thread, delegated, told, responses>>
      /\ del[d].pc \in Holding /\ told' \subseteq Event
  BY DEF Mark, Holding, IInv, TypeOK
<1>3. log[e] \in LogStates /\ fate[e] \in Fates
  BY DEF IInv, TypeOK, LogStates
<1>4. ASSUME NEW f \in {"silent", "lost"}, Ends(d, f),
             UNCHANGED log \/ log' = [log EXCEPT ![e] = "responded"]
      PROVE  IInv' /\ Moves(d, del[d].event)
  <2>1. PICK l \in {log[e], "responded"} :
          log' = [log EXCEPT ![e] = l] \/ (UNCHANGED log /\ l = log[e])
    BY <1>4
  <2>2. fate' = [fate EXCEPT ![e] = f] /\ Goto(d, "done")
    BY <1>1, <1>4 DEF Ends
  <2>3. l \in LogStates /\ l # "absent"
    BY <1>1, <1>3, <2>1 DEF LogStates
  <2>4. ChangesOnly(e) /\ log'[e] = l /\ fate'[e] = f /\ responses'[e] = responses[e]
    BY <1>2, <2>1, <2>2, <2>3, UpdateOnly DEF Fates
  <2>5. "done" \in PC \ {"idle", "mark"} /\ "done" \in Final
    BY DEF PC, Final
  <2>6. QED BY <1>1, <1>2, <2>2, <2>3, <2>4, <2>5, HolderKeeps
<1>5. CASE log' = [log EXCEPT ![e] = "responded"] /\ Goto(d, "post") /\ UNCHANGED fate
  <2>1. ChangesOnly(e) /\ log'[e] = "responded" /\ fate'[e] = fate[e] /\ responses'[e] = responses[e]
    BY <1>2, <1>3, <1>5, UpdateOnly DEF LogStates
  <2>2. "post" \in PC \ {"idle", "mark"} /\ "post" \in Holding
    BY DEF PC, Holding
  <2>3. QED BY <1>1, <1>2, <1>5, <2>1, <2>2, HolderKeeps
<1>6. CASE Goto(d, "fail") /\ UNCHANGED <<log, fate>>
  <2>1. ChangesOnly(e) /\ log'[e] = log[e] /\ fate'[e] = fate[e] /\ responses'[e] = responses[e]
    BY <1>2, <1>3, <1>6, UpdateOnly
  <2>2. "fail" \in PC \ {"idle", "mark"} /\ "fail" \in Holding
    BY DEF PC, Holding
  <2>3. QED BY <1>1, <1>2, <1>6, <2>1, <2>2, HolderKeeps
<1>7. QED BY <1>1, <1>4, <1>5, <1>6 DEF Mark

LEMMA PostKeeps ==
  ASSUME IInv, NEW d \in Delivery, Post(d)
  PROVE  IInv' /\ Moves(d, del[d].event)
<1>1. PICK e \in Event : e = del[d].event /\ log[e] = "responded"
                         /\ fate[e] = "open" /\ responses[e] = 0
  BY Holder DEF Post, Holding
<1>2. del[d].pc = "post" /\ UNCHANGED <<slack, log, thread, delegated, told>>
      /\ del[d].pc \in Holding /\ told' \subseteq Event
  BY DEF Post, Holding, IInv, TypeOK
<1>3. log \in [Event -> LogStates] /\ fate \in [Event -> Fates] /\ responses \in [Event -> Nat]
  BY DEF IInv, TypeOK, LogStates
<1>4. CASE responses' = [responses EXCEPT ![e] = @ + 1] /\ Ends(d, "responded")
  <2>1. fate' = [fate EXCEPT ![e] = "responded"] /\ Goto(d, "done")
    BY <1>1, <1>4 DEF Ends
  <2>2. fate' \in [Event -> Fates] /\ fate'[e] = "responded"
        /\ \A g \in Event \ {e} : fate'[g] = fate[g]
    BY <1>3, <2>1 DEF Fates
  <2>3. responses' \in [Event -> Nat] /\ responses'[e] = responses[e] + 1
        /\ \A g \in Event \ {e} : responses'[g] = responses[g]
    BY <1>3, <1>4
  <2>4. ChangesOnly(e)
    BY <1>2, <1>3, <2>2, <2>3 DEF ChangesOnly
  <2>5. "done" \in PC \ {"idle", "mark"} /\ "done" \in Final
    BY DEF PC, Final
  <2>6. log'[e] = log[e]
    BY <1>2
  <2>7. QED BY <1>1, <1>2, <2>1, <2>2, <2>3, <2>4, <2>5, <2>6, HolderKeeps
<1>5. CASE Goto(d, "unmark") /\ UNCHANGED <<fate, responses>>
  <2>1. ChangesOnly(e) /\ log'[e] = log[e] /\ fate'[e] = fate[e] /\ responses'[e] = responses[e]
    BY <1>2, <1>3, <1>5 DEF ChangesOnly
  <2>2. "unmark" \in PC \ {"idle", "mark"} /\ "unmark" \in Holding
    BY DEF PC, Holding
  <2>3. QED BY <1>1, <1>2, <1>5, <2>1, <2>2, HolderKeeps
<1>6. QED BY <1>1, <1>4, <1>5 DEF Post

LEMMA UnmarkKeeps ==
  ASSUME IInv, NEW d \in Delivery, Unmark(d)
  PROVE  IInv' /\ Moves(d, del[d].event)
<1>1. PICK e \in Event : e = del[d].event /\ log[e] # "absent"
  BY Holder DEF Unmark, Holding
<1>2. del[d].pc = "unmark" /\ Goto(d, "fail")
      /\ UNCHANGED <<slack, thread, delegated, fate, told, responses>>
      /\ del[d].pc \in Holding /\ told' \subseteq Event
  BY DEF Unmark, history, Holding, IInv, TypeOK
<1>3. log[e] \in LogStates /\ fate[e] \in Fates
  BY DEF IInv, TypeOK, LogStates
<1>4. PICK l \in {log[e], "accepted"} :
        log' = [log EXCEPT ![e] = l] \/ (UNCHANGED log /\ l = log[e])
  BY <1>1 DEF Unmark
<1>5. l \in LogStates /\ l # "absent"
  BY <1>1, <1>3, <1>4 DEF LogStates
<1>6. ChangesOnly(e) /\ log'[e] = l /\ fate'[e] = fate[e] /\ responses'[e] = responses[e]
  BY <1>2, <1>3, <1>4, <1>5, UpdateOnly
<1>7. "fail" \in PC \ {"idle", "mark"} /\ "fail" \in Holding
  BY DEF PC, Holding
<1>8. QED BY <1>1, <1>2, <1>5, <1>6, <1>7, HolderKeeps

LEMMA FailKeeps ==
  ASSUME IInv, NEW d \in Delivery, Fail(d)
  PROVE  IInv' /\ Moves(d, del[d].event)
<1>1. PICK e \in Event : e = del[d].event /\ log[e] # "absent"
  BY Holder DEF Fail, Holding
<1>2. del[d].pc = "fail" /\ UNCHANGED <<slack, log, thread, delegated, responses>>
      /\ del[d].pc \in Holding
  BY DEF Fail, Holding
<1>3. told' \subseteq Event
  BY <1>1 DEF Fail, Tell, IInv, TypeOK
<1>4. PICK f \in {"told", "lost"} : Ends(d, f)
  BY DEF Fail
<1>5. fate' = [fate EXCEPT ![e] = f] /\ Goto(d, "done")
  BY <1>1, <1>4 DEF Ends
<1>6. log[e] \in LogStates
  BY DEF IInv, TypeOK, LogStates
<1>7. ChangesOnly(e) /\ log'[e] = log[e] /\ fate'[e] = f /\ responses'[e] = responses[e]
  BY <1>2, <1>5, <1>6, UpdateOnly DEF Fates
<1>8. "done" \in PC \ {"idle", "mark"} /\ "done" \in Final
  BY DEF PC, Final
<1>9. QED BY <1>1, <1>2, <1>3, <1>5, <1>7, <1>8, HolderKeeps

LEMMA StepKeeps ==
  ASSUME IInv, NEW d \in Delivery, Step(d)
  PROVE  IInv' /\ del[d].event \in Event /\ Moves(d, del[d].event)
<1>1. del[d].pc # "idle"
  BY DEF Step, GateMention, GateReply, RecordReceived, RecordActivity, Dispatch, Notify, Rollback,
     RunEnds, RunFails, Mark, Post, Unmark, Fail
<1>2. del[d].event \in Event
  BY <1>1, UnderWay
<1>3. QED
  BY <1>2, GateKeeps, RecordReceivedKeeps, RecordActivityKeeps, DispatchKeeps, NotifyKeeps,
     RollbackKeeps, RunEndsKeeps, RunFailsKeeps, MarkKeeps, PostKeeps, UnmarkKeeps, FailKeeps
  DEF Step

-----------------------------------------------------------------------------
(* Delegated tasks, retention, crashes.                                    *)

\* Steps that move no delivery.
LEMMA DelegateKeeps ==
  ASSUME IInv, NEW d \in Delivery, Delegate(d)
  PROVE  IInv'
<1>1. UNCHANGED <<slack, del, log, thread, fate, told, responses>>
      /\ delegated' = delegated \cup {del[d].event} /\ del[d].event \in Event
  BY UnderWay DEF Delegate, history
<1>2. \A e \in Event : EventInv(e)'
  BY <1>1 DEF IInv, EventInv, RunOK, AbsentOK, FateOK, Holds
<1>3. TypeOK' /\ EventOK' /\ ListenOK'
  BY <1>1 DEF IInv, TypeOK, EventOK, ListenOK, Listening
<1>4. QED BY <1>2, <1>3 DEF IInv

LEMMA RowKeeps ==
  ASSUME IInv, NEW e \in Event, TaskMarks(e) \/ Prune(e)
  PROVE  IInv'
<1>1. UNCHANGED <<slack, del, thread, delegated, fate, told, responses>>
  BY DEF TaskMarks, Prune, history
<1>2. PICK l \in {"responded", "absent"} : log' = [log EXCEPT ![e] = l]
        /\ (l = "responded" => TaskMarks(e)) /\ (l = "absent" => Prune(e))
  BY DEF TaskMarks, Prune
<1>3. log' \in [Event -> LogStates] /\ log'[e] = l /\ \A g \in Event \ {e} : log'[g] = log[g]
  BY <1>2 DEF IInv, TypeOK, LogStates
<1>4. \A u \in Delivery, g \in Event : Holds(u, g)' <=> Holds(u, g)
  BY <1>1 DEF Holds
<1>5. ASSUME NEW g \in Event \ {e} PROVE EventInv(g)'
  BY <1>1, <1>3, <1>4 DEF IInv, EventInv, RunOK, AbsentOK, FateOK
<1>6. EventInv(e)'
  <2>1. CASE l = "responded"
    <3>1. log[e] = "accepted"
      BY <2>1, <1>2 DEF TaskMarks
    <3>2. QED BY <2>1, <3>1, <1>1, <1>3, <1>4 DEF IInv, EventInv, RunOK, AbsentOK, FateOK
  <2>2. CASE l = "absent"
    <3>1. Prune(e) /\ e # NoEvent
      BY <2>2, <1>2
    <3>2. \A u \in Delivery : del[u].event = e => del[u].pc \in Final
      BY <3>1 DEF Prune, Final
    <3>3. slack[e] = "acked"
      BY <3>1 DEF Prune
    <3>4. \A u \in Delivery : ~Holds(u, e)
      BY <3>2, HoldingPCs DEF Holds
    <3>5. QED BY <2>2, <3>2, <3>3, <3>4, <1>1, <1>3, <1>4 DEF IInv, EventInv, RunOK, AbsentOK, FateOK
  <2>3. QED BY <2>1, <2>2
<1>7. TypeOK' /\ EventOK' /\ ListenOK'
  BY <1>1, <1>3 DEF IInv, TypeOK, LogStates, EventOK, ListenOK, Listening
<1>8. QED BY <1>5, <1>6, <1>7 DEF IInv

LEMMA CrashMoves ==
  ASSUME IInv, Crash
  PROVE  /\ \A d \in Delivery : /\ del'[d] \in DeliveryState /\ del'[d].event = del[d].event
                                /\ del'[d].pc \in Final \cup {"idle"}
                                /\ del'[d].pc = "idle" <=> del[d].pc = "idle"
         /\ \A e \in Event : ~Held(e)'
         /\ \A e \in Event : fate'[e] = IF Held(e) THEN "lost" ELSE fate[e]
<1>1. ASSUME NEW d \in Delivery
      PROVE  /\ del'[d] \in DeliveryState /\ del'[d].event = del[d].event
             /\ del'[d].pc \in Final \cup {"idle"}
             /\ del'[d].pc = "idle" <=> del[d].pc = "idle"
  <2> DEFINE r == [del[d] EXCEPT !.pc = "dropped"]
  <2>1. del[d] \in DeliveryState
    BY DEF IInv, TypeOK
  <2>2. r \in DeliveryState /\ r.event = del[d].event /\ r.pc = "dropped"
    BY <2>1 DEF DeliveryState, PC
  <2> HIDE DEF r
  <2>3. del'[d] = IF del[d].pc \in {"idle", "done", "gated"} THEN del[d] ELSE r
    BY DEF Crash, r
  <2>4. QED BY <2>1, <2>2, <2>3 DEF Final
<1>2. \A e \in Event : ~Held(e)'
  BY <1>1, HoldingPCs DEF Held, Holds
<1>3. QED BY <1>1, <1>2 DEF Crash

LEMMA CrashKeeps ==
  ASSUME IInv, Crash
  PROVE  IInv'
<1>1. UNCHANGED <<slack, log, thread, delegated, told, responses>>
  BY DEF Crash
<1>2. ASSUME NEW e \in Event
      PROVE  EventInv(e)'
  <2>1. RunOK(e)'
    BY CrashMoves DEF RunOK, Held
  <2>2. CASE Held(e)
    <3>1. log[e] # "absent" /\ fate'[e] = "lost" /\ responses[e] = 0
      BY <2>2, CrashMoves DEF IInv, EventInv, RunOK, Held
    <3>2. QED BY <2>1, <3>1, <1>1 DEF EventInv, AbsentOK, FateOK
  <2>3. CASE ~Held(e)
    <3>1. fate'[e] = fate[e]
      BY <2>3, CrashMoves
    <3>2. \A d \in Delivery : del'[d].event = e => del[d].event = e /\ del'[d].pc # "idle"
      BY CrashMoves DEF IInv, EventOK
    <3>3. \A d \in Delivery : del'[d].event = e => del'[d].pc \in Final
      BY <3>2, CrashMoves
    <3>4. QED BY <2>1, <3>1, <3>3, <1>1 DEF IInv, EventInv, AbsentOK, FateOK
  <2>4. QED BY <2>2, <2>3
<1>3. TypeOK'
  <2>1. del' \in [Delivery -> DeliveryState]
    BY CrashMoves DEF Crash
  <2>2. fate' \in [Event -> Fates]
    BY DEF Crash, IInv, TypeOK, Fates
  <2>3. QED BY <2>1, <2>2, <1>1 DEF IInv, TypeOK
<1>4. EventOK'
  BY CrashMoves DEF IInv, EventOK
<1>5. ListenOK'
  BY <1>1, CrashMoves DEF IInv, ListenOK, Listening, Final
<1>6. QED BY <1>2, <1>3, <1>4, <1>5 DEF IInv

-----------------------------------------------------------------------------
(* The invariant and what follows from it.                                 *)

LEMMA InitIInv == Init => IInv
<1> SUFFICES ASSUME Init PROVE IInv
  OBVIOUS
<1>1. TypeOK
  BY DEF Init, TypeOK, DeliveryState, PC, Fates
<1>2. EventOK /\ ListenOK
  BY DEF Init, EventOK, ListenOK
<1>3. \A e \in Event : EventInv(e)
  BY DEF Init, EventInv, RunOK, AbsentOK, FateOK, Holds, Holding
<1>4. QED BY <1>1, <1>2, <1>3 DEF IInv

LEMMA StutterKeeps == ASSUME IInv, UNCHANGED vars PROVE IInv'
<1>1. \A e \in Event : EventInv(e)'
  BY DEF vars, IInv, EventInv, RunOK, AbsentOK, FateOK, Holds
<1>2. QED BY <1>1 DEF vars, IInv, TypeOK, EventOK, ListenOK, Listening

LEMMA NextIInv == IInv /\ [Next]_vars => IInv'
<1> SUFFICES ASSUME IInv, [Next]_vars PROVE IInv'
  OBVIOUS
<1>1. ASSUME NEW d \in Delivery, Step(d) \/ Delegate(d) PROVE IInv'
  BY <1>1, StepKeeps, DelegateKeeps
<1>2. ASSUME NEW d \in Delivery, NEW e \in Event, Deliver(d, e) PROVE IInv'
  BY <1>2, DeliverKeeps
<1>3. ASSUME NEW e \in Event, TaskMarks(e) \/ Prune(e) PROVE IInv'
  BY <1>3, RowKeeps
<1>4. QED BY <1>1, <1>2, <1>3, CrashKeeps, StutterKeeps DEF Next

LEMMA Invariant == Spec => []IInv
BY InitIInv, NextIInv, PTL DEF Spec

\* Type correctness of the event intake.
THEOREM TypeCorrect == Spec => []TypeOK
<1>1. IInv => TypeOK
  BY DEF IInv
<1>2. QED BY <1>1, Invariant, PTL

\* However Slack delivers an event, one delivery at a time runs it, with its
\* row in place and nothing concluded before (plugin.ts:347).
THEOREM OneRun == Spec => []OneRunPerEvent
<1>1. IInv => OneRunPerEvent
  BY DEF IInv, EventInv, RunOK, OneRunPerEvent
<1>2. QED BY <1>1, Invariant, PTL

\* Slack acknowledges at most one response of an event
\* (post-final-response.ts:61).
THEOREM RespondedOnce == Spec => []OneResponse
<1>1. IInv => OneResponse
  BY DEF IInv, EventInv, FateOK, OneResponse
<1>2. QED BY <1>1, Invariant, PTL

\* An answered event stays marked while its row is kept
\* (post-final-response.ts:61).
THEOREM AnswersStayMarked == Spec => []AnsweredStaysMarked
<1>1. IInv => AnsweredStaysMarked
  BY DEF IInv, EventInv, FateOK, AnsweredStaysMarked
<1>2. QED BY <1>1, Invariant, PTL

\* A thread the bot has answered in listens to replies without a mention
\* (plugin.ts:205).
THEOREM AnsweredListen == Spec => []AnsweredThreadsListen
<1>1. IInv => AnsweredThreadsListen
  BY DEF IInv, EventInv, FateOK, ListenOK, Listening, AnsweredThreadsListen
<1>2. QED BY <1>1, Invariant, PTL

\* No failure notice follows a response (dispatcher.ts:256).
THEOREM NoLateNotice == Spec => NoNoticeAfterResponse
<1> DEFINE Fresh == \A e \in told' \ told : responses[e] = 0 /\ fate[e] = "open"
<1>1. IInv /\ [Next]_vars => [Fresh]_vars
  <2> SUFFICES ASSUME IInv, Next PROVE Fresh
    OBVIOUS
  <2>1. CASE told' = told
    BY <2>1
  <2>2. ASSUME NEW d \in Delivery, del[d].pc \in {"notify", "fail"}, Tell(d)
        PROVE  Fresh
    <3>1. responses[del[d].event] = 0 /\ fate[del[d].event] = "open"
      BY <2>2, Holder DEF Holding
    <3>2. QED BY <2>2, <3>1 DEF Tell
  <2>3. told' = told \/ \E d \in Delivery : del[d].pc \in {"notify", "fail"} /\ Tell(d)
    BY DEF Next, Step, Deliver, GateMention, GateReply, RecordReceived, RecordActivity, Dispatch,
       Notify, Rollback, RunEnds, RunFails, Mark, Post, Unmark, Fail, Delegate, TaskMarks, Prune,
       Crash, history
  <2>4. QED BY <2>1, <2>2, <2>3
<1>2. QED BY <1>1, Invariant, PTL DEF Spec, NoNoticeAfterResponse

-----------------------------------------------------------------------------
(* Refinement: the phases of TaskAnswer.                                   *)

SamePhases(S) == \A x \in Event \ S : Phase(x)' = Phase(x)

Stutters == [e \in Event |-> Phase(e)]' = [e \in Event |-> Phase(e)]

LEMMA SameStutters == ASSUME SamePhases({}) PROVE Stutters
BY DEF SamePhases, Stutters

LEMMA PhaseFrame ==
  ASSUME NEW x \in Event, Held(x)' <=> Held(x), fate'[x] = fate[x]
  PROVE  Phase(x)' = Phase(x)
BY DEF Phase

\* The phases of the other events stay when one delivery moves.
LEMMA OtherPhases ==
  ASSUME NEW d \in Delivery, NEW e \in Event, Frame(d, e)
  PROVE  SamePhases({e})
<1> SUFFICES ASSUME NEW g \in Event \ {e} PROVE Phase(g)' = Phase(g)
  BY DEF SamePhases
<1>1. g # NoEvent /\ del[d].event # g /\ del'[d].event # g
  BY EventsAssumption DEF Frame
<1>2. \A u \in Delivery : Holds(u, g)' <=> Holds(u, g)
  BY <1>1 DEF Frame, Holds
<1>3. QED BY <1>2, PhaseFrame DEF Frame, Held

LEMMA AbstractClose ==
  ASSUME NEW S \in SUBSET Event, \A x \in S : Phase(x) = "claimed" /\ Phase(x)' = "closed",
         SamePhases(S)
  PROVE  Abstract!Next
<1>1. Abstract!Close(S)
  BY DEF Abstract!Close, SamePhases
<1>2. QED BY <1>1 DEF Abstract!Next

LEMMA MovesImplement ==
  ASSUME IInv, NEW d \in Delivery, NEW e \in Event, Moves(d, e)
  PROVE  Abstract!Next \/ Stutters
<1>0. SamePhases({e})
  BY OtherPhases DEF Moves
<1>1. \A u \in Delivery \ {d} : Holds(u, e)' <=> Holds(u, e)
  BY DEF Moves, Frame, Holds
<1>2. CASE Outside(d, e) \/ Inside(d, e)
  <2>1. (Held(e)' <=> Held(e)) /\ fate'[e] = fate[e]
    BY <1>1, <1>2 DEF Outside, Inside, Held
  <2>2. Phase(e)' = Phase(e)
    BY <2>1, PhaseFrame
  <2>3. QED BY <1>0, <2>2, SameStutters DEF SamePhases
<1>3. CASE Wins(d, e)
  <2>1. ~Held(e) /\ Held(e)'
    BY <1>3 DEF Wins, Held, IInv, EventInv, RunOK
  <2>2. fate[e] = "open"
    BY <1>3 DEF Wins, IInv, EventInv, AbsentOK, Final
  <2>3. Phase(e) = "pending" /\ Phase(e)' = "claimed"
    BY <2>1, <2>2 DEF Phase
  <2>4. Abstract!Claim(e)
    BY <1>0, <2>3 DEF Abstract!Claim, SamePhases
  <2>5. QED BY <2>4 DEF Abstract!Next
<1>4. CASE Returns(d, e) \/ Gives(d, e) \/ Answers(d, e)
  <2>1. Holds(d, e) /\ Held(e) /\ ~Holds(d, e)'
    BY <1>4, HoldingPCs DEF Returns, Gives, Answers, Holds, Held
  <2>2. fate[e] = "open" /\ ~Held(e)'
    BY <2>1, <1>1 DEF IInv, EventInv, RunOK, Held
  <2>3. Phase(e) = "claimed"
    BY <2>1 DEF Phase
  <2>4. CASE Returns(d, e)
    <3>1. Phase(e)' = "pending"
      BY <2>2, <2>4 DEF Phase, Returns
    <3>2. Abstract!Release(e)
      BY <1>0, <2>3, <3>1 DEF Abstract!Release, SamePhases
    <3>3. QED BY <3>2 DEF Abstract!Next
  <2>5. CASE Gives(d, e)
    <3>1. Phase(e)' = "closed"
      BY <2>2, <2>5 DEF Phase, Gives
    <3>2. QED BY <1>0, <2>3, <3>1, AbstractClose
  <2>6. CASE Answers(d, e)
    <3>1. Phase(e)' = "answered"
      BY <2>2, <2>6 DEF Phase, Answers
    <3>2. Abstract!Answer(e)
      BY <1>0, <2>3, <3>1 DEF Abstract!Answer, SamePhases
    <3>3. QED BY <3>2 DEF Abstract!Next
  <2>7. QED BY <1>4, <2>4, <2>5, <2>6
<1>5. QED BY <1>2, <1>3, <1>4 DEF Moves

LEMMA CrashImplements ==
  ASSUME IInv, Crash
  PROVE  Abstract!Next
<1> DEFINE S == {e \in Event : Held(e)}
<1>1. \A e \in S : Phase(e) = "claimed" /\ Phase(e)' = "closed"
  BY CrashMoves DEF Phase
<1>2. SamePhases(S)
  BY CrashMoves DEF SamePhases, Phase
<1>3. S \in SUBSET Event
  OBVIOUS
<1> HIDE DEF S
<1>4. QED BY <1>1, <1>2, <1>3, AbstractClose

LEMMA NextImplements == IInv /\ [Next]_vars => Abstract!Next \/ Stutters
<1> SUFFICES ASSUME IInv, [Next]_vars PROVE Abstract!Next \/ Stutters
  OBVIOUS
<1>1. ASSUME NEW d \in Delivery, Step(d) PROVE Abstract!Next \/ Stutters
  BY <1>1, StepKeeps, MovesImplement
<1>2. ASSUME NEW d \in Delivery, NEW e \in Event, Deliver(d, e) PROVE Abstract!Next \/ Stutters
  BY <1>2, DeliverKeeps, MovesImplement
<1>3. CASE UNCHANGED <<del, fate>>
  <2>1. SamePhases({})
    BY <1>3 DEF SamePhases, Phase, Held, Holds
  <2>2. QED BY <2>1, SameStutters
<1>4. CASE \/ \E d \in Delivery : Delegate(d)
           \/ \E e \in Event : TaskMarks(e) \/ Prune(e)
           \/ UNCHANGED vars
  BY <1>3, <1>4 DEF Delegate, TaskMarks, Prune, vars, history
<1>5. QED BY <1>1, <1>2, <1>4, CrashImplements DEF Next

LEMMA InitImplements == Init => Abstract!Init
<1> SUFFICES ASSUME Init PROVE Abstract!Init
  OBVIOUS
<1>1. \A e \in Event : Phase(e) = "pending"
  BY DEF Init, Phase, Held, Holds, Holding
<1>2. QED BY <1>1 DEF Abstract!Init

\* Whatever deliveries, runs and crashes do, each event goes through the phases
\* TaskAnswer allows: claimed by one delivery at a time, given back only by
\* deleting its row, answered or closed for good.
THEOREM Implementation == Spec => ImplementsTaskAnswer
<1>1. IInv /\ [Next]_vars => [Abstract!Next]_([e \in Event |-> Phase(e)])
  BY NextImplements DEF Stutters
<1>2. QED
  BY <1>1, InitImplements, Invariant, PTL DEF Spec, ImplementsTaskAnswer, Abstract!Spec

-----------------------------------------------------------------------------
(* The mark never swallows the only response.                              *)

\* From the INSERT to the mark.
Early == {"activity", "dispatch", "notify", "rollback", "run", "mark"}

\* Up to its mark, an event is marked only if a delegated task's finalizer may
\* have; and a run that posts has delegated nothing.
EarlyOK(d) ==
  del[d].pc \in Early =>
    /\ log[del[d].event] = "responded" => del[d].event \in delegated
    /\ del[d].pc = "mark" /\ ~del[d].quiet => del[d].event \notin delegated

MarkOK == \A d \in Delivery : EarlyOK(d)

LEMMA EarlyHolds ==
  ASSUME IInv, NEW d \in Delivery, del[d].pc \in Early
  PROVE  del[d].event \in Event /\ Holds(d, del[d].event) /\ log[del[d].event] # "absent"
<1>1. del[d].event \in Event
  BY DEF IInv, EventOK, Early
<1>2. Holds(d, del[d].event)
  BY DEF Holds, Holding, Early
<1>3. QED BY <1>1, <1>2 DEF IInv, EventInv, RunOK

\* A step of one delivery does not disturb the others.
LEMMA OthersEarlyOK ==
  ASSUME IInv, MarkOK, NEW d \in Delivery, NEW u \in Delivery \ {d}, del'[u] = del[u],
         UNCHANGED delegated \/ (del[d].pc = "run" /\ delegated' = delegated \cup {del[d].event}),
         \A g \in Event : log'[g] = "responded" => log[g] = "responded" \/ Holds(d, g)
  PROVE  EarlyOK(u)'
<1> SUFFICES ASSUME del[u].pc \in Early PROVE EarlyOK(u)'
  BY DEF EarlyOK
<1>1. PICK e \in Event : del[u].event = e /\ Holds(u, e)
  BY EarlyHolds
<1>2. ~Holds(d, e)
  BY <1>1 DEF IInv, EventInv, RunOK
<1>3. log'[e] = "responded" => log[e] = "responded"
  BY <1>2
<1>4. e \in delegated' <=> e \in delegated
  BY <1>2 DEF Holds, Holding
<1>5. EarlyOK(u)
  BY DEF MarkOK
<1>6. QED BY <1>1, <1>3, <1>4, <1>5 DEF EarlyOK

\* What a step of a delivery does to its own event's mark.
LEMMA StepEarlyOK ==
  ASSUME IInv, MarkOK, NEW d \in Delivery, Step(d)
  PROVE  /\ EarlyOK(d)'
         /\ \A u \in Delivery \ {d} : del'[u] = del[u]
         /\ delegated' = delegated
         /\ \A g \in Event : log'[g] = "responded" => log[g] = "responded" \/ Holds(d, g)
<1>0. /\ del \in [Delivery -> DeliveryState] /\ del[d] \in DeliveryState
      /\ log \in [Event -> LogStates] /\ EarlyOK(d)
  BY DEF IInv, TypeOK, MarkOK, LogStates
<1>1. PICK e \in Event : del[d].event = e
  BY UnderWay DEF Step, GateMention, GateReply, RecordReceived, RecordActivity, Dispatch, Notify,
     Rollback, RunEnds, RunFails, Mark, Post, Unmark, Fail
<1>a. /\ {"gated", "record", "dropped", "duplicate", "done", "fail", "post", "unmark"} \subseteq PC \ Early
      /\ {"activity", "dispatch", "notify", "rollback", "run"} \subseteq Early \ {"mark"}
  BY DEF PC, Early
\* Steps that lead to no mark.
<1>2. ASSUME NEW pc \in PC \ Early, Goto(d, pc),
             delegated' = delegated,
             \/ log' = log
             \/ del[d].pc \in Holding /\ \E s \in LogStates : log' = [log EXCEPT ![e] = s]
      PROVE  /\ EarlyOK(d)'
             /\ \A u \in Delivery \ {d} : del'[u] = del[u]
             /\ delegated' = delegated
             /\ \A g \in Event : log'[g] = "responded" => log[g] = "responded" \/ Holds(d, g)
  <2>1. del'[d].pc = pc /\ \A u \in Delivery \ {d} : del'[u] = del[u]
    BY <1>2, GotoMoves DEF IInv
  <2>2. \A g \in Event : log'[g] = "responded" => log[g] = "responded" \/ Holds(d, g)
    BY <1>0, <1>1, <1>2 DEF Holds
  <2>3. QED BY <1>2, <2>1, <2>2 DEF EarlyOK
\* Steps on the way to it.
<1>3. ASSUME NEW pc \in Early \ {"mark"}, Goto(d, pc), delegated' = delegated,
             \/ log' = log /\ del[d].pc \in Early
             \/ log' = [log EXCEPT ![e] = "accepted"]
      PROVE  /\ EarlyOK(d)'
             /\ \A u \in Delivery \ {d} : del'[u] = del[u]
             /\ delegated' = delegated
             /\ \A g \in Event : log'[g] = "responded" => log[g] = "responded" \/ Holds(d, g)
  <2>1. pc \in PC
    BY DEF Early, PC
  <2>2. del'[d].pc = pc /\ del'[d].event = e /\ \A u \in Delivery \ {d} : del'[u] = del[u]
    BY <1>1, <1>3, <2>1, GotoMoves DEF IInv
  <2>3. \A g \in Event : log'[g] = "responded" => log[g] = "responded"
    BY <1>0, <1>3
  <2>4. log'[e] = "responded" => del[d].pc \in Early /\ log[e] = "responded"
    BY <1>0, <1>3
  <2>5. log'[e] = "responded" => e \in delegated
    BY <1>0, <1>1, <2>4 DEF EarlyOK
  <2>6. QED BY <1>3, <2>2, <2>3, <2>5 DEF EarlyOK
<1>4. CASE GateMention(d) \/ GateReply(d)
  <2>1. PICK pc \in {"gated", "record", "dropped"} : Goto(d, pc)
    BY <1>4 DEF GateMention, GateReply
  <2>2. log' = log /\ delegated' = delegated
    BY <1>4 DEF GateMention, GateReply
  <2>3. pc \in PC \ Early
    BY <1>a
  <2>4. QED BY <2>1, <2>2, <2>3, <1>2
<1>5. CASE RecordReceived(d)
  <2>1. delegated' = delegated
    BY <1>5 DEF RecordReceived
  <2>2. CASE log' = [log EXCEPT ![e] = "accepted"] /\ Goto(d, "activity")
    <3>1. "activity" \in Early \ {"mark"}
      BY <1>a
    <3>2. QED BY <2>1, <2>2, <3>1, <1>3
  <2>3. CASE log' = log /\ (Goto(d, "duplicate") \/ Goto(d, "dropped"))
    <3>1. PICK pc \in {"duplicate", "dropped"} : Goto(d, pc)
      BY <2>3
    <3>2. pc \in PC \ Early
      BY <1>a
    <3>3. QED BY <2>1, <2>3, <3>1, <3>2, <1>2
  <2>4. QED BY <1>1, <1>5, <2>2, <2>3 DEF RecordReceived
<1>6. CASE RecordActivity(d)
  <2>1. delegated' = delegated /\ log' = log
    BY <1>6 DEF RecordActivity
  <2>2. CASE del[d].pc = "activity" /\ Goto(d, "dispatch")
    <3>1. "dispatch" \in Early \ {"mark"} /\ del[d].pc \in Early
      BY <1>a, <2>2
    <3>2. QED BY <2>1, <2>2, <3>1, <1>3
  <2>3. CASE Goto(d, "done")
    <3>1. "done" \in PC \ Early
      BY <1>a
    <3>2. QED BY <2>1, <2>3, <3>1, <1>2
  <2>4. QED BY <1>6, <2>2, <2>3 DEF RecordActivity
<1>7. CASE Dispatch(d) \/ Notify(d)
  <2>1. delegated' = delegated /\ log' = log /\ del[d].pc \in Early
    BY <1>7 DEF Dispatch, Notify, Early
  <2>2. PICK pc \in {"run", "notify", "rollback"} : Goto(d, pc)
    BY <1>7 DEF Dispatch, Notify
  <2>3. pc \in Early \ {"mark"}
    BY <1>a
  <2>4. QED BY <2>1, <2>2, <2>3, <1>3
<1>8. CASE Rollback(d)
  <2>1. delegated' = delegated /\ del[d].pc \in Holding
    BY <1>8 DEF Rollback, Holding
  <2>2. PICK pc \in {"done", "dropped"} : Goto(d, pc)
    BY <1>8 DEF Rollback
  <2>3. log' = log \/ \E s \in LogStates : log' = [log EXCEPT ![e] = s]
    BY <1>1, <1>8 DEF Rollback, LogStates
  <2>4. pc \in PC \ Early
    BY <1>a
  <2>5. QED BY <2>1, <2>2, <2>3, <2>4, <1>2
<1>9. CASE RunEnds(d)
  <2>1. delegated' = delegated /\ log' = log /\ del[d].pc = "run"
    BY <1>9 DEF RunEnds
  <2>2. PICK resumed \in BOOLEAN, sent \in BOOLEAN :
          /\ resumed => e \notin delegated
          /\ del' = [del EXCEPT ![d].pc = "mark", ![d].quiet = IF resumed THEN sent ELSE e \in delegated]
    BY <1>1, <1>9 DEF RunEnds
  <2>3. \A u \in Delivery \ {d} : del'[u] = del[u]
    BY <2>2, <1>0
  <2>4. del'[d].event = e
    BY <2>2, <1>0, <1>1 DEF DeliveryState
  <2>5. del'[d].quiet = IF resumed THEN sent ELSE e \in delegated
    BY <2>2, <1>0 DEF DeliveryState
  <2>6. e \in delegated => del'[d].quiet
    BY <2>2, <2>5
  <2>7. log[e] = "responded" => e \in delegated
    BY <1>0, <1>1, <2>1 DEF EarlyOK, Early
  <2>8. EarlyOK(d)'
    BY <2>1, <2>4, <2>6, <2>7 DEF EarlyOK
  <2>9. QED BY <2>1, <2>3, <2>8
<1>10. CASE RunFails(d)
  <2>1. delegated' = delegated /\ log' = log /\ Goto(d, "fail")
    BY <1>10 DEF RunFails
  <2>2. "fail" \in PC \ Early
    BY <1>a
  <2>3. QED BY <2>1, <2>2, <1>2
<1>11. CASE Mark(d) \/ Post(d) \/ Unmark(d) \/ Fail(d)
  <2>1. delegated' = delegated /\ del[d].pc \in Holding
    BY <1>11 DEF Mark, Post, Unmark, Fail, Holding
  <2>2. PICK pc \in {"done", "post", "fail", "unmark"} : Goto(d, pc)
    BY <1>11 DEF Mark, Post, Unmark, Fail, Ends
  <2>3. log' = log \/ \E s \in LogStates : log' = [log EXCEPT ![e] = s]
    BY <1>1, <1>11 DEF Mark, Post, Unmark, Fail, LogStates
  <2>4. pc \in PC \ Early
    BY <1>a
  <2>5. QED BY <2>1, <2>2, <2>3, <2>4, <1>2
<1>12. QED BY <1>4, <1>5, <1>6, <1>7, <1>8, <1>9, <1>10, <1>11 DEF Step

LEMMA MarkOKKept ==
  ASSUME IInv, MarkOK, [Next]_vars
  PROVE  MarkOK'
<1>1. ASSUME NEW d \in Delivery, Step(d) PROVE MarkOK'
  BY <1>1, StepEarlyOK, OthersEarlyOK DEF MarkOK
<1>2. ASSUME NEW d \in Delivery, Delegate(d) PROVE MarkOK'
  <2>1. /\ del[d].pc = "run" /\ del' = del /\ log' = log
        /\ delegated' = delegated \cup {del[d].event}
    BY <1>2 DEF Delegate
  <2>2. EarlyOK(d)'
    BY <2>1 DEF MarkOK, EarlyOK
  <2>3. QED BY <2>1, <2>2, OthersEarlyOK DEF MarkOK
<1>3. ASSUME NEW d \in Delivery, NEW e \in Event, Deliver(d, e) PROVE MarkOK'
  <2>1. Frame(d, e) /\ ~Holds(d, e)' /\ log' = log /\ delegated' = delegated
    <3>1. Moves(d, e) /\ del[d].pc = "idle"
      BY <1>3, DeliverKeeps DEF Deliver
    <3>2. ~Holds(d, e)
      BY <3>1 DEF Holds, Holding
    <3>3. log' = log /\ delegated' = delegated /\ Frame(d, e)
      BY <1>3, <3>1 DEF Deliver, Moves
    <3>4. ~Wins(d, e)
      BY <3>1 DEF Wins
    <3>5. QED BY <3>1, <3>2, <3>3, <3>4 DEF Moves, Outside, Inside, Returns, Gives, Answers
  <2>2. EarlyOK(d)'
    BY <2>1 DEF Frame, EarlyOK, Holds, Holding, Early
  <2>3. QED BY <2>1, <2>2, OthersEarlyOK DEF MarkOK, Frame
<1>4. ASSUME NEW e \in Event, TaskMarks(e) \/ Prune(e) PROVE MarkOK'
  <2>1. del' = del /\ delegated' = delegated
    BY <1>4 DEF TaskMarks, Prune
  <2>2. \A g \in Event : log'[g] = "responded" => log[g] = "responded" \/ g \in delegated
    BY <1>4 DEF TaskMarks, Prune, IInv, TypeOK
  <2>3. \A d \in Delivery : del[d].pc \in Early => del[d].event \in Event
    BY EarlyHolds
  <2>4. QED BY <2>1, <2>2, <2>3 DEF MarkOK, EarlyOK
<1>5. CASE Crash
  <2>1. \A d \in Delivery : del'[d].pc \notin Early
    BY <1>5 DEF Crash, Early, IInv, TypeOK, DeliveryState
  <2>2. QED BY <2>1 DEF MarkOK, EarlyOK
<1>6. CASE UNCHANGED vars
  BY <1>6 DEF vars, MarkOK, EarlyOK
<1>7. QED BY <1>1, <1>2, <1>3, <1>4, <1>5, <1>6 DEF Next

LEMMA MarkOKFirst == Init => MarkOK
BY DEF Init, MarkOK, EarlyOK, Early

LEMMA MarkSwallowsNothing ==
  ASSUME IInv, MarkOK
  PROVE  MarkNeverSwallows
<1> SUFFICES ASSUME NEW d \in Delivery, del[d].pc = "mark", ~del[d].quiet
             PROVE  log[del[d].event] = "accepted"
  BY DEF MarkNeverSwallows
<1>1. del[d].event \in Event /\ log[del[d].event] # "absent"
  BY EarlyHolds DEF Early
<1>2. log[del[d].event] # "responded"
  BY DEF MarkOK, EarlyOK, Early
<1>3. QED BY <1>1, <1>2 DEF IInv, TypeOK

\* The gate against double posts never refuses an event's only response, for any
\* deliveries and any faults (post-final-response.ts, response-finalizer.ts:239).
THEOREM SwallowsNothing == Spec => []MarkNeverSwallows
<1>1. IInv /\ MarkOK => MarkNeverSwallows
  BY MarkSwallowsNothing
<1>2. IInv /\ MarkOK /\ [Next]_vars => MarkOK'
  BY MarkOKKept
<1>3. QED BY <1>1, <1>2, MarkOKFirst, Invariant, PTL DEF Spec

\* No event ends with nothing to show for it.
NothingLost == \A e \in Event : fate[e] # "lost"

\* A dispatch that failed is given back only after the user was told.
ToldFirst == \A d \in Delivery : del[d].pc = "rollback" => del[d].event \in told

LEMMA NothingLostKept ==
  ASSUME {"crash", "notice"} \cap Faults = {}, IInv, MarkOK, NothingLost, ToldFirst, [Next]_vars
  PROVE  NothingLost' /\ ToldFirst'
<1>0. /\ "crash" \notin Faults /\ "notice" \notin Faults
      /\ del \in [Delivery -> DeliveryState] /\ fate \in [Event -> Fates]
  BY DEF IInv, TypeOK
<1>1. ASSUME NEW d \in Delivery, NEW pc \in PC \ {"rollback"}, Goto(d, pc), told \subseteq told'
      PROVE  ToldFirst'
  <2>1. del'[d].pc # "rollback" /\ \A u \in Delivery \ {d} : del'[u] = del[u]
    BY <1>1, GotoMoves DEF IInv
  <2>2. QED BY <1>1, <2>1 DEF ToldFirst
<1>2. ASSUME NEW d \in Delivery, NEW e \in Event, NEW end \in Fates \ {"lost"},
             fate' = [fate EXCEPT ![e] = end]
      PROVE  NothingLost'
  BY <1>0, <1>2 DEF NothingLost
<1>3. ASSUME fate' = fate PROVE NothingLost'
  BY <1>3 DEF NothingLost
<1>4. ASSUME NEW d \in Delivery, Notify(d) PROVE NothingLost' /\ ToldFirst'
  <2>1. told' = told \cup {del[d].event} /\ Goto(d, "rollback") /\ fate' = fate
    BY <1>0, <1>4 DEF Notify, Tell
  <2>2. del'[d].event = del[d].event /\ \A u \in Delivery \ {d} : del'[u] = del[u]
    BY <2>1, GotoMoves DEF IInv, PC
  <2>3. QED BY <1>3, <2>1, <2>2 DEF ToldFirst
<1>5. ASSUME NEW d \in Delivery, Rollback(d) \/ Mark(d) \/ Post(d) \/ Fail(d)
      PROVE  NothingLost' /\ ToldFirst'
  <2>1. PICK e \in Event : del[d].event = e
    BY <1>5, UnderWay DEF Rollback, Mark, Post, Fail
  <2>2. \E pc \in PC \ {"rollback"} : Goto(d, pc)
    BY <1>5 DEF Rollback, Mark, Post, Fail, Ends, PC
  <2>3. told \subseteq told'
    BY <1>5 DEF Rollback, Mark, Post, Fail, Tell
  <2>4. fate' = fate \/ \E end \in Fates \ {"lost"} : fate' = [fate EXCEPT ![e] = end]
    <3>1. CASE Rollback(d)
      <4>1. e \in told
        BY <2>1, <3>1 DEF Rollback, ToldFirst
      <4>2. QED BY <2>1, <3>1, <4>1 DEF Rollback, Fates
    <3>2. CASE Mark(d)
      <4>1. ~del[d].quiet => log[e] = "accepted"
        BY <2>1, <3>2, MarkSwallowsNothing DEF Mark, MarkNeverSwallows
      <4>2. QED BY <2>1, <3>2, <4>1 DEF Mark, Ends, Fates
    <3>3. CASE Post(d)
      BY <2>1, <3>3 DEF Post, Ends, Fates
    <3>4. CASE Fail(d)
      <4>1. e \in told'
        BY <1>0, <2>1, <3>4 DEF Fail, Tell
      <4>2. QED BY <2>1, <3>4, <4>1 DEF Fail, Ends, Fates
    <3>5. QED BY <1>5, <3>1, <3>2, <3>3, <3>4
  <2>5. QED BY <1>1, <1>2, <1>3, <2>2, <2>3, <2>4
<1>6. ASSUME NEW d \in Delivery,
             \/ GateMention(d) \/ GateReply(d) \/ RecordReceived(d) \/ RecordActivity(d)
             \/ Dispatch(d) \/ RunFails(d) \/ Unmark(d)
      PROVE  NothingLost' /\ ToldFirst'
  <2>1. \E pc \in PC \ {"rollback"} : Goto(d, pc)
    BY <1>6 DEF GateMention, GateReply, RecordReceived, RecordActivity, Dispatch, RunFails, Unmark, PC
  <2>2. fate' = fate /\ told' = told
    BY <1>6 DEF GateMention, GateReply, RecordReceived, RecordActivity, Dispatch, RunFails, Unmark,
           history
  <2>3. QED BY <1>1, <1>3, <2>1, <2>2
<1>7. ASSUME NEW d \in Delivery, RunEnds(d) PROVE NothingLost' /\ ToldFirst'
  <2>1. fate' = fate /\ told' = told
    BY <1>7 DEF RunEnds, history
  <2>2. PICK resumed \in BOOLEAN, sent \in BOOLEAN :
          del' = [del EXCEPT ![d].pc = "mark",
                    ![d].quiet = IF resumed THEN sent ELSE del[d].event \in delegated]
    BY <1>7 DEF RunEnds
  <2>3. del'[d].pc # "rollback" /\ \A u \in Delivery \ {d} : del'[u] = del[u]
    BY <2>2, <1>0 DEF DeliveryState
  <2>4. QED BY <1>3, <2>1, <2>3 DEF ToldFirst
<1>8. ASSUME NEW d \in Delivery, NEW e \in Event, Deliver(d, e) PROVE NothingLost' /\ ToldFirst'
  <2>1. fate' = fate /\ told' = told
    BY <1>8 DEF Deliver, history
  <2>2. /\ \A u \in Delivery \ {d} : del'[u] = del[u]
        /\ del'[d].pc \in {"gate", "gated", "record"}
    BY <1>0, <1>8 DEF Deliver, DeliveryState
  <2>3. QED BY <1>3, <2>1, <2>2 DEF ToldFirst
<1>9. CASE \/ UNCHANGED vars \/ \E d \in Delivery : Delegate(d)
           \/ \E e \in Event : TaskMarks(e) \/ Prune(e)
  <2>1. fate' = fate /\ told' = told /\ del' = del
    BY <1>9 DEF vars, Delegate, TaskMarks, Prune, history
  <2>2. QED BY <1>3, <2>1 DEF ToldFirst
<1>10. ~Crash
  BY <1>0 DEF Crash
<1>11. QED
  BY <1>4, <1>5, <1>6, <1>7, <1>8, <1>9, <1>10 DEF Next, Step

\* Only two things make the bot ignore an event it has accepted: that the process
\* dies, or that Slack refuses the notice of the failure.  Whatever else fails,
\* and however often, every run ends in a response, a task at work on the event
\* or a notice (dispatcher.ts:256, post-final-response.ts, plugin.ts:426).
THEOREM NothingIsLost ==
  ASSUME {"crash", "notice"} \cap Faults = {}
  PROVE  Spec => []NothingLost
<1>1. Init => NothingLost /\ ToldFirst /\ MarkOK
  BY MarkOKFirst DEF Init, NothingLost, ToldFirst
<1>2. IInv /\ MarkOK /\ [Next]_vars => MarkOK'
  BY MarkOKKept
<1>3. IInv /\ MarkOK /\ NothingLost /\ ToldFirst /\ [Next]_vars => NothingLost' /\ ToldFirst'
  BY NothingLostKept
<1>4. QED BY <1>1, <1>2, <1>3, Invariant, PTL DEF Spec
=============================================================================
