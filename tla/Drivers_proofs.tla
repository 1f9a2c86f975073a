---- MODULE Drivers_proofs ----
(*****************************************************************************)
(* Proofs about the two drivers.  TwimDriver: for any number of threads a    *)
(* transfer starts only on a peripheral at rest and is answered once, to its *)
(* owner, truthfully, and when the buffers are free.  TofDriver: for any     *)
(* pool and any number of calls every buffer comes back, and no read and no  *)
(* reset is lost.                                                            *)
(*****************************************************************************)
EXTENDS TwimDriver, TofDriver, FiniteSetTheorems, FunctionTheorems, SequenceTheorems, TLAPS

\* the steps of a call from the acceptance to the start of the transfer
Calling == {"stop", "arm", "kick"}
\* the peripheral touches no buffer
Quiet == bus \in {"idle", "suspended"}

(* TwimDriver: the inductive invariant, of four parts for the two variants.  *)
\* where callers can be, whatever the variant
Positions ==
  /\ \A c \in Clients : pc[c] \in {"idle", "stop", "arm", "kick", "poll", "check"}
  /\ \A c \in Callers : pc[c] \in {"arm", "kick", "poll"} => op[c] # "stop"
  /\ ~on => bus = "idle" /\ \A c \in Callers : pc[c] = "idle"
  /\ "STOPPED" \in events => bus = "idle"

\* The blocking variant: one thread at a time is in transfer(), no interrupt is
\* enabled, and the peripheral moves only while that thread polls.
Polling ==
  blocking =>
    /\ ~busy /\ inten = {} /\ pc[Isr] = "idle"
    /\ \A c \in Clients : pc[c] # "arm"
    /\ \A c, d \in Clients : pc[c] # "idle" /\ pc[d] # "idle" => c = d
    /\ Quiet \/ \E c \in Clients : pc[c] = "poll"
    /\ \A c \in Clients : pc[c] = "poll" /\ exit = "SUSPENDED" /\ "SUSPENDED" \in events => bus = "suspended"

\* The variant with interrupts: busy_ keeps the others out, what has happened is
\* what an interrupt was enabled for, and whoever sets a transfer up or starts
\* one, a thread or a callback in the handler, is alone and finds the peripheral
\* at rest.
Preempting ==
  ~blocking =>
    /\ \A c \in Callers : pc[c] # "poll"
    /\ busy \/ Quiet
    /\ events \subseteq inten \/ (pc[Isr] = "kick" /\ events \subseteq {"STOPPED"})
    /\ \A c \in Callers : pc[c] \in Calling => busy /\ Quiet
    /\ \A c \in Clients : pc[c] \in Calling => events = {} /\ pc[Isr] = "idle"
    /\ \A c, d \in Callers : pc[c] \in Calling /\ pc[d] \in Calling => c = d
    /\ \A c \in Callers : pc[c] = "kick" => inten = {"ERROR", ExitEvent(op[c])}
    /\ pc[Isr] = "invoke" => Quiet
    /\ pc[Isr] = "recheck" => bus \in {"stopping", "idle"}
    /\ ~busy \/ pc[Isr] \in {"recheck", "invoke"} \cup Calling => events \subseteq {"STOPPED"}
    /\ "SUSPENDED" \in events => bus = "suspended"
    /\ "ERROR" \in events => bus \in {"refused", "stopping", "idle"}
    /\ ~Quiet => "ERROR" \in inten
    /\ bus = "stopping" => "STOPPED" \in inten
    /\ bus \in {"tx", "rx"} /\ shorts \cap {"LASTTX_STOP", "LASTRX_STOP"} # {} => "STOPPED" \in inten
    /\ bus \in {"tx", "rx"} /\ "LASTTX_SUSPEND" \in shorts => "SUSPENDED" \in inten

\* what the error source register says, and whom the answer went to
Source == IF truth = "ok" THEN {} ELSE {truth}
Faithful == answers = 1 /\ owner # NoOne => told = [to |-> owner, status |-> truth]

\* The answers of the blocking variant: one per accepted transfer, none before
\* the polling is over.
AnswersPolling ==
  blocking =>
    /\ ~failed /\ answers \in {0, 1} /\ Faithful
    /\ \A c \in Clients : pc[c] # "idle" => owner = c /\ answers = 0 /\ errorsrc = Source
    /\ (\A c \in Clients : pc[c] = "idle") => answers = 1 /\ errorsrc = {}
    /\ bus \in {"tx", "rx"} => truth = "ok"
    /\ \A c \in Clients : pc[c] \in {"stop", "kick"} => truth = "ok"

\* The answers of the variant with interrupts, as long as the program is prompt:
\* busy_ is cleared when the answer is given and a transfer on the bus has not
\* been answered yet.
AnswersPreempting ==
  ~blocking /\ prompt =>
    /\ ~failed /\ answers \in {0, 1} /\ Faithful
    /\ ~busy => answers = 1 /\ errorsrc = {}
    /\ ~Quiet \/ events # {} \/ pc[Isr] \in {"recheck", "invoke"}
         => busy /\ answers = 0 /\ active \in Callers /\ owner = active /\ errorsrc = Source
    /\ \A c \in Callers : pc[c] \in Calling => answers = 0 /\ owner = c /\ active = c /\ truth = "ok" /\ errorsrc = {}
    /\ bus \in {"tx", "rx"} => truth = "ok"
    /\ \A c \in Callers : pc[c] = "check" => errorsrc = {}
    /\ pc[Isr] # "idle" => events = {}
    /\ \A x, y \in events : x = y

TwimInv == TypeOK /\ Positions /\ Polling /\ Preempting /\ AnswersPolling /\ AnswersPreempting

-----------------------------------------------------------------------------
(* TwimDriver: every action keeps the invariant.                             *)
\* a step of one caller moves it to a label and leaves the others where they are
LEMMA GotoAt ==
  ASSUME pc \in [Callers -> Labels], NEW c \in Callers, NEW l \in Labels, Goto(c, l)
  PROVE  pc' \in [Callers -> Labels] /\ pc'[c] = l /\ \A d \in Callers : d # c => pc'[d] = pc[d]
  BY DEF Goto

LEMMA CallerFacts ==
  /\ Isr \in Callers /\ Isr \notin Clients /\ Clients \subseteq Callers /\ NoOne \notin Callers
  /\ \A c \in Callers : c \in Clients \/ c = Isr
  BY CallersAssumption DEF Callers

LEMMA BusSentKeeps == TwimInv /\ BusSent => TwimInv'
<1> SUFFICES ASSUME TwimInv, BusSent PROVE TwimInv' OBVIOUS
<1> USE DEF mode, driver, accepted, replies
<1>0. /\ BusGoesOn /\ bus = "tx"
      /\ UNCHANGED <<blocking, prompt, on, busy, active, failed, pc, op, exit, shorts, errorsrc, inten,
                     owner, truth, answers, told>>
  BY DEF BusSent
<1>00. \/ "LASTTX_STOP" \in shorts /\ bus' = "stopping" /\ events' = events
       \/ "LASTTX_STARTRX" \in shorts /\ bus' = "rx" /\ events' = events
       \/ "LASTTX_SUSPEND" \in shorts /\ bus' = "suspended" /\ events' = events \cup {"SUSPENDED"}
  BY DEF BusSent
<1>1. TypeOK'
  <2>1. TypeOK BY DEF TwimInv
  <2>2. events' \subseteq Events /\ bus' \in {"stopping", "rx", "suspended"}
    BY <1>00, <2>1 DEF TypeOK, Events
  <2>. QED BY <1>0, <2>1, <2>2 DEF TypeOK
<1>2. Positions' BY <1>0, <1>00 DEF TwimInv, TypeOK, Positions
<1>3. Polling' BY <1>0, <1>00, CallerFacts DEF TwimInv, TypeOK, Positions, Polling, Quiet
<1>4. Preempting'
  <2>1. CASE blocking BY <1>0, <2>1 DEF Preempting
  <2>2. CASE ~blocking
    <3>1. Positions /\ Preempting /\ ~Quiet BY <1>0 DEF TwimInv, Quiet
    <3>2. pc[Isr] \notin {"recheck", "invoke"} \cup Calling /\ busy /\ "ERROR" \in inten
      BY <1>0, <2>2, <3>1, CallerFacts DEF Preempting, Quiet
    <3>3. \A c \in Callers : pc[c] \notin Calling BY <2>2, <3>1, CallerFacts DEF Preempting
    <3>4. events' \subseteq inten' BY <1>0, <1>00, <2>2, <3>1, <3>2 DEF Preempting, Calling
    <3>5. "SUSPENDED" \notin events /\ "ERROR" \notin events BY <1>0, <2>2, <3>1 DEF Preempting
    <3>6. bus' = "stopping" => "STOPPED" \in inten' BY <1>0, <1>00, <2>2, <3>1 DEF Preempting
    <3>. QED BY <1>0, <1>00, <2>2, <3>1, <3>2, <3>3, <3>4, <3>5, <3>6, CallerFacts
             DEF Preempting, Quiet, Calling
  <2>. QED BY <2>1, <2>2
<1>5. AnswersPolling' BY <1>0, <1>00 DEF TwimInv, AnswersPolling, Faithful, Source
<1>6. AnswersPreempting'
  <2>1. CASE blocking \/ ~prompt BY <1>0, <2>1 DEF AnswersPreempting
  <2>2. CASE ~blocking /\ prompt
    <3>1. Positions /\ Preempting /\ AnswersPreempting /\ TypeOK /\ ~Quiet BY <1>0 DEF TwimInv, Quiet
    <3>2. on /\ pc[Isr] = "idle" /\ ~Pending BY <1>0, <2>2, <3>1 DEF BusGoesOn, Positions
    <3>3. events = {} BY <2>2, <3>1, <3>2 DEF Pending, Preempting
    <3>. QED BY <1>0, <1>00, <2>2, <3>1, <3>2, <3>3 DEF AnswersPreempting, Faithful, Source, Quiet
  <2>. QED BY <2>1, <2>2
<1>. QED BY <1>1, <1>2, <1>3, <1>4, <1>5, <1>6 DEF TwimInv

LEMMA BusReceivedKeeps == TwimInv /\ BusReceived => TwimInv'
<1> SUFFICES ASSUME TwimInv, BusReceived PROVE TwimInv' OBVIOUS
<1> USE DEF BusReceived, mode, driver, accepted, replies
<1>1. TypeOK' BY DEF TwimInv, TypeOK
<1>2. Positions' BY DEF TwimInv, TypeOK, Positions
<1>3. Polling' BY CallerFacts DEF TwimInv, TypeOK, Positions, Polling, Quiet
<1>4. Preempting' BY CallerFacts DEF TwimInv, TypeOK, Positions, Preempting, Quiet, Calling, Events
<1>5. AnswersPolling' BY DEF TwimInv, AnswersPolling, Faithful, Source
<1>6. AnswersPreempting'
  BY CallerFacts DEF TwimInv, TypeOK, Positions, Preempting, AnswersPreempting, BusGoesOn, Pending,
                     Quiet, Calling, Faithful, Source, Statuses
<1>. QED BY <1>1, <1>2, <1>3, <1>4, <1>5, <1>6 DEF TwimInv

LEMMA BusRefusedKeeps == TwimInv /\ BusRefused => TwimInv'
<1> SUFFICES ASSUME TwimInv, BusRefused PROVE TwimInv' OBVIOUS
<1> USE DEF mode, driver, accepted, replies
<1>0. PICK nack \in {"addrNACK", "dataNACK"} :
        /\ nack = "dataNACK" => bus = "tx"
        /\ errorsrc' = errorsrc \cup {nack} /\ truth' = nack
        /\ bus' = "refused" \/ (bus' = "stopping" /\ bus = "tx" /\ "LASTTX_STOP" \in shorts)
  BY DEF BusRefused
<1>00. /\ BusGoesOn /\ bus \in {"tx", "rx"} /\ events' = events \cup {"ERROR"}
       /\ UNCHANGED <<blocking, prompt, on, busy, active, failed, pc, op, exit, shorts, inten,
                      owner, answers, told>>
  BY DEF BusRefused
<1>1. TypeOK' BY <1>0, <1>00 DEF TwimInv, TypeOK, Events, Statuses
<1>2. Positions' BY <1>0, <1>00 DEF TwimInv, TypeOK, Positions
<1>3. Polling' BY <1>0, <1>00 DEF TwimInv, Positions, Polling, Quiet
<1>4. Preempting'
  <2>1. CASE blocking BY <1>00, <2>1 DEF Preempting
  <2>2. CASE ~blocking
    <3>1. Positions /\ Preempting /\ ~Quiet BY <1>00 DEF TwimInv, Quiet
    <3>2. pc[Isr] \notin {"recheck", "invoke"} \cup Calling /\ busy /\ "ERROR" \in inten
      BY <1>00, <2>2, <3>1, CallerFacts DEF Preempting, Quiet
    <3>3. \A c \in Callers : pc[c] \notin Calling BY <2>2, <3>1, CallerFacts DEF Preempting
    <3>4. events' \subseteq inten' BY <1>00, <2>2, <3>1, <3>2 DEF Preempting, Calling
    <3>5. "SUSPENDED" \notin events' BY <1>00, <2>2, <3>1 DEF Preempting, Quiet
    <3>6. bus' = "stopping" => "STOPPED" \in inten' BY <1>0, <1>00, <2>2, <3>1 DEF Preempting
    <3>. QED BY <1>0, <1>00, <2>2, <3>1, <3>2, <3>3, <3>4, <3>5, <3>6, CallerFacts
             DEF Preempting, Quiet, Calling
  <2>. QED BY <2>1, <2>2
<1>5. AnswersPolling'
  <2>1. blocking => (\E c \in Clients : pc[c] = "poll") /\ errorsrc = {}
    BY <1>00 DEF TwimInv, Polling, AnswersPolling, Quiet, Source
  <2>. QED BY <1>0, <1>00, <2>1 DEF TwimInv, Polling, AnswersPolling, Faithful, Source
<1>6. AnswersPreempting'
  <2>1. CASE blocking \/ ~prompt BY <1>00, <2>1 DEF AnswersPreempting
  <2>2. CASE ~blocking /\ prompt
    <3>1. Positions /\ Preempting /\ AnswersPreempting /\ TypeOK /\ ~Quiet BY <1>00 DEF TwimInv, Quiet
    <3>2. on /\ \A c \in Callers : pc[c] \notin Calling \cup {"check"}
      BY <1>00, <2>2, <3>1, CallerFacts DEF BusGoesOn, Positions, Calling
    <3>3. events = {} /\ errorsrc = {} /\ pc[Isr] = "idle"
      BY <1>00, <2>2, <3>1, <3>2 DEF BusGoesOn, Pending, Preempting, AnswersPreempting, Source, Quiet
    <3>. QED BY <1>0, <1>00, <2>2, <3>1, <3>2, <3>3 DEF AnswersPreempting, Faithful, Source
  <2>. QED BY <2>1, <2>2
<1>. QED BY <1>1, <1>2, <1>3, <1>4, <1>5, <1>6 DEF TwimInv

LEMMA BusStoppedKeeps == TwimInv /\ BusStopped => TwimInv'
<1> SUFFICES ASSUME TwimInv, BusStopped PROVE TwimInv' OBVIOUS
<1> USE DEF BusStopped, mode, driver, accepted, replies
<1>1. TypeOK' BY DEF TwimInv, TypeOK, Events
<1>2. Positions' BY DEF TwimInv, TypeOK, Positions
<1>3. Polling' BY CallerFacts DEF TwimInv, TypeOK, Positions, Polling, Quiet
<1>4. Preempting' BY CallerFacts DEF TwimInv, TypeOK, Positions, Preempting, Quiet, Calling, Events
<1>5. AnswersPolling' BY DEF TwimInv, AnswersPolling, Faithful, Source
<1>6. AnswersPreempting'
  BY CallerFacts DEF TwimInv, TypeOK, Positions, Preempting, AnswersPreempting, BusGoesOn, Pending,
                     Quiet, Calling, Faithful, Source
<1>. QED BY <1>1, <1>2, <1>3, <1>4, <1>5, <1>6 DEF TwimInv

LEMMA CallKeeps == TwimInv /\ (\E c \in Callers, k \in Ops : Call(c, k)) => TwimInv'
<1> SUFFICES ASSUME TwimInv, NEW c \in Callers, NEW k \in Ops, Call(c, k) PROVE TwimInv' OBVIOUS
<1> USE DEF mode, chip, replies
<1>0. /\ Runs(c) /\ on /\ pc[c] = Home(c) /\ ~busy /\ Goto(c, First(k))
      /\ blocking => \A d \in Clients : pc[d] = "idle"
      /\ owner' = c /\ truth' = "ok" /\ answers' = 0
      /\ busy' = ~blocking /\ active' = IF blocking THEN active ELSE c
      /\ op' = [op EXCEPT ![c] = k]
      /\ UNCHANGED <<blocking, prompt, on, failed, exit, bus, shorts, events, errorsrc, inten, told>>
  BY DEF Call, Accept
<1>2. /\ TypeOK /\ Positions /\ Polling /\ Preempting /\ AnswersPolling /\ AnswersPreempting
      /\ blocking \in BOOLEAN /\ pc \in [Callers -> Labels] /\ op \in [Callers -> Ops]
  BY DEF TwimInv, TypeOK
<1>3. PICK l \in {"stop", "arm", "kick"} :
        /\ Goto(c, l) /\ (l = "kick" => blocking) /\ (l = "arm" => ~blocking) /\ (k = "stop" <=> l = "stop")
  BY <1>0 DEF First
<1>4. pc' \in [Callers -> Labels] /\ pc'[c] = l /\ \A d \in Callers : d # c => pc'[d] = pc[d]
  BY <1>2, <1>3, GotoAt DEF Labels
<1>5. op' \in [Callers -> Ops] /\ op'[c] = k /\ \A d \in Callers : d # c => op'[d] = op[d]
  BY <1>0, <1>2
<1>6. TypeOK'
  <2>1. busy' \in BOOLEAN /\ active' \in Callers \cup {NoOne} BY <1>0, <1>2 DEF TypeOK
  <2>. QED BY <1>0, <1>2, <1>4, <1>5, <2>1 DEF TypeOK, Statuses
<1>7. blocking => c \in Clients /\ pc[Isr] = "idle"
  BY <1>0, <1>2, CallerFacts DEF Polling, Home
<1>8. ~blocking => /\ bus \in {"idle", "suspended"} /\ events \subseteq {"STOPPED"}
                   /\ \A d \in Callers : pc[d] \notin Calling
  BY <1>0, <1>2 DEF Preempting, Quiet
<1>9. ~blocking /\ c \in Clients => events = {} /\ pc[Isr] = "idle"
  BY <1>0, <1>2, CallerFacts DEF Preempting, Runs, Pending
<1>10. Positions' BY <1>0, <1>2, <1>3, <1>4, <1>5, <1>7, CallerFacts DEF Positions, Home
<1>11. Polling' BY <1>0, <1>2, <1>3, <1>4, <1>7, CallerFacts DEF Polling, Quiet
<1>12. Preempting'
  <2>1. CASE blocking BY <1>0, <2>1 DEF Preempting
  <2>2. CASE ~blocking
    <3>1. l \in {"stop", "arm"} BY <1>3, <2>2
    <3>2. c \notin Clients => c = Isr BY CallerFacts
    <3>3. \A d \in Clients : pc'[d] \in Calling => d = c
      BY <1>4, <1>8, <2>2, CallerFacts
    <3>4. \A d \in Callers : pc'[d] \in Calling => d = c
      BY <1>4, <1>8, <2>2, CallerFacts
    <3>5. events \subseteq inten BY <1>0, <1>2, <2>2, <1>9, CallerFacts DEF Preempting, Home
    <3>. QED BY <1>0, <1>2, <1>4, <1>8, <1>9, <2>2, <3>1, <3>2, <3>3, <3>4, <3>5, CallerFacts
             DEF Preempting, Quiet, Calling, Home
  <2>. QED BY <2>1, <2>2
<1>13. AnswersPolling'
  BY <1>0, <1>2, <1>4, <1>7, CallerFacts DEF AnswersPolling, Polling, Faithful, Source, Quiet
<1>14. AnswersPreempting'
  <2>1. CASE blocking \/ ~prompt BY <1>0, <2>1 DEF AnswersPreempting
  <2>2. CASE ~blocking /\ prompt
    <3>1. events = {} /\ errorsrc = {}
      BY <1>0, <1>2, <1>9, <2>2, CallerFacts DEF AnswersPreempting, Home
    <3>2. \A d \in Callers : pc'[d] \in Calling => d = c BY <1>4, <1>8, <2>2
    <3>3. pc'[Isr] \notin {"recheck", "invoke"}
      BY <1>0, <1>3, <1>4, <1>9, <2>2, CallerFacts
    <3>4. busy' /\ active' = c BY <1>0, <2>2
    <3>5. \A d \in Callers : pc'[d] = "check" => errorsrc' = {} BY <1>0, <3>1
    <3>. QED BY <1>0, <1>2, <1>8, <2>2, <3>1, <3>2, <3>3, <3>4, <3>5 DEF AnswersPreempting, Faithful, Quiet
  <2>. QED BY <2>1, <2>2
<1>. QED BY <1>6, <1>10, <1>11, <1>12, <1>13, <1>14 DEF TwimInv

LEMMA StopConditionKeeps == TwimInv /\ (\E c \in Callers : StopCondition(c)) => TwimInv'
<1> SUFFICES ASSUME TwimInv, NEW c \in Callers, StopCondition(c) PROVE TwimInv' OBVIOUS
<1> USE DEF mode, driver, accepted
<1>0. /\ Runs(c) /\ pc[c] = "stop" /\ bus' = Stop(bus) /\ Goto(c, Home(c))
      /\ answers' = IF answers = 2 THEN 2 ELSE answers + 1
      /\ told' = [to |-> c, status |-> "ok"]
      /\ UNCHANGED <<blocking, prompt, on, busy, active, failed, op, exit, shorts, events, errorsrc,
                     inten, owner, truth>>
  BY DEF StopCondition, Answer
<1>2. /\ TypeOK /\ Positions /\ Polling /\ Preempting /\ AnswersPolling /\ AnswersPreempting
      /\ blocking \in BOOLEAN /\ pc \in [Callers -> Labels]
  BY DEF TwimInv, TypeOK
<1>3. PICK l \in {"idle", "callback"} : l = Home(c) BY DEF Home
<1>4. pc' \in [Callers -> Labels] /\ pc'[c] = l /\ \A d \in Callers : d # c => pc'[d] = pc[d]
  BY <1>0, <1>2, <1>3, GotoAt DEF Labels
<1>5. (c \in Clients => l = "idle") /\ (c = Isr => l = "callback")
  BY <1>3, CallerFacts DEF Home
<1>6. blocking => c \in Clients BY <1>0, <1>2, CallerFacts DEF Polling
<1>7. Quiet /\ bus' = bus
  <2>1. Quiet
    <3>1. blocking => \A d \in Clients : pc[d] # "poll" BY <1>0, <1>2, <1>6 DEF Polling
    <3>. QED BY <1>0, <1>2, <3>1 DEF Polling, Preempting, Calling
  <2>. QED BY <1>0, <2>1 DEF Quiet, Stop
<1>8. TypeOK' BY <1>0, <1>2, <1>4, <1>7 DEF TypeOK, Statuses
<1>9. Positions' BY <1>0, <1>2, <1>4, <1>5, <1>7, CallerFacts DEF Positions
<1>10. Polling' BY <1>0, <1>2, <1>4, <1>5, <1>6, <1>7, CallerFacts DEF Polling, Quiet
<1>11. Preempting'
  BY <1>0, <1>2, <1>4, <1>5, <1>7, CallerFacts DEF Preempting, Quiet, Calling
<1>12. AnswersPolling'
  <2>1. blocking => /\ owner = c /\ answers = 0 /\ truth = "ok" /\ errorsrc = {}
                    /\ \A d \in Clients : pc'[d] = "idle"
    BY <1>0, <1>2, <1>4, <1>5, <1>6, CallerFacts DEF AnswersPolling, Polling, Source
  <2>. QED BY <1>0, <1>2, <1>7, <2>1 DEF AnswersPolling, Faithful, Quiet
<1>13. AnswersPreempting'
  <2>1. CASE blocking \/ ~prompt BY <1>0, <2>1 DEF AnswersPreempting
  <2>2. CASE ~blocking /\ prompt
    <3>1. /\ owner = c /\ answers = 0 /\ truth = "ok" /\ errorsrc = {} /\ events = {}
          /\ pc[Isr] \notin {"recheck", "invoke"} /\ busy
          /\ \A d \in Callers : pc[d] \in Calling => d = c
      BY <1>0, <1>2, <2>2, CallerFacts DEF AnswersPreempting, Preempting, Calling
    <3>2. pc'[Isr] \notin {"recheck", "invoke"} BY <1>3, <1>4, <3>1, CallerFacts
    <3>3. \A d \in Callers : pc'[d] \notin Calling BY <1>3, <1>4, <3>1 DEF Calling
    <3>. QED BY <1>0, <1>2, <1>3, <1>4, <1>7, <2>2, <3>1, <3>2, <3>3 DEF AnswersPreempting, Faithful, Quiet
  <2>. QED BY <2>1, <2>2
<1>. QED BY <1>8, <1>9, <1>10, <1>11, <1>12, <1>13 DEF TwimInv

LEMMA ArmKeeps == TwimInv /\ (\E c \in Callers : Arm(c)) => TwimInv'
<1> SUFFICES ASSUME TwimInv, NEW c \in Callers, Arm(c) PROVE TwimInv' OBVIOUS
<1> USE DEF mode, driver, accepted, replies
<1>0. /\ Runs(c) /\ pc[c] = "arm" /\ Goto(c, "kick") /\ inten' = {"ERROR", ExitEvent(op[c])}
      /\ UNCHANGED <<blocking, prompt, on, busy, active, failed, op, exit, bus, shorts, events, errorsrc,
                     owner, truth, answers, told>>
  BY DEF Arm
<1>2. /\ TypeOK /\ Positions /\ Polling /\ Preempting /\ AnswersPolling /\ AnswersPreempting
      /\ blocking \in BOOLEAN /\ pc \in [Callers -> Labels]
  BY DEF TwimInv, TypeOK
<1>4. pc' \in [Callers -> Labels] /\ pc'[c] = "kick" /\ \A d \in Callers : d # c => pc'[d] = pc[d]
  BY <1>0, <1>2, GotoAt DEF Labels
<1>5. ~blocking
  <2>1. blocking => c \in Clients BY <1>0, <1>2, CallerFacts DEF Polling
  <2>. QED BY <1>0, <1>2, <2>1 DEF Polling
<1>6. TypeOK' BY <1>0, <1>2, <1>4 DEF TypeOK, ExitEvent, Events
<1>7. Positions' BY <1>0, <1>2, <1>4, CallerFacts DEF Positions
<1>8. Polling' BY <1>0, <1>5 DEF Polling
<1>9. Preempting'
  <2>1. Quiet /\ busy /\ \A d \in Callers : pc[d] \in Calling => d = c
    BY <1>0, <1>2, <1>5 DEF Preempting, Calling
  <2>2. \A d \in Callers : pc'[d] \in Calling => d = c BY <1>4, <2>1
  <2>3. c \in Clients => events = {} /\ pc[Isr] = "idle" BY <1>0, <1>2, <1>5 DEF Preempting, Calling
  <2>4. c = Isr => events \subseteq {"STOPPED"} BY <1>0, <1>2, <1>5 DEF Preempting, Calling
  <2>5. op'[c] = op[c] /\ inten' = {"ERROR", ExitEvent(op'[c])} BY <1>0
  <2>6. pc'[Isr] \notin {"recheck", "invoke"} BY <1>0, <1>4, <2>3, CallerFacts
  <2>. QED BY <1>0, <1>2, <1>4, <1>5, <2>1, <2>2, <2>3, <2>4, <2>5, <2>6, CallerFacts
           DEF Preempting, Quiet, Calling
<1>10. AnswersPolling' BY <1>0, <1>5 DEF AnswersPolling
<1>11. AnswersPreempting'
  BY <1>0, <1>2, <1>4, <1>5, CallerFacts DEF AnswersPreempting, Faithful, Source, Quiet, Calling
<1>. QED BY <1>6, <1>7, <1>8, <1>9, <1>10, <1>11 DEF TwimInv

LEMMA KickKeeps == TwimInv /\ (\E c \in Callers : Kick(c)) => TwimInv'
<1> SUFFICES ASSUME TwimInv, NEW c \in Callers, Kick(c) PROVE TwimInv' OBVIOUS
<1> USE DEF mode, driver, accepted, replies
<1>0. /\ Runs(c) /\ pc[c] = "kick" /\ Goto(c, IF blocking THEN "poll" ELSE "check")
      /\ events' = events \ {"STOPPED", "ERROR", ExitEvent(op[c])}
      /\ shorts' = Shortcuts(op[c])
      /\ bus' = IF op[c] = "read" THEN "rx" ELSE "tx"
      /\ exit' = IF blocking THEN ExitEvent(op[c]) ELSE exit
      /\ UNCHANGED <<blocking, prompt, on, busy, active, failed, op, errorsrc, inten,
                     owner, truth, answers, told>>
  BY DEF Kick
<1>2. /\ TypeOK /\ Positions /\ Polling /\ Preempting /\ AnswersPolling /\ AnswersPreempting
      /\ blocking \in BOOLEAN /\ pc \in [Callers -> Labels]
  BY DEF TwimInv, TypeOK
<1>3. /\ op[c] \in {"write", "writeNoStop", "read", "writeRead"}
      /\ shorts' \subseteq {"LASTTX_STOP", "LASTTX_SUSPEND", "LASTTX_STARTRX", "LASTRX_STOP"}
      /\ "LASTTX_SUSPEND" \in shorts' => ExitEvent(op[c]) = "SUSPENDED"
      /\ shorts' \cap {"LASTTX_STOP", "LASTRX_STOP"} # {} => ExitEvent(op[c]) = "STOPPED"
  <2>1. op[c] \in {"write", "writeNoStop", "read", "writeRead"}
    BY <1>0, <1>2 DEF TypeOK, Ops, Positions
  <2>. QED BY <1>0, <2>1 DEF Shortcuts, ExitEvent
<1>4. PICK l \in {"poll", "check"} : l = IF blocking THEN "poll" ELSE "check" OBVIOUS
<1>5. pc' \in [Callers -> Labels] /\ pc'[c] = l /\ \A d \in Callers : d # c => pc'[d] = pc[d]
  BY <1>0, <1>2, <1>4, GotoAt DEF Labels
<1>6. TypeOK'
  <2>1. bus' \in {"tx", "rx"} /\ exit' \in {"STOPPED", "SUSPENDED"} /\ events' \subseteq Events
    BY <1>0, <1>2 DEF TypeOK, ExitEvent
  <2>. QED BY <1>0, <1>2, <1>3, <1>5, <2>1 DEF TypeOK
<1>7. /\ bus' \in {"tx", "rx"} /\ "STOPPED" \notin events' /\ "ERROR" \notin events'
      /\ ExitEvent(op[c]) \notin events' /\ events' \subseteq events
  BY <1>0
<1>8. blocking => c \in Clients BY <1>0, <1>2, CallerFacts DEF Polling
<1>9. Positions'
  <2>1. on BY <1>0, <1>2 DEF Positions
  <2>. QED BY <1>0, <1>2, <1>3, <1>4, <1>5, <1>7, <2>1, CallerFacts DEF Positions
<1>10. Polling'
  <2>1. CASE ~blocking BY <1>0, <2>1 DEF Polling
  <2>2. CASE blocking
    <3>1. /\ c \in Clients /\ pc'[c] = "poll" /\ \A d \in Clients : d # c => pc'[d] = "idle"
      BY <1>0, <1>2, <1>4, <1>5, <1>8, <2>2, CallerFacts DEF Polling
    <3>2. ~(exit' = "SUSPENDED" /\ "SUSPENDED" \in events') BY <1>0, <1>7, <2>2
    <3>3. pc'[Isr] = "idle" BY <1>2, <1>5, <2>2, <3>1, CallerFacts DEF Polling
    <3>. QED BY <1>0, <1>2, <2>2, <3>1, <3>2, <3>3 DEF Polling
  <2>. QED BY <2>1, <2>2
<1>11. Preempting'
  <2>1. CASE blocking BY <1>0, <2>1 DEF Preempting
  <2>2. CASE ~blocking
    <3>1. l = "check" BY <1>4, <2>2
    <3>2. /\ busy /\ inten = {"ERROR", ExitEvent(op[c])} /\ events' = {}
          /\ \A d \in Callers : pc[d] \in Calling => d = c
      BY <1>0, <1>2, <2>2, CallerFacts DEF Preempting, Calling
    <3>3. \A d \in Callers : pc'[d] \notin Calling BY <1>5, <3>1, <3>2 DEF Calling
    <3>4. pc'[Isr] \notin {"recheck", "invoke", "kick"}
      <4>1. CASE c = Isr BY <1>5, <3>1, <4>1
      <4>2. CASE c \in Clients
        <5>1. pc[Isr] = "idle" BY <1>0, <1>2, <2>2, <4>2 DEF Preempting, Calling
        <5>. QED BY <1>5, <4>2, <5>1, CallerFacts
      <4>. QED BY <4>1, <4>2, CallerFacts
    <3>5. \A d \in Callers : pc'[d] # "poll" BY <1>2, <1>5, <2>2, <3>1 DEF Preempting
    <3>. QED BY <1>0, <1>3, <1>7, <2>2, <3>2, <3>3, <3>4, <3>5, CallerFacts DEF Preempting, Calling, Quiet
  <2>. QED BY <2>1, <2>2
<1>12. AnswersPolling'
  BY <1>0, <1>2, <1>4, <1>5, <1>8, CallerFacts DEF AnswersPolling, Polling, Faithful, Source
<1>13. AnswersPreempting'
  <2>1. CASE blocking \/ ~prompt BY <1>0, <2>1 DEF AnswersPreempting
  <2>2. CASE ~blocking /\ prompt
    <3>1. /\ busy /\ answers = 0 /\ owner = c /\ active = c /\ truth = "ok" /\ errorsrc = {}
          /\ \A d \in Callers : pc[d] \in Calling => d = c
      BY <1>0, <1>2, <2>2 DEF AnswersPreempting, Preempting, Calling
    <3>2. \A d \in Callers : pc'[d] \notin Calling BY <1>4, <1>5, <2>2, <3>1 DEF Calling
    <3>3. events' = {} BY <1>0, <1>2, <1>7, <2>2, CallerFacts DEF Preempting, Calling
    <3>4. errorsrc' = Source' BY <1>0, <3>1 DEF Source
    <3>. QED BY <1>0, <1>2, <1>7, <2>2, <3>1, <3>2, <3>3, <3>4 DEF AnswersPreempting, Faithful
  <2>. QED BY <2>1, <2>2
<1>. QED BY <1>6, <1>9, <1>10, <1>11, <1>12, <1>13 DEF TwimInv

LEMMA PollKeeps == TwimInv /\ (\E c \in Callers : Poll(c)) => TwimInv'
<1> SUFFICES ASSUME TwimInv, NEW c \in Callers, Poll(c) PROVE TwimInv' OBVIOUS
<1> USE DEF mode, driver, accepted, replies
<1>0. /\ Runs(c) /\ pc[c] = "poll"
      /\ UNCHANGED <<blocking, prompt, on, busy, active, failed, op, shorts, errorsrc, inten,
                     owner, truth, answers, told>>
  BY DEF Poll
<1>2. /\ TypeOK /\ Positions /\ Polling /\ Preempting /\ AnswersPolling /\ AnswersPreempting
      /\ blocking \in BOOLEAN /\ pc \in [Callers -> Labels]
  BY DEF TwimInv, TypeOK
<1>3. blocking /\ c \in Clients /\ pc[Isr] = "idle" /\ \A d \in Clients : d # c => pc[d] = "idle"
  BY <1>0, <1>2, CallerFacts DEF Preempting, Polling
<1>4. Preempting' /\ AnswersPreempting' BY <1>0, <1>3 DEF Preempting, AnswersPreempting
<1>5. CASE exit \in events /\ Goto(c, "check") /\ UNCHANGED <<exit, bus, events>>
  <2>1. pc' \in [Callers -> Labels] /\ pc'[c] = "check" /\ \A d \in Callers : d # c => pc'[d] = pc[d]
    BY <1>2, <1>5, GotoAt DEF Labels
  <2>2. Quiet BY <1>0, <1>2, <1>3, <1>5 DEF TypeOK, Positions, Polling, Quiet
  <2>3. TypeOK' BY <1>0, <1>2, <1>5, <2>1 DEF TypeOK
  <2>4. Positions' BY <1>0, <1>2, <1>5, <2>1, CallerFacts DEF Positions
  <2>5. Polling' BY <1>0, <1>2, <1>3, <1>5, <2>1, <2>2, CallerFacts DEF Polling, Quiet
  <2>6. AnswersPolling'
    BY <1>0, <1>2, <1>3, <1>5, <2>1, CallerFacts DEF AnswersPolling, Faithful, Source
  <2>. QED BY <1>4, <2>3, <2>4, <2>5, <2>6 DEF TwimInv
<1>6. CASE "ERROR" \in events /\ HandleError /\ exit' = "STOPPED" /\ pc' = pc
  <2>1. events' \subseteq events BY <1>6 DEF HandleError
  <2>2. /\ bus' = bus \/ bus' = Stop(Resume(bus))
        /\ "STOPPED" \in events => bus' = bus
    BY <1>6 DEF HandleError
  <2>3. bus' \in {"idle", "stopping"} \/ bus' = bus
    BY <1>2, <2>2 DEF Stop, Resume, TypeOK
  <2>4. TypeOK' BY <1>0, <1>2, <1>6, <2>1, <2>3 DEF TypeOK
  <2>5. Positions'
    <3>1. on /\ ("STOPPED" \in events' => bus' = "idle")
      BY <1>0, <1>2, <2>1, <2>2 DEF Positions
    <3>. QED BY <1>0, <1>2, <1>6, <3>1 DEF Positions
  <2>6. Polling' BY <1>0, <1>2, <1>3, <1>6 DEF Polling
  <2>7. AnswersPolling' BY <1>0, <1>2, <1>6, <2>3 DEF AnswersPolling, Faithful, Source
  <2>. QED BY <1>4, <2>4, <2>5, <2>6, <2>7 DEF TwimInv
<1>. QED BY <1>5, <1>6 DEF Poll

LEMMA CheckKeeps == TwimInv /\ (\E c \in Callers : Check(c)) => TwimInv'
<1> SUFFICES ASSUME TwimInv, NEW c \in Callers, Check(c) PROVE TwimInv' OBVIOUS
<1> USE DEF mode, driver, accepted
<1>0. /\ Runs(c) /\ pc[c] = "check" /\ Goto(c, Home(c)) /\ errorsrc' = {}
      /\ UNCHANGED <<blocking, prompt, on, busy, active, failed, op, exit, bus, shorts, events,
                     inten, owner, truth>>
  BY DEF Check
<1>1. \/ ~blocking /\ Converted = "ok" /\ answers' = answers /\ told' = told
      \/ /\ blocking \/ Converted # "ok"
         /\ answers' = IF answers = 2 THEN 2 ELSE answers + 1
         /\ told' = [to |-> c, status |-> Converted]
  BY DEF Check, Answer, replies
<1>2. /\ TypeOK /\ Positions /\ Polling /\ Preempting /\ AnswersPolling /\ AnswersPreempting
      /\ blocking \in BOOLEAN /\ pc \in [Callers -> Labels]
  BY DEF TwimInv, TypeOK
<1>3. PICK l \in {"idle", "callback"} : l = Home(c) BY DEF Home
<1>4. pc' \in [Callers -> Labels] /\ pc'[c] = l /\ \A d \in Callers : d # c => pc'[d] = pc[d]
  BY <1>0, <1>2, <1>3, GotoAt DEF Labels
<1>5. (c \in Clients => l = "idle") /\ (c = Isr => l = "callback")
  BY <1>3, CallerFacts DEF Home
<1>6. TypeOK'
  <2>1. answers' \in 0 .. 2 /\ told' \in [to : Callers \cup {NoOne}, status : Statuses]
    BY <1>1, <1>2 DEF TypeOK, Statuses, Converted
  <2>. QED BY <1>0, <1>2, <1>4, <2>1 DEF TypeOK
<1>7. Positions' BY <1>0, <1>2, <1>4, <1>5, CallerFacts DEF Positions
<1>8. blocking => /\ c \in Clients /\ Quiet /\ pc'[Isr] = "idle" /\ \A d \in Clients : pc'[d] = "idle"
  BY <1>0, <1>2, <1>4, <1>5, CallerFacts DEF Polling
<1>9. Polling' BY <1>0, <1>2, <1>8 DEF Polling, Quiet
<1>10. Preempting'
  BY <1>0, <1>2, <1>4, <1>5, CallerFacts DEF Preempting, Quiet, Calling
<1>11. AnswersPolling'
  <2>1. CASE ~blocking BY <1>0, <2>1 DEF AnswersPolling
  <2>2. CASE blocking
    <3>1. owner = c /\ answers = 0 /\ errorsrc = Source
      BY <1>0, <1>2, <1>8, <2>2 DEF AnswersPolling
    <3>2. Converted = truth BY <1>2, <3>1 DEF Converted, Source, TypeOK, Statuses
    <3>. QED BY <1>0, <1>1, <1>2, <1>8, <2>2, <3>1, <3>2 DEF AnswersPolling, Faithful, Quiet
  <2>. QED BY <2>1, <2>2
<1>12. AnswersPreempting'
  <2>1. CASE blocking \/ ~prompt BY <1>0, <2>1 DEF AnswersPreempting
  <2>2. CASE ~blocking /\ prompt
    <3>1. errorsrc = {} BY <1>0, <1>2, <2>2 DEF AnswersPreempting
    <3>2. answers' = answers /\ told' = told BY <1>1, <2>2, <3>1 DEF Converted
    <3>3. \A d \in Callers : pc'[d] \in Calling => d # c /\ pc[d] \in Calling
      BY <1>3, <1>4 DEF Calling
    <3>4. pc'[Isr] \in {"recheck", "invoke"} => pc[Isr] \in {"recheck", "invoke"}
      BY <1>3, <1>4, CallerFacts
    <3>5. pc'[Isr] # "idle" => pc[Isr] # "idle" BY <1>0, <1>4, CallerFacts
    <3>. QED BY <1>0, <1>2, <2>2, <3>1, <3>2, <3>3, <3>4, <3>5
             DEF AnswersPreempting, Faithful, Source, Quiet
  <2>. QED BY <2>1, <2>2
<1>. QED BY <1>6, <1>7, <1>9, <1>10, <1>11, <1>12 DEF TwimInv

LEMMA IsrEntryKeeps == TwimInv /\ IsrEntry => TwimInv'
<1> SUFFICES ASSUME TwimInv, IsrEntry PROVE TwimInv' OBVIOUS
<1> USE DEF mode, driver, accepted, replies
<1>0. /\ Pending /\ pc[Isr] = "idle"
      /\ UNCHANGED <<blocking, prompt, on, busy, active, failed, op, exit, errorsrc,
                     owner, truth, answers, told>>
  BY DEF IsrEntry
<1>2. /\ TypeOK /\ Positions /\ Polling /\ Preempting /\ AnswersPolling /\ AnswersPreempting
      /\ blocking \in BOOLEAN /\ pc \in [Callers -> Labels]
  BY DEF TwimInv, TypeOK
<1>3. ~blocking /\ on BY <1>0, <1>2 DEF Pending, Polling
<1>4. events \subseteq inten /\ events # {} BY <1>0, <1>2, <1>3 DEF Preempting, Pending
<1>5. busy \/ events \subseteq {"STOPPED"} BY <1>2, <1>3 DEF Preempting
<1>6. \A c \in Callers : pc[c] \notin Calling
  BY <1>0, <1>2, <1>3, <1>4, CallerFacts DEF Preempting, Calling
<1>7. /\ "STOPPED" \in events => bus = "idle"
      /\ "SUSPENDED" \in events => bus = "suspended"
      /\ "ERROR" \in events => bus \in {"refused", "stopping", "idle"}
  BY <1>2, <1>3 DEF Positions, Preempting
<1>8. Polling' /\ AnswersPolling' BY <1>0, <1>3 DEF Polling, AnswersPolling
<1>9. CASE /\ "ERROR" \in events /\ HandleError /\ inten' = inten \cup {"STOPPED"}
           /\ Goto(Isr, "recheck") /\ shorts' = shorts
  <2>1. pc' \in [Callers -> Labels] /\ pc'[Isr] = "recheck" /\ \A d \in Callers : d # Isr => pc'[d] = pc[d]
    BY <1>2, <1>9, CallerFacts, GotoAt DEF Labels
  <2>2. events' = events \ {"ERROR"} /\ events' \subseteq {"STOPPED"}
    BY <1>2, <1>7, <1>9 DEF HandleError, TypeOK, Events
  <2>3. bus' \in {"stopping", "idle"} /\ ("STOPPED" \in events' => bus' = "idle")
    BY <1>7, <1>9, <2>2 DEF HandleError, Stop, Resume
  <2>4. TypeOK' BY <1>0, <1>2, <1>9, <2>1, <2>2, <2>3 DEF TypeOK, Events
  <2>5. Positions' BY <1>0, <1>2, <1>3, <2>1, <2>3, CallerFacts DEF Positions
  <2>6. \A c \in Callers : pc'[c] \notin Calling BY <1>6, <2>1 DEF Calling
  <2>7. Preempting'
    <3>1. busy /\ "ERROR" \in inten' /\ "STOPPED" \in inten' BY <1>4, <1>5, <1>9
    <3>2. events' \subseteq inten' BY <2>2, <3>1
    <3>3. \A c \in Callers : pc'[c] # "poll" BY <1>2, <1>3, <2>1 DEF Preempting
    <3>. QED BY <1>0, <2>1, <2>2, <2>3, <2>6, <3>1, <3>2, <3>3, CallerFacts DEF Preempting, Quiet, Calling
  <2>8. AnswersPreempting'
    <3>1. prompt => events' = {} BY <1>2, <1>3, <1>9, <2>2 DEF AnswersPreempting
    <3>2. \A c \in Callers : pc'[c] = "check" => pc[c] = "check" BY <2>1
    <3>. QED BY <1>0, <1>2, <1>3, <1>4, <2>3, <2>6, <3>1, <3>2 DEF AnswersPreempting, Faithful, Source
  <2>. QED BY <1>8, <2>4, <2>5, <2>7, <2>8 DEF TwimInv
<1>10. CASE "ERROR" \notin events /\ \E event \in {"STOPPED", "SUSPENDED"} :
              /\ event \in events /\ IsrDone(event)
  <2>0. PICK event \in {"STOPPED", "SUSPENDED"} : event \in events /\ IsrDone(event) BY <1>10
  <2>00. /\ events' = events \ {event} /\ shorts' = {} /\ inten' = {} /\ Goto(Isr, "invoke") /\ bus' = bus
    BY <2>0 DEF IsrDone
  <2>1. pc' \in [Callers -> Labels] /\ pc'[Isr] = "invoke" /\ \A d \in Callers : d # Isr => pc'[d] = pc[d]
    BY <1>2, <2>00, CallerFacts, GotoAt DEF Labels
  <2>2. events' = {} BY <1>2, <1>7, <1>10, <2>0, <2>00 DEF TypeOK, Events
  <2>3. bus' \in {"idle", "suspended"} BY <1>7, <2>0, <2>00
  <2>4. TypeOK' BY <1>0, <1>2, <2>00, <2>1, <2>2 DEF TypeOK
  <2>5. Positions' BY <1>0, <1>2, <1>3, <2>1, <2>2, CallerFacts DEF Positions
  <2>6. \A c \in Callers : pc'[c] \notin Calling BY <1>6, <2>1 DEF Calling
  <2>7. Preempting'
    <3>3. \A c \in Callers : pc'[c] # "poll" BY <1>2, <1>3, <2>1 DEF Preempting
    <3>. QED BY <1>0, <2>1, <2>2, <2>3, <2>6, <3>3, CallerFacts DEF Preempting, Quiet, Calling
  <2>8. AnswersPreempting'
    <3>2. \A c \in Callers : pc'[c] = "check" => pc[c] = "check" BY <2>1
    <3>. QED BY <1>0, <1>2, <1>3, <1>4, <2>2, <2>3, <2>6, <3>2 DEF AnswersPreempting, Faithful, Source
  <2>. QED BY <1>8, <2>4, <2>5, <2>7, <2>8 DEF TwimInv
<1>11. "ERROR" \notin events /\ "STOPPED" \notin events => "SUSPENDED" \in events
  BY <1>2, <1>4 DEF TypeOK, Events
<1>. QED BY <1>9, <1>10, <1>11 DEF IsrEntry

LEMMA IsrRecheckKeeps == TwimInv /\ IsrRecheck => TwimInv'
<1> SUFFICES ASSUME TwimInv, IsrRecheck PROVE TwimInv' OBVIOUS
<1> USE DEF mode, driver, chip, accepted, replies
<1>0. /\ pc[Isr] = "recheck" /\ Goto(Isr, IF "STOPPED" \in events THEN "invoke" ELSE "idle")
      /\ UNCHANGED <<blocking, prompt, on, busy, active, failed, op, exit, bus, shorts, events, errorsrc,
                     inten, owner, truth, answers, told>>
  BY DEF IsrRecheck
<1>2. /\ TypeOK /\ Positions /\ Polling /\ Preempting /\ AnswersPolling /\ AnswersPreempting
      /\ blocking \in BOOLEAN /\ pc \in [Callers -> Labels]
  BY DEF TwimInv, TypeOK
<1>3. ~blocking /\ on BY <1>0, <1>2, CallerFacts DEF Polling, Positions
<1>4. PICK l \in {"invoke", "idle"} : Goto(Isr, l) /\ (l = "invoke" <=> "STOPPED" \in events)
  BY <1>0
<1>5. pc' \in [Callers -> Labels] /\ pc'[Isr] = l /\ \A d \in Callers : d # Isr => pc'[d] = pc[d]
  BY <1>2, <1>4, CallerFacts, GotoAt DEF Labels
<1>6. /\ events \subseteq {"STOPPED"} /\ events \subseteq inten
      /\ l = "invoke" => bus = "idle"
      /\ \A c \in Callers : pc[c] \notin Calling
  BY <1>0, <1>2, <1>3, <1>4, CallerFacts DEF Preempting, Positions, Calling
<1>7. \A c \in Callers : pc'[c] \notin Calling BY <1>5, <1>6 DEF Calling
<1>8. TypeOK' BY <1>0, <1>2, <1>5 DEF TypeOK
<1>9. Positions' BY <1>0, <1>2, <1>3, <1>5, CallerFacts DEF Positions
<1>10. Polling' /\ AnswersPolling' BY <1>0, <1>3 DEF Polling, AnswersPolling
<1>11. Preempting'
  <2>1. \A c \in Callers : pc'[c] # "poll" BY <1>2, <1>3, <1>5 DEF Preempting
  <2>. QED BY <1>0, <1>2, <1>3, <1>5, <1>6, <1>7, <2>1, CallerFacts DEF Preempting, Quiet, Calling
<1>12. AnswersPreempting'
  <2>1. \A c \in Callers : pc'[c] = "check" => pc[c] = "check" BY <1>5
  <2>. QED BY <1>0, <1>2, <1>3, <1>7, <2>1 DEF AnswersPreempting, Faithful, Source, Quiet
<1>. QED BY <1>8, <1>9, <1>10, <1>11, <1>12 DEF TwimInv

LEMMA IsrInvokeKeeps == TwimInv /\ IsrInvoke => TwimInv'
<1> SUFFICES ASSUME TwimInv, IsrInvoke PROVE TwimInv' OBVIOUS
<1> USE DEF mode, accepted, replies
<1>0. /\ pc[Isr] = "invoke" /\ errorsrc' = {}
      /\ UNCHANGED <<blocking, prompt, on, op, exit, bus, shorts, events, inten, owner, truth>>
  BY DEF IsrInvoke
<1>1. \/ /\ busy /\ busy' = FALSE /\ active' = NoOne /\ Goto(Isr, "callback") /\ failed' = failed
         /\ answers' = IF answers = 2 THEN 2 ELSE answers + 1
         /\ told' = [to |-> active, status |-> Converted]
      \/ ~busy /\ failed' = TRUE /\ UNCHANGED <<busy, active, pc, answers, told>>
  BY DEF IsrInvoke, Answer
<1>2. /\ TypeOK /\ Positions /\ Polling /\ Preempting /\ AnswersPolling /\ AnswersPreempting
      /\ blocking \in BOOLEAN /\ pc \in [Callers -> Labels]
  BY DEF TwimInv, TypeOK
<1>3. ~blocking /\ on BY <1>0, <1>2, CallerFacts DEF Polling, Positions
<1>4. Polling' /\ AnswersPolling' BY <1>0, <1>3 DEF Polling, AnswersPolling
<1>5. /\ Quiet /\ events \subseteq {"STOPPED"} /\ events \subseteq inten
      /\ \A c \in Callers : pc[c] \notin Calling
  BY <1>0, <1>2, <1>3, CallerFacts DEF Preempting, Calling
<1>6. prompt => /\ busy /\ ~failed /\ answers = 0 /\ active = owner /\ active \in Callers /\ events = {}
                /\ errorsrc = Source
  BY <1>0, <1>2, <1>3 DEF AnswersPreempting
<1>7. CASE /\ busy /\ busy' = FALSE /\ active' = NoOne /\ Goto(Isr, "callback") /\ failed' = failed
           /\ answers' = IF answers = 2 THEN 2 ELSE answers + 1
           /\ told' = [to |-> active, status |-> Converted]
  <2>1. pc' \in [Callers -> Labels] /\ pc'[Isr] = "callback" /\ \A d \in Callers : d # Isr => pc'[d] = pc[d]
    BY <1>2, <1>7, CallerFacts, GotoAt DEF Labels
  <2>2. TypeOK'
    <3>1. answers' \in 0 .. 2 /\ told' \in [to : Callers \cup {NoOne}, status : Statuses]
      BY <1>2, <1>7 DEF TypeOK, Statuses, Converted
    <3>. QED BY <1>0, <1>2, <1>7, <2>1, <3>1 DEF TypeOK
  <2>3. Positions' BY <1>0, <1>2, <1>3, <2>1, CallerFacts DEF Positions
  <2>4. \A c \in Callers : pc'[c] \notin Calling BY <1>5, <2>1 DEF Calling
  <2>5. Preempting'
    <3>1. \A c \in Callers : pc'[c] # "poll" BY <1>2, <1>3, <2>1 DEF Preempting
    <3>. QED BY <1>0, <1>2, <1>3, <1>5, <2>1, <2>4, <3>1, CallerFacts DEF Preempting, Quiet, Calling
  <2>6. AnswersPreempting'
    <3>1. CASE ~prompt BY <1>0, <3>1 DEF AnswersPreempting
    <3>2. CASE prompt
      <4>1. Converted = truth BY <1>2, <1>6, <3>2 DEF Converted, Source, TypeOK, Statuses
      <4>2. told' = [to |-> owner', status |-> truth'] /\ answers' = 1 BY <1>0, <1>6, <1>7, <3>2, <4>1
      <4>. QED BY <1>0, <1>5, <1>6, <1>7, <2>1, <2>4, <3>2, <4>2
               DEF AnswersPreempting, Faithful, Quiet
    <3>. QED BY <3>1, <3>2, <1>2 DEF TypeOK
  <2>. QED BY <1>4, <2>2, <2>3, <2>5, <2>6 DEF TwimInv
<1>8. CASE ~busy /\ failed' = TRUE /\ UNCHANGED <<busy, active, pc, answers, told>>
  <2>1. ~prompt BY <1>6, <1>8
  <2>2. AnswersPreempting' BY <1>0, <2>1 DEF AnswersPreempting
  <2>3. TypeOK' BY <1>0, <1>2, <1>8 DEF TypeOK
  <2>4. Positions' BY <1>0, <1>2, <1>8 DEF Positions
  <2>5. Preempting' BY <1>0, <1>2, <1>8 DEF Preempting, Quiet
  <2>. QED BY <1>4, <2>2, <2>3, <2>4, <2>5 DEF TwimInv
<1>. QED BY <1>1, <1>7, <1>8

LEMMA IsrReturnKeeps == TwimInv /\ IsrReturn => TwimInv'
<1> SUFFICES ASSUME TwimInv, IsrReturn PROVE TwimInv' OBVIOUS
<1> USE DEF mode, driver, chip, accepted, replies
<1>0. /\ pc[Isr] = "callback" /\ Goto(Isr, "idle")
      /\ UNCHANGED <<blocking, prompt, on, busy, active, failed, op, exit, bus, shorts, events, errorsrc,
                     inten, owner, truth, answers, told>>
  BY DEF IsrReturn
<1>2. /\ TypeOK /\ Positions /\ Polling /\ Preempting /\ AnswersPolling /\ AnswersPreempting
      /\ blocking \in BOOLEAN /\ pc \in [Callers -> Labels]
  BY DEF TwimInv, TypeOK
<1>3. ~blocking /\ on BY <1>0, <1>2, CallerFacts DEF Polling, Positions
<1>5. pc' \in [Callers -> Labels] /\ pc'[Isr] = "idle" /\ \A d \in Callers : d # Isr => pc'[d] = pc[d]
  BY <1>0, <1>2, CallerFacts, GotoAt DEF Labels
<1>6. \A c \in Callers : pc[c] \notin Calling /\ pc'[c] \notin Calling
  BY <1>0, <1>2, <1>3, <1>5, CallerFacts DEF Preempting, Calling
<1>8. TypeOK' BY <1>0, <1>2, <1>5 DEF TypeOK
<1>9. Positions' BY <1>0, <1>2, <1>3, <1>5, CallerFacts DEF Positions
<1>10. Polling' /\ AnswersPolling' BY <1>0, <1>3 DEF Polling, AnswersPolling
<1>11. Preempting'
  <2>1. \A c \in Callers : pc'[c] # "poll" BY <1>2, <1>3, <1>5 DEF Preempting
  <2>. QED BY <1>0, <1>2, <1>3, <1>5, <1>6, <2>1, CallerFacts DEF Preempting, Quiet, Calling
<1>12. AnswersPreempting'
  <2>1. \A c \in Callers : pc'[c] = "check" => pc[c] = "check" BY <1>5
  <2>. QED BY <1>0, <1>2, <1>3, <1>5, <1>6, <2>1 DEF AnswersPreempting, Faithful, Source, Quiet
<1>. QED BY <1>8, <1>9, <1>10, <1>11, <1>12 DEF TwimInv

LEMMA StopDriverKeeps == TwimInv /\ StopDriver => TwimInv'
<1> SUFFICES ASSUME TwimInv, StopDriver PROVE TwimInv' OBVIOUS
<1> USE DEF mode, replies
<1>0. /\ ~Pending /\ on /\ \A c \in Callers : pc[c] = "idle"
      /\ on' = FALSE /\ inten' = {} /\ shorts' = {} /\ bus' = "idle" /\ owner' = NoOne
      /\ UNCHANGED <<blocking, prompt, busy, active, failed, pc, op, exit, events, errorsrc,
                     truth, answers, told>>
  BY DEF StopDriver, Resting
<1>2. /\ TypeOK /\ Positions /\ Polling /\ Preempting /\ AnswersPolling /\ AnswersPreempting
      /\ blocking \in BOOLEAN
  BY DEF TwimInv, TypeOK
<1>3. ~blocking => events = {} BY <1>0, <1>2, CallerFacts DEF Pending, Preempting
<1>4. TypeOK' BY <1>0, <1>2 DEF TypeOK
<1>5. Positions' BY <1>0, <1>2 DEF Positions
<1>6. Polling' BY <1>0, <1>2, CallerFacts DEF Polling, Quiet
<1>7. Preempting' BY <1>0, <1>2, <1>3, CallerFacts DEF Preempting, Quiet, Calling
<1>8. AnswersPolling' BY <1>0, <1>2, CallerFacts DEF AnswersPolling, Faithful
<1>9. AnswersPreempting' BY <1>0, <1>2, <1>3, CallerFacts DEF AnswersPreempting, Faithful, Quiet, Calling
<1>. QED BY <1>4, <1>5, <1>6, <1>7, <1>8, <1>9 DEF TwimInv

LEMMA StartDriverKeeps == TwimInv /\ StartDriver => TwimInv'
<1> SUFFICES ASSUME TwimInv, StartDriver PROVE TwimInv' OBVIOUS
<1>0. /\ on' = TRUE
      /\ UNCHANGED <<blocking, prompt, busy, active, failed, pc, op, exit, bus, shorts, events, errorsrc,
                     inten, owner, truth, answers, told>>
  BY DEF StartDriver, mode, chip, accepted, replies
<1>4. TypeOK' BY <1>0 DEF TwimInv, TypeOK
<1>5. Positions' BY <1>0 DEF TwimInv, Positions
<1>6. Polling' BY <1>0 DEF TwimInv, Polling, Quiet
<1>7. Preempting' BY <1>0 DEF TwimInv, Preempting, Quiet
<1>8. AnswersPolling' BY <1>0 DEF TwimInv, AnswersPolling, Faithful, Source
<1>9. AnswersPreempting' BY <1>0 DEF TwimInv, AnswersPreempting, Faithful, Source, Quiet
<1>. QED BY <1>4, <1>5, <1>6, <1>7, <1>8, <1>9 DEF TwimInv

LEMMA StutterKeepsTwim == TwimInv /\ UNCHANGED vars => TwimInv'
<1> SUFFICES ASSUME TwimInv, UNCHANGED vars PROVE TwimInv' OBVIOUS
<1>0. UNCHANGED <<blocking, prompt, on, busy, active, failed, pc, op, exit, bus, shorts, events, errorsrc,
                  inten, owner, truth, answers, told>>
  BY DEF vars, mode, driver, chip, accepted, replies
<1>4. TypeOK' BY <1>0 DEF TwimInv, TypeOK
<1>5. Positions' BY <1>0 DEF TwimInv, Positions
<1>6. Polling' BY <1>0 DEF TwimInv, Polling, Quiet
<1>7. Preempting' BY <1>0 DEF TwimInv, Preempting, Quiet
<1>8. AnswersPolling' BY <1>0 DEF TwimInv, AnswersPolling, Faithful, Source
<1>9. AnswersPreempting' BY <1>0 DEF TwimInv, AnswersPreempting, Faithful, Source, Quiet
<1>. QED BY <1>4, <1>5, <1>6, <1>7, <1>8, <1>9 DEF TwimInv

LEMMA InitTwim == Init => TwimInv
<1> SUFFICES ASSUME Init PROVE TwimInv OBVIOUS
<1>0. \A c \in Callers : pc[c] = "idle" /\ op[c] = "stop" BY DEF Init
<1>1. TypeOK
  <2>1. pc \in [Callers -> Labels] BY DEF Init, Labels
  <2>2. op \in [Callers -> Ops] BY DEF Init, Ops
  <2>3. told \in [to : Callers \cup {NoOne}, status : Statuses] BY DEF Init, Statuses
  <2>4. /\ blocking \in BOOLEAN /\ prompt \in BOOLEAN
        /\ on \in BOOLEAN /\ busy \in BOOLEAN /\ failed \in BOOLEAN
        /\ active \in Callers \cup {NoOne} /\ owner \in Callers \cup {NoOne}
    BY DEF Init
  <2>5. /\ shorts \subseteq {"LASTTX_STOP", "LASTTX_SUSPEND", "LASTTX_STARTRX", "LASTRX_STOP"}
        /\ events \subseteq Events /\ inten \subseteq Events /\ errorsrc \subseteq Statuses
    BY DEF Init
  <2>6. /\ exit \in {"STOPPED", "SUSPENDED"} /\ truth \in Statuses /\ answers \in 0 .. 2
        /\ bus \in {"idle", "tx", "rx", "refused", "stopping", "suspended"}
    BY DEF Init, Statuses
  <2>. QED BY <2>1, <2>2, <2>3, <2>4, <2>5, <2>6 DEF TypeOK
<1>2. Positions BY <1>0, CallerFacts DEF Init, Positions
<1>3. Polling BY <1>0, CallerFacts DEF Init, Polling, Quiet
<1>4. Preempting BY <1>0, CallerFacts DEF Init, Preempting, Quiet, Calling
<1>5. AnswersPolling BY <1>0, CallerFacts DEF Init, AnswersPolling, Faithful, Source
<1>6. AnswersPreempting BY <1>0, CallerFacts DEF Init, AnswersPreempting, Faithful, Source, Quiet, Calling
<1>. QED BY <1>1, <1>2, <1>3, <1>4, <1>5, <1>6 DEF TwimInv

\* The inductive invariant holds in every reachable state.
LEMMA TwimInvariance == Spec => []TwimInv
<1>1. TwimInv /\ Next => TwimInv'
  BY BusSentKeeps, BusReceivedKeeps, BusRefusedKeeps, BusStoppedKeeps, CallKeeps, StopConditionKeeps,
     ArmKeeps, KickKeeps, PollKeeps, CheckKeeps, IsrEntryKeeps, IsrRecheckKeeps, IsrInvokeKeeps,
     IsrReturnKeeps, StopDriverKeeps, StartDriverKeeps, StutterKeepsTwim
     DEF Next, BusStep, IsrStep, CallStep
<1>. QED BY <1>1, InitTwim, StutterKeepsTwim, PTL DEF Spec

\* For any number of threads, callbacks that start transfers of their own and
\* whatever the bus refused before: nrf52_i2c_master and the twim helpers set up
\* and start a transfer only on a peripheral that is idle or suspended.
THEOREM OneTransferAtATime == Spec => []OneTransfer
<1>1. TwimInv => OneTransfer
  <2> SUFFICES ASSUME TwimInv, NEW c \in Callers, pc[c] \in {"arm", "kick"}
               PROVE  bus \in {"idle", "suspended"}
    BY DEF OneTransfer, TwimInv
  <2>1. TypeOK /\ Positions /\ Polling /\ Preempting BY DEF TwimInv
  <2>2. CASE blocking
    <3>1. c \in Clients BY <2>1, <2>2, CallerFacts DEF Polling
    <3>2. \A d \in Clients : pc[d] # "poll" BY <2>1, <2>2, <3>1 DEF Polling
    <3>. QED BY <2>1, <2>2, <3>2 DEF Polling, Quiet
  <2>3. CASE ~blocking BY <2>1, <2>3 DEF Preempting, Calling, Quiet
  <2>. QED BY <2>2, <2>3
<1>. QED BY <1>1, TwimInvariance, PTL

\* In a prompt program every accepted transfer is answered once, with what
\* happened on the bus and to the one who made it, and the assertion of the
\* interrupt handler on busy_ never fails.
THEOREM EveryTransferAnsweredOnce == Spec => []AnsweredOnce
<1>1. TwimInv => AnsweredOnce
  BY DEF TwimInv, TypeOK, AnswersPolling, AnswersPreempting, AnsweredOnce, Prompt, Faithful
<1>. QED BY <1>1, TwimInvariance, PTL

\* In a prompt program whoever is answered has its buffers back: the step that
\* answers, in the handler or in transfer() itself, leaves a peripheral that
\* reads and writes nothing.
THEOREM AnswerReturnsBuffers == Spec => BuffersReturned
<1> DEFINE Answering == Prompt /\ answers' > answers => bus' \in {"idle", "suspended"}
<1>1. TwimInv /\ TwimInv' /\ [Next]_vars => Answering
  <2> SUFFICES ASSUME TwimInv, TwimInv', [Next]_vars, Prompt, answers' > answers
               PROVE  Quiet'
    BY DEF Quiet
  <2>0. /\ TypeOK /\ Positions /\ Polling /\ Preempting /\ AnswersPreempting /\ blocking \in BOOLEAN
        /\ Polling' /\ Preempting' /\ answers \in 0 .. 2
    BY DEF TwimInv, TypeOK
  <2>1. ASSUME UNCHANGED replies PROVE FALSE BY <2>0, <2>1 DEF replies
  <2>2. ASSUME UNCHANGED vars PROVE FALSE BY <2>1, <2>2 DEF vars
  <2>3. ASSUME BusStep PROVE FALSE
    BY <2>1, <2>3 DEF BusStep, BusSent, BusReceived, BusRefused, BusStopped
  <2>4. ASSUME NEW c \in Callers, NEW k \in Ops, Call(c, k) PROVE FALSE
    BY <2>0, <2>4 DEF Call, Accept
  <2>5. ASSUME NEW c \in Callers, StopCondition(c) PROVE Quiet'
    <3>0. pc[c] = "stop" /\ bus' = Stop(bus) BY <2>5 DEF StopCondition
    <3>1. Quiet
      <4>1. CASE blocking
        <5>1. c \in Clients BY <2>0, <3>0, <4>1, CallerFacts DEF Polling
        <5>2. \A d \in Clients : pc[d] # "poll" BY <2>0, <3>0, <4>1, <5>1 DEF Polling
        <5>. QED BY <2>0, <4>1, <5>2 DEF Polling
      <4>2. CASE ~blocking BY <2>0, <3>0, <4>2 DEF Preempting, Calling
      <4>. QED BY <4>1, <4>2
    <3>. QED BY <3>0, <3>1 DEF Quiet, Stop
  <2>6. ASSUME NEW c \in Callers, Check(c) PROVE Quiet'
    <3>0. pc[c] = "check" /\ bus' = bus BY <2>6 DEF Check
    <3>1. CASE blocking
      <4>1. c \in Clients BY <2>0, <3>0, <3>1, CallerFacts DEF Polling
      <4>2. \A d \in Clients : pc[d] # "poll" BY <2>0, <3>0, <3>1, <4>1 DEF Polling
      <4>. QED BY <2>0, <3>0, <3>1, <4>2 DEF Polling, Quiet
    <3>2. CASE ~blocking
      <4>1. errorsrc = {} BY <2>0, <3>0, <3>2 DEF Prompt, AnswersPreempting
      <4>. QED BY <2>1, <2>6, <3>2, <4>1 DEF Check, Converted
    <3>. QED BY <3>1, <3>2
  <2>7. ASSUME NEW c \in Callers, Arm(c) \/ Kick(c) \/ Poll(c) PROVE FALSE
    BY <2>1, <2>7 DEF Arm, Kick, Poll
  <2>8. ASSUME IsrInvoke PROVE Quiet'
    <3>0. pc[Isr] = "invoke" /\ bus' = bus BY <2>8 DEF IsrInvoke
    <3>. QED BY <2>0, <3>0 DEF Polling, Preempting, Quiet
  <2>9. ASSUME IsrEntry \/ IsrRecheck \/ IsrReturn PROVE FALSE
    BY <2>1, <2>9 DEF IsrEntry, IsrRecheck, IsrReturn
  <2>10. ASSUME StopDriver \/ StartDriver PROVE FALSE BY <2>1, <2>10 DEF StopDriver, StartDriver
  <2>. QED BY <2>2, <2>3, <2>4, <2>5, <2>6, <2>7, <2>8, <2>9, <2>10 DEF Next, CallStep, IsrStep
<1>. QED BY <1>1, TwimInvariance, PTL DEF Spec, BuffersReturned

-----------------------------------------------------------------------------

(* TofDriver: the inductive invariant.                                       *)
\* what a list of transfers does with the buffer b: it leaves it alone, uses it
\* without giving it back, or uses it and gives it back with the last use
Touches(x, b) == b \in {x.tx, x.rx}
Unused(b, s) == \A i \in DOMAIN s : ~Touches(s[i], b)
Kept(b, s) == \A i \in DOMAIN s : Touches(s[i], b) => s[i].cb = "none"
Ends(b, s) ==
  \E i \in DOMAIN s :
    /\ Touches(s[i], b) /\ s[i].cb # "none"
    /\ \A j \in DOMAIN s : Touches(s[j], b) => j = i \/ (j < i /\ s[j].cb = "none")

\* A buffer in use is given back in one place only: in the queue, or in what the
\* controller's thread or the application's has yet to send, which comes after
\* the queue; a buffer not in use is used nowhere.
Held(b, q, s, o) ==
  \/ Ends(b, q) /\ Unused(b, s) /\ Unused(b, o)
  \/ Kept(b, q) /\ Ends(b, s) /\ Unused(b, o)
  \/ Kept(b, q) /\ Unused(b, s) /\ Ends(b, o)
Settled(b, inuse, q, s, o) ==
  IF b \in inuse THEN Held(b, q, s, o) ELSE Unused(b, q) /\ Unused(b, s) /\ Unused(b, o)

Callbacks == {"none", "destroy", "dataReady", "readData", "query", "firmware", "modelID",
              "mode", "reset", "clear", "resetEnter", "resetExit", "config"}
\* the transfers the driver makes
Makes == {"mode", "reset", "clear"}
Proper(x) ==
  /\ x.op = "make" <=> x.cb \in Makes
  /\ x.op = "make" => x.tx = Own /\ x.rx = Own
  /\ x.rx = Fresh => x.tx = Fresh
  /\ x.tx = Fresh => x.cb # "none"
  /\ x.cb = "resetEnter" => x.rx = Own
Items == {x \in [op : {"write", "writeRead", "make"}, tx : Int, rx : Int, cb : Callbacks] : Proper(x)}

\* the transfers of which each stands for one read() or reset() under way
IsLink(c, x) == x.cb \in Links(c)
Running(c, s) == Cardinality({i \in DOMAIN s : IsLink(c, s[i])})

TofTypes ==
  /\ controller \in Controllers /\ halted \in BOOLEAN
  /\ todo \in [Threads -> Seq(Items)] /\ queue \in Seq(Items) /\ live \subseteq Slots
  /\ \A i \in DOMAIN queue : queue[i].op # "make"
  /\ calls \in Nat
  /\ asked \in [Chains -> Nat] /\ answered \in [Chains -> Nat] /\ dropped \in [Chains -> Nat]
Balanced(c) ==
  asked[c] = answered[c] + dropped[c] + Running(c, queue) + Running(c, todo["controller"])
               + Running(c, todo["application"])
Accounted == halted \/ \A c \in Chains : Balanced(c)
Owned == halted \/ \A b \in Slots : Settled(b, live, queue, todo["controller"], todo["application"])
\* Each read() and reset() is on its way exactly once, and each buffer settled.
TofInv == TofTypes /\ Accounted /\ Owned

-----------------------------------------------------------------------------
(* TofDriver: lists of transfers that are joined and taken apart.            *)
LEMMA CatUnused ==
  ASSUME NEW s \in Seq(Items), NEW t \in Seq(Items), NEW b, Unused(b, s), Unused(b, t)
  PROVE  Unused(b, s \o t)
BY DEF Unused

LEMMA CatKept ==
  ASSUME NEW s \in Seq(Items), NEW t \in Seq(Items), NEW b, Kept(b, s), Kept(b, t)
  PROVE  Kept(b, s \o t)
BY DEF Kept

LEMMA CatKeptEnds ==
  ASSUME NEW s \in Seq(Items), NEW t \in Seq(Items), NEW b, Kept(b, s), Ends(b, t)
  PROVE  Ends(b, s \o t)
<1>1. PICK i \in DOMAIN t :
        /\ Touches(t[i], b) /\ t[i].cb # "none"
        /\ \A j \in DOMAIN t : Touches(t[j], b) => j = i \/ (j < i /\ t[j].cb = "none")
  BY DEF Ends
<1>2. Len(s) \in Nat /\ Len(t) \in Nat /\ i \in 1 .. Len(t) /\ DOMAIN (s \o t) = 1 .. Len(s) + Len(t)
  OBVIOUS
<1>3. Len(s) + i \in DOMAIN (s \o t) /\ (s \o t)[Len(s) + i] = t[i] BY <1>2
<1>4. ASSUME NEW j \in DOMAIN (s \o t), Touches((s \o t)[j], b)
      PROVE  j = Len(s) + i \/ (j < Len(s) + i /\ (s \o t)[j].cb = "none")
  <2>1. CASE j <= Len(s)
    <3>1. j \in DOMAIN s /\ (s \o t)[j] = s[j] BY <1>2, <2>1
    <3>2. s[j].cb = "none" BY <1>4, <3>1 DEF Kept
    <3>. QED BY <1>2, <3>1, <3>2
  <2>2. CASE j > Len(s)
    <3>1. j - Len(s) \in DOMAIN t /\ (s \o t)[j] = t[j - Len(s)] BY <1>2, <2>2
    <3>2. j - Len(s) = i \/ (j - Len(s) < i /\ t[j - Len(s)].cb = "none") BY <1>1, <1>4, <3>1
    <3>. QED BY <1>2, <3>1, <3>2
  <2>. QED BY <1>2, <2>1, <2>2
<1>. QED BY <1>1, <1>3, <1>4 DEF Ends

LEMMA CatEndsUnused ==
  ASSUME NEW s \in Seq(Items), NEW t \in Seq(Items), NEW b, Ends(b, s), Unused(b, t)
  PROVE  Ends(b, s \o t)
<1>1. PICK i \in DOMAIN s :
        /\ Touches(s[i], b) /\ s[i].cb # "none"
        /\ \A j \in DOMAIN s : Touches(s[j], b) => j = i \/ (j < i /\ s[j].cb = "none")
  BY DEF Ends
<1>2. Len(s) \in Nat /\ Len(t) \in Nat /\ i \in 1 .. Len(s) /\ DOMAIN (s \o t) = 1 .. Len(s) + Len(t)
  OBVIOUS
<1>3. i \in DOMAIN (s \o t) /\ (s \o t)[i] = s[i] BY <1>2
<1>4. ASSUME NEW j \in DOMAIN (s \o t), Touches((s \o t)[j], b)
      PROVE  j = i \/ (j < i /\ (s \o t)[j].cb = "none")
  <2>1. CASE j <= Len(s)
    <3>1. j \in DOMAIN s /\ (s \o t)[j] = s[j] BY <1>2, <2>1
    <3>. QED BY <1>1, <1>4, <3>1
  <2>2. CASE j > Len(s)
    <3>1. j - Len(s) \in DOMAIN t /\ (s \o t)[j] = t[j - Len(s)] BY <1>2, <2>2
    <3>. QED BY <1>4, <3>1 DEF Unused
  <2>. QED BY <1>2, <2>1, <2>2
<1>. QED BY <1>1, <1>3, <1>4 DEF Ends

LEMMA UnusedKept == ASSUME NEW s, NEW b, Unused(b, s) PROVE Kept(b, s) /\ ~Ends(b, s)
BY DEF Unused, Kept, Ends

LEMMA KeptNotEnds == ASSUME NEW s, NEW b, Kept(b, s) PROVE ~Ends(b, s)
BY DEF Kept, Ends

LEMMA OneItem ==
  ASSUME NEW x \in Items, NEW b
  PROVE  /\ <<x>> \in Seq(Items)
         /\ ~Touches(x, b) => Unused(b, <<x>>)
         /\ (Touches(x, b) => x.cb = "none") => Kept(b, <<x>>)
         /\ Touches(x, b) /\ x.cb # "none" => Ends(b, <<x>>)
<1>1. <<x>> \in Seq(Items) /\ DOMAIN <<x>> = {1} /\ <<x>>[1] = x OBVIOUS
<1>. QED BY <1>1 DEF Unused, Kept, Ends

LEMMA HeadAndTail ==
  ASSUME NEW s \in Seq(Items), s # <<>>, NEW b
  PROVE  /\ Head(s) \in Items /\ Tail(s) \in Seq(Items)
         /\ Unused(b, s) => ~Touches(Head(s), b) /\ Unused(b, Tail(s))
         /\ Kept(b, s) => (Touches(Head(s), b) => Head(s).cb = "none") /\ Kept(b, Tail(s))
         /\ Ends(b, s) => \/ Touches(Head(s), b) /\ Head(s).cb # "none" /\ Unused(b, Tail(s))
                          \/ (Touches(Head(s), b) => Head(s).cb = "none") /\ Ends(b, Tail(s))
<1>1. /\ Head(s) = s[1] /\ 1 \in DOMAIN s /\ Len(s) \in Nat /\ Len(s) >= 1 /\ DOMAIN s = 1 .. Len(s)
      /\ DOMAIN Tail(s) = 1 .. Len(s) - 1 /\ \A i \in DOMAIN Tail(s) : Tail(s)[i] = s[i + 1]
      /\ Head(s) \in Items /\ Tail(s) \in Seq(Items)
  OBVIOUS
<1>2. \A i \in DOMAIN Tail(s) : i + 1 \in DOMAIN s /\ i + 1 > 1 BY <1>1
<1>3. Unused(b, s) => ~Touches(Head(s), b) /\ Unused(b, Tail(s)) BY <1>1, <1>2 DEF Unused
<1>4. Kept(b, s) => (Touches(Head(s), b) => Head(s).cb = "none") /\ Kept(b, Tail(s))
  BY <1>1, <1>2 DEF Kept
<1>5. ASSUME Ends(b, s)
      PROVE  \/ Touches(Head(s), b) /\ Head(s).cb # "none" /\ Unused(b, Tail(s))
             \/ (Touches(Head(s), b) => Head(s).cb = "none") /\ Ends(b, Tail(s))
  <2>1. PICK i \in DOMAIN s :
          /\ Touches(s[i], b) /\ s[i].cb # "none"
          /\ \A j \in DOMAIN s : Touches(s[j], b) => j = i \/ (j < i /\ s[j].cb = "none")
    BY <1>5 DEF Ends
  <2>2. CASE i = 1
    <3>1. Unused(b, Tail(s)) BY <1>1, <1>2, <2>1, <2>2 DEF Unused
    <3>. QED BY <1>1, <2>1, <2>2, <3>1
  <2>3. CASE i # 1
    <3>1. i - 1 \in DOMAIN Tail(s) /\ Tail(s)[i - 1] = s[i] BY <1>1, <2>3
    <3>2. \A j \in DOMAIN Tail(s) : Touches(Tail(s)[j], b) => j = i - 1 \/ (j < i - 1 /\ Tail(s)[j].cb = "none")
      BY <1>1, <1>2, <2>1
    <3>3. Ends(b, Tail(s)) BY <2>1, <3>1, <3>2 DEF Ends
    <3>. QED BY <1>1, <2>1, <2>3, <3>3
  <2>. QED BY <2>2, <2>3
<1>. QED BY <1>1, <1>3, <1>4, <1>5

\* as many chains are on their way in two lists as in the list they make
LEMMA CatRunning ==
  ASSUME NEW c, NEW s \in Seq(Items), NEW t \in Seq(Items)
  PROVE  Running(c, s \o t) = Running(c, s) + Running(c, t) /\ Running(c, s) \in Nat
<1> DEFINE R(u) == {i \in DOMAIN u : IsLink(c, u[i])}
<1> DEFINE shift == [i \in R(t) |-> Len(s) + i]
<1> DEFINE H == {Len(s) + i : i \in R(t)}
<1>1. Len(s) \in Nat /\ Len(t) \in Nat /\ DOMAIN s = 1 .. Len(s) /\ DOMAIN t = 1 .. Len(t)
      /\ DOMAIN (s \o t) = 1 .. Len(s) + Len(t)
  OBVIOUS
<1>2. IsFiniteSet(R(s)) /\ IsFiniteSet(R(t))
  <2>1. IsFiniteSet(1 .. Len(s)) /\ IsFiniteSet(1 .. Len(t)) BY <1>1, FS_Interval
  <2>2. R(s) \subseteq 1 .. Len(s) /\ R(t) \subseteq 1 .. Len(t) BY <1>1
  <2>. QED BY <2>1, <2>2, FS_Subset
<1>3. R(s \o t) = R(s) \cup H
  <2>1. ASSUME NEW i \in R(s \o t) PROVE i \in R(s) \cup H
    <3>1. CASE i <= Len(s)
      <4>1. i \in DOMAIN s /\ (s \o t)[i] = s[i] BY <1>1, <3>1
      <4>. QED BY <2>1, <4>1
    <3>2. CASE i > Len(s)
      <4>1. i - Len(s) \in DOMAIN t /\ (s \o t)[i] = t[i - Len(s)] /\ i = Len(s) + (i - Len(s)) BY <1>1, <3>2
      <4>2. i - Len(s) \in R(t) BY <2>1, <4>1
      <4>. QED BY <4>1, <4>2
    <3>. QED BY <1>1, <3>1, <3>2
  <2>2. ASSUME NEW i \in R(s) PROVE i \in R(s \o t)
    <3>1. i \in DOMAIN (s \o t) /\ (s \o t)[i] = s[i] BY <1>1
    <3>. QED BY <3>1
  <2>3. ASSUME NEW i \in R(t) PROVE Len(s) + i \in R(s \o t)
    <3>1. Len(s) + i \in DOMAIN (s \o t) /\ (s \o t)[Len(s) + i] = t[i] BY <1>1
    <3>. QED BY <3>1
  <2>. QED BY <2>1, <2>2, <2>3
<1>4. R(s) \cap H = {} BY <1>1
<1>5. Cardinality(H) = Cardinality(R(t)) /\ IsFiniteSet(H)
  <2>1. shift \in Bijection(R(t), H)
    <3>1. shift \in [R(t) -> H] OBVIOUS
    <3>2. \A x, y \in R(t) : shift[x] = shift[y] => x = y BY <1>1
    <3>3. \A y \in H : \E x \in R(t) : shift[x] = y OBVIOUS
    <3>. QED BY <3>1, <3>2, <3>3, Fun_IsBij
  <2>2. ExistsBijection(R(t), H) BY <2>1 DEF ExistsBijection
  <2>. QED BY <1>2, <2>2, FS_Bijection
<1>6. Cardinality(R(s)) \in Nat /\ Cardinality(R(t)) \in Nat /\ Cardinality(H) \in Nat
  BY <1>2, <1>5, FS_CardinalityType
<1>7. Cardinality(R(s) \cup H) = Cardinality(R(s)) + Cardinality(H) - Cardinality(R(s) \cap H)
  BY <1>2, <1>5, FS_Union
<1>8. Cardinality(R(s \o t)) = Cardinality(R(s)) + Cardinality(R(t))
  <2>1. Cardinality(R(s) \cap H) = 0 BY <1>4, FS_EmptySet
  <2>2. Cardinality(R(s \o t)) = Cardinality(R(s) \cup H) BY <1>3
  <2>. HIDE DEF R, H
  <2>. QED BY <1>5, <1>6, <1>7, <2>1, <2>2
<1>. QED BY <1>6, <1>8 DEF Running

LEMMA OneRunning ==
  ASSUME NEW c, NEW x \in Items
  PROVE  <<x>> \in Seq(Items) /\ Running(c, <<x>>) = IF IsLink(c, x) THEN 1 ELSE 0
<1>1. <<x>> \in Seq(Items) /\ DOMAIN <<x>> = {1} /\ <<x>>[1] = x OBVIOUS
<1>2. {i \in DOMAIN <<x>> : IsLink(c, <<x>>[i])} = IF IsLink(c, x) THEN {1} ELSE {} BY <1>1
<1>3. Cardinality({1}) = 1 /\ Cardinality({}) = 0 BY FS_Singleton, FS_EmptySet
<1>. QED BY <1>1, <1>2, <1>3 DEF Running

LEMMA HeadRunning ==
  ASSUME NEW c, NEW s \in Seq(Items), s # <<>>
  PROVE  /\ Head(s) \in Items /\ Tail(s) \in Seq(Items)
         /\ Running(c, s) = (IF IsLink(c, Head(s)) THEN 1 ELSE 0) + Running(c, Tail(s))
<1>1. Head(s) \in Items /\ Tail(s) \in Seq(Items) /\ s = <<Head(s)>> \o Tail(s) OBVIOUS
<1>2. <<Head(s)>> \in Seq(Items) /\ Running(c, <<Head(s)>>) = IF IsLink(c, Head(s)) THEN 1 ELSE 0
  BY <1>1, OneRunning
<1>3. Running(c, <<Head(s)>> \o Tail(s)) = Running(c, <<Head(s)>>) + Running(c, Tail(s)) BY <1>1, <1>2, CatRunning
<1>. QED BY <1>1, <1>2, <1>3

LEMMA NoneRunning ==
  ASSUME NEW c, NEW s \in Seq(Items), \A i \in DOMAIN s : ~IsLink(c, s[i])
  PROVE  Running(c, s) = 0
<1>1. {i \in DOMAIN s : IsLink(c, s[i])} = {} OBVIOUS
<1>. QED BY <1>1, FS_EmptySet DEF Running

-----------------------------------------------------------------------------
(* TofDriver: the transfers its operations and callbacks make.               *)
LEMMA SlotFacts == \A b \in Slots : b \in Int /\ b # Own /\ b # Fresh /\ b # Same
BY TofAssumption DEF Slots, Own, Fresh, Same

LEMMA SimpleItems ==
  /\ \A p \in Int, cb \in Callbacks \ Makes : (p = Fresh => cb # "none") => Write(p, cb) \in Items
  /\ \A p, r \in Int, cb \in Callbacks \ Makes :
       /\ p = Fresh => cb # "none"
       /\ r = Fresh => p = Fresh
       /\ cb # "resetEnter"
       => Read(p, r, cb) \in Items
  /\ \A cb \in Makes : Make(cb) \in Items
BY DEF Write, Read, Make, Items, Proper, Makes, Own, Fresh, Callbacks

\* no read and no reset is under way in s
Idle(s) == \A c \in Chains : Running(c, s) = 0

LEMMA LinkFacts ==
  ASSUME NEW c \in Chains, NEW x
  PROVE  /\ c = "read" \/ c = "reset"
         /\ c = "read" => (IsLink(c, x) <=> x.cb \in {"dataReady", "readData"})
         /\ c = "reset" => (IsLink(c, x) <=> x.cb \in {"reset", "resetEnter", "resetExit", "firmware", "config"})
BY DEF Chains, IsLink, Links

LEMMA WriteRegItems ==
  ASSUME NEW p \in Int, NEW cb \in Callbacks \ Makes, p = Fresh => cb # "none"
  PROVE  /\ WriteReg(p, cb) \in Seq(Items)
         /\ \A c \in Chains : Running(c, WriteReg(p, cb)) = IF cb \in Links(c) THEN 1 ELSE 0
         /\ \A b \in Slots : /\ b # p => Unused(b, WriteReg(p, cb))
                             /\ cb = "none" => Kept(b, WriteReg(p, cb))
                             /\ b = p /\ cb # "none" => Ends(b, WriteReg(p, cb))
<1> DEFINE s == WriteReg(p, cb)
<1>1. Write(Fresh, "destroy") \in Items /\ Write(p, cb) \in Items
  BY SimpleItems DEF Fresh, Callbacks, Makes
<1>2. s \in Seq(Items) /\ DOMAIN s = {1, 2} /\ s[1] = Write(Fresh, "destroy") /\ s[2] = Write(p, cb)
  BY <1>1 DEF WriteReg
<1>3. ASSUME NEW c \in Chains PROVE Running(c, s) = IF cb \in Links(c) THEN 1 ELSE 0
  <2>1. PICK y, z : y = Write(Fresh, "destroy") /\ z = Write(p, cb) OBVIOUS
  <2>2. y.cb = "destroy" /\ z.cb = cb BY <2>1 DEF Write
  <2>3. ~IsLink(c, y) /\ (IsLink(c, z) <=> cb \in Links(c)) BY <2>2, LinkFacts DEF IsLink
  <2>4. /\ <<y>> \in Seq(Items) /\ Running(c, <<y>>) = 0
        /\ <<z>> \in Seq(Items) /\ Running(c, <<z>>) = IF cb \in Links(c) THEN 1 ELSE 0
    BY <1>1, <2>1, <2>3, OneRunning
  <2>5. s = <<y>> \o <<z>> BY <2>1 DEF WriteReg
  <2>6. Running(c, <<y>> \o <<z>>) = Running(c, <<y>>) + Running(c, <<z>>) BY <2>4, CatRunning
  <2>7. PICK n \in {0, 1} : n = IF cb \in Links(c) THEN 1 ELSE 0 OBVIOUS
  <2>8. Running(c, <<y>> \o <<z>>) = n BY <2>4, <2>6, <2>7
  <2>. QED BY <2>5, <2>7, <2>8
<1>4. \A b \in Slots : /\ ~Touches(s[1], b)
                       /\ Touches(s[2], b) <=> b = p
                       /\ s[2].cb = cb
  BY <1>2, SlotFacts DEF Touches, Write
<1>5. \A b \in Slots : b # p => Unused(b, s) BY <1>2, <1>4 DEF Unused
<1>6. \A b \in Slots : cb = "none" => Kept(b, s) BY <1>2, <1>4 DEF Kept
<1>7. \A b \in Slots : b = p /\ cb # "none" => Ends(b, s) BY <1>2, <1>4 DEF Ends
<1>. QED BY <1>2, <1>3, <1>5, <1>6, <1>7

LEMMA CatAll ==
  ASSUME NEW s \in Seq(Items), NEW t \in Seq(Items)
  PROVE  /\ s \o t \in Seq(Items) /\ (Idle(s) /\ Idle(t) => Idle(s \o t))
         /\ \A b \in Slots : /\ Unused(b, s) /\ Unused(b, t) => Unused(b, s \o t)
                             /\ Kept(b, s) /\ Kept(b, t) => Kept(b, s \o t)
                             /\ Kept(b, s) /\ Ends(b, t) => Ends(b, s \o t)
                             /\ Ends(b, s) /\ Unused(b, t) => Ends(b, s \o t)
<1>1. s \o t \in Seq(Items) OBVIOUS
<1>2. Idle(s) /\ Idle(t) => Idle(s \o t) BY CatRunning DEF Idle
<1>. QED BY <1>1, <1>2, CatUnused, CatKept, CatKeptEnds, CatEndsUnused

\* s uses the buffers that were chosen for it, each to its end, and no other
Releases(s, chosen) ==
  /\ s \in Seq(Items)
  /\ \A b \in Slots : IF b \in chosen THEN Ends(b, s) ELSE Unused(b, s)

LEMMA ModeItems ==
  ASSUME NEW A \in Slots, NEW B \in Slots, NEW C \in Slots, NEW D \in Slots,
         A # B, A # C, A # D, B # C, B # D, C # D
  PROVE  Releases(Mode(A, B, C, D), {A, B, C, D}) /\ Idle(Mode(A, B, C, D))
<1> DEFINE Nothing(s) == s \in Seq(Items) /\ Idle(s)
<1>0. \A p \in Slots : p \in Int /\ p # Fresh BY SlotFacts
<1>1. PICK a1 : a1 = WriteReg(A, "none") OBVIOUS
<1>2. PICK b1 : b1 = WriteReg(B, "none") OBVIOUS
<1>3. PICK c1 : c1 = WriteReg(C, "destroy") OBVIOUS
<1>4. PICK a2 : a2 = WriteReg(A, "destroy") OBVIOUS
<1>5. PICK b2 : b2 = WriteReg(B, "destroy") OBVIOUS
<1>6. PICK d1 : d1 = WriteReg(D, "none") OBVIOUS
<1>7. PICK d2 : d2 = WriteReg(D, "destroy") OBVIOUS
<1>8. Mode(A, B, C, D) = a1 \o b1 \o c1 \o a2 \o b2 \o d1 \o d2
  BY <1>1, <1>2, <1>3, <1>4, <1>5, <1>6, <1>7 DEF Mode
<1>9. \A p \in Slots :
        /\ Nothing(WriteReg(p, "none")) /\ Nothing(WriteReg(p, "destroy"))
        /\ \A b \in Slots : /\ b # p => Unused(b, WriteReg(p, "none")) /\ Unused(b, WriteReg(p, "destroy"))
                            /\ Kept(b, WriteReg(p, "none"))
                            /\ b = p => Ends(b, WriteReg(p, "destroy"))
  <2>1. "none" \in Callbacks \ Makes /\ "destroy" \in Callbacks \ Makes BY DEF Callbacks, Makes
  <2>2. \A c \in Chains : "none" \notin Links(c) /\ "destroy" \notin Links(c) BY DEF Chains, Links
  <2>. QED BY <1>0, <2>1, <2>2, WriteRegItems DEF Idle
<1>10. \A b \in Slots : \A s : Unused(b, s) => Kept(b, s) BY UnusedKept
<1>11. PICK s2 : s2 = a1 \o b1 OBVIOUS
<1>12. PICK s3 : s3 = s2 \o c1 OBVIOUS
<1>13. PICK s4 : s4 = s3 \o a2 OBVIOUS
<1>14. PICK s5 : s5 = s4 \o b2 OBVIOUS
<1>15. PICK s6 : s6 = s5 \o d1 OBVIOUS
<1>16. Mode(A, B, C, D) = s6 \o d2 BY <1>8, <1>11, <1>12, <1>13, <1>14, <1>15
<1>21. /\ Nothing(s2)
       /\ \A b \in Slots : /\ b \in {A, B} => Kept(b, s2)
                           /\ b \notin {A, B} => Unused(b, s2)
  <2>1. Nothing(a1) /\ Nothing(b1) BY <1>1, <1>2, <1>9
  <2>. QED BY <1>1, <1>2, <1>9, <1>10, <1>11, <2>1, CatAll
<1>22. /\ Nothing(s3)
       /\ \A b \in Slots : /\ b \in {A, B} => Kept(b, s3)
                           /\ b = C => Ends(b, s3)
                           /\ b \notin {A, B, C} => Unused(b, s3)
  <2>1. Nothing(c1) BY <1>3, <1>9
  <2>. QED BY <1>3, <1>9, <1>10, <1>12, <1>21, <2>1, CatAll
<1>23. /\ Nothing(s4)
       /\ \A b \in Slots : /\ b = B => Kept(b, s4)
                           /\ b \in {A, C} => Ends(b, s4)
                           /\ b \notin {A, B, C} => Unused(b, s4)
  <2>1. Nothing(a2) BY <1>4, <1>9
  <2>. QED BY <1>4, <1>9, <1>10, <1>13, <1>22, <2>1, CatAll
<1>24. /\ Nothing(s5)
       /\ \A b \in Slots : /\ b \in {A, B, C} => Ends(b, s5)
                           /\ b \notin {A, B, C} => Unused(b, s5)
  <2>1. Nothing(b2) BY <1>5, <1>9
  <2>. QED BY <1>5, <1>9, <1>10, <1>14, <1>23, <2>1, CatAll
<1>25. /\ Nothing(s6)
       /\ \A b \in Slots : /\ b \in {A, B, C} => Ends(b, s6)
                           /\ b = D => Kept(b, s6)
                           /\ b \notin {A, B, C, D} => Unused(b, s6)
  <2>1. Nothing(d1) BY <1>6, <1>9
  <2>. QED BY <1>6, <1>9, <1>10, <1>15, <1>24, <2>1, CatAll
<1>26. /\ Nothing(s6 \o d2)
       /\ \A b \in Slots : /\ b \in {A, B, C, D} => Ends(b, s6 \o d2)
                           /\ b \notin {A, B, C, D} => Unused(b, s6 \o d2)
  <2>1. Nothing(d2) BY <1>7, <1>9
  <2>. QED BY <1>7, <1>9, <1>10, <1>25, <2>1, CatAll
<1>. QED BY <1>16, <1>26 DEF Releases

LEMMA MadeItems ==
  ASSUME NEW h \in Items, h.op = "make", NEW new \in Injection(1 .. Needs(h), Slots)
  PROVE  /\ Releases(Made(h, new), Range(new))
         /\ \A c \in Chains : Running(c, Made(h, new)) = IF IsLink(c, h) THEN 1 ELSE 0
<1>1. h.cb \in {"mode", "reset", "clear"} BY DEF Items, Proper, Makes
<1>2. CASE h.cb = "mode"
  <2>1. Needs(h) = 4 /\ Made(h, new) = Mode(new[1], new[2], new[3], new[4]) BY <1>2 DEF Needs, Made
  <2>2. DOMAIN new = 1 .. 4 /\ new \in [1 .. 4 -> Slots] /\ \A x, y \in 1 .. 4 : new[x] = new[y] => x = y
    BY <2>1 DEF Injection, IsInjective
  <2>3. Range(new) = {new[1], new[2], new[3], new[4]} BY <2>2 DEF Range
  <2>4. /\ new[1] \in Slots /\ new[2] \in Slots /\ new[3] \in Slots /\ new[4] \in Slots
        /\ new[1] # new[2] /\ new[1] # new[3] /\ new[1] # new[4]
        /\ new[2] # new[3] /\ new[2] # new[4] /\ new[3] # new[4]
    BY <2>2
  <2>5. PICK A \in Slots, B \in Slots, C \in Slots, D \in Slots :
          /\ A = new[1] /\ B = new[2] /\ C = new[3] /\ D = new[4]
          /\ A # B /\ A # C /\ A # D /\ B # C /\ B # D /\ C # D
    BY <2>4
  <2>6. Releases(Mode(A, B, C, D), {A, B, C, D}) /\ Idle(Mode(A, B, C, D)) BY <2>5, ModeItems
  <2>7. Made(h, new) = Mode(A, B, C, D) /\ Range(new) = {A, B, C, D} BY <2>1, <2>3, <2>5
  <2>8. \A c \in Chains : ~IsLink(c, h) BY <1>2, LinkFacts
  <2>. QED BY <2>6, <2>7, <2>8 DEF Idle
<1>3. CASE h.cb \in {"reset", "clear"}
  <2>1. Needs(h) = 1 BY <1>3 DEF Needs
  <2>2. DOMAIN new = {1} /\ new[1] \in Slots BY <2>1 DEF Injection
  <2>3. Range(new) = {new[1]} BY <2>2 DEF Range
  <2>4. PICK cb \in {"resetEnter", "destroy"} :
          Made(h, new) = WriteReg(new[1], cb) /\ (cb = "resetEnter" <=> h.cb = "reset")
    BY <1>3 DEF Made
  <2>5. cb \in Callbacks \ Makes /\ cb # "none" BY DEF Callbacks, Makes
  <2>6. new[1] \in Int /\ new[1] # Fresh BY <2>2, SlotFacts
  <2>7. /\ WriteReg(new[1], cb) \in Seq(Items)
        /\ \A c \in Chains : Running(c, WriteReg(new[1], cb)) = IF cb \in Links(c) THEN 1 ELSE 0
        /\ \A b \in Slots : /\ b # new[1] => Unused(b, WriteReg(new[1], cb))
                            /\ b = new[1] => Ends(b, WriteReg(new[1], cb))
    BY <2>5, <2>6, WriteRegItems
  <2>8. \A c \in Chains : IsLink(c, h) <=> cb \in Links(c)
    BY <1>3, <2>4 DEF Chains, IsLink, Links
  <2>. QED BY <2>3, <2>4, <2>7, <2>8 DEF Releases
<1>. QED BY <1>1, <1>2, <1>3

\* the callback of x hands over the next link of the chain c
Continues(c, x, good, bit) ==
  IF c = "read" THEN x.cb = "dataReady" /\ good
  ELSE (x.cb \in {"resetEnter", "firmware"} /\ good) \/ x.cb = "resetExit"

LEMMA FollowsItems ==
  ASSUME NEW x \in Items, NEW good \in BOOLEAN, NEW bit \in BOOLEAN
  PROVE  /\ Follows(x, good, bit) \in Seq(Items)
         /\ \A c \in Chains : Running(c, Follows(x, good, bit)) = IF Continues(c, x, good, bit) THEN 1 ELSE 0
         /\ \A b \in Slots : IF x.cb = "resetEnter" /\ good /\ b = x.tx
                             THEN Ends(b, Follows(x, good, bit))
                             ELSE Unused(b, Follows(x, good, bit))
<1>0. x.tx \in Int /\ x.cb \in Callbacks BY DEF Items
<1>1. ASSUME NEW y \in Items, \A b \in Slots : ~Touches(y, b)
      PROVE  /\ <<y>> \in Seq(Items)
             /\ \A c \in Chains : Running(c, <<y>>) = IF IsLink(c, y) THEN 1 ELSE 0
             /\ \A b \in Slots : Unused(b, <<y>>)
  BY <1>1, OneItem, OneRunning
<1>2. /\ Read(Fresh, Same, "dataReady") \in Items /\ Read(Fresh, Fresh, "readData") \in Items
      /\ Read(Fresh, Fresh, "firmware") \in Items /\ Make("clear") \in Items /\ Write(Own, "config") \in Items
  BY SimpleItems DEF Fresh, Same, Own, Callbacks, Makes
<1>3. \A b \in Slots : /\ ~Touches(Read(Fresh, Same, "dataReady"), b)
                       /\ ~Touches(Read(Fresh, Fresh, "readData"), b)
                       /\ ~Touches(Read(Fresh, Fresh, "firmware"), b)
                       /\ ~Touches(Make("clear"), b) /\ ~Touches(Write(Own, "config"), b)
  BY SlotFacts DEF Touches, Read, Make, Write
<1>4. /\ Read(Fresh, Same, "dataReady").cb = "dataReady" /\ Read(Fresh, Fresh, "readData").cb = "readData"
      /\ Read(Fresh, Fresh, "firmware").cb = "firmware" /\ Make("clear").cb = "clear"
      /\ Write(Own, "config").cb = "config"
  BY DEF Read, Make, Write
<1>5. CASE x.cb = "dataReady" /\ good
  <2>1. PICK y \in {Read(Fresh, Fresh, "readData"), Read(Fresh, Same, "dataReady")} :
          Follows(x, good, bit) = <<y>>
    BY <1>5 DEF Follows, AfterRead, Links, ReadData, DataReady
  <2>2. y \in Items /\ (\A b \in Slots : ~Touches(y, b)) /\ y.cb \in {"dataReady", "readData"}
    BY <1>2, <1>3, <1>4, <2>1
  <2>3. \A c \in Chains : IsLink(c, y) <=> Continues(c, x, good, bit)
    BY <1>5, <2>2 DEF Chains, IsLink, Links, Continues
  <2>. QED BY <1>1, <1>5, <2>1, <2>2, <2>3
<1>6. CASE (x.cb = "firmware" /\ good) \/ x.cb = "resetExit"
  <2>1. PICK y \in {Write(Own, "config"), Read(Fresh, Fresh, "firmware")} : Follows(x, good, bit) = <<y>>
    BY <1>6 DEF Follows, AfterReset, Links, Firmware
  <2>2. y \in Items /\ (\A b \in Slots : ~Touches(y, b)) /\ y.cb \in {"config", "firmware"}
    BY <1>2, <1>3, <1>4, <2>1
  <2>3. \A c \in Chains : IsLink(c, y) <=> Continues(c, x, good, bit)
    BY <1>6, <2>2 DEF Chains, IsLink, Links, Continues
  <2>. QED BY <1>1, <1>6, <2>1, <2>2, <2>3
<1>7. CASE x.cb = "readData"
  <2>1. Follows(x, good, bit) = <<Make("clear")>> BY <1>7 DEF Follows, AfterRead, Links
  <2>2. PICK y : y = Make("clear") OBVIOUS
  <2>3. y \in Items /\ (\A b \in Slots : ~Touches(y, b)) /\ y.cb = "clear" BY <1>2, <1>3, <1>4, <2>2
  <2>4. \A c \in Chains : ~IsLink(c, y) /\ ~Continues(c, x, good, bit)
    BY <1>7, <2>3 DEF Chains, IsLink, Links, Continues
  <2>. QED BY <1>1, <1>7, <2>1, <2>2, <2>3, <2>4
<1>8. CASE x.cb = "resetEnter" /\ good
  <2>1. Follows(x, good, bit) = WriteReg(x.tx, "resetExit") BY <1>8 DEF Follows, AfterReset, Links
  <2>2. "resetExit" \in Callbacks \ Makes /\ "resetExit" # "none" BY DEF Callbacks, Makes
  <2>3. \A c \in Chains : "resetExit" \in Links(c) <=> Continues(c, x, good, bit)
    BY <1>8 DEF Chains, Links, Continues
  <2>. QED BY <1>0, <1>8, <2>1, <2>2, <2>3, WriteRegItems
<1>9. CASE /\ ~(x.cb = "dataReady" /\ good) /\ x.cb # "readData" /\ ~(x.cb = "firmware" /\ good)
           /\ ~(x.cb = "resetEnter" /\ good) /\ x.cb # "resetExit"
  <2>1. Follows(x, good, bit) = <<>> BY <1>9 DEF Follows, AfterRead, AfterReset
  <2>2. <<>> \in Seq(Items) /\ DOMAIN <<>> = {} OBVIOUS
  <2>3. \A c \in Chains : Running(c, <<>>) = 0 BY <2>2, NoneRunning
  <2>4. \A b : Unused(b, <<>>) BY <2>2 DEF Unused
  <2>5. \A c \in Chains : ~Continues(c, x, good, bit) BY <1>9 DEF Continues
  <2>. QED BY <1>9, <2>1, <2>2, <2>3, <2>4, <2>5
<1>. QED BY <1>5, <1>6, <1>7, <1>8, <1>9

-----------------------------------------------------------------------------
(* TofDriver: every action keeps the invariant.                              *)
LEMMA BeginEffect ==
  ASSUME TofTypes, NEW items \in Seq(Items), Begin(items)
  PROVE  /\ todo' \in [Threads -> Seq(Items)] /\ todo["application"] = <<>>
         /\ todo'["application"] = items /\ todo'["controller"] = todo["controller"]
         /\ ~halted /\ calls' \in Nat
         /\ UNCHANGED <<controller, queue, live, answered, dropped>>
BY DEF Begin, TofTypes, Threads

LEMMA EmptySequence ==
  /\ <<>> \in Seq(Items) /\ \A c : Running(c, <<>>) = 0
  /\ \A b : Unused(b, <<>>) /\ Kept(b, <<>>) /\ ~Ends(b, <<>>)
<1>1. <<>> \in Seq(Items) /\ DOMAIN <<>> = {} OBVIOUS
<1>2. \A c : Running(c, <<>>) = 0 BY <1>1, NoneRunning
<1>. QED BY <1>1, <1>2 DEF Unused, Kept, Ends

LEMMA BeginKeeps ==
  ASSUME TofInv, NEW items \in Seq(Items), Begin(items), halted' \in BOOLEAN,
         asked' \in [Chains -> Nat], \A c \in Chains : asked'[c] = asked[c] + Running(c, items),
         \A b \in Slots : Unused(b, items)
  PROVE  TofInv'
<1>1. /\ TofTypes /\ Accounted /\ Owned BY DEF TofInv
<1>2. /\ todo' \in [Threads -> Seq(Items)] /\ todo["application"] = <<>>
      /\ todo'["application"] = items /\ todo'["controller"] = todo["controller"]
      /\ ~halted /\ calls' \in Nat
      /\ UNCHANGED <<controller, queue, live, answered, dropped>>
  BY <1>1, BeginEffect
<1>3. TofTypes' BY <1>1, <1>2 DEF TofTypes
<1>4. ASSUME NEW c \in Chains PROVE Balanced(c)'
  <2>1. /\ Running(c, queue) \in Nat /\ Running(c, todo["controller"]) \in Nat /\ Running(c, items) \in Nat
        /\ Running(c, todo["application"]) = 0
    BY <1>1, <1>2, CatRunning, EmptySequence DEF TofTypes, Threads
  <2>2. asked[c] \in Nat /\ answered[c] \in Nat /\ dropped[c] \in Nat BY <1>1 DEF TofTypes
  <2>3. asked[c] = answered[c] + dropped[c] + Running(c, queue) + Running(c, todo["controller"])
    BY <1>1, <1>2, <2>1, <2>2 DEF Accounted, Balanced
  <2>4. asked'[c] = answered[c] + dropped[c] + Running(c, queue) + Running(c, todo["controller"])
                      + Running(c, items)
    BY <2>1, <2>2, <2>3
  <2>. QED BY <1>2, <2>4 DEF Balanced
<1>5. Owned'
  <2>1. ASSUME NEW b \in Slots
        PROVE  Settled(b, live, queue, todo["controller"], items)
    <3>1. Settled(b, live, queue, todo["controller"], <<>>) BY <1>1, <1>2 DEF Owned
    <3>2. Unused(b, items) /\ ~Ends(b, <<>>) /\ Unused(b, <<>>) BY EmptySequence
    <3>. QED BY <3>1, <3>2 DEF Settled, Held
  <2>. QED BY <1>2, <2>1 DEF Owned
<1>. QED BY <1>3, <1>4, <1>5 DEF TofInv, Accounted

\* a call that begins no chain, and one that begins the chain c
LEMMA AskedFacts ==
  ASSUME TofInv
  PROVE  /\ UNCHANGED asked => asked' \in [Chains -> Nat] /\ \A d \in Chains : asked'[d] = asked[d] + 0
         /\ \A c \in Chains : Asks(c) =>
              /\ asked' \in [Chains -> Nat]
              /\ \A d \in Chains : asked'[d] = asked[d] + IF d = c THEN 1 ELSE 0
<1>1. asked \in [Chains -> Nat] BY DEF TofInv, TofTypes
<1>. QED BY <1>1 DEF Asks

LEMMA CallsKeep ==
  TofInv /\ (CallRead \/ CallQuery \/ CallMode \/ CallReset \/ CallStart) => TofInv'
<1> SUFFICES ASSUME TofInv, CallRead \/ CallQuery \/ CallMode \/ CallReset \/ CallStart PROVE TofInv'
  OBVIOUS
<1>0. halted \in BOOLEAN BY DEF TofInv, TofTypes
<1>1. ASSUME NEW y \in Items, \A b \in Slots : ~Touches(y, b)
      PROVE  /\ <<y>> \in Seq(Items)
             /\ \A c \in Chains : Running(c, <<y>>) = IF IsLink(c, y) THEN 1 ELSE 0
             /\ \A b \in Slots : Unused(b, <<y>>)
  BY <1>1, OneItem, OneRunning
<1>2. CASE CallRead
  <2>1. PICK y : y = Read(Fresh, Same, "dataReady") OBVIOUS
  <2>2. y \in Items BY <2>1, SimpleItems DEF Fresh, Same, Callbacks, Makes
  <2>3. \A b \in Slots : ~Touches(y, b) BY <2>1, SlotFacts DEF Touches, Read
  <2>4. y.cb = "dataReady" BY <2>1 DEF Read
  <2>5. \A c \in Chains : IsLink(c, y) <=> c = "read" BY <2>4, LinkFacts
  <2>6. PICK items : items = <<y>> OBVIOUS
  <2>7. /\ items \in Seq(Items) /\ \A b \in Slots : Unused(b, items)
        /\ \A c \in Chains : Running(c, items) = IF c = "read" THEN 1 ELSE 0
    BY <1>1, <2>2, <2>3, <2>5, <2>6
  <2>8. Begin(items) /\ Asks("read") /\ halted' = halted BY <1>2, <2>1, <2>6 DEF CallRead, DataReady
  <2>9. asked' \in [Chains -> Nat] /\ \A c \in Chains : asked'[c] = asked[c] + Running(c, items)
    BY <2>7, <2>8, AskedFacts DEF Chains
  <2>. QED BY <1>0, <2>7, <2>8, <2>9, BeginKeeps
<1>3. CASE CallQuery
  <2>1. PICK y : y = Read(Fresh, Fresh, "query") OBVIOUS
  <2>2. y \in Items BY <2>1, SimpleItems DEF Fresh, Callbacks, Makes
  <2>3. \A b \in Slots : ~Touches(y, b) BY <2>1, SlotFacts DEF Touches, Read
  <2>4. y.cb = "query" BY <2>1 DEF Read
  <2>5. \A c \in Chains : ~IsLink(c, y) BY <2>4, LinkFacts
  <2>6. PICK items : items = <<y>> OBVIOUS
  <2>7. /\ items \in Seq(Items) /\ \A b \in Slots : Unused(b, items)
        /\ \A c \in Chains : Running(c, items) = 0
    BY <1>1, <2>2, <2>3, <2>5, <2>6
  <2>8. Begin(items) /\ asked' = asked /\ halted' = halted BY <1>3, <2>1, <2>6 DEF CallQuery, Query
  <2>9. asked' \in [Chains -> Nat] /\ \A c \in Chains : asked'[c] = asked[c] + Running(c, items)
    BY <2>7, <2>8, AskedFacts
  <2>. QED BY <1>0, <2>7, <2>8, <2>9, BeginKeeps
<1>4. ASSUME NEW what \in {"mode", "reset"}
      PROVE  /\ <<Make(what)>> \in Seq(Items)
             /\ \A c \in Chains : Running(c, <<Make(what)>>) = IF what = "reset" /\ c = "reset" THEN 1 ELSE 0
             /\ \A b \in Slots : Unused(b, <<Make(what)>>)
  <2>1. PICK y : y = Make(what) OBVIOUS
  <2>2. y \in Items BY <2>1, SimpleItems DEF Makes
  <2>3. \A b \in Slots : ~Touches(y, b) BY <2>1, SlotFacts DEF Touches, Make
  <2>4. y.cb = what BY <2>1 DEF Make
  <2>5. \A c \in Chains : IsLink(c, y) <=> what = "reset" /\ c = "reset" BY <2>4, LinkFacts
  <2>. QED BY <1>1, <2>1, <2>2, <2>3, <2>5
<1>5. CASE CallMode
  <2>1. Begin(<<Make("mode")>>) /\ asked' = asked /\ halted' = halted BY <1>5 DEF CallMode
  <2>2. PICK items : items = <<Make("mode")>> OBVIOUS
  <2>3. items \in Seq(Items) /\ (\A c \in Chains : Running(c, items) = 0) /\ \A b \in Slots : Unused(b, items)
    BY <1>4, <2>2
  <2>4. asked' \in [Chains -> Nat] /\ \A c \in Chains : asked'[c] = asked[c] + Running(c, items)
    BY <2>1, <2>3, AskedFacts
  <2>. QED BY <1>0, <2>1, <2>2, <2>3, <2>4, BeginKeeps
<1>6. PICK end : end = <<Make("reset")>> OBVIOUS
<1>7. /\ end \in Seq(Items) /\ \A b \in Slots : Unused(b, end)
      /\ \A c \in Chains : Running(c, end) = IF c = "reset" THEN 1 ELSE 0
  BY <1>4, <1>6
<1>8. CASE CallReset
  <2>1. Begin(end) /\ Asks("reset") /\ halted' = halted BY <1>6, <1>8 DEF CallReset
  <2>2. asked' \in [Chains -> Nat] /\ \A c \in Chains : asked'[c] = asked[c] + Running(c, end)
    BY <1>7, <2>1, AskedFacts DEF Chains
  <2>. QED BY <1>0, <1>7, <2>1, <2>2, BeginKeeps
<1>9. CASE CallStart
  <2>1. PICK trim : trim = [i \in 1 .. TrimBytes |-> Read(Fresh, Own, "destroy")] OBVIOUS
  <2>2. PICK two : two = <<Read(Fresh, Own, "modelID"), Read(Fresh, Own, "destroy")>> OBVIOUS
  <2>3. Read(Fresh, Own, "modelID") \in Items /\ Read(Fresh, Own, "destroy") \in Items
    BY SimpleItems DEF Fresh, Own, Callbacks, Makes
  <2>4. \A b \in Slots : /\ ~Touches(Read(Fresh, Own, "modelID"), b)
                         /\ ~Touches(Read(Fresh, Own, "destroy"), b)
    BY SlotFacts DEF Touches, Read
  <2>5. \A c \in Chains : ~IsLink(c, Read(Fresh, Own, "modelID")) /\ ~IsLink(c, Read(Fresh, Own, "destroy"))
    BY LinkFacts DEF Read
  <2>6. /\ trim \in Seq(Items) /\ DOMAIN trim = 1 .. TrimBytes
        /\ \A i \in DOMAIN trim : trim[i] = Read(Fresh, Own, "destroy")
    <3>1. TrimBytes \in Nat BY TofAssumption
    <3>2. trim \in [1 .. TrimBytes -> Items] BY <2>1, <2>3
    <3>. QED BY <2>1, <3>1, <3>2
  <2>7. /\ two \in Seq(Items) /\ DOMAIN two = {1, 2}
        /\ two[1] = Read(Fresh, Own, "modelID") /\ two[2] = Read(Fresh, Own, "destroy")
    BY <2>2, <2>3
  <2>8. Idle(trim) /\ \A b \in Slots : Unused(b, trim)
    <3>1. \A c \in Chains : \A i \in DOMAIN trim : ~IsLink(c, trim[i]) BY <2>5, <2>6
    <3>. QED BY <2>4, <2>6, <3>1, NoneRunning DEF Unused, Idle
  <2>9. Idle(two) /\ \A b \in Slots : Unused(b, two)
    <3>1. \A c \in Chains : \A i \in DOMAIN two : ~IsLink(c, two[i]) BY <2>5, <2>7
    <3>. QED BY <2>4, <2>7, <3>1, NoneRunning DEF Unused, Idle
  <2>10. PICK first : first = two \o trim OBVIOUS
  <2>11. first \in Seq(Items) /\ Idle(first) /\ \A b \in Slots : Unused(b, first)
    BY <2>6, <2>7, <2>8, <2>9, <2>10, CatAll
  <2>12. PICK items : items = first \o end OBVIOUS
  <2>13. Begin(items) /\ Asks("reset") /\ halted' \in BOOLEAN
    BY <1>6, <1>9, <2>1, <2>2, <2>10, <2>12 DEF CallStart, Startup
  <2>14. items \in Seq(Items) /\ \A b \in Slots : Unused(b, items)
    BY <1>7, <2>11, <2>12, CatAll
  <2>15. ASSUME NEW c \in Chains PROVE Running(c, items) = IF c = "reset" THEN 1 ELSE 0
    <3>1. Running(c, first) = 0 BY <2>11 DEF Idle
    <3>2. Running(c, items) = Running(c, first) + Running(c, end) BY <1>7, <2>11, <2>12, CatRunning
    <3>. QED BY <1>7, <3>1, <3>2
  <2>16. asked' \in [Chains -> Nat] /\ \A c \in Chains : asked'[c] = asked[c] + Running(c, items)
    BY <2>13, <2>15, AskedFacts DEF Chains
  <2>. QED BY <2>13, <2>14, <2>16, BeginKeeps
<1>. QED BY <1>2, <1>3, <1>5, <1>8, <1>9

LEMMA Swapped ==
  ASSUME NEW b, NEW inuse, NEW q, NEW s, NEW o
  PROVE  Settled(b, inuse, q, s, o) <=> Settled(b, inuse, q, o, s)
BY DEF Settled, Held

\* a pending operation is replaced by the transfers it makes, with new buffers
LEMMA MakeSettles ==
  ASSUME NEW b \in Slots, NEW inuse \in SUBSET Slots, NEW fresh \in SUBSET Slots, fresh \cap inuse = {},
         NEW q \in Seq(Items), NEW s \in Seq(Items), NEW o \in Seq(Items),
         Settled(b, inuse, q, s, o), s # <<>>, ~Touches(Head(s), b),
         NEW m \in Seq(Items), IF b \in fresh THEN Ends(b, m) ELSE Unused(b, m)
  PROVE  Settled(b, inuse \cup fresh, q, m \o Tail(s), o)
<1>1. /\ Tail(s) \in Seq(Items)
      /\ Unused(b, s) => Unused(b, Tail(s))
      /\ Ends(b, s) => Ends(b, Tail(s))
  BY HeadAndTail
<1>2. CASE b \in fresh
  <2>1. Unused(b, q) /\ Unused(b, Tail(s)) /\ Unused(b, o) BY <1>1, <1>2 DEF Settled
  <2>2. Ends(b, m \o Tail(s)) BY <1>1, <1>2, <2>1, CatEndsUnused
  <2>. QED BY <1>2, <2>1, <2>2, UnusedKept DEF Settled, Held
<1>3. CASE b \notin fresh
  <2>1. Unused(b, Tail(s)) => Unused(b, m \o Tail(s)) BY <1>1, <1>3, CatUnused
  <2>2. Ends(b, Tail(s)) => Ends(b, m \o Tail(s)) BY <1>1, <1>3, CatKeptEnds, UnusedKept
  <2>. QED BY <1>1, <1>3, <2>1, <2>2 DEF Settled, Held
<1>. QED BY <1>2, <1>3

\* a transfer is sent: it leaves the thread and joins the queue, with the buffers
\* it was given on the way
LEMMA SendSettles ==
  ASSUME NEW b \in Slots, NEW inuse \in SUBSET Slots, NEW fresh \in SUBSET Slots, fresh \cap inuse = {},
         NEW q \in Seq(Items), NEW s \in Seq(Items), NEW o \in Seq(Items),
         Settled(b, inuse, q, s, o), s # <<>>,
         NEW x \in Items, x.cb = Head(s).cb,
         b \in fresh => Touches(x, b) /\ x.cb # "none",
         b \notin fresh => (Touches(x, b) <=> Touches(Head(s), b))
  PROVE  Settled(b, inuse \cup fresh, Append(q, x), Tail(s), o)
<1>1. /\ Tail(s) \in Seq(Items)
      /\ Unused(b, s) => ~Touches(Head(s), b) /\ Unused(b, Tail(s))
      /\ Ends(b, s) => \/ Touches(Head(s), b) /\ Head(s).cb # "none" /\ Unused(b, Tail(s))
                       \/ (Touches(Head(s), b) => Head(s).cb = "none") /\ Ends(b, Tail(s))
  BY HeadAndTail
<1>2. /\ <<x>> \in Seq(Items)
      /\ ~Touches(x, b) => Unused(b, <<x>>)
      /\ (Touches(x, b) => x.cb = "none") => Kept(b, <<x>>)
      /\ Touches(x, b) /\ x.cb # "none" => Ends(b, <<x>>)
  BY OneItem
<1>3. Append(q, x) = q \o <<x>> BY AppendIsConcat
<1>4. /\ Unused(b, q) /\ Unused(b, <<x>>) => Unused(b, Append(q, x))
      /\ Kept(b, q) /\ Kept(b, <<x>>) => Kept(b, Append(q, x))
      /\ Kept(b, q) /\ Ends(b, <<x>>) => Ends(b, Append(q, x))
      /\ Ends(b, q) /\ Unused(b, <<x>>) => Ends(b, Append(q, x))
  BY <1>2, <1>3, CatUnused, CatKept, CatKeptEnds, CatEndsUnused
<1>5. Unused(b, q) => Kept(b, q) BY UnusedKept
<1>6. CASE b \in fresh
  <2>1. Unused(b, q) /\ Unused(b, Tail(s)) /\ Unused(b, o) BY <1>1, <1>6 DEF Settled
  <2>. QED BY <1>2, <1>4, <1>5, <1>6, <2>1 DEF Settled, Held
<1>7. CASE b \notin fresh
  <2>1. Unused(b, <<x>>) => Kept(b, <<x>>) BY UnusedKept
  <2>2. CASE b \notin inuse BY <1>1, <1>2, <1>4, <1>7, <2>2 DEF Settled
  <2>3. CASE b \in inuse
    <3>1. CASE Ends(b, q) /\ Unused(b, s) /\ Unused(b, o)
      BY <1>1, <1>2, <1>4, <1>7, <2>3, <3>1 DEF Settled, Held
    <3>2. CASE Kept(b, q) /\ Ends(b, s) /\ Unused(b, o)
      BY <1>1, <1>2, <1>4, <1>7, <2>3, <3>2 DEF Settled, Held
    <3>3. CASE Kept(b, q) /\ Unused(b, s) /\ Ends(b, o)
      BY <1>1, <1>2, <1>4, <1>7, <2>1, <2>3, <3>3 DEF Settled, Held
    <3>. QED BY <2>3, <3>1, <3>2, <3>3 DEF Settled, Held
  <2>. QED BY <2>2, <2>3
<1>. QED BY <1>6, <1>7

LEMMA PlacedItem ==
  ASSUME NEW h \in Items, h.op # "make", NEW new \in Injection(1 .. Needs(h), Slots)
  PROVE  /\ Placed(h, new) \in Items /\ Placed(h, new).cb = h.cb /\ Placed(h, new).op # "make"
         /\ \A b \in Slots : /\ b \in Range(new) => Touches(Placed(h, new), b) /\ h.cb # "none"
                             /\ b \notin Range(new) => (Touches(Placed(h, new), b) <=> Touches(h, b))
<1>1. h \in [op : {"write", "writeRead", "make"}, tx : Int, rx : Int, cb : Callbacks] /\ Proper(h)
  BY DEF Items
<1>2. PICK place \in Int : place = IF h.tx = Fresh THEN new[1] ELSE h.tx
  <2>1. h.tx = Fresh => Needs(h) >= 1 /\ Needs(h) \in Int BY DEF Needs
  <2>2. h.tx = Fresh => new[1] \in Slots BY <2>1 DEF Injection
  <2>. QED BY <1>1, <2>2 DEF Slots
<1>3. h.rx = Fresh => h.tx = Fresh /\ Needs(h) = 2 BY <1>1 DEF Proper, Needs
<1>4. h.tx = Fresh /\ h.rx # Fresh => Needs(h) = 1 BY DEF Needs
<1>5. h.tx # Fresh => Needs(h) = 0 /\ h.rx # Fresh BY <1>1 DEF Proper, Needs
<1>6. PICK put \in Int : put = IF h.rx = Fresh THEN new[2] ELSE IF h.rx = Same THEN place ELSE h.rx
  <2>1. h.rx = Fresh => new[2] \in Slots BY <1>3 DEF Injection
  <2>. QED BY <1>1, <2>1 DEF Slots
<1>7. Placed(h, new) = [h EXCEPT !.tx = place, !.rx = put] BY <1>2, <1>6 DEF Placed
<1>8. PICK x : x = Placed(h, new) OBVIOUS
<1>9. /\ x \in [op : {"write", "writeRead", "make"}, tx : Int, rx : Int, cb : Callbacks]
      /\ x.tx = place /\ x.rx = put /\ x.cb = h.cb /\ x.op = h.op
  BY <1>1, <1>7, <1>8
<1>10. CASE h.tx = Fresh /\ h.rx = Fresh
  <2>1. new \in [1 .. 2 -> Slots] BY <1>3, <1>10 DEF Injection
  <2>2. Range(new) = {new[1], new[2]} BY <2>1 DEF Range
  <2>3. h.cb # "none" /\ h.cb # "resetEnter" BY <1>1, <1>10 DEF Proper, Own, Fresh
  <2>4. place = new[1] /\ put = new[2] /\ new[1] \in Slots /\ new[2] \in Slots BY <1>2, <1>6, <1>10, <2>1
  <2>5. x \in Items BY <1>9, <2>3, <2>4, SlotFacts DEF Items, Proper
  <2>6. \A b \in Slots : ~Touches(h, b) BY <1>10, SlotFacts DEF Touches
  <2>. QED BY <1>8, <1>9, <2>2, <2>3, <2>4, <2>5, <2>6 DEF Touches
<1>11. CASE h.tx = Fresh /\ h.rx # Fresh
  <2>1. new \in [1 .. 1 -> Slots] BY <1>4, <1>11 DEF Injection
  <2>2. Range(new) = {new[1]} BY <2>1 DEF Range
  <2>3. h.cb # "none" /\ (h.cb = "resetEnter" => h.rx = Own) BY <1>1, <1>11 DEF Proper
  <2>4. /\ place = new[1] /\ new[1] \in Slots
        /\ put = IF h.rx = Same THEN new[1] ELSE h.rx
    BY <1>2, <1>6, <1>11, <2>1
  <2>5. x \in Items
    <3>1. Own # Same BY DEF Own, Same
    <3>. QED BY <1>9, <1>11, <2>3, <2>4, <3>1, SlotFacts DEF Items, Proper
  <2>6. \A b \in Slots : Touches(h, b) <=> h.rx = b BY <1>11, SlotFacts DEF Touches
  <2>. QED BY <1>8, <1>9, <2>2, <2>3, <2>4, <2>5, <2>6, SlotFacts DEF Touches
<1>12. CASE h.tx # Fresh
  <2>1. new \in [1 .. 0 -> Slots] /\ h.rx # Fresh BY <1>5, <1>12 DEF Injection
  <2>2. Range(new) = {} BY <2>1 DEF Range
  <2>3. place = h.tx /\ put = IF h.rx = Same THEN h.tx ELSE h.rx BY <1>2, <1>6, <1>12, <2>1
  <2>4. x \in Items
    <3>1. Own # Same BY DEF Own, Same
    <3>. QED BY <1>1, <1>9, <1>12, <2>1, <2>3, <3>1 DEF Items, Proper
  <2>5. \A b \in Slots : Touches(x, b) <=> Touches(h, b) BY <1>9, <2>3, SlotFacts DEF Touches
  <2>. QED BY <1>8, <1>9, <2>2, <2>4, <2>5
<1>. QED BY <1>10, <1>11, <1>12

\* buffers that the pool hands out are different ones that nobody uses
LEMMA ChosenBuffers ==
  ASSUME NEW n, NEW new \in Choices(n)
  PROVE  /\ new \in Injection(1 .. n, Slots)
         /\ Range(new) \subseteq Slots /\ Range(new) \cap live = {}
<1>1. new \in [1 .. n -> Slots \ live] /\ IsInjective(new) BY DEF Choices, Injection
<1>2. new \in [1 .. n -> Slots] BY <1>1
<1>3. Range(new) \subseteq Slots \ live BY <1>1 DEF Range
<1>. QED BY <1>1, <1>2, <1>3 DEF Injection

LEMMA OtherThread ==
  ASSUME NEW t \in Threads
  PROVE  \E u \in Threads : {t, u} = {"controller", "application"} /\ t # u
BY DEF Threads

LEMMA IssueKeeps == TofInv /\ (\E t \in Threads : Issue(t)) => TofInv'
<1> SUFFICES ASSUME TofInv, NEW t \in Threads, Issue(t) PROVE TofInv' OBVIOUS
<1>1. TofTypes /\ Accounted /\ Owned BY DEF TofInv
<1>2. ~halted /\ todo[t] # <<>> /\ UNCHANGED <<controller, handle, calls, asked, answered, dropped>>
  BY DEF Issue
<1>3. PICK u \in Threads : {t, u} = {"controller", "application"} /\ t # u BY OtherThread
<1>4. PICK s : s = todo[t] OBVIOUS
<1>5. PICK o : o = todo[u] OBVIOUS
<1>6. s \in Seq(Items) /\ o \in Seq(Items) /\ s # <<>> /\ queue \in Seq(Items) /\ live \in SUBSET Slots
  BY <1>1, <1>2, <1>4, <1>5 DEF TofTypes
<1>7. PICK h : h = Head(s) OBVIOUS
<1>8. h \in Items /\ Tail(s) \in Seq(Items) BY <1>6, <1>7
<1>9. ASSUME NEW c \in Chains
      PROVE  /\ asked[c] \in Nat /\ answered[c] \in Nat /\ dropped[c] \in Nat
             /\ Running(c, queue) \in Nat /\ Running(c, s) \in Nat /\ Running(c, o) \in Nat
             /\ Running(c, Tail(s)) \in Nat
             /\ Running(c, s) = (IF IsLink(c, h) THEN 1 ELSE 0) + Running(c, Tail(s))
  BY <1>1, <1>6, <1>7, <1>8, CatRunning, HeadRunning DEF TofTypes
<1>10. ASSUME NEW c \in Chains
       PROVE  asked[c] = answered[c] + dropped[c] + Running(c, queue) + Running(c, s) + Running(c, o)
  <2>1. PICK e, f, n, m, l : /\ e = answered[c] /\ f = dropped[c] /\ n = Running(c, queue)
                             /\ m = Running(c, s) /\ l = Running(c, o)
    OBVIOUS
  <2>2. e \in Nat /\ f \in Nat /\ n \in Nat /\ m \in Nat /\ l \in Nat BY <1>9, <2>1
  <2>3. asked[c] = e + f + n + m + l \/ asked[c] = e + f + n + l + m
    BY <1>1, <1>2, <1>3, <1>4, <1>5, <2>1 DEF Accounted, Balanced, Threads
  <2>. QED BY <2>1, <2>2, <2>3
<1>11. ASSUME NEW b \in Slots PROVE Settled(b, live, queue, s, o)
  <2>1. Settled(b, live, queue, todo["controller"], todo["application"]) BY <1>1, <1>2 DEF Owned
  <2>. QED BY <1>3, <1>4, <1>5, <2>1, Swapped
<1>12. ASSUME NEW s2 \in Seq(Items), todo' = [todo EXCEPT ![t] = s2]
       PROVE  /\ todo' \in [Threads -> Seq(Items)]
              /\ \/ s2 = todo'["controller"] /\ o = todo'["application"]
                 \/ o = todo'["controller"] /\ s2 = todo'["application"]
  <2>1. todo' \in [Threads -> Seq(Items)] /\ todo'[t] = s2 /\ todo'[u] = o
    BY <1>1, <1>3, <1>5, <1>12 DEF TofTypes
  <2>2. (t = "controller" /\ u = "application") \/ (u = "controller" /\ t = "application")
    BY <1>3 DEF Threads
  <2>. QED BY <2>1, <2>2
<1>13. ASSUME NEW s2 \in Seq(Items), todo' = [todo EXCEPT ![t] = s2], queue' \in Seq(Items),
              halted' = halted, live' \subseteq Slots,
              \A i \in DOMAIN queue' : queue'[i].op # "make",
              \A c \in Chains : Running(c, queue') + Running(c, s2) = Running(c, queue) + Running(c, s),
              \A b \in Slots : Settled(b, live', queue', s2, o)
       PROVE  TofInv'
  <2>1. /\ todo' \in [Threads -> Seq(Items)]
        /\ \/ s2 = todo'["controller"] /\ o = todo'["application"]
           \/ o = todo'["controller"] /\ s2 = todo'["application"]
    BY <1>12, <1>13
  <2>2. TofTypes' BY <1>1, <1>2, <1>13, <2>1 DEF TofTypes
  <2>3. ASSUME NEW c \in Chains PROVE Balanced(c)'
    <3>1. PICK q2 : q2 = queue' OBVIOUS
    <3>2. PICK e, f, n, m, l, n2, m2 :
            /\ e = answered[c] /\ f = dropped[c] /\ n = Running(c, queue) /\ m = Running(c, s)
            /\ l = Running(c, o) /\ n2 = Running(c, q2) /\ m2 = Running(c, s2)
      OBVIOUS
    <3>3. /\ e \in Nat /\ f \in Nat /\ n \in Nat /\ m \in Nat /\ l \in Nat /\ n2 \in Nat /\ m2 \in Nat
      BY <1>9, <1>13, <3>1, <3>2, CatRunning
    <3>4. n2 + m2 = n + m BY <1>13, <3>1, <3>2
    <3>5. asked[c] = e + f + n + m + l BY <1>10, <3>2
    <3>6. asked[c] = e + f + n2 + m2 + l /\ asked[c] = e + f + n2 + l + m2 BY <3>3, <3>4, <3>5
    <3>7. asked' = asked /\ answered' = answered /\ dropped' = dropped BY <1>2
    <3>. QED BY <2>1, <3>1, <3>2, <3>6, <3>7 DEF Balanced
  <2>4. Owned' BY <1>13, <2>1, Swapped DEF Owned
  <2>. QED BY <2>2, <2>3, <2>4 DEF TofInv, Accounted
<1>14. PICK new : new = CHOOSE b \in Choices(Needs(h)) : TRUE OBVIOUS
<1>15. CASE Choices(Needs(h)) = {}
  <2>1. halted' = TRUE /\ UNCHANGED <<todo, queue, live>> BY <1>4, <1>7, <1>15 DEF Issue
  <2>2. TofTypes' BY <1>1, <1>2, <2>1 DEF TofTypes
  <2>. QED BY <2>1, <2>2 DEF TofInv, Accounted, Owned
<1>16. CASE Choices(Needs(h)) # {}
  <2>1. new \in Choices(Needs(h)) BY <1>14, <1>16
  <2>2. /\ new \in Injection(1 .. Needs(h), Slots)
        /\ Range(new) \in SUBSET Slots /\ Range(new) \cap live = {}
    BY <2>1, ChosenBuffers
  <2>3. /\ live' = live \cup Range(new) /\ halted' = halted
        /\ IF h.op = "make"
           THEN todo' = [todo EXCEPT ![t] = Made(h, new) \o Tail(@)] /\ queue' = queue
           ELSE todo' = [todo EXCEPT ![t] = Tail(@)] /\ queue' = Append(queue, Placed(h, new))
    BY <1>4, <1>7, <1>14, <1>16 DEF Issue
  <2>4. CASE h.op = "make"
    <3>1. /\ Releases(Made(h, new), Range(new))
          /\ \A c \in Chains : Running(c, Made(h, new)) = IF IsLink(c, h) THEN 1 ELSE 0
      BY <1>8, <2>2, <2>4, MadeItems
    <3>2. PICK m : m = Made(h, new) OBVIOUS
    <3>3. PICK fresh : fresh = Range(new) OBVIOUS
    <3>4. /\ m \in Seq(Items) /\ fresh \in SUBSET Slots /\ fresh \cap live = {}
          /\ \A b \in Slots : IF b \in fresh THEN Ends(b, m) ELSE Unused(b, m)
      BY <2>2, <3>1, <3>2, <3>3 DEF Releases
    <3>5. m \o Tail(s) \in Seq(Items) BY <1>8, <3>4
    <3>6. todo' = [todo EXCEPT ![t] = m \o Tail(s)] BY <1>1, <1>4, <2>3, <2>4, <3>2 DEF TofTypes
    <3>7. h.tx = Own /\ h.rx = Own BY <1>8, <2>4 DEF Items, Proper
    <3>9. ASSUME NEW b \in Slots PROVE Settled(b, live', queue', m \o Tail(s), o)
      <4>1. Settled(b, live, queue, s, o) BY <1>11
      <4>2. ~Touches(Head(s), b) BY <1>7, <3>7, SlotFacts DEF Touches
      <4>3. IF b \in fresh THEN Ends(b, m) ELSE Unused(b, m) BY <3>4
      <4>4. Settled(b, live \cup fresh, queue, m \o Tail(s), o)
        BY <1>6, <3>4, <4>1, <4>2, <4>3, MakeSettles
      <4>. QED BY <2>3, <2>4, <3>3, <4>4
    <3>10. ASSUME NEW c \in Chains
           PROVE  Running(c, queue') + Running(c, m \o Tail(s)) = Running(c, queue) + Running(c, s)
      <4>1. Running(c, m \o Tail(s)) = Running(c, m) + Running(c, Tail(s)) BY <1>8, <3>4, CatRunning
      <4>2. Running(c, m) = IF IsLink(c, h) THEN 1 ELSE 0 BY <3>1, <3>2
      <4>3. Running(c, m \o Tail(s)) = Running(c, s) BY <1>9, <4>1, <4>2
      <4>. QED BY <2>3, <2>4, <4>3
    <3>11. /\ queue' \in Seq(Items) /\ live' \subseteq Slots
           /\ \A i \in DOMAIN queue' : queue'[i].op # "make"
      BY <1>1, <1>6, <2>2, <2>3, <2>4 DEF TofTypes
    <3>. QED BY <1>13, <2>3, <3>5, <3>6, <3>9, <3>10, <3>11
  <2>5. CASE h.op # "make"
    <3>1. PICK x : x = Placed(h, new) OBVIOUS
    <3>2. PICK fresh : fresh = Range(new) OBVIOUS
    <3>3. /\ x \in Items /\ x.cb = h.cb /\ x.op # "make"
          /\ \A b \in Slots : /\ b \in fresh => Touches(x, b) /\ h.cb # "none"
                              /\ b \notin fresh => (Touches(x, b) <=> Touches(h, b))
      BY <1>8, <2>2, <2>5, <3>1, <3>2, PlacedItem
    <3>4. fresh \in SUBSET Slots /\ fresh \cap live = {} BY <2>2, <3>2
    <3>5. todo' = [todo EXCEPT ![t] = Tail(s)] /\ queue' = Append(queue, x)
      BY <1>1, <1>4, <2>3, <2>5, <3>1 DEF TofTypes
    <3>6. ASSUME NEW c \in Chains
          PROVE  Running(c, queue') = Running(c, queue) + IF IsLink(c, h) THEN 1 ELSE 0
      <4>1. <<x>> \in Seq(Items) /\ Running(c, <<x>>) = IF IsLink(c, x) THEN 1 ELSE 0 BY <3>3, OneRunning
      <4>2. Append(queue, x) = queue \o <<x>> BY <1>6, <3>3, AppendIsConcat
      <4>3. Running(c, queue \o <<x>>) = Running(c, queue) + Running(c, <<x>>) BY <1>6, <4>1, CatRunning
      <4>4. IsLink(c, x) <=> IsLink(c, h) BY <3>3 DEF IsLink
      <4>. QED BY <3>5, <4>1, <4>2, <4>3, <4>4
    <3>7. ASSUME NEW b \in Slots PROVE Settled(b, live', queue', Tail(s), o)
      <4>1. Settled(b, live, queue, s, o) BY <1>11
      <4>2. /\ x.cb = Head(s).cb /\ (b \in fresh => Touches(x, b) /\ x.cb # "none")
            /\ b \notin fresh => (Touches(x, b) <=> Touches(Head(s), b))
        BY <1>7, <3>3
      <4>3. Settled(b, live \cup fresh, Append(queue, x), Tail(s), o)
        BY <1>6, <3>3, <3>4, <4>1, <4>2, SendSettles
      <4>. QED BY <2>3, <3>2, <3>5, <4>3
    <3>8. ASSUME NEW c \in Chains
          PROVE  Running(c, queue') + Running(c, Tail(s)) = Running(c, queue) + Running(c, s)
      BY <1>9, <3>6
    <3>9. queue' \in Seq(Items) /\ live' \subseteq Slots BY <1>6, <2>2, <2>3, <3>3, <3>5
    <3>10. \A i \in DOMAIN queue' : queue'[i].op # "make"
      <4>1. \A i \in DOMAIN queue : queue[i].op # "make" BY <1>1 DEF TofTypes
      <4>. QED BY <1>6, <3>3, <3>5, <4>1
    <3>. QED BY <1>8, <1>13, <2>3, <3>5, <3>7, <3>8, <3>9, <3>10
  <2>. QED BY <2>4, <2>5
<1>. QED BY <1>15, <1>16

LEMMA ProcessKeeps == TofInv /\ Step => TofInv'
<1> SUFFICES ASSUME TofInv, NEW outcome \in Outcomes, NEW bit \in BOOLEAN, Process(outcome, bit)
             PROVE  TofInv'
  BY DEF Step
<1>1. TofTypes /\ Accounted /\ Owned BY DEF TofInv
<1>2. /\ ~halted /\ queue # <<>> /\ todo["controller"] = <<>>
      /\ UNCHANGED <<controller, handle, calls, asked>>
  BY DEF Process
<1>3. PICK x : x = Head(queue) OBVIOUS
<1>4. PICK good \in BOOLEAN : good <=> Status(x.op, outcome) = "ok" OBVIOUS
<1>5. PICK late : late = todo["application"] OBVIOUS
<1>6. queue \in Seq(Items) /\ late \in Seq(Items) /\ x \in Items /\ Tail(queue) \in Seq(Items)
  BY <1>1, <1>2, <1>3, <1>5 DEF TofTypes, Threads
<1>7. CASE Aborts(outcome) \/ (x.cb = "modelID" /\ Asserts /\ outcome # "done")
  <2>1. halted' = TRUE /\ UNCHANGED <<todo, queue, live, answered, dropped>>
    BY <1>3, <1>7 DEF Process
  <2>2. TofTypes' BY <1>1, <1>2, <2>1 DEF TofTypes
  <2>. QED BY <2>1, <2>2 DEF TofInv, Accounted, Owned
<1>8. CASE ~(Aborts(outcome) \/ (x.cb = "modelID" /\ Asserts /\ outcome # "done"))
  <2>1. /\ queue' = Tail(queue) /\ halted' = halted
        /\ live' = IF Destroys(x, good) THEN live \ {x.tx, x.rx} ELSE live
        /\ todo' = [todo EXCEPT !["controller"] = Follows(x, good, bit)]
        /\ answered' = [c \in Chains |-> answered[c] + IF good /\ x.cb = Last(c) THEN 1 ELSE 0]
        /\ dropped' = [c \in Chains |-> dropped[c] + IF ~good /\ x.cb \in Checked(c) THEN 1 ELSE 0]
    <3>1. (Status(x.op, outcome) = "ok") = good BY <1>4
    <3>. QED BY <1>3, <1>8, <3>1 DEF Process
  <2>2. PICK f : f = Follows(x, good, bit) OBVIOUS
  <2>3. /\ f \in Seq(Items)
        /\ \A c \in Chains : Running(c, f) = IF Continues(c, x, good, bit) THEN 1 ELSE 0
        /\ \A b \in Slots : IF x.cb = "resetEnter" /\ good /\ b = x.tx THEN Ends(b, f) ELSE Unused(b, f)
    BY <1>6, <2>2, FollowsItems
  <2>4. todo' \in [Threads -> Seq(Items)] /\ todo'["controller"] = f /\ todo'["application"] = late
    BY <1>1, <1>5, <2>1, <2>2, <2>3 DEF TofTypes, Threads
  <2>5. TofTypes' BY <1>1, <1>2, <1>6, <2>1, <2>4 DEF TofTypes
  <2>6. ASSUME NEW c \in Chains PROVE Balanced(c)'
    <3>1. PICK e, g, d, n, m : /\ e = answered[c] /\ d = dropped[c] /\ n = Running(c, late)
                               /\ m = Running(c, Tail(queue)) /\ g = IF IsLink(c, x) THEN 1 ELSE 0
      OBVIOUS
    <3>2. e \in Nat /\ d \in Nat /\ n \in Nat /\ m \in Nat BY <1>1, <1>6, <3>1, CatRunning DEF TofTypes
    <3>3. Running(c, queue) = g + m /\ Running(c, todo["controller"]) = 0
      BY <1>2, <1>3, <1>6, <3>1, HeadRunning, EmptySequence
    <3>4. asked[c] = e + d + (g + m) + 0 + n
      BY <1>1, <1>2, <1>5, <3>1, <3>3 DEF Accounted, Balanced
    <3>5. /\ answered'[c] = e + (IF good /\ x.cb = Last(c) THEN 1 ELSE 0)
          /\ dropped'[c] = d + (IF ~good /\ x.cb \in Checked(c) THEN 1 ELSE 0)
          /\ Running(c, f) = IF Continues(c, x, good, bit) THEN 1 ELSE 0
      BY <2>1, <2>3, <3>1
    \* the link that is processed is continued, or the last one, or given up: just one of the three
    <3>6. g = (IF good /\ x.cb = Last(c) THEN 1 ELSE 0) + (IF ~good /\ x.cb \in Checked(c) THEN 1 ELSE 0)
                + (IF Continues(c, x, good, bit) THEN 1 ELSE 0)
      <4>1. x.cb # "reset"
        <5>1. x.op # "make" BY <1>1, <1>2, <1>3 DEF TofTypes
        <5>. QED BY <1>6, <5>1 DEF Items, Proper, Makes
      <4>. QED BY <3>1, <4>1 DEF Chains, IsLink, Links, Last, Checked, Continues
    <3>7. asked[c] = answered'[c] + dropped'[c] + m + Running(c, f) + n
      BY <3>2, <3>4, <3>5, <3>6
    <3>. QED BY <1>2, <2>1, <2>4, <3>1, <3>7 DEF Balanced
  <2>7. Owned'
    <3>1. ASSUME NEW b \in Slots PROVE Settled(b, live', Tail(queue), f, late)
      <4>1. Settled(b, live, queue, <<>>, late) BY <1>1, <1>2, <1>5 DEF Owned
      <4>2. /\ Unused(b, queue) => ~Touches(x, b) /\ Unused(b, Tail(queue))
            /\ Kept(b, queue) => (Touches(x, b) => x.cb = "none") /\ Kept(b, Tail(queue))
            /\ Ends(b, queue) => \/ Touches(x, b) /\ x.cb # "none" /\ Unused(b, Tail(queue))
                                 \/ (Touches(x, b) => x.cb = "none") /\ Ends(b, Tail(queue))
        BY <1>2, <1>3, <1>6, HeadAndTail
      <4>3. ~Ends(b, <<>>) BY EmptySequence
      <4>4. Touches(x, b) <=> b \in {x.tx, x.rx} BY DEF Touches
      <4>5. CASE ~Touches(x, b)
        <5>1. Unused(b, f) BY <2>3, <4>4, <4>5
        <5>2. b \in live' <=> b \in live BY <2>1, <4>4, <4>5
        <5>. QED BY <4>1, <4>2, <4>3, <4>5, <5>1, <5>2 DEF Settled, Held
      <4>6. CASE Touches(x, b) /\ x.cb = "none"
        <5>1. Unused(b, f) /\ live' = live BY <2>1, <2>3, <4>6 DEF Destroys
        <5>. QED BY <4>1, <4>2, <4>3, <4>6, <5>1 DEF Settled, Held
      <4>7. CASE Touches(x, b) /\ x.cb # "none"
        <5>1. b \in live /\ Unused(b, Tail(queue)) /\ Unused(b, late)
          <6>1. Unused(b, late) /\ Ends(b, queue) BY <4>1, <4>2, <4>3, <4>7 DEF Settled, Held
          <6>2. ~Unused(b, queue) BY <4>2, <4>7
          <6>. QED BY <4>1, <4>2, <4>7, <6>1, <6>2 DEF Settled
        <5>2. CASE x.cb = "resetEnter" /\ good
          <6>1. x.rx = Own BY <1>6, <5>2 DEF Items, Proper
          <6>2. b = x.tx BY <4>4, <4>7, <6>1, SlotFacts
          <6>3. Ends(b, f) /\ live' = live BY <2>1, <2>3, <5>2, <6>2 DEF Destroys
          <6>4. Kept(b, Tail(queue)) BY <5>1, UnusedKept
          <6>. QED BY <5>1, <6>3, <6>4 DEF Settled, Held
        <5>3. CASE ~(x.cb = "resetEnter" /\ good)
          <6>1. Unused(b, f) BY <2>3, <5>3
          <6>2. b \notin live' BY <2>1, <4>4, <4>7, <5>3 DEF Destroys
          <6>. QED BY <5>1, <6>1, <6>2 DEF Settled
        <5>. QED BY <5>2, <5>3
      <4>. QED BY <4>5, <4>6, <4>7
    <3>. QED BY <2>1, <2>4, <3>1 DEF Owned
  <2>. QED BY <2>5, <2>6, <2>7 DEF TofInv, Accounted
<1>. QED BY <1>7, <1>8

LEMMA StutterKeepsTof == TofInv /\ UNCHANGED tofvars => TofInv'
<1> SUFFICES ASSUME TofInv, UNCHANGED tofvars PROVE TofInv' OBVIOUS
<1> USE DEF tofvars
<1>1. TofTypes' BY DEF TofInv, TofTypes
<1>2. Accounted' BY DEF TofInv, Accounted, Balanced
<1>3. Owned' BY DEF TofInv, Owned
<1>. QED BY <1>1, <1>2, <1>3 DEF TofInv

LEMMA InitTof == TofInit => TofInv
<1> SUFFICES ASSUME TofInit PROVE TofInv OBVIOUS
<1>0. /\ todo["application"] = <<>> /\ todo["controller"] = <<>> /\ queue = <<>> /\ live = {}
      /\ \A c \in Chains : asked[c] = 0 /\ answered[c] = 0 /\ dropped[c] = 0
  BY DEF TofInit, Threads
<1>1. TofTypes
  <2>1. /\ todo \in [Threads -> Seq(Items)] /\ queue \in Seq(Items)
        /\ \A i \in DOMAIN queue : queue[i].op # "make"
    BY <1>0, EmptySequence DEF TofInit
  <2>2. asked \in [Chains -> Nat] /\ answered \in [Chains -> Nat] /\ dropped \in [Chains -> Nat]
    BY DEF TofInit
  <2>. QED BY <1>0, <2>1, <2>2 DEF TofInit, TofTypes
<1>2. Accounted BY <1>0, EmptySequence DEF Accounted, Balanced
<1>3. Owned BY <1>0, EmptySequence DEF Owned, Settled
<1>. QED BY <1>1, <1>2, <1>3 DEF TofInv

-----------------------------------------------------------------------------
\* The inductive invariant holds in every reachable state.
LEMMA TofInvariance == TofSpec => []TofInv
<1>1. TofInv /\ TofNext => TofInv' BY CallsKeep, IssueKeeps, ProcessKeeps DEF TofNext
<1>. QED BY <1>1, InitTof, StutterKeepsTof, PTL DEF TofSpec

LEMMA OutstandingItems ==
  ASSUME TofTypes
  PROVE  /\ queue \in Seq(Items) /\ todo["controller"] \in Seq(Items) /\ todo["application"] \in Seq(Items)
         /\ queue \o todo["controller"] \in Seq(Items) /\ Outstanding \in Seq(Items)
<1>1. /\ queue \in Seq(Items) /\ todo["controller"] \in Seq(Items) /\ todo["application"] \in Seq(Items)
  BY DEF TofTypes, Threads
<1>. QED BY <1>1 DEF Outstanding

\* the books of the chain c are what the invariant says of the three lists together
LEMMA ChainAccounted ==
  ASSUME TofInv, ~halted, NEW c \in Chains
  PROVE  asked[c] = answered[c] + dropped[c] + UnderWay(c)
<1>1. TofTypes /\ Balanced(c) BY DEF TofInv, Accounted
<1>2. UnderWay(c) = Running(c, Outstanding) BY DEF UnderWay, Running, IsLink
<1>3. PICK e, f, l, m, n : /\ e = answered[c] /\ f = dropped[c] /\ l = Running(c, queue)
                           /\ m = Running(c, todo["controller"]) /\ n = Running(c, todo["application"])
  OBVIOUS
<1>4. /\ Running(c, Outstanding) = l + m + n
      /\ e \in Nat /\ f \in Nat /\ l \in Nat /\ m \in Nat /\ n \in Nat
  <2>1. Running(c, Outstanding) = Running(c, queue \o todo["controller"]) + Running(c, todo["application"])
    BY <1>1, OutstandingItems, CatRunning DEF Outstanding
  <2>2. Running(c, queue \o todo["controller"]) = l + m /\ l \in Nat /\ m \in Nat /\ n \in Nat
    BY <1>1, <1>3, OutstandingItems, CatRunning
  <2>. QED BY <1>1, <1>3, <2>1, <2>2 DEF TofTypes
<1>5. asked[c] = e + f + l + m + n BY <1>1, <1>3 DEF Balanced
<1>. QED BY <1>2, <1>3, <1>4, <1>5

\* For any number of calls in any order: each read() is answered once, given up
\* once after a failed transfer, or still polling or reading, in one chain of
\* transfers that neither forks nor is lost.
THEOREM NoReadIsLost == TofSpec => []ReadsAccounted
<1>1. TofInv => ReadsAccounted BY ChainAccounted DEF ReadsAccounted, Chains
<1>. QED BY <1>1, TofInvariance, PTL

\* For any number of calls in any order: each reset() starts the measurement once,
\* was given up once when a transfer failed that its callback checks, or is still
\* on its way, through the end of the reset and the polling of the firmware.
THEOREM NoResetIsLost == TofSpec => []ResetsAccounted
<1>1. TofInv => ResetsAccounted BY ChainAccounted DEF ResetsAccounted, Chains
<1>. QED BY <1>1, TofInvariance, PTL

\* the pending transfers that use the buffer b, and those that give it back
UsesOf(b) == {i \in DOMAIN Outstanding : b \in {Outstanding[i].tx, Outstanding[i].rx}}
FreesOf(b) == {i \in UsesOf(b) : Outstanding[i].cb # "none"}

\* For a pool of any size and any interleaving of the driver's operations with
\* their callbacks: a buffer in use is given back by exactly one pending
\* transfer, the last that uses it, and a buffer not in use is used by none. So
\* no buffer leaks and none is used after it was destroyed.
THEOREM EveryBufferComesBack == TofSpec => []BuffersOwned
<1>1. TofInv => BuffersOwned
  <2> SUFFICES ASSUME TofInv, ~halted PROVE BuffersOwned BY DEF BuffersOwned
  <2>1. TofTypes /\ Owned BY DEF TofInv
  <2>2. PICK q : q = queue \o todo["controller"] OBVIOUS
  <2>3. PICK last : last = todo["application"] OBVIOUS
  <2>4. /\ queue \in Seq(Items) /\ todo["controller"] \in Seq(Items) /\ last \in Seq(Items)
        /\ q \in Seq(Items) /\ Outstanding = q \o last
    BY <2>1, <2>2, <2>3, OutstandingItems DEF Outstanding
  <2>5. ASSUME NEW b \in Slots
        PROVE  IF b \notin live THEN Unused(b, Outstanding) ELSE Ends(b, Outstanding)
    <3>1. Settled(b, live, queue, todo["controller"], last) BY <2>1, <2>3 DEF Owned
    <3>2. /\ Unused(b, queue) /\ Unused(b, todo["controller"]) => Unused(b, q)
          /\ Kept(b, queue) /\ Kept(b, todo["controller"]) => Kept(b, q)
          /\ Kept(b, queue) /\ Ends(b, todo["controller"]) => Ends(b, q)
          /\ Ends(b, queue) /\ Unused(b, todo["controller"]) => Ends(b, q)
      BY <2>2, <2>4, CatUnused, CatKept, CatKeptEnds, CatEndsUnused
    <3>3. /\ Unused(b, q) /\ Unused(b, last) => Unused(b, q \o last)
          /\ Kept(b, q) /\ Ends(b, last) => Ends(b, q \o last)
          /\ Ends(b, q) /\ Unused(b, last) => Ends(b, q \o last)
      BY <2>4, CatUnused, CatKeptEnds, CatEndsUnused
    <3>4. Unused(b, todo["controller"]) => Kept(b, todo["controller"]) BY UnusedKept
    <3>. QED BY <2>4, <3>1, <3>2, <3>3, <3>4 DEF Settled, Held
  <2>6. ASSUME NEW b \in Slots
        PROVE  IF b \notin live THEN UsesOf(b) = {}
               ELSE \E i \in FreesOf(b) : FreesOf(b) = {i} /\ \A j \in UsesOf(b) : j <= i
    <3>1. \A j \in DOMAIN Outstanding : Touches(Outstanding[j], b) <=> j \in UsesOf(b)
      BY DEF Touches, UsesOf
    <3>2. CASE b \notin live
      <4>1. Unused(b, Outstanding) BY <2>5, <3>2
      <4>2. UsesOf(b) \subseteq DOMAIN Outstanding BY DEF UsesOf
      <4>. QED BY <3>1, <3>2, <4>1, <4>2 DEF Unused
    <3>3. CASE b \in live
      <4>1. Ends(b, Outstanding) BY <2>5, <3>3
      <4>2. PICK i \in DOMAIN Outstanding :
              /\ Touches(Outstanding[i], b) /\ Outstanding[i].cb # "none"
              /\ \A j \in DOMAIN Outstanding :
                   Touches(Outstanding[j], b) => j = i \/ (j < i /\ Outstanding[j].cb = "none")
        BY <4>1 DEF Ends
      <4>3. i \in FreesOf(b) BY <3>1, <4>2 DEF FreesOf
      <4>4. \A j \in FreesOf(b) : j \in DOMAIN Outstanding /\ j \in UsesOf(b) /\ Outstanding[j].cb # "none"
        BY DEF FreesOf, UsesOf
      <4>5. FreesOf(b) = {i} BY <3>1, <4>2, <4>3, <4>4
      <4>6. i \in Int /\ \A j \in UsesOf(b) : j \in DOMAIN Outstanding /\ j \in Int
        BY <2>4 DEF UsesOf
      <4>7. \A j \in UsesOf(b) : j <= i BY <3>1, <4>2, <4>6
      <4>. QED BY <3>3, <4>3, <4>5, <4>7
    <3>. QED BY <3>2, <3>3
  <2>. QED BY <2>6 DEF BuffersOwned, UsesOf, FreesOf
<1>. QED BY <1>1, TofInvariance, PTL

====
