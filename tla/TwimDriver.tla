---- MODULE TwimDriver ----
(***************************************************************************)
(* The nRF52 I2C controller: nrf52_i2c_master.hpp over twim_helper.cpp and *)
(* twim_helper_.hpp, under the transfer call of i2c.hpp.                   *)
(*                                                                         *)
(* A transfer is started by a thread, or by a callback in the interrupt    *)
(* handler, and answered by its callback.  An interrupt that is enabled    *)
(* preempts the threads; the bus goes on underneath both.  The TWIM        *)
(* peripheral is modelled from the notes on its datasheet in               *)
(* twim_helper.cpp:10-35 and from what the driver expects of it.           *)
(***************************************************************************)
EXTENDS Naturals

CONSTANTS Clients,  \* the threads that use the bus
          Isr,      \* the interrupt handler, whose callbacks may use it too
          NoOne

ASSUME CallersAssumption ==
    Isr \notin Clients /\ NoOne \notin Clients \cup {Isr}

Callers == Clients \cup {Isr}

\* continueWriteStop, continueWriteNoStop, ping and restart are carried out as
\* write, writeNoStop, read and stop.
Ops == {"write", "writeNoStop", "read", "writeRead", "stop"}

VARIABLES
    blocking,  \* TBlocking
    prompt,    \* whether the program is always done before the bus goes on
    on,        \* whether the driver is started
    busy,      \* busy_
    active,    \* whose active_cb_ and active_op_ are
    failed,    \* an assertion has stopped the program
    pc,        \* where each caller, and the interrupt handler, stands
    op,        \* the operation each caller asks for
    exit,      \* exit_event of block_until_complete
    bus,       \* what the peripheral is doing
    shorts,    \* SHORTS
    events,    \* the event registers that are set
    errorsrc,  \* ERRORSRC
    inten,     \* INTEN: the events that raise the interrupt
    owner,     \* history: who made the transfer that was accepted last, unless the
               \* driver has been stopped since,
    truth,     \* how it went on the bus,
    answers,   \* how often it has been answered (2 is often),
    told       \* and the latest answer to anyone

mode     == <<blocking, prompt>>
driver   == <<on, busy, active, failed>>
chip     == <<bus, shorts, events, errorsrc, inten>>
accepted == <<owner, truth>>
replies  == <<answers, told>>
vars == <<mode, driver, pc, op, exit, chip, accepted, replies>>

Goto(c, l) == pc' = [pc EXCEPT ![c] = l]

\* Where a caller is when it is in no call of transfer.
Home(c) == IF c = Isr THEN "callback" ELSE "idle"

Answer(c, status) ==
    /\ answers' = IF answers = 2 THEN 2 ELSE answers + 1
    /\ told' = [to |-> c, status |-> status]

\* A transfer is accepted.
Accept(c) ==
    /\ owner' = c
    /\ truth' = "ok"
    /\ answers' = 0
    /\ UNCHANGED told

Init ==
    /\ blocking \in BOOLEAN /\ prompt \in BOOLEAN
    /\ on = TRUE /\ busy = FALSE /\ active = NoOne /\ failed = FALSE
    /\ pc = [c \in Callers |-> "idle"]
    /\ op = [c \in Callers |-> "stop"]
    /\ exit = "STOPPED"
    /\ bus = "idle" /\ shorts = {} /\ events = {} /\ errorsrc = {} /\ inten = {}
    /\ owner = NoOne /\ truth = "ok" /\ answers = 1
    /\ told = [to |-> NoOne, status |-> "ok"]

\* The interrupt is raised.
Pending == on /\ inten \cap events # {}

\* Threads run when the handler does not.
Runs(c) == ~failed /\ (c \in Clients => pc[Isr] = "idle" /\ ~Pending)

-----------------------------------------------------------------------------
(* The peripheral.                                                          *)

\* The tasks STOP, which a suspended peripheral ignores, and RESUME.
Stop(b)   == IF b \in {"tx", "rx", "refused"} THEN "stopping" ELSE b
Resume(b) == IF b = "suspended" THEN "refused" ELSE b

\* While the bus goes on, a prompt program is not starting a transfer and not
\* handling an interrupt.
BusGoesOn ==
    /\ ~failed
    /\ prompt => ~Pending /\ pc[Isr] = "idle"
                 /\ \A c \in Clients : pc[c] \in {"idle", "poll"}

\* The last byte is through, and a shortcut says what comes next.
BusSent ==
    /\ BusGoesOn
    /\ bus = "tx"
    /\ \/ /\ "LASTTX_STOP" \in shorts
          /\ bus' = "stopping"
          /\ UNCHANGED events
       \/ /\ "LASTTX_SUSPEND" \in shorts
          /\ bus' = "suspended"
          /\ events' = events \cup {"SUSPENDED"}
       \/ /\ "LASTTX_STARTRX" \in shorts
          /\ bus' = "rx"
          /\ UNCHANGED events
    /\ UNCHANGED <<mode, driver, pc, op, exit, shorts, errorsrc, inten, accepted, replies>>

BusReceived ==
    /\ BusGoesOn
    /\ bus = "rx"
    /\ "LASTRX_STOP" \in shorts
    /\ bus' = "stopping"
    /\ UNCHANGED <<mode, driver, pc, op, exit, shorts, events, errorsrc, inten,
                   accepted, replies>>

\* The address, or a byte that is sent, is refused.  If it was the last byte,
\* the shortcut has triggered the STOP task already.
BusRefused ==
    /\ BusGoesOn
    /\ bus \in {"tx", "rx"}
    /\ \E nack \in {"addrNACK", "dataNACK"} :
          /\ nack = "dataNACK" => bus = "tx"
          /\ errorsrc' = errorsrc \cup {nack}
          /\ truth' = nack
          /\ bus' \in {"refused"} \cup
                      (IF nack = "dataNACK" /\ "LASTTX_STOP" \in shorts THEN {"stopping"}
                                                                         ELSE {})
    /\ events' = events \cup {"ERROR"}
    /\ UNCHANGED <<mode, driver, pc, op, exit, shorts, inten, owner, replies>>

BusStopped ==
    /\ BusGoesOn
    /\ bus = "stopping"
    /\ bus' = "idle"
    /\ events' = events \cup {"STOPPED"}
    /\ UNCHANGED <<mode, driver, pc, op, exit, shorts, errorsrc, inten, accepted, replies>>

-----------------------------------------------------------------------------
(* transfer, by a thread or by a callback in the handler.                   *)

\* Without interrupts the transfer is started at once.
First(k) == IF k = "stop" THEN "stop" ELSE IF blocking THEN "kick" ELSE "arm"

\* transfer up to its compare-and-swap; if that finds the bus busy, the call has
\* no effect.  The blocking variant has no busy flag and is for one thread.
BugCall(c, k) ==
    /\ Runs(c) /\ on
    /\ pc[c] = Home(c)
    /\ blocking => \A d \in Clients : pc[d] = "idle"
    /\ Accept(c)
    /\ busy' = ~blocking
    /\ active' = IF blocking THEN active ELSE c
    /\ op' = [op EXCEPT ![c] = k]
    /\ Goto(c, First(k))
    /\ UNCHANGED <<mode, on, failed, exit, chip>>
Call(c, k) ==
    /\ Runs(c) /\ on
    /\ pc[c] = Home(c)
    /\ blocking => \A d \in Clients : pc[d] = "idle"
    /\ ~busy
    /\ Accept(c)
    /\ busy' = ~blocking
    /\ active' = IF blocking THEN active ELSE c
    /\ op' = [op EXCEPT ![c] = k]
    /\ Goto(c, First(k))
    /\ UNCHANGED <<mode, on, failed, exit, chip>>

\* stop and restart: trigger the task, and return ok, for which transfer calls
\* the callback.  The busy flag stays.
StopCondition(c) ==
    /\ Runs(c) /\ pc[c] = "stop"
    /\ bus' = Stop(bus)
    /\ Answer(c, "ok")
    /\ Goto(c, Home(c))
    /\ UNCHANGED <<mode, driver, op, exit, shorts, events, errorsrc, inten, accepted>>

Shortcuts(k) == CASE k = "write"       -> {"LASTTX_STOP"}
                  [] k = "writeNoStop" -> {"LASTTX_SUSPEND"}
                  [] k = "read"        -> {"LASTRX_STOP"}
                  [] k = "writeRead"   -> {"LASTTX_STARTRX", "LASTRX_STOP"}
ExitEvent(k) == IF k = "writeNoStop" THEN "SUSPENDED" ELSE "STOPPED"

Arm(c) ==
    /\ Runs(c) /\ pc[c] = "arm"
    /\ inten' = {"ERROR", ExitEvent(op[c])}
    /\ Goto(c, "kick")
    /\ UNCHANGED <<mode, driver, op, exit, bus, shorts, events, errorsrc, accepted, replies>>

\* kickoff_tx, kickoff_rx, kickoff_txrx.
Kick(c) ==
    /\ Runs(c) /\ pc[c] = "kick"
    /\ events' = events \ {"STOPPED", "ERROR", ExitEvent(op[c])}
    /\ shorts' = Shortcuts(op[c])
    /\ bus' = IF op[c] = "read" THEN "rx" ELSE "tx"
    /\ exit' = IF blocking THEN ExitEvent(op[c]) ELSE exit
    /\ Goto(c, IF blocking THEN "poll" ELSE "check")
    /\ UNCHANGED <<mode, driver, op, errorsrc, inten, accepted, replies>>

\* handle_error_event_.
HandleError ==
    /\ events' = events \ {"ERROR"}
    /\ bus' = IF "STOPPED" \in events THEN bus ELSE Stop(Resume(bus))

\* block_until_complete; while there is neither event the loop goes on.
Poll(c) ==
    /\ Runs(c) /\ pc[c] = "poll"
    /\ \/ /\ exit \in events
          /\ Goto(c, "check")
          /\ UNCHANGED <<exit, bus, events>>
       \/ /\ exit \notin events /\ "ERROR" \in events
          /\ HandleError
          /\ exit' = "STOPPED"
          /\ UNCHANGED pc
    /\ UNCHANGED <<mode, driver, op, shorts, errorsrc, inten, accepted, replies>>

\* get_converted_error, which clears ERRORSRC.
Converted == IF "addrNACK" \in errorsrc THEN "addrNACK"
             ELSE IF "dataNACK" \in errorsrc THEN "dataNACK" ELSE "ok"

\* The transfer was enqueued if there is no error yet, and is answered by
\* transfer itself in all other cases.
Check(c) ==
    /\ Runs(c) /\ pc[c] = "check"
    /\ errorsrc' = {}
    /\ IF ~blocking /\ Converted = "ok" THEN UNCHANGED replies
                                        ELSE Answer(c, Converted)
    /\ Goto(c, Home(c))
    /\ UNCHANGED <<mode, driver, op, exit, bus, shorts, events, inten, accepted>>

-----------------------------------------------------------------------------
(* twim_irq_handler_.                                                       *)

\* STOPPED, or SUSPENDED, which is treated like it: clear it and be done.
IsrDone(event) ==
    /\ events' = events \ {event}
    /\ shorts' = {}
    /\ inten' = {}
    /\ Goto(Isr, "invoke")
    /\ UNCHANGED bus

BugIsrEntry ==
    /\ ~failed /\ Pending /\ pc[Isr] = "idle"
    /\ \/ /\ "ERROR" \in events
          /\ HandleError
          /\ Goto(Isr, "recheck")
          /\ UNCHANGED <<shorts, inten>>
       \/ "ERROR" \notin events /\ "STOPPED" \in events /\ IsrDone("STOPPED")
       \/ "ERROR" \notin events /\ "STOPPED" \notin events /\ IsrDone("SUSPENDED")
    /\ UNCHANGED <<mode, driver, op, exit, errorsrc, accepted, replies>>
IsrEntry ==
    /\ ~failed /\ Pending /\ pc[Isr] = "idle"
    /\ \/ /\ "ERROR" \in events
          /\ HandleError
          /\ inten' = inten \cup {"STOPPED"}
          /\ Goto(Isr, "recheck")
          /\ UNCHANGED shorts
       \/ "ERROR" \notin events /\ "STOPPED" \in events /\ IsrDone("STOPPED")
       \/ "ERROR" \notin events /\ "STOPPED" \notin events /\ IsrDone("SUSPENDED")
    /\ UNCHANGED <<mode, driver, op, exit, errorsrc, accepted, replies>>

\* "If we aren't stopped, wait until we are."
BugIsrRecheck ==
    /\ ~failed /\ pc[Isr] = "recheck"
    /\ Goto(Isr, "invoke")
    /\ UNCHANGED <<mode, driver, op, exit, chip, accepted, replies>>
IsrRecheck ==
    /\ ~failed /\ pc[Isr] = "recheck"
    /\ Goto(Isr, IF "STOPPED" \in events THEN "invoke" ELSE "idle")
    /\ UNCHANGED <<mode, driver, op, exit, chip, accepted, replies>>

\* invoke_callback_ and twim_callback_: the transfer's own callback is called
\* when the flag, which is asserted to be set, has been cleared.
BugIsrInvoke ==
    /\ ~failed /\ pc[Isr] = "invoke"
    /\ IF busy
       THEN /\ busy' = FALSE
            /\ active' = NoOne
            /\ Answer(active, Converted)
            /\ Goto(Isr, "callback")
            /\ UNCHANGED failed
       ELSE /\ failed' = TRUE
            /\ UNCHANGED <<busy, active, pc, replies>>
    /\ UNCHANGED <<mode, on, op, exit, bus, shorts, events, errorsrc, inten, accepted>>
IsrInvoke ==
    /\ ~failed /\ pc[Isr] = "invoke"
    /\ errorsrc' = {}
    /\ IF busy
       THEN /\ busy' = FALSE
            /\ active' = NoOne
            /\ Answer(active, Converted)
            /\ Goto(Isr, "callback")
            /\ UNCHANGED failed
       ELSE /\ failed' = TRUE
            /\ UNCHANGED <<busy, active, pc, replies>>
    /\ UNCHANGED <<mode, on, op, exit, bus, shorts, events, inten, accepted>>

\* The callback, which may have made a transfer of its own, returns.
IsrReturn ==
    /\ ~failed /\ pc[Isr] = "callback"
    /\ Goto(Isr, "idle")
    /\ UNCHANGED <<mode, driver, op, exit, chip, accepted, replies>>

-----------------------------------------------------------------------------
(* start and stop, when no thread is in a call.                             *)

Resting == ~failed /\ \A c \in Callers : pc[c] = "idle"

StopDriver ==
    /\ Resting /\ ~Pending /\ on
    /\ on' = FALSE
    /\ inten' = {} /\ shorts' = {} /\ bus' = "idle"
    /\ owner' = NoOne
    /\ UNCHANGED <<mode, busy, active, failed, pc, op, exit, events, errorsrc,
                   truth, replies>>

StartDriver ==
    /\ Resting /\ ~on
    /\ on' = TRUE
    /\ UNCHANGED <<mode, busy, active, failed, pc, op, exit, chip, accepted, replies>>

-----------------------------------------------------------------------------

BusStep == BusSent \/ BusReceived \/ BusRefused \/ BusStopped
IsrStep == IsrEntry \/ IsrRecheck \/ IsrInvoke \/ IsrReturn
CallStep(c) == StopCondition(c) \/ Arm(c) \/ Kick(c) \/ Poll(c) \/ Check(c)

Next ==
    \/ BusStep \/ IsrStep
    \/ \E c \in Callers : CallStep(c) \/ \E k \in Ops : Call(c, k)
    \/ StopDriver \/ StartDriver
    \/ failed /\ UNCHANGED vars

Spec == Init /\ [][Next]_vars

\* The bus does not stretch its clock for ever, and the handler and every call
\* that is in progress go on when they can.
FairSpec ==
    /\ Spec
    /\ WF_vars(BusStep) /\ WF_vars(IsrStep)
    /\ \A c \in Callers : WF_vars(CallStep(c))

-----------------------------------------------------------------------------
(* Properties.                                                             *)

Statuses == {"ok", "addrNACK", "dataNACK"}
Events   == {"STOPPED", "ERROR", "SUSPENDED"}
Labels   == {"idle", "stop", "arm", "kick", "poll", "check",
             "recheck", "invoke", "callback"}

TypeOK ==
    /\ blocking \in BOOLEAN /\ prompt \in BOOLEAN
    /\ on \in BOOLEAN /\ busy \in BOOLEAN /\ failed \in BOOLEAN
    /\ active \in Callers \cup {NoOne} /\ owner \in Callers \cup {NoOne}
    /\ pc \in [Callers -> Labels] /\ op \in [Callers -> Ops]
    /\ exit \in {"STOPPED", "SUSPENDED"}
    /\ bus \in {"idle", "tx", "rx", "refused", "stopping", "suspended"}
    /\ shorts \subseteq {"LASTTX_STOP", "LASTTX_SUSPEND", "LASTTX_STARTRX", "LASTRX_STOP"}
    /\ events \subseteq Events /\ inten \subseteq Events
    /\ errorsrc \subseteq Statuses
    /\ truth \in Statuses /\ answers \in 0 .. 2
    /\ told \in [to : Callers \cup {NoOne}, status : Statuses]

\* However threads, handler and bus interleave, and whatever went wrong with
\* the transfers before, a transfer is set up and started only on a peripheral
\* that is idle or suspended: never into one that is running or stopping.
OneTransfer ==
    /\ TypeOK
    /\ \A c \in Callers : pc[c] \in {"arm", "kick"} => bus \in {"idle", "suspended"}

\* Of a prompt program, a transfer that is accepted is answered once, to the one
\* who made it, with what happened on the bus; the next is accepted after that,
\* and the handler always finds the busy flag it asserts to be set.
Prompt == prompt \/ blocking
AnsweredOnce ==
    Prompt =>
        /\ ~failed
        /\ answers <= 1
        /\ ~blocking /\ ~busy => answers = 1
        /\ answers = 1 /\ owner # NoOne => told = [to |-> owner, status |-> truth]

\* The caller has its buffers back when it is answered: no more of them is read
\* or written ("EasyDMA has finished accessing the buffer", twim_helper.cpp:18).
BuffersReturned ==
    [][Prompt /\ answers' > answers => bus' \in {"idle", "suspended"}]_vars

\* A transfer that is accepted is answered in the end, unless the driver is
\* stopped meanwhile: every way in which it may fail leads to the event that is
\* awaited.
Unanswered == owner # NoOne /\ answers = 0
TransferEnds == Unanswered ~> ~Unanswered \/ failed

====
