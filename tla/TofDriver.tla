----------------------------- MODULE TofDriver -----------------------------
(***************************************************************************)
(* The VL53L1X time-of-flight driver on an I2C controller that queues its  *)
(* transfers: drivers/st/vl53l1x over drivers/aardvark.  The application's *)
(* thread calls the driver; the controller's own thread (an active object) *)
(* takes the transfers one by one and runs the callback of each, which may *)
(* start the next.  The buffers of all transfers come from one pool: a     *)
(* buffer is created before the transfer and destroyed in the callback of  *)
(* the last transfer that uses it.                                         *)
(*                                                                         *)
(* A transfer is [op, tx, rx, cb]: its kind, its buffers and what its      *)
(* callback does.  Fresh is a buffer that is created just before the       *)
(* transfer is handed over, Own memory that is not from the pool.  An      *)
(* item [op |-> "make", ...] stands for a function that creates buffers    *)
(* and then hands over several transfers that share them.                  *)
(***************************************************************************)
EXTENDS Integers, Sequences, FiniteSets, Functions

CONSTANTS PoolSize,   \* buffers in i2c_pool_
          TrimBytes,  \* bytes readTrim reads
          MaxCalls    \* bound: calls of the application
ASSUME TofAssumption == PoolSize \in Nat /\ TrimBytes \in Nat /\ MaxCalls \in Nat

VARIABLES controller, \* which controller, and whether assert() is compiled in
          handle,     \* the adapter: "closed", "open", or "lost": aa_open failed
          halted,     \* an assertion failed, or create() found the pool empty
          todo,       \* per thread, what its current call has yet to hand over
          queue,      \* the controller's queue
          live,       \* the buffers in use
          calls,      \* calls made so far
          asked, answered, dropped  \* per chain: begun, come to its end, given up on an error
tofvars == <<controller, handle, halted, todo, queue, live, calls, asked, answered, dropped>>

Slots == 1 .. PoolSize
Own == 0     \* in place of a slot: memory that is not from the pool
Fresh == -1  \* a buffer still to be created
Same == -2   \* as rx: the buffer of tx
Threads == {"application", "controller"}
Controllers == {"aardvark", "aardvark without assert", "contract"}
Asserts == controller # "aardvark without assert"

(***************************************************************************)
(* read() and reset() are chains: the callback of a transfer starts the    *)
(* next.  A read ends with the range, a reset with the config block, which *)
(* starts the measurement.                                                 *)
(***************************************************************************)
Chains == {"read", "reset"}
Links(c) == IF c = "read" THEN {"dataReady", "readData"}
            ELSE {"reset", "resetEnter", "resetExit", "firmware", "config"}
Last(c) == IF c = "read" THEN "readData" ELSE "config"
\* the callbacks that look at the status, and end the chain if it is not ok; config
\* has none, and what the driver does about its failure is to start no measurement
Checked(c) == Links(c) \ {"resetExit"}

Read(tx, rx, cb) == [op |-> "writeRead", tx |-> tx, rx |-> rx, cb |-> cb]
Write(tx, cb) == [op |-> "write", tx |-> tx, rx |-> Own, cb |-> cb]
Make(what) == [op |-> "make", tx |-> Own, rx |-> Own, cb |-> what]
\* the register number in a transfer of its own, then the data
WriteReg(tx, cb) == <<Write(Fresh, "destroy"), Write(tx, cb)>>

DataReady == <<Read(Fresh, Same, "dataReady")>>
ReadData  == <<Read(Fresh, Fresh, "readData")>>
Query     == <<Read(Fresh, Fresh, "query")>>
Firmware  == <<Read(Fresh, Fresh, "firmware")>>
Startup   == <<Read(Fresh, Own, "modelID"), Read(Fresh, Own, "destroy")>>
             \o [i \in 1 .. TrimBytes |-> Read(Fresh, Own, "destroy")]
\* mutant: each period is destroyed after its first transfer
BugMode(periodA, periodB, phaseHigh, phaseInit) ==
  WriteReg(periodA, "destroy") \o WriteReg(periodB, "destroy") \o WriteReg(phaseHigh, "destroy")
    \o WriteReg(periodA, "none") \o WriteReg(periodB, "none")
    \o WriteReg(phaseInit, "none") \o WriteReg(phaseInit, "destroy")
Mode(periodA, periodB, phaseHigh, phaseInit) ==
  WriteReg(periodA, "none") \o WriteReg(periodB, "none") \o WriteReg(phaseHigh, "destroy")
    \o WriteReg(periodA, "destroy") \o WriteReg(periodB, "destroy")
    \o WriteReg(phaseInit, "none") \o WriteReg(phaseInit, "destroy")

\* what the making of item h hands over, once it has the buffers b
Made(h, b) ==
  CASE h.cb = "mode"  -> Mode(b[1], b[2], b[3], b[4])
    [] h.cb = "reset" -> WriteReg(b[1], "resetEnter")
    [] h.cb = "clear" -> WriteReg(b[1], "destroy")

TofInit ==
  /\ controller \in Controllers
  /\ handle = "closed" /\ halted = FALSE
  /\ todo = [t \in Threads |-> <<>>] /\ queue = <<>> /\ live = {}
  /\ calls = 0
  /\ asked = [c \in Chains |-> 0] /\ answered = [c \in Chains |-> 0] /\ dropped = [c \in Chains |-> 0]

-----------------------------------------------------------------------------
(* The application's calls.                                                *)

Begin(items) ==
  /\ ~halted /\ todo["application"] = <<>> /\ calls < MaxCalls
  /\ calls' = calls + 1
  /\ todo' = [todo EXCEPT !["application"] = items]
  /\ UNCHANGED <<controller, queue, live, answered, dropped>>

Asks(c) == asked' = [asked EXCEPT ![c] = @ + 1]
CallRead == Begin(DataReady) /\ Asks("read") /\ UNCHANGED <<handle, halted>>
\* rangeStatus() or signalRate()
CallQuery == Begin(Query) /\ UNCHANGED <<asked, handle, halted>>
CallMode  == Begin(<<Make("mode")>>) /\ UNCHANGED <<asked, handle, halted>>
CallReset == Begin(<<Make("reset")>>) /\ Asks("reset") /\ UNCHANGED <<handle, halted>>

(***************************************************************************)
(* start(): neither the Aardvark controller nor the adapter ever sets its  *)
(* started_, so each call opens the adapter again, which fails while it is *)
(* open.                                                                   *)
(***************************************************************************)
CallStart ==
  /\ handle' = IF controller = "contract" \/ handle = "closed" THEN "open" ELSE "lost"
  /\ halted' = (handle' = "lost" /\ Asserts)
  /\ Begin(Startup \o <<Make("reset")>>)
  /\ Asks("reset")

-----------------------------------------------------------------------------
(***************************************************************************)
(* create() takes the buffers the next item needs, then the transfer is    *)
(* handed over: transfer_ only puts it into the queue.                     *)
(***************************************************************************)
Needs(h) == CASE h.op = "make" /\ h.cb = "mode" -> 4
              [] h.op = "make" /\ h.cb # "mode" -> 1
              [] OTHER -> (IF h.tx = Fresh THEN 1 ELSE 0) + (IF h.rx = Fresh THEN 1 ELSE 0)

\* n buffers that are free; which ones makes no difference
Choices(n) == Injection(1 .. n, Slots \ live)

Placed(h, new) ==
  LET tx == IF h.tx = Fresh THEN new[1] ELSE h.tx
  IN  [h EXCEPT !.tx = tx,
                !.rx = IF @ = Fresh THEN new[2] ELSE IF @ = Same THEN tx ELSE @]

Issue(t) ==
  /\ ~halted /\ todo[t] # <<>>
  /\ LET h   == Head(todo[t])
         new == CHOOSE b \in Choices(Needs(h)) : TRUE
     IN  IF Choices(Needs(h)) = {}
         THEN halted' = TRUE /\ UNCHANGED <<todo, queue, live>>
         ELSE /\ live' = live \cup Range(new)
              /\ IF h.op = "make"
                 THEN /\ todo' = [todo EXCEPT ![t] = Made(h, new) \o Tail(@)]
                      /\ UNCHANGED queue
                 ELSE /\ todo' = [todo EXCEPT ![t] = Tail(@)]
                      /\ queue' = Append(queue, Placed(h, new))
              /\ UNCHANGED halted
  /\ UNCHANGED <<controller, handle, calls, asked, answered, dropped>>

-----------------------------------------------------------------------------
(***************************************************************************)
(* The controller's thread.  The adapter's library (external) completes a  *)
(* transfer, or it fails on the bus with a positive status, or is refused  *)
(* with a negative code because the handle is bad; a failed transfer       *)
(* moves fewer bytes than it should.                                       *)
(***************************************************************************)
Outcomes == IF handle = "open" THEN {"done", "failed"} ELSE {"refused"}

(***************************************************************************)
(* process_ asserts the byte counts.  Without assert it takes positive     *)
(* codes for ok, and the write-read's code, shifted and masked, is never   *)
(* negative.  A controller that keeps the contract reports every failure.  *)
(***************************************************************************)
Aborts(outcome) == controller = "aardvark" /\ outcome # "done"
Status(kind, outcome) ==
  IF \/ outcome = "done"
     \/ controller # "contract" /\ (outcome = "failed" \/ kind = "writeRead")
  THEN "ok" ELSE "error"

\* the callback of x; bit is the flag it finds in the register that was read:
\* what it hands over next, and whether it destroys its buffers
\* mutants: the range is read before it is ready too; the readiness bit is taken inverted;
\* the firmware is asked only if the end of the reset was written
BugAfterRead(x, good, bit) ==
  CASE x.cb = "dataReady" /\ good -> IF bit THEN ReadData ELSE ReadData \o DataReady
    [] x.cb = "readData" -> <<Make("clear")>>
    [] OTHER -> <<>>
BugAfterReadInverted(x, good, bit) ==
  CASE x.cb = "dataReady" /\ good -> IF bit THEN DataReady ELSE ReadData
    [] x.cb = "readData" -> <<Make("clear")>>
    [] OTHER -> <<>>
AfterRead(x, good, bit) ==
  CASE x.cb = "dataReady" /\ good -> IF bit THEN ReadData ELSE DataReady
    [] x.cb = "readData" -> <<Make("clear")>>
    [] OTHER -> <<>>
BugAfterReset(x, good, bit) ==
  CASE x.cb = "resetEnter" /\ good -> WriteReg(x.tx, "resetExit")
    [] x.cb = "resetExit" /\ good -> Firmware
    [] x.cb = "firmware" /\ good -> IF bit THEN <<Write(Own, "config")>> ELSE Firmware
    [] OTHER -> <<>>
AfterReset(x, good, bit) ==
  CASE x.cb = "resetEnter" /\ good -> WriteReg(x.tx, "resetExit")
    [] x.cb = "resetExit" -> Firmware
    [] x.cb = "firmware" /\ good -> IF bit THEN <<Write(Own, "config")>> ELSE Firmware
    [] OTHER -> <<>>
Follows(x, good, bit) ==
  IF x.cb \in Links("read") THEN AfterRead(x, good, bit) ELSE AfterReset(x, good, bit)
Destroys(x, good) == x.cb # "none" /\ ~(x.cb = "resetEnter" /\ good)

Process(outcome, bit) ==
  /\ ~halted /\ queue # <<>> /\ todo["controller"] = <<>>
  /\ LET x    == Head(queue)
         good == Status(x.op, outcome) = "ok"
     IN  IF Aborts(outcome) \/ (x.cb = "modelID" /\ Asserts /\ outcome # "done")
         THEN halted' = TRUE /\ UNCHANGED <<todo, queue, live, answered, dropped>>
         ELSE /\ queue' = Tail(queue)
              /\ live' = IF Destroys(x, good) THEN live \ {x.tx, x.rx} ELSE live
              /\ todo' = [todo EXCEPT !["controller"] = Follows(x, good, bit)]
              /\ answered' = [c \in Chains |-> answered[c] + IF good /\ x.cb = Last(c) THEN 1 ELSE 0]
              /\ dropped' = [c \in Chains |-> dropped[c] + IF ~good /\ x.cb \in Checked(c) THEN 1 ELSE 0]
              /\ UNCHANGED halted
  /\ UNCHANGED <<controller, handle, calls, asked>>

Step == \E outcome \in Outcomes, bit \in BOOLEAN : Process(outcome, bit)
TofNext ==
  \/ CallRead \/ CallQuery \/ CallMode \/ CallReset \/ CallStart
  \/ Step \/ \E t \in Threads : Issue(t)

(***************************************************************************)
(* Both threads are scheduled.  A device that is asked again and again     *)
(* whether it is ready is ready some time.                                 *)
(***************************************************************************)
TofFairness ==
  /\ \A t \in Threads : WF_tofvars(Issue(t))
  /\ WF_tofvars(Step)
  /\ \A cb \in {"dataReady", "firmware"} :
       SF_tofvars(queue # <<>> /\ Head(queue).cb = cb /\ \E o \in Outcomes : Process(o, TRUE))

TofSpec == TofInit /\ [][TofNext]_tofvars /\ TofFairness
-----------------------------------------------------------------------------
Outstanding == queue \o todo["controller"] \o todo["application"]

(***************************************************************************)
(* Every buffer of the pool has an owner that gives it back: among the     *)
(* transfers yet to be processed that use it there is exactly one whose    *)
(* callback destroys it (or passes it on), it is the last of them, and no  *)
(* transfer is left that uses a buffer already destroyed.  So once nothing *)
(* is pending the whole pool is free (mode() shares its buffers between    *)
(* two transfers, reset() between three).                                  *)
(***************************************************************************)
BuffersOwned ==
  halted \/
  LET Uses(b) == {i \in DOMAIN Outstanding : b \in {Outstanding[i].tx, Outstanding[i].rx}}
      Frees(b) == {i \in Uses(b) : Outstanding[i].cb # "none"}
  IN  \A b \in Slots :
        IF b \notin live THEN Uses(b) = {}
        ELSE \E i \in Frees(b) : Frees(b) = {i} /\ \A j \in Uses(b) : j <= i

(***************************************************************************)
(* Each read() is one chain of transfers that neither forks nor is lost:   *)
(* it is still polling or reading, or it was answered once, or it was      *)
(* given up when a transfer failed.                                        *)
(***************************************************************************)
UnderWay(c) == Cardinality({i \in DOMAIN Outstanding : Outstanding[i].cb \in Links(c)})
ReadsAccounted == halted \/ asked["read"] = answered["read"] + dropped["read"] + UnderWay("read")

(***************************************************************************)
(* Each reset() leads to one start of the measurement, however resets,     *)
(* reads and start() overlap, unless a transfer whose status its callback  *)
(* looks at failed (a failure to write the end of the reset is not one).   *)
(***************************************************************************)
ResetsAccounted == halted \/ asked["reset"] = answered["reset"] + dropped["reset"] + UnderWay("reset")

(***************************************************************************)
(* The polling of read() and of reset() comes to an end, whatever else the *)
(* application queues meanwhile: by an answer or the start of the measure- *)
(* ment, a failed transfer or a stop.                                      *)
(***************************************************************************)
ChainsEnd == \A c \in Chains : []<>(halted \/ asked[c] = answered[c] + dropped[c])

=============================================================================
