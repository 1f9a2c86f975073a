# A verification of the embedded-resources examples

The repository holds C and C++ code for embedded systems: containers,
allocators, concurrency patterns, a driver stack and parts of two runtime
libraries. This directory holds TLA+ modules of the parts that have behaviour
worth verifying, configurations that check them with TLC on small instances,
and proofs that TLAPS checks for all instances. `PROJECT.json` is the index:
components, runs, the lines each definition stands for, one plausible bug per
property that the property is known to catch, hazards, findings and theorems.

    tlasany M.tla                      parse
    tlc -config R.cfg M.tla            check a run (the pairs are listed below)
    tlapm P.tla                        check the proofs of module P (section 4)

## 1. The system

| Component | Source under `src/examples` | State | Operations |
|---|---|---|---|
| Circular buffer with a full flag | `c/circular_buffer/circular_buffer.c`, `circular_buffer_no_modulo.c` | storage, head, tail, full | init, free, reset, put, try_put, get, peek, size, empty, full |
| Single-producer single-consumer buffer | `c/circular_buffer/circular_buffer_no_modulo_threadsafe.c` | storage, head, tail; no flag, no lock | the same, split over two threads |
| Dispatch queue | `cpp/dispatch.cpp` | mutex, queue, condition variable, `quit_`, thread pool | constructor, dispatch, thread handler, destructor |
| Dispatch queue on event flags | `cpp/dispatch_freertos.cpp`, `cpp/dispatch_threadx.cpp`, `cpp/dispatch_threadx_stdmutex.cpp` | mutex, queue, event bits, `quit_`, tasks and their state | the same, over the RTOS |
| Active object | `cpp/active_object/active_object.hpp` | mutex, queue, condition variable, `shutdown_`, one thread, a derived class | enqueue, shutdown, thread handler, two destructors |
| Free-list allocator | `c/malloc/malloc_freelist.c`, over `c/linked_list/linked_list.h`; copy in `libc/` | list of free blocks, a header in each block | malloc_addblock, fl_malloc, fl_free (with defrag) |
| ThreadX malloc | `c/malloc/malloc_threadx.c` | function pointer, byte pool, `initialized_` | malloc (first and later), free |
| I2C master interface and nRF52 TWIM driver | `cpp/driver_abstraction/core/driver/i2c.hpp`, `drivers/nrf52` | busy flag, static op and callback, peripheral registers | transfer, interrupt handler, callback |
| Aardvark adapter and I2C controller | `cpp/driver_abstraction/drivers/aardvark` | handle, pull-up mask, `started_`; an active object | start, stop, transfer, process_ |
| VL53L1X driver | `cpp/driver_abstraction/drivers/st/vl53l1x` | a pool of buffers, the range last read, what the chain of callbacks still holds | start, reset, read, rangeStatus, signalRate, mode, and their callbacks |
| Mutexes, locks, call_once | `libcpp/mutex.cpp` and headers | an inner mutex, a condition variable, owner and count; a word per once_flag | lock, try_lock, timed lock, unlock, destructor, std::lock, call_once |
| RTOS bindings | `libcpp/__external_threading_*` | handles | thin wrappers |
| Circular buffer (C++) | `cpp/circular_buffer/circular_buffer.hpp` | as in C, and a mutex | locked operations, unlocked `full` |
| Aligned malloc | `c/malloc/malloc_aligned.c` | 16-bit offset before the pointer | aligned_malloc, aligned_free |
| libc | `libc/` | none, but for strtok's position | sorting, searching, strings, number conversion, raw memory |

How they interact. The circular buffers and the allocators are libraries their callers
call. The dispatch queues and active objects share state between their callers and the
threads they own, by a mutex and by a condition variable or an event group. The driver
stack is layered: a device driver hands an operation and a callback to an I2C master,
which completes it from an interrupt (nRF52) or from the thread of an active object
(Aardvark); the VL53L1X driver makes chains of such transfers, each started by the
callback of the one before. `malloc` calls either the free list or the pool of the RTOS;
the mutexes of `libcpp` call the RTOS bindings.

What is hard about each, and what makes it correct:

* *Circular buffers.* head = tail means empty or full; long mixes of calls must
  never confuse the two. Correct: every call is answered as by a FIFO. Lock-free,
  the order of "store the byte" and "publish the index" matters, as does what a
  thread may conclude from an answer the other thread can outdate.
* *Dispatch queues, active objects.* Threads go to sleep while others notify and
  destroy. Correct: operations run once, in order, none after shutdown; no wake-up
  is lost; the destructor returns, and nobody touches the object after that.
* *Allocators.* Long sequences of splits and merges; a race for the first
  initialisation. Correct: what is handed out is disjoint, long enough and stays
  its owner's; nothing is lost; memory that touches is merged.
* *Drivers.* Interrupts race the code that starts a transfer; busy flags must be
  cleared on every path; buffers must live as long as the last transfer that uses
  them, and come back on every path through the callbacks, failures included.
* *Mutexes.* Time-outs and spurious wake-ups race unlocks; a destructor races the
  last unlock; the function of call_once throws. Correct: the callers see a lock,
  a function returns once, and nobody is left inside.
* *libc.* Fall-backs that ordinary input never reaches (heapsort within qsort), the
  boundaries of the integer types, overlaps, alignments and whole words read across
  the end of a string. Correct: what the C standard says, for every such case.

`PROJECT.json` lists these as hazards, each at its line.

## 2. The modules

| Module | Stands for | Kind |
|---|---|---|
| `Ring` | index arithmetic of the circular buffers | operators |
| `BoundedFifo` | what a circular buffer promises | abstract specification |
| `CircularBuffer` | the two files with a flag; `Modulo` selects the file | implements `BoundedFifo` |
| `SpscCircularBuffer` | the thread-safe file, split at its accesses to shared memory | implements `BoundedFifo` |
| `Executor` | what the queues and active objects promise | abstract specification |
| `DispatchQueue` | dispatch.cpp | implements `Executor` |
| `DispatchEventFlags` | dispatch_freertos.cpp, and the ThreadX files | implements `Executor` |
| `ActiveObject` | active_object.hpp, with a derived class that comes and goes | implements `Executor` with one worker |
| `Allocator` | what a heap promises | abstract specification |
| `FreeList` (`MCFreeList`) | malloc_freelist.c | implements `Allocator` |
| `MallocThreadX` | malloc_threadx.c over a modelled byte pool | state machine |
| `TwimDriver` | i2c.hpp, nrf52_i2c_master.hpp and the TWIM helpers, over a modelled peripheral | state machine |
| `TofDriver` | the VL53L1X driver over the Aardvark controller, the adapter included | state machine, composing three parts |
| `Lock` | what a mutex promises | abstract specification |
| `TimedMutex` | timed_mutex and recursive_timed_mutex | implements `Lock` |
| `CallOnce` | call_once, all flags of a program together | state machine |
| `LockAll` | std::lock, for two locks and for more | state machine |
| `Callers`, `MCLibcpp` | the threads of the three; the three behind one another | instance |
| `Loops` | a loop of the code, as a function applied again and again | operator |
| `LibcSort`, `LibcMemory` | qsort, heapsort, bsearch; memcpy, memset, calloc's test, aligned_malloc | operators |
| `LibcCalls` | one call of any of those, and what it should give, said without the algorithm | state machine, reference definitions |
| `LibcWords`, `LibcStrings` | strlen, strchrnul, the str and mem functions over them; strtol and relatives, strstr and relatives, strtok | operators |
| `MCLibc` | the calls of `LibcCalls` on bounded inputs, calls of the string functions, and what those should give | instance, reference definitions |
| `Data_proofs` | `Ring`, `Loops` and `LibcSort` | proofs |
| `CircularBuffer_proofs`, `SpscCircularBuffer_proofs`, `DispatchQueue_proofs`, `DispatchEventFlags_proofs`, `ActiveObject_proofs` | the module each is named after | proofs |
| `Runtime_proofs` | `LibcCalls` (with `LibcMemory`), `TimedMutex`, `LockAll`, `CallOnce`, `MallocThreadX` and `FreeList` | proofs |
| `Drivers_proofs` | `TwimDriver` and `TofDriver` | proofs |

### How the models correspond to the code

*Names.* Variables and actions carry the names of the fields and functions,
without trailing underscores; `"map"` in `PROJECT.json` gives the lines. A
definition whose name begins with `Bug` is a mutant: the form a plausible error
would give to the definition that follows it. No specification uses one.

*Atomicity.* In `CircularBuffer` and `FreeList`, written for one caller, a call
is a step. In `SpscCircularBuffer` a step reads the other thread's index, or a
slot, once at most; a thread's own index may be read any number of times, for
nobody else writes it. In the three queues a thread first takes the mutex
(`Acquire`), and the critical section with the unlock that ends it is one step:
nobody can see the data in between, and every step that does not need the mutex
(notifying after the unlock, setting an event bit, setting `quit_` in
dispatch_freertos.cpp:113) is a step of its own. The worker's unguarded tests of
`quit_` in one pass of the event-flag loop act as the last of them, because
`quit_` is never reset; that makes a step for each unnecessary.

*Condition variables.* `wait(lock, predicate)` is the loop the standard defines:
test with the mutex held, sleep and release at once, wake, take the mutex, test
again. `notify_one` wakes any one sleeper, `notify_all` all of them, and
`SpuriousWakeup` wakes one that nobody notified.

*Event groups.* Setting a bit wakes everyone who waits for it and clears it (both
waits of the code clear on exit); with nobody waiting the bit stays set. Waiting
for a bit that is set takes it. The destructor's wait may time out at any moment.
FreeRTOS and ThreadX are outside the repository; this is the part of their
behaviour the code relies on, and `"map"` marks it external.

*The end of an object.* The owner destroys a queue only when no other producer is
inside a call or will make one, which is what any C++ object requires;
operations that are running may still dispatch. Destruction of an active object
is in the order of C++: derived destructor, derived members, base destructor.

*Memory.* `FreeList` counts memory in words of `sizeof(void*)` and requests in bytes:
`RoundUp` is the rounding of a size in the code, the sum that wraps around included, and
a request of 0 bytes is answered NULL. The doubly linked list is the sequence that it
links, a block's header is the value of `size` at its address, and the recursive
function in `Defrag` is the loop of defrag_free_list. `MallocThreadX` gives one unit per
allocation; how the pool finds it is ThreadX's business.

*Interrupts and the bus.* `TwimDriver` has three kinds of actors. Threads call
`transfer`; the interrupt handler starts when an enabled event is set, and
threads do not run until it returns; the peripheral moves on its own. The code is
split where an event can come between two accesses to the peripheral: the
compare-and-swap (`Call`), the interrupt mask (`Arm`), the start (`Kick`), the
read of ERRORSRC (`Check`), and the handler's test of STOPPED after it has dealt
with an error (`IsrRecheck`). Callbacks run inside the handler and may call
`transfer`. `blocking` is the template parameter TBlocking. The peripheral is
modelled from the datasheet notes in twim_helper.cpp:10-35 and marked external:
the shortcut tells what follows the last byte, a refused byte sets ERROR and
waits for the STOP task, and a suspended peripheral ignores STOP. The five
operations stand for all eight, which the switch maps onto them.

*Chains of transfers.* In `TofDriver` a transfer is a record of its kind, its
buffers and what its callback does. `todo` is what a thread's current call has yet
to hand over, `queue` what the controller holds, and `Issue` hands over one
transfer: creating its buffers, calling transfer and enqueuing are one step, since
only the queue and the pool (each under a lock) are shared. `Fresh` stands for a
buffer created for this transfer, `Same` for one that is also written to, `Own` for
memory that is not from the pool. `Follows` says what the callback of a transfer
hands over next, `Destroys` whether it gives its buffers back. read and reset are the
two `Chains`: `AfterRead` and `AfterReset` are their callbacks, and `asked`, `answered`
and `dropped` count, per chain, what was begun, what came to its `Last` transfer (the
range that is read; the config block, which starts the measurement), and what a callback
gave up because it saw an error (`Checked`). There are three
controllers: the Aardvark's with its assertions, the same without, and one that
keeps to what i2c.hpp says of a status ("contract"). They differ in what becomes of
a failure: it stops the program, is called ok, or is reported. `handle` is the
adapter's: it is opened by every start, since nothing records that it is open.

*Mutexes.* In `TimedMutex` the inner mutex is the variable `holder`, and taking it,
the test, the wait and giving it back are steps of their own, for an unlock, a
deadline or a wake-up may come between any two. What the callers were told (`held`)
is kept apart from the two words of the object (`count`, `id`): the refinement is
about the first, the code works on the second. `recursive` selects the class;
`Limit` is the largest value of a `size_t`, reached by a caller that locks as often.
A deadline is none, still ahead, or past: the clock only ever moves it on.
`CallOnce` keeps all flags on one mutex and one condition variable, as the code
does; its critical sections are single steps, but the function itself, which may
throw, runs outside. In `LockAll` a thread follows the lists of mutexes it was
given: block on one, try the rest, give all back on a failure and begin with the
one that failed. `MCLibcpp` runs one of the three in each behaviour.

*libc.* A function is an operator on sequences (arrays, strings) or on functions
from addresses to bytes (memory). `LibcCalls` makes one call per behaviour, with any
input its constants allow, and `MCLibc` adds the calls of the string functions and
the bounds; the invariants compare the result with a definition of what was to be
computed. In `LibcSort` and `LibcMemory`, about which there are proofs, a loop of the
code is a function from the values of its variables to those after one pass, the
identity where the loop ends, and `Iterate` (`Loops`) applies it as often as the loop
can turn: that this is often enough is part of what is proved. The calls _qsort makes
of itself are one recursive function, on the depth limit. `LibcWords` and
`LibcStrings` have RECURSIVE operators instead. The word-wise loops are modelled with
a word of `W` bytes of `ByteBits` bits, with the masks of the code; as on the 32-bit
targets of the repository, int, uint32_t and long are equally wide.

*Numbers.* `size_t` arithmetic that can wrap (circular_buf_size in the lock-free
buffer) is taken modulo `WordSize`. In `FreeList` the size asked for is a `size_t`
modulo `SizeMod`, and so is its rounding; the sizes of blocks never wrap while
`FLTypeOK` holds, which is part of `Tiled`: it is what a wrong split breaks. The
conversions use `LongBits`. `MulNoOverflow` is calloc's name for 2 to half the bits of a
size_t. aligned_malloc computes in three widths: its header size modulo `HeaderMod` (a
uint32_t), the sum it asks malloc for and the addresses modulo `SizeMax` + 1, the offset
modulo `OffsetMod` (an offset_t). The theorems ask no more of these than the assumptions
in `LibcMemory`.

## 3. The runs

Passing runs:

| Run | Instance | Questions |
|---|---|---|
| `CircularBuffer` | 4 slots, 2 values, modulo version | all calls are answered as by a FIFO of 4, through wrap-around, overwriting, reset, free, re-init on used storage |
| `SpscCircularBuffer` | 3 slots, 2 values | producer and consumer never touch the same slot; what `full` and `empty` said stays true until acted on; a peek for what there is copies the oldest elements; a FIFO of 2 |
| `DispatchQueue` | 3 workers, 2 producers, 3 operations, 1 spurious wake-up | no wake-up is lost, of an operation or of `quit_`; an executor; the destructor returns; operations run unless the queue quits |
| `DispatchEventFlags` | 2 workers, 2 producers, 3 operations | no operation stranded behind the one bit; an executor; quiet when mutex and flags are deleted; the polling destructor returns |
| `ActiveObject` | 2 clients, 3 elements, unbounded queue, 1 spurious wake-up, both kinds of derived destructor | no lost wake-up; process_ only on a whole object; an executor; destruction ends |
| `TwimDriver` | 2 threads and the callbacks; both variants; a program that keeps up with the bus, and one that does not | a transfer starts only on a peripheral at rest; it ends, whatever is refused; if the program keeps up, it is answered once, truthfully, to its owner, when the buffers are free |
| `FreeList` (`MCFreeList`) | regions of 12, 6 and 20 words (two touch) from the highest down; requests of 0, 21 and 254 bytes, words of 4 bytes, a size_t of 8 bits; header 3, minimum rest 4 | blocks tile the memory; fl_free merges all that touches; what is handed out is what an allocator owes, where the size can be rounded up |
| `MallocThreadX` | 3 threads, 2 units, one allocation each | nobody allocates before the pool exists; nothing handed out twice; losers of the race do not wait for ever |
| `TofDriver` | a pool of 6 buffers, 1 byte of trim data, 2 calls of the application, three controllers | every buffer comes back, whatever fails; no read is lost or doubled; a reset starts the measurement once or is given up; both chains end |
| `Libcpp` (`MCLibcpp`) | 3 threads; counts up to 2 and 4 lock calls; 2 flags and 4 calls of call_once; lists of 4, 3 and 2 locks | both timed mutexes are locks; nobody is inside a destroyed one; a function returns once; std::lock never blocks with a lock in hand; calls return |
| `Libc` (`MCLibc`) | arrays to 7 and longer patterned ones, strings to 7, words of 4 bytes, all alignments and overlaps in 18 bytes, a long of 4 bits, a size_t of 6, for aligned_malloc a header of 5 and an offset of 4, with every answer of malloc, size and alignment, 0 included | sorted permutations whatever the fall-back; first occurrences; exact values at the boundaries; exactly the bytes that were to change; an aligned block with room for what was asked, unless size and header overflow |

The run that shows a violation, a disagreement between the code and what it says:

| Run | What the code does | What it says |
|---|---|---|
| `SpscConcurrentSize` | circular_buf_size, called while the other thread works, can return more than the capacity, or a wrapped difference | "threadsafe for a single producer and single consumer" (file header) |

Further observations, met while modelling, that have no run of their own. Of the
allocators and queues:

* Regions given to the free list in ascending order leave it unsorted, and
  neighbours unmerged: malloc_addblock adds at the front, and the walk of fl_free
  stops at the first larger address, although it is to put the block "back in the
  proper spot" (malloc_freelist.c:122). The run gives them from the highest down
  (`GivenDownwards`), and `FreeMerges` is proved of any regions given so.
* fl_malloc rounds a size up to the word by adding to it first (malloc_freelist.c:79).
  Within a word of the end of size_t the sum wraps around and the size becomes 0; every
  block then fits, and 0 bytes of it are handed out. `RoundUp` does the same, and `Owed`
  is where the promise of `ImplementsAllocator` excepts it.
* aligned_malloc asks malloc for `size + hdr_size` (malloc_aligned.c:57), which wraps around
  near the end of size_t, and the header can lose its upper bits in a uint32_t: malloc
  then gives less than was asked for, and the pointer lies in or behind that. `Requested`
  does the same; `RoomFits` is the exception `Memories` makes.
* malloc_threadx.c:77 compares the result of the compare-and-swap with null, which is
  a pointer to malloc and never null. Two callers can therefore both create the
  pool, although "only one function will initialize the memory pool". ThreadX's own
  checking refuses the second creation, and with it (`Checked`) the properties hold.
* malloc_aligned.c keeps its offset in 16 bits, so an alignment of 2^16 or more loses
  the way back to the block: `Memories` asks for the way back only up to half the range
  of the offset. Alignments that are no power of two stop at the assertion of align_up and
  are left out.
* active_object.hpp:122 compares where it means to assign
  (`val_postable == !op_queue_.full();`), so an active object with a queue of fixed
  size refuses every element. `Push` does the same when `QueueSize` is not 0.
* dispatch_freertos.cpp:210 asserts that xEventGroupSetBits returns `pdTRUE`; it
  returns the bits that are set, which are never that value there. The assertion
  fails in a build that has it.

Of the drivers:

* A TWIM error that comes before transfer reads ERRORSRC is answered by transfer, and
  again, with ok, by the handler (i2c.hpp:231 has the callback called when the
  transfer completes, with its result). See "Keeping up with the bus".
* The nRF52 driver sets `busy_` for `stop` and `restart` (line 224) and returns ok, and
  no interrupt comes to clear it; stop() in the middle of a transfer leaves it set
  too. Every later transfer is refused. `TwimDriver` does the same.
* If the handler is kept from running until ERROR and STOPPED are both set, it answers
  the transfer, leaves STOPPED set, and runs again; the assertion at
  nrf52_i2c_master.hpp:272 fails (`failed` in the model).
* `MIN_ALLOC_SZ` is the least rest that is split off, not the least allocation that
  malloc_freelist.c:32 calls it (a request for one word is given one word, if the rest
  is large enough).
* The Aardvark I2C controller defaults its destructor, the case `ActiveObject` has with
  `derivedShutsDown` FALSE, in which `ProcessOnWholeObject` promises nothing.
* `started_` is never set, neither in the adapter nor in the controller: a second
  start opens the adapter again, which fails and loses the handle, and stop never
  closes it.
* Without assertions the Aardvark controller takes positive codes, and every
  write-read, for ok, although i2c.cpp:114 means to return the read's status. Its
  callers then use bytes that never came. In the model a chain goes on after such a
  transfer, with any value in the register, and counts as answered at its end: the
  properties are about chains and buffers, and none follows what becomes of the data.
* The pull-up mask starts at 0 and is only and-ed (base.cpp:114), so pull-ups are never
  enabled; targetPower calls the pull-up function; sweep is declared and not defined.
* The VL53L1X driver ignores what transfer returns. Over the nRF52 driver, which
  answers busy and calls nobody back, the buffers of that transfer would be lost;
  over the queue of the Aardvark nothing is refused, which is the case modelled.
* writeReg hands over a register number and its data as two transfers, which another
  thread's may come between. checkModelID asserts the identity even when its
  transfer failed.

Of the two libraries:

* recursive_timed_mutex::unlock notifies after it has given the inner mutex back, so
  that a destructor may finish before it does: `QuietAfterDestroy` has to except it,
  while timed_mutex, which notifies inside, needs no exception.
* The FreeRTOS binding returns `pdTRUE`, which is 1, for success; mutex::lock throws on
  anything but 0, and unlock asserts 0. Its condition variables are compiled out.
* qsort cannot report that the heapsort it falls back on found no memory, and leaves
  the data unsorted. `SortsAndSearches` asks for a permutation in that case.
* strtol converts nothing where a prefix ("0x") has no digit behind it; the standard
  has the 0 converted. strcmp and strncmp compare plain `char`, not `unsigned char`.
* realloc copies the new size from the old block, reading past a shorter one, and
  does not free the block when the new size is 0.

### The bounds, and why they are enough

* *Slots* 4 and 3: enough for an element, a wrap-around, and a strict interior;
  an index is advanced past the end from every combination of head and tail. The
  proofs cover every size. Two values tell elements apart; an order error or a
  stale byte shows. The lock-free run exercises the comparison in
  advance_headtail_value, the flag run the modulo, and `StepsAgree` proves that the
  two are the same function.
* *WordSize* 16 has the wrap-around of `size_t` in reach: 16 is larger than twice
  the slots, so that a wrapped difference cannot be mistaken for a real size.
* *3 operations, 2 or 3 workers*: a notification or bit that serves two operations
  while a worker sleeps needs two of each; three operations let one be dispatched
  by a running operation and one be left when the queue quits. Each operation is
  dispatched once, which only gives each its identity.
* *MaxSpurious* 1: a spurious wake-up leaves no trace but the step itself. The proofs
  hold for every bound.
* *Regions*: 42 words less headers, in three blocks of which two are adjacent:
  blocks of more than one region, splits, blocks too small to split, merges with one
  and with two neighbours, and exhaustion all occur. Of the requests one is for
  nothing, one (21 bytes) is no whole number of words, and one (254) cannot be rounded up
  in a `size_t` of 8 bits. The theorems hold for any regions, header, word and requests.
* *Two threads and the handler* in `TwimDriver`: one transfer in progress, one that is
  refused or comes right after it, and one made by a callback. Addresses, buffers and
  lengths do not influence the control and are left out; a refusal of the
  address and of a data byte, also of the last, are told apart. The proofs cover any
  number of threads.
* *MaxOwned* 1: a thread that holds one unit and wants the second meets the empty pool.
* BoundedFifo asks `peek` for one element too many at most; all larger requests are
  refused alike.

* *A pool of 6 buffers, 2 calls* in `TofDriver`: mode needs four at once and reset's
  chain one more, so the pool runs out in some behaviours and suffices in others; two
  calls interleave their chains with each other's callbacks. `start` brings reset and
  the polling of the firmware with it. More trim bytes repeat the same transfer. The
  proofs cover any pool, any trim and any number of calls.
* *Limit* 2, three threads and four lock calls: a recursive lock reaches its limit and
  is refused, two threads sleep while a third barges, and one that timed out can be
  the one that was notified. The theorems about `TimedMutex` hold for every bound.
* *Two flags*: the one condition variable wakes callers of the wrong flag. Four calls let
  a function throw, be tried again, succeed and be skipped.
* *Lists of 4, 3 and 2 locks* in different orders overlap so that blocking in any fixed
  order would close a cycle; the two-lock form is a function of its own in the code. The
  proofs cover any lists, and any number of flags.
* *libc*: arrays of 7 reach the median of three and all permutations; the sawtooth and
  pipe-organ arrays are longer and reach the sample of nine and, with the depth limit
  given as a parameter, heapsort at several levels. Four-bit longs put the boundaries
  of the type in reach of four characters, in every base. Eighteen bytes hold
  every alignment of source and destination with a whole word on each side. The widths
  of `aligned_malloc` are in the order of the code's (offset, header, `size_t`), so that
  each overflows for some alignment or size. The theorems
  hold for arrays, memories, ranges and alignments of any size; only `Texts` rests on
  the bounds.

Deadlock is checked where a program runs for ever or its end is a state of its own:
specifications of such programs have an action `Over`, or the halted program of
`MallocThreadX`, that stutters in the final state and only there. Three runs have
CHECK_DEADLOCK FALSE: `TofDriver` stops when an assertion halts it or its calls are used
up, the timed mutex and call_once of `Libcpp` when theirs are, and `Libc`
makes one call. What must not get stuck in the first two is stated as
liveness; that callers of std::lock do not wait for each other in a circle is
`LocksSafely`.

### Fairness

`FairSpec` has weak fairness of each thread's own steps, as of any preemptive scheduler
that runs every thread that stays able to run. It also stands for two facts of the
environment: an operation that runs returns (`Finish`), and the timed wait of the
event-flag destructor ends (`Timeout`, in the same disjunction). Taking the mutex is
weakly fair too, not strongly; the properties hold because each thread comes to a rest
(asleep, finished, or out of work) and the finitely many operations run out. Calling
dispatch, destroying the object and spurious wake-ups are never required. In
`MallocThreadX` the fair steps are those inside `malloc`, and the wait of `Allocate` for
memory is not promised to end. In `TwimDriver` the bus goes on (no clock stretching for
ever), the handler runs when it is raised, and a call that is in progress goes on when
it can; calling is never required. In `TofDriver` the two threads are scheduled, and a
device that is polled again and again reports ready some time (strong fairness of that
answer: nothing in the driver bounds the polling, and without it read and reset never
end). In `TimedMutex` a thread inside a call goes on if it can again and again (strong,
because the inner mutex is taken and given back by others all the time), deadlines pass,
and a wait ends after its deadline. Nothing makes a caller unlock: `CallsReturn`
promises a return to calls with a deadline, and to the others if the lock is free again
and again. In `CallOnce` the function ends, by a return or by an exception. Nothing is
promised of std::lock, whose callers can give way to each other for ever. `Libc` needs
none.

### Keeping up with the bus

`prompt` says how fast the program is. A prompt program never lets the bus complete
a byte between the compare-and-swap and the end of `transfer`, nor while an interrupt
is waiting or being handled: at 400 kHz a byte takes 22 microseconds, and the code in
between is some tens of instructions. Nothing enforces it, and a thread that is
preempted there, or a handler of low priority, breaks it; so the runs have both.
`OneTransfer` and `TransferEnds` hold regardless. `AnsweredOnce` and
`BuffersReturned` are promised to a prompt program and to the blocking variant
(`Prompt`). A late one can be called back twice, first with the error that
transfer itself reads, then with ok by the handler, and may start its next
transfer in between.

## 4. The proofs

Each proof module extends what it is about. The theorems take the constants as
arbitrary, under the named assumptions of the modules that declare them, which TLC
evaluates in the runs: sizes are positive naturals, the owner is a client, threads,
workers and the non-values are distinct, and `Workers` is finite in `DispatchQueue` (the
proof counts sleepers). `Limit` is any positive number in `TimedMutex`, the arguments of
std::lock are lists of locks (`WantsAssumption`), and the regions of the free list are
disjoint and longer than a header, its requests any sizes of a `size_t` that is a whole
number of words. Of libc, arrays are any sequences of integers (`ArraysAssumption`),
memory is any function from the addresses up to `Top` to integers (`MemoryAssumption`),
a word has 1, 2 or 4 bytes (`WidthsAssumption`; memset stores by words of four bytes
whatever `W`), malloc answers with NULL or any address that is followed by a block of
the size it was asked for, sizes are any `size_t`, and alignments are 0 or any power of
two (`PointersAssumption`: the code asserts as much). One theorem has an assumption
more: `FreeMerges` takes `GivenDownwards`, without which fl_free does not merge (section
3). `MCFreeList` assumes it of the regions of its run.

| Module | Theorems | Argument |
|---|---|---|
| `Data_proofs`: `Ring` | `StepsAgree`; lemmas on what `Segment` and `Wrap` return | arithmetic without remainders: the step by modulo is first shown to be the comparison |
| `Loops`, `LibcSort` | `BSearchFinds` | `IterateEnds`: a body that stays in a set P (the loop invariant) and lowers a natural number wherever it is not the identity has ended after as many passes as that number. For bsearch P says that no element outside the range that is left is the key (`Unruled`) |
| | `HeapSortSorts` | each loop has its P. Building: all from i on is a heap (`HeapFrom`) but for the element that sinks (`Sinking`). Extracting: the front is a heap, no element of it is larger than one behind, and those are in order (`Behind`); in between, a hole moves down to a leaf and up to where the displaced element belongs (`Descending`, `Ascending`). That the elements are the same is kept as a permutation of the positions (`Rearranges`) |
| | `QSortToSorts` | partitioning keeps four bands, equal, smaller, larger, equal (`FourBands`), and exchanging the outer ones (`VecSwapOK`) leaves three (`Banded`). The insertion sort that runs where nothing was swapped either ends, and then what it leaves is in order, or gives up, and then it has kept the bands (`KeepsBands`). The two parts are sorted by the calls at a smaller depth limit (`Turn`, `SetInduction`), and at 0 by heapsort |
| `CircularBuffer_proofs` | `TypeCorrect`, `FlagTruthful`, `Refinement` | TypeOK with the truthful flag is inductive. `Contents` is a `Segment`; each call maps to the FIFO's by how a segment grows at its end and shrinks at its front |
| `SpscCircularBuffer_proofs` | `TypeCorrect`, `RaceFree`, `AnswersKept`, `PeeksAreFaithful`, `Refinement` | the program counters are tied to the indices: a producer between its test and its store still has room (`RoomKept`), a consumer still has an element (`ElementKept`), the byte read is the oldest (`SlotRead`), the byte stored is in place before it is published (`SlotWritten`), and what a peek is due is still at the tail (`DueHeld`). None of the properties is inductive without these |
| `DispatchQueue_proofs` | `TypeCorrect`, `WakeupsKept`, `Refinement` | who is inside a critical section holds the mutex (`LockInv`), who runs holds an operation (`OpInv`), `quit_` and the owner's progress determine each other (`QuitInv`), and no one else calls during destruction (`OwnerInv`). `WakeupsKept` counts: a push adds one queued operation and one ready worker, or finds nobody asleep; the notification that follows `quit_` wakes all who sleep, and who tests later does not go to sleep (`QuitWakeup`, `LeaveWakeup`) |
| `DispatchEventFlags_proofs` | `TypeCorrect`, `NoOperationStranded`, `CleanupAlone`, `Refinement` | the same parts, and `JoinInv`: the destructor is past a worker only when that worker is deleted |
| `ActiveObject_proofs` | `TypeCorrect`, `WakeupsKept`, `ProcessSafe`, `Refinement` | the same parts, with `ShutdownInv` (past a shutdown, the thread has ended) and `DerivedInv` (the derived part goes after that, if its destructor calls shutdown) |
| `Runtime_proofs`: `LibcCalls` | `LibcSorts` | from the three theorems above: a permutation of the positions is a bijection between the places of any value, so that a value is there as often as before (`CountKept`) |
| | `MemCpyCopies`, `LibcMoves` | to copy j bytes and then k from where that stopped is to copy j + k, as long as what is still to be read has not been overwritten (`SourceAbove` upwards, `SourceBelow` downwards); so the bytes, words and bytes of memcpy copy the whole range. `FirstWordAligned` shows that the leading bytes end on a word at both ends. `MemSetFills`, `CallocIsExact` and `AlignedMallocFits` are the arithmetic of the other three; the last is where the sums do not wrap, which is the premise `RoomFits` |
| `TimedMutex` | `Invariance`, `QuietOnceDestroyed`, `Refinement` | the two words agree with what the callers were told (`Agrees`): the count is what the one holder has, and `id` names it while the lock is recursive; and a thread in a critical section has the inner mutex (`Places`). With these, a grant is a step of the abstract lock, although it is decided from `count` and `id` alone |
| `LockAll` | `LockNeverDeadlocks` | a thread holds the first k locks of its round and no other (`Mine`), and a round begins with the lock that refused the last (`Resumes`). `NextRound` is the arithmetic of the switch on the index: whatever the number of arguments, the rotations by two and the new index 0 or 1 put that lock first |
| `CallOnce` | `FunctionsRunOnce` | a flag of 1 is one running thread's (`OneRuns`), a function counts as returned from the moment it has until its flag says so (`Counted`), and nobody is told before (`Told`) |
| `MallocThreadX` | `PoolExistsBeforeUse`, `NothingHandedOutTwice` | the announcement follows the creation, and every allocation follows the announcement (`Announced`) |
| `FreeList` | `MemoryTiled`, `FreeListIsAllocator`, `FreeMerges` | `FLInv`: the list has no repetition, shares nothing with what the user holds, and all of it tiles the memory (`Tiles`, by words rather than by counting). A split, a merge and a new region keep a tiling. The pass of defrag_free_list keeps `PassOK`: what is kept, what is still to come and what is in use tile the memory, the user's sizes are untouched, and of a list in order no two that were kept touch. `KeepsOrder` shows that every operation leaves the list in order if regions come from the highest down. `RoundUpFacts` compares the rounding with what is owed: equal, or the sum wrapped around and nothing is owed; `ServeFacts` says which block a request gets |
| `Drivers_proofs`: `TwimDriver` | `OneTransferAtATime`, `EveryTransferAnsweredOnce`, `AnswerReturnsBuffers` | `TwimInv`, in two halves. `Polling` says of the blocking variant that one thread is inside and no interrupt is enabled; `Preempting` of the other that `busy_` is set while anybody sets a transfer up or the bus moves, that nothing has happened which no interrupt is enabled for, and what each event says of the bus. `AnswersPolling` and `AnswersPreempting` tie the number of answers, whom they went to and the error register to that |
| `TofDriver` | `EveryBufferComesBack`, `NoReadIsLost`, `NoResetIsLost` | `Owned`: a buffer in use ends, with the one callback that frees it, in exactly one of the queue and the two threads' lists, and what is queued before that only uses it. `Accounted`: of each chain, what was asked for is what was answered, given up, or is on its way in one of the three lists, as a transfer of it or as the item that makes its first. The lemmas on `Ends`, `Kept` and `Unused` say how lists of transfers are joined and taken apart, `FollowsItems` and `MadeItems` what each callback and each operation adds |

Every proof has the same shape: facts about the constants and the operators, the
inductive invariant in named parts, that Init establishes it, one lemma per action that
it is kept, its invariance, the properties as its consequences, and the steps' images
under the refinement mapping. TLC checked each inductive invariant before it was proved.

The same executor is proved of three implementations, on a condition variable with many
sleepers, on event bits, and with one worker. They do not wake up alike: `NoLostWakeup`
of the condition variable gives every queued operation a worker of its own, and has
nobody asleep once `quit_` is set, while `NoneStranded` of the event bits promises one
worker for all of them; an operation may there wait for a busy worker although another
sleeps.

The loops of defrag_free_list and of libc, which are recursive functions, are reached
without the library's induction theorems, whose parameters are operators: a set of
numbers that is not empty has a least element (`Least`, from the well-foundedness of
the order on the naturals), so the first n for which a claim fails would have a
predecessor for which it holds (`SetInduction`: a set of naturals with 0 and with the
successor of each of its elements has them all). `PassExists` and `RunExists` show in
this way that the functions are defined, `DefragOK` what holds after each block of the
list, and `IterateKeeps` what holds after each pass of a loop. The depth limit of
quicksort may be any integer; `SortExists` builds the function for those above 0 in the
same manner.

Only model-checked:

* everything that must *eventually* happen (`DestructorReturns`, `OperationsRun`,
  `WaitEnds`, `TransferEnds`, `ChainsEnd`, `CallsReturn`), since TLAPS does not reach
  liveness under fairness;
* `Texts`, the string functions of libc: their operators are RECURSIVE, and strlen and
  strchrnul compute with the bits of words, neither of which the provers take;
* that the run `Libc`, whose specification adds the calls of the string functions, keeps
  `SortsAndSearches` and `Memories`: the theorems are about `CallsSpec`, which has all the
  calls that the two speak of;
* `SizeWithinCapacity`, which does not hold.

Every other property of the runs is a theorem for all values of the constants.

## 5. What is not modelled, and what is assumed

* Memory is sequentially consistent. The lock-free buffer uses plain variables, which
  suits one core and a compiler that keeps the order of its stores; on another
  machine it needs barriers. `circular_buf_put` and `circular_buf_reset` run
  while no other call does, as the file asks. circular_buf_free, after which the
  lock-free buffer may not be used, is left out there.
* Assertions of the event-flag queues are compiled out. That a plain `bool` is written
  by one thread and read by others (`quit_`) is taken as one read or write of a
  value.
* eTaskGetState of a deleted task answers `eDeleted`; what it reads once the idle
  task has freed the task is outside the repository. Creation of tasks, mutexes and
  event groups succeeds.
* Operations do not throw. shutdown of an active object is called by destructors only.
* malloc of 0 bytes is not called in `MallocThreadX`, which refuses it.
* Some steps are coarser than the code, where nobody can see the difference or a note here
  says what is not seen: the copying loop of a peek in the lock-free buffer (the slots are
  the consumer's, as `NoSlotRace` shows); the event-flag worker's last test of `quit_` and
  its pop, between which the destructor may set `quit_` (the operation then runs, as if
  it had been set after).
* Narrowing conversions that lose nothing here: of memset's fill value, which is a
  byte, and of a count to int in vecswap, for arrays that fit a 32-bit target. The
  NULL arguments that strcmp, strncmp and memcmp test for are left out.
* What the VL53L1X driver does with the data of a failed transfer (trim values, oscillator,
  model ID, range) is not followed; section 3 says what it does.
* The VL53L1X driver's register values, ranges and the tables of timing are data. The
  status registers it polls answer anything.
* The RTOS bindings of libcpp: one RTOS call per function, so a model would be one of the
  RTOS. Their condition variables are compiled out.
* The C++ circular buffer: each operation is the one of circular_buffer.c under a lock held
  from start to end, so its histories are those of `CircularBuffer`. full and capacity read
  one word.
* mutex, recursive_mutex, lock_guard and unique_lock forward to the RTOS or to each other;
  they are the primitives that `TimedMutex` and `LockAll` start from.
* Of libc: strtod and strtof (floating point, which TLA+'s integers do not reach), rand,
  the div functions, strdup and realloc (an allocation and a copy), ctype, and the `_r`
  variants, whose text is that of qsort and heapsort with one more argument.
* Of the Aardvark: baud rate, pull-ups, target power, pings and the GPIO controller, each a
  single call of the vendor's library.
* Vendored headers, register maps, language examples, the interview questions and the
  build have no behaviour of their own to verify; `PROJECT.json` lists them. They are most
  of the repository by lines: the nRF52 and VL53L1X register definitions alone, and the
  RTOS headers, are declarations and nothing else.

## 6. The plan

Done: the circular buffers, the three queues, the three allocators, both I2C controllers
and the sensor's driver over one of them, the mutexes, std::lock and call_once, the
algorithms of libc, and a theorem for every safety property and refinement of their runs
but `Texts`.

What is left, in the order of its worth:

1. Proofs about the string functions: strstr, strtok and strtol as loops of `Loops`, as
   sorting is; strlen's masks with bytes and a carry in place of Bitwise.
2. Step properties of the queues that a client can rely on, from the invariants proved here.
3. The doubly linked list, with its pointers, refining the sequence that `FreeList` uses.
4. The VL53L1X driver over `TwimDriver`, where a transfer can be refused as busy.
5. The single-producer single-consumer buffer under a weaker memory, in which stores of one
   thread may be seen out of order.
