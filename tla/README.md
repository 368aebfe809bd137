# Beaconizer: TLA+ specification

Beaconizer is a C library for Bluetooth LE beacons (an epoll event loop with
I/O channels, timers, a systemd watchdog and signal handling, plus a Bluetooth
name database and small utilities) and two programs built on it. This directory
specifies its run-time core, model-checks it with TLC and proves properties of
it with TLAPS. Paths are relative to the root of the repository's copy, so the
library's sources are `src/src/common/*.c` and `src/include/beaconizer/*.h`.

## 1. The system

| part | state | operations | talks to |
|---|---|---|---|
| event loop, `loop.c` | epoll descriptor, `terminate`, `status`, table of entries (`count`, `top`, `entry`), the entries, the kernel's interest list, `event_pool` | `loop_init`, `loop_add_sd`, `loop_modify_sd`, `loop_remove_sd`, `loop_run`, `loop_quit`, `loop_exit_success`, `loop_exit_failure` | callbacks and destructors of every other part; watchdog |
| I/O channels, `io.c` | `io_t`: reference count, descriptor, mask, three handlers | `io_new`, `io_set_*_handler`, `io_set_close_on_destroy`, `io_process_event`, `io_destroy`, `io_send`, `io_shutdown` | loop; callbacks and destroy functions of the program |
| timers, `timer.c` | `timer_entry_t`, timerfd | `create_timer`, `modify_timer`, `destroy_timer`, `timer_callback` | loop (one-shot registrations) |
| watchdog, `watchdog.c` | notification socket, watchdog identifier | `watchdog_init`, `watchdog_notify`, `watchdog_add`, `watchdog_remove`, `watchdog_exit` | timers; called by `loop_init`, `loop_quit`, `loop_cleanup` |
| signal loop, `signal.c` | signalfd channel, handler data | `loop_run_with_signal`, `signal_read` | I/O channels, loop |
| utilities, `utility.c` | none, but for the bitmap of identifiers callers keep | byte order, `util_get_uid`, `util_clear_uid`, strings, hexdump | – |
| database, `db.c` | constant tables | look-ups by UUID, vendor, device class, appearance | iBeacon program |
| iBeacon program, `ibeacon.c` | settings, HCI descriptor | defaults, command line, open, clean up | utilities; BlueZ |
| Eddystone program | none (empty `main`) | – | – |

Everything runs on one thread. What makes it hard is re-entrancy: the loop calls
callbacks and destructors of the program, which call the loop again; and the
programs under `src/test` install a signal handler that calls `loop_quit`
between any two instructions. The hard behaviours are

* a callback that removes descriptors, or quits the loop, while events fetched
  earlier in the same batch still point to their entries;
* a destructor that calls the loop while `loop_cleanup` walks the table;
* the table growing, shrinking and being torn down while addresses of entries
  are kept by the kernel, by the batch and by pending calls;
* calls that fail half-way (table grown, entry not registered), and results
  whose sign the callers misread or that they ignore: what a table damaged by
  `loop_remove_sd` has lost can be neither modified nor removed;
* channels that their own callback destroys;
* numbers used as names: descriptors are reused by the kernel, and 0, -1 and
  errno are stored where a descriptor or an identifier is expected.

There is no persistence, hence no crash recovery, and there are no messages
between processes.

What makes each part correct:

* loop: the table lists the watched descriptors; what epoll hands back is alive;
  an entry is freed once; a clean-up skips nothing and ends; an event reaches
  the callback registered for its descriptor; quitting ends `loop_run`.
* channels: the count equals the number of holders; user data is released once;
  no callback after `io_destroy`; masks agree with handlers.
* timers: a timer fires at most once per arming and not before its time; after
  `destroy_timer` it does not fire.
* watchdog: the keep-alive is sent while the loop runs; the identifier, which
  outlives its timer, takes nothing from anybody else.
* signal loop: a signal that is raised reaches the program; the data of the
  handler is freed once, whoever ends the loop; nothing stays open.
* utilities: identifiers are unique until cleared; what is put is what is got.
* database: a UUID has one name however it is written; an appearance is named by
  its own row or its own category.
* iBeacon program: the beacon starts with what was asked for; the device is
  closed whatever fails.

## 2. Modules

| module | what it is |
|---|---|
| `Loop` | `loop.c`, one action per function or per piece of a function between two points where user code can run |
| `LoopProps` | its properties |
| `Registry` | the abstract specification: what `loop.h` offers to its clients |
| `MCLoop`, `MCLoop_*.cfg` | model values for TLC |
| `Loop_proofs` | type correctness and the shape of the table, proved |
| `LoopTable_proofs` | the inductive invariant behind the table, ownership, clean-up and the table's faults, proved |
| `LoopWatch_proofs` | the kernel's pointers, the batch, all faults, and that `Loop` implements `Registry`, proved |
| `Io` | `io.c` over what the loop offers |
| `IoProps` | its properties |
| `MCIo`, `MCIo_*.cfg` | model values for TLC |
| `Io_proofs` | every property of `IoProps`, proved |
| `Timer` | `timer.c` over the loop's one-shot registrations and the kernel's timerfds |
| `TimerProps` | its properties |
| `OneShot` | the abstract specification of `timer.h`: timers that ring once per arming |
| `MCTimer`, `MCTimer_*.cfg` | model values for TLC |
| `Timer_proofs` | the safety properties of `TimerProps`, proved |
| `Process` | a process that runs the loop: its descriptor numbers, the loop's table and batch, its pending calls |
| `Watchdog` | `watchdog.c`, extends `Process` |
| `SignalLoop` | `signal.c`, extends `Process` |
| `Service` | composes `Watchdog` and `SignalLoop` in one process: a daemon |
| `ServiceProps` | its properties |
| `MCService`, `MCService_*.cfg` | model values for TLC |
| `Service_proofs` | the safety properties of `ServiceProps`, proved |
| `Uid` | `util_get_uid`, `util_clear_uid` |
| `ByteOrder` | the put and get functions of `utility.c`, as operators |
| `Db` | the look-ups of `db.c`, as operators |
| `Library` | calls `ByteOrder` and `Db` with any argument, next to `Uid`; their properties |
| `MCLibrary`, `MCLibrary_library.cfg` | values for TLC |
| `Library_proofs` | every property of `Uid` and `Library`, proved |
| `IBeacon` | a run of `ibeacon.c`, and its properties |
| `IBeacon_proofs` | the beacon starts as asked, and the device is handed back, proved |
| `MCIBeacon`, `MCIBeacon_ibeacon.cfg` | values for TLC |

`Loop` implements `Registry` (`ServesRegistry`), and `Io` uses the loop within
`Registry` (`UsesRegistry`): the two modules meet in the abstract specification
instead of being multiplied with each other. `Timer` implements `OneShot`
(`RingsOncePerArming`), which is what the watchdog is built on. `Service` asks a
question none of them can: what happens when timers, the signalfd, the
notification socket, epoll and the program's descriptors share one table of
descriptor numbers and one clean-up. It therefore has its own, smaller, view of
the loop (`Process`): the table with the shift of `loop_remove_sd` as it is, but
no addresses, no growth and no pool, which are the subject of `Loop`.

Definitions marked `mutant` stand next to the definition they alter. The
specifications do not use them; each is a bug one could plausibly make there,
and `PROJECT.json` names the property that notices it.

### 2.1 Loop: how it corresponds to the code

Variables have the names of the code where it has one: `count`, `top`, `entry`
are `__s_data.storage`; `heap` is the memory of the `event_entry_t` objects by
address; `watch` is the kernel's interest list, which keeps the address it was
given; `pool` is the length of `event_pool` and `batch` its part still to be
dispatched; `run` says where `loop_run` is.

`stack` holds the calls that run user code at the moment: a callback called by
`loop_run`, the destructor called by `loop_remove_sd` or by `loop_cleanup`, and
the clean-up itself, which stops at every slot so that the signal handler can
interrupt it there. A function of the loop that calls user code is split at the
call: `RemoveSd` is `loop_remove_sd` up to the destructor, `RemoveReturns` the
rest; `CleanupSlot`, `SkipSlot`, `CleanupReturns`, `CleanupEnd` are the pieces
of `loop_cleanup`. The other functions are one action each, with their failures
(`LoopInit` leaves the epoll descriptor open when the table cannot be allocated,
`AddSdFails` keeps the table grown, also before `loop_init`). The search of the
table reads the slots one after the other (`Found`, `SearchFaults`): a NULL slot
or a freed entry on the way is undefined behaviour.

Undefined behaviour ends the execution: `fault` records the first one (`null`
and `stale`: a search or the clean-up reads a NULL slot or a freed entry;
`twice`: an entry is destroyed while its destructor runs; `pool`: `epoll_wait`
writes past `event_pool`; `dispatch`: `loop_run` reads a freed entry;
`unallocated`: `loop_init` had no memory for the table after a refused
`loop_add_sd` had left a count). What the
build does after that is not modelled, and the properties state what it takes
to get there.

Two history variables: `holed` says that a removal of a slot other than the last
one has damaged the table (finding 1), `dropped` collects the descriptors
unregistered since the last `epoll_wait`.

Left out: argument checks that return before anything changes; an `epoll_ctl`
that fails to modify a registered descriptor (in `Io` it may); descriptors closed
while they are registered; a callback that calls `loop_run`; a signal in the
middle of a step (between two assignments of one function), which the code does
not survive either; `watchdog_init` and `watchdog_exit`, which at these points
change nothing of the loop unless a watchdog is configured.

### 2.2 Io: how it corresponds to the code

`io` maps addresses to `io_t` records. A handler is a callback flag and the user
data its destroy function will release; `data` follows each object from the
program to a handler to its release. `io_process_event` goes through the stages
of `After`: `Start` takes the reference, `Abandon` is the error without a
disconnect callback, `Call`, `Skip`, `ReturnKeep` and `ReturnDrop` serve one
handler, `Finish` gives the reference back. While a callback runs the program
may call any function of `io.h`, and `loop_quit`. Everything `loop_remove_sd`
and `loop_cleanup` do to a channel is `Forget`: the registration goes, and
`io_destroy_callback` releases the data without clearing the handlers.

The table of the loop is there as far as the channels notice it: `lost` are the
descriptors that epoll has and the table has not. `Shifted` is the shift of
`loop_remove_sd`: a removal (`Shifts`, or `OthersRemove` by another user of the
loop) may lose one of the descriptors that stay, and leaves a freed entry, or an
entry twice, in the table. A lost descriptor is not found: `Forget` does nothing
to it, `Modify` fails, and `IoDestroy` and `Abandon`, which ignore the result,
go on; so a channel may be freed and still be registered (`StartFreed`). Any
later search may read the freed entry (`TableFaults`), and a clean-up of the
damaged table does so for certain, which is why `LoopQuit` is for an intact one.

Faults: `twice` (a destroy function is called again on the same data),
`released` (a callback gets data already released), `null` (`io_new` does not
check `malloc`), `dispatch` (the loop's own fault on an event of a removed
descriptor), `freed` (an event of a channel that is freed), `table` (the loop's
own fault on a damaged table).

`io_get_descriptor`, `io_send` and `io_shutdown` change no state. The program's
destroy functions are assumed to release their data and not to call back. The
program keeps to the interface: it uses a channel until it calls `io_destroy`
and gives an object to one handler only; and it closes no descriptor that is
registered with the loop. History: `holed` (as in `Loop`), `refused` (a registration was
refused and `io_new` did not notice), `unmodified` (a `loop_modify_sd` failed).

### 2.3 Timer: how it corresponds to the code

A timer is its descriptor; `timer` maps it to the kernel's timerfd (`value`, the
absolute time it expires; `unread`, an expiration that nobody has read) and to
the loop's registration (`watched`, `enabled`: EPOLLONESHOT disables it with
every event reported, `Wait`). `CreateTimer`, `ModifyTimer`, `DestroyTimer` are
the functions of `timer.h`; `TimeoutSet` gives the interval to the kernel the
way the code does, as an absolute time. The loop's table is kept as in `Io`
(`lost`, `Shifted`, `OthersRemove`, `TableFaults`): `DestroyTimerFails` is
`destroy_timer` of a timer it does not find, which stays open and armed, and
`epoll_wait` may report a part of the events only when `top` has fallen behind.
`Dispatch` is `timer_callback`: it reads the timerfd and calls the callback only
if there was something to read. `Tick` and `Expire` are the kernel. `ids` are
the timers the program believes it has; among them, after a failure that looks
like a success (`failed`), may be ids that are not watched or not its own.
History: `due`, when the interval asked for is over.

### 2.4 Process, Watchdog, SignalLoop, Service: how they correspond to the code

`fds` says what every descriptor number is; `Opens` takes the lowest free one,
as the kernel does, so that a number is reused at once. Standard input may be
closed at the start (`ProcessInit`), which makes 0 an ordinary descriptor.
`watched` is what epoll knows, `table` what the loop lists, in order: `Shifted`
is the shift of `loop_remove_sd`, which leaves a slot with a freed entry
(`DEAD`) or loses the last one. `batch` and `dropped` are the events fetched and
those whose entry has been freed since. `calls` holds the calls that have not
returned: code of the program (`user`), `loop_cleanup` before (`cleanup`) and
after (`torn`) the table is gone. `Quit` and `ExitLoop` may start a clean-up at
any moment, on top of any other call, which covers the signal handlers of
`src/test`; `read` and `deliver` are `signal_read` before its read and before it
calls the program's function, so that a clean-up may come between;
`CleanupEntry` is one round of its loop, `TearDown` the rest and `WatchdogExit`
the last call. `fault` is as in `Loop`.

`LoopInit` is `loop_init` with `watchdog_init` and the failures of both. `Added`
is what `watchdog_add` makes of the results of `create_timer`: an errno and a
timer that is not registered pass for identifiers, a negative result becomes 0.
`watchdog_update` adds as well, so that `WatchdogAdd` is both. `WatchdogRemove`
removes whatever the loop lists under that number. `WatchdogFires` is
`watchdog_callback`, which destroys the timer and does nothing else.
`LoopRunWithSignal` and `LoopRunReturns` are `loop_run_with_signal` before and
after `loop_run`; `SignalEvent`, `SignalRead`, `SignalFunction` and
`SignalReadFails` are `io_process_event` and `signal_read`, step by step,
`SignalIgnored` an event without a handler; and `SignalDataGone` is a read, or a
call, through data that a clean-up has freed meanwhile (fault `data`). They keep
the part of a channel `signal.c` uses: its handler, whether the mask asks for
reads (`armed`), its registration, and what becomes of the handler's data.

`mishap` is a history variable and a bound: one failure per run goes unnoticed
(a timer or channel that is not registered, an errno taken for an identifier, a
mask that could not be changed). Also bounded: one loop and one
`loop_run_with_signal` per process, `MaxOwn` descriptors of the program and
watchdogs it adds at a time, `MaxTop` slots, `MaxCalls` pending calls of which a
clean-up leaves one for a destructor. Left out: the period of the watchdog (it
may ring at any time), `malloc` failures, which `watchdog_add` and
`loop_run_with_signal` do not check, destructors of the program's watchdogs that
call back, and a descriptor closed while it is registered.

### 2.5 Uid, ByteOrder, Db, Library: how they correspond to the code

In `Uid` the bitmap is the set of its bits, `FirstClear` is `ffsll(~bitmap)`;
`held` is history. `ByteOrder` puts words into a memory of bytes: what a host of
either byte order does with `cpu_to_*` and `put_unaligned` is to write the
digits of the value in the order the name of the function says, which `Offset`
is. `Power`, the powers of the base, and the sum in `GetWord` are functions
defined by recursion. `Put` for 24 bits is the two steps of the code, in its
order. `Db` names a string by the row of its table; the table of appearances is
complete, with its three "Undefined" rows, the tables of UUIDs are constants. A
text given to `detect_vendor` is a number, a UUID of 36 characters, or anything
else. `Library` has one call in progress.

### 2.6 IBeacon: how it corresponds to the code

`phase` follows `main`: the options, one action per option taken and one per
option refused; for `-u` one action per round of the loop over the characters
(`FirstDigit`, `SecondDigit`, `SkipSeparator`, `WrongCharacter`), with the
loop's counters in `parser`, until `EndOfUuid`; `EndOfOptions` is the rest of
`ib_process_command_line`, `OpenHci` is `ib_open_hci` with the call of BlueZ
that fails, if any; `CleanUp` is `ib_clean_up`. An argument is what the program
makes of it: a text that is no number is 0, as for the code, which does not look
at `ep`. `Stored` says what is in a string setting: the name is filled with
NULs, `bcopy` fills password and serial with whatever follows a shorter
argument. `given` is history. `main` returns success although the device may not
have been opened; the help asks for 32 digits of a UUID where the code takes any
number of them, and an interval is cut to 32 bits. All are modelled as they are.

## 3. What is checked

| run | instance | shows |
|---|---|---|
| `reentrant` | 2 descriptors, 3 entry addresses, 2 masks, tables of up to 3 slots growing by 2, 4 nested calls, destructors that call every function | `TypeOK`; `TableShape`; `TableExact`; `EntryOwnership`; `CleanupProgress`; `TopCountsWatched`; `FaultsExplained` |
| `silent` | 3 descriptors, 3 addresses, 2 masks, 3 nested calls, destructors that do not call the loop | `KernelPointersLive`, `BatchFresh`, `FaultsExplained`, `DeliveredToOwner`, `ServesRegistry`, with the damaged tables included |
| `live` | 2 descriptors, 3 addresses, 3 slots, 3 nested calls, destructors that call every function, fair | `QuitStopsLoop`, `BatchDrains`, `CleanupCompletes` |
| `remove` | 2 descriptors, 2 addresses | finding 1 |
| `io_one` | 1 channel address, 2 descriptors, 1 datum, read and write handlers, other users of the loop | `TypeOK`, `HandlersArmed`, `DataReleasedOnce`, `FaultsExplained`, `SilentAfterDestroy`, with the damaged tables included |
| `io_two` | 2 channels, 2 descriptors, 1 datum, disconnect handlers, nobody else in the loop | `ReferencesCounted`, `RegisteredChannels`, `UsesRegistry`, with the damaged tables included |
| `timer` | 2 timers, intervals 0 to 2, clock 0 to 2, 4 armings, other users of the loop, fair | `TypeOK`, `NoExpiryLost`, `TimersAccounted`, `RingsOncePerArming`, `ArmedRings` |
| `timer_early` | 2 timers | finding 2 |
| `service` | 4 descriptor numbers, 2 slots, 1 descriptor and 1 watchdog of the program, 3 pending calls, fair | `TypeOK`, `SentinelsUnused`, `NothingLeftOpen`, `SignalDataFreedOnce`, `ExitRemovesNothing`, `SignalHeard` |
| `keepalive` | the same, without fairness | finding 3 |
| `library` | bytes of 1 bit, 4-bit bitmap with identifiers up to 6, all values of all sizes, all UUIDs over two tails, appearances 0–1300, 3100–3300, 5100–5300, 65535 | `RoundTrip`, `NamesAgree`, `DeviceByCategory`, `UidsUnique` |
| `ibeacon` | command lines of up to 5 options, numbers below, within and above every limit, UUIDs of 2 bytes of 2 binary digits, texts of up to 5 characters | `StartsAsAsked`, `DeviceHandedBack` |

Bounds. `MaxTop` limits the slots in use and `MaxDepth` the nested calls; in `Io`
user data is not reused, `Handled` limits the handlers installed and
`Neighbours` says whether the loop has other users. Without them two
descriptors can still lose each other (`io_two`), with them one is enough
(`io_one`, where one channel address is used again). Two channels that share one
descriptor, with read and write handlers on both (2.3 million states), were
explored for the properties of `io_one` with the same result. In `Timer`
the clock stops at `MaxNow` and timers are armed `MaxArms` times. Four armings
let a callback re-arm its own timer and the other one while both are in the
batch, and the initial clock is arbitrary, so that a timer may be armed before
or after the time its interval names. With
`ENTRY_CHANGE = 2` the table grows at one slot in use (count 2, `top + 1 = 2`)
and again at three, so that both growth and growth under `loop_run` happen; the
code's 4 behaves alike, and the proofs hold for any value above 1. Three slots
are needed for a removal that shifts something correctly (slot 0 of 3) and one
that does not. Two descriptors over three addresses give an address in use, one
being destroyed and one free; three descriptors (`silent`) give a batch longer than an
`event_pool` allocated before the table grew. Four nested calls are a callback, a removal, a
clean-up in its destructor and the signal handler on top. The runs allow
addresses and descriptors to be reused without limit.

In `Service` four numbers are epoll, the socket, one timer and one more; the
library's timer may have rung and its number be the signalfd or the program's
by the time of the quit, and two slots are what it takes to damage the table.
Three pending calls are a callback, a clean-up and its destructor, or a
clean-up under another one. An instance with three slots (770,000 states) was
explored for the safety properties with the same result. `Errno` is one small
number, which is some descriptor's too. In `library` a bit stands for a byte: the
order of bytes, their places and the cut at 16, 24 and 32 bits do not depend on
what a byte is; the limits asked of `util_get_uid` go beyond the bitmap. In
`ibeacon` five options are the two required ones and three for one setting, or a
setting asked for twice around another; five characters are a full UUID of four
digits with a separator or a wrong character at any place before the last.

Every action and every
disjunct fires; `deadlock` is checked everywhere.

Symmetry is used for descriptors, addresses, masks and data, in safety runs only.

Fairness. `live`: loop code that can run does (`WF(LoopCode)`), because it is
straight-line code of the one thread; the callbacks and destructors called by
the loop return in the end (strong fairness for each depth of the stack, since
user code on top may come and go before a call returns). It is a contract the
loop depends on: nothing in `loop.c` bounds a callback. It is not enough: a
destructor that adds a descriptor whenever it is called keeps `loop_cleanup`
(`loop.c:296`) going for ever, because `top` grows with its index. Without the
bound on the table no run of the model would show it, with the bound the
additions stop; so the properties of `live` give no verdict once the table has
reached the bound (`AddsWithoutEnd`), and promise an end to all other
executions. Nothing is assumed of events, of `epoll_wait` or of anybody calling
`loop_quit`. `timer`: time passes, the kernel notices expirations, `loop_run`
goes on and callbacks return; without the bound on armings a callback could
postpone another timer for ever. `service`: as in `live`, the loop goes on and
the program's callbacks and destructors return at every depth; nothing is
assumed of signals, timers, `epoll_wait` reporting anything but what is ready,
or clean-ups.

What the runs say together. As long as nobody removes a descriptor other than
the last one in the table, the table, the registrations and the entries agree,
through growth, failures, nested destructors, clean-ups and signals. After such
a removal the table is unreliable, but the kernel's pointers are not, if
destructors do not call the loop: callbacks still run for the right descriptor,
and clients see a registry that behaves as specified. Memory errors of the loop
have five causes and no other: the damaged table, events outliving their entry
in a batch, a search from a destructor under clean-up, a table that grew under
`loop_run`, and a `loop_init` without memory after a refused `loop_add_sd`. So
"Quit loop immediately" (`loop.h:40`) does not hold of a batch: it is dispatched
to its end, through entries the clean-up has freed (`loop.c:275`); and "Remove
watched descriptor" (`loop.h:33`) does not withdraw an event already fetched
(`loop.c:276`). Both are the fault `dispatch`.

The damage reaches the clients. A channel or a timer that the table has lost is
neither found nor removed: `io_destroy` frees the channel all the same, its data
is never released, and epoll goes on reporting a freed address; `destroy_timer`
says so and leaves a timer that rings. What is still true over a damaged table
is that counts are right, no callback is started for a destroyed channel, data
is released at most once, and a timer rings at most once per arming.

`io_new` (`io.c:180`), `create_timer` (`timer.c:138`) and `watchdog_add` take a
positive errno of `loop_add_sd` (`loop.c:158`) for success, and `create_timer`
returns errno as an id when `timerfd_create` fails (`timer.c:125`). `Io`
(`refused`), `Timer` (`failed`) and `Service` (`mishap`) have it, and their
properties say what is still true then.

In `Service` the sentinels and the stale identifier of the watchdog turn out
harmless, for reasons that are nowhere in the code: epoll is opened first and
takes number 0, and `watchdog_exit` runs when the table is empty. What is not
harmless is that the watchdog's timer is added first and destroyed when it rings:
with other entries behind it, that is a removal that damages the table, and the
quit of such a daemon is undefined behaviour. Nor is a signal handler that
quits the loop inside `signal_read` (`signal.c:43`): the data is freed under it and
used, or freed again by `io_process_event`; `SignalDataFreedOnce` names this as the
one case. `RoundTrip` promises the low two bytes of what `put_be24` writes, and
`StartsAsAsked` the bytes of a UUID that were given and the numbers that fit: less
than the code's own words say (below).

### Findings

1. `loop_remove_sd` (`loop.c:237`) stops shifting one slot early. Removing any
   descriptor but the last loses the last one's entry. Run `remove`.
2. `timeout_set` (`timer.c:90`) passes CLOCK_MONOTONIC as flags: the "Time
   interval" of `timer.h` is taken as an absolute time. Run `timer_early`.
3. `watchdog_callback` (`watchdog.c:59`) destroys the timer without calling the
   function it was given: the keep-alive is never sent. Run `keepalive`.

Other places where the code does not do what its words say. The models have
them as the code has them, and the properties promise only what is left:

* "Quit loop immediately" (`loop.h:40`): the batch in progress goes on, through
  freed entries (`loop.c:275`).
* "Destroy I/O channel" (`io.h:71`): `io_destroy` ignores that
  `loop_remove_sd` has not found the descriptor, and frees a channel that is
  registered (`io.c:357`); a hang-up does so too (`io.c:109`).
* "Create timer and add it to event processing" (`timer.h:17`): `create_timer`
  returns an identifier for a timer that `loop_add_sd` refused (`timer.c:138`) or
  that was not created (`timer.c:125`).
* `put_be24` (`utility.h:37`) stores its high byte where the low one goes next, and
  leaves a byte of old memory in its place (`utility.c:169`).
* "UUID (must be 32 digits)" (`ibeacon.c:158`): the parser takes fewer, which leaves
  the rest of the random UUID, and ignores more (`ibeacon.c:390`).
* "Advertising interval in ms" (`ibeacon.c:140`): cut to 32 bits (`ibeacon.c:225`), as
  are the numbers `detect_vendor` reads (`db.c:1039`).

And some that no words forbid: `terminate` is never reset (`loop.c:64`), so that a
loop run after a quit returns at once; `epoll_wait` with nothing registered fails,
and `loop_run` spins (`loop.c:271`); a read callback that installs its successor
and returns 0 loses it (`io.c:131`); the watchdog's period has the whole interval in
its nanoseconds (`watchdog.c:116`); after a hang-up the mask keeps events that no
handler is left for (`io.c:105`).

## 4. What is proved

Every safety property and every refinement that the passing runs check is also a
theorem, for every value of the constants. The theorems are about `Spec`,
without fairness. Their assumptions, besides bounds that are natural numbers:

* `Loop`: `ENTRY_CHANGE` is above 1; the exits contain `quit`; NULL is no
  descriptor, address, mask, entry or registration.
* `Io`, `Timer`: NULL is none of the values it stands beside.
* `Service`: an errno taken for a descriptor is a small number other than 0.
* `Uid`: the bitmap is no wider than an identifier may be.
* `ByteOrder`, `Db`, `Library`: a byte has at least one value, appearances are
  numbers, the tails of UUIDs are bytes, and NULL is neither a number nor a name.
* `IBeacon`: limits, sizes and arguments are numbers; the default interval has
  32 bits and the default name leaves room for its NUL.

Descriptors, addresses, masks, user data and channels are arbitrary sets, the
nesting depth, the number of armings and the length of a command line any number.
Each argument has an inductive invariant, which was checked by TLC on the
instances of section 3 before it was proved, and one lemma per kind of step.

**The loop's table** (`Loop_proofs`, `LoopTable_proofs`). `TypeOK` is inductive,
given lemmas on pushing, popping and amending the stack and on the grown and the
shifted table. `TableShape`, that the slot `loop_add_sd` stores into is
allocated, is inductive with it: `GrownLemma` shows that growing leaves
`top + 1 < count`, which is where `ENTRY_CHANGE > 1` is needed. `TableExact`,
`EntryOwnership` and `CleanupProgress` hold together or not at all: that an entry
is freed once needs the table to list it once; that the table lists only live
entries needs that no destructor runs for a listed one; that a clean-up has
nulled the slots it passed makes its next slot the owner of its entry. Their
conjunction `IInv` is inductive; while `holed` is false the conjuncts on entries
are gathered in `Intact`. The part of `FaultsExplained` about the table
(`TableFaultsExplained`) follows: each action that faults contradicts `Intact`
unless the named cause holds.

**The loop's registrations** (`LoopWatch_proofs`). `Effect` says what a step may
do to the registrations (`Adds`, `Modifies`, `Unregisters`, ...). `RegInv` adds to
`IInv` that only the bottom of the stack is a callback, that what is being
destroyed is still allocated, that every slot in use is matched by one
registration, by descriptor (`SlotsWatched`, `SlotsBySd`), and, while the
destructors do not call back, that damage to the table leaves the entries and the
kernel's pointers to them right (`Owned`, `Tracked`). It gives `KernelPointersLive`
and, with an injection from the slots to the descriptors, `TopCountsWatched`.
`BatchInv` is what `BatchFresh`, `DeliveredToOwner` and the fault `dispatch` of
`FaultsExplained` need besides; `QuitInv`, about a loop that is told to quit, is
needed by the refinement. `ImplementsRegistry` goes through the steps of
`Loop` and shows each to be one of `Registry` or a stutter; it is stated, as the
property is, for destructors that do not call the loop: a
destructor that searches a damaged table may find the wrong entry.

**Channels** (`Io_proofs`). `IInv`: the count of a channel is the number of its
holders (`ReferencesCounted`), what the loop's table has are attached channels
(`ListedAttached`) and, until a refused `io_new` goes unnoticed, every attached
channel is registered (`AttachedRegistered`), nothing is lost while no removal
has damaged the table (`Intact`), in which case the event being processed is of
the channel's own descriptor (`CurDescriptor`), and a destroyed channel has no
callback (`DestroyedSilent`). `IoDestroy`, `Abandon` and `LoopQuit` are cases of one
lemma, `TeardownStep`, over the descriptors that the table gives up, which may be
none. `DataInv` adds where user data can be: in one place of one attached
channel, or released, or nowhere after a refusal or damage (`PlacesHeld`,
`PlacesDistinct`, `HeldPlaced`); this is what makes it released once, and leaves
the causes of the faults that `FaultsExplained` names. `UsesRegistry` is the
refinement.

**Timers** (`Timer_proofs`). `IInv` adds to the types that a timerfd is not both
armed and unread, that the events of the batch are of watched timers, and
`ArmedEnabled`: a timer that will expire is enabled, one that has expired unread
is enabled or in the batch. `NoExpiryLost` and the refinement of `OneShot` follow:
only `Dispatch` rings, and it needs the unread expiration that a new arming
takes away. Neither needs the table, damaged or not; `TimersAccounted` is
inductive with `IInv`, and says what the table has lost.

**A daemon** (`Service_proofs`). `IInv` joins three groups. The table
(`TableExact`, `Registered`, `Announced`, `TornDown`): what the loop watches is
listed once, what the library must close is watched, and once a clean-up has torn
the table down no user code runs above it that could open anything.
`NothingLeftOpen` and `ExitRemovesNothing` follow from it. The socket
(`SentinelsUnused`, `SocketOwned`, `NoWatchdogYet`): `LeastLemma`, from the
well-foundedness of the naturals, says that the kernel's lowest free number exists
and is the least, so that epoll keeps 0 from being the socket's or the watchdog's.
The signal handler's data (`ChannelOpen`, `ChannelHandled`, `DataOnce`): the
handler that would free it is in the channel exactly as long as the data is held;
`ReadsFirst` and `DataFault` say of the calls above a `signal_read` that only a
clean-up can have taken the data away, after which the loop is told to quit and
the channel has no descriptor.

**Utilities and database** (`Library_proofs`). `UidsUnique` is an action property;
it needs `BitmapExact`, inductive with the types, because `util_get_uid` sees the
bitmap and not the identifiers held. That `ffsll` finds the lowest clear bit is
`LowestClear`. The other three properties say what operators compute. The
induction theorems of the TLA+ library take an operator as a parameter, which
the provers cannot instantiate, so an induction over numbers is one over a set:
`UpTo`, by a least counterexample. It gives
`RecursionExists`, that a function defined by recursion on `0 .. top` exists,
hence the equations of `Power` and of the sum in `GetWord`; and then that the sum
of the `n` lowest bytes `PutWord` has written is the value modulo `Power[n]`
(`GetWordValue`, with `Remainders` as its step). `RoundTrip` is three cases of it,
24 bits apart, and `NamesAgree` needs it to know that `uuid2str128` looks up the
UUID its bytes are of. For `DeviceByCategory`, `TableShaped` goes along the segments
of the table: values rise from row to row, the multiples of 64 are the generic
rows, and they are the categories of `Kinds`. So the rows the walk has passed are
those up to the appearance (`DeviceNamed`), and the last generic one among them is
the appearance's category, unless the next category is missing: that is after the
three "Undefined" rows and nowhere else. `LibraryKeepsUids` puts the two parts
together.

**iBeacon** (`IBeacon_proofs`). `DeviceInv` adds to `DeviceHandedBack` what is known
in each phase before the device is opened. `SettingsInv` says of every state what
`StartsAsAsked` says of those with the device open, and for the UUID that the
parser's counters agree with the digits read: `2 j + k` of them, the last one in
its place when `k` is set (`DigitsCounted`). The 8 bits of a byte lose nothing
because a digit fits into 4 (`DigitLemma`).

### Only model-checked

* `QuitStopsLoop`, `BatchDrains`, `CleanupCompletes`, `ArmedRings`, `SignalHeard`:
  liveness under fairness is out of TLAPS's reach.
* That the findings occur: a run that finds a violation is the evidence.

## 5. Plan

Done: all modules of section 2 and the proofs of section 4. What the table of
section 3 checks and section 4 does not prove is liveness.

Not modelled, for good: hexdump, the debug and string helpers, `util_malloc`,
`util_memdup` and `util_get_dt` (formatting, memory, file system), the names in
the database, what the programs print, the calls into BlueZ beyond their failure, the
Eddystone program (empty), build files. The test programs are clients; their
signal handler is the action `SignalQuit`.
