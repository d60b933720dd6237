# A verification of elfupspeed

elfupspeed changes the speed at which an Android application sees time pass.
`elfinject` attaches to the application with ptrace and makes it load
`libspeed.so`; the library replaces `gettimeofday` and `clock_gettime` and
listens on a TCP port; another process calls `serverClient::upspeed` to set
the speed.  Beside these the repository has a chat server and a client for it,
both built on epoll.  The modules here model these parts, TLC checks them on
small instances, and TLAPS proves the safety properties of all of them for
every instance.

The program's own code is the 2200 lines directly in `src/jni`.  The
directories `dalvik`, `art-kitkat-mr1.1-release`, `include`, `jni`, `libs` and
`obj` hold Android sources and built files; the code only includes their
headers.  `Android.mk` builds `elfinject`, `libspeed.so` (`speed.cpp`,
`ElfIPCServer.cpp`) and `libserverClient`; its other targets are commented out.

## Inventory

| component | state | operations | hard behaviour | what makes it correct |
|---|---|---|---|---|
| time hooks, `speed.cpp` | `g_times`, `IsHooked`, `old_*`, a saved and a last time per slot | `new_gettimeofday`, `new_clock_gettime`, `SetTimeScale`, `do_speed_hook`, `startServer`, `hook_entry` | float arithmetic, the width of `time_t`, clock steps, unlocked globals shared by all threads, hooking twice | clocks do not go back by themselves, follow the speed up to rounding, and are exact at normal speed; a hook never calls itself |
| IPC server, `ElfIPCServer.cpp` | listening socket, the one connection served | `StartIPCServer`, `HandleClient`, `Die` | clients that die, one client at a time, `exit` inside a foreign process | a request is applied once, before its echo; the server outlives its clients |
| speed client, `serverClient.cpp` | a socket per call | `upspeed`, `find_pid_of` | no server, interrupted calls, leaked sockets | 0 means applied; calls return; only failures leak |
| injector, `elfinject.c` | the traced thread's registers, `original_regs`, the target's mappings | `main`, `inject_remote_process`, `ptrace_call`, ... | two injectors, death of either side at any step, a fault taken for a return | the application survives, is hooked once, and the result printed is true |
| word copies, `ptrace_readdata`, `ptrace_writedata` | target memory | copy by words of 4, tail by read-modify-write | the tail | no byte outside the range changes |
| epoll chat server, `epollserver.cpp` | `clients_list`, epoll's ready list, the queue of the listening socket | `main`'s loop: accept and welcome; `handle_message`: receive and broadcast, close | edge-triggered events handled once, clients that leave or do not read, `exit` on any error | it stays able to accept, overlooks nothing but merged events, and is ended by no ordinary client |
| epoll client, `client.c` | `listener`, `epfd`, `ev`, `events`, the descriptor table | `startClient`, `start_thread`, `sendMessageToServer`, `closeClient` | globals shared by threads without a lock, descriptors that are given out again, `exit` on any error | a server that closes is noticed; nothing of the application's own is closed or written to |
| binder transaction, `ElfTransaction.cpp` | JNI references | a chain of lookups with early returns | null results | the binder is replaced or left alone |

The parts of the speed changer meet at four places.  The injector runs `hook_entry` in the
application's main thread, and `hook_entry` starts the server's thread.  The
server's thread calls `SetTimeScale`.  `SetTimeScale` and the application's
threads share `g_times` and the slots without a lock.  `upspeed` and the
server talk over a connection per call.  The epoll client and the chat server
do not meet: the one connects to an abstract Unix socket, the other listens on
TCP.

## Modules

| module | models |
|---|---|
| `TimeScale` | C's `/` and `%`, and the speed `SetTimeScale` stores |
| `FloatScale` | `diff * g_times`: int64 to float, product, truncation |
| `SpeedClock` | `speed.cpp` with a hooked call as one step |
| `SpeedDrift` | `SpeedClock` with history variables: exact products, clock steps, the users of a slot |
| `VirtualClock` | the abstract promise: a clock that runs at the current speed |
| `HookThreads` | the loads and stores of a hooked call, by several threads; implements `VirtualClock` |
| `SpeedServer` | the IPC server and `upspeed` |
| `Injector` | several runs of `elfinject` and the application they attach to |
| `PtraceData` | `ptrace_readdata` and `ptrace_writedata`, word by word |
| `SpeedSystem` | composes `Injector` and `SpeedServer` around one application |
| `EpollServer` | the chat server, its clients and the kernel's ready list |
| `EpollClient` | the natives of `client.c`, their threads and descriptors |
| `SpeedClockProofs` | theorems about `SpeedClock` and `SpeedDrift` |
| `HookThreadsProofs`, `SpeedServerProofs`, `InjectorProofs`, `PtraceDataProofs`, `EpollServerProofs`, `EpollClientProofs`, `SpeedSystemProofs` | theorems about the module of the name |
| `MC...` | instances for TLC; `MCHookThreads`, `MCSpeedServer` and `MCInjector` also state what comments and messages say of the code |

Definitions marked "Mutant" are altered copies of an action, each with one
plausible mistake; they show that the property they belong to can fail.

### Time hooks

`SpeedClock` has the globals of `speed.cpp` under their own names.  `saved` and
`last` are functions of a slot: `tod` for `gettimeofday`, `mono` for
`CLOCK_MONOTONIC` and `real` for every other clock id, as in the code.  `Timeval`
is the division into seconds and fraction with the conversion to `time_t`;
`tv` is what the application was given and `Shown` what it computes from it.
`entry` and `old` say where a call of a function, and of its `old_` pointer,
leads; `MSHookFunction` (external) stores the former in the latter, so that
hooking twice makes the hook its own `old` function and the next call recurses.

The arithmetic keeps its width.  A float has a significand of `Mantissa`
values, 2^24 in the code; `Grid` lists the binades.  TLC uses 4 or 8, so that
intervals of a few units are already rounded, and a `time_t` that overflows
after a few seconds.  Speeds are hundredths.  A kernel's clock never passes
`time_t` itself (`MaxTime < TimeT * Unit`).

`HookThreads` takes a call apart: the sample of the kernel's clock, the test of
`saved`, the loads of `saved`, `g_times` and `last`, and the two stores.  The
compiler may keep the tested value of `saved` or load it again; `LoadSaved`
allows both.  `told` and `floor` remember what returned calls were given, and
are empty until a call has returned.  The division of the result into a
`timeval` or `timespec` is `SpeedClock`'s.  Its refinement mapping places the effect of a call at its load of
`g_times` (at the store of `saved` for a first call).

### Server and client

`SpeedServer` numbers the calls of each process.  The kernel's part is in
`peer`, `up` and `down`: a client that closes, or dies with nothing unread,
leaves a connection on which the server's `recv` gives 0; one that dies with
the echo unread leaves a reset connection, on which `recv` gives -1 and `Die`
ends the application.  `failed` records that a call of the server's own failed:
`socket`, `bind` or `listen`, or `accept` or `recv` for a reason of the
application (`HostCallFails`).  Text, port and byte counts are abstract: a text of six to
nine bytes on the loopback device arrives in one piece.  `upspeed` prints it
into a buffer of four bytes; of what that can do the model keeps the abort of
the process (`Kill`).

### Injector

`Injector` follows `inject_remote_process` call by call.  Between `Call` and
the return the application's thread runs the remote function; `regs` is
"scratch" from the first call until `Restore`.  A tracer that ends in between
lets the thread run to address 0 (`Fault`).  The library is one that works, one
without `hook_entry`, or one that `dlopen` refuses.  `dlclose` is called at its
address in the injector: if the linker has the same address in the target, the
library is unmapped under the running server; if not, the model takes the two
outcomes that end the call, a SIGSEGV, which is taken for the return, and
another signal, which the loop repeats for ever.  Other code that happens to be
there is not modelled.  `unloaded` records that `dlclose` took the last
reference, and `unthreaded` that `pthread_create` failed in `hook_entry`, which
drops its result.  `hook_entry` has no return statement: the result that line
549 stores is any value, and matters only if the application ends in the call
of `dlclose` (`LeftAs`).

`PtraceData` takes one copy apart into its words.  Addresses are relative to
the start of the copy.  The last word of a write is two steps, as other threads
of the application may store beside the copy in between (`raced`); a copy that
goes on after the application died reads 0xff and writes nothing.

### The whole

`SpeedSystem` instantiates `Injector` and `SpeedServer` over one application.
The application's life and its port, which each of them has a variable for, are
one thing: `Alive` and `Listening` are read off the state of the server's
thread, and the injector's `alive` and `listening` are replaced by them.  Every
action is an action of one part together with what it means for the other: the
end of the server's thread is the end of the application's mappings, and a
fault of the main thread is the end of the server.  A second `hook_entry`
starts a second server, which finds the port taken.

### Epoll server and client

`EpollServer` has the kernel's `ready` list, to which an arrival adds its socket
and which `epoll_wait` empties, and `events`, what the loop has still to handle.
`merged` remembers the sockets where something arrived while they were on the
list already: those are the arrivals that one `accept` or `recv` per event can
overlook.  A message is a number of blocks; a client that closes with blocks
unread leaves a reset, one that has closed and is sent to becomes "gone", and the
next send to it fails.  The order in which the loop takes the events of one
`epoll_wait` is left open.

`EpollClient` has the descriptor table, in which the kernel gives out the lowest
free number; `listener` and `epfd` are numbers, and what they stand for may
change under them.  Every native is taken apart into the steps between which a
thread may change those globals: `sendMessageToServer` tests `listener`, loads
it again and writes (`SendTest`, `SendLoad`, `SendWrite`), `closeClient` loads
and closes (`CloseLoad`, `CloseFd`), and the thread closes and resets it; `out`
is the descriptor a native has loaded.  A `pthread_create` that fails, which
`startClient` ignores, leaves a session "unstarted".  `misuse` marks what the
Java code should not do: a `startClient` before the previous session has ended,
a `closeClient` that comes twice or while the thread handles an event, and a
`sendMessageToServer` after `closeClient`.  `late` marks a
`sendMessageToServer` that is under way while the thread closes and resets
`listener`: the message may then go to whoever was given the descriptor,
after the thread has ended too.

Two facts of the code show in the model.  `ev.events` is assigned after
`EPOLL_CTL_ADD`, so that the first session is watched without a mask: its
messages are not reported, only the hang-up (`FirstEndsWithServer`).  And the
thread tests `ev.events`, which holds `EPOLLHUP` from then on, not the event's own
flags: every event of a later session, a message too, is taken for a hang-up,
and lines 100 to 112, the only ones that receive, are never reached.

## Runs

| run | result | shows |
|---|---|---|
| `clock` | passes | `MonotonicForward`, `DeliveredIsLast`, `HookedOnce`, `TypeOK` for the monotonic clock beside a wall clock that is set back, over two `hook_entry` calls and an overflowing `time_t` |
| `clock_wall` | passes | `DriftBound`, `Transparent`, `BackOnlyIfSet` for a wall clock and a CPU-time clock, which share a slot |
| `threads_own` | passes | with a thread per clock the hooks implement `VirtualClock`, and calls are ordered |
| `threads_shared` | violated | with two threads on one clock, a later call is given an earlier time |
| `server_safety` | passes | `AckedOnce`, `DiesOnlyOfReset`, `LeakOnlyOnFailure` with interrupted and killed clients and failing calls of the host |
| `server_until` | violated | a killed client ends the server that "runs until cancelled" |
| `inject_many` | passes | `SecondEntryNeedsOverlap`, `SurvivesInjection`, `LetGoAsFound`, `InjectorEnds` for three injectors |
| `inject_success` | violated | "SUCCESS" without `hook_entry` |
| `epoll_server` | passes | `NeverDeaf`, `OverlookedNeedsMerge`, `EndsOnlyOfSend`, `ServedUnlessMerged` for three clients |
| `epoll_client` | passes | `HarmNeedsMisuse`, `FirstEndsWithServer`, `CloseNoticed` for two sessions |
| `ptrace_data` | passes | `OutsideKept`, `Copied` for copies of up to nine bytes |
| `system` | passes | `ApplicationSurvives`, `SuccessThenServer`, `CallsAnswered` for injectors, server and callers together, whether or not `bind` and `pthread_create` succeed |

Several passing properties bound a defect rather than exclude it, and say exactly
when it shows.  `BackOnlyIfSet`: `new_clock_gettime` keeps all clock ids but
`CLOCK_MONOTONIC` in one slot, so that a CPU-time clock read after the wall clock
goes back; this, a step of the kernel's clock, and a reading of 0, which the
hook takes for none, are the only ways a clock goes back before `time_t` ends.
`LetGoAsFound`: when `dlopen` gives 0, "goto exit" skips the restoring of the
registers; no other result of a step does.  `OverlookedNeedsMerge`: arrivals
that are merged into one event may wait for ever, and only those.
`SuccessThenServer` has an exception of this kind as well: after a
`pthread_create` that failed "SUCCESS" is printed and nobody ever listens.
And `SurvivesInjection` and `ApplicationSurvives` excuse what follows a
`dlclose` that unmapped the library: there the code takes the server's text
from under its thread.

One more disagreement needs no run: the speeds `SetTimeScale` stores for -2, -3,
-4, -5 and -10 (0.4, 0.33, 0.25, 0.2, 0.1; `SlowTable`) are not those of the
table in the comment above it (0x14D, 0xFA, 0xC8, 0xA6 and 0x5A thousandths).

Bounds.  `clock`: kernel times 0 to 4, reached in every order by ticks of every
size, with a float of two significant bits, give intervals that are exact, rounded and lost
at 0.4 and 3 times the speed; the time shown passes the end of `time_t` (6
units).  `MaxShown` keeps the cycle of setting a clock back and running it fast
from going on for ever.  `clock_wall`: two clocks of one slot, two scaled calls
after a first one, enough for a change of speed, a step of the clock and the
other clock between them; intervals of up to 5 pass the float's significand of
4.  `threads_own`: four kernel times and two speeds; the threads'
interleavings are complete.  `server_safety`: two processes with three calls
each and two descriptors, so that the third call can find them used up; a queue
of one.  `inject_many`: three injectors, so that a second one can fail while a
third goes on.  `epoll_server`: three clients, so that one can be sent to by
another while the third leaves; a queue of two, as `listen(listener, 1)` gives; three
blocks in all and buffers of two, so that the welcome and one block fill one.
`epoll_client`: two sessions, one file and four descriptors, so that a
descriptor is reused by each of the others and may also run out.
`ptrace_data`: sizes from 0 to 9 have every remainder and up to two words, with
bytes that differ from their neighbours.  `system`: two injectors, so that they
may overlap, and two callers with a queue of one, so that a third party waits
for `accept`; the linker's addresses differ (`Bases`), as `inject_many` has the
runs where they agree.  No run uses symmetry.  Deadlock is not checked: the bounds on
times, calls and injectors let every model come to an end, and the epoll server
waits for clients that may not come.

Fairness.  `system` assumes weak fairness of the application's process as a
whole (`Application`: the threads of `hook_entry`, the server's, a fault that is
due) and of each process inside `upspeed`, which the kernel's scheduler gives; it assumes nothing of
injectors, of kills, of new calls or of failures caused by the application
(`HostCallFails`).  It excludes interrupted calls: a process that gives up a
`recv` keeps the connection open, and the server waits for it as long as that
process lives.  `inject_many` assumes weak fairness of each injector.
`epoll_server` assumes it of the server's one thread, and nothing of the
clients; `epoll_client` of the threads and of the steps within the natives,
and nothing of the server or of the Java code.

## Proofs

Every invariant and action property of a passing run, and the refinement, is a
theorem, for all values of the constants that satisfy the assumptions of the
modules.  The assumptions say what the types of the code say (positive units and
widths, finite bounds, a kernel clock that fits in `time_t`, floats whose
spacing above the significand is an integer), that only wall clocks are set
back, and that the names of processes and of "nobody" differ.  The bounds TLC
needs (`MaxTime`, `MaxCalls`, `MaxReads`, ...) are constants as well, so that
the theorems hold for each value of them.

Each inductive invariant (`IInv` unless named) was checked by TLC on the
component's run before it was proved.  What it adds to the property, and why:

**`SpeedClockProofs`**

* `TypeCorrect`: `Spec => []TypeOK`.
* `HookedOnceCorrect`: `Spec => []HookedOnce`.  The inductive invariant
  `HookInv` adds that `IsHooked = 1` means that the functions are still libc's,
  and that it is 1 until the first `hook_entry` of an injected host;
  `startServer`, which hooks without looking at `IsHooked`, needs the latter.
* `MonotonicForwardCorrect`: `Spec => MonotonicForward`, and
  `DeliveredIsLastCorrect`: `Spec => []DeliveredIsLast`.  The inductive
  invariant `MonoInv` relates the kernel's time, the sample and the times
  shown: the sample never passes the kernel's time, so that an interval is not
  negative; `Shown` is `last` once there is a sample and at most the kernel's
  time before; nothing is sampled while `clock_gettime` is libc's.  The step
  rests on lemmas about the arithmetic: rounding to a float and truncating keep
  the sign (`ScaledSign`), and the division into seconds and fraction can be
  undone while `time_t` holds the seconds (`TimevalOf`).
* `DriftBoundCorrect`: `DriftSpec => []DriftBound`.  The bound is inductive with
  the types; the work is in one call's error (`ScaledNear`).  A division
  rounded to nearest is off by half the denominator (`NearestEvenNear`); the
  float of an integer is off by one part in `Mantissa` (`FloatIntWhole`), that
  of the product by as much or by one unit (`FloatIntNear`); `FloatProductNear`
  puts the two together.  The products are not linear, so each step names them
  and multiplies one inequality (`MulLe`).
* `TransparentCorrect`: `DriftSpec => []Transparent`, from `ScaledExact`: up to
  `Mantissa` a value is its own float (`FloatIntExact`), at the end of the range
  too, where the spacing is 2 already.
* `BackOnlyIfSetCorrect`: `DriftSpec => BackOnlyIfSet`.  `BackInv` is `MonoInv`
  for every clock, and says of each part when it holds: before a slot has a
  user the application has seen the kernel's time; while the clock was the last
  user, the sample is not ahead of it (unless it was stepped) and `last` is what
  was shown, for negative times too (`TimevalAbs`).

**`HookThreadsProofs`** proves `TypeCorrect` for any threads, and under the
hypothesis `OwnClock` (each clock is read by one thread):

* `OrderedCallsCorrect`: `Spec => OrderedCalls`;
* `IsVirtualClockCorrect`: `Spec => IsVirtualClock`, the refinement of
  `VirtualClock`.  `RefinesInit` maps the initial states and `RefinesStep` each
  load and store: to a reading of the abstract clock where the call takes
  effect, to a stutter elsewhere.

`CallInv` says what each local of a call in progress still has to do with the
slot (`diff` is the distance of its sample from `saved`, `ret` is not before
`last`), and `SlotInv` what the slot holds between calls, the times told
included.  Without `OwnClock`
both properties are false: `threads_shared` is the counterexample.  The lemmas
on rounding that it needs are stated there again, as it does not build on
`SpeedClock`.

**`SpeedServerProofs`** (any number of processes, calls, descriptors, any length
of the queue):

* `AckedOnceCorrect`.  `OneText` says that the text of a call is on its way,
  being applied, or applied, never two of these, and none before it is sent;
  `EchoAfter` that an echo, and a result 0, comes after the application.
* `DiesOnlyOfResetCorrect`.  `PeerInv` ties a connection's state to the point
  the caller has reached, so that `recv` on an open or closed one does not fail
  and a reset stays; `Serving` that the server is on a connection at all.
* `LeakOnlyOnFailureCorrect`.  `SocketInv` counts within a call: one socket more
  than the failed calls have left.
* `TypeCorrect`.

**`InjectorProofs`** (any number of injectors, each killed at any step):

* `SecondEntryNeedsOverlapCorrect`.  `StaysMapped`: once `hook_entry` has run,
  and until `dlclose` takes the last reference, the library is in the mappings for every later check to see; `Opened`, that a
  tracer past `dlopen` holds a reference, keeps it there; `NoneEarly`: nobody who
  checked before is still on the way to `hook_entry`, for which `OnlyOne` is
  needed.
* `LetGoAsFoundCorrect`.  `Registers`: at every point of the traced part the
  thread's own registers are in place or in `original_regs`.  `Tracing` places
  the tracer in that part.
* `SurvivesInjectionCorrect`.  `Servers` counts at most one server for each
  `hook_entry`:
  with one entry there is no second server to find the port taken.
* `TypeCorrect`.

**`PtraceDataProofs`** (every `MaxSize`, every alphabet of bytes and every
content): `TypeCorrect`, `OutsideKeptCorrect` and `CopiedCorrect`.  `IInv` adds
the loop's own: `p = 4 * i`, `i <= j`, and `i = j` after the loop.  It places
every word of the loop inside the copy (lemma `Offsets`, from the division of
the size into `4 * j + remain`).  `OutsideKept` further needs `TailKept`, what
the word held between PEEKTEXT and POKETEXT says of the bytes behind the copy:
without it the write-back could put anything there.  `Copied` needs
`TailCopied`, the same for the bytes of the copy, and `CopiedSoFar`, which says
of the first `p` bytes what `Copied` says of all at the end.

**`SpeedSystemProofs`** proves `ApplicationSurvivesCorrect` by composition: it
instantiates the two proof modules with the system's state and uses their step
lemmas.  `IInv` is that of `Injector`, the parts of the server's that hold
whatever ends the application (`Serves`), and `DiesOnlyOfReset` unless the end
is to be blamed on injectors or kills (`Blamed`).  Each action of the system is
an action of one part with its consequence for the other, so there is one step
for the part and one for the consequence.  `SystemAssumption` repeats the
assumptions of the two parts, which an instance does not bring along.

**`EpollServerProofs`** (any set of clients, any length of the queue and size of
the buffers):

* `NeverDeafCorrect`.  `Hearing` says it of the states before and after the
  loop too, and that the queue is within `Capacity`; `AllHandled`, that
  `epoll_wait` is called with no event left over, keeps `EpollWait` from
  dropping one.
* `OverlookedNeedsMergeCorrect`.  `ListenerTold` and `ClientTold` count: where
  nothing was merged, there are as many events, on the ready list or still to
  be handled, as things that wait on the socket.
* `EndsOnlyOfSendCorrect`.  `accept` does not fail by `Hearing`, and `recv` finds
  something by `EventsPollable`: what was readable when `epoll_wait` reported it
  stays so until its own event is handled.
* `TypeCorrect`.  That no buffer overflows needs `QueueFresh`: a connection is
  in the queue once, and is sent nothing before its welcome.  `OpenOnly`, that
  epoll and `clients_list` hold open connections only, keeps the broadcast from
  sending to one in the queue.

**`EpollClientProofs`** (any number of sessions, files and descriptors):

* `HarmNeedsMisuseCorrect`.  Without misuse (`Single`), one session follows the
  other (`OneThread`), `listener` and `epfd` stand for the socket and the epoll
  instance of the session at work (`OwnDescriptors`), although the kernel gives
  descriptors out again, and no other descriptor stands for that socket
  (`OneSocket`).  `CallInv` says the same of the descriptor a native has loaded
  and not yet used: it is still the session's, unless the thread closed it
  meanwhile (`late`).  That a new descriptor is not one in use rests on the least
  free number (`WFMin` of the library).
* `FirstEndsWithServerCorrect`.  `FirstUnmasked` and `MaskSet` say when
  `ev.events` is set: after the first session was added to epoll.
* `TypeCorrect`.

Model-checked only: liveness, which is out of the reach of these proofs
(`InjectorEnds`, `ServedUnlessMerged`, `CloseNoticed`, `SuccessThenServer`,
`CallsAnswered`), and the three violated properties, which are counterexamples.

## Plan

1. Done: `SpeedClock`, `SpeedDrift`, `HookThreads` with `VirtualClock`,
   `SpeedServer`, `Injector`, `PtraceData`, `EpollServer`, `EpollClient`,
   `SpeedSystem`, and a theorem for every safety property of a passing run.
2. Next: the refinement for a slot that has one reader beside others that
   share; what of `AckedOnce` carries over to `SpeedSystem`.

## Not modelled

* The vendored sources: `dalvik`, `art-kitkat-mr1.1-release` and the copied
  headers and libraries, more than 99% of the repository's lines.  The program
  includes headers of theirs and calls none of their functions but the JNI's;
  they are Android's program, not this one.
* `ElfTransaction.cpp` and `DummyJavaBBinder.h`: one straight line of JNI and
  binder lookups with early returns, whose results only the Android runtime
  knows.  Its caller `inject.cpp` does not compile.
* `inject.cpp`, which holds merge markers and does not compile, and the test
  programs, which keep no state.
* The uninitialised or left-over bytes behind the text in the server's buffer:
  they can only add digits after the fourth decimal, or, if a letter `e` and
  digits lie there, an exponent.
* The log file and the messages, apart from the results `main` prints.
* Signals of the application during a remote call, which `ptrace_continue`
  drops.
* The two halves of a 64-bit access on 32-bit processors: `HookThreads` takes
  a load or store of a slot as one step, which matters only where two threads
  share a slot, and that run fails already.
* The rounding of `g_times` itself to a float: `FloatScale` keeps it in exact
  hundredths.
* A `connect` of `upspeed` that times out because the server's queue stays
  full: it waits for room there.
* A failing `mmap` in the application, whose result the injector would use as
  an address.
* A `NULL` argument of `gettimeofday`, which the hook dereferences.
* In the epoll server: signals that interrupt `epoll_wait`, and a process
  without free descriptors, both of which CHK takes for an end; the text of a
  message, which `sprintf` puts behind a prefix into a buffer of the same size;
  partial sends.
* In the epoll client: two Java threads that call the natives at a time.
