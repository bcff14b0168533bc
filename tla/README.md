# Verification of aqcxl_sim

aqcxl_sim runs a guest in QEMU against a CXL/PCIe endpoint that is simulated in
SystemVerilog: QEMU forwards the guest's bus accesses through a SystemC bridge
to a testcase of the Avery BFM, which replays them on the simulated link.  This
directory holds TLA+ models of the parts whose source is readable, the TLC
runs that check them, and proofs checked by TLAPS.

Run `tlc -workers 2 -config X.cfg M` for a run of `PROJECT.json` (configuration
`X.cfg`, module `M`) and `tlapm M_proofs.tla` for the proofs about module `M`.

## Inventory

| Part | State it keeps | Operations | Talks to |
|---|---|---|---|
| DMA driver, `aqemu/tools/app/simple_dma/simple.c` | page references, page-pointer arrays | ioctl PIN, ioctl FREE | host programs (`dma_io_cb`), kernel memory management |
| DMA host program, `dma-app.c` | transfer, buffer, `dma_io_cb`, poll count | open, PIN, write registers, poll, FREE | driver (ioctl), endpoint (BAR0 through /dev/mem) |
| ATS testcase, `aqcxl/testsuite/apcit_qemu_ats.sv` | DMA registers, translation entry, last answer | start by BAR write, ATS request, DMA, done | guest, root complex BFM, QEMU (command loop) |
| Basic and IOSF testcases, `apcit_qemu_basic.sv`, `apcit_qemu_iosf.sv` | root-port configuration, link and power state | start-up, traffic loop, reset handler | QEMU, BFM, sideband RST_SG and PERST_N |
| Testbench tops and BFM wiring, `aqcxl/testbench/` | BFM objects, DOE mailbox buffer | start the root complex, wait for L0, start the test, DOE callback | BFM, SPDM responder |
| SimCluster master, `aqcxl/srcs_avy/simcluster_master.sv` | keys | set up keys and channels | message library (binary) |
| Command dispatcher, `aqcxl/src.*/qemu_rx_pkg.sv` | HDM ranges, last ATS answer, bookkeeping queues | `qemu_wait_sc_cmd` | (bodies encrypted) |
| QEMU launcher, `aqemu/scripts/run_qemu.pl` | `%PID`, options, ports | fork, wait, kill, SIGINT, log through tee | the five programs of a session |
| Simulator launcher, `aqcxl/scripts/aqcxl_sv.pl` (older copy `run_qemusv.pl`) | `%PID`, options | fork, wait, kill, SIGINT, collect logs | simulator, SPDM responder |
| Time measurement, `aqemu/lib/measure/measure.cpp`, `aqcxl/srcs_avy/measure.svh` | ten time records, the log file; two times of day | start, end | testcases |
| QMP client, `python/qemu/qmp/` in `aqemu/tools/build_x86` | run state, tasks, pending executions, streams | connect, start_server, accept, disconnect, execute | QEMU's monitor, the program's asyncio tasks |
| Generated C of QEMU's build tree, firmware, openspdm, libraries | | | generated or binary: not modelled |

What is hard, and what must hold:

- **Driver.** The ioctl takes no lock, so calls of several processes interleave
  at every step, on frames they may share; `get_user_pages_fast` may pin only
  part of a buffer.  No reference and no array may be lost or dropped twice,
  and the buffer must stay pinned between PIN and FREE.
- **DMA program.** Host and endpoint share six registers and nothing else. The
  host polls at most ten times and ignores errors.  The endpoint must never
  touch a page that is not pinned, nor execute half of a command; the host must
  not free a page in use nor keep one when it ends.
- **ATS testcase.** The engine, the command loop and QEMU run concurrently, and
  the answer arrives in a package variable.  A DMA must go to the address QEMU
  passed down for it, and each trigger must be answered.
- **Launchers.** Any program may end at any time and the user may interrupt;
  process groups are set by the children themselves.  Tearing down must reach
  the other programs and must not hit the launcher.
- **Testcases.** Reset handler and traffic loop run side by side; resets may
  come while one is being handled, and may take the registers of the root ports.
  What the handler writes back must not be lost to a reset it has not seen
  coming.
- **QMP client.** Owner, executions, reader, writer and disconnect task share
  one event loop; any await may be cancelled and the peer may say or do
  anything.  No reply may go to another execution, no task may be left behind,
  every execution must hear of a lost session, and disconnecting must end.
- **Device topology.** Both launchers are told the size of the simulation, each
  by options of its own; identifiers must not collide and QEMU's windows must
  be routed to the endpoints QEMU has below them.
- **Measurement.** Small algorithms with boundaries: borrowing across minutes,
  a full table, files that are opened and never closed.

`PROJECT.json` lists each hazard at its line with the properties that cover it.

## Modules

`PinLedger` states what the driver promises: PIN pins the frames of the whole
buffer or none, at once, and FREE unpins them.

`SimpleDriver` is `simple_ioctl`, one action per step that touches shared
state: `CallPin` (entry and `pages_nr`), `Kzalloc`/`KzallocFails`,
`GetUserPages` with any number of pages pinned, `PutPage` and `Kfree` (the loop
that the error path and FREE share), `CopyOut`, `CallFree`.  The handler's
local variables are functions of the caller; `live`, `content` and `ref` are
the kernel's.  `ImplementsLedger` is the refinement: what a caller has pinned is
what its `dma_io_cb` names, from `copy_to_user` to the FREE call.  Callers keep
the contract the driver trusts them with: they FREE what a PIN gave them, once.
A buffer has at least one page (`RequestAssumption`): for `len` 0 at a page
boundary the handler reads `pages[0]` of an empty array.

`DmaApp` is the program, with each ioctl in one step (this is what
`SimpleDriver` justifies), each register write a step of its own, and the
endpoint's engine beside it.  The engine is external: the header comment of
`dma-app.c` and its register map say what it does.  Four constants describe
the surroundings the program cannot control: `GoClearsDone` (does writing
enable clear done), `EpDeadline` (the poll by which the engine has finished,
beyond `MaxPoll` for an engine of any speed), `PinMayFail`, and `RerunWhenIdle`
(is the program only started again when the engine is through with what a killed
run left it).  `Contract` names the favourable values.  A failing
`posix_memalign` leaves the pointer alone and `malloc` may hand back the freed
`dma_io_cb` with its old fields: both are in `Alloc`, which gives the buffer any
page of `Page` that nobody holds a reference on.  `Die` kills the program at any
step; closing the device gives nothing back, so the pages it had pinned stay so,
and the history variable `leaked` says which they are.  `Rerun` starts the
program again, after an end or a kill, on the registers and the engine as they
are.  A FREE of an array already freed may or may not find the page still listed
(`PutPages`).

`AtsDma` is `ep_dma_blk` with the write callback that starts it, the command
loop that stores QEMU's answer, and, external, the guest, QEMU and the root
complex's answer from its table.  The loop-body variable `phys_addr` is
automatic in a class method, so it is 0 at each round (`FreshLocal`).  The root
complex may not answer in time (`NoAnswer`); then the wait returns all the same,
or the bus model ends the test.  `ats_remove_atpt_entry` is encrypted and is
called with `'h100` for an entry that was added with 0: whether it finds the
entry is left open (`AfterRemoval`), so an old entry may stay beside the new one.
The model takes the DMA write as performed before the guest reads done, which PCIe
ordering of posted writes ahead of the completion gives.

`ProcCtrl` is the process control of both launchers, which share the code of
`fork_proc` and `kill_all_proc`; the variable `script` says which one was
started, and with it the programs (`Forks`), whether the child calls `setpgrp`
(`GroupOf`: it is commented out in `run_qemu.pl`) and whether the launcher's
output goes through `tee`.  `tee` is a child in the launcher's group that is not
in `%PID`: a Ctrl-C ends it (`TeeInt`), `waitpid(-1)` may return it (`Wait`),
and it ends by itself when nobody holds its pipe any more.  The launcher and the
programs hold the pipe, but for QEMU and the simulator when they are quiet
(`Redirected`, `Writers`).  `close(STDOUT)` waits for a `tee` that still runs
(`Closable`); a launcher that writes to one that is gone gets a SIGPIPE
(`BrokenPipe`).
A child is `forked` until its `setpgrp`, then `perl` until it execs, when it
still has the launcher's SIGINT handler and the part of `%PID` filled in so
far with its own entry 0.  `FallThrough` is a child whose function returns
(`run_vnc` when the viewer is closed): it goes on in `main` and calls
`kill_all_proc` itself, whose `kill(9, -0)` hits its whole process group.
SIGKILL takes effect at once.  The launcher's `kill_all_proc` is one step: each
of its signals concerns one group, so doing them one by one leads to no other
outcome.

`Topology` is the device topology that one simulation is given twice:
`run_qemu.pl` parses its options one by one (an option is the set of variables
it assigns) and lists decoders, root ports and endpoints in its loops, one
action per device; `aqcxl_sv.pl` parses its own and compiles the testbench with
`APCI_MPORT` and `SEPARATE_EP` or without, and `set_hdm_range` turns these into
the root complex's address map.  Addresses are counted in 16 KB granules from
0x1_9000_0000, and a 512M window has `Win` of them.  That QEMU's memory windows
follow one another is QEMU's (external).  When `set_hdm_range` is called is
not readable; here it is once, at any time after compilation.
`MCTopology` holds the command lines, among them `-dual` before and after
`-dut`, and conflicting, repeated and irrelevant options.

`QmpSession` states what the QMP client promises: a session goes round idle,
connecting, running and disconnecting; an execution that was issued ends in one
way, with its own reply, cancelled, or interrupted because the session is being
left, and none waits when the session is idle.

`QmpClient` is `AsyncProtocol` and `QMPClient`, on a model of asyncio's loop:
`ready` is the queue of handles, `LoopStep` runs the one at its head up to its
next await, and what is external (a timeout, the peer, the sockets) falls
between the steps.  One action is the code from one await to the next:
`Connect`, `OpenConnection`, `Connected`, `Greeting`, `Negotiated` and
`Established` are `connect()`, say.  The order of callbacks is asyncio's:
`asyncio.wait` hears of the end of its tasks one round later (`dc_done`,
`bh_done`), an accepted connection takes three rounds to its handler
(`knock`, `made`, `incoming`).  One task, the owner, opens and closes sessions,
connecting or listening; each execution is a task of its own that calls
`execute()` once.  `Cancel` throws a `CancelledError` into any await but those
of the start of a server, which `legacy.py` runs without a timeout.
`Server.wait_closed()` returns at once, as it does before Python 3.12
(`StopServer`).  The peer may say anything at any time, but replies to a command
once and only after it got it, as QEMU does.  The session's connection is in
`mode` "serve" when it was accepted and "late" when it was accepted after the
end of the disconnect task.  The deviations listed under "Runs" also happen in the library itself, run against a
scripted peer.
`ImplementsSession` is the refinement.

`Measure` is the table of time records with its log file, and
`calculate_diff`, in units of `Sixty` seconds and minutes.  `Testcase` extends
it with the two testcases that serve QEMU without a device of their own:
start-up, the traffic loop, which measures each command, and the reset handler
beside it.  The command dispatcher is encrypted; what it does to the testcase
is that a served command may pull the reset line and measures packets.  A
SystemVerilog `@(posedge x)` sees only edges that come while it waits, so
`ResetFalls` and `ResetRises` move the handler only when it is there, and the
history variable `missed` says that it was not.  A reset takes the links down
and may at any moment take registers of the root ports (`RegistersLost`,
external).  The registers that start-up writes are in three `Groups`: the
bridge's enables and bus numbers, the write masks of the BARs and, in the IOSF
testcase, the address windows.  The handler writes the first group only, and in
the IOSF testcase that of the first port only (`Restored`).

## Runs

| Run | Question | Bounds |
|---|---|---|
| `driver` | Are references and arrays accounted for in every interleaving, is `PinLedger` implemented? | two callers that share a frame, two-byte pages, requests of one page, a full page, two pages because of the offset, two pages; two arrays |
| `dma_contract` | Is the handshake sound when the surroundings cooperate? | three pages that differ in both halves; the code's ten polls; any number of reruns after ends and kills |
| `dma_hostile` | Does the program end and clean up whatever the surroundings do? | two pages; failing PINs, stale done bits, an engine of any speed, reruns on a busy engine |
| `dma_timeout` | violated: the page is freed with a command pending | engine slower than ten polls |
| `dma_double_free` | violated: FREE on an array already freed | failing PINs |
| `ats` | Are DMAs translated and their entries in the table, do those hit the buffer that can, is every trigger answered? | two host pages, four triggers, mapping kept or renewed |
| `ats_stale` | violated: a later DMA does not wait for its translation | two triggers, mapping renewed |
| `procs` | Does `aqcxl_sv.pl` take all its programs down, does it ever hit itself, what may be left when either launcher is gone? | every selection of the programs, quiet or not, one interrupt, children up (`Settled`) |
| `procs_qemu_teardown` | violated: the other programs are not killed | `run_qemu.pl`, children up |
| `topology` | Do QEMU's devices have identifiers of their own, has each decoder its endpoints, does the root complex route its window to them? | pairs of command lines that ask for one of the three documented sizes; windows of four granules |
| `qmp` | Does the client implement `QmpSession`, is it cleaned up soundly, does disconnecting end, does every execution end? | two sessions, two executions, one cancellation |
| `testcase` | Do the ports come back after every reset that is not missed, is the log kept, is the duration shown right? | both testcases, one and two ports, two resets, two keys and a table of two records, minutes of three seconds |

Two callers are enough to share a frame and to race for arrays, and a caller's
second call starts from the state its first one left; two transfers are all the
program does, and reruns repeat them.  Three pages are one more than a run has
buffers; when killed runs have pinned them all, `Alloc` finds none.  Four triggers give the engine an answer
of the same page, of another page, and one that is still under way when the
next trigger comes.  Four granules per window are two rounds of the two-way
interleave.  In the interleaved map the root complex claims 1 GB where QEMU's
one window has 512M; `WindowsRouted` speaks of the window.  Two sessions let
what is left of one meet the next (a late reply, a connection nobody took, a
stale handle); two executions let a reply go astray, and one cancellation meets
every await and every round, including those of the clean-up.  The safety
properties also held in a run with three executions (12.6 million states, too
long to keep).  Two keys and "traffic" overflow a table of two; three files are
just the 1 + 2 that filling it takes.  With `Sixty` 3 the nine combinations of
a greater, equal or smaller minute and second all occur; the proofs cover 60
and ten records.  All state spaces are finite without state constraints.

The violation runs each show one disagreement between the code and what its
comments or messages say; `PROJECT.json` quotes them under "findings".  They
also give the limits of the passing runs: what `dma_contract` assumes is what
`dma_timeout` and `dma_double_free` take away.  The rest of `Contract` is needed
as well: with `PinMayFail` or without `RerunWhenIdle` in `dma_contract.cfg` TLC
finds `EpTargetsPinned` violated.  In the first case the engine is sent to the
address an unnoticed failed PIN left in `dma_io_cb`; in the second a run was
killed between its enable write and the engine's start, and the first register
write of the next run changes half of the address of the command that is still
pending.

Of `run_qemu.pl` `procs` shows little, for the code does little: `NoSurvivor`
holds because `kill(9, -0)` in a child hits everything at once, and because
`close(STDOUT)` waits for those that write to the log.  After a Ctrl-C `tee` is gone, nothing is
waited for, and programs may stay; so may those that write elsewhere, at any
end.  `NoSurvivor` also held with `Settled` without `run_qemu`, from the first
fork on (1.5 million states, too long for the liveness beside it), and the proof
does not need it.

`procs` assumes of `aqcxl_sv.pl` that nothing ends and nobody interrupts before both children
have called `setpgrp`.  Without that the properties do not hold: a simulator
that fails at once is reaped while the SPDM child is still in the launcher's
group, the kill names a group that does not exist yet, and the responder stays;
a Ctrl-C in that moment runs the handler in a child, whose `kill(9, -0)` hits
the launcher.

In `testcase` a reset that the handler misses is excepted (`missed`).  There are
two: one whose rising edge comes while the handler is still in `do_warm_reset`,
after which it sleeps through the next reset's falling edge and brings the ports
back only when that one ends; and one that falls while it waits for links or
power management and rises when it is through.  A reset that falls and rises
within these waits does no harm, which is what `ResetHandled` shows: the writes
come after the last rising edge.  That write masks and windows are not written
again is the code's; whether a reset takes them is the bus models'.

What the QMP client does beside its promise, met while modelling and confirmed
on the library; each is noted with its hazard:

- When the peer spoils the session in the round between `Negotiated` and
  `Established`, `connect()` fails on its last assertion and leaves the state
  DISCONNECTING, against its docstring (`protocol.py:363`).
- An `accept()` cancelled in the round in which a peer is accepted leaves that
  connection open (`IdleIsQuiet` excepts it, `mode` "late"); one that was accepted for a server
  nobody wants any more is taken by the next `start_server()`, whose `accept()`
  then fails its assertion that the server is gone (`protocol.py:597`).

`CleanUpSound` is about what the clean-up finds (the state, the tasks, the
pending executions) and the room in an execution's queue; the assertions at
`protocol.py:384`, 529 and 597 are outside it, and the first and the last can
fail as said.

A `-dual` after `-dut` makes stale what `-dut` has printed about the number of
endpoints (`run_qemu.pl:642`); the devices are still consistent, which is what
`topology` shows, and the message is not modelled.

The numbers of `run_qemu.pl` collide for two decoders with two endpoints each, a
size no document names (hazard at `run_qemu.pl:1209`).

Deadlock is checked for the driver only.  The host program ends or is killed,
the ATS guest stops after `MaxTriggers`, a session ends, a test ends: those
really stop.

## Fairness

- DMA program: weak fairness of the program (a process that is not killed
  runs; its sleeps end).  The engine is fair only when it has a deadline
  (`EpDeadline <= MaxPoll`); one without may hang for good.
- ATS: weak fairness of the engine, the command loop and QEMU's handling of a
  command; none of the guest's start.
- Driver, topology: safety only, no fairness.
- QMP client: the loop runs what is ready; an attempt to connect ends; what was
  written is taken by the socket or the connection fails; a closed connection
  is reported lost.  So the peer goes on reading, or goes; one that stops
  reading and stays would hang the flush (`protocol.py:811`) and the closing
  (`protocol.py:825`).  Nothing else is asked of the peer, of timeouts, or of
  the program's calls.
- Testcases: the simulator schedules `test_body` and the handler, and a link
  out of reset trains.  None of the traffic, nor of the end of a reset.
- Launchers: weak fairness of the launcher's steps, of its handler and
  `tee`'s, and of the start of each child; none of a program's end, nor of a
  SIGPIPE.

## Proofs

Each `M_proofs` extends `M` and starts with the invariant and what it adds to
the properties.  The shape is the same everywhere: the initial states satisfy
the invariant, every action keeps it (one step per action), it implies the
properties.

`DmaApp_proofs`, for all addresses, poll limits, deadlines and endpoints:

- `TypeCorrect`.
- `EngineSafe`, `CommandsWhole`, `HostSafe`, `DoneGenuine`, `ExitsClean`,
  `FreesLive`: under `Contract`, the engine only touches pinned pages and
  executes whole commands, and the host frees only when the engine is idle, only
  what is live, takes done only for its own command and leaves nothing pinned
  that it pinned.  This includes runs after killed ones.
- `NeverLeaks`: whatever the environment, no reference of the program's own is left at
  exit.

None of the properties is inductive.  `EpTargetsPinned`, say, needs to
know that a busy engine implies that the host is between enable and FREE (or
was killed there), that the command is the current transfer's, and that this
transfer's page is still counted.  The strengthening `IInv` says, for each step of the host, what the
registers hold so far, that engine and enable are quiet before the enable write
and once done has been read, that done is 0 while a command is pending, and
that the references are exactly the one of the transfer in progress and one on
each page that a killed run left pinned (`leaked`).  A killed run's command may
still be pending, on a leaked page; `RerunWhenIdle` keeps the next run from
meeting it.  The assumption that carries the timing is `EpDeadline <= MaxPoll`:
it makes the last poll see done (`Idle`).  `NeverLeaks` has an invariant of its own, `LInv`: whatever a failed
PIN left in `iocb`, the program holds at most what the next FREE gives back.

`SimpleDriver_proofs`, for any finite set of callers, any frames, page size and
requests (`RequestAssumption`, `CallerAssumption`): `TypeCorrect`,
`ReferencesCounted`, `ArraysOwned`, `BuffersStayPinned`, and `Refinement`, that
the driver implements `PinLedger`.  The two ledgers say nothing of a handler
that is half way through; the invariant adds, for each step of the handler
(`Local`), which local variables are set and that its array lists the first
pages of the caller's own buffer.

`AtsDma_proofs`, for any pages and any number of triggers: `TypeCorrect`,
`AlwaysAnswerable` (`RequestAnswerable`), `OnlyTranslated` (`DmaIsTranslated`),
`HitsKnownBuffer`, whatever the removal finds.  The invariant says what the guest's
waiting means for the engine (`Handshake`), that there is at most one request
per start (`Counted`) and what the engine's copies are at each step.

`ProcCtrl_proofs`, for both launchers under the assumption on `aqcxl_sv.pl`
named above (`Settles`): `TypeCorrect`, `OthersAreKilled`, `LauncherSurvives`,
`NothingSurvives` (`NoSurvivor`).  The invariant says which group each process
is in, what each step of the launcher has already brought down, and that `tee`
runs as long as the launcher does unless the user interrupts (`Piped`).

`Testcase_proofs`, for any keys, tables, minutes and resets: `TypeCorrect`,
`PortsPrepared` (`ResetHandled`), `DifferenceRight` (`DiffExactOrNothing`, from
the lemma `Borrow` on times in any base), and `LogSurvives` (`LogKept`): if the
log may be opened 1 + 2 + ... + `Slots` times, which is 55 for the code's ten
records; the invariant counts the openings against the records.  For
`PortsPrepared` it says where the reset line can be at each wait of the handler
unless an edge was missed.

`ReadyQueue` has the facts about asyncio's queue of handles that the QMP proofs
need: what taking the first handle, waking one task or several and removing a
cancelled one do to which handles are queued, how often, and which is ahead of
which.

`QmpClient_proofs`, for any set of executions (it need not be finite), any
number of sessions and of cancellations: `TypeCorrect`, `CleansUpSoundly`
(`CleanUpSound`), `FlushNeverJoins` (`FlushNeverBlocks`), `RepliesRouted`
(`ReplyIsOwn`), `IdleQuiesced` (`IdleIsQuiet`), and `Refinement`, that the client
implements `QmpSession`.  Almost nothing is local here: that a step finds what
it asserts depends on which callbacks asyncio runs before it.  `IInv` has, for
any point between two rounds of the loop:

- how far owner, reader, writer and the disconnect task have come with respect
  to each other (`Control`), and which of them may be in the queue, each at most
  once (`Handles`);
- that reader and writer are cancelled only by the disconnect task, and have
  both ended once it is woken (`Ending`);
- that a writer with messages left is queued ahead of the disconnect task,
  because of which the flush does not find messages and a writer that is gone
  (`Flushing`);
- what each waiting execution has in its own queue, and that it is in the loop's
  queue if there is something (`Awaits`, `Replies`): a reply belongs to the
  execution whose id it carries, even one that arrives after the execution gave
  up, and an interrupted execution is ahead of the end of the disconnect task;
- that whatever is left to run when the owner goes on to clean up is queued
  ahead of it, because of which nobody waits in an idle session (`Quiescing`);
- what the socket, the peer and its messages say about the session (`Link`).

The refinement has the stages of the session and the outcome of each execution
mapped by name; its hard step is the return to idle, for which `QmpSession`
demands that no execution waits.

`Topology_proofs`, for any command lines that the two programs can parse (a size
is a digit, `CmdLinesAssumption`) and any size of a window:

- `TypeCorrect`: loops and decoders are within bounds.
- `NumbersDistinct`: `DevicesDistinct`, if there is one decoder or one endpoint
  each, and with a switch no more than three of both in sum.
- `EndpointsPlugged`: `EndpointsPerDecoder`, for any number of decoders with one
  endpoint each and for one decoder with two.
- `SidesAgree`: `WindowsRouted`, for the three documented sizes if both programs
  are given the same, and a window of two granules or more.

The conditions are stated in the theorems (`Numbered`, `Plugged`,
`Documented`, `SameSize`), for the properties fail without them: two decoders
with two endpoints each give two endpoints the same number, one decoder has
ports for two, and the defines know one, two and "separate".  Each condition
was first found with TLC, over all sizes up to four by three.  The invariant says
that the n-th CXL endpoint and the k-th PCI device on the command line are
those of that number (`Cxl`, `Pci`), at every step of the loops, and which
ports and windows are there by then; two numbers are then compared by
arithmetic on digits.

Proved, and not among the properties of a passing run: `FreesLive`
(`FreesLiveArray`, which `dma_double_free` violates without the contract) and
`AlwaysAnswerable` (`RequestAnswerable`); TLC has found both to hold under
`dma_contract.cfg` and `ats.cfg`.

Model-checked only: all liveness (`EveryGoServed`, `Terminates`,
`TriggerServed`, `OneEndsAllEnd`, `DisconnectEnds`, `ExecutionsEnd`,
`PortsComeBack`), which is outside the proof system's reach.

## Not modelled

- The generated C of QEMU's build tree (QAPI types, visitors and introspection,
  trace points, decoders): by far the most lines of the repository, one
  straight-line function per schema entry with no state; its generators are not
  here.  Firmware images, openspdm and all binaries: no source.
- QMP: events and their listeners, the synchronous wrapper `legacy.py` (but for
  its timeouts), the shell and the text interface; several owners that
  disconnect at once (the second fails an assertion); messages sent without an
  id; a peer that replies twice to one command (the second reply may find the
  queue full, `qmp_client.py:330`); a second peer that replaces the streams of
  the first; a cancelled `start_server()`; and Python 3.12 and later, where
  `wait_closed()` waits for the connections.
- The testbench tops (module instances of encrypted classes and the DOE callback,
  which passes buffers to the SPDM library), the key set-up of the SimCluster
  master, and `check_port` of the launchers, whose race is with programs outside.
- The bodies of `qemu_rx_pkg` (but for `set_hdm_range`) and `qemu_simc_pkg`, which are encrypted: what
  the testcases need of them is modelled as external.
- Driver: module load and unload, mmap, and the leak of each call's
  `dma_io_cb` and each PIN's `vmap` (in every call, no matter the order);
  `copy_from_user`, `copy_to_user` and `vmap` failing, which the code ignores.
- Launchers: the options that do not shape the topology, and the rest of the
  command lines; CXL 1.1, whose bus address the two sides disagree on (see the
  hazards).  A launcher started by a
  launcher (`run_sv` starts `run_qemusv.pl`, whose children are in groups of
  their own) is one program here.
- Process ids are not reused while a launcher holds them.

## Plan

What could follow:

1. A launcher inside a launcher: `ProcCtrl` composed with itself.
2. `DmaSystem`: `DmaApp`'s program on `SimpleDriver`'s steps in place of the
   one-step ioctls, and a second program at the same endpoint.
3. The event listeners of the QMP client, whose queues are unbounded.
4. Safety lemmas behind the liveness properties: that somebody is always there
   who can take the next step.
