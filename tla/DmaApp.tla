------------------------------- MODULE DmaApp -------------------------------
(***************************************************************************)
(* The host program aqemu/tools/app/simple_dma/dma-app.c, the ioctls it    *)
(* calls (simple.c, here in one step each: SimpleDriver has their steps),  *)
(* the endpoint's BAR0 registers and the endpoint's DMA engine.  The host  *)
(* runs two transfers: it pins a one-page buffer, writes the buffer's      *)
(* physical address, size and opcode to the registers, sets enable, polls  *)
(* done and frees the page.  The engine is simulated hardware that runs    *)
(* beside the host at its own pace.                                        *)
(***************************************************************************)
EXTENDS Integers, FiniteSets

CONSTANTS
  Word,         \* halves of a physical address, 0 among them
  Page,         \* the addresses of the pages the host can give to a buffer
  MaxPoll,      \* polls before the host gives up (10 in the code)
  EpDeadline,   \* the engine is idle again before this poll of a transfer;
                \* beyond MaxPoll: it may take any time
  GoClearsDone, \* does the endpoint clear done when enable is written?
  PinMayFail,   \* may the PIN ioctl fail?
  RerunWhenIdle \* is the program only started again once the engine has
                \* nothing left to do for a killed run?

Transfer == 1 .. 2

(* dma-app.c:108 and 143. *)
Opcode == [k \in Transfer |-> IF k = 1 THEN 1 ELSE 0]

Address == Word \X Word

(* The null array, and the address a null pointer or a zeroed field is. *)
Null == 0
Zero == <<0, 0>>

ASSUME ConstantsAssumption ==
  /\ 0 \in Word
  /\ Page \subseteq Address \ {Zero}
  /\ MaxPoll \in Nat \ {0}
  /\ EpDeadline \in Nat \ {0}
  /\ GoClearsDone \in BOOLEAN
  /\ PinMayFail \in BOOLEAN
  /\ RerunWhenIdle \in BOOLEAN

VARIABLES
  pc,        \* the host program's step
  xfer,      \* the transfer it is at
  buf,       \* allocated: the buffer in use, Zero before the first one
  iocb,      \* the malloc'ed dma_io_cb: page array, count, physical address
  poll_cnt,  \* polls of this transfer so far
  is_done,   \* the done bit as last read
  live,      \* kernel: the page arrays allocated, named by their transfer
  page,      \* kernel: page[k] is the page that array k lists
  ref,       \* kernel: references held on each page by the driver
  leaked,    \* kernel: the pages still listed by the arrays of killed runs
  mmio,      \* the endpoint's registers
  ep         \* the engine: busy, and the command it has read

hostVars   == <<xfer, buf, iocb, poll_cnt, is_done>>
kernelVars == <<live, page, ref, leaked>>
vars       == <<pc, hostVars, kernelVars, mmio, ep>>

Steps == {"open", "alloc", "pin", "addr_hi", "addr_lo", "ndw", "opcode",
          "enable", "poll", "free", "exited", "killed"}

DmaIoCb == [pages : Transfer \cup {Null}, pinned : 0 .. 1, phys_addr : Address]

Registers == [hi : Word, lo : Word, ndw : Nat, op : 0 .. 1,
              enable : 0 .. 1, done : 0 .. 1]

Command == [busy : BOOLEAN, addr : Address, ndw : Nat, op : 0 .. 1]

TypeOK ==
  /\ pc \in Steps
  /\ xfer \in Transfer
  /\ buf \in Address
  /\ iocb \in DmaIoCb
  /\ poll_cnt \in 0 .. MaxPoll
  /\ is_done \in 0 .. 1
  /\ live \in SUBSET Transfer
  /\ page \in [Transfer -> Address]
  /\ ref \in [Address -> Int]
  /\ leaked \in SUBSET Address
  /\ mmio \in Registers
  /\ ep \in Command

Zeroed == [pages |-> Null, pinned |-> 0, phys_addr |-> Zero]

(* An earlier run of the program may have left done set. *)
Init ==
  /\ pc = "open"
  /\ xfer = 1
  /\ buf = Zero
  /\ iocb = Zeroed
  /\ poll_cnt = 0
  /\ is_done = 0
  /\ live = {}
  /\ page = [k \in Transfer |-> Zero]
  /\ ref = [a \in Address |-> 0]
  /\ leaked = {}
  /\ mmio \in [hi : {0}, lo : {0}, ndw : {0}, op : {0}, enable : {0}, done : 0 .. 1]
  /\ ep = [busy |-> FALSE, addr |-> Zero, ndw |-> 0, op |-> 0]

(* The registers with the two flags written. *)
SetFlags(regs, enable, done) == [regs EXCEPT !.enable = enable, !.done = done]

Goto(from, to) == pc = from /\ pc' = to

-----------------------------------------------------------------------------
(* Host program                                                            *)

Open ==
  /\ pc = "open"
  /\ pc' \in {"alloc", "exited"}
  /\ UNCHANGED <<hostVars, kernelVars, mmio, ep>>

(***************************************************************************)
(* malloc of the dma_io_cb and posix_memalign of the buffer.  Neither      *)
(* initialises the three fields that PIN is to fill in: the first block    *)
(* comes from fresh memory, the second is the block just freed or a fresh  *)
(* one.  The page is one that nobody holds a reference on, and not the one *)
(* of the first buffer, which is never freed.  When posix_memalign fails   *)
(* it leaves the pointer alone, so the test for out of memory only works   *)
(* for the first buffer.                                                   *)
(***************************************************************************)
Alloc ==
  /\ Goto("alloc", "pin")
  /\ iocb' \in {Zeroed, iocb}
  /\ buf' \in {a \in Page \ {buf} : ref[a] = 0} \cup ({buf} \ {Zero})
  /\ UNCHANGED <<xfer, poll_cnt, is_done, kernelVars, mmio, ep>>

OutOfMemory ==
  /\ Goto("alloc", "exited")
  /\ buf = Zero
  /\ UNCHANGED <<hostVars, kernelVars, mmio, ep>>

(* Fault: the driver does not copy the dma_io_cb back. *)
NotWrittenBack == iocb

WrittenBack == [pages |-> xfer, pinned |-> 1, phys_addr |-> buf]

PinSucceeds ==
  /\ Goto("pin", "addr_hi")
  /\ live' = live \cup {xfer}
  /\ page' = [page EXCEPT ![xfer] = buf]
  /\ ref' = [ref EXCEPT ![buf] = @ + 1]
  /\ iocb' = WrittenBack
  /\ UNCHANGED <<xfer, buf, poll_cnt, is_done, leaked, mmio, ep>>

(* The driver has undone what it did; the host ignores the result. *)
PinFails ==
  /\ PinMayFail
  /\ Goto("pin", "addr_hi")
  /\ UNCHANGED <<hostVars, kernelVars, mmio, ep>>

(***************************************************************************)
(* The five register writes, each a bus write of its own.  map_ep before   *)
(* the first one may fail, which kills the program there (Die).            *)
(***************************************************************************)
WriteRegister(from, to, regs) ==
  /\ Goto(from, to)
  /\ mmio' = regs
  /\ UNCHANGED <<xfer, buf, iocb, poll_cnt, kernelVars, ep>>

(* Fault: the opcode is written one register too far. *)
WrongOffset == [mmio EXCEPT !.enable = Opcode[xfer]]

SetOpcode == [mmio EXCEPT !.op = Opcode[xfer]]

WriteParameter ==
  /\ \/ WriteRegister("addr_hi", "addr_lo", [mmio EXCEPT !.hi = iocb.phys_addr[1]])
     \/ WriteRegister("addr_lo", "ndw", [mmio EXCEPT !.lo = iocb.phys_addr[2]])
     \/ WriteRegister("ndw", "opcode", [mmio EXCEPT !.ndw = 1024])
     \/ WriteRegister("opcode", "enable", SetOpcode)
  /\ UNCHANGED is_done

(* Fault: the opcode is written to the enable register. *)
OpcodeAsGo == Opcode[xfer]

Go == 1

(* Fault: what was read for the previous transfer is kept. *)
KeepDone == is_done

NotDone == 0

WriteEnable ==
  /\ WriteRegister("enable", "poll",
       SetFlags(mmio, Go, IF GoClearsDone THEN 0 ELSE mmio.done))
  /\ is_done' = NotDone

(* The engine has a command to start or to finish. *)
EpPending == mmio.enable = 1 \/ ep.busy

(* Fault: the host gives up one poll early. *)
GivesUpEarly == is_done # 1 /\ poll_cnt < MaxPoll - 1

(* Fault: the host polls once more than it may. *)
OnePollMore == is_done # 1 /\ poll_cnt <= MaxPoll

KeepPolling == is_done # 1 /\ poll_cnt < MaxPoll

(* Fault: the counter is not advanced. *)
CountStuck == poll_cnt

NextCount == poll_cnt + 1

(* The one timing assumption: with EpDeadline <= MaxPoll the engine        *)
(* finishes within the seconds that the host sleeps between its polls.     *)
InTime == poll_cnt + 1 >= EpDeadline => ~ EpPending

(* Fault: the register before it is read. *)
EnableRegister == mmio.enable

DoneRegister == mmio.done

Poll ==
  /\ pc = "poll"
  /\ KeepPolling
  /\ InTime
  /\ poll_cnt' = NextCount
  /\ is_done' = DoneRegister
  /\ UNCHANGED <<pc, xfer, buf, iocb, kernelVars, mmio, ep>>

StopPolling ==
  /\ Goto("poll", "free")
  /\ ~ KeepPolling
  /\ poll_cnt' = 0
  /\ UNCHANGED <<xfer, buf, iocb, is_done, kernelVars, mmio, ep>>

(***************************************************************************)
(* The FREE ioctl trusts the array the dma_io_cb names.  Of an array that  *)
(* is already freed the memory may, or may not, still list the page.       *)
(* free(iocb) leaves the three fields in the block.                        *)
(***************************************************************************)
PutPages ==
  LET k == iocb.pages IN
  \/ /\ k = Null
     /\ UNCHANGED ref
  \/ /\ k # Null
     /\ ref' = [ref EXCEPT ![page[k]] = @ - 1]
  \/ /\ k \notin live \cup {Null}
     /\ UNCHANGED ref

Free ==
  /\ Goto("free", IF xfer = 1 THEN "alloc" ELSE "exited")
  /\ xfer' = 2
  /\ PutPages
  /\ live' = live \ {iocb.pages}
  /\ UNCHANGED <<buf, iocb, poll_cnt, is_done, page, leaked, mmio, ep>>

(***************************************************************************)
(* A signal, or a write through a failed mapping of BAR0.  Closing the     *)
(* device (simple_release) frees nothing: what the run had pinned keeps    *)
(* its reference, and no later run can name its array.                     *)
(***************************************************************************)
Die ==
  /\ pc \notin {"exited", "killed"}
  /\ pc' = "killed"
  /\ leaked' = leaked \cup {page[k] : k \in live}
  /\ live' = {}
  /\ UNCHANGED <<hostVars, page, ref, mmio, ep>>

(* The user starts the program again, after whatever end; the endpoint     *)
(* keeps its registers and what it is doing.  A kernel whose page count    *)
(* has dropped below zero is beyond that.                                  *)
Rerun ==
  /\ pc \in {"exited", "killed"}
  /\ pc' = "open"
  /\ RerunWhenIdle => ~ EpPending
  /\ \A a \in Address : ref[a] >= 0
  /\ xfer' = 1
  /\ buf' = Zero
  /\ iocb' = Zeroed
  /\ poll_cnt' = 0
  /\ is_done' = 0
  /\ UNCHANGED <<kernelVars, mmio, ep>>

Host ==
  \/ Open \/ Alloc \/ OutOfMemory \/ PinSucceeds \/ PinFails
  \/ WriteParameter \/ WriteEnable \/ Poll \/ StopPolling \/ Free

-----------------------------------------------------------------------------
(* Endpoint engine: waits for enable, reads the command, moves the data    *)
(* (while busy), clears enable and sets done.                              *)

EpStart ==
  /\ mmio.enable = 1
  /\ ~ ep.busy
  /\ ep' = [busy |-> TRUE, addr |-> <<mmio.hi, mmio.lo>>, ndw |-> mmio.ndw,
            op |-> mmio.op]
  /\ UNCHANGED <<pc, hostVars, kernelVars, mmio>>

EpFinish ==
  /\ ep.busy
  /\ ep' = [ep EXCEPT !.busy = FALSE]
  /\ mmio' = SetFlags(mmio, 0, 1)
  /\ UNCHANGED <<pc, hostVars, kernelVars>>

Engine == EpStart \/ EpFinish

-----------------------------------------------------------------------------
Next == Host \/ Die \/ Rerun \/ Engine

(* The program runs on unless killed; so does the simulation, except that   *)
(* an engine without a deadline may hang.                                  *)
Fairness == WF_vars(Host) /\ (EpDeadline <= MaxPoll => WF_vars(Engine))

Spec == Init /\ [][Next]_vars /\ Fairness

-----------------------------------------------------------------------------
(* Properties                                                              *)

(* What the program needs of its surroundings for the handshake to be      *)
(* sound; it checks none of it.                                            *)
Contract ==
  GoClearsDone /\ EpDeadline <= MaxPoll /\ ~ PinMayFail /\ RerunWhenIdle

(* The engine only ever moves data to or from a page that is pinned at     *)
(* that moment (header comment, dma-app.c:23-28).                          *)
EpTargetsPinned == ep.busy => ref[ep.addr] >= 1

(* The command the engine executes is wholly the one of the transfer the   *)
(* host is at, never registers of two transfers (dma-app.c:105-109,        *)
(* 140-144).                                                               *)
CommandWhole ==
  ep.busy => /\ ep.addr = iocb.phys_addr
             /\ ep.ndw = 1024
             /\ ep.op = Opcode[xfer]

(* When the host frees the page, no command is left for the engine to      *)
(* start or to finish (dma-app.c:112-121, 147-156).                        *)
FreeOnlyWhenIdle == pc = "free" => ~ EpPending

(* A done bit the host reads as 1 is the end of this transfer's command:   *)
(* it is what the engine did last and has finished, never what it did for  *)
(* the other transfer or for a run that was killed (dma-app.c:116, 151).   *)
DoneIsGenuine ==
  pc = "poll" /\ is_done = 1 =>
    ~ EpPending /\ ep.addr = iocb.phys_addr /\ ep.op = Opcode[xfer]

(* A program that ends normally leaves no page array allocated and no page *)
(* referenced, but for those of runs that were killed (dma-app.c:120, 155; *)
(* simple.c:47, 204-216).                                                  *)
NothingPinnedAtExit ==
  pc = "exited" => /\ live = {}
                   /\ \A a \in Address : ref[a] = IF a \in leaked THEN 1 ELSE 0

(* Even when PINs fail and the program goes on regardless, it leaves no    *)
(* reference and no page array of its own behind when it ends              *)
(* (simple.c:169-177).                                                     *)
NothingLeaksAtExit ==
  pc = "exited" => /\ live = {}
                   /\ \A a \in Address : ref[a] <= IF a \in leaked THEN 1 ELSE 0

(* FREE is only called on a page array that is allocated, or on none       *)
(* (simple.c:207-215).                                                     *)
FreesLiveArray == pc = "free" => iocb.pages \in live \cup {Null}

(* The program ends, also when the engine hangs (dma-app.c:112, 147).      *)
Terminates == pc = "open" ~> pc \in {"exited", "killed"}

(* Each time the host sets enable, the engine executes that transfer.      *)
EveryGoServed ==
  \A k \in Transfer :
    pc = "enable" /\ xfer = k
      ~> pc = "killed" \/ (ep.busy /\ ep.op = Opcode[k] /\ xfer = k)
=============================================================================
