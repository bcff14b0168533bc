--------------------------- MODULE DmaApp_proofs ---------------------------
(***************************************************************************)
(* Under Contract the program of DmaApp keeps every promise of its header  *)
(* comment, for all page addresses and all poll limits.                    *)
(*                                                                         *)
(* None of the properties is inductive: each depends on how far the host   *)
(* is.  IInv records, for the steps at which the host holds the page, what *)
(* the kernel and the dma_io_cb hold (HoldsPage); for the others, that     *)
(* they hold nothing; that killed runs have left one reference on each     *)
(* leaked page, none of which is in use; that a command is only            *)
(* outstanding while the host polls (or was killed doing so) for that very *)
(* command; and that it is the engine's last one once it is not.           *)
(***************************************************************************)
EXTENDS DmaApp, TLAPS

Holding == {"addr_hi", "addr_lo", "ndw", "opcode", "enable", "poll", "free"}

(* The references if just the pages of S are pinned, once each. *)
OneEach(S) == [a \in Address |-> IF a \in S THEN 1 ELSE 0]

HoldsPage ==
  /\ iocb = [pages |-> xfer, pinned |-> 1, phys_addr |-> buf]
  /\ live = {xfer}
  /\ page[xfer] = buf
  /\ ref = OneEach(leaked \cup {buf})
  /\ buf \in Page \ leaked

HoldsNothing ==
  /\ live = {}
  /\ ref = OneEach(leaked)

(* Which of the parameters of the current transfer are in the registers. *)
Written(step) ==
  /\ step \in {"addr_lo", "ndw", "opcode", "enable", "poll"}
       => mmio.hi = iocb.phys_addr[1]
  /\ step \in {"ndw", "opcode", "enable", "poll"} => mmio.lo = iocb.phys_addr[2]
  /\ step \in {"opcode", "enable", "poll"} => mmio.ndw = 1024
  /\ step \in {"enable", "poll"} => mmio.op = Opcode[xfer]

(* The command the engine read last is the one of the current transfer. *)
LastCommand ==
  /\ ep.addr = iocb.phys_addr
  /\ ep.ndw = 1024
  /\ ep.op = Opcode[xfer]

CommandOut ==
  /\ mmio.enable = 1
  /\ pc = "killed" => iocb.phys_addr \in leaked
  /\ Written("poll")
  /\ ep.busy => LastCommand

IInv ==
  /\ TypeOK
  /\ pc \in Holding => HoldsPage
  /\ pc \in {"open", "alloc", "pin", "exited", "killed"} => HoldsNothing
  /\ leaked \subseteq Page
  /\ pc \in {"open", "alloc", "pin"} => buf \notin leaked
  /\ pc \in {"open", "alloc"} => buf \in Page \cup {Zero}
  /\ pc = "open" => buf = Zero
  /\ pc = "pin" => buf \in Page
  /\ Written(pc)
  /\ EpPending => pc \in {"poll", "killed"} /\ CommandOut
  /\ pc \notin {"poll", "killed"} => poll_cnt = 0
  /\ pc = "poll" /\ (is_done = 1 \/ mmio.done = 1 \/ poll_cnt >= EpDeadline)
       => ~ EpPending
  /\ pc = "poll" => EpPending \/ LastCommand

-----------------------------------------------------------------------------
LEMMA BufferType ==
  /\ Zero \in Address
  /\ Page \subseteq Address \ {Zero}
  /\ \A a \in Address : a[1] \in Word /\ a[2] \in Word
  /\ \A h, l \in Word : <<h, l>> \in Address
BY ConstantsAssumption DEF Zero, Address

LEMMA FlagWrite ==
  ASSUME NEW m \in Registers, NEW v \in 0 .. 1, NEW w \in 0 .. 1
  PROVE  /\ SetFlags(m, v, w) \in Registers
         /\ SetFlags(m, v, w).enable = v
         /\ SetFlags(m, v, w).done = w
         /\ SetFlags(m, v, w).hi = m.hi /\ SetFlags(m, v, w).lo = m.lo
         /\ SetFlags(m, v, w).ndw = m.ndw /\ SetFlags(m, v, w).op = m.op
         /\ m.done \in 0 .. 1
BY DEF Registers, SetFlags

LEMMA EngineStops ==
  ASSUME NEW e \in Command PROVE [e EXCEPT !.busy = FALSE] \in Command
BY DEF Command

(* The variables keep their types, whatever the surroundings do. *)
LEMMA TypeStep == TypeOK /\ [Next]_vars => TypeOK'
<1> SUFFICES ASSUME TypeOK, [Next]_vars PROVE TypeOK'
  OBVIOUS
<1> USE DEF TypeOK, Goto, hostVars, kernelVars, Steps, Transfer
<1>1. CASE Open
  BY <1>1 DEF Open
<1>2. CASE Alloc
  <2>1. iocb' \in DmaIoCb
    BY <1>2, BufferType DEF Alloc, Zeroed, DmaIoCb, Null
  <2>2. buf' \in Address
    BY <1>2, BufferType DEF Alloc
  <2> QED
    BY <1>2, <2>1, <2>2 DEF Alloc
<1>3. CASE OutOfMemory
  BY <1>3 DEF OutOfMemory
<1>4. CASE PinSucceeds
  <2>1. iocb' \in DmaIoCb
    BY <1>4 DEF PinSucceeds, WrittenBack, DmaIoCb
  <2>2. ref' \in [Address -> Int] /\ page' \in [Transfer -> Address]
    BY <1>4 DEF PinSucceeds
  <2> QED
    BY <1>4, <2>1, <2>2 DEF PinSucceeds
<1>5. CASE PinFails
  BY <1>5 DEF PinFails
<1>6. CASE WriteParameter
  <2>1. Opcode[xfer] \in 0 .. 1
    BY DEF Opcode
  <2>2. iocb.phys_addr[1] \in Word /\ iocb.phys_addr[2] \in Word
    BY BufferType DEF DmaIoCb
  <2>3. mmio' \in Registers
    BY <1>6, <2>1, <2>2 DEF WriteParameter, WriteRegister, SetOpcode, Registers
  <2> QED
    BY <1>6, <2>3 DEF WriteParameter, WriteRegister
<1>7. CASE WriteEnable
  <2>1. mmio' \in Registers
    BY <1>7, FlagWrite DEF WriteEnable, WriteRegister, Go
  <2>2. UNCHANGED <<xfer, buf, iocb, poll_cnt, kernelVars, ep>>
    BY <1>7 DEF WriteEnable, WriteRegister
  <2>3. pc' \in Steps /\ is_done' \in 0 .. 1
    BY <1>7 DEF WriteEnable, WriteRegister, NotDone
  <2> QED
    BY <2>1, <2>2, <2>3
<1>8. CASE Poll
  <2>1. mmio.done \in 0 .. 1
    BY DEF Registers
  <2> QED
    BY <1>8, <2>1, ConstantsAssumption DEF Poll, KeepPolling, NextCount, DoneRegister
<1>9. CASE StopPolling
  BY <1>9, ConstantsAssumption DEF StopPolling
<1>10. CASE Free
  <2>1. iocb.pages \in Transfer \cup {Null}
    BY DEF DmaIoCb
  <2>2. ref' \in [Address -> Int]
    BY <1>10, <2>1 DEF Free, PutPages
  <2>3. pc' \in Steps /\ xfer' \in Transfer
    BY <1>10 DEF Free
  <2>4. live' \in SUBSET Transfer
    BY <1>10 DEF Free
  <2>5. UNCHANGED <<buf, iocb, poll_cnt, is_done, page, leaked, mmio, ep>>
    BY <1>10 DEF Free
  <2> QED
    BY <2>2, <2>3, <2>4, <2>5
<1>11. CASE Die
  <2>1. live \subseteq Transfer /\ page \in [Transfer -> Address]
    OBVIOUS
  <2>2. {page[k] : k \in live} \subseteq Address
    BY <2>1
  <2> QED
    BY <1>11, <2>2 DEF Die
<1>12. CASE Rerun
  <2>1. iocb' \in DmaIoCb
    BY <1>12, BufferType DEF Rerun, Zeroed, DmaIoCb, Null
  <2> QED
    BY <1>12, <2>1, BufferType, ConstantsAssumption DEF Rerun
<1>13. CASE EpStart
  <2>1. ep' \in Command
    BY <1>13, BufferType DEF EpStart, Registers, Command
  <2> QED
    BY <1>13, <2>1 DEF EpStart
<1>14. CASE EpFinish
  <2>1. ep' \in Command
    BY <1>14, EngineStops DEF EpFinish
  <2>2. mmio' \in Registers
    BY <1>14, FlagWrite DEF EpFinish
  <2>3. UNCHANGED <<pc, hostVars, kernelVars>>
    BY <1>14 DEF EpFinish
  <2> QED
    BY <2>1, <2>2, <2>3
<1>15. CASE UNCHANGED vars
  BY <1>15 DEF vars
<1> QED
  BY <1>1, <1>2, <1>3, <1>4, <1>5, <1>6, <1>7, <1>8, <1>9, <1>10, <1>11, <1>12,
     <1>13, <1>14, <1>15 DEF Next, Host, Engine

LEMMA TypeInit == Init => TypeOK
BY BufferType, ConstantsAssumption
   DEF Init, TypeOK, Steps, Transfer, DmaIoCb, Registers, Command, Zeroed, Null

(* Every variable of the model keeps its type, in every environment. *)
THEOREM TypeCorrect == Spec => []TypeOK
BY TypeInit, TypeStep, PTL DEF Spec

-----------------------------------------------------------------------------
LEMMA InvInit == Init => IInv
<1> SUFFICES ASSUME Init PROVE IInv
  OBVIOUS
<1>1. TypeOK
  BY TypeInit
<1>2. ~ EpPending
  BY DEF Init, EpPending
<1>3. pc = "open" /\ poll_cnt = 0 /\ HoldsNothing /\ leaked = {} /\ buf = Zero
  BY DEF Init, HoldsNothing, OneEach
<1> QED
  BY <1>1, <1>2, <1>3 DEF IInv, Holding, Written

LEMMA PageNotZero == Page \subseteq Address /\ Zero \notin Page
BY BufferType

(* No command is outstanding before the host has set enable. *)
LEMMA Idle ==
  ASSUME IInv, pc \notin {"poll", "killed"}
  PROVE  mmio.enable = 0 /\ ep.busy = FALSE
<1>1. ~ EpPending
  BY DEF IInv
<1>2. mmio.enable \in 0 .. 1 /\ ep.busy \in BOOLEAN
  BY DEF IInv, TypeOK, Registers, Command
<1> QED
  BY <1>1, <1>2 DEF EpPending

LEMMA InvStep == Contract /\ IInv /\ [Next]_vars => IInv'
<1> SUFFICES ASSUME Contract, IInv, [Next]_vars PROVE IInv'
  OBVIOUS
<1>0. TypeOK /\ TypeOK'
  BY TypeStep DEF IInv
<1> USE DEF Goto, hostVars, kernelVars, Holding
<1>1. CASE Open
  <2>1. pc = "open" /\ pc' \in {"alloc", "exited"}
        /\ UNCHANGED <<hostVars, kernelVars, mmio, ep>>
    BY <1>1 DEF Open
  <2> QED
    BY <2>1, <1>0 DEF IInv, HoldsNothing, Written, EpPending
<1>2. CASE Alloc
  <2>1. pc = "alloc" /\ pc' = "pin" /\ UNCHANGED <<poll_cnt, kernelVars, mmio, ep>>
        /\ buf' \in {a \in Page \ {buf} : ref[a] = 0} \cup ({buf} \ {Zero})
    BY <1>2 DEF Alloc
  <2>2. \A a \in Page : ref[a] = 0 => a \notin leaked
    BY <2>1, PageNotZero DEF IInv, HoldsNothing, OneEach
  <2>3. buf' \in Page \ leaked
    BY <2>1, <2>2 DEF IInv
  <2> QED
    BY <2>1, <2>3, <1>0 DEF IInv, HoldsNothing, Written, EpPending
<1>3. CASE OutOfMemory
  <2>1. pc = "alloc" /\ pc' = "exited" /\ UNCHANGED <<poll_cnt, kernelVars, mmio, ep>>
    BY <1>3 DEF OutOfMemory
  <2> QED
    BY <2>1, <1>0 DEF IInv, HoldsNothing, Written, EpPending
<1>4. CASE PinSucceeds
  <2>1. pc = "pin" /\ pc' = "addr_hi"
        /\ UNCHANGED <<xfer, buf, poll_cnt, leaked, mmio, ep>>
    BY <1>4 DEF PinSucceeds
  <2>2. HoldsNothing /\ buf \in Page \ leaked
    BY <2>1 DEF IInv
  <2>3. HoldsPage'
    <3>1. ref' = [ref EXCEPT ![buf] = @ + 1] /\ live' = live \cup {xfer}
          /\ page' = [page EXCEPT ![xfer] = buf] /\ iocb' = WrittenBack
      BY <1>4 DEF PinSucceeds
    <3>2. ref' = OneEach(leaked \cup {buf})
      <4>1. ref = OneEach(leaked) /\ buf \notin leaked
        BY <2>2 DEF HoldsNothing
      <4>2. \A a \in Address : ref'[a] = IF a = buf THEN ref[a] + 1 ELSE ref[a]
        BY <3>1, <1>0 DEF TypeOK
      <4>3. \A a \in Address : ref'[a] = IF a \in leaked \cup {buf} THEN 1 ELSE 0
        BY <4>1, <4>2 DEF OneEach
      <4> QED
        BY <4>3, <1>0 DEF TypeOK, OneEach
    <3>3. page'[xfer] = buf
      BY <3>1, <1>0 DEF TypeOK
    <3>4. live' = {xfer}
      BY <3>1, <2>2 DEF HoldsNothing
    <3> QED
      BY <3>1, <3>2, <3>3, <3>4, <2>1, <2>2 DEF HoldsPage, WrittenBack
  <2> QED
    BY <2>1, <2>3, <1>0 DEF IInv, Written, EpPending
<1>5. CASE PinFails
  BY <1>5 DEF PinFails, Contract
<1>6. CASE WriteParameter
  <2>1. UNCHANGED <<hostVars, kernelVars, ep>>
    BY <1>6 DEF WriteParameter, WriteRegister
  <2>2. pc \in {"addr_hi", "addr_lo", "ndw", "opcode"}
        /\ pc' \in {"addr_lo", "ndw", "opcode", "enable"}
    BY <1>6 DEF WriteParameter, WriteRegister
  <2>3. Written(pc) => Written(pc)' /\ mmio'.enable = mmio.enable
    BY <1>6, <1>0 DEF WriteParameter, WriteRegister, SetOpcode, Written,
                      TypeOK, Registers
  <2>4. HoldsPage'
    BY <2>1, <2>2 DEF IInv, HoldsPage
  <2>5. ~ EpPending'
    BY <2>1, <2>2, <2>3, Idle DEF IInv, EpPending
  <2>6. poll_cnt' = 0
    BY <2>1, <2>2 DEF IInv
  <2> QED
    BY <1>0, <2>1, <2>2, <2>3, <2>4, <2>5, <2>6 DEF IInv
<1>7. CASE WriteEnable
  <2>1. pc = "enable" /\ pc' = "poll" /\ is_done' = 0
        /\ UNCHANGED <<xfer, buf, iocb, poll_cnt, kernelVars, ep>>
    BY <1>7 DEF WriteEnable, WriteRegister, NotDone
  <2>2. mmio' = SetFlags(mmio, 1, 0)
    BY <1>7 DEF WriteEnable, WriteRegister, Go, Contract
  <2>3. mmio'.enable = 1 /\ mmio'.done = 0 /\ mmio'.hi = mmio.hi
        /\ mmio'.lo = mmio.lo /\ mmio'.ndw = mmio.ndw /\ mmio'.op = mmio.op
    BY <2>2, <1>0, FlagWrite DEF TypeOK
  <2>4. HoldsPage'
    BY <2>1 DEF IInv, HoldsPage
  <2>5. Written("poll")'
    BY <2>1, <2>3 DEF IInv, Written
  <2>6. ep'.busy = FALSE
    BY <2>1, Idle
  <2>7. poll_cnt' = 0 /\ ~ (poll_cnt' >= EpDeadline)
    BY <2>1, ConstantsAssumption DEF IInv
  <2> QED
    BY <1>0, <2>1, <2>3, <2>4, <2>5, <2>6, <2>7 DEF IInv, CommandOut, EpPending
<1>8. CASE Poll
  <2>1. pc = "poll" /\ pc' = "poll" /\ is_done' = mmio.done
        /\ UNCHANGED <<xfer, buf, iocb, kernelVars, mmio, ep>>
    BY <1>8 DEF Poll, DoneRegister
  <2>2. poll_cnt' = poll_cnt + 1 /\ InTime
    BY <1>8 DEF Poll, NextCount
  <2>3. HoldsPage' /\ Written("poll")'
    BY <2>1 DEF IInv, HoldsPage, Written
  <2>4. EpPending' => CommandOut'
    BY <2>1 DEF IInv, EpPending, CommandOut, LastCommand, Written
  <2>5. is_done' = 1 \/ mmio'.done = 1 \/ poll_cnt' >= EpDeadline => ~ EpPending'
    BY <2>1, <2>2 DEF IInv, EpPending, InTime
  <2>6. EpPending' \/ LastCommand'
    BY <2>1 DEF IInv, EpPending, LastCommand
  <2> QED
    BY <1>0, <2>1, <2>3, <2>4, <2>5, <2>6 DEF IInv
<1>9. CASE StopPolling
  <2>1. pc = "poll" /\ pc' = "free" /\ poll_cnt' = 0 /\ ~ KeepPolling
        /\ UNCHANGED <<xfer, buf, iocb, is_done, kernelVars, mmio, ep>>
    BY <1>9 DEF StopPolling
  <2>2. is_done = 1 \/ poll_cnt >= EpDeadline
    BY <2>1, <1>0, ConstantsAssumption DEF KeepPolling, Contract, TypeOK
  <2>3. ~ EpPending'
    BY <2>1, <2>2 DEF IInv, EpPending
  <2>4. HoldsPage'
    BY <2>1 DEF IInv, HoldsPage
  <2> QED
    BY <1>0, <2>1, <2>3, <2>4 DEF IInv, Written
<1>10. CASE Free
  <2>1. pc = "free" /\ pc' \in {"alloc", "exited"}
        /\ UNCHANGED <<buf, poll_cnt, page, leaked, mmio, ep>>
    BY <1>10 DEF Free
  <2>2. HoldsPage /\ ~ EpPending
    BY <2>1 DEF IInv
  <2>3. iocb.pages = xfer /\ xfer # Null /\ xfer \in live
    BY <2>2, <1>0 DEF HoldsPage, TypeOK, Transfer, Null
  <2>4. ref' = [ref EXCEPT ![buf] = @ - 1]
    BY <1>10, <2>2, <2>3 DEF Free, PutPages, HoldsPage
  <2>5. ref' = OneEach(leaked)
    <3>1. ref = OneEach(leaked \cup {buf}) /\ buf \notin leaked
      BY <2>2 DEF HoldsPage
    <3>2. \A a \in Address : ref'[a] = IF a = buf THEN ref[a] - 1 ELSE ref[a]
      BY <2>4, <1>0 DEF TypeOK
    <3>3. \A a \in Address : ref'[a] = IF a \in leaked THEN 1 ELSE 0
      BY <3>1, <3>2 DEF OneEach
    <3> QED
      BY <3>3, <1>0 DEF TypeOK, OneEach
  <2>6. live' = {}
    BY <1>10, <2>2, <2>3 DEF Free, HoldsPage
  <2>7. ~ EpPending'
    BY <2>1, <2>2 DEF EpPending
  <2> QED
    BY <1>0, <2>1, <2>2, <2>5, <2>6, <2>7
       DEF IInv, HoldsNothing, HoldsPage, Written
<1>11. CASE Die
  <2>1. UNCHANGED <<hostVars, page, ref, mmio, ep>> /\ pc' = "killed"
        /\ leaked' = leaked \cup {page[k] : k \in live} /\ live' = {}
    BY <1>11 DEF Die
  <2>2. pc \in Holding \/ pc \in {"open", "alloc", "pin", "exited", "killed"}
    BY <1>0 DEF TypeOK, Steps
  <2>3. /\ pc \in Holding => leaked' = leaked \cup {buf}
        /\ pc \notin Holding => leaked' = leaked
    BY <2>1, <2>2 DEF IInv, HoldsPage, HoldsNothing
  <2>4. HoldsNothing' /\ leaked' \subseteq Page
    BY <2>1, <2>2, <2>3 DEF IInv, HoldsPage, HoldsNothing
  <2>5. EpPending' => CommandOut'
    <3> SUFFICES ASSUME EpPending PROVE CommandOut'
      BY <2>1 DEF EpPending
    <3>1. pc = "poll" /\ CommandOut
      BY <1>11 DEF IInv, Die
    <3>2. iocb.phys_addr \in leaked'
      BY <2>3, <3>1 DEF IInv, HoldsPage
    <3> QED
      BY <2>1, <3>1, <3>2 DEF CommandOut, Written, LastCommand
  <2>6. Written("killed")'
    BY DEF Written
  <2> QED
    BY <2>1, <2>4, <2>5, <2>6, <1>0 DEF IInv
<1>12. CASE Rerun
  <2>1. pc \in {"exited", "killed"} /\ pc' = "open" /\ poll_cnt' = 0 /\ buf' = Zero
        /\ UNCHANGED <<kernelVars, mmio, ep>> /\ ~ EpPending
    BY <1>12 DEF Rerun, Contract
  <2>2. buf' \notin leaked'
    BY <2>1, PageNotZero DEF IInv
  <2> QED
    BY <2>1, <2>2, <1>0 DEF IInv, HoldsNothing, Written, EpPending
<1>13. CASE EpStart
  <2>1. UNCHANGED <<pc, hostVars, kernelVars, mmio>> /\ EpPending
        /\ ep' = [busy |-> TRUE, addr |-> <<mmio.hi, mmio.lo>>,
                  ndw |-> mmio.ndw, op |-> mmio.op]
    BY <1>13 DEF EpStart, EpPending
  <2>2. CommandOut /\ pc \in {"poll", "killed"}
    BY <2>1 DEF IInv
  <2>3. <<mmio.hi, mmio.lo>> = iocb.phys_addr
    <3>1. iocb.phys_addr \in Word \X Word
      BY <1>0 DEF TypeOK, DmaIoCb, Address
    <3>2. mmio.hi = iocb.phys_addr[1] /\ mmio.lo = iocb.phys_addr[2]
      BY <2>2 DEF CommandOut, Written
    <3> QED
      BY <3>1, <3>2
  <2>4. CommandOut' /\ LastCommand'
    BY <2>1, <2>2, <2>3 DEF CommandOut, LastCommand, Written
  <2>5. /\ pc' \in Holding => HoldsPage'
        /\ pc' = "killed" => HoldsNothing'
    BY <2>1 DEF IInv, HoldsPage, HoldsNothing
  <2>6. Written(pc)'
    BY <2>1 DEF IInv, Written
  <2> QED
    BY <1>0, <2>1, <2>2, <2>4, <2>5, <2>6 DEF IInv
<1>14. CASE EpFinish
  <2>1. UNCHANGED <<pc, hostVars, kernelVars>> /\ EpPending
        /\ ep' = [ep EXCEPT !.busy = FALSE] /\ mmio' = SetFlags(mmio, 0, 1)
    BY <1>14 DEF EpFinish, EpPending
  <2>2. mmio'.enable = 0 /\ mmio'.hi = mmio.hi
        /\ mmio'.lo = mmio.lo /\ mmio'.ndw = mmio.ndw /\ mmio'.op = mmio.op
    BY <2>1, <1>0, FlagWrite DEF TypeOK
  <2>3. ep'.busy = FALSE
    BY <2>1, <1>0 DEF TypeOK, Command
  <2>4. ~ EpPending'
    BY <2>2, <2>3 DEF EpPending
  <2>5. Written(pc)'
    BY <2>1, <2>2 DEF IInv, Written
  <2>6. /\ pc' \in Holding => HoldsPage'
        /\ pc' \in {"open", "alloc", "pin", "exited", "killed"} => HoldsNothing'
    BY <2>1 DEF IInv, HoldsPage, HoldsNothing
  <2>7. pc = "poll" => LastCommand'
    <3>1. pc = "poll" => LastCommand
      BY <1>14 DEF IInv, EpFinish, CommandOut, EpPending
    <3>2. ep'.addr = ep.addr /\ ep'.ndw = ep.ndw /\ ep'.op = ep.op
      BY <2>1, <1>0 DEF TypeOK, Command
    <3> QED
      BY <2>1, <3>1, <3>2 DEF LastCommand
  <2> QED
    BY <1>0, <2>1, <2>4, <2>5, <2>6, <2>7 DEF IInv
<1>15. CASE UNCHANGED vars
  BY <1>15, <1>0 DEF vars, IInv, EpPending, Written, CommandOut, LastCommand,
                     HoldsPage, HoldsNothing
<1> QED
  BY <1>1, <1>2, <1>3, <1>4, <1>5, <1>6, <1>7, <1>8, <1>9, <1>10, <1>11, <1>12,
     <1>13, <1>14, <1>15 DEF Next, Host, Engine

LEMMA InvImplies ==
  ASSUME IInv
  PROVE  /\ EpTargetsPinned
         /\ CommandWhole
         /\ FreeOnlyWhenIdle
         /\ DoneIsGenuine
         /\ NothingPinnedAtExit
         /\ FreesLiveArray
<1>1. ep.busy => CommandOut
  BY DEF IInv, EpPending
<1>2. leaked \subseteq Address
  BY DEF IInv, TypeOK
<1>3. ep.busy => ref[ep.addr] = 1
  <2> SUFFICES ASSUME ep.busy PROVE ref[ep.addr] = 1
    OBVIOUS
  <2>1. ep.addr = iocb.phys_addr /\ pc \in {"poll", "killed"}
    BY <1>1 DEF CommandOut, LastCommand, IInv, EpPending
  <2>2. CASE pc = "killed"
    BY <1>1, <1>2, <2>1, <2>2 DEF IInv, CommandOut, HoldsNothing, OneEach
  <2>3. CASE pc = "poll"
    BY <2>1, <2>3, PageNotZero DEF IInv, Holding, HoldsPage, OneEach
  <2> QED
    BY <2>1, <2>2, <2>3
<1>4. FreesLiveArray
  BY DEF IInv, Holding, HoldsPage, FreesLiveArray
<1>5. NothingPinnedAtExit
  BY DEF IInv, HoldsNothing, OneEach, NothingPinnedAtExit
<1>6. DoneIsGenuine
  BY DEF IInv, LastCommand, DoneIsGenuine
<1> QED
  BY <1>1, <1>3, <1>4, <1>5, <1>6 DEF IInv, CommandOut, LastCommand,
     EpTargetsPinned, CommandWhole, FreeOnlyWhenIdle

(* In an environment that keeps Contract, the invariant always holds. *)
THEOREM InvHolds == Contract /\ Spec => []IInv
<1> SUFFICES ASSUME Contract PROVE Spec => []IInv
  OBVIOUS
<1>1. Init => IInv
  BY InvInit
<1>2. IInv /\ [Next]_vars => IInv'
  BY InvStep
<1> QED
  BY <1>1, <1>2, PTL DEF Spec

(* In such an environment the engine never moves data to or from a page    *)
(* that is not pinned.                                                     *)
THEOREM EngineSafe == Contract /\ Spec => []EpTargetsPinned
BY InvHolds, InvImplies, PTL

(* In such an environment the engine always executes the host's current    *)
(* command, whole.                                                         *)
THEOREM CommandsWhole == Contract /\ Spec => []CommandWhole
BY InvHolds, InvImplies, PTL

(* In such an environment the host frees a page only when the engine is    *)
(* done with it.                                                           *)
THEOREM HostSafe == Contract /\ Spec => []FreeOnlyWhenIdle
BY InvHolds, InvImplies, PTL

(* In such an environment a done bit read as 1 is the end of the transfer  *)
(* the host waits for, never of the other one or of a run that was killed. *)
THEOREM DoneGenuine == Contract /\ Spec => []DoneIsGenuine
BY InvHolds, InvImplies, PTL

(* In such an environment the program leaves nothing pinned when it ends,  *)
(* whatever runs killed before it have left.                               *)
THEOREM ExitsClean == Contract /\ Spec => []NothingPinnedAtExit
BY InvHolds, InvImplies, PTL

(* In such an environment FREE is only called on an array that is there.   *)
THEOREM FreesLive == Contract /\ Spec => []FreesLiveArray
BY InvHolds, InvImplies, PTL

-----------------------------------------------------------------------------
(***************************************************************************)
(* What is left of HostSafe without the Contract: PINs may fail, the done  *)
(* bit may be stale, the engine may hang.  The kernel then holds at most   *)
(* the page of the last PIN and those of killed runs, and counts may drop  *)
(* below that, but never rise for good.                                    *)
(***************************************************************************)
HoldsAtMost(S) == \A a \in Address : ref[a] <= IF a \in S THEN 1 ELSE 0

PinDone ==
  /\ iocb.pages = xfer /\ live = {xfer} /\ page[xfer] = buf
  /\ HoldsAtMost(leaked \cup {buf})

PinUndone == live = {} /\ HoldsAtMost(leaked)

(* Nobody has a reference on the buffer's page. *)
Unpinned == buf # Zero => ref[buf] <= 0

LInv ==
  /\ TypeOK
  /\ pc \in Holding => PinDone \/ (PinUndone /\ Unpinned)
  /\ pc \in {"open", "alloc", "pin"} => PinUndone /\ Unpinned
  /\ pc = "pin" => buf # Zero
  /\ pc \in {"exited", "killed"} => PinUndone

LEMMA LeakStep == LInv /\ [Next]_vars => LInv'
<1> SUFFICES ASSUME LInv, [Next]_vars PROVE LInv'
  OBVIOUS
<1>0. TypeOK /\ TypeOK'
  BY TypeStep DEF LInv
<1> USE DEF Goto, hostVars, kernelVars, Holding
<1>1. CASE PinSucceeds
  <2>1. pc = "pin" /\ pc' = "addr_hi" /\ UNCHANGED <<xfer, buf, leaked>>
    BY <1>1 DEF PinSucceeds
  <2>2. live' = {xfer} /\ page'[xfer] = buf /\ iocb'.pages = xfer
    BY <1>0, <1>1 DEF PinSucceeds, WrittenBack, LInv, PinUndone, TypeOK
  <2>3. HoldsAtMost(leaked) /\ ref[buf] <= 0
    BY <2>1 DEF LInv, PinUndone, Unpinned
  <2>4. HoldsAtMost(leaked \cup {buf})'
    BY <1>0, <1>1, <2>1, <2>3 DEF PinSucceeds, HoldsAtMost, TypeOK
  <2> QED
    BY <1>0, <2>1, <2>2, <2>4 DEF LInv, PinDone
<1>2. CASE Free
  <2>1. pc = "free" /\ pc' \in {"alloc", "exited"}
        /\ UNCHANGED <<buf, leaked>> /\ live' = live \ {iocb.pages}
    BY <1>2 DEF Free
  <2>2. CASE PinDone
    <3>1. iocb.pages \in live /\ iocb.pages # Null /\ page[iocb.pages] = buf
      BY <1>0, <2>2 DEF PinDone, TypeOK, Transfer, Null
    <3>2. ref' = [ref EXCEPT ![buf] = @ - 1]
      BY <1>2, <3>1 DEF Free, PutPages
    <3>3. HoldsAtMost(leaked)' /\ ref'[buf] <= 0
      BY <1>0, <2>1, <2>2, <3>2 DEF PinDone, HoldsAtMost, TypeOK
    <3> QED
      BY <1>0, <2>1, <2>2, <3>3 DEF LInv, PinDone, PinUndone, Unpinned
  <2>3. CASE PinUndone /\ Unpinned
    <3>1. \A a \in Address : ref'[a] <= ref[a]
      BY <1>0, <1>2 DEF Free, PutPages, TypeOK
    <3>2. \A a \in Address : ref'[a] \in Int /\ ref[a] \in Int
      BY <1>0 DEF TypeOK
    <3>3. HoldsAtMost(leaked)'
      BY <2>1, <2>3, <3>1, <3>2 DEF PinUndone, HoldsAtMost
    <3>4. Unpinned'
      BY <1>0, <2>1, <2>3, <3>1, <3>2 DEF Unpinned, TypeOK
    <3> QED
      BY <1>0, <2>1, <2>3, <3>3, <3>4 DEF LInv, PinUndone
  <2> QED
    BY <2>1, <2>2, <2>3 DEF LInv
<1>3. CASE Alloc
  <2>1. pc = "alloc" /\ pc' = "pin" /\ UNCHANGED kernelVars
        /\ buf' \in {a \in Page \ {buf} : ref[a] = 0} \cup ({buf} \ {Zero})
    BY <1>3 DEF Alloc
  <2>2. buf' # Zero /\ ref[buf'] <= 0
    BY <1>0, <2>1, PageNotZero DEF LInv, Unpinned, TypeOK
  <2> QED
    BY <1>0, <2>1, <2>2 DEF LInv, PinUndone, HoldsAtMost, Unpinned
<1>4. CASE Rerun
  <2>1. pc' = "open" /\ buf' = Zero /\ pc \in {"exited", "killed"}
        /\ UNCHANGED kernelVars
    BY <1>4 DEF Rerun
  <2> QED
    BY <1>0, <2>1 DEF LInv, PinUndone, HoldsAtMost, Unpinned
<1>5. CASE Die
  <2>1. pc' = "killed" /\ live' = {} /\ UNCHANGED <<page, ref>>
        /\ leaked' = leaked \cup {page[k] : k \in live}
    BY <1>5 DEF Die
  <2>2. pc \in Holding \/ pc \in {"open", "alloc", "pin"}
    BY <1>0, <1>5 DEF TypeOK, Steps, Die
  <2>3. CASE PinDone
    BY <1>0, <2>1, <2>3 DEF LInv, PinDone, PinUndone, HoldsAtMost
  <2>4. CASE PinUndone
    BY <1>0, <2>1, <2>4 DEF LInv, PinUndone, HoldsAtMost
  <2> QED
    BY <2>2, <2>3, <2>4 DEF LInv
<1>6. CASE Open \/ OutOfMemory \/ PinFails
  <2>1. pc \in {"open", "alloc", "pin"} /\ UNCHANGED <<hostVars, kernelVars>>
        /\ pc' \in {"alloc", "exited", "addr_hi"}
    BY <1>6 DEF Open, OutOfMemory, PinFails
  <2>2. PinUndone' /\ Unpinned'
    BY <2>1 DEF LInv, PinUndone, HoldsAtMost, Unpinned
  <2> QED
    BY <1>0, <2>1, <2>2 DEF LInv
<1>7. CASE WriteParameter \/ WriteEnable \/ Poll \/ StopPolling \/ Engine
           \/ UNCHANGED vars
  <2>1. UNCHANGED <<xfer, buf, iocb, kernelVars>>
    BY <1>7 DEF WriteParameter, WriteEnable, WriteRegister, Poll, StopPolling,
       Engine, EpStart, EpFinish, vars
  <2>2. (pc \in Holding /\ pc' \in Holding) \/ pc' = pc
    BY <1>7 DEF WriteParameter, WriteEnable, WriteRegister, Poll, StopPolling,
       Engine, EpStart, EpFinish, vars
  <2> QED
    BY <1>0, <2>1, <2>2 DEF LInv, PinDone, PinUndone, HoldsAtMost, Unpinned
<1> QED
  BY <1>1, <1>2, <1>3, <1>4, <1>5, <1>6, <1>7 DEF Next, Host

(* In every environment, the program leaves no reference and no page array *)
(* of its own behind when it ends.                                         *)
THEOREM NeverLeaks == Spec => []NothingLeaksAtExit
<1>1. Init => LInv
  <2> SUFFICES ASSUME Init PROVE LInv
    OBVIOUS
  <2>1. TypeOK
    BY TypeInit
  <2> QED
    BY <2>1 DEF Init, LInv, Holding, PinUndone, HoldsAtMost, Unpinned
<1>2. LInv /\ [Next]_vars => LInv'
  BY LeakStep
<1>3. LInv => NothingLeaksAtExit
  BY DEF LInv, PinUndone, HoldsAtMost, NothingLeaksAtExit
<1> QED
  BY <1>1, <1>2, <1>3, PTL DEF Spec
=============================================================================
