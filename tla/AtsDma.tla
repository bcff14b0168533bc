------------------------------- MODULE AtsDma -------------------------------
(***************************************************************************)
(* The DMA engine of the ATS testcase (aqcxl/testsuite/apcit_qemu_ats.sv,  *)
(* ep_dma_blk), the callback that starts it, the root complex's address    *)
(* translation table and the guest behind QEMU.                            *)
(*                                                                         *)
(* A guest write to BAR offset 0 starts the engine.  It adds a provisional *)
(* table entry for the buffer's untranslated address, sends an ATS request *)
(* (which the RC callback forwards to QEMU as well as letting the RC       *)
(* answer it), waits until the translation QEMU passes down is there,      *)
(* re-adds the entry with it, writes to the translated address and sets    *)
(* done.  QEMU's answer arrives through the command loop of the test body  *)
(* (qemu_wait_sc_cmd), a process of its own, which stores it in ats_xaddr. *)
(***************************************************************************)
EXTENDS Integers, Sequences

CONSTANTS
  Page,        \* host pages a buffer may be translated to
  Iova,        \* the untranslated address: 'h10000000
  Provisional, \* the translation first assumed: Iova + len
  None,        \* an address variable that still is 0
  MaxTriggers  \* bound: how often the guest starts the engine

ASSUME AddressAssumption ==
  /\ None \notin Page \cup {Iova, Provisional}
  /\ Iova # Provisional
  /\ Iova \notin Page /\ Provisional \notin Page
  /\ MaxTriggers \in Nat

VARIABLES
  pc,         \* the engine's step
  enable,     \* dma_cb.enable
  uaddr,      \* dma_cb.host_address
  entry,      \* atpt_entry: the engine's copy of its table entry
  atpt,       \* the RC's address translation table
  phys_addr,  \* the engine's local variable
  ats_xaddr,  \* the package variable with QEMU's last answer
  asked,      \* ATSREQ commands that QEMU has not handled yet
  answers,    \* QEMU's answers on their way down
  done,       \* the dword at BAR offset 'h14
  remaps,     \* does the guest map the buffer anew between two DMAs?
  guest,      \* "idle" or "waiting" for done
  mapping,    \* the page the guest's IOMMU maps Iova to
  triggers,   \* how often the guest has started the engine
  dma         \* the last DMA: where it went, and the mapping at that time

engineVars == <<pc, entry, atpt, phys_addr>>
guestVars  == <<remaps, guest, mapping, triggers>>
vars == <<engineVars, enable, uaddr, ats_xaddr, asked, answers, done, guestVars, dma>>

TypeOK ==
  /\ pc \in {"wait", "request", "completion", "xaddr", "dma", "finish", "ended"}
  /\ enable \in 0 .. 1
  /\ uaddr \in {None, Iova}
  /\ entry \in [uaddr : {None, Iova}, xaddr : Page \cup {None, Provisional}]
  /\ atpt \in SUBSET [uaddr : {Iova}, xaddr : Page \cup {Provisional}]
  /\ phys_addr \in Page \cup {None}
  /\ ats_xaddr \in Page \cup {None}
  /\ asked \in 0 .. MaxTriggers
  /\ answers \in Seq(Page)
  /\ done \in 0 .. 1
  /\ remaps \in BOOLEAN
  /\ guest \in {"idle", "waiting"}
  /\ mapping \in Page
  /\ triggers \in 0 .. MaxTriggers
  /\ dma \in [addr : Page \cup {None}, mapped : Page \cup {None}]

Init ==
  /\ pc = "wait"
  /\ enable = 0
  /\ uaddr = None
  /\ entry = [uaddr |-> None, xaddr |-> None]
  /\ atpt = {}
  /\ phys_addr = None
  /\ ats_xaddr = None
  /\ asked = 0
  /\ answers = <<>>
  /\ done = 0
  /\ remaps \in BOOLEAN
  /\ guest = "idle"
  /\ mapping \in Page
  /\ triggers = 0
  /\ dma = [addr |-> None, mapped |-> None]

Goto(from, to) == pc = from /\ pc' = to

-----------------------------------------------------------------------------
(* The guest (external): it clears done, writes offset 0, and does not     *)
(* touch the buffer or start again until it has read done as 1.            *)

Trigger ==
  /\ guest = "idle"
  /\ triggers < MaxTriggers
  /\ triggers' = triggers + 1
  /\ guest' = "waiting"
  /\ done' = 0
  /\ enable' = 1
  /\ uaddr' = Iova
  /\ UNCHANGED <<engineVars, ats_xaddr, asked, answers, remaps, mapping, dma>>

SeeDone ==
  /\ guest = "waiting"
  /\ done = 1
  /\ guest' = "idle"
  /\ mapping' \in IF remaps THEN Page ELSE {mapping}
  /\ UNCHANGED <<engineVars, enable, uaddr, ats_xaddr, asked, answers, done,
                 remaps, triggers, dma>>

(* QEMU translates with the mapping it finds when it handles the command. *)
Translate ==
  /\ asked > 0
  /\ asked' = asked - 1
  /\ answers' = Append(answers, mapping)
  /\ UNCHANGED <<engineVars, enable, uaddr, ats_xaddr, done, guestVars, dma>>

(* The command loop of the test body stores the answer. *)
AnswerArrives ==
  /\ answers # <<>>
  /\ ats_xaddr' = Head(answers)
  /\ answers' = Tail(answers)
  /\ UNCHANGED <<engineVars, enable, uaddr, asked, done, guestVars, dma>>

-----------------------------------------------------------------------------
(* The engine                                                              *)

(* Fault: phys_addr has static lifetime and keeps the last translation. *)
StaticLocal == phys_addr

(* Declared in the loop body of a class method: automatic, so 0 each time. *)
FreshLocal == None

Begin ==
  /\ Goto("wait", "request")
  /\ enable = 1
  /\ phys_addr' = FreshLocal
  /\ IF entry.uaddr # uaddr
       THEN /\ entry' = [uaddr |-> uaddr, xaddr |-> Provisional]
            /\ atpt' = atpt \cup {entry'}
       ELSE UNCHANGED <<entry, atpt>>
  /\ UNCHANGED <<enable, uaddr, ats_xaddr, asked, answers, done, guestVars, dma>>

(* The request is posted; the RC callback sends ATSREQ to QEMU. *)
Request ==
  /\ Goto("request", "completion")
  /\ asked' = asked + 1
  /\ UNCHANGED <<entry, atpt, phys_addr, enable, uaddr, ats_xaddr, answers, done,
                 guestVars, dma>>

(* The RC answers the request from its table (external). *)
Completion ==
  /\ Goto("completion", "xaddr")
  /\ \E e \in atpt : e.uaddr = uaddr
  /\ UNCHANGED <<entry, atpt, phys_addr, enable, uaddr, ats_xaddr, asked, answers,
                 done, guestVars, dma>>

(* No answer within 1e9.  wait_done is the bus model's (external): it may   *)
(* report that and return, or end the test.                                *)
NoAnswer ==
  /\ pc = "completion"
  /\ pc' \in {"xaddr", "ended"}
  /\ UNCHANGED <<entry, atpt, phys_addr, enable, uaddr, ats_xaddr, asked, answers,
                 done, guestVars, dma>>

(* Fault: the engine does not wait for a translation. *)
NoWait == TRUE

XaddrKnown == phys_addr # ats_xaddr

(***************************************************************************)
(* ats_remove_atpt_entry (external): the entry was added with bdf 0 and    *)
(* length num_dwords and is removed with 'h100.  Whether that finds it     *)
(* depends on what 'h100 means, and is left open.                          *)
(***************************************************************************)
AfterRemoval == {atpt, {f \in atpt : f.uaddr # uaddr}}

(* Fault: the entry is added again before its xaddr is replaced. *)
AddedTooEarly(old, new) == {T \cup {old} : T \in AfterRemoval}

Readded(old, new) == {T \cup {new} : T \in AfterRemoval}

TakeXaddr ==
  /\ Goto("xaddr", "dma")
  /\ XaddrKnown
  /\ phys_addr' = ats_xaddr
  /\ entry' = [entry EXCEPT !.xaddr = ats_xaddr]
  /\ atpt' \in Readded(entry, entry')
  /\ UNCHANGED <<enable, uaddr, ats_xaddr, asked, answers, done, guestVars, dma>>

PostDma ==
  /\ Goto("dma", "finish")
  /\ dma' = [addr |-> phys_addr, mapped |-> mapping]
  /\ UNCHANGED <<entry, atpt, phys_addr, enable, uaddr, ats_xaddr, asked, answers,
                 done, guestVars>>

Finish ==
  /\ Goto("finish", "wait")
  /\ enable' = 0
  /\ done' = 1
  /\ UNCHANGED <<entry, atpt, phys_addr, uaddr, ats_xaddr, asked, answers, guestVars,
                 dma>>

Engine ==
  Begin \/ Request \/ Completion \/ NoAnswer \/ TakeXaddr \/ PostDma \/ Finish

Next == Trigger \/ SeeDone \/ Translate \/ AnswerArrives \/ Engine

(* The simulator runs every process that is able to run, and QEMU serves   *)
(* its commands; the guest need not start the engine.                      *)
Fairness ==
  /\ WF_vars(Engine)
  /\ WF_vars(Translate)
  /\ WF_vars(AnswerArrives)

Spec == Init /\ [][Next]_vars /\ Fairness

-----------------------------------------------------------------------------
(* Properties                                                              *)

(* Whenever the engine waits for the RC's answer the table has an entry    *)
(* for the address, although the engine only adds one when the address is  *)
(* another than last time (apcit_qemu_ats.sv:373-398, 406-408).            *)
RequestAnswerable == pc = "completion" => \E e \in atpt : e.uaddr = uaddr

(* The DMA goes to an address QEMU has passed down, never to the           *)
(* provisional one, and the table then has an entry for it, whether or not *)
(* the old one was removed (apcit_qemu_ats.sv:400-427).                    *)
DmaIsTranslated ==
  pc = "finish" =>
    dma.addr \in Page /\ [uaddr |-> uaddr, xaddr |-> dma.addr] \in atpt

(* The DMA goes to the page the buffer is mapped to when it is made        *)
(* (apcit_qemu_ats.sv:400-427).                                            *)
DmaHitsBuffer == dma.addr = dma.mapped

(* It does so every time when the guest keeps its mapping, and the first   *)
(* time when it does not: the engine then waits for QEMU's answer          *)
(* (apcit_qemu_ats.sv:400-403).                                            *)
DmaHitsKnownBuffer == triggers = 1 \/ ~ remaps => DmaHitsBuffer

(* Each start of the engine ends with done being set, unless the bus model *)
(* ends the test (apcit_qemu_ats.sv:365-440).                              *)
TriggerServed == guest = "waiting" ~> done = 1 \/ pc = "ended"
=============================================================================
