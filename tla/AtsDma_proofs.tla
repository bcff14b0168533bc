---------------------------- MODULE AtsDma_proofs ----------------------------
(***************************************************************************)
(* The engine of the ATS testcase only makes DMAs to translations that     *)
(* QEMU has passed down, and to the right page as long as the guest keeps  *)
(* its mapping, for any number of pages and of starts.                     *)
(*                                                                         *)
(* IInv says, besides, what the guest's waiting means for the engine       *)
(* (Handshake), that there is at most one request per start (Counted), and *)
(* what the engine's copies are at each of its steps (Copies, Known).      *)
(***************************************************************************)
EXTENDS AtsDma, TLAPS

Handshake ==
  /\ guest = "idle" => enable = 0 /\ pc = "wait"
  /\ guest = "waiting" /\ done = 1 => enable = 0 /\ pc = "wait"
  /\ pc # "wait" => enable = 1
  /\ enable = 1 => uaddr = Iova

(* A start that the engine has not requested a translation for. *)
Unasked == (pc = "wait" /\ enable = 1) \/ pc = "request"

Counted ==
  /\ asked + (IF Unasked THEN 1 ELSE 0) <= triggers
  /\ triggers = 0 => guest = "idle" /\ answers = <<>> /\ ats_xaddr = None

Copies ==
  /\ pc # "wait" => entry.uaddr = uaddr
  /\ pc \in {"request", "completion", "xaddr"} => phys_addr = None
  /\ pc \in {"dma", "finish"} => /\ phys_addr \in Page
                                 /\ [uaddr |-> uaddr, xaddr |-> phys_addr] \in atpt
  /\ entry.uaddr # None => \E e \in atpt : e.uaddr = entry.uaddr
  /\ pc = "finish" => dma.addr = phys_addr

(* Has the mapping been the same since the first start? *)
Kept == ~ remaps \/ triggers = 0 \/ (triggers = 1 /\ guest = "waiting")

Known ==
  /\ Kept => /\ \A n \in 1 .. Len(answers) : answers[n] = mapping
             /\ ats_xaddr \in {None, mapping}
             /\ pc = "dma" => phys_addr = mapping
  /\ ~ remaps \/ triggers <= 1 => dma.addr = dma.mapped

IInv == TypeOK /\ Handshake /\ Counted /\ Copies /\ Known

-----------------------------------------------------------------------------
LEMMA InvInit == Init => IInv
BY AddressAssumption
   DEF Init, IInv, TypeOK, Handshake, Counted, Unasked, Copies, Known

LEMMA InvStep == IInv /\ [Next]_vars => IInv'
<1> SUFFICES ASSUME IInv, [Next]_vars PROVE IInv'
  OBVIOUS
<1> USE DEF Goto, engineVars, guestVars
<1>0. TypeOK /\ Handshake /\ Counted /\ Copies /\ Known /\ None \notin Page
      /\ MaxTriggers \in Nat
  BY AddressAssumption DEF IInv
<1>1. CASE Trigger
  <2>1. TypeOK' /\ Handshake'
    BY <1>0, <1>1 DEF Trigger, TypeOK, Handshake
  <2>2. Counted'
    BY <1>0, <1>1 DEF Trigger, TypeOK, Handshake, Counted, Unasked
  <2>3. Copies' /\ Known'
    BY <1>0, <1>1 DEF Trigger, TypeOK, Handshake, Counted, Copies, Known, Kept
  <2> QED
    BY <2>1, <2>2, <2>3 DEF IInv
<1>2. CASE SeeDone
  <2>1. TypeOK' /\ Handshake'
    BY <1>0, <1>2 DEF SeeDone, TypeOK, Handshake
  <2>2. Counted' /\ Copies'
    BY <1>0, <1>2 DEF SeeDone, TypeOK, Counted, Unasked, Copies
  <2>3. Known'
    BY <1>0, <1>2 DEF SeeDone, TypeOK, Handshake, Counted, Known, Kept
  <2> QED
    BY <2>1, <2>2, <2>3 DEF IInv
<1>3. CASE Translate
  <2>1. TypeOK'
    BY <1>0, <1>3 DEF Translate, TypeOK
  <2>2. Handshake' /\ Copies'
    BY <1>0, <1>3 DEF Translate, Handshake, Copies
  <2>3. Counted'
    BY <1>0, <1>3 DEF Translate, TypeOK, Handshake, Counted, Unasked
  <2>4. Known'
    <3>1. Len(answers') = Len(answers) + 1 /\ Len(answers) \in Nat
          /\ \A n \in 1 .. Len(answers') :
               answers'[n] = IF n = Len(answers) + 1 THEN mapping ELSE answers[n]
      BY <1>0, <1>3 DEF Translate, TypeOK
    <3>2. UNCHANGED <<remaps, triggers, guest, mapping, ats_xaddr, pc, phys_addr, dma>>
      BY <1>3 DEF Translate
    <3>3. Kept' => Kept
      BY <3>2 DEF Kept
    <3>4. Kept => \A n \in 1 .. Len(answers') : answers'[n] = mapping
      BY <1>0, <3>1 DEF Known
    <3> QED
      BY <1>0, <3>2, <3>3, <3>4 DEF Known
  <2> QED
    BY <2>1, <2>2, <2>3, <2>4 DEF IInv
<1>4. CASE AnswerArrives
  <2>1. answers # <<>> /\ Len(answers) >= 1 /\ Head(answers) = answers[1]
        /\ Len(answers') = Len(answers) - 1 /\ Len(answers) \in Nat
        /\ \A n \in 1 .. Len(answers') : answers'[n] = answers[n + 1]
    BY <1>0, <1>4 DEF AnswerArrives, TypeOK
  <2>2. TypeOK'
    BY <1>0, <1>4 DEF AnswerArrives, TypeOK
  <2>3. Handshake' /\ Copies'
    BY <1>0, <1>4 DEF AnswerArrives, Handshake, Copies
  <2>4. Counted'
    BY <1>0, <1>4, <2>1 DEF AnswerArrives, Counted, Unasked
  <2>5. Known'
    <3>1. UNCHANGED <<remaps, triggers, guest, mapping, pc, phys_addr, dma>>
          /\ ats_xaddr' = answers[1]
      BY <1>4, <2>1 DEF AnswerArrives
    <3>2. Kept' => Kept
      BY <3>1 DEF Kept
    <3>3. Kept => answers[1] = mapping
                  /\ \A n \in 1 .. Len(answers') : answers'[n] = mapping
      BY <1>0, <2>1 DEF Known
    <3> QED
      BY <1>0, <3>1, <3>2, <3>3 DEF Known
  <2> QED
    BY <2>2, <2>3, <2>4, <2>5 DEF IInv
<1>5. CASE Begin
  <2>1. TypeOK'
    <3>1. uaddr = Iova
      BY <1>0, <1>5 DEF Begin, Handshake
    <3> QED
      BY <1>0, <1>5, <3>1 DEF Begin, TypeOK, FreshLocal
  <2>2. Handshake'
    BY <1>0, <1>5 DEF Begin, Handshake
  <2>3. Counted'
    BY <1>0, <1>5 DEF Begin, Counted, Unasked
  <2>4. Copies'
    BY <1>0, <1>5 DEF Begin, Copies, FreshLocal
  <2>5. Known'
    BY <1>0, <1>5 DEF Begin, Known, Kept
  <2> QED
    BY <2>1, <2>2, <2>3, <2>4, <2>5 DEF IInv
<1>6. CASE Request
  <2>1. TypeOK'
    <3>1. asked + 1 <= triggers
      BY <1>0, <1>6 DEF Request, Counted, Unasked
    <3> QED
      BY <1>0, <1>6, <3>1 DEF Request, TypeOK
  <2>2. Handshake' /\ Copies' /\ Known'
    BY <1>0, <1>6 DEF Request, Handshake, Copies, Known, Kept
  <2>3. Counted'
    BY <1>0, <1>6 DEF Request, TypeOK, Counted, Unasked
  <2> QED
    BY <2>1, <2>2, <2>3 DEF IInv
<1>7. CASE Completion \/ NoAnswer
  <2>1. TypeOK' /\ Handshake'
    BY <1>0, <1>7 DEF Completion, NoAnswer, TypeOK, Handshake
  <2>2. Counted' /\ Copies' /\ Known'
    BY <1>0, <1>7 DEF Completion, NoAnswer, Counted, Unasked, Copies, Known, Kept
  <2> QED
    BY <2>1, <2>2 DEF IInv
<1>8. CASE TakeXaddr
  <2>1. pc = "xaddr" /\ pc' = "dma" /\ phys_addr' = ats_xaddr /\ ats_xaddr \in Page
        /\ uaddr = Iova
    BY <1>0, <1>8 DEF TakeXaddr, XaddrKnown, TypeOK, Copies, Handshake
  <2>2. entry' = [uaddr |-> Iova, xaddr |-> ats_xaddr]
    BY <1>0, <1>8, <2>1 DEF TakeXaddr, Copies, TypeOK
  <2>3. /\ entry' \in atpt'
        /\ atpt' \in SUBSET [uaddr : {Iova}, xaddr : Page \cup {Provisional}]
    <3>1. \A T \in AfterRemoval : T \subseteq atpt
      BY DEF AfterRemoval
    <3> QED
      BY <1>0, <1>8, <2>1, <2>2, <3>1 DEF TakeXaddr, Readded, TypeOK
  <2>4. UNCHANGED <<enable, uaddr, ats_xaddr, asked, answers, done, guestVars, dma>>
    BY <1>8 DEF TakeXaddr
  <2>5. TypeOK'
    BY <1>0, <2>1, <2>2, <2>3, <2>4 DEF TypeOK
  <2>6. Handshake' /\ Counted' /\ Copies'
    BY <1>0, <2>1, <2>2, <2>3, <2>4 DEF Handshake, Counted, Unasked, Copies
  <2>7. Known'
    BY <1>0, <2>1, <2>4 DEF Known, Kept
  <2> QED
    BY <2>5, <2>6, <2>7 DEF IInv
<1>9. CASE PostDma
  <2>1. phys_addr \in Page
    BY <1>0, <1>9 DEF PostDma, Copies
  <2>2. TypeOK'
    BY <1>0, <1>9, <2>1 DEF PostDma, TypeOK
  <2>3. Handshake' /\ Counted' /\ Copies'
    BY <1>0, <1>9 DEF PostDma, Handshake, Counted, Unasked, Copies
  <2>4. Known'
    <3>1. ~ remaps \/ triggers <= 1 => Kept
      BY <1>0, <1>9 DEF PostDma, TypeOK, Handshake, Kept
    <3> QED
      BY <1>0, <1>9, <3>1 DEF PostDma, Known, Kept
  <2> QED
    BY <2>2, <2>3, <2>4 DEF IInv
<1>10. CASE Finish
  <2>1. TypeOK' /\ Handshake'
    BY <1>0, <1>10 DEF Finish, TypeOK, Handshake
  <2>2. Counted' /\ Copies' /\ Known'
    BY <1>0, <1>10 DEF Finish, Counted, Unasked, Copies, Known, Kept
  <2> QED
    BY <2>1, <2>2 DEF IInv
<1>11. CASE UNCHANGED vars
  BY <1>0, <1>11
     DEF vars, IInv, TypeOK, Handshake, Counted, Unasked, Copies, Known, Kept
<1> QED
  BY <1>1, <1>2, <1>3, <1>4, <1>5, <1>6, <1>7, <1>8, <1>9, <1>10, <1>11
     DEF Next, Engine

(* The strengthened invariant always holds. *)
THEOREM Invariance == Spec => []IInv
BY InvInit, InvStep, PTL DEF Spec

(* The variables keep their types; at most one request is under way for    *)
(* each start of the engine.                                               *)
THEOREM TypeCorrect == Spec => []TypeOK
BY Invariance, PTL DEF IInv

(* A DMA is only made to an address that QEMU has passed down, and the     *)
(* translation table then has the entry it uses, whether or not the RC     *)
(* could remove the old one.                                               *)
THEOREM OnlyTranslated == Spec => []DmaIsTranslated
<1>1. IInv => DmaIsTranslated
  BY DEF IInv, Copies, DmaIsTranslated
<1> QED
  BY <1>1, Invariance, PTL

(* The RC can always answer the engine's request from its table, also when *)
(* the engine did not add an entry for it.                                 *)
THEOREM AlwaysAnswerable == Spec => []RequestAnswerable
<1>1. IInv => RequestAnswerable
  BY AddressAssumption DEF IInv, TypeOK, Handshake, Copies, RequestAnswerable
<1> QED
  BY <1>1, Invariance, PTL

(* The DMA hits the guest's buffer whenever the guest keeps its mapping,   *)
(* and the first time in any case.                                         *)
THEOREM HitsKnownBuffer == Spec => []DmaHitsKnownBuffer
<1>1. IInv => DmaHitsKnownBuffer
  BY DEF IInv, TypeOK, Known, DmaHitsKnownBuffer, DmaHitsBuffer
<1> QED
  BY <1>1, Invariance, PTL
=============================================================================
