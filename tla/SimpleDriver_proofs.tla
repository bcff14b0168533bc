------------------------ MODULE SimpleDriver_proofs ------------------------
(***************************************************************************)
(* The ioctl handler keeps its ledgers of references and arrays, and       *)
(* implements PinLedger, for any number of callers, frames and arrays, any *)
(* page size and any buffers.                                              *)
(*                                                                         *)
(* The ledgers say nothing of what a handler that is half way through will *)
(* put or hand out.  IInv adds, for each step of the handler, which of its *)
(* local variables are set and that its array lists the first pages of the *)
(* caller's buffer (Local).                                                *)
(***************************************************************************)
EXTENDS SimpleDriver, FiniteSetTheorems, SequenceTheorems, TLAPS

Lists(a, c, n) == \A k \in 1 .. n : content[a][k] = Frame[c][k]

Local(c) ==
  /\ pc[c] \in {"user", "kzalloc"} => pages[c] = Null /\ pinned[c] = 0 /\ i[c] = 0
  /\ pc[c] \notin {"user", "kzalloc"} =>
       pages[c] # Null /\ i[c] <= pinned[c] /\ pinned[c] <= PagesNr(req[c])
  /\ pc[c] # "user" => iocb[c] = NoPin
  /\ pc[c] = "gup" => pinned[c] = 0
  /\ pc[c] = "copyout" => pinned[c] = PagesNr(req[c]) /\ i[c] = 0
  /\ pc[c] \in {"copyout", "rollback", "put"} => Lists(pages[c], c, pinned[c])
  /\ iocb[c] # NoPin => /\ iocb[c].pages # Null
                        /\ iocb[c].pinned = PagesNr(req[c])
                        /\ iocb[c].phys_addr = Frame[c][1]
                        /\ Lists(iocb[c].pages, c, PagesNr(req[c]))

IInv ==
  /\ TypeOK
  /\ \A c \in Caller : Local(c)
  /\ ArrayLedger
  /\ RefLedger

-----------------------------------------------------------------------------
(* Pages of a buffer                                                       *)

LEMMA Quotient ==
  ASSUME NEW a \in Nat, NEW d \in Nat \ {0}
  PROVE  /\ a \div d \in Nat
         /\ d * (a \div d) <= a
         /\ a < d * (a \div d) + d
OBVIOUS

LEMMA QuotientIs ==
  ASSUME NEW a \in Nat, NEW d \in Nat \ {0}, NEW q \in Nat,
         d * q <= a, a < d * q + d
  PROVE  a \div d = q
OBVIOUS

LEMMA PagesNrType ==
  ASSUME NEW r \in Request
  PROVE  /\ PagesNr(r) \in Nat
         /\ PagesNr(r) >= 1
         /\ \A c \in Caller : PagesNr(r) <= Len(Frame[c])
<1>1. PageSize \in Nat \ {0} /\ r.off \in 0 .. (PageSize - 1) /\ r.len \in Nat \ {0}
  BY RequestAssumption
<1>2. r.len + r.off + PageSize - 1 \in Nat /\ r.len + r.off + PageSize - 1 >= PageSize
  BY <1>1
<1>3. PagesNr(r) \in Nat
  BY <1>1, <1>2, Quotient DEF PagesNr
<1>4. r.len + r.off + PageSize - 1 < PageSize * PagesNr(r) + PageSize
  BY <1>1, <1>2, Quotient DEF PagesNr
<1>5. PagesNr(r) # 0
  BY <1>1, <1>2, <1>4
<1> QED
  BY <1>3, <1>5, RequestAssumption

(* The page of the first byte is the first page, and the pages of all the  *)
(* bytes are just those that are pinned.                                   *)
LEMMA BufferPages ==
  ASSUME NEW c \in Caller, NEW r \in Request
  PROVE  /\ FrameOfByte(c, r, 0) = Frame[c][1]
         /\ BufferFrames(c, r) = {Frame[c][k] : k \in 1 .. PagesNr(r)}
<1> DEFINE P == PageSize
           N == PagesNr(r)
<1>1. P \in Nat \ {0} /\ r.off \in 0 .. (P - 1) /\ r.len \in Nat \ {0}
  BY RequestAssumption
<1>2. N \in Nat /\ N >= 1
  BY PagesNrType
<1>3. P * N <= r.len + r.off + P - 1 /\ r.len + r.off + P - 1 < P * N + P
  <2>1. r.len + r.off + P - 1 \in Nat
    BY <1>1
  <2> QED
    BY <1>1, <2>1, Quotient DEF PagesNr
<1>4. r.off \div P = 0
  <2>1. P * 0 <= r.off /\ r.off < P * 0 + P
    BY <1>1
  <2> QED
    BY <1>1, <2>1, QuotientIs
<1>5. FrameOfByte(c, r, 0) = Frame[c][1]
  <2>1. r.off + 0 = r.off
    BY <1>1
  <2> QED
    BY <1>4, <2>1 DEF FrameOfByte
<1>6. ASSUME NEW j \in 0 .. r.len - 1
      PROVE  1 + (r.off + j) \div P \in 1 .. N
  <2> DEFINE q == (r.off + j) \div P
  <2>1. q \in Nat /\ P * q <= r.off + j
    <3>1. r.off + j \in Nat
      BY <1>1
    <3> QED
      BY <1>1, <3>1, Quotient
  <2>2. P * q < P * N
    BY <1>1, <1>2, <1>3, <2>1
  <2>3. q < N
    BY <1>1, <1>2, <2>1, <2>2
  <2> QED
    BY <1>2, <2>1, <2>3
<1>7. ASSUME NEW k \in 1 .. N
      PROVE  \E j \in 0 .. r.len - 1 : 1 + (r.off + j) \div P = k
  <2>1. CASE k = 1
    <3>1. 1 + (r.off + 0) \div P = k
      BY <1>1, <1>4, <2>1
    <3> QED
      BY <1>1, <3>1
  <2>2. CASE k > 1
    <3> DEFINE j == P * (k - 1) - r.off
    <3>1. P * (k - 1) >= P /\ P * (k - 1) \in Nat
      BY <1>1, <1>2, <2>2
    <3>2. P * (k - 1) <= P * N - P
      BY <1>1, <1>2, <2>2
    <3>3. j \in 0 .. r.len - 1
      BY <1>1, <1>2, <1>3, <3>1, <3>2
    <3>4. (r.off + j) \div P = k - 1
      <4>1. r.off + j = P * (k - 1)
        BY <1>1, <3>1
      <4>2. P * (k - 1) < P * (k - 1) + P
        BY <1>1, <3>1
      <4> QED
        BY <1>1, <1>2, <3>1, <4>1, <4>2, QuotientIs
    <3> QED
      BY <1>2, <2>2, <3>3, <3>4
  <2> QED
    BY <1>2, <2>1, <2>2
<1>8. BufferFrames(c, r) \subseteq {Frame[c][k] : k \in 1 .. N}
  BY <1>6 DEF BufferFrames, FrameOfByte
<1>9. {Frame[c][k] : k \in 1 .. N} \subseteq BufferFrames(c, r)
  BY <1>7 DEF BufferFrames, FrameOfByte
<1> QED
  BY <1>5, <1>8, <1>9

-----------------------------------------------------------------------------
(* Types                                                                   *)

(* A prefix of a sequence, and so of the caller's frames. *)
LEMMA SeqPrefix ==
  ASSUME NEW S, NEW s \in Seq(S), NEW n \in 0 .. Len(s)
  PROVE  /\ SubSeq(s, 1, n) \in Seq(S)
         /\ \A k \in 1 .. n : SubSeq(s, 1, n)[k] = s[k]
OBVIOUS

LEMMA Prefix ==
  ASSUME NEW c \in Caller, NEW n \in 0 .. Len(Frame[c])
  PROVE  /\ SubSeq(Frame[c], 1, n) \in Seq(Page)
         /\ \A k \in 1 .. n : SubSeq(Frame[c], 1, n)[k] = Frame[c][k]
BY SeqPrefix, FrameAssumption

LEMMA PutType ==
  ASSUME NEW r \in [Page -> Int], NEW p
  PROVE  [r EXCEPT ![p] = @ - 1] \in [Page -> Int]
<1>1. CASE p \in Page
  BY <1>1
<1>2. CASE p \notin Page
  <2>1. [r EXCEPT ![p] = @ - 1] = [q \in Page |-> r[q]]
    BY <1>2
  <2> QED
    BY <2>1
<1> QED
  BY <1>1, <1>2

LEMMA TypeStep == IInv /\ [Next]_vars => TypeOK'
<1> SUFFICES ASSUME IInv, [Next]_vars PROVE TypeOK'
  OBVIOUS
<1>0. TypeOK
  BY DEF IInv
<1> USE DEF TypeOK, Goto, Locals, Steps
<1>1. ASSUME NEW c \in Caller, NEW r \in Request, CallPin(c, r) PROVE TypeOK'
  BY <1>0, <1>1 DEF CallPin
<1>2. ASSUME NEW c \in Caller, CallFree(c) PROVE TypeOK'
  <2>1. iocb[c].pages \in Array \cup {Null} /\ iocb[c].pinned \in Nat
    BY <1>0
  <2>2. pages' \in [Caller -> Array \cup {Null}] /\ pinned' \in [Caller -> Nat]
        /\ i' \in [Caller -> Nat]
    BY <1>0, <1>2, <2>1 DEF CallFree
  <2>3. iocb' \in [Caller -> [pages : Array \cup {Null}, pinned : Nat,
                              phys_addr : Page \cup {Null}]]
    BY <1>0, <1>2 DEF CallFree, NoPin
  <2> QED
    BY <1>0, <1>2, <2>2, <2>3 DEF CallFree
<1>3. ASSUME NEW c \in Caller, KzallocFails(c) PROVE TypeOK'
  BY <1>0, <1>3 DEF KzallocFails
<1>4. ASSUME NEW c \in Caller, NEW a \in Array, Kzalloc(c, a) PROVE TypeOK'
  <2>1. <<>> \in Seq(Page)
    OBVIOUS
  <2> QED
    BY <1>0, <1>4, <2>1 DEF Kzalloc
<1>5. ASSUME NEW c \in Caller, NEW n \in 0 .. PagesNr(req[c]), GetUserPages(c, n)
      PROVE  TypeOK'
  <2>1. n \in Nat /\ n <= Len(Frame[c])
    BY <1>0, PagesNrType
  <2>2. SubSeq(Frame[c], 1, n) \in Seq(Page)
    BY <2>1, Prefix
  <2>3. content' \in [Array -> Seq(Page)]
    BY <1>0, <1>5, <2>2 DEF GetUserPages
  <2>4. ref' \in [Page -> Int]
    BY <1>0, <1>5 DEF GetUserPages
  <2> QED
    BY <1>0, <1>5, <2>1, <2>3, <2>4 DEF GetUserPages
<1>6. ASSUME NEW c \in Caller, CopyOut(c) PROVE TypeOK'
  <2>1. pages[c] # Null /\ content[pages[c]][1] = Frame[c][1]
    <3>1. PagesNr(req[c]) \in Nat /\ PagesNr(req[c]) >= 1
      BY <1>0, PagesNrType
    <3>2. pc[c] = "copyout" /\ Local(c)
      BY <1>6 DEF IInv, CopyOut
    <3> QED
      BY <1>0, <3>1, <3>2 DEF Local, Lists
  <2>2. Frame[c][1] \in Page
    <3>1. Frame[c] \in Seq(Page) /\ Len(Frame[c]) >= 1
      BY <1>0, PagesNrType, FrameAssumption
    <3> QED
      BY <3>1
  <2>3. iocb' \in [Caller -> [pages : Array \cup {Null}, pinned : Nat,
                              phys_addr : Page \cup {Null}]]
    BY <1>0, <1>6, <2>1, <2>2 DEF CopyOut, PhysAddr
  <2> QED
    BY <1>0, <1>6, <2>3 DEF CopyOut
<1>7. ASSUME NEW c \in Caller, PutPage(c) PROVE TypeOK'
  <2>1. ref' \in [Page -> Int]
    BY <1>0, <1>7, PutType DEF PutPage
  <2> QED
    BY <1>0, <1>7, <2>1 DEF PutPage
<1>8. ASSUME NEW c \in Caller, Kfree(c) PROVE TypeOK'
  BY <1>0, <1>8 DEF Kfree, Freed
<1>9. CASE UNCHANGED vars
  BY <1>0, <1>9 DEF vars
<1> QED
  BY <1>1, <1>2, <1>3, <1>4, <1>5, <1>6, <1>7, <1>8, <1>9 DEF Next, Handler

-----------------------------------------------------------------------------
(* Ledgers                                                                 *)

LEMMA Init_IInv == Init => IInv
<1> SUFFICES ASSUME Init PROVE IInv
  OBVIOUS
<1>1. TypeOK
  BY DEF Init, TypeOK, Steps, NoPin
<1>2. \A c \in Caller : pc[c] = "user" /\ iocb[c] = NoPin /\ pages[c] = Null
                        /\ pinned[c] = 0 /\ i[c] = 0
  BY DEF Init
<1>3. \A c \in Caller : Local(c)
  BY <1>2 DEF Local
<1>4. ArrayLedger
  BY <1>2 DEF Init, ArrayLedger, ArrayOf, NoPin
<1>5. RefLedger
  <2> SUFFICES ASSUME NEW p \in Page
               PROVE  ref[p] = Cardinality({c \in Caller : p \in HeldBy(c)})
    BY DEF RefLedger
  <2>1. {c \in Caller : p \in HeldBy(c)} = {}
    BY <1>2 DEF HeldBy, NoPin
  <2> QED
    BY <2>1, FS_EmptySet DEF Init
<1> QED
  BY <1>1, <1>3, <1>4, <1>5 DEF IInv

(* Whose array is whose. *)
LEMMA Owner ==
  ASSUME IInv, NEW c \in Caller
  PROVE  /\ pages[c] # Null => /\ pages[c] \in Array /\ pages[c] \in live
                               /\ iocb[c] = NoPin /\ ArrayOf(c) = pages[c]
         /\ pages[c] = Null => ArrayOf(c) = iocb[c].pages
         /\ iocb[c] # NoPin => pages[c] = Null /\ iocb[c].pages \in Array
         /\ ArrayOf(c) # Null => ArrayOf(c) \in live
         /\ \A d \in Caller \ {c} : ArrayOf(d) = ArrayOf(c) => ArrayOf(c) = Null
<1>1. TypeOK /\ Local(c) /\ ArrayLedger
  BY DEF IInv
<1>2. pages[c] # Null => pc[c] # "user"
  BY <1>1 DEF Local
<1>3. iocb[c].pages \in Array \cup {Null} /\ pages[c] \in Array \cup {Null}
  BY <1>1 DEF TypeOK
<1> QED
  BY <1>1, <1>2, <1>3 DEF Local, ArrayLedger, ArrayOf

(* What a step of one caller leaves alone of another. *)
Unmoved(d) ==
  /\ pc'[d] = pc[d] /\ req'[d] = req[d] /\ iocb'[d] = iocb[d]
  /\ pages'[d] = pages[d] /\ pinned'[d] = pinned[d] /\ i'[d] = i[d]
  /\ ArrayOf(d) # Null => content'[ArrayOf(d)] = content[ArrayOf(d)]

LEMMA UnmovedKeeps ==
  ASSUME IInv, NEW d \in Caller, Unmoved(d)
  PROVE  Local(d)' /\ HeldBy(d)' = HeldBy(d) /\ ArrayOf(d)' = ArrayOf(d)
<1>1. Local(d) /\ TypeOK
  BY DEF IInv
<1>2. ArrayOf(d)' = ArrayOf(d)
  BY DEF Unmoved, ArrayOf
<1>3. pages[d] # Null => content'[pages[d]] = content[pages[d]]
  BY DEF Unmoved, ArrayOf
<1>4. iocb[d] # NoPin => content'[iocb[d].pages] = content[iocb[d].pages]
                         /\ pages[d] = Null
  BY <1>1, Owner DEF Unmoved, Local
<1>5. Local(d)'
  BY <1>1, <1>3, <1>4 DEF Unmoved, Local, Lists
<1>6. HeldBy(d)' = HeldBy(d)
  <2>1. CASE pages[d] # Null
    BY <1>3, <2>1 DEF Unmoved, HeldBy
  <2>2. CASE pages[d] = Null /\ iocb[d] # NoPin
    BY <1>4, <2>2 DEF Unmoved, HeldBy
  <2>3. CASE pages[d] = Null /\ iocb[d] = NoPin
    BY <2>3 DEF Unmoved, HeldBy, NoPin
  <2> QED
    BY <2>1, <2>2, <2>3
<1> QED
  BY <1>2, <1>5, <1>6

One(b) == IF b THEN 1 ELSE 0

(* A step of c: the others unmoved, at most its own array allocated or     *)
(* freed, and the counts changed by what it holds more or less.            *)
Moves(c) ==
  /\ \A d \in Caller \ {c} : Unmoved(d)
  /\ Local(c)'
  /\ \/ ArrayOf(c)' = ArrayOf(c) /\ live' = live
     \/ ArrayOf(c) = Null /\ ArrayOf(c)' \in Array \ live /\ live' = live \cup {ArrayOf(c)'}
     \/ ArrayOf(c) # Null /\ ArrayOf(c)' = Null /\ live' = live \ {ArrayOf(c)}
  /\ \A p \in Page : ref'[p] = ref[p] + One(p \in HeldBy(c)') - One(p \in HeldBy(c))

LEMMA Settles ==
  ASSUME IInv, TypeOK', NEW c \in Caller, Moves(c)
  PROVE  IInv'
<1>1. \A d \in Caller \ {c} : Local(d)' /\ HeldBy(d)' = HeldBy(d)
                              /\ ArrayOf(d)' = ArrayOf(d)
  BY UnmovedKeeps DEF Moves
<1>2. \A d \in Caller : Local(d)'
  BY <1>1 DEF Moves
<1>3. ArrayLedger'
  <2>1. live = {ArrayOf(d) : d \in Caller} \ {Null}
        /\ \A d, e \in Caller : ArrayOf(d) = ArrayOf(e) /\ d # e => ArrayOf(d) = Null
    BY DEF IInv, ArrayLedger
  <2>2. CASE ArrayOf(c)' = ArrayOf(c) /\ live' = live
    <3>1. \A d \in Caller : ArrayOf(d)' = ArrayOf(d)
      BY <1>1, <2>2
    <3> QED
      BY <2>1, <2>2, <3>1 DEF ArrayLedger
  <2>3. CASE ArrayOf(c) = Null /\ ArrayOf(c)' \in Array \ live
             /\ live' = live \cup {ArrayOf(c)'}
    <3>1. ArrayOf(c)' # Null
      BY <2>3, NullAssumption
    <3>2. \A d \in Caller \ {c} : ArrayOf(d)' # ArrayOf(c)'
      BY <1>1, <2>1, <2>3, <3>1
    <3>3. live' = {ArrayOf(d)' : d \in Caller} \ {Null}
      BY <1>1, <2>1, <2>3, <3>1
    <3> QED
      BY <1>1, <2>1, <3>2, <3>3 DEF ArrayLedger
  <2>4. CASE ArrayOf(c) # Null /\ ArrayOf(c)' = Null /\ live' = live \ {ArrayOf(c)}
    <3>1. \A d \in Caller \ {c} : ArrayOf(d) # ArrayOf(c)
      BY <2>1, <2>4
    <3>2. live' = {ArrayOf(d)' : d \in Caller} \ {Null}
      BY <1>1, <2>1, <2>4, <3>1
    <3> QED
      BY <1>1, <2>1, <2>4, <3>2 DEF ArrayLedger
  <2> QED
    BY <2>2, <2>3, <2>4 DEF Moves
<1>4. RefLedger'
  <2> SUFFICES ASSUME NEW p \in Page
               PROVE  ref'[p] = Cardinality({d \in Caller : p \in HeldBy(d)'})
    BY DEF RefLedger
  <2> DEFINE H == {d \in Caller \ {c} : p \in HeldBy(d)}
  <2>1. Cardinality(H) \in Nat /\ Cardinality(H \cup {c}) = Cardinality(H) + 1
    <3>1. H \in SUBSET Caller /\ c \notin H
      OBVIOUS
    <3>2. IsFiniteSet(H)
      BY <3>1, CallerAssumption, FS_Subset
    <3> QED
      BY <3>1, <3>2, FS_AddElement, FS_CardinalityType
  <2>2. Cardinality({d \in Caller : p \in HeldBy(d)}) = Cardinality(H) + One(p \in HeldBy(c))
    <3>1. {d \in Caller : p \in HeldBy(d)} = IF p \in HeldBy(c) THEN H \cup {c} ELSE H
      OBVIOUS
    <3> QED
      BY <2>1, <3>1 DEF One
  <2>3. Cardinality({d \in Caller : p \in HeldBy(d)'}) = Cardinality(H) + One(p \in HeldBy(c)')
    <3>1. {d \in Caller : p \in HeldBy(d)'} = IF p \in HeldBy(c)' THEN H \cup {c} ELSE H
      BY <1>1
    <3> QED
      BY <2>1, <3>1 DEF One
  <2>4. ref[p] = Cardinality(H) + One(p \in HeldBy(c))
    BY <2>2 DEF IInv, RefLedger
  <2>5. ref'[p] = ref[p] + One(p \in HeldBy(c)') - One(p \in HeldBy(c))
    BY DEF Moves
  <2> QED
    BY <2>1, <2>3, <2>4, <2>5 DEF One
<1> QED
  BY <1>2, <1>3, <1>4 DEF IInv

(* Every step of a caller is such a move. *)
LEMMA StepMoves ==
  ASSUME IInv, NEW c \in Caller,
         \/ \E r \in Request : CallPin(c, r)
         \/ CallFree(c)
         \/ Handler(c)
  PROVE  Moves(c)
<1>1. TypeOK /\ Local(c)
  BY DEF IInv
<1>2. \A d \in Caller \ {c} :
        /\ ArrayOf(d) # Null => ArrayOf(d) \in live
        /\ ArrayOf(c) # Null => ArrayOf(d) # ArrayOf(c)
  BY Owner
<1> USE DEF Goto, Locals
<1>3. ASSUME NEW r \in Request, CallPin(c, r) PROVE Moves(c)
  <2>1. pages[c] = Null /\ iocb[c] = NoPin /\ pc[c] = "user"
    BY <1>1, <1>3 DEF CallPin, Local
  <2>2. \A d \in Caller \ {c} : Unmoved(d)
    BY <1>1, <1>3 DEF CallPin, TypeOK, Unmoved
  <2>3. Local(c)'
    BY <1>1, <1>3, <2>1 DEF CallPin, TypeOK, Local
  <2>4. HeldBy(c)' = HeldBy(c) /\ ArrayOf(c)' = ArrayOf(c)
    BY <1>3 DEF CallPin, HeldBy, ArrayOf
  <2> QED
    BY <1>1, <1>3, <2>2, <2>3, <2>4 DEF Moves, CallPin, One, TypeOK
<1>4. ASSUME KzallocFails(c) PROVE Moves(c)
  <2>1. \A d \in Caller \ {c} : Unmoved(d)
    BY <1>1, <1>4 DEF KzallocFails, TypeOK, Unmoved
  <2>2. Local(c)'
    BY <1>1, <1>4 DEF KzallocFails, TypeOK, Local
  <2>3. HeldBy(c)' = HeldBy(c) /\ ArrayOf(c)' = ArrayOf(c)
    BY <1>4 DEF KzallocFails, HeldBy, ArrayOf
  <2> QED
    BY <1>1, <1>4, <2>1, <2>2, <2>3 DEF Moves, KzallocFails, One, TypeOK
<1>5. ASSUME NEW a \in Array, Kzalloc(c, a) PROVE Moves(c)
  <2>1. pages[c] = Null /\ iocb[c] = NoPin /\ a # Null /\ a \notin live
    BY <1>1, <1>5, NullAssumption DEF Kzalloc, Local
  <2>2. pages'[c] = a /\ pinned'[c] = 0 /\ i'[c] = 0 /\ pc'[c] = "gup"
        /\ iocb'[c] = NoPin /\ req'[c] = req[c]
    BY <1>1, <1>5, <2>1 DEF Kzalloc, TypeOK
  <2>3. \A d \in Caller \ {c} : Unmoved(d)
    BY <1>1, <1>2, <1>5, <2>1 DEF Kzalloc, TypeOK, Unmoved
  <2>4. Local(c)'
    <3>1. PagesNr(req[c]) \in Nat
      BY <1>1, PagesNrType DEF TypeOK
    <3>2. PagesNr(req[c])' = PagesNr(req[c])
      BY <2>2 DEF PagesNr
    <3> QED
      BY <2>1, <2>2, <3>1, <3>2 DEF Local
  <2>5. HeldBy(c)' = {} /\ HeldBy(c) = {}
    BY <2>1, <2>2 DEF HeldBy, NoPin
  <2>6. ArrayOf(c) = Null /\ ArrayOf(c)' = a
    BY <2>1, <2>2 DEF ArrayOf, NoPin
  <2> QED
    BY <1>1, <1>5, <2>1, <2>3, <2>4, <2>5, <2>6 DEF Moves, Kzalloc, One, TypeOK
<1>6. ASSUME NEW n \in 0 .. PagesNr(req[c]), GetUserPages(c, n) PROVE Moves(c)
  <2> DEFINE a == pages[c]
  <2>1. a # Null /\ a \in Array /\ iocb[c] = NoPin /\ pinned[c] = 0
    BY <1>1, <1>6, Owner DEF GetUserPages, Local
  <2>2. n \in Nat /\ n <= PagesNr(req[c]) /\ n \in 0 .. Len(Frame[c])
    BY <1>1, PagesNrType DEF TypeOK
  <2>3. pages'[c] = a /\ pinned'[c] = n /\ i'[c] = 0 /\ iocb'[c] = NoPin
        /\ req'[c] = req[c] /\ pc'[c] \in {"copyout", "rollback"}
        /\ (pc'[c] = "copyout" => n = PagesNr(req[c]))
    BY <1>1, <1>6, <2>1 DEF GetUserPages, TypeOK, AllPinned
  <2>4. \A k \in 1 .. n : content'[a][k] = Frame[c][k]
    <3>1. content'[a] = SubSeq(Frame[c], 1, n)
      BY <1>1, <1>6, <2>1 DEF GetUserPages, TypeOK
    <3> QED
      BY <2>2, <3>1, Prefix
  <2>5. \A d \in Caller \ {c} : Unmoved(d)
    <3>1. ArrayOf(c) = a
      BY <2>1 DEF ArrayOf
    <3> QED
      BY <1>1, <1>2, <1>6, <2>1, <3>1 DEF GetUserPages, TypeOK, Unmoved
  <2>6. Local(c)'
    <3>1. PagesNr(req[c])' = PagesNr(req[c])
      BY <2>3 DEF PagesNr
    <3> QED
      BY <2>1, <2>2, <2>3, <2>4, <3>1 DEF Local, Lists
  <2>7. HeldBy(c) = {} /\ HeldBy(c)' = {Frame[c][k] : k \in 1 .. n}
    <3>1. HeldBy(c) = {}
      BY <1>1, <2>1 DEF HeldBy, TypeOK
    <3>2. HeldBy(c)' = {content'[a][k] : k \in 0 + 1 .. n}
      BY <2>1, <2>3 DEF HeldBy
    <3> QED
      BY <2>4, <3>1, <3>2
  <2>8. \A p \in Page : ref'[p] = ref[p] + One(p \in HeldBy(c)')
    BY <1>1, <1>6, <2>7 DEF GetUserPages, TypeOK, One
  <2>9. ArrayOf(c)' = ArrayOf(c) /\ live' = live
    BY <1>6, <2>1, <2>3 DEF ArrayOf, GetUserPages
  <2> QED
    BY <1>1, <2>5, <2>6, <2>7, <2>8, <2>9 DEF Moves, One, TypeOK
<1>7. ASSUME CopyOut(c) PROVE Moves(c)
  <2> DEFINE a == pages[c]
             N == PagesNr(req[c])
  <2>1. a # Null /\ iocb[c] = NoPin /\ pinned[c] = N /\ i[c] = 0
        /\ Lists(a, c, N) /\ N \in Nat /\ N >= 1
    BY <1>1, <1>7, PagesNrType DEF CopyOut, Local, TypeOK
  <2>2. pages'[c] = Null /\ pinned'[c] = 0 /\ i'[c] = 0 /\ pc'[c] = "user"
        /\ iocb'[c] = [pages |-> a, pinned |-> N, phys_addr |-> Frame[c][1]]
        /\ req'[c] = req[c] /\ content' = content
    BY <1>1, <1>7, <2>1 DEF CopyOut, TypeOK, PhysAddr, Lists
  <2>3. \A d \in Caller \ {c} : Unmoved(d)
    BY <1>1, <1>7 DEF CopyOut, TypeOK, Unmoved
  <2>4. Local(c)'
    <3>1. PagesNr(req[c])' = N
      BY <2>2 DEF PagesNr
    <3>2. \A k \in 1 .. N : content'[a][k] = Frame[c][k]
      BY <2>1, <2>2 DEF Lists
    <3> QED
      BY <2>1, <2>2, <3>1, <3>2 DEF Local, Lists
  <2>5. HeldBy(c)' = HeldBy(c) /\ ArrayOf(c)' = ArrayOf(c) /\ live' = live
    <3>1. HeldBy(c) = {content[a][k] : k \in 0 + 1 .. N}
      BY <2>1 DEF HeldBy
    <3>2. HeldBy(c)' = {content[a][k] : k \in 1 .. N}
      BY <2>2 DEF HeldBy
    <3>3. ArrayOf(c)' = ArrayOf(c)
      BY <2>1, <2>2 DEF ArrayOf
    <3> QED
      BY <1>7, <3>1, <3>2, <3>3 DEF CopyOut
  <2> QED
    BY <1>1, <1>7, <2>3, <2>4, <2>5 DEF Moves, CopyOut, One, TypeOK
<1>8. ASSUME CallFree(c) PROVE Moves(c)
  <2> DEFINE a == iocb[c].pages
             N == PagesNr(req[c])
  <2>1. a # Null /\ pages[c] = Null /\ iocb[c].pinned = N /\ Lists(a, c, N)
        /\ N \in Nat
    BY <1>1, <1>8, PagesNrType DEF CallFree, Local, TypeOK
  <2>2. pages'[c] = a /\ pinned'[c] = N /\ i'[c] = 0 /\ pc'[c] = "put"
        /\ iocb'[c] = NoPin /\ req'[c] = req[c] /\ content' = content
    BY <1>1, <1>8, <2>1 DEF CallFree, TypeOK
  <2>3. \A d \in Caller \ {c} : Unmoved(d)
    BY <1>1, <1>8 DEF CallFree, TypeOK, Unmoved
  <2>4. Local(c)'
    <3>1. PagesNr(req[c])' = N
      BY <2>2 DEF PagesNr
    <3>2. \A k \in 1 .. N : content'[a][k] = Frame[c][k]
      BY <2>1, <2>2 DEF Lists
    <3> QED
      BY <2>1, <2>2, <3>1, <3>2 DEF Local, Lists
  <2>5. HeldBy(c)' = HeldBy(c) /\ ArrayOf(c)' = ArrayOf(c) /\ live' = live
    <3>1. HeldBy(c) = {content[a][k] : k \in 1 .. N}
      BY <2>1 DEF HeldBy
    <3>2. HeldBy(c)' = {content[a][k] : k \in 0 + 1 .. N}
      BY <2>1, <2>2 DEF HeldBy
    <3>3. ArrayOf(c)' = ArrayOf(c)
      BY <2>1, <2>2 DEF ArrayOf
    <3> QED
      BY <1>8, <3>1, <3>2, <3>3 DEF CallFree
  <2> QED
    BY <1>1, <1>8, <2>3, <2>4, <2>5 DEF Moves, CallFree, One, TypeOK
<1>9. ASSUME PutPage(c) PROVE Moves(c)
  <2> DEFINE a == pages[c]
             k1 == i[c] + 1
  <2>1. a # Null /\ iocb[c] = NoPin /\ Lists(a, c, pinned[c]) /\ k1 <= pinned[c]
        /\ pinned[c] <= Len(Frame[c]) /\ k1 \in Nat /\ k1 >= 1 /\ pinned[c] \in Nat
    <3>1. pc[c] \in {"rollback", "put"} /\ ~ (i[c] >= pinned[c])
      BY <1>9 DEF PutPage, LoopDone
    <3>2. PagesNr(req[c]) \in Nat /\ PagesNr(req[c]) <= Len(Frame[c])
      BY <1>1, PagesNrType DEF TypeOK
    <3>3. Frame[c] \in Seq(Page) /\ Len(Frame[c]) \in Nat
      BY FrameAssumption
    <3> QED
      BY <1>1, <3>1, <3>2, <3>3 DEF Local, TypeOK
  <2>2. pages'[c] = a /\ pinned'[c] = pinned[c] /\ i'[c] = k1 /\ pc'[c] = pc[c]
        /\ iocb'[c] = NoPin /\ req'[c] = req[c] /\ content' = content
    BY <1>1, <1>9, <2>1 DEF PutPage, TypeOK
  <2>3. \A d \in Caller \ {c} : Unmoved(d)
    BY <1>1, <1>9 DEF PutPage, TypeOK, Unmoved
  <2>4. Local(c)'
    <3>1. PagesNr(req[c])' = PagesNr(req[c])
      BY <2>2 DEF PagesNr
    <3>2. \A k \in 1 .. pinned[c] : content'[a][k] = Frame[c][k]
      BY <2>1, <2>2 DEF Lists
    <3>3. pc[c] \in {"rollback", "put"}
      BY <1>9 DEF PutPage
    <3> QED
      BY <1>1, <2>1, <2>2, <3>1, <3>2, <3>3 DEF Local, Lists
  <2>5. HeldBy(c) = {Frame[c][k] : k \in k1 .. pinned[c]}
    <3>1. \A k \in k1 .. pinned[c] : content[a][k] = Frame[c][k]
      BY <2>1 DEF Lists
    <3>2. HeldBy(c) = {content[a][k] : k \in k1 .. pinned[c]}
      BY <2>1 DEF HeldBy
    <3> QED
      BY <3>1, <3>2
  <2>6. HeldBy(c)' = {Frame[c][k] : k \in k1 + 1 .. pinned[c]}
    <3>1. \A k \in k1 + 1 .. pinned[c] : content[a][k] = Frame[c][k]
      BY <2>1 DEF Lists
    <3>2. HeldBy(c)' = {content[a][k] : k \in k1 + 1 .. pinned[c]}
      BY <2>1, <2>2 DEF HeldBy
    <3> QED
      BY <3>1, <3>2
  <2>7. content[a][k1] = Frame[c][k1] /\ Frame[c][k1] \in HeldBy(c)
        /\ Frame[c][k1] \notin HeldBy(c)'
        /\ HeldBy(c)' \cup {Frame[c][k1]} = HeldBy(c)
    <3>1. \A k \in k1 + 1 .. pinned[c] : Frame[c][k] # Frame[c][k1]
      BY <2>1, FrameAssumption
    <3>2. content[a][k1] = Frame[c][k1]
      BY <2>1 DEF Lists
    <3>3. \A k : k \in k1 .. pinned[c] <=> k = k1 \/ k \in k1 + 1 .. pinned[c]
      BY <2>1
    <3> QED
      BY <2>5, <2>6, <3>1, <3>2, <3>3
  <2>8. \A p \in Page : ref'[p] = IF p = Frame[c][k1] THEN ref[p] - 1 ELSE ref[p]
    BY <1>1, <1>9, <2>7 DEF PutPage, TypeOK
  <2>9. \A p \in Page : ref'[p] = ref[p] + One(p \in HeldBy(c)') - One(p \in HeldBy(c))
    <3> SUFFICES ASSUME NEW p \in Page
                 PROVE  ref'[p] = ref[p] + One(p \in HeldBy(c)') - One(p \in HeldBy(c))
      OBVIOUS
    <3>1. ref[p] \in Int
      BY <1>1 DEF TypeOK
    <3>2. CASE p = Frame[c][k1]
      BY <2>7, <2>8, <3>1, <3>2 DEF One
    <3>3. CASE p # Frame[c][k1]
      <4>1. p \in HeldBy(c)' <=> p \in HeldBy(c)
        BY <2>7, <3>3
      <4> QED
        BY <2>8, <3>1, <3>3, <4>1 DEF One
    <3> QED
      BY <3>2, <3>3
  <2>10. ArrayOf(c)' = ArrayOf(c) /\ live' = live
    BY <1>9, <2>2 DEF ArrayOf, PutPage
  <2> QED
    BY <2>3, <2>4, <2>9, <2>10 DEF Moves
<1>10. ASSUME Kfree(c) PROVE Moves(c)
  <2>1. pages[c] # Null /\ iocb[c] = NoPin /\ i[c] >= pinned[c]
    BY <1>1, <1>10 DEF Kfree, Local, LoopDone
  <2>2. pages'[c] = Null /\ pinned'[c] = 0 /\ i'[c] = 0 /\ pc'[c] = "user"
        /\ iocb'[c] = NoPin /\ content' = content
    BY <1>1, <1>10, <2>1 DEF Kfree, TypeOK
  <2>3. \A d \in Caller \ {c} : Unmoved(d)
    BY <1>1, <1>10 DEF Kfree, TypeOK, Unmoved
  <2>4. Local(c)'
    BY <2>2 DEF Local
  <2>5. HeldBy(c)' = {} /\ HeldBy(c) = {}
    <3>1. i[c] + 1 .. pinned[c] = {}
      BY <1>1, <2>1 DEF TypeOK
    <3> QED
      BY <2>1, <2>2, <3>1 DEF HeldBy, NoPin
  <2>6. ArrayOf(c) = pages[c] /\ ArrayOf(c)' = Null
    BY <2>1, <2>2 DEF ArrayOf, NoPin
  <2> QED
    BY <1>1, <1>10, <2>1, <2>3, <2>4, <2>5, <2>6 DEF Moves, Kfree, Freed, One, TypeOK
<1> QED
  BY <1>3, <1>4, <1>5, <1>6, <1>7, <1>8, <1>9, <1>10 DEF Handler

LEMMA IInvStep == IInv /\ [Next]_vars => IInv'
<1> SUFFICES ASSUME IInv, [Next]_vars PROVE IInv'
  OBVIOUS
<1>1. TypeOK'
  BY TypeStep
<1>2. CASE Next
  <2>1. PICK c \in Caller :
          (\E r \in Request : CallPin(c, r)) \/ CallFree(c) \/ Handler(c)
    BY <1>2 DEF Next
  <2>2. Moves(c)
    BY <2>1, StepMoves
  <2> QED
    BY <1>1, <2>2, Settles
<1>3. CASE UNCHANGED vars
  <2>1. ArrayLedger' /\ RefLedger'
    BY <1>3 DEF vars, IInv, ArrayLedger, RefLedger, ArrayOf, HeldBy
  <2>2. \A c \in Caller : Local(c)'
    BY <1>3 DEF vars, IInv, Local, Lists, PagesNr
  <2> QED
    BY <1>1, <2>1, <2>2 DEF IInv
<1> QED
  BY <1>2, <1>3

(* A caller between PIN and FREE holds just the frames of its buffer. *)
LEMMA HoldsBuffer ==
  ASSUME IInv, NEW c \in Caller, iocb[c] # NoPin
  PROVE  HeldBy(c) = BufferFrames(c, req[c]) /\ HeldBy(c) # {}
<1>1. TypeOK /\ Local(c) /\ pages[c] = Null
  BY Owner DEF IInv
<1>2. HeldBy(c) = {content[iocb[c].pages][k] : k \in 1 .. PagesNr(req[c])}
  BY <1>1 DEF HeldBy, Local
<1>3. HeldBy(c) = {Frame[c][k] : k \in 1 .. PagesNr(req[c])}
  BY <1>1, <1>2 DEF Local, Lists
<1>4. 1 \in 1 .. PagesNr(req[c])
  BY <1>1, PagesNrType DEF TypeOK
<1> QED
  BY <1>1, <1>3, <1>4, BufferPages DEF TypeOK

AllHoldBuffers ==
  \A c \in Caller : iocb[c] # NoPin => HeldBy(c) = BufferFrames(c, req[c])

LEMMA HoldsBuffersNext == IInv' => AllHoldBuffers'
<1>1. IInv => AllHoldBuffers
  BY HoldsBuffer DEF AllHoldBuffers
<1> QED
  BY <1>1, PTL

LEMMA StaysPinned == IInv => BufferStaysPinned
<1> SUFFICES ASSUME IInv, NEW c \in Caller, iocb[c] # NoPin
             PROVE  /\ \A p \in BufferFrames(c, req[c]) : ref[p] >= 1
                    /\ iocb[c].phys_addr = FrameOfByte(c, req[c], 0)
  BY DEF BufferStaysPinned
<1>1. TypeOK /\ Local(c) /\ RefLedger
  BY DEF IInv
<1>2. ASSUME NEW p \in BufferFrames(c, req[c]) PROVE ref[p] >= 1
  <2> DEFINE H == {d \in Caller : p \in HeldBy(d)}
  <2>1. p \in Page
    <3>1. PICK k \in 1 .. PagesNr(req[c]) : p = Frame[c][k]
      BY <1>1, <1>2, BufferPages DEF TypeOK
    <3>2. Frame[c] \in Seq(Page) /\ PagesNr(req[c]) <= Len(Frame[c])
          /\ PagesNr(req[c]) \in Nat
      BY <1>1, FrameAssumption, PagesNrType DEF TypeOK
    <3> QED
      BY <3>1, <3>2
  <2>2. c \in H
    BY <1>2, HoldsBuffer
  <2>3. IsFiniteSet(H)
    <3>1. H \in SUBSET Caller
      OBVIOUS
    <3> QED
      BY <3>1, CallerAssumption, FS_Subset
  <2>4. Cardinality(H) \in Nat /\ Cardinality(H) # 0
    BY <2>2, <2>3, FS_CardinalityType, FS_EmptySet
  <2> QED
    BY <1>1, <2>1, <2>4 DEF RefLedger
<1>3. iocb[c].phys_addr = FrameOfByte(c, req[c], 0)
  BY <1>1, BufferPages DEF TypeOK, Local
<1> QED
  BY <1>2, <1>3

(* Seen from outside a caller's step is one of the ledger's, or none: only *)
(* the return of a PIN and the call of a FREE change what it holds.        *)
LEMMA LedgerStep ==
  ASSUME IInv, IInv', NEW c \in Caller, Moves(c),
         \/ \E r \in Request : CallPin(c, r)
         \/ CallFree(c)
         \/ Handler(c)
  PROVE  [Ledger!Next]_(Ledger!vars)
<1> DEFINE P(d) == IF iocb[d] = NoPin THEN {} ELSE HeldBy(d)
           W(d) == BufferFrames(d, req[d])
           L == Ledger!Ask(c) \/ Ledger!Pin(c) \/ Ledger!Unpin(c)
<1>1. \A d \in Caller \ {c} : iocb'[d] = iocb[d] /\ req'[d] = req[d]
                              /\ HeldBy(d)' = HeldBy(d)
  BY UnmovedKeeps DEF Moves, Unmoved
<1>2. \A d \in Caller \ {c} : W(d)' = W(d) /\ P(d)' = P(d)
  BY <1>1 DEF BufferFrames, FrameOfByte
<1>3. req'[c] = req[c] => W(c)' = W(c)
  BY DEF BufferFrames, FrameOfByte
<1>4. TypeOK /\ TypeOK'
  BY DEF IInv
<1>5. CASE \E r \in Request : CallPin(c, r)
  <2>1. P(c) = {} /\ P(c)' = {}
    BY <1>5 DEF CallPin
  <2>2. Ledger!Ask(c)
    BY <1>2, <2>1 DEF Ledger!Ask
  <2> QED
    BY <2>2 DEF Ledger!Next
<1>6. CASE CallFree(c)
  <2>1. P(c) # {}
    BY <1>6, HoldsBuffer DEF CallFree
  <2>2. P(c)' = {} /\ req' = req
    BY <1>4, <1>6 DEF CallFree, TypeOK
  <2>3. Ledger!Unpin(c)
    BY <1>2, <1>3, <2>1, <2>2 DEF Ledger!Unpin
  <2> QED
    BY <2>3 DEF Ledger!Next
<1>7. CASE CopyOut(c)
  <2>1. P(c) = {} /\ req' = req /\ iocb'[c] # NoPin
    <3>1. pages[c] # Null /\ iocb[c] = NoPin
      BY <1>7 DEF IInv, Local, CopyOut, Goto
    <3> QED
      BY <1>4, <1>7, <3>1 DEF CopyOut, NoPin, TypeOK
  <2>2. P(c)' = W(c)
    <3>1. HeldBy(c)' = BufferFrames(c, req[c])'
      BY <2>1, HoldsBuffersNext DEF AllHoldBuffers
    <3> QED
      BY <1>3, <2>1, <3>1
  <2>3. Ledger!Pin(c)
    BY <1>2, <1>3, <2>1, <2>2 DEF Ledger!Pin
  <2> QED
    BY <2>3 DEF Ledger!Next
<1>8. CASE KzallocFails(c) \/ (\E a \in Array : Kzalloc(c, a))
           \/ (\E n \in 0 .. PagesNr(req[c]) : GetUserPages(c, n))
           \/ PutPage(c) \/ Kfree(c)
  <2>1. req' = req /\ iocb' = iocb /\ iocb[c] = NoPin
    BY <1>8 DEF IInv, Local, KzallocFails, Kzalloc, GetUserPages, PutPage, Kfree, Goto
  <2>2. \A d \in Caller : W(d)' = W(d) /\ P(d)' = P(d)
    BY <1>2, <1>3, <2>1
  <2> QED
    BY <2>2 DEF Ledger!vars
<1> QED
  BY <1>5, <1>6, <1>7, <1>8 DEF Handler

-----------------------------------------------------------------------------
(* The strengthened invariant always holds. *)
THEOREM Invariance == Spec => []IInv
BY Init_IInv, IInvStep, PTL DEF Spec

(* The handler's variables keep their types.                               *)
THEOREM TypeCorrect == Spec => []TypeOK
BY Invariance, PTL DEF IInv

(* In every interleaving of any number of callers a frame's count is the   *)
(* number of callers that hold it.                                         *)
THEOREM ReferencesCounted == Spec => []RefLedger
BY Invariance, PTL DEF IInv

(* No page array leaks, is freed twice or has two owners.                  *)
THEOREM ArraysOwned == Spec => []ArrayLedger
BY Invariance, PTL DEF IInv

(* A pinned buffer stays pinned, whole, until its owner frees it.          *)
THEOREM BuffersStayPinned == Spec => []BufferStaysPinned
BY Invariance, StaysPinned, PTL

(* The driver implements the ledger: PIN and FREE are atomic to its        *)
(* callers, all pages or none.                                             *)
THEOREM Refinement == Spec => ImplementsLedger
<1>1. Init => Ledger!Init
  BY DEF Init, Ledger!Init
<1>2. IInv /\ IInv' /\ [Next]_vars => [Ledger!Next]_(Ledger!vars)
  <2> SUFFICES ASSUME IInv, IInv', [Next]_vars PROVE [Ledger!Next]_(Ledger!vars)
    OBVIOUS
  <2>1. CASE Next
    <3>1. PICK c \in Caller :
            (\E r \in Request : CallPin(c, r)) \/ CallFree(c) \/ Handler(c)
      BY <2>1 DEF Next
    <3>2. Moves(c)
      BY <3>1, StepMoves
    <3> QED
      BY <3>1, <3>2, LedgerStep
  <2>2. CASE UNCHANGED vars
    BY <2>2 DEF vars, Ledger!vars, HeldBy, BufferFrames, FrameOfByte
  <2> QED
    BY <2>1, <2>2
<1> QED
  BY <1>1, <1>2, Invariance, PTL DEF Spec, Ledger!Spec, ImplementsLedger
=============================================================================
