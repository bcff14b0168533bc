---------------------------- MODULE SimpleDriver ----------------------------
(***************************************************************************)
(* The ioctl handler of the simple_dma kernel module                       *)
(* (aqemu/tools/app/simple_dma/simple.c), called by any number of          *)
(* processes at once.  A PIN request allocates an array of page pointers,  *)
(* takes one reference on every frame behind the caller's buffer with      *)
(* get_user_pages_fast, and hands array, count and physical address back   *)
(* through the caller's dma_io_cb; a FREE request drops the references and *)
(* the array that the dma_io_cb names.  The handler runs unlocked, so its  *)
(* steps interleave with those of other callers, which may share frames.   *)
(*                                                                         *)
(* The callers here keep to the contract the driver relies on: they FREE   *)
(* only what a successful PIN gave them, and once.  DmaApp models the one  *)
(* caller of this repository, which does not check.                        *)
(***************************************************************************)
EXTENDS Integers, Sequences, FiniteSets

CONSTANTS
  Caller,    \* the processes that have /dev/simple0 open
  Page,      \* physical page frames
  Array,     \* kernel allocations that can hold a page-pointer array
  Null,      \* the null pointer
  PageSize,  \* bytes per page
  Request,   \* the buffers a caller may pass: records [off, len] in bytes,
             \* off being the offset of the buffer in its first page
  Frame      \* Frame[c]: the frames behind consecutive pages of c's buffers

(***************************************************************************)
(* Frame[c][i] is the frame behind the i-th page of the caller's buffer;   *)
(* a writable private mapping gives a process one frame per page, though   *)
(* several processes may share a frame.                                    *)
(***************************************************************************)
ASSUME FrameAssumption ==
  /\ Frame \in [Caller -> Seq(Page)]
  /\ \A c \in Caller : \A i, j \in 1 .. Len(Frame[c]) :
       Frame[c][i] = Frame[c][j] => i = j

(* Fault: the offset of the buffer in its first page is forgotten. *)
PagesNrWithoutOffset(r) == (r.len + PageSize - 1) \div PageSize

PagesNr(r) == (r.len + r.off + PageSize - 1) \div PageSize

(* A buffer is not empty, since pages[0] is read whatever the length is,   *)
(* and the page-table entries each request needs exist.                    *)
ASSUME RequestAssumption ==
  /\ PageSize \in Nat \ {0}
  /\ \A r \in Request : r.off \in 0 .. (PageSize - 1) /\ r.len \in Nat \ {0}
  /\ \A r \in Request, c \in Caller : PagesNr(r) <= Len(Frame[c])

ASSUME CallerAssumption == IsFiniteSet(Caller)

ASSUME NullAssumption == Null \notin Array /\ Null \notin Page

VARIABLES
  pc,      \* pc[c]: the step of the handler c is in, "user" outside of it
  req,     \* req[c]: the buffer described by c's dma_io_cb
  iocb,    \* iocb[c]: what the last successful PIN wrote back to c
  pages,   \* pages[c]: the handler's local array pointer
  pinned,  \* pinned[c]: the handler's local count
  i,       \* i[c]: the handler's loop index
  live,    \* the arrays allocated and not yet freed
  content, \* content[a]: the frames array a lists
  ref      \* ref[p]: references taken on frame p and not yet put

vars == <<pc, req, iocb, pages, pinned, i, live, content, ref>>

Steps == {"user", "kzalloc", "gup", "rollback", "copyout", "put"}

NoPin == [pages |-> Null, pinned |-> 0, phys_addr |-> Null]

TypeOK ==
  /\ pc \in [Caller -> Steps]
  /\ req \in [Caller -> Request]
  /\ iocb \in [Caller -> [pages : Array \cup {Null}, pinned : Nat,
                          phys_addr : Page \cup {Null}]]
  /\ pages \in [Caller -> Array \cup {Null}]
  /\ pinned \in [Caller -> Nat]
  /\ i \in [Caller -> Nat]
  /\ live \in SUBSET Array
  /\ content \in [Array -> Seq(Page)]
  /\ ref \in [Page -> Int]

Init ==
  /\ pc = [c \in Caller |-> "user"]
  /\ req \in [Caller -> Request]
  /\ iocb = [c \in Caller |-> NoPin]
  /\ pages = [c \in Caller |-> Null]
  /\ pinned = [c \in Caller |-> 0]
  /\ i = [c \in Caller |-> 0]
  /\ live = {}
  /\ content = [a \in Array |-> <<>>]
  /\ ref = [p \in Page |-> 0]

Goto(c, from, to) == pc[c] = from /\ pc' = [pc EXCEPT ![c] = to]

(* The local variables go out of scope when the handler returns. *)
Locals(c, a, n) ==
  /\ pages' = [pages EXCEPT ![c] = a]
  /\ pinned' = [pinned EXCEPT ![c] = n]
  /\ i' = [i EXCEPT ![c] = 0]

-----------------------------------------------------------------------------
(* ioctl(SIMPLE_IOCTL_PIN)                                                 *)

CallPin(c, r) ==
  /\ Goto(c, "user", "kzalloc")
  /\ iocb[c] = NoPin
  /\ req' = [req EXCEPT ![c] = r]
  /\ UNCHANGED <<iocb, pages, pinned, i, live, content, ref>>

KzallocFails(c) ==
  /\ Goto(c, "kzalloc", "user")
  /\ UNCHANGED <<req, iocb, pages, pinned, i, live, content, ref>>

Kzalloc(c, a) ==
  /\ Goto(c, "kzalloc", "gup")
  /\ a \notin live
  /\ live' = live \cup {a}
  /\ content' = [content EXCEPT ![a] = <<>>]
  /\ Locals(c, a, 0)
  /\ UNCHANGED <<req, iocb, ref>>

(* Fault: a request of which some page was pinned counts as pinned. *)
SomePinned(c, n) == n >= 1

AllPinned(c, n) == n = PagesNr(req[c])

(***************************************************************************)
(* get_user_pages_fast pins n of the pages, all of them or fewer when one  *)
(* cannot be faulted in; a negative errno acts as n = 0, since the handler *)
(* then puts no page and the caller learns nothing of the count.           *)
(***************************************************************************)
GetUserPages(c, n) ==
  /\ Goto(c, "gup", IF AllPinned(c, n) THEN "copyout" ELSE "rollback")
  /\ content' = [content EXCEPT ![pages[c]] = SubSeq(Frame[c], 1, n)]
  /\ ref' = [p \in Page |->
               IF \E k \in 1 .. n : Frame[c][k] = p THEN ref[p] + 1 ELSE ref[p]]
  /\ Locals(c, pages[c], n)
  /\ UNCHANGED <<req, iocb, live>>

(* Fault: phys_addr is given the array's own address. *)
ArrayAddr(c) == pages[c]

PhysAddr(c) == content[pages[c]][1]

CopyOut(c) ==
  /\ Goto(c, "copyout", "user")
  /\ iocb' = [iocb EXCEPT ![c] = [pages |-> pages[c], pinned |-> pinned[c],
                                  phys_addr |-> PhysAddr(c)]]
  /\ Locals(c, Null, 0)
  /\ UNCHANGED <<req, live, content, ref>>

-----------------------------------------------------------------------------
(* ioctl(SIMPLE_IOCTL_FREE), and the loop it shares with a failing PIN     *)

(* The caller gives up its dma_io_cb with the call. *)
CallFree(c) ==
  /\ Goto(c, "user", "put")
  /\ iocb[c] # NoPin
  /\ Locals(c, iocb[c].pages, iocb[c].pinned)
  /\ iocb' = [iocb EXCEPT ![c] = NoPin]
  /\ UNCHANGED <<req, live, content, ref>>

(* Fault: the loop stops one page short. *)
LoopOneShort(c) == i[c] + 1 >= pinned[c]

LoopDone(c) == i[c] >= pinned[c]

PutPage(c) ==
  /\ pc[c] \in {"rollback", "put"}
  /\ ~ LoopDone(c)
  /\ ref' = [ref EXCEPT ![content[pages[c]][i[c] + 1]] = @ - 1]
  /\ i' = [i EXCEPT ![c] = @ + 1]
  /\ UNCHANGED <<pc, req, iocb, pages, pinned, live, content>>

(* Fault: the error path returns without freeing the array. *)
ErrorPathKeeps(c) == IF pc[c] = "rollback" THEN live ELSE live \ {pages[c]}

Freed(c) == live \ {pages[c]}

Kfree(c) ==
  /\ pc[c] \in {"rollback", "put"}
  /\ LoopDone(c)
  /\ live' = Freed(c)
  /\ Locals(c, Null, 0)
  /\ pc' = [pc EXCEPT ![c] = "user"]
  /\ UNCHANGED <<req, iocb, content, ref>>

-----------------------------------------------------------------------------
Handler(c) ==
  \/ KzallocFails(c)
  \/ \E a \in Array : Kzalloc(c, a)
  \/ \E n \in 0 .. PagesNr(req[c]) : GetUserPages(c, n)
  \/ CopyOut(c)
  \/ PutPage(c)
  \/ Kfree(c)

Next ==
  \E c \in Caller :
    \/ \E r \in Request : CallPin(c, r)
    \/ CallFree(c)
    \/ Handler(c)

Spec == Init /\ [][Next]_vars

-----------------------------------------------------------------------------
(* Properties                                                              *)

(* The frames c holds a reference on: those its handler has still to put,  *)
(* or, between PIN and FREE, those its dma_io_cb names.                    *)
HeldBy(c) ==
  IF pages[c] # Null
    THEN {content[pages[c]][k] : k \in i[c] + 1 .. pinned[c]}
    ELSE {content[iocb[c].pages][k] : k \in 1 .. iocb[c].pinned}

(* Every reference the handler takes is accounted for: in every            *)
(* interleaving of PIN, partly failed PIN and FREE of callers that share   *)
(* frames, the count of a frame is the number of callers holding it        *)
(* (get_user_pages_fast and put_page, simple.c:165-177 and 204-216).       *)
RefLedger == \A p \in Page : ref[p] = Cardinality({c \in Caller : p \in HeldBy(c)})

ArrayOf(c) == IF pages[c] # Null THEN pages[c] ELSE iocb[c].pages

(* A page array lives exactly as long as one caller owns it: none leaks,   *)
(* none is freed twice, no two callers share one (kzalloc and kfree,       *)
(* simple.c:155, 175, 215).                                                *)
ArrayLedger ==
  /\ live = {ArrayOf(c) : c \in Caller} \ {Null}
  /\ \A c, d \in Caller : ArrayOf(c) = ArrayOf(d) /\ c # d => ArrayOf(c) = Null

(* The frame behind byte j of the buffer of request r. *)
FrameOfByte(c, r, j) == Frame[c][1 + (r.off + j) \div PageSize]

BufferFrames(c, r) == {FrameOfByte(c, r, j) : j \in 0 .. r.len - 1}

(* Between a successful PIN and the FREE, the frame behind every byte of   *)
(* the buffer stays referenced, whatever others sharing it do, and         *)
(* phys_addr is the frame of the first byte (pages_nr, simple.c:151-154).  *)
BufferStaysPinned ==
  \A c \in Caller : iocb[c] # NoPin =>
    /\ \A p \in BufferFrames(c, req[c]) : ref[p] >= 1
    /\ iocb[c].phys_addr = FrameOfByte(c, req[c], 0)

(* The driver implements PinLedger: PIN pins the frames of the whole       *)
(* buffer or none, in one visible step, and FREE unpins them.              *)
Ledger == INSTANCE PinLedger WITH
  pinned <- [c \in Caller |-> IF iocb[c] = NoPin THEN {} ELSE HeldBy(c)],
  wanted <- [c \in Caller |-> BufferFrames(c, req[c])]

ImplementsLedger == Ledger!Spec
=============================================================================
