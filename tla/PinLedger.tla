----------------------------- MODULE PinLedger -----------------------------
(***************************************************************************)
(* What the /dev/simple0 driver promises to the programs that call it,     *)
(* whatever the steps it takes: a PIN request that succeeds pins all the   *)
(* page frames of the caller's buffer at once, one that fails pins none,   *)
(* and a FREE request unpins all of them.  SimpleDriver implements it.     *)
(***************************************************************************)
CONSTANT
  Caller    \* the processes that call the driver

VARIABLES
  wanted,   \* wanted[c]: the frames of the buffer c last asked to be pinned
  pinned    \* pinned[c]: the frames c holds pinned

vars == <<wanted, pinned>>

Init == pinned = [c \in Caller |-> {}]

(* The caller names another buffer while it holds none. *)
Ask(c) ==
  /\ pinned[c] = {}
  /\ \A d \in Caller \ {c} : wanted'[d] = wanted[d]
  /\ UNCHANGED pinned

Pin(c) ==
  /\ pinned[c] = {}
  /\ pinned' = [pinned EXCEPT ![c] = wanted[c]]
  /\ UNCHANGED wanted

Unpin(c) ==
  /\ pinned[c] # {}
  /\ pinned' = [pinned EXCEPT ![c] = {}]
  /\ UNCHANGED wanted

Next == \E c \in Caller : Ask(c) \/ Pin(c) \/ Unpin(c)

Spec == Init /\ [][Next]_vars
=============================================================================
