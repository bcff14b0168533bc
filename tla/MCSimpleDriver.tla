--------------------------- MODULE MCSimpleDriver ---------------------------
(* Two callers whose two-page buffers share the frame p2; 2-byte pages. *)
EXTENDS SimpleDriver, TLC

CONSTANTS c1, c2, p1, p2, p3

MCFrame == c1 :> <<p1, p2>> @@ c2 :> <<p2, p3>>

(* One page; one page filled; two pages because of the offset; two pages. *)
MCRequest == {[off |-> 0, len |-> 1], [off |-> 0, len |-> 2],
              [off |-> 1, len |-> 2], [off |-> 0, len |-> 4]}
=============================================================================
