------------------------------ MODULE MCDmaApp ------------------------------
(* Three pages, one more than a run has buffers, whose addresses differ in *)
(* both halves: a mixed address is no page.  Two of them for the run in    *)
(* which anything may go wrong.                                            *)
EXTENDS DmaApp

ThreePages == {<<1, 2>>, <<2, 3>>, <<3, 1>>}

TwoPages == {<<1, 2>>, <<2, 1>>}
=============================================================================
