---------------------- MODULE MCSupplierConfirmations ----------------------
(***************************************************************************)
(* Values of the constants of SupplierConfirmations for TLC.               *)
(***************************************************************************)
EXTENDS SupplierConfirmations, TLC

CONSTANTS e1, e2, e3, e4, h1, h2

MCEvents == {e1, e2, e3, e4}
MCHandlers == {h1, h2}

Symmetry == Permutations(MCEvents) \cup Permutations(MCHandlers)
=============================================================================
