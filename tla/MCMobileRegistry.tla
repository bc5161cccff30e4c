-------------------------- MODULE MCMobileRegistry --------------------------
(* MobileRegistry for TLC.  Connections are interchangeable. *)
EXTENDS MobileRegistry, TLC

Symmetry == Permutations(Conn)
=============================================================================
