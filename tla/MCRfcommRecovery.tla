-------------------------- MODULE MCRfcommRecovery --------------------------
(* RfcommRecovery for TLC.  Processes are interchangeable, and so are the  *)
(* identities of recovery workers.                                         *)
EXTENDS RfcommRecovery, TLC

Symmetry == Permutations(Pid) \cup Permutations(Worker)
=============================================================================
