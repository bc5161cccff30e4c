---------------------------- MODULE SingleFlight ----------------------------
(***************************************************************************)
(* What BtInitializer.trigger_rfcomm_recovery promises its callers,        *)
(* without locks, threads or processes: any number of requests may arrive, *)
(* and at most one recovery is in flight.  A request is either accepted,   *)
(* when nothing is in flight, or dropped (a stuttering step).  An accepted *)
(* request launches one worker, and the worker lands.                      *)
(***************************************************************************)
CONSTANT Worker   (* the identities a recovery worker may have *)

VARIABLES
  phase,          (* "idle", "accepted" (no worker yet) or "flying" *)
  flight          (* the set of workers in flight                   *)

vars == <<phase, flight>>

Init == phase = "idle" /\ flight = {}

Accept ==
  /\ phase = "idle"
  /\ phase' = "accepted"
  /\ UNCHANGED flight

Launch(w) ==
  /\ phase = "accepted"
  /\ phase' = "flying"
  /\ flight' = {w}

Land ==
  /\ phase = "flying"
  /\ phase' = "idle"
  /\ flight' = {}

(* The program dies between accepting a request and launching its worker. *)
Abandon ==
  /\ phase = "accepted"
  /\ phase' = "idle"
  /\ UNCHANGED flight

Next == Accept \/ (\E w \in Worker : Launch(w)) \/ Land \/ Abandon

Safety == Init /\ [][Next]_vars

Spec == Safety /\ WF_vars(Land) /\ WF_vars(\E w \in Worker : Launch(w))
=============================================================================
