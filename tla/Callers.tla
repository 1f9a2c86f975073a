------------------------------ MODULE Callers ------------------------------
(* The threads that call the library. *)
CONSTANTS Threads, None
ASSUME CallersAssumption == None \notin Threads
=============================================================================
