----------------------------- MODULE MCLogFile -----------------------------
(***************************************************************************)
(* LogFile for model checking: a process with two threads and one with one. *)
(***************************************************************************)
EXTENDS LogFile, TLC

CONSTANTS t1, t2, t3, p1, p2

MCProcessOf == t1 :> p1 @@ t2 :> p1 @@ t3 :> p2

=============================================================================
