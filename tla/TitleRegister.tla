--------------------------- MODULE TitleRegister ---------------------------
(***************************************************************************)
(* What the shared title channel promises its users: one atomic register.  *)
(* A publication takes effect at one instant between its call and its      *)
(* return, or is dropped; a load returns the title of that instant or,     *)
(* like the std::nullopt of SharedMetadata::Read, misses.  Only the death  *)
(* of a writer damages the register, at that instant and never later.      *)
(***************************************************************************)
EXTENDS Naturals

CONSTANTS Writers,       \* the threads that publish titles
          Readers,       \* the threads that read the title
          Values,        \* the titles it can hold
          Damaged,       \* what the death of a writer can leave in it
          Empty,         \* the title of a fresh mapping
          Nothing        \* no publication pending; a read that gave up

VARIABLES value,         \* the title
          pending,       \* pending[w]: called by w, without effect yet
          result,        \* result[r]: what the last read of r returned
          deaths         \* writers that died so far

vars == <<value, pending, result, deaths>>

Init ==
    /\ value = Empty
    /\ pending = [w \in Writers |-> Nothing]
    /\ result = [r \in Readers |-> Nothing]
    /\ deaths = 0

Publish(w) ==
    /\ pending[w] = Nothing
    /\ \E v \in Values : pending' = [pending EXCEPT ![w] = v]
    /\ UNCHANGED <<value, result, deaths>>

Store(w) ==
    /\ pending[w] # Nothing
    /\ value' = pending[w]
    /\ pending' = [pending EXCEPT ![w] = Nothing]
    /\ UNCHANGED <<result, deaths>>

Drop(w) ==
    /\ pending[w] # Nothing
    /\ pending' = [pending EXCEPT ![w] = Nothing]
    /\ UNCHANGED <<value, result, deaths>>

Die(w) ==
    /\ deaths' = deaths + 1
    /\ value' \in {value} \cup Damaged
    /\ pending' = [pending EXCEPT ![w] = Nothing]
    /\ UNCHANGED result

Load(r) ==
    /\ result' = [result EXCEPT ![r] = value]
    /\ UNCHANGED <<value, pending, deaths>>

Miss(r) ==
    /\ result' = [result EXCEPT ![r] = Nothing]
    /\ UNCHANGED <<value, pending, deaths>>

Next ==
    \/ \E w \in Writers : Publish(w) \/ Store(w) \/ Drop(w) \/ Die(w)
    \/ \E r \in Readers : Load(r) \/ Miss(r)

Spec == Init /\ [][Next]_vars

=============================================================================
