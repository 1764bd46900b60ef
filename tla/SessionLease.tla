---------------------------- MODULE SessionLease ----------------------------
(***************************************************************************)
(* What an endpoint's session pool promises, whatever its goroutines do:   *)
(* a session is in the pool, lent to one caller, or closed for good; it is *)
(* lent only while the pool is not shut, and closed only once it is.       *)
(***************************************************************************)
CONSTANTS Sessions, Callers, Pool, Gone

VARIABLES
  where,  \* where each session is: Pool, Gone (closed) or its borrower
  shut    \* the pool is shut

Init ==
  /\ where = [s \in Sessions |-> Pool]
  /\ shut = FALSE

Lend(c, s) ==
  /\ ~shut
  /\ where[s] = Pool
  /\ \A t \in Sessions : where[t] # c
  /\ where' = [where EXCEPT ![s] = c]
  /\ UNCHANGED shut

Return(c, s) ==
  /\ ~shut
  /\ where[s] = c
  /\ where' = [where EXCEPT ![s] = Pool]
  /\ UNCHANGED shut

(* A session leaves for good: it was in the pool, or its borrower brought  *)
(* it back too late.                                                       *)
Retire(s) ==
  /\ shut
  /\ where[s] # Gone
  /\ where' = [where EXCEPT ![s] = Gone]
  /\ UNCHANGED shut

Shut ==
  /\ ~shut
  /\ shut' = TRUE
  /\ UNCHANGED where

Next ==
  \/ \E c \in Callers, s \in Sessions : Lend(c, s) \/ Return(c, s)
  \/ \E s \in Sessions : Retire(s)
  \/ Shut

Spec == Init /\ [][Next]_<<where, shut>>
=============================================================================
