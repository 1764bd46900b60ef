----------------------------- MODULE ProxyCall ------------------------------
(***************************************************************************)
(* What one call of Client.DoForDomain promises its caller: fn runs at     *)
(* most MaxAttempts times, never again after an outcome that settles the   *)
(* call, and the reply is the one that is due for its last run, or says    *)
(* why it never ran.  Endpoints, sessions, contexts and the retry library  *)
(* do not appear; RequestRetry implements this.                            *)
(***************************************************************************)
EXTENDS Integers

CONSTANTS
  MaxAttempts,   \* RetryConfig.MaxAttempts
  Outcomes,      \* how fn can end
  Settling,      \* the outcomes after which fn does not run again
  WithResponse,  \* the outcomes with a response, blocked or not
  WithError,     \* the outcomes that are or count as an error
  Stops,         \* what else may end a call
  NilResponse,   \* the error for an fn that returned nothing
  None           \* nil

VARIABLES
  outcomes,  \* how fn ended in each attempt, None where it did not run
  reply      \* what the call returned, None before

vars == <<outcomes, reply>>

Init ==
  /\ outcomes = [i \in 1..MaxAttempts |-> None]
  /\ reply = None

(* fn runs in attempt i; an attempt that got no session is skipped.        *)
Run(i) ==
  /\ reply = None
  /\ \A j \in i..MaxAttempts : outcomes[j] = None
  /\ \A j \in 1..MaxAttempts : outcomes[j] \notin Settling
  /\ \E o \in Outcomes : outcomes' = [outcomes EXCEPT ![i] = o]
  /\ UNCHANGED reply

(* The replies due when fn ran last in attempt i.                          *)
Due(i) ==
  LET o == outcomes[i] IN
    {[resp |-> i, err |-> e] :
       e \in IF o \notin WithResponse THEN {}
             ELSE IF o \in WithError THEN {o} \cup Stops ELSE {None}}
      \cup {[resp |-> None, err |-> e] :
       e \in IF o \in WithResponse THEN {}
             ELSE IF o \in WithError THEN {o} ELSE {NilResponse}}

Answer(i) ==
  /\ reply = None
  /\ outcomes[i] # None
  /\ \A j \in 1..MaxAttempts : j > i => outcomes[j] = None
  /\ reply' \in Due(i)
  /\ UNCHANGED outcomes

(* fn never ran.                                                           *)
Refuse ==
  /\ reply = None
  /\ \A j \in 1..MaxAttempts : outcomes[j] = None
  /\ \E e \in Stops : reply' = [resp |-> None, err |-> e]
  /\ UNCHANGED outcomes

Next == (\E i \in 1..MaxAttempts : Run(i) \/ Answer(i)) \/ Refuse

Spec == Init /\ [][Next]_vars
=============================================================================
