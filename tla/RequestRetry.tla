---------------------------- MODULE RequestRetry ----------------------------
(***************************************************************************)
(* One call of Client.DoForDomain: the attempt it hands to retry-go, what  *)
(* it remembers of the attempts, and the result it picks in the end.       *)
(*                                                                         *)
(* The endpoints are shared with other calls, health probes, recoveries    *)
(* and the administrator: at any moment they may take one out of rotation  *)
(* or put it back, or clear its failures (EndpointHealth has the           *)
(* goroutines behind it; here each of their effects is one step).          *)
(* retry-go is external.  A response is named by the attempt that got it.  *)
(***************************************************************************)
EXTENDS Integers, FiniteSets

CONSTANTS
  PoolNames,      \* names a pool may have
  Endpoints,      \* of the pool the call resolved
  MaxAttempts,    \* RetryConfig.MaxAttempts
  FailThreshold,  \* RetryConfig.failThreshold()
  None            \* nil, or the empty string

ASSUME AttemptsAssumption == MaxAttempts \in Nat \ {0}
ASSUME ThresholdAssumption == FailThreshold \in Nat \ {0}

(* How fn can end: with a response, with an error, with both, or, which is *)
(* "nothing", with a nil response and a nil error.                         *)
FnErrors == {"blocked error", "blocked error and answer", "error",
             "error and answer", "Canceled", "Canceled and answer"}
Outcomes == {"answer", "nothing", "blocked answer"} \cup FnErrors
HasResp(o) == o \in {"answer", "blocked answer", "blocked error and answer",
                     "error and answer", "Canceled and answer"}
HasErr(o) == o \in FnErrors

ContextEnds == {"Canceled", "DeadlineExceeded"}
ResolveErrors == {"ErrPoolNotFound", "ErrAmbiguousPool"}
AcquireErrors == {"ErrClientClosed", "rate limit wait"} \cup ContextEnds
Errors == {"ErrAllProxiesBlocked", "blocked answer"} \cup FnErrors
            \cup AcquireErrors \cup ResolveErrors
Results == [resp : 1..MaxAttempts \cup {None},
            err : Errors \cup {None, "nil response"}]

ASSUME NoneAssumption ==
  /\ None \notin Endpoints \cup 1..MaxAttempts
  /\ None \notin Outcomes \cup Errors \cup {"nil response"}
  /\ None \notin Results

VARIABLES
  pc,         \* where the call is
  toScan,     \* endpoints the selection has not looked at yet
  candidates, \* endpoints it found in rotation
  attempt,    \* the number of the current attempt
  ep,         \* the endpoint of the current attempt
  outcomes,   \* how fn ended in each attempt, None where it did not run
  lastResp,   \* the attempt whose response lastResp is, None for nil
  lastErr,    \* the error lastErr is, None for nil
  err,        \* the error of the attempt, in the end that of retry.Do
  ctx,        \* "live", or how the caller's context ended
  alive,      \* endpoints in rotation
  failCount,  \* failures counted against each, saturated at FailThreshold
  result,     \* what the call returned
  seenIn,     \* history: endpoints in rotation at some moment of this scan
  seenOut     \* history: endpoints out of it at some moment of this scan

scan == <<toScan, candidates>>
memory == <<outcomes, lastResp, lastErr>>
shared == <<alive, failCount>>
history == <<seenIn, seenOut>>
vars ==
  <<pc, scan, attempt, ep, memory, err, ctx, shared, result, history>>

Steps == {"called", "start", "selecting", "acquiring", "running", "ran",
          "judging", "waiting", "finished", "returned"}

TypeOK ==
  /\ pc \in Steps
  /\ toScan \in SUBSET Endpoints
  /\ candidates \in SUBSET Endpoints
  /\ attempt \in 1..MaxAttempts
  /\ ep \in Endpoints \cup {None}
  /\ outcomes \in [1..MaxAttempts -> Outcomes \cup {None}]
  /\ lastResp \in 1..MaxAttempts \cup {None}
  /\ lastErr \in Errors \cup {None}
  /\ err \in Errors \cup {None}
  /\ ctx \in ContextEnds \cup {"live"}
  /\ alive \in SUBSET Endpoints
  /\ failCount \in [Endpoints -> 0..FailThreshold]
  /\ result \in Results
  /\ seenIn \in SUBSET Endpoints
  /\ seenOut \in SUBSET Endpoints

Init ==
  /\ pc = "called"
  /\ toScan = Endpoints
  /\ candidates = {}
  /\ attempt = 1
  /\ ep = None
  /\ outcomes = [i \in 1..MaxAttempts |-> None]
  /\ lastResp = None
  /\ lastErr = None
  /\ err = None
  /\ ctx = "live"
  /\ alive = Endpoints
  /\ failCount = [e \in Endpoints |-> 0]
  /\ result = [resp |-> None, err |-> None]
  /\ seenIn = {}
  /\ seenOut = {}

-----------------------------------------------------------------------------
(* The pool                                                                *)

(* What resolvePool finds wrong with a name: an empty one will do when     *)
(* there is only one pool.                                                 *)
ResolveError(configured, name) ==
  IF name = None
    THEN IF Cardinality(configured) = 1 THEN None ELSE "ErrAmbiguousPool"
    ELSE IF name \in configured THEN None ELSE "ErrPoolNotFound"

(* An unknown pool ends the call before the retry loop, and no error of a  *)
(* later step can hide it.                                                 *)
Resolve ==
  /\ pc = "called"
  /\ \E configured \in (SUBSET PoolNames) \ {{}},
        name \in PoolNames \cup {None} :
       LET wrong == ResolveError(configured, name) IN
       /\ pc' = IF wrong = None THEN "start" ELSE "returned"
       /\ err' = wrong
       /\ result' = [resp |-> None, err |-> wrong]
  /\ UNCHANGED <<scan, attempt, ep, memory, ctx, shared>>

-----------------------------------------------------------------------------
(* The attempt                                                             *)

(* retry.Do looks at the context before the first attempt.                 *)
Start ==
  /\ pc = "start"
  /\ IF ctx = "live" THEN pc' = "selecting" /\ UNCHANGED err
                     ELSE pc' = "finished" /\ err' = ctx
  /\ UNCHANGED <<scan, attempt, ep, memory, ctx, shared, result>>

(* getNextEndpointForDomain looks at the endpoints one by one, then picks  *)
(* among those it found in rotation: by then another may be gone or back.  *)
Look(e) ==
  /\ pc = "selecting"
  /\ e \in toScan
  /\ toScan' = toScan \ {e}
  /\ candidates' = IF e \in alive THEN candidates \cup {e} ELSE candidates
  /\ UNCHANGED <<pc, attempt, ep, memory, err, ctx, shared, result>>

Pick ==
  /\ pc = "selecting"
  /\ toScan = {}
  /\ ep' \in candidates
  /\ pc' = "acquiring"
  /\ UNCHANGED <<scan, attempt, memory, err, ctx, shared, result>>

(* Mutant: the selection waits for an endpoint instead of failing.         *)
NoneLeft_Waits == FALSE

(* Every endpoint was out of rotation when it was looked at.               *)
NoneLeft == candidates = {}

FindNone ==
  /\ pc = "selecting"
  /\ toScan = {}
  /\ NoneLeft
  /\ err' = "ErrAllProxiesBlocked"
  /\ pc' = "judging"
  /\ UNCHANGED <<scan, attempt, ep, memory, ctx, shared, result>>

(* acquireSession fails: the endpoint is closed, the limiter finds that    *)
(* the deadline is too near, or the caller's context ended (the limiter's  *)
(* error wraps the context's, so it counts as that one).                   *)
AcquireFails ==
  /\ pc = "acquiring"
  /\ err' \in {"ErrClientClosed", "rate limit wait"}
       \cup (IF ctx = "live" THEN {} ELSE {ctx})
  /\ pc' = "judging"
  /\ UNCHANGED <<scan, attempt, ep, memory, ctx, shared, result>>

Acquired ==
  /\ pc = "acquiring"
  /\ pc' = "running"
  /\ UNCHANGED <<scan, attempt, ep, memory, err, ctx, shared, result>>

(* Mutant: lastResp is overwritten by a response only.                     *)
RespOf_KeepsOld(o) == IF HasResp(o) THEN attempt ELSE lastResp

RespOf(o) == IF HasResp(o) THEN attempt ELSE None
ErrOf(o) == IF HasErr(o) THEN o ELSE None

(* fn returns: lastResp and lastErr are overwritten, nil or not.           *)
RunFn ==
  /\ pc = "running"
  /\ \E o \in Outcomes :
       /\ outcomes' = [outcomes EXCEPT ![attempt] = o]
       /\ lastResp' = RespOf(o)
       /\ lastErr' = ErrOf(o)
  /\ pc' = "ran"
  /\ UNCHANGED <<scan, attempt, ep, err, ctx, shared, result>>

(* IsBlockedError and IsBlocked decide; an error may come with a response. *)
Blocked == outcomes[attempt] \in {"blocked answer", "blocked error",
                                 "blocked error and answer"}

(* penalise: count the failure, mark the endpoint at the threshold.        *)
Penalise ==
  /\ pc = "ran"
  /\ Blocked
  /\ failCount' = [failCount EXCEPT
       ![ep] = IF @ < FailThreshold THEN @ + 1 ELSE @]
  /\ alive' = IF failCount'[ep] >= FailThreshold THEN alive \ {ep} ELSE alive
  /\ err' = outcomes[attempt]
  /\ pc' = "judging"
  /\ UNCHANGED <<scan, attempt, ep, memory, ctx, result>>

(* An error the endpoint is not to blame for.                              *)
PassError ==
  /\ pc = "ran"
  /\ ~Blocked
  /\ lastErr # None
  /\ err' = lastErr
  /\ pc' = "judging"
  /\ UNCHANGED <<scan, attempt, ep, memory, ctx, shared, result>>

(* recordSuccess and resetFailCount, also when fn returned nothing.        *)
Succeed ==
  /\ pc = "ran"
  /\ ~Blocked
  /\ lastErr = None
  /\ failCount' = [failCount EXCEPT ![ep] = 0]
  /\ err' = None
  /\ pc' = "finished"
  /\ UNCHANGED <<scan, attempt, ep, memory, ctx, alive, result>>

-----------------------------------------------------------------------------
(* retry.Do between attempts                                               *)

(* The errors the RetryIf option refuses: errors.Is finds the sentinel.    *)
FinalErrors == {"ErrAllProxiesBlocked", "Canceled", "Canceled and answer"}
Retriable(e) == e \notin FinalErrors

(* Mutant: MaxAttempts counts the retries.                                 *)
AttemptsLeft_Retries == attempt <= MaxAttempts

(* The Attempts option.                                                    *)
AttemptsLeft == attempt < MaxAttempts

Judge ==
  /\ pc = "judging"
  /\ pc' = IF Retriable(err) /\ AttemptsLeft THEN "waiting" ELSE "finished"
  /\ UNCHANGED <<scan, attempt, ep, memory, err, ctx, shared, result>>

(* Mutant: the candidates of the attempt before are kept.                  *)
NoCandidates_Kept == candidates

(* Every selection begins with an empty list.                              *)
NoCandidates == {}

(* The delay is over; it may be although the context ended meanwhile.      *)
NextAttempt ==
  /\ pc = "waiting"
  /\ attempt' = attempt + 1
  /\ toScan' = Endpoints
  /\ candidates' = NoCandidates
  /\ pc' = "selecting"
  /\ UNCHANGED <<ep, memory, err, ctx, shared, result>>

StopWaiting ==
  /\ pc = "waiting"
  /\ ctx # "live"
  /\ err' = ctx
  /\ pc' = "finished"
  /\ UNCHANGED <<scan, attempt, ep, memory, ctx, shared, result>>

-----------------------------------------------------------------------------
(* The result, once retry.Do returned err                                  *)
Explained ==
  IF lastResp # None THEN [resp |-> lastResp, err |-> err]
  ELSE IF lastErr # None THEN [resp |-> None, err |-> lastErr]
  ELSE [resp |-> None, err |-> err]

(* Mutant: a nil response is no error.                                     *)
Answered_Unchecked == [resp |-> lastResp, err |-> None]

Answered ==
  IF lastResp = None THEN [resp |-> None, err |-> "nil response"]
                     ELSE [resp |-> lastResp, err |-> None]

Picked == IF err # None THEN Explained ELSE Answered

Return ==
  /\ pc = "finished"
  /\ result' = Picked
  /\ pc' = "returned"
  /\ UNCHANGED <<scan, attempt, ep, memory, err, ctx, shared>>

-----------------------------------------------------------------------------
(* The rest of the program and the caller                                  *)

EndContext ==
  /\ ctx = "live"
  /\ pc # "returned"
  /\ ctx' \in ContextEnds
  /\ UNCHANGED <<pc, scan, attempt, ep, memory, err, shared, result>>

(* Someone else's failure, recovery, success or administration.            *)
Elsewhere ==
  /\ pc # "returned"
  /\ \E e \in Endpoints :
       \/ alive' = alive \ {e} /\ UNCHANGED failCount
       \/ alive' = alive \cup {e} /\ failCount' = [failCount EXCEPT ![e] = 0]
       \/ failCount' = [failCount EXCEPT ![e] = 0] /\ UNCHANGED alive
  /\ UNCHANGED <<pc, scan, attempt, ep, memory, err, ctx, result>>

CallNext ==
  \/ Resolve \/ Start \/ Pick \/ FindNone \/ AcquireFails \/ Acquired \/ RunFn
  \/ \E e \in Endpoints : Look(e)
  \/ Penalise \/ PassError \/ Succeed
  \/ Judge \/ NextAttempt \/ StopWaiting \/ Return

(* History: where each endpoint was while the current scan lasted.         *)
Notice ==
  LET before(seen) == IF pc = "selecting" THEN seen ELSE {} IN
  /\ seenIn' = IF pc' = "selecting" THEN before(seenIn) \cup alive' ELSE {}
  /\ seenOut' = IF pc' = "selecting"
                  THEN before(seenOut) \cup (Endpoints \ alive') ELSE {}

Next == (CallNext \/ EndContext \/ Elsewhere) /\ Notice

Spec == Init /\ [][Next]_vars

(* The call's goroutine runs, fn and acquireSession return, delays end.    *)
FairSpec == Spec /\ WF_vars(CallNext /\ Notice)

-----------------------------------------------------------------------------
(* Properties                                                              *)

(* The attempts in which fn ran, and the last of them.                     *)
Runs == {i \in 1..MaxAttempts : outcomes[i] # None}
IsLastRun(i) == i \in Runs /\ \A j \in Runs : j <= i

(* The caller gets a response or an error, never neither, and the error is *)
(* that of the last fn that ran or of what stopped the call after it.      *)
ErrorExplains ==
  pc = "returned" =>
    /\ result.resp = None => result.err # None
    /\ result.err \in Errors =>
         \/ result.err = err
         \/ \E i \in Runs : IsLastRun(i) /\ result.err = outcomes[i]
    /\ result.err = "nil response" <=>
         \E i \in Runs : IsLastRun(i) /\ outcomes[i] = "nothing" /\ err = None

(* The selection is not atomic, but never older than its own scan: the     *)
(* endpoint it picks was in rotation at some moment of it, and when it     *)
(* says ErrAllProxiesBlocked every endpoint was out at some moment of it.  *)
SelectionFresh ==
  [][pc = "selecting" =>
       /\ pc' = "acquiring" => ep' \in seenIn
       /\ pc' = "judging" => seenOut = Endpoints]_vars

(* The outcomes of fn that retry.Do does not follow by another attempt.    *)
Settling == {"answer", "nothing", "Canceled", "Canceled and answer"}

(* What else than fn may end a call.                                       *)
Stops == {"ErrAllProxiesBlocked"} \cup AcquireErrors \cup ResolveErrors

(* Seen by its caller the call is a ProxyCall.  A nil error means that the *)
(* last fn answered, and its own response is returned, never one left over *)
(* from an earlier attempt.  "A blocked response is still worth handing    *)
(* back": whatever stopped the call afterwards, the caller gets what the   *)
(* last fn got, if it got anything.  And fn never runs again once settled. *)
Call == INSTANCE ProxyCall WITH
  Settling <- Settling,
  WithResponse <- {o \in Outcomes : HasResp(o)},
  WithError <- {"blocked answer"} \cup {o \in Outcomes : HasErr(o)},
  NilResponse <- "nil response",
  reply <- IF pc = "returned" THEN result ELSE None

CallSpec == Call!Spec

(* The call returns, however endpoints come and go.                        *)
CallReturns == <>(pc = "returned")

-----------------------------------------------------------------------------
(* Why they hold                                                           *)

(* Attempts follow one another: fn ran in none that is still to come, and  *)
(* in the current one only once its step is past.                          *)
AttemptsInOrder ==
  /\ \A j \in 1..MaxAttempts : j > attempt => outcomes[j] = None
  /\ pc \in {"called", "start", "selecting", "acquiring", "running"} =>
       outcomes[attempt] = None
  /\ pc = "called" => \A j \in 1..MaxAttempts : outcomes[j] = None
  /\ pc = "ran" => outcomes[attempt] # None
  /\ pc = "waiting" => attempt < MaxAttempts

(* lastResp and lastErr are what the last fn that ran returned.            *)
MemoryOfLastRun ==
  \/ /\ \A j \in 1..MaxAttempts : outcomes[j] = None
     /\ lastResp = None /\ lastErr = None
  \/ \E i \in 1..MaxAttempts :
       /\ IsLastRun(i)
       /\ lastResp = IF HasResp(outcomes[i]) THEN i ELSE None
       /\ lastErr = ErrOf(outcomes[i])

(* Until retry.Do has judged it an outcome that settles the call is the    *)
(* current attempt's, and no attempt follows it.                           *)
SettledIsLast ==
  /\ \A j \in 1..MaxAttempts : outcomes[j] \in Settling => j = attempt
  /\ outcomes[attempt] \in Settling =>
       pc \in {"ran", "judging", "finished", "returned"}
  /\ err \in FinalErrors => pc \in {"judging", "finished", "returned"}

(* The error that is judged is the attempt's own or says why fn did not    *)
(* run in it, and retry.Do returns nil for an answer only.                 *)
ErrorOfAttempt ==
  /\ pc \in {"judging", "waiting"} =>
       IF outcomes[attempt] = None THEN err \in Stops
       ELSE err = outcomes[attempt] /\ err \notin {"answer", "nothing"}
  /\ pc \in {"finished", "returned"} =>
       IF err = None THEN outcomes[attempt] \in {"answer", "nothing"}
       ELSE /\ outcomes[attempt] \notin {"answer", "nothing"}
            /\ err \in Stops \/ err = outcomes[attempt]
  /\ pc = "returned" => result = Picked

(* What the scan knows, somebody could see while it lasted.                *)
ScanWitnessed ==
  /\ pc \in {"called", "start"} => toScan = Endpoints /\ candidates = {}
  /\ pc = "selecting" =>
       /\ candidates \subseteq seenIn
       /\ Endpoints \ (toScan \cup candidates) \subseteq seenOut
       /\ alive \subseteq seenIn
       /\ Endpoints \ alive \subseteq seenOut

IInv ==
  /\ TypeOK
  /\ AttemptsInOrder
  /\ MemoryOfLastRun
  /\ SettledIsLast
  /\ ErrorOfAttempt
  /\ ScanWitnessed

-----------------------------------------------------------------------------
(* What the documentation says and the code does not do                    *)

(* config.go: ErrAllProxiesBlocked "is returned when every endpoint in the *)
(* selected pool is dead or in cooldown".  An earlier attempt's error      *)
(* hides it.                                                               *)
ExhaustionReported ==
  pc = "returned" /\ err = "ErrAllProxiesBlocked" =>
    result.err = "ErrAllProxiesBlocked"
=============================================================================
