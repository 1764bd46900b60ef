------------------------- MODULE RequestRetryProofs --------------------------
(***************************************************************************)
(* What one call of DoForDomain returns, proved for any number of          *)
(* endpoints and attempts: the inductive invariant of RequestRetry, the    *)
(* invariants and action properties that follow from it, and that the call *)
(* implements ProxyCall.                                                   *)
(***************************************************************************)
EXTENDS RequestRetry, TLAPS

(* The errors of fn are a set of names, which the provers always look into. *)
USE DEF FnErrors

(* Every variable keeps its type.                                          *)
LEMMA TypeKept == IInv /\ Next => TypeOK'
<1> SUFFICES ASSUME TypeOK, Next, pc = "waiting" => attempt < MaxAttempts
             PROVE  TypeOK'
  BY DEF IInv, AttemptsInOrder
<1> USE AttemptsAssumption, ThresholdAssumption
    DEF TypeOK, Steps, scan, memory, shared
<1>1. alive' \in SUBSET Endpoints =>
        seenIn' \in SUBSET Endpoints /\ seenOut' \in SUBSET Endpoints
  <2>1. /\ seenIn' \subseteq seenIn \cup alive'
        /\ seenOut' \subseteq seenOut \cup (Endpoints \ alive')
    BY DEF Next, Notice
  <2> QED
    BY <2>1
<1>2. CASE Resolve
  <2>1. PICK wrong \in ResolveErrors \cup {None} :
          /\ pc' \in {"start", "returned"}
          /\ err' = wrong
          /\ result' = [resp |-> None, err |-> wrong]
    BY <1>2 DEF Resolve, ResolveError, ResolveErrors
  <2>2. err' \in Errors \cup {None} /\ result' \in Results
    BY <2>1 DEF Errors, Results
  <2> QED
    BY <1>1, <1>2, <2>1, <2>2 DEF Resolve
<1>3. CASE Start \/ Pick \/ FindNone \/ \E e \in Endpoints : Look(e)
  BY <1>1, <1>3 DEF Start, Pick, FindNone, Look, Errors, AcquireErrors
<1>4. CASE AcquireFails \/ Acquired
  BY <1>1, <1>4 DEF AcquireFails, Acquired, Errors, AcquireErrors
<1>5. CASE RunFn
  BY <1>1, <1>5 DEF RunFn, RespOf, ErrOf, HasErr, Outcomes, Errors,
                    AcquireErrors, ContextEnds
<1>6. CASE Penalise
  <2>1. outcomes[attempt] \in Errors
    BY <1>6 DEF Penalise, Blocked, Errors
  <2>2. failCount' \in [Endpoints -> 0..FailThreshold]
    <3>1. CASE ep \in Endpoints
      BY <1>6, <3>1 DEF Penalise
    <3>2. CASE ep \notin Endpoints
      <4>1. failCount' = failCount
        BY <1>6, <3>2 DEF Penalise
      <4> QED
        BY <4>1
    <3> QED
      BY <3>1, <3>2
  <2>3. alive' \in SUBSET Endpoints
    BY <1>6 DEF Penalise
  <2> QED
    BY <1>1, <1>6, <2>1, <2>2, <2>3 DEF Penalise
<1>7. CASE PassError \/ Succeed
  BY <1>1, <1>7 DEF PassError, Succeed
<1>8. CASE Judge \/ NextAttempt
  BY <1>1, <1>8 DEF Judge, NextAttempt, NoCandidates
<1>9. CASE StopWaiting
  BY <1>1, <1>9 DEF StopWaiting, Errors, AcquireErrors
<1>10. CASE Return
  BY <1>1, <1>10 DEF Return, Picked, Explained, Answered, Results
<1>11. CASE EndContext
  BY <1>1, <1>11 DEF EndContext
<1>12. CASE Elsewhere
  BY <1>1, <1>12 DEF Elsewhere
<1> QED
  BY <1>2, <1>3, <1>4, <1>5, <1>6, <1>7, <1>8, <1>9, <1>10, <1>11, <1>12
     DEF Next, CallNext

(* What fn returned and what is remembered of it changes only when it runs. *)
LEMMA OnlyFnWritesMemory ==
  ASSUME Next, ~RunFn
  PROVE  outcomes' = outcomes /\ lastResp' = lastResp /\ lastErr' = lastErr
BY DEF Next, CallNext, Resolve, Start, Pick, FindNone, AcquireFails, Acquired,
       Look, Penalise, PassError, Succeed, Judge, NextAttempt, StopWaiting,
       Return, EndContext, Elsewhere, memory

(* The attempt number changes between attempts only.                       *)
LEMMA OnlyRetryCounts ==
  ASSUME Next, ~NextAttempt
  PROVE  attempt' = attempt
BY DEF Next, CallNext, Resolve, Start, Pick, FindNone, AcquireFails, Acquired,
       Look, RunFn, Penalise, PassError, Succeed, Judge, StopWaiting, Return,
       EndContext, Elsewhere

(* Attempts follow one another.                                            *)
LEMMA OrderKept == IInv /\ Next => AttemptsInOrder'
<1> SUFFICES ASSUME TypeOK, AttemptsInOrder, Next PROVE AttemptsInOrder'
  BY DEF IInv
<1> USE AttemptsAssumption DEF AttemptsInOrder
<1>1. CASE RunFn
  <2>1. PICK o \in Outcomes : outcomes' = [outcomes EXCEPT ![attempt] = o]
    BY <1>1 DEF RunFn
  <2>2. o # None /\ attempt' = attempt /\ pc' = "ran"
    BY <1>1, NoneAssumption DEF RunFn
  <2>3. outcomes'[attempt] = o
    BY <2>1 DEF TypeOK
  <2>4. \A j \in 1..MaxAttempts : j > attempt => outcomes'[j] = None
    BY <2>1 DEF TypeOK
  <2> QED
    BY <2>2, <2>3, <2>4
<1>2. CASE NextAttempt
  <2>1. outcomes' = outcomes /\ attempt' = attempt + 1 /\ pc' = "selecting"
    BY <1>2 DEF NextAttempt, memory
  <2>2. attempt + 1 \in 1..MaxAttempts /\ attempt \in Int
    BY <1>2 DEF NextAttempt, TypeOK
  <2> QED
    BY <2>1, <2>2
<1>3. CASE ~RunFn /\ ~NextAttempt
  <2>1. outcomes' = outcomes /\ attempt' = attempt
    BY <1>3, OnlyFnWritesMemory, OnlyRetryCounts
  <2>2. /\ pc' = "called" => pc = "called"
        /\ pc' = "ran" => pc = "ran"
        /\ pc' = "waiting" => pc = "waiting" \/ attempt < MaxAttempts
        /\ pc' \in {"called", "start", "selecting", "acquiring", "running"}
             => pc \in {"called", "start", "selecting", "acquiring", "running"}
    BY <1>3 DEF Next, CallNext, Resolve, Start, Pick, FindNone, AcquireFails,
                Acquired, Look, Penalise, PassError, Succeed, Judge,
                AttemptsLeft, StopWaiting, Return, EndContext, Elsewhere
  <2> QED
    BY <2>1, <2>2
<1> QED
  BY <1>1, <1>2, <1>3

(* lastResp and lastErr go with the last run of fn.                        *)
LEMMA MemoryKept == IInv /\ Next => MemoryOfLastRun'
<1> SUFFICES ASSUME TypeOK, AttemptsInOrder, MemoryOfLastRun, Next
             PROVE  MemoryOfLastRun'
  BY DEF IInv
<1> USE AttemptsAssumption
<1>1. CASE RunFn
  <2>1. PICK o \in Outcomes :
          /\ outcomes' = [outcomes EXCEPT ![attempt] = o]
          /\ lastResp' = RespOf(o)
          /\ lastErr' = ErrOf(o)
    BY <1>1 DEF RunFn
  <2>2. attempt \in 1..MaxAttempts /\ outcomes'[attempt] = o /\ o # None
    BY <2>1, NoneAssumption DEF TypeOK
  <2>3. IsLastRun(attempt)'
    <3>1. \A j \in 1..MaxAttempts : j > attempt => outcomes'[j] = None
      <4>1. \A j \in 1..MaxAttempts : j # attempt => outcomes'[j] = outcomes[j]
        BY <2>1 DEF TypeOK
      <4> QED
        BY <4>1 DEF TypeOK, AttemptsInOrder
    <3>2. attempt' = attempt
      BY <1>1 DEF RunFn
    <3>3. attempt \in Int /\ 1..MaxAttempts \subseteq Int
      BY DEF TypeOK
    <3> QED
      BY <2>2, <3>1, <3>2, <3>3 DEF IsLastRun, Runs
  <2>4. /\ lastResp' = IF HasResp(o) THEN attempt ELSE None
        /\ lastErr' = ErrOf(o)
    BY <2>1 DEF RespOf
  <2>5. attempt' = attempt
    BY <1>1 DEF RunFn
  <2> QED
    BY <2>2, <2>3, <2>4, <2>5 DEF MemoryOfLastRun, ErrOf
<1>2. CASE ~RunFn
  BY <1>2, OnlyFnWritesMemory DEF MemoryOfLastRun, IsLastRun, Runs, ErrOf
<1> QED
  BY <1>1, <1>2

(* No attempt follows an outcome that settles the call.                    *)
LEMMA SettledKept == IInv /\ Next => SettledIsLast'
<1> SUFFICES ASSUME IInv, Next PROVE SettledIsLast'
  OBVIOUS
<1> USE AttemptsAssumption
<1>1. CASE RunFn
  BY <1>1 DEF RunFn, IInv, TypeOK, SettledIsLast
<1>2. CASE NextAttempt
  <2>1. err \in Errors \cup {None} /\ outcomes' = outcomes
    BY <1>2, OnlyFnWritesMemory DEF NextAttempt, RunFn, IInv, TypeOK
  <2>2. \A j \in 1..MaxAttempts : outcomes[j] \notin Settling
    BY <1>2 DEF NextAttempt, IInv, TypeOK, SettledIsLast
  <2>3. err' = err /\ err \notin FinalErrors
    BY <1>2 DEF NextAttempt, IInv, SettledIsLast
  <2>4. attempt' \in 1..MaxAttempts
    BY <1>2 DEF NextAttempt, IInv, TypeOK, AttemptsInOrder
  <2> QED
    BY <2>1, <2>2, <2>3, <2>4 DEF SettledIsLast
<1>3. CASE ~RunFn /\ ~NextAttempt
  <2>1. outcomes' = outcomes /\ attempt' = attempt
    BY <1>3, OnlyFnWritesMemory, OnlyRetryCounts
  <2>2. \/ pc' \in {"ran", "judging", "finished", "returned"}
        \/ pc \notin {"ran", "judging", "finished", "returned"}
        \/ Judge
    BY <1>3 DEF Next, CallNext, Resolve, Start, Pick, FindNone, AcquireFails,
                Acquired, Look, Penalise, PassError, Succeed, StopWaiting,
                Return, EndContext, Elsewhere
  <2>3. Judge /\ outcomes[attempt] \in Settling => pc' = "finished"
    BY NoneAssumption
       DEF Judge, Retriable, FinalErrors, IInv, ErrorOfAttempt, Settling,
           Outcomes
  <2>4. err' \in FinalErrors =>
          pc' \in {"judging", "finished", "returned"}
    <3>1. CASE Resolve
      <4>1. pc' = "returned" \/ err' = None
        BY <3>1 DEF Resolve
      <4> QED
        BY <4>1, NoneAssumption DEF FinalErrors, Errors
    <3>2. CASE Judge
      BY <3>2 DEF Judge, Retriable
    <3>3. CASE Start \/ FindNone \/ AcquireFails \/ Penalise \/ PassError
                 \/ Succeed \/ StopWaiting \/ Return
      BY <3>3 DEF Start, FindNone, AcquireFails, Penalise, PassError, Succeed,
                  StopWaiting, Return, IInv, SettledIsLast
    <3>4. CASE Pick \/ Acquired \/ EndContext \/ Elsewhere
                 \/ \E e \in Endpoints : Look(e)
      BY <3>4 DEF Pick, Acquired, EndContext, Elsewhere, Look, IInv,
                  SettledIsLast
    <3> QED
      BY <1>3, <3>1, <3>2, <3>3, <3>4 DEF Next, CallNext
  <2> QED
    BY <2>1, <2>2, <2>3, <2>4 DEF IInv, SettledIsLast, Judge
<1> QED
  BY <1>1, <1>2, <1>3

(* Where fn ran in the current attempt, what is remembered is of that run. *)
LEMMA RememberedIsCurrent ==
  ASSUME IInv, outcomes[attempt] # None
  PROVE  /\ outcomes[attempt] \in Outcomes
         /\ IsLastRun(attempt)
         /\ lastResp = IF HasResp(outcomes[attempt]) THEN attempt ELSE None
         /\ lastErr = ErrOf(outcomes[attempt])
<1>1. attempt \in 1..MaxAttempts
  BY DEF IInv, TypeOK
<1>2. PICK i \in 1..MaxAttempts :
        /\ IsLastRun(i)
        /\ lastResp = IF HasResp(outcomes[i]) THEN i ELSE None
        /\ lastErr = ErrOf(outcomes[i])
  BY <1>1 DEF IInv, MemoryOfLastRun
<1>3. outcomes[i] # None /\ attempt <= i
  BY <1>1, <1>2 DEF IsLastRun, Runs
<1>4. ~(i > attempt)
  BY <1>3 DEF IInv, AttemptsInOrder
<1>5. i = attempt
  BY <1>1, <1>3, <1>4, AttemptsAssumption
<1> QED
  BY <1>1, <1>2, <1>5 DEF IInv, TypeOK

(* Before fn ran nothing is remembered.                                    *)
LEMMA NothingRemembered ==
  ASSUME IInv, \A j \in 1..MaxAttempts : outcomes[j] = None
  PROVE  lastResp = None /\ lastErr = None
BY DEF IInv, MemoryOfLastRun, IsLastRun, Runs

(* The error is the attempt's own or says what else ended it.              *)
LEMMA ErrorKept == IInv /\ Next => ErrorOfAttempt'
<1> SUFFICES ASSUME IInv, Next PROVE ErrorOfAttempt'
  OBVIOUS
<1>1. /\ None \notin Stops
      /\ None \notin Outcomes \cup {"answer", "nothing"}
      /\ ContextEnds \cup AcquireErrors \subseteq Stops
      /\ \A e \in Stops : e \notin {"answer", "nothing"}
  BY NoneAssumption DEF Errors, Stops, AcquireErrors, ContextEnds,
                        ResolveErrors, Outcomes
<1>2. CASE Resolve
  <2>1. /\ outcomes' = outcomes /\ attempt' = attempt
        /\ lastResp' = None /\ lastErr' = None
        /\ outcomes[attempt] = None
    BY <1>2, NothingRemembered
       DEF Resolve, memory, IInv, TypeOK, AttemptsInOrder
  <2>2. \/ pc' = "start"
        \/ /\ pc' = "returned"
           /\ err' \in ResolveErrors
           /\ result' = [resp |-> None, err |-> err']
    BY <1>2 DEF Resolve, ResolveError, ResolveErrors
  <2> QED
    BY <1>1, <2>1, <2>2
       DEF ErrorOfAttempt, Picked, Explained, Stops
<1>3. CASE Start \/ FindNone \/ AcquireFails
  <2>1. outcomes' = outcomes /\ attempt' = attempt /\ outcomes[attempt] = None
    BY <1>3 DEF Start, FindNone, AcquireFails, memory, IInv, AttemptsInOrder
  <2>2. \/ pc' = "selecting"
        \/ pc' \in {"judging", "finished"} /\ err' \in Stops
    BY <1>1, <1>3 DEF Start, FindNone, AcquireFails, AcquireErrors, IInv,
                      TypeOK, Stops
  <2> QED
    BY <1>1, <2>1, <2>2 DEF ErrorOfAttempt
<1>4. CASE \/ RunFn \/ NextAttempt \/ Pick \/ Acquired
           \/ \E e \in Endpoints : Look(e)
  BY <1>4 DEF RunFn, NextAttempt, Pick, Acquired, Look, ErrorOfAttempt
<1>5. CASE Penalise \/ PassError
  <2>1. outcomes[attempt] # None
    BY <1>5 DEF Penalise, PassError, IInv, AttemptsInOrder
  <2>2. err' = outcomes[attempt] /\ err' \notin {"answer", "nothing"}
    BY <1>1, <1>5, <2>1, RememberedIsCurrent
       DEF Penalise, PassError, Blocked, ErrOf, HasErr
  <2> QED
    BY <1>5, <2>1, <2>2 DEF Penalise, PassError, memory, ErrorOfAttempt
<1>6. CASE Succeed
  <2>1. outcomes[attempt] # None
    BY <1>6 DEF Succeed, IInv, AttemptsInOrder
  <2>2. outcomes[attempt] \in {"answer", "nothing"}
    BY <1>1, <1>6, <2>1, RememberedIsCurrent
       DEF Succeed, Blocked, ErrOf, HasErr, Outcomes
  <2> QED
    BY <1>6, <2>2 DEF Succeed, memory, ErrorOfAttempt
<1>7. CASE Judge
  <2>1. /\ outcomes' = outcomes /\ attempt' = attempt /\ err' = err
        /\ pc' \in {"waiting", "finished"}
    BY <1>7 DEF Judge, memory
  <2>2. outcomes[attempt] \in Outcomes \cup {None}
    BY DEF IInv, TypeOK
  <2> QED
    BY <1>1, <1>7, <2>1, <2>2 DEF Judge, IInv, ErrorOfAttempt
<1>8. CASE StopWaiting
  <2>1. /\ outcomes' = outcomes /\ attempt' = attempt
        /\ pc' = "finished" /\ err' \in Stops
    BY <1>1, <1>8 DEF StopWaiting, memory, IInv, TypeOK
  <2>2. outcomes[attempt] \notin {"answer", "nothing"}
    BY <1>1, <1>8 DEF StopWaiting, IInv, ErrorOfAttempt, Outcomes
  <2> QED
    BY <1>1, <2>1, <2>2 DEF ErrorOfAttempt
<1>9. CASE Return
  BY <1>9 DEF Return, memory, IInv, ErrorOfAttempt, Picked, Explained, Answered
<1>10. CASE EndContext \/ Elsewhere
  BY <1>10 DEF EndContext, Elsewhere, memory, IInv, ErrorOfAttempt
<1> QED
  BY <1>2, <1>3, <1>4, <1>5, <1>6, <1>7, <1>8, <1>9, <1>10 DEF Next, CallNext

(* The scan's findings were true at some moment of it.                     *)
LEMMA ScanKept == IInv /\ Next => ScanWitnessed'
<1> SUFFICES ASSUME TypeOK, ScanWitnessed, Next PROVE ScanWitnessed'
  BY DEF IInv
<1>1. pc' = "selecting" =>
        /\ alive' \subseteq seenIn' /\ Endpoints \ alive' \subseteq seenOut'
        /\ pc = "selecting" => seenIn \subseteq seenIn'
                               /\ seenOut \subseteq seenOut'
  BY DEF Next, Notice
<1>2. CASE Resolve \/ Start \/ NextAttempt
  BY <1>1, <1>2 DEF Resolve, Start, NextAttempt, NoCandidates, scan,
                    ScanWitnessed
<1>3. ASSUME NEW e \in Endpoints, Look(e)
      PROVE  ScanWitnessed'
  BY <1>1, <1>3 DEF Look, shared, ScanWitnessed
<1>4. CASE \/ Pick \/ FindNone \/ AcquireFails \/ Acquired \/ RunFn
           \/ Penalise \/ PassError \/ Succeed \/ Judge \/ StopWaiting
           \/ Return
  BY <1>4 DEF Pick, FindNone, AcquireFails, Acquired, RunFn, Penalise,
              PassError, Succeed, Judge, StopWaiting, Return, ScanWitnessed
<1>5. CASE EndContext \/ Elsewhere
  BY <1>1, <1>5 DEF EndContext, Elsewhere, scan, ScanWitnessed
<1> QED
  BY <1>2, <1>3, <1>4, <1>5 DEF Next, CallNext

(* The inductive invariant holds in every reachable state.                 *)
THEOREM Invariant == Spec => []IInv
<1>1. Init => IInv
  <2> SUFFICES ASSUME Init PROVE IInv
    OBVIOUS
  <2> USE AttemptsAssumption, ThresholdAssumption DEF Init
  <2>1. TypeOK
    BY DEF TypeOK, Steps, Results
  <2>2. AttemptsInOrder /\ MemoryOfLastRun /\ ScanWitnessed
    BY DEF AttemptsInOrder, MemoryOfLastRun, ScanWitnessed
  <2>3. SettledIsLast /\ ErrorOfAttempt
    <3>1. None \notin Settling \cup FinalErrors
      BY NoneAssumption DEF Settling, FinalErrors, Outcomes, Errors
    <3>2. attempt \in 1..MaxAttempts /\ pc = "called"
      OBVIOUS
    <3> QED
      BY <3>1, <3>2 DEF SettledIsLast, ErrorOfAttempt
  <2> QED
    BY <2>1, <2>2, <2>3 DEF IInv
<1>2. IInv /\ UNCHANGED vars => IInv'
  <2> SUFFICES ASSUME IInv, UNCHANGED vars PROVE IInv'
    OBVIOUS
  <2> USE DEF vars, scan, memory, shared, history, IInv
  <2>1. TypeOK'
    BY DEF TypeOK
  <2>2. AttemptsInOrder' /\ ScanWitnessed' /\ SettledIsLast'
    BY DEF AttemptsInOrder, ScanWitnessed, SettledIsLast
  <2>3. MemoryOfLastRun'
    BY DEF MemoryOfLastRun, IsLastRun, Runs
  <2>4. ErrorOfAttempt'
    BY DEF ErrorOfAttempt, Picked, Explained, Answered
  <2> QED
    BY <2>1, <2>2, <2>3, <2>4
<1>3. IInv /\ Next => IInv'
  BY TypeKept, OrderKept, MemoryKept, SettledKept, ErrorKept, ScanKept
     DEF IInv
<1> QED
  BY <1>1, <1>2, <1>3, PTL DEF Spec

-----------------------------------------------------------------------------
(* Every variable keeps its type.                                          *)
THEOREM TypeCorrect == Spec => []TypeOK
<1>1. IInv => TypeOK
  BY DEF IInv
<1> QED
  BY <1>1, Invariant, PTL

(* The caller gets a response or an error, and the error is that of the    *)
(* last fn that ran or of what stopped the call after it.                  *)
THEOREM CallsAreExplained == Spec => []ErrorExplains
<1>1. IInv => ErrorExplains
  <2> SUFFICES ASSUME IInv, pc = "returned" PROVE ErrorExplains
    BY DEF ErrorExplains
  <2>1. /\ None \notin Errors \cup Outcomes
        /\ None \notin {"answer", "nothing", "nil response"}
        /\ "nil response" \notin Errors
    BY NoneAssumption DEF Errors, AcquireErrors, ContextEnds, ResolveErrors,
                          Outcomes
  <2>2. /\ result = Picked
        /\ err \in Errors \cup {None} /\ lastErr \in Errors \cup {None}
    BY DEF IInv, TypeOK, ErrorOfAttempt
  <2>3. lastErr # None =>
          \E i \in Runs : IsLastRun(i) /\ lastErr = outcomes[i]
    BY DEF IInv, MemoryOfLastRun, IsLastRun, ErrOf
  <2>4. CASE err # None
    <3>1. /\ result.resp = None => result.err # None
          /\ result.err \in {err, lastErr} /\ result.err # "nil response"
      BY <2>1, <2>2, <2>4 DEF Picked, Explained
    <3>2. result.err # err => lastErr # None
      BY <2>2, <2>4 DEF Picked, Explained
    <3> QED
      BY <2>3, <2>4, <3>1, <3>2 DEF ErrorExplains
  <2>5. CASE err = None
    <3>1. outcomes[attempt] \in {"answer", "nothing"}
      BY <2>5 DEF IInv, ErrorOfAttempt
    <3>2. /\ IsLastRun(attempt)
          /\ lastResp = IF outcomes[attempt] = "answer" THEN attempt ELSE None
      BY <2>1, <3>1, RememberedIsCurrent DEF HasResp
    <3>3. \A i \in Runs : IsLastRun(i) => i = attempt
      BY <3>2 DEF IsLastRun, Runs, IInv, TypeOK
    <3>4. attempt # None
      BY NoneAssumption DEF IInv, TypeOK
    <3>5. result = IF outcomes[attempt] = "answer"
                     THEN [resp |-> attempt, err |-> None]
                     ELSE [resp |-> None, err |-> "nil response"]
      BY <2>2, <2>5, <3>2, <3>4 DEF Picked, Answered
    <3>6. attempt \in Runs
      BY <3>2 DEF IsLastRun
    <3> QED
      BY <2>1, <2>5, <3>1, <3>2, <3>3, <3>4, <3>5, <3>6 DEF ErrorExplains
  <2> QED
    BY <2>4, <2>5
<1> QED
  BY <1>1, Invariant, PTL

(* The endpoint that is picked was in rotation at some moment of the scan, *)
(* and when none is, every one of them was out at some moment of it.       *)
THEOREM SelectionsAreFresh == Spec => SelectionFresh
<1>1. IInv /\ [Next]_vars =>
        [pc = "selecting" =>
           /\ pc' = "acquiring" => ep' \in seenIn
           /\ pc' = "judging" => seenOut = Endpoints]_vars
  <2> SUFFICES ASSUME IInv, Next, pc = "selecting"
               PROVE  /\ pc' = "acquiring" => ep' \in seenIn
                      /\ pc' = "judging" => seenOut = Endpoints
    OBVIOUS
  <2>1. pc' = "acquiring" => Pick
    BY DEF Next, CallNext, Resolve, Start, FindNone, AcquireFails, Acquired,
           Look, RunFn, Penalise, PassError, Succeed, Judge, NextAttempt,
           StopWaiting, Return, EndContext, Elsewhere
  <2>2. pc' = "judging" => FindNone
    BY DEF Next, CallNext, Resolve, Start, Pick, AcquireFails, Acquired,
           Look, RunFn, Penalise, PassError, Succeed, Judge, NextAttempt,
           StopWaiting, Return, EndContext, Elsewhere
  <2> QED
    BY <2>1, <2>2 DEF Pick, FindNone, NoneLeft, IInv, TypeOK, ScanWitnessed
<1> QED
  BY <1>1, Invariant, PTL DEF Spec, SelectionFresh

-----------------------------------------------------------------------------
(* RequestRetry implements ProxyCall                                       *)

(* The result is the one due for the last run of fn.                       *)
LEMMA ReplyIsDue ==
  ASSUME IInv, pc = "finished", NEW i \in 1..MaxAttempts, IsLastRun(i),
         lastResp = IF HasResp(outcomes[i]) THEN i ELSE None,
         lastErr = ErrOf(outcomes[i])
  PROVE  Picked \in Call!Due(i)
<1> DEFINE o == outcomes[i]
<1>1. o \in Outcomes /\ i # None /\ None \notin Outcomes
  BY NoneAssumption DEF IsLastRun, Runs, IInv, TypeOK
<1>2. CASE err = None
  <2>1. outcomes[attempt] \in {"answer", "nothing"}
    BY <1>2 DEF IInv, ErrorOfAttempt
  <2>2. outcomes[attempt] # None
    BY <1>1, <2>1 DEF Outcomes
  <2>3. i = attempt
    BY <2>2, RememberedIsCurrent DEF IsLastRun, Runs, IInv, TypeOK
  <2>4. Picked = IF o = "answer" THEN [resp |-> i, err |-> None]
                                 ELSE [resp |-> None, err |-> "nil response"]
    BY <1>1, <1>2, <2>1, <2>3 DEF Picked, Answered, HasResp
  <2> QED
    BY <1>1, <2>1, <2>3, <2>4 DEF Call!Due, HasResp, HasErr, Outcomes
<1>3. CASE err # None
  <2>1. o \notin {"answer", "nothing"}
    <3>1. o \in Settling => i = attempt
      BY DEF IInv, SettledIsLast
    <3> QED
      BY <1>3, <3>1 DEF Settling, IInv, ErrorOfAttempt
  <2>2. err \in Stops \/ err = o
    <3>1. err \in Stops \/ (err = outcomes[attempt] /\ err \in Outcomes)
      BY <1>3 DEF IInv, ErrorOfAttempt, TypeOK
    <3>2. outcomes[attempt] # None => i = attempt
      BY RememberedIsCurrent DEF IsLastRun, Runs, IInv, TypeOK
    <3> QED
      BY <1>3, <3>1, <3>2
  <2>3. CASE HasResp(o)
    <3>1. Picked = [resp |-> i, err |-> err]
      BY <1>1, <1>3, <2>3 DEF Picked, Explained
    <3>2. o \in {"blocked answer", "blocked error and answer",
                "error and answer", "Canceled and answer"}
      BY <1>1, <2>1, <2>3 DEF HasResp
    <3> QED
      BY <1>1, <2>2, <3>1, <3>2 DEF Call!Due, HasResp, HasErr, Outcomes
  <2>4. CASE ~HasResp(o)
    <3>1. o \in {"blocked error", "error", "Canceled"}
      BY <1>1, <2>1, <2>4 DEF HasResp, Outcomes
    <3>2. Picked = [resp |-> None, err |-> o]
      BY <1>1, <1>3, <2>4, <3>1 DEF Picked, Explained, ErrOf, HasErr
    <3> QED
      BY <3>1, <3>2 DEF Call!Due, HasResp, HasErr, Outcomes
  <2> QED
    BY <2>3, <2>4
<1> QED
  BY <1>2, <1>3

(* Every step of the call runs fn, answers, refuses, or is invisible to    *)
(* the caller.                                                             *)
LEMMA StepImplements == IInv /\ [Next]_vars => [Call!Next]_(Call!vars)
<1> DEFINE Reply == IF pc = "returned" THEN result ELSE None
<1> SUFFICES ASSUME IInv, [Next]_vars
             PROVE  Call!Next \/ (outcomes' = outcomes /\ Reply' = Reply)
  BY DEF Call!vars
<1>1. CASE RunFn
  <2>1. Reply = None /\ Reply' = None
    BY <1>1 DEF RunFn
  <2>2. attempt \in 1..MaxAttempts
    BY DEF IInv, TypeOK
  <2>3. \A j \in attempt..MaxAttempts : outcomes[j] = None
    BY <1>1, <2>2, AttemptsAssumption DEF RunFn, IInv, AttemptsInOrder
  <2>4. \A j \in 1..MaxAttempts : outcomes[j] \notin Settling
    BY <1>1 DEF RunFn, IInv, SettledIsLast
  <2>5. \E o \in Outcomes : outcomes' = [outcomes EXCEPT ![attempt] = o]
    BY <1>1 DEF RunFn
  <2>6. Call!Run(attempt)
    BY <2>1, <2>3, <2>4, <2>5 DEF Call!Run
  <2> QED
    BY <2>2, <2>6 DEF Call!Next
<1>2. CASE Return
  <2>1. /\ Reply = None /\ Reply' = Picked
        /\ outcomes' = outcomes /\ pc = "finished"
    BY <1>2 DEF Return, memory
  <2>2. CASE \A j \in 1..MaxAttempts : outcomes[j] = None
    <3>1. lastResp = None /\ lastErr = None
      BY <2>2, NothingRemembered
    <3>2. outcomes[attempt] = None /\ None \notin {"answer", "nothing"}
      BY <2>2, NoneAssumption DEF IInv, TypeOK, Outcomes
    <3>3. err \in Stops /\ err # None
      BY <2>1, <3>2 DEF IInv, ErrorOfAttempt
    <3>4. Picked = [resp |-> None, err |-> err]
      BY <3>1, <3>3 DEF Picked, Explained
    <3> QED
      BY <2>1, <2>2, <3>3, <3>4 DEF Call!Refuse, Call!Next
  <2>3. CASE ~ \A j \in 1..MaxAttempts : outcomes[j] = None
    <3>1. PICK i \in 1..MaxAttempts :
            /\ IsLastRun(i)
            /\ lastResp = IF HasResp(outcomes[i]) THEN i ELSE None
            /\ lastErr = ErrOf(outcomes[i])
      BY <2>3 DEF IInv, MemoryOfLastRun
    <3>2. Picked \in Call!Due(i)
      BY <2>1, <3>1, ReplyIsDue
    <3>3. /\ outcomes[i] # None
          /\ \A j \in 1..MaxAttempts : j > i => outcomes[j] = None
      BY <3>1, AttemptsAssumption DEF IsLastRun, Runs
    <3> QED
      BY <2>1, <3>2, <3>3 DEF Call!Answer, Call!Next
  <2> QED
    BY <2>2, <2>3
<1>3. CASE Resolve
  <2>1. /\ Reply = None /\ outcomes' = outcomes
        /\ \A j \in 1..MaxAttempts : outcomes[j] = None
    BY <1>3 DEF Resolve, memory, IInv, AttemptsInOrder
  <2>2. \/ Reply' = None
        \/ \E e \in Stops : Reply' = [resp |-> None, err |-> e]
    BY <1>3 DEF Resolve, ResolveError, Stops, ResolveErrors
  <2> QED
    BY <2>1, <2>2 DEF Call!Refuse, Call!Next
<1>4. CASE Next /\ ~RunFn /\ ~Return /\ ~Resolve
  <2>1. outcomes' = outcomes
    BY <1>4, OnlyFnWritesMemory
  <2>2. pc # "returned" /\ pc' # "returned"
    BY <1>4 DEF Next, CallNext, Start, Pick, FindNone, AcquireFails, Acquired,
                Look, Penalise, PassError, Succeed, Judge, NextAttempt,
                StopWaiting, EndContext, Elsewhere
  <2> QED
    BY <2>1, <2>2
<1>5. CASE UNCHANGED vars
  BY <1>5 DEF vars, memory
<1> QED
  BY <1>1, <1>2, <1>3, <1>4, <1>5

(* The call keeps its promise: the reply is the one due for the last run   *)
(* of fn, which never runs again once the call is settled.                 *)
THEOREM ImplementsCall == Spec => CallSpec
<1>1. Init => Call!Init
  BY DEF Init, Call!Init
<1> QED
  BY <1>1, Invariant, StepImplements, PTL DEF Spec, CallSpec, Call!Spec
=============================================================================
