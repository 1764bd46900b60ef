------------------------ MODULE EndpointHealthProofs ------------------------
(***************************************************************************)
(* Proofs about EndpointHealth, for any number of requests and recoveries  *)
(* and any threshold.                                                      *)
(***************************************************************************)
EXTENDS EndpointHealth, TLAPS

USE DEF Workers

(* The initial values have their types.                                    *)
LEMMA InitTyped == Init => TypeOK
<1> USE FailThresholdAssumption, MaxShiftAssumption
<1> SUFFICES ASSUME Init PROVE TypeOK
  OBVIOUS
<1>1. /\ failCount \in 0..FailThreshold
      /\ cooldownTier \in 0..(MaxShift + 1)
      /\ tier \in 0..(MaxShift + 1)
      /\ shift \in Int
  BY DEF Init
<1>2. /\ timer \in [Timers -> TimerSteps]
      /\ pc \in [Workers -> WorkerSteps]
      /\ cancelled \in SUBSET Timers
  BY DEF Init, TimerSteps, WorkerSteps
<1>3. /\ state \in States
      /\ mu \in Workers \cup Timers \cup {None}
      /\ cancelCooldown \in Timers \cup {None}
      /\ admin \in AdminSteps
      /\ closing \in BOOLEAN
  BY DEF Init, States, AdminSteps
<1> QED
  BY <1>1, <1>2, <1>3 DEF TypeOK

(* Every step keeps every variable's type.                                 *)
LEMMA TypeKept == TypeOK /\ [Next]_vars => TypeOK'
<1> USE FailThresholdAssumption, MaxShiftAssumption
<1> SUFFICES ASSUME TypeOK, [Next]_vars PROVE TypeOK'
  OBVIOUS
<1> USE DEF TypeOK, States, WorkerSteps, TimerSteps, AdminSteps, Goto,
            TimerGoto, Exit
<1>1. ASSUME NEW w \in Workers, Select(w) PROVE TypeOK'
  BY <1>1 DEF Select
<1>2. ASSUME NEW w \in Workers, Ignore(w) PROVE TypeOK'
  BY <1>2 DEF Ignore
<1>3. ASSUME NEW w \in Workers, CountFailure(w) PROVE TypeOK'
  BY <1>3 DEF CountFailure, MoreFails
<1>4. ASSUME NEW w \in Workers, CheckThreshold(w) PROVE TypeOK'
  BY <1>4 DEF CheckThreshold
<1>5. ASSUME NEW w \in Workers, Succeed(w) PROVE TypeOK'
  BY <1>5 DEF Succeed
<1>6. ASSUME NEW w \in Workers, ClearFails(w) PROVE TypeOK'
  BY <1>6 DEF ClearFails
<1>7. ASSUME NEW w \in Workers, EnterCooldown(w) PROVE TypeOK'
  BY <1>7 DEF EnterCooldown, Lock
<1>8. ASSUME NEW w \in Workers, Escalate(w) PROVE TypeOK'
  BY <1>8 DEF Escalate, CancelledWith, NextTier
<1>9. ASSUME NEW w \in Workers, Arm(w) PROVE TypeOK'
  BY <1>9 DEF Arm, ArmedShift, Spawn, Unlock
<1>10. ASSUME NEW k \in Timers, TimerNext(k) PROVE TypeOK'
  BY <1>10 DEF TimerNext, Wake, Abandon, Recover, Lock, GiveUp, Revive,
               FinishRecovery, RecoveredFails, Unlock
<1>11. CASE AdminNext
  BY <1>11 DEF AdminNext, MarkDead, ResetState, ResetFails, ResetTier
<1>12. CASE Close
  BY <1>12 DEF Close, CancelledWith
<1>13. CASE UNCHANGED vars
  BY <1>13 DEF vars
<1> QED
  BY <1>1, <1>2, <1>3, <1>4, <1>5, <1>6, <1>7, <1>8, <1>9, <1>10, <1>11,
     <1>12, <1>13 DEF Next, WorkerNext

(* Every variable keeps its type under every goroutine's steps.            *)
THEOREM TypeCorrect == Spec => []TypeOK
BY InitTyped, TypeKept, PTL DEF Spec

(* The state and the counters stay what they are while a step leaves them  *)
(* alone, so the invariant survives stuttering.                            *)
LEMMA Stutter == IInv /\ UNCHANGED vars => IInv'
BY DEF IInv, vars, TypeOK, CriticalSections, Locking, RecoveryCancellable,
       RecoveryArmed, FailuresHandled, EscalationFaithful, Live

(* The critical sections keep excluding each other and keep what they rely *)
(* on, whatever goroutine steps.                                           *)
LEMMA SectionsKept == IInv /\ Next => CriticalSections'
<1> SUFFICES ASSUME IInv, Next PROVE CriticalSections'
  OBVIOUS
<1> USE GoroutinesAssumption, MaxShiftAssumption
    DEF IInv, CriticalSections, Locking, TypeOK, WorkerSteps, TimerSteps, Live,
        Goto, TimerGoto, Exit
<1>1. ASSUME NEW w \in Workers, Select(w) PROVE CriticalSections'
  BY <1>1 DEF Select
<1>2. ASSUME NEW w \in Workers, Ignore(w) PROVE CriticalSections'
  BY <1>2 DEF Ignore
<1>3. ASSUME NEW w \in Workers, CountFailure(w) PROVE CriticalSections'
  BY <1>3 DEF CountFailure
<1>4. ASSUME NEW w \in Workers, CheckThreshold(w) PROVE CriticalSections'
  BY <1>4 DEF CheckThreshold
<1>5. ASSUME NEW w \in Workers, Succeed(w) PROVE CriticalSections'
  BY <1>5 DEF Succeed
<1>6. ASSUME NEW w \in Workers, ClearFails(w) PROVE CriticalSections'
  BY <1>6 DEF ClearFails
<1>7. ASSUME NEW w \in Workers, EnterCooldown(w) PROVE CriticalSections'
  BY <1>7 DEF EnterCooldown, Lock
<1>8. ASSUME NEW w \in Workers, Escalate(w) PROVE CriticalSections'
  BY <1>8 DEF Escalate, CancelledWith, NextTier, RecoveryCancellable
<1>9. ASSUME NEW w \in Workers, Arm(w) PROVE CriticalSections'
  BY <1>9 DEF Arm, Spawn, Unlock
<1>10. ASSUME NEW k \in Timers, Wake(k) PROVE CriticalSections'
  BY <1>10 DEF Wake
<1>11. ASSUME NEW k \in Timers, Abandon(k) PROVE CriticalSections'
  BY <1>11 DEF Abandon
<1>12. ASSUME NEW k \in Timers, Recover(k) PROVE CriticalSections'
  BY <1>12 DEF Recover, Lock
<1>13. ASSUME NEW k \in Timers, GiveUp(k) PROVE CriticalSections'
  BY <1>13 DEF GiveUp
<1>14. ASSUME NEW k \in Timers, Revive(k) PROVE CriticalSections'
  BY <1>14 DEF Revive
<1>15. ASSUME NEW k \in Timers, FinishRecovery(k) PROVE CriticalSections'
  BY <1>15 DEF FinishRecovery, RecoveredFails, Unlock
<1>16. CASE AdminNext
  BY <1>16 DEF AdminNext, MarkDead, ResetState, ResetFails, ResetTier
<1>17. CASE Close
  BY <1>17 DEF Close, CancelledWith
<1> QED
  BY <1>1, <1>2, <1>3, <1>4, <1>5, <1>6, <1>7, <1>8, <1>9, <1>10, <1>11,
     <1>12, <1>13, <1>14, <1>15, <1>16, <1>17 DEF Next, WorkerNext, TimerNext

(* A recovery that is not cancelled stays the one cancelCooldown names.    *)
LEMMA CancellableKept == IInv /\ Next => RecoveryCancellable'
<1> SUFFICES ASSUME IInv, Next PROVE RecoveryCancellable'
  OBVIOUS
<1> USE GoroutinesAssumption
    DEF IInv, CriticalSections, Locking, TypeOK, WorkerSteps, TimerSteps, Live,
        Goto, TimerGoto, Exit, RecoveryCancellable
<1>1. ASSUME NEW w \in Workers, Select(w) PROVE RecoveryCancellable'
  BY <1>1 DEF Select, Selectable
<1>2. ASSUME NEW w \in Workers, Ignore(w) PROVE RecoveryCancellable'
  BY <1>2 DEF Ignore
<1>3. ASSUME NEW w \in Workers, CountFailure(w) PROVE RecoveryCancellable'
  BY <1>3 DEF CountFailure, MoreFails
<1>4. ASSUME NEW w \in Workers, CheckThreshold(w) PROVE RecoveryCancellable'
  BY <1>4 DEF CheckThreshold
<1>5. ASSUME NEW w \in Workers, Succeed(w) PROVE RecoveryCancellable'
  BY <1>5 DEF Succeed
<1>6. ASSUME NEW w \in Workers, ClearFails(w) PROVE RecoveryCancellable'
  BY <1>6 DEF ClearFails
<1>7. ASSUME NEW w \in Workers, EnterCooldown(w) PROVE RecoveryCancellable'
  BY <1>7 DEF EnterCooldown, Lock
<1>8. ASSUME NEW w \in Workers, Escalate(w) PROVE RecoveryCancellable'
  BY <1>8 DEF Escalate, CancelledWith, NextTier
<1>9. ASSUME NEW w \in Workers, Arm(w) PROVE RecoveryCancellable'
  BY <1>9 DEF Arm, ArmedShift, Spawn, Unlock
<1>10. ASSUME NEW k \in Timers, Wake(k) PROVE RecoveryCancellable'
  BY <1>10 DEF Wake
<1>11. ASSUME NEW k \in Timers, Abandon(k) PROVE RecoveryCancellable'
  BY <1>11 DEF Abandon
<1>12. ASSUME NEW k \in Timers, Recover(k) PROVE RecoveryCancellable'
  BY <1>12 DEF Recover, StillCooling, Lock
<1>13. ASSUME NEW k \in Timers, GiveUp(k) PROVE RecoveryCancellable'
  BY <1>13 DEF GiveUp, StillCooling
<1>14. ASSUME NEW k \in Timers, Revive(k) PROVE RecoveryCancellable'
  BY <1>14 DEF Revive
<1>15. ASSUME NEW k \in Timers, FinishRecovery(k) PROVE RecoveryCancellable'
  BY <1>15 DEF FinishRecovery, RecoveredFails, Unlock
<1>16. CASE AdminNext
  BY <1>16 DEF AdminNext, MarkDead, ResetState, ResetFails, ResetTier
<1>17. CASE Close
  BY <1>17 DEF Close, CancelledWith
<1> QED
  BY <1>1, <1>2, <1>3, <1>4, <1>5, <1>6, <1>7, <1>8, <1>9, <1>10, <1>11,
     <1>12, <1>13, <1>14, <1>15, <1>16, <1>17 DEF Next, WorkerNext, TimerNext

(* A cooling endpoint keeps its recovery.                                  *)
LEMMA ArmedKept == IInv /\ Next => RecoveryArmed'
<1> SUFFICES ASSUME IInv, Next PROVE RecoveryArmed'
  OBVIOUS
<1> USE GoroutinesAssumption
    DEF IInv, CriticalSections, Locking, TypeOK, WorkerSteps, TimerSteps, Live,
        Goto, TimerGoto, Exit,
        RecoveryCancellable, RecoveryArmed
<1>1. ASSUME NEW w \in Workers, Select(w) PROVE RecoveryArmed'
  BY <1>1 DEF Select, Selectable
<1>2. ASSUME NEW w \in Workers, Ignore(w) PROVE RecoveryArmed'
  BY <1>2 DEF Ignore
<1>3. ASSUME NEW w \in Workers, CountFailure(w) PROVE RecoveryArmed'
  BY <1>3 DEF CountFailure, MoreFails
<1>4. ASSUME NEW w \in Workers, CheckThreshold(w) PROVE RecoveryArmed'
  BY <1>4 DEF CheckThreshold
<1>5. ASSUME NEW w \in Workers, Succeed(w) PROVE RecoveryArmed'
  BY <1>5 DEF Succeed
<1>6. ASSUME NEW w \in Workers, ClearFails(w) PROVE RecoveryArmed'
  BY <1>6 DEF ClearFails
<1>7. ASSUME NEW w \in Workers, EnterCooldown(w) PROVE RecoveryArmed'
  BY <1>7 DEF EnterCooldown, Lock
<1>8. ASSUME NEW w \in Workers, Escalate(w) PROVE RecoveryArmed'
  BY <1>8 DEF Escalate, CancelledWith, NextTier
<1>9. ASSUME NEW w \in Workers, Arm(w) PROVE RecoveryArmed'
  BY <1>9 DEF Arm, ArmedShift, Spawn, Unlock
<1>10. ASSUME NEW k \in Timers, Wake(k) PROVE RecoveryArmed'
  BY <1>10 DEF Wake
<1>11. ASSUME NEW k \in Timers, Abandon(k) PROVE RecoveryArmed'
  BY <1>11 DEF Abandon
<1>12. ASSUME NEW k \in Timers, Recover(k) PROVE RecoveryArmed'
  BY <1>12 DEF Recover, StillCooling, Lock
<1>13. ASSUME NEW k \in Timers, GiveUp(k) PROVE RecoveryArmed'
  BY <1>13 DEF GiveUp, StillCooling
<1>14. ASSUME NEW k \in Timers, Revive(k) PROVE RecoveryArmed'
  BY <1>14 DEF Revive
<1>15. ASSUME NEW k \in Timers, FinishRecovery(k) PROVE RecoveryArmed'
  BY <1>15 DEF FinishRecovery, RecoveredFails, Unlock
<1>16. CASE AdminNext
  BY <1>16 DEF AdminNext, MarkDead, ResetState, ResetFails, ResetTier
<1>17. CASE Close
  BY <1>17 DEF Close, CancelledWith
<1> QED
  BY <1>1, <1>2, <1>3, <1>4, <1>5, <1>6, <1>7, <1>8, <1>9, <1>10, <1>11,
     <1>12, <1>13, <1>14, <1>15, <1>16, <1>17 DEF Next, WorkerNext, TimerNext

(* A reached threshold keeps someone who acts on it.                       *)
LEMMA HandledKept == IInv /\ Next => FailuresHandled'
<1> SUFFICES ASSUME IInv, Next PROVE FailuresHandled'
  OBVIOUS
<1> USE GoroutinesAssumption, FailThresholdAssumption
    DEF IInv, CriticalSections, Locking, TypeOK, WorkerSteps, TimerSteps, Live,
        Goto, TimerGoto, Exit,
        AdminSteps, States, FailuresHandled
<1>1. ASSUME NEW w \in Workers, Select(w) PROVE FailuresHandled'
  BY <1>1 DEF Select, Selectable
<1>2. ASSUME NEW w \in Workers, Ignore(w) PROVE FailuresHandled'
  BY <1>2 DEF Ignore
<1>3. ASSUME NEW w \in Workers, CountFailure(w) PROVE FailuresHandled'
  BY <1>3 DEF CountFailure, MoreFails
<1>4. ASSUME NEW w \in Workers, CheckThreshold(w) PROVE FailuresHandled'
  BY <1>4 DEF CheckThreshold
<1>5. ASSUME NEW w \in Workers, Succeed(w) PROVE FailuresHandled'
  BY <1>5 DEF Succeed
<1>6. ASSUME NEW w \in Workers, ClearFails(w) PROVE FailuresHandled'
  BY <1>6 DEF ClearFails
<1>7. ASSUME NEW w \in Workers, EnterCooldown(w) PROVE FailuresHandled'
  BY <1>7 DEF EnterCooldown, Lock
<1>8. ASSUME NEW w \in Workers, Escalate(w) PROVE FailuresHandled'
  BY <1>8 DEF Escalate, CancelledWith, NextTier
<1>9. ASSUME NEW w \in Workers, Arm(w) PROVE FailuresHandled'
  BY <1>9 DEF Arm, ArmedShift, Spawn, Unlock
<1>10. ASSUME NEW k \in Timers, Wake(k) PROVE FailuresHandled'
  BY <1>10 DEF Wake
<1>11. ASSUME NEW k \in Timers, Abandon(k) PROVE FailuresHandled'
  BY <1>11 DEF Abandon
<1>12. ASSUME NEW k \in Timers, Recover(k) PROVE FailuresHandled'
  BY <1>12 DEF Recover, StillCooling, Lock
<1>13. ASSUME NEW k \in Timers, GiveUp(k) PROVE FailuresHandled'
  BY <1>13 DEF GiveUp, StillCooling
<1>14. ASSUME NEW k \in Timers, Revive(k) PROVE FailuresHandled'
  BY <1>14 DEF Revive
<1>15. ASSUME NEW k \in Timers, FinishRecovery(k) PROVE FailuresHandled'
  BY <1>15 DEF FinishRecovery, RecoveredFails, Unlock
<1>16. CASE AdminNext
  BY <1>16 DEF AdminNext, MarkDead, ResetState, ResetFails, ResetTier
<1>17. CASE Close
  BY <1>17 DEF Close, CancelledWith
<1> QED
  BY <1>1, <1>2, <1>3, <1>4, <1>5, <1>6, <1>7, <1>8, <1>9, <1>10, <1>11,
     <1>12, <1>13, <1>14, <1>15, <1>16, <1>17 DEF Next, WorkerNext, TimerNext

(* The armed shift stays the one the tier stands for.                      *)
LEMMA EscalationKept == IInv /\ Next => EscalationFaithful'
<1> SUFFICES ASSUME IInv, Next PROVE EscalationFaithful'
  OBVIOUS
<1> USE GoroutinesAssumption, MaxShiftAssumption
    DEF IInv, CriticalSections, Locking, TypeOK, WorkerSteps, TimerSteps, Live,
        Goto, TimerGoto, Exit,
        EscalationFaithful
<1>1. ASSUME NEW w \in Workers, Select(w) PROVE EscalationFaithful'
  BY <1>1 DEF Select, Selectable
<1>2. ASSUME NEW w \in Workers, Ignore(w) PROVE EscalationFaithful'
  BY <1>2 DEF Ignore
<1>3. ASSUME NEW w \in Workers, CountFailure(w) PROVE EscalationFaithful'
  BY <1>3 DEF CountFailure, MoreFails
<1>4. ASSUME NEW w \in Workers, CheckThreshold(w) PROVE EscalationFaithful'
  BY <1>4 DEF CheckThreshold
<1>5. ASSUME NEW w \in Workers, Succeed(w) PROVE EscalationFaithful'
  BY <1>5 DEF Succeed
<1>6. ASSUME NEW w \in Workers, ClearFails(w) PROVE EscalationFaithful'
  BY <1>6 DEF ClearFails
<1>7. ASSUME NEW w \in Workers, EnterCooldown(w) PROVE EscalationFaithful'
  BY <1>7 DEF EnterCooldown, Lock
<1>8. ASSUME NEW w \in Workers, Escalate(w) PROVE EscalationFaithful'
  BY <1>8 DEF Escalate, CancelledWith, NextTier
<1>9. ASSUME NEW w \in Workers, Arm(w) PROVE EscalationFaithful'
  BY <1>9 DEF Arm, ArmedShift, Spawn, Unlock
<1>10. ASSUME NEW k \in Timers, Wake(k) PROVE EscalationFaithful'
  BY <1>10 DEF Wake
<1>11. ASSUME NEW k \in Timers, Abandon(k) PROVE EscalationFaithful'
  BY <1>11 DEF Abandon
<1>12. ASSUME NEW k \in Timers, Recover(k) PROVE EscalationFaithful'
  BY <1>12 DEF Recover, StillCooling, Lock
<1>13. ASSUME NEW k \in Timers, GiveUp(k) PROVE EscalationFaithful'
  BY <1>13 DEF GiveUp, StillCooling
<1>14. ASSUME NEW k \in Timers, Revive(k) PROVE EscalationFaithful'
  BY <1>14 DEF Revive
<1>15. ASSUME NEW k \in Timers, FinishRecovery(k) PROVE EscalationFaithful'
  BY <1>15 DEF FinishRecovery, RecoveredFails, Unlock
<1>16. CASE AdminNext
  BY <1>16 DEF AdminNext, MarkDead, ResetState, ResetFails, ResetTier
<1>17. CASE Close
  BY <1>17 DEF Close, CancelledWith
<1> QED
  BY <1>1, <1>2, <1>3, <1>4, <1>5, <1>6, <1>7, <1>8, <1>9, <1>10, <1>11,
     <1>12, <1>13, <1>14, <1>15, <1>16, <1>17 DEF Next, WorkerNext, TimerNext

(* The inductive invariant holds in every reachable state.                 *)
THEOREM Invariant == Spec => []IInv
<1>1. Init => IInv
  <2> SUFFICES ASSUME Init PROVE IInv
    OBVIOUS
  <2>1. TypeOK
    BY InitTyped
  <2>2. CriticalSections
    BY GoroutinesAssumption DEF Init, CriticalSections, Locking
  <2>3. RecoveryCancellable /\ RecoveryArmed
    BY DEF Init, RecoveryCancellable, RecoveryArmed, Live
  <2>4. FailuresHandled
    BY FailThresholdAssumption DEF Init, FailuresHandled
  <2>5. EscalationFaithful
    BY MaxShiftAssumption DEF Init, EscalationFaithful
  <2> QED
    BY <2>1, <2>2, <2>3, <2>4, <2>5 DEF IInv
<1>2. IInv /\ [Next]_vars => IInv'
  BY Stutter, TypeKept, SectionsKept, CancellableKept, ArmedKept, HandledKept,
     EscalationKept DEF IInv
<1> QED
  BY <1>1, <1>2, PTL DEF Spec

(* An endpoint in cooldown always has a running, uncancelled recovery that *)
(* cancelCooldown names, whatever interleaving of markFailed, recoveries,  *)
(* MarkEndpointDead and ResetEndpoint led there, until Close.              *)
THEOREM CooldownNeverForgotten == Spec => []RecoveryArmed
<1>1. IInv => RecoveryArmed
  BY DEF IInv
<1> QED
  BY <1>1, Invariant, PTL

(* At most one recovery goroutine is in force and markFailed or Close can  *)
(* stop it.                                                                *)
THEOREM OneRecoveryInForce == Spec => []RecoveryCancellable
<1>1. IInv => RecoveryCancellable
  BY DEF IInv
<1> QED
  BY <1>1, Invariant, PTL

(* No endpoint stays in rotation at its failure threshold with nobody left *)
(* to act on it.                                                           *)
THEOREM NoFailureForgotten == Spec => []FailuresHandled
<1>1. IInv => FailuresHandled
  BY DEF IInv
<1> QED
  BY <1>1, Invariant, PTL

(* The shift of a cooldown is never negative, never above its cap, and the *)
(* one the escalation counter stands for.                                  *)
THEOREM ShiftAlwaysLegal == Spec => []EscalationFaithful
<1>1. IInv => EscalationFaithful
  BY DEF IInv
<1> QED
  BY <1>1, Invariant, PTL

(* mu excludes: one markFailed or one recovery at a time is inside its     *)
(* critical section, and what it relies on while inside holds.             *)
THEOREM SectionsExclude == Spec => []CriticalSections
<1>1. IInv => CriticalSections
  BY DEF IInv
<1> QED
  BY <1>1, Invariant, PTL

(* Once nothing is in flight on it, a retired endpoint stays retired and   *)
(* idle until ResetEndpoint.                                               *)
THEOREM RetiredStaysRetired == Spec => RetirementSticks
<1>1. TypeOK /\ [Next]_vars =>
        [state = "dead" /\ Quiescent =>
           (state' = "dead" /\ Quiescent') \/ ResetState]_vars
  <2> SUFFICES ASSUME TypeOK, Next, state = "dead", Quiescent, ~ResetState
               PROVE  state' = "dead" /\ Quiescent'
    OBVIOUS
  <2> USE DEF TypeOK, Quiescent, Goto, TimerGoto, Exit, WorkerSteps, TimerSteps
  <2>1. ASSUME NEW w \in Workers, WorkerNext(w)
        PROVE  state' = "dead" /\ Quiescent'
    BY <2>1 DEF WorkerNext, Select, Selectable, Ignore, CountFailure,
                CheckThreshold, Succeed, ClearFails, EnterCooldown, Escalate,
                Arm
  <2>2. ASSUME NEW k \in Timers, TimerNext(k)
        PROVE  state' = "dead" /\ Quiescent'
    BY <2>2 DEF TimerNext, Wake, Abandon, Recover, StillCooling, GiveUp,
                Revive, FinishRecovery
  <2>3. CASE AdminNext
    BY <2>3 DEF AdminNext, MarkDead, ResetFails, ResetTier
  <2>4. CASE Close
    BY <2>4 DEF Close
  <2> QED
    BY <2>1, <2>2, <2>3, <2>4 DEF Next
<1> QED
  BY <1>1, TypeCorrect, PTL DEF Spec, RetirementSticks
=============================================================================
