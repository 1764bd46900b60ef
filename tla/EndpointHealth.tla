--------------------------- MODULE EndpointHealth ---------------------------
(***************************************************************************)
(* The health of one proxy endpoint (endpoint.go): in rotation, cooling    *)
(* down, or retired.  Several goroutines change it at once:                *)
(*                                                                         *)
(*   - request attempts (Client.DoForDomain) and the health checker        *)
(*     (healthChecker.checkAll), which count failures and move the         *)
(*     endpoint into cooldown (endpoint.markFailed);                       *)
(*   - the recovery goroutine that each markFailed starts, which sleeps    *)
(*     for the cooldown and puts the endpoint back in rotation;            *)
(*   - the administrative calls MarkEndpointDead and ResetEndpoint;        *)
(*   - endpoint.Close, which cancels the recovery.                         *)
(*                                                                         *)
(* state, failCount and cooldownTier are Go atomics: a step is one atomic  *)
(* operation on them.  mu guards markFailed, the recovery and Close, but   *)
(* not MarkEndpointDead, ResetEndpoint or the counters.  The duration of a *)
(* cooldown is abstracted to its shift (multiplier 2^shift); a sleeping    *)
(* recovery may wake at any time.                                          *)
(***************************************************************************)
EXTENDS Integers, FiniteSets

CONSTANTS
  Requests,       \* goroutines running request attempts
  Checker,        \* the health checker's goroutine
  Timers,         \* identities of recovery goroutines, reused once exited
  None,           \* nil: no lock holder, no cancel function
  FailThreshold,  \* RetryConfig.failThreshold()
  MaxShift        \* cap of the cooldown multiplier's shift (4 in the code)

Workers == Requests \cup {Checker}

ASSUME FailThresholdAssumption == FailThreshold \in Nat \ {0}
ASSUME MaxShiftAssumption == MaxShift \in Nat
ASSUME GoroutinesAssumption ==
  /\ Checker \notin Requests
  /\ Workers \cap Timers = {}
  /\ None \notin Workers \cup Timers

VARIABLES
  state,           \* endpoint.state
  failCount,       \* endpoint.failCount, saturated at FailThreshold
  cooldownTier,    \* endpoint.cooldownTier, saturated at MaxShift + 1
  mu,              \* holder of endpoint.mu, None when it is free
  cancelCooldown,  \* the recovery endpoint.cancelCooldown cancels
  cancelled,       \* recoveries whose context is cancelled
  timer,           \* where each recovery goroutine is
  pc,              \* where each worker is
  tier,            \* the local variable `tier' of the markFailed that holds mu
  shift,           \* shift with which the latest cooldown was armed
  admin,           \* where the administrator's ResetEndpoint call is
  closing          \* endpoint.Close has run its critical section on mu

vars == <<state, failCount, cooldownTier, mu, cancelCooldown, cancelled, timer,
          pc, tier, shift, admin, closing>>

States == {"alive", "cooldown", "dead"}
WorkerSteps == {"idle", "attempting", "counted", "marking", "escalating",
                "arming", "clearing"}
TimerSteps == {"unused", "sleeping", "woken", "reviving", "clearing"}
AdminSteps == {"idle", "resetState", "resetFails"}

TypeOK ==
  /\ state \in States
  /\ failCount \in 0..FailThreshold
  /\ cooldownTier \in 0..(MaxShift + 1)
  /\ mu \in Workers \cup Timers \cup {None}
  /\ cancelCooldown \in Timers \cup {None}
  /\ cancelled \in SUBSET Timers
  /\ timer \in [Timers -> TimerSteps]
  /\ pc \in [Workers -> WorkerSteps]
  /\ tier \in 0..(MaxShift + 1)
  /\ shift \in Int
  /\ admin \in AdminSteps
  /\ closing \in BOOLEAN

Init ==
  /\ state = "alive"
  /\ failCount = 0
  /\ cooldownTier = 0
  /\ mu = None
  /\ cancelCooldown = None
  /\ cancelled = {}
  /\ timer = [k \in Timers |-> "unused"]
  /\ pc = [w \in Workers |-> "idle"]
  /\ tier = 0
  /\ shift = 0
  /\ admin = "idle"
  /\ closing = FALSE

-----------------------------------------------------------------------------
(* Helpers                                                                 *)

Live(k) == timer[k] # "unused"

(* failCount.Add(1).  The code only resets failCount and compares it with  *)
(* the threshold, so a counter that stays at the threshold is exact.       *)
MoreFails(n) == IF n < FailThreshold THEN n + 1 ELSE n

(* cooldownTier.Add(1); only min(tier-1, MaxShift) is ever read.           *)
NextTier(n) == IF n <= MaxShift THEN n + 1 ELSE n

(* Mutant: the tier is loaded again instead of taken from Add.             *)
ArmedShift_Reloaded ==
  IF cooldownTier - 1 < MaxShift THEN cooldownTier - 1 ELSE MaxShift

(* min(tier-1, 4): the shift is taken from the value Add returned.         *)
ArmedShift == IF tier - 1 < MaxShift THEN tier - 1 ELSE MaxShift

(* Mutant: the previous recovery is not cancelled.                         *)
CancelledWith_Nothing(k) == cancelled

(* What calling cancelCooldown does: a context whose goroutine has exited  *)
(* is nobody's business any more.                                          *)
CancelledWith(k) ==
  IF k \in Timers /\ Live(k) THEN cancelled \cup {k} ELSE cancelled

(* Mutant: mu is not given back.                                           *)
Unlock_Not == UNCHANGED mu

(* mu.Lock() and mu.Unlock() by goroutine g.                               *)
Lock(g) == mu = None /\ mu' = g
Unlock == mu' = None

(* Mutant: cancelCooldown is called after it was overwritten.              *)
Spawn_Cancelled(k) ==
  /\ ~Live(k)
  /\ timer' = [timer EXCEPT ![k] = "sleeping"]
  /\ cancelCooldown' = k
  /\ cancelled' = cancelled \cup {k}

(* Start recovery goroutine k and let cancelCooldown stop it.              *)
Spawn(k) ==
  /\ ~Live(k)
  /\ timer' = [timer EXCEPT ![k] = "sleeping"]
  /\ cancelCooldown' = k
  /\ UNCHANGED cancelled

(* Mutant: a recovered endpoint keeps its failures.                        *)
RecoveredFails_Kept == failCount

(* failCount when the recovery is done with it.                            *)
RecoveredFails == 0

Goto(w, step) == pc' = [pc EXCEPT ![w] = step]
TimerGoto(k, step) == timer' = [timer EXCEPT ![k] = step]
Exit(k) ==
  /\ TimerGoto(k, "unused")
  /\ cancelled' = cancelled \ {k}

-----------------------------------------------------------------------------
(* Workers: request attempts and health probes                             *)

(* Selection, and the checker's own filter, take only alive endpoints.     *)
Selectable == state = "alive"

Select(w) ==
  /\ pc[w] = "idle"
  /\ Selectable
  /\ Goto(w, "attempting")
  /\ UNCHANGED <<state, failCount, cooldownTier, mu, cancelCooldown, cancelled,
                 timer, tier, shift, admin, closing>>

(* The attempt ends with an outcome the endpoint is not blamed for: a      *)
(* request without a session, or an error the detector does not call a     *)
(* block.  A probe that ends that way counts as a failure instead.         *)
Ignore(w) ==
  /\ w \in Requests
  /\ pc[w] = "attempting"
  /\ Goto(w, "idle")
  /\ UNCHANGED <<state, failCount, cooldownTier, mu, cancelCooldown, cancelled,
                 timer, tier, shift, admin, closing>>

(* A block, or a probe that failed: incrementFailCount.                    *)
CountFailure(w) ==
  /\ pc[w] = "attempting"
  /\ failCount' = MoreFails(failCount)
  /\ Goto(w, "counted")
  /\ UNCHANGED <<state, cooldownTier, mu, cancelCooldown, cancelled, timer,
                 tier, shift, admin, closing>>

(* getFailCount() >= failThreshold, read in a step of its own.             *)
CheckThreshold(w) ==
  /\ pc[w] = "counted"
  /\ Goto(w, IF failCount >= FailThreshold THEN "marking" ELSE "idle")
  /\ UNCHANGED <<state, failCount, cooldownTier, mu, cancelCooldown, cancelled,
                 timer, tier, shift, admin, closing>>

(* recordSuccess resets the escalation, then resetFailCount the failures.  *)
Succeed(w) ==
  /\ w \in Requests
  /\ pc[w] = "attempting"
  /\ cooldownTier' = 0
  /\ Goto(w, "clearing")
  /\ UNCHANGED <<state, failCount, mu, cancelCooldown, cancelled, timer, tier,
                 shift, admin, closing>>

ClearFails(w) ==
  /\ pc[w] = IF w = Checker THEN "attempting" ELSE "clearing"
  /\ failCount' = 0
  /\ Goto(w, "idle")
  /\ UNCHANGED <<state, cooldownTier, mu, cancelCooldown, cancelled, timer,
                 tier, shift, admin, closing>>

-----------------------------------------------------------------------------
(* markFailed, under mu                                                    *)

(* Lock and setState(StateCooldown).  The guard on Timers bounds how many  *)
(* recovery goroutines exist at once.                                      *)
EnterCooldown(w) ==
  /\ pc[w] = "marking"
  /\ \E k \in Timers : ~Live(k)
  /\ Lock(w)
  /\ state' = "cooldown"
  /\ Goto(w, "escalating")
  /\ UNCHANGED <<failCount, cooldownTier, cancelCooldown, cancelled, timer,
                 tier, shift, admin, closing>>

(* Cancel the recovery of the previous cooldown, then take the next tier.  *)
Escalate(w) ==
  /\ pc[w] = "escalating"
  /\ cancelled' = CancelledWith(cancelCooldown)
  /\ cooldownTier' = NextTier(cooldownTier)
  /\ tier' = NextTier(cooldownTier)
  /\ Goto(w, "arming")
  /\ UNCHANGED <<state, failCount, mu, cancelCooldown, timer, shift, admin,
                 closing>>

(* Compute the cooldown, start its recovery goroutine and unlock.          *)
Arm(w) ==
  /\ pc[w] = "arming"
  /\ \E k \in Timers : Spawn(k)
  /\ shift' = ArmedShift
  /\ tier' = 0
  /\ Unlock
  /\ Goto(w, "idle")
  /\ UNCHANGED <<state, failCount, cooldownTier, admin, closing>>

-----------------------------------------------------------------------------
(* The recovery goroutine                                                  *)

(* select: the cooldown is over.  When the context is cancelled too, Go    *)
(* picks either case.                                                      *)
Wake(k) ==
  /\ timer[k] = "sleeping"
  /\ TimerGoto(k, "woken")
  /\ UNCHANGED <<state, failCount, cooldownTier, mu, cancelCooldown, cancelled,
                 pc, tier, shift, admin, closing>>

(* select: the context was cancelled first.                                *)
Abandon(k) ==
  /\ timer[k] = "sleeping"
  /\ k \in cancelled
  /\ Exit(k)
  /\ UNCHANGED <<state, failCount, cooldownTier, mu, cancelCooldown, pc, tier,
                 shift, admin, closing>>

(* Mutant: anything but an endpoint in rotation is put back.               *)
StillCooling_NotAlive == state # "alive"

(* Lock, and recover only an endpoint that is still cooling down.          *)
StillCooling == state = "cooldown"

Recover(k) ==
  /\ timer[k] = "woken"
  /\ StillCooling
  /\ Lock(k)
  /\ TimerGoto(k, "reviving")
  /\ UNCHANGED <<state, failCount, cooldownTier, cancelCooldown, cancelled, pc,
                 tier, shift, admin, closing>>

GiveUp(k) ==
  /\ timer[k] = "woken"
  /\ mu = None
  /\ ~StillCooling
  /\ Exit(k)
  /\ UNCHANGED <<state, failCount, cooldownTier, mu, cancelCooldown, pc, tier,
                 shift, admin, closing>>

Revive(k) ==
  /\ timer[k] = "reviving"
  /\ state' = "alive"
  /\ TimerGoto(k, "clearing")
  /\ UNCHANGED <<failCount, cooldownTier, mu, cancelCooldown, cancelled, pc,
                 tier, shift, admin, closing>>

FinishRecovery(k) ==
  /\ timer[k] = "clearing"
  /\ failCount' = RecoveredFails
  /\ Unlock
  /\ Exit(k)
  /\ UNCHANGED <<state, cooldownTier, cancelCooldown, pc, tier, shift, admin,
                 closing>>

-----------------------------------------------------------------------------
(* Administration and Close                                                *)

(* MarkEndpointDead stores the state without taking mu.                    *)
MarkDead ==
  /\ state' = "dead"
  /\ UNCHANGED <<failCount, cooldownTier, mu, cancelCooldown, cancelled, timer,
                 pc, tier, shift, admin, closing>>

(* ResetEndpoint: three stores, without mu and without cancelling the      *)
(* recovery of a cooldown it interrupts.                                   *)
ResetState ==
  /\ admin = "idle"
  /\ state' = "alive"
  /\ admin' = "resetState"
  /\ UNCHANGED <<failCount, cooldownTier, mu, cancelCooldown, cancelled, timer,
                 pc, tier, shift, closing>>

ResetFails ==
  /\ admin = "resetState"
  /\ failCount' = 0
  /\ admin' = "resetFails"
  /\ UNCHANGED <<state, cooldownTier, mu, cancelCooldown, cancelled, timer, pc,
                 tier, shift, closing>>

ResetTier ==
  /\ admin = "resetFails"
  /\ cooldownTier' = 0
  /\ admin' = "idle"
  /\ UNCHANGED <<state, failCount, mu, cancelCooldown, cancelled, timer, pc,
                 tier, shift, closing>>

(* The first critical section of Close, run once.                          *)
Close ==
  /\ ~closing
  /\ mu = None
  /\ closing' = TRUE
  /\ cancelled' = CancelledWith(cancelCooldown)
  /\ cancelCooldown' = None
  /\ UNCHANGED <<state, failCount, cooldownTier, mu, timer, pc, tier, shift,
                 admin>>

-----------------------------------------------------------------------------
WorkerNext(w) ==
  \/ Select(w) \/ Ignore(w) \/ CountFailure(w) \/ CheckThreshold(w)
  \/ Succeed(w) \/ ClearFails(w)
  \/ EnterCooldown(w) \/ Escalate(w) \/ Arm(w)

TimerNext(k) ==
  \/ Wake(k) \/ Abandon(k) \/ Recover(k) \/ GiveUp(k) \/ Revive(k)
  \/ FinishRecovery(k)

AdminNext == MarkDead \/ ResetState \/ ResetFails \/ ResetTier

Next ==
  \/ \E w \in Workers : WorkerNext(w)
  \/ \E k \in Timers : TimerNext(k)
  \/ AdminNext
  \/ Close

(* Goroutines that can run do run, time passes, and a Go mutex hands       *)
(* itself to a waiter that keeps waiting (starvation mode).  Nothing is    *)
(* assumed of how long an attempt takes nor of new calls.                  *)
Fairness ==
  /\ \A w \in Workers :
       /\ WF_vars(CheckThreshold(w))
       /\ WF_vars(w \in Requests /\ ClearFails(w))
       /\ SF_vars(EnterCooldown(w))
       /\ WF_vars(Escalate(w) \/ Arm(w))
  /\ \A k \in Timers :
       /\ WF_vars(Wake(k) \/ Abandon(k))
       /\ SF_vars(Recover(k) \/ GiveUp(k))
       /\ WF_vars(Revive(k) \/ FinishRecovery(k))
  /\ WF_vars(ResetFails \/ ResetTier)

Spec == Init /\ [][Next]_vars
FairSpec == Spec /\ Fairness

-----------------------------------------------------------------------------
(* Properties                                                              *)

(* mu excludes: a goroutine is inside markFailed's or the recovery's       *)
(* critical section exactly when it holds mu.                              *)
Locking ==
  /\ \A w \in Workers : pc[w] \in {"escalating", "arming"} <=> mu = w
  /\ \A k \in Timers : timer[k] \in {"reviving", "clearing"} <=> mu = k

(* An endpoint that cools down is never forgotten: unless Close took over, *)
(* either the markFailed that set the state is about to arm its recovery,  *)
(* or the recovery that cancelCooldown names is running and not cancelled, *)
(* so no interleaving of failures, recoveries, retirement and reset leaves *)
(* the endpoint in cooldown with nobody to bring it back.                  *)
RecoveryArmed ==
  state = "cooldown" /\ ~closing /\ mu \notin Workers =>
    /\ cancelCooldown \in Timers
    /\ Live(cancelCooldown)
    /\ cancelCooldown \notin cancelled

(* At most one recovery is in force: every running recovery goroutine is   *)
(* either cancelled or the one cancelCooldown cancels, so the next         *)
(* markFailed, or the Close to come, cancels all that are left.  One that  *)
(* left its select before may still recover (SupersededStaysQuiet).        *)
RecoveryCancellable ==
  \A k \in Timers : Live(k) => k \in cancelled \/ k = cancelCooldown

(* Failures are never forgotten: an endpoint is in rotation with its       *)
(* threshold reached only while someone who will act on it is running: a   *)
(* worker that counted a failure and has not marked yet, a recovery or a   *)
(* reset that is about to clear the count.                                 *)
FailuresHandled ==
  state = "alive" /\ failCount >= FailThreshold =>
    \/ \E w \in Workers : pc[w] \in {"counted", "marking"}
    \/ \E k \in Timers : timer[k] = "clearing"
    \/ admin = "resetState"

(* The shift of a cooldown is legal (Go panics on a negative shift) and is *)
(* the one the escalation counter stands for, whatever successes and       *)
(* resets clear the counter while markFailed runs.                         *)
EscalationFaithful ==
  /\ shift \in 0..MaxShift
  /\ cooldownTier > 0 /\ mu \notin Workers =>
       shift = IF cooldownTier - 1 < MaxShift THEN cooldownTier - 1
                                              ELSE MaxShift

(* Nobody is about to write state, other than by ResetEndpoint.            *)
Quiescent ==
  /\ \A w \in Workers : pc[w] \in {"idle", "clearing"}
  /\ \A k \in Timers : timer[k] # "reviving"

(* A retired endpoint stays out of rotation: once no attempt is in flight  *)
(* on it and no recovery is past its check, nothing but ResetEndpoint      *)
(* changes its state or lets a new attempt in, pending recoveries and      *)
(* later calls included.                                                   *)
RetirementSticks ==
  [][state = "dead" /\ Quiescent =>
       (state' = "dead" /\ Quiescent') \/ ResetState]_vars

(* Every cooldown ends: the endpoint recovers, is retired or is reset,     *)
(* unless it is closed, however many failures of attempts in flight        *)
(* restart the cooldown.                                                   *)
CooldownEnds == state = "cooldown" ~> state # "cooldown" \/ closing

(* Every recovery goroutine exits, cancelled or not, Close or not.         *)
RecoveriesExit ==
  \A k \in Timers : timer[k] = "sleeping" ~> timer[k] = "unused"

(* A failure that reached the threshold is acted on: its markFailed gets   *)
(* mu and returns.                                                         *)
MarksReturn == \A w \in Workers : pc[w] = "marking" ~> pc[w] = "idle"

-----------------------------------------------------------------------------
(* The inductive invariant                                                 *)

(* What the critical sections rely on: they exclude each other, contexts   *)
(* are cancelled for running recoveries only, a markFailed about to arm    *)
(* its recovery has cancelled every other one and holds a tier that only a *)
(* reset can have taken away since, and a recovery that revived the        *)
(* endpoint still finds it out of cooldown.                                *)
CriticalSections ==
  /\ Locking
  /\ \A k \in cancelled : Live(k)
  /\ \A w \in Workers : pc[w] = "arming" =>
       /\ \A k \in Timers : Live(k) => k \in cancelled
       /\ tier > 0
       /\ cooldownTier \in {0, tier}
  /\ \A k \in Timers : timer[k] = "clearing" => state # "cooldown"

IInv ==
  /\ TypeOK
  /\ CriticalSections
  /\ RecoveryCancellable
  /\ RecoveryArmed
  /\ FailuresHandled
  /\ EscalationFaithful

-----------------------------------------------------------------------------
(* What the documentation says and the code does not do                    *)

(* config.go: a dead endpoint "will not recover without an explicit        *)
(* ResetEndpoint call".  A markFailed in flight overwrites the state.      *)
DeadIsPermanent == [][state = "dead" => state' = "dead" \/ ResetState]_vars

(* endpoint.go: a recovery "superseded by a newer cooldown" does not       *)
(* recover.  One that woke before it was cancelled does, during the newer  *)
(* cooldown.                                                               *)
SupersededStaysQuiet ==
  \A k \in Timers : timer[k] = "clearing" /\ ~closing => k \notin cancelled
=============================================================================
