-------------------------- MODULE CooldownDuration --------------------------
(***************************************************************************)
(* How long an endpoint cools down: the arithmetic of endpoint.markFailed  *)
(* on time.Duration, a signed integer that wraps around, under the         *)
(* configuration RetryConfig.withDefaults lets through.  EndpointHealth    *)
(* has the concurrency; here the marks and the resets of the escalation    *)
(* follow one another.                                                     *)
(***************************************************************************)
EXTENDS Integers

CONSTANTS
  MaxInt,           \* the largest Duration: 2^63 - 1 in the code
  DefaultPeriod,    \* DefaultRetryConfig().CooldownPeriod
  DefaultCap,       \* DefaultRetryConfig().MaxCooldown
  TierBound         \* bound on consecutive cooldowns

ASSUME MaxIntAssumption == MaxInt \in Nat \ {0}
ASSUME DefaultsAssumption ==
  DefaultPeriod \in 1..MaxInt /\ DefaultCap \in 1..MaxInt
ASSUME TierBoundAssumption == TierBound \in Nat

Durations == -(MaxInt + 1)..MaxInt

VARIABLES
  cooldownPeriod,  \* RetryConfig.CooldownPeriod, defaults filled in
  maxCooldown,     \* RetryConfig.MaxCooldown, defaults filled in
  cooldownTier,    \* endpoint.cooldownTier
  cooldown         \* the latest cooldown, 0 before the first

vars == <<cooldownPeriod, maxCooldown, cooldownTier, cooldown>>

(* RetryConfig.withDefaults on one duration.                               *)
WithDefault(configured, default) ==
  IF configured <= 0 THEN default ELSE configured

Init ==
  /\ \E configured \in Durations :
       cooldownPeriod = WithDefault(configured, DefaultPeriod)
  /\ \E configured \in Durations :
       maxCooldown = WithDefault(configured, DefaultCap)
  /\ cooldownTier = 0
  /\ cooldown = 0

(* Mutants: the shift is not capped; the period grows by steps.            *)
Multiplier_Uncapped(tier) == <<1, 2, 4, 8, 16, 32, 64>>[tier]

Multiplier_Linear(tier) == IF tier < 16 THEN tier ELSE 16

(* int64(1) << min(tier-1, 4)                                              *)
Multiplier(tier) == <<1, 2, 4, 8, 16>>[IF tier - 1 < 4 THEN tier ELSE 5]

(* Signed arithmetic modulo 2 * (MaxInt + 1).                              *)
Wrapped(n) == ((n + MaxInt + 1) % (2 * (MaxInt + 1))) - (MaxInt + 1)

Escalated(base, tier) == Wrapped(base * Multiplier(tier))

Capped(d, cap) == IF cap > 0 /\ d > cap THEN cap ELSE d

MarkFailed ==
  /\ cooldownTier < TierBound
  /\ cooldownTier' = cooldownTier + 1
  /\ cooldown' = Capped(Escalated(cooldownPeriod, cooldownTier + 1),
                        maxCooldown)
  /\ UNCHANGED <<cooldownPeriod, maxCooldown>>

(* recordSuccess and ResetEndpoint                                         *)
ResetEscalation ==
  /\ cooldownTier' = 0
  /\ UNCHANGED <<cooldownPeriod, maxCooldown, cooldown>>

Next == MarkFailed \/ ResetEscalation

Spec == Init /\ [][Next]_vars

-----------------------------------------------------------------------------
TypeOK ==
  /\ cooldownPeriod \in 1..MaxInt
  /\ maxCooldown \in 1..MaxInt
  /\ cooldownTier \in 0..TierBound
  /\ cooldown \in Durations

(* A period of which 16 fit in a Duration, about 18 years in the code.     *)
Representable == 16 * cooldownPeriod <= MaxInt

Least(a, b) == IF a < b THEN a ELSE b

(* The current cooldown is the period times the tier's multiplier, capped: *)
(* what the two properties below rest on.                                  *)
CooldownExact ==
  Representable /\ cooldownTier > 0 =>
    cooldown = Least(maxCooldown, cooldownPeriod * Multiplier(cooldownTier))

(* RetryConfig's documentation: "The effective duration never exceeds the  *)
(* lower of MaxCooldown and 16 times CooldownPeriod", and it is never      *)
(* shorter than the period (or its cap), so a cooldown is a cooldown.      *)
WithinDocumentedBounds ==
  Representable /\ cooldownTier > 0 =>
    /\ cooldown <= Least(maxCooldown, 16 * cooldownPeriod)
    /\ cooldown >= Least(maxCooldown, cooldownPeriod)

(* "Each consecutive cooldown doubles it", up to the caps: of two marks    *)
(* with no success in between, the second cools down twice as long.        *)
Doubles ==
  [][Representable /\ cooldownTier > 0 /\ MarkFailed =>
       cooldown' = Least(2 * cooldown,
                         Least(maxCooldown, 16 * cooldownPeriod))]_vars
=============================================================================
