----------------------- MODULE CooldownDurationProofs -----------------------
(***************************************************************************)
(* Proofs about CooldownDuration, for every width of a Duration and every  *)
(* configuration.                                                          *)
(***************************************************************************)
EXTENDS CooldownDuration, TLAPS

(* The multiplier is one of five, and the next tier's is twice as large    *)
(* until it stays at 16.                                                   *)
LEMMA MultiplierValues ==
  ASSUME NEW tier \in Nat \ {0}
  PROVE  /\ Multiplier(tier) \in 1..16
         /\ Multiplier(tier + 1) = Least(2 * Multiplier(tier), 16)
<1>1. CASE tier = 1
  BY <1>1 DEF Multiplier, Least
<1>2. CASE tier = 2
  BY <1>2 DEF Multiplier, Least
<1>3. CASE tier = 3
  BY <1>3 DEF Multiplier, Least
<1>4. CASE tier = 4
  BY <1>4 DEF Multiplier, Least
<1>5. CASE tier > 4
  BY <1>5 DEF Multiplier, Least
<1> QED
  BY <1>1, <1>2, <1>3, <1>4, <1>5

(* A Duration that fits is not changed by the arithmetic's width.          *)
LEMMA WrappedInRange ==
  ASSUME NEW n \in 0..MaxInt
  PROVE  Wrapped(n) = n
<1>1. ASSUME NEW x \in Nat, NEW m \in Nat \ {0}, x < m
      PROVE  x % m = x
  BY <1>1
<1>2. (n + MaxInt + 1) % (2 * (MaxInt + 1)) = n + MaxInt + 1
  BY <1>1, MaxIntAssumption
<1> QED
  BY <1>2, MaxIntAssumption DEF Wrapped

(* The cooldown of a representable period is the documented one.           *)
LEMMA CooldownValue ==
  ASSUME NEW base \in 1..MaxInt, NEW cap \in 1..MaxInt, 16 * base <= MaxInt,
         NEW tier \in Nat \ {0}
  PROVE  Capped(Escalated(base, tier), cap)
           = Least(cap, base * Multiplier(tier))
<1>1. Multiplier(tier) \in 1..16
  BY MultiplierValues
<1>2. base * Multiplier(tier) \in 0..MaxInt
  <2>1. \A m \in 1..16 : base * m \in 0..MaxInt
    BY MaxIntAssumption
  <2> QED
    BY <1>1, <2>1
<1>3. Escalated(base, tier) = base * Multiplier(tier)
  BY <1>2, WrappedInRange DEF Escalated
<1> QED
  BY <1>2, <1>3, MaxIntAssumption DEF Capped, Least

DurationInv == TypeOK /\ CooldownExact

LEMMA InvInit == Init => DurationInv
<1> SUFFICES ASSUME Init PROVE DurationInv
  OBVIOUS
<1>1. cooldownPeriod \in 1..MaxInt /\ maxCooldown \in 1..MaxInt
  BY DefaultsAssumption, MaxIntAssumption DEF Init, WithDefault, Durations
<1>2. cooldownTier \in 0..TierBound /\ cooldown \in Durations
  BY TierBoundAssumption, MaxIntAssumption DEF Init, Durations
<1> QED
  BY <1>1, <1>2 DEF DurationInv, TypeOK, CooldownExact, Init

(* Whatever overflows, the wrapped and capped value is a Duration.         *)
LEMMA EscalatedTyped ==
  ASSUME NEW n \in Int, NEW cap \in 1..MaxInt
  PROVE  Capped(Wrapped(n), cap) \in Durations
<1>1. ASSUME NEW x \in Int, NEW m \in Nat \ {0}
      PROVE  x % m \in 0..(m - 1)
  BY <1>1
<1>2. (n + MaxInt + 1) % (2 * (MaxInt + 1)) \in 0..(2 * (MaxInt + 1) - 1)
  BY <1>1, MaxIntAssumption
<1>3. Wrapped(n) \in Durations
  BY <1>2, MaxIntAssumption DEF Wrapped, Durations
<1> QED
  BY <1>3, MaxIntAssumption DEF Capped, Durations

LEMMA InvKept == DurationInv /\ [Next]_vars => DurationInv'
<1> SUFFICES ASSUME DurationInv, [Next]_vars PROVE DurationInv'
  OBVIOUS
<1>1. CASE MarkFailed
  <2> DEFINE next == cooldownTier + 1
  <2>1. next \in Nat \ {0} /\ next \in 0..TierBound
    BY <1>1, TierBoundAssumption DEF DurationInv, TypeOK, MarkFailed
  <2>2. Multiplier(next) \in 1..16
    BY <2>1, MultiplierValues
  <2>3. cooldownPeriod * Multiplier(next) \in Int
    BY <2>2, MaxIntAssumption DEF DurationInv, TypeOK
  <2>4. cooldown' \in Durations
    BY <1>1, <2>3, EscalatedTyped
       DEF MarkFailed, Escalated, DurationInv, TypeOK
  <2>5. Representable => cooldown'
          = Least(maxCooldown, cooldownPeriod * Multiplier(next))
    BY <1>1, <2>1, CooldownValue
       DEF MarkFailed, Representable, DurationInv, TypeOK
  <2> QED
    BY <1>1, <2>1, <2>4, <2>5
       DEF MarkFailed, Representable, DurationInv, TypeOK, CooldownExact
<1>2. CASE ResetEscalation
  BY <1>2, TierBoundAssumption
     DEF ResetEscalation, DurationInv, TypeOK, CooldownExact
<1>3. CASE UNCHANGED vars
  BY <1>3 DEF vars, DurationInv, TypeOK, CooldownExact, Representable
<1> QED
  BY <1>1, <1>2, <1>3 DEF Next

THEOREM InvAlways == Spec => []DurationInv
BY InvInit, InvKept, PTL DEF Spec

(* Every variable keeps its type.                                          *)
THEOREM TypeCorrect == Spec => []TypeOK
<1>1. DurationInv => TypeOK
  BY DEF DurationInv
<1> QED
  BY <1>1, InvAlways, PTL

(* The documented bounds hold for every width and every configuration      *)
(* whose period fits 16 times into a Duration.                             *)
THEOREM DocumentedBounds == Spec => []WithinDocumentedBounds
<1>1. DurationInv => WithinDocumentedBounds
  <2> SUFFICES ASSUME DurationInv, Representable, cooldownTier > 0
               PROVE  /\ cooldown <= Least(maxCooldown, 16 * cooldownPeriod)
                      /\ cooldown >= Least(maxCooldown, cooldownPeriod)
    BY DEF WithinDocumentedBounds
  <2>1. Multiplier(cooldownTier) \in 1..16
    BY MultiplierValues DEF DurationInv, TypeOK
  <2>2. \A m \in 1..16 : /\ cooldownPeriod * m >= cooldownPeriod
                         /\ cooldownPeriod * m <= 16 * cooldownPeriod
                         /\ cooldownPeriod * m \in Int
    BY DEF DurationInv, TypeOK
  <2> DEFINE product == cooldownPeriod * Multiplier(cooldownTier)
  <2>3. /\ product >= cooldownPeriod
        /\ product <= 16 * cooldownPeriod
        /\ product \in Int
    BY <2>1, <2>2
  <2>4. cooldown = Least(maxCooldown, product)
    BY DEF DurationInv, CooldownExact
  <2> HIDE DEF product
  <2> QED
    BY <2>3, <2>4 DEF DurationInv, TypeOK, Least
<1> QED
  BY <1>1, InvAlways, PTL

(* Each consecutive cooldown doubles, up to the caps.                      *)
THEOREM EscalationDoubles == Spec => Doubles
<1>1. DurationInv /\ [Next]_vars =>
        [Representable /\ cooldownTier > 0 /\ MarkFailed =>
           cooldown' = Least(2 * cooldown,
                             Least(maxCooldown, 16 * cooldownPeriod))]_vars
  <2> SUFFICES ASSUME DurationInv, Representable, cooldownTier > 0, MarkFailed
               PROVE  cooldown' =
                        Least(2 * cooldown,
                              Least(maxCooldown, 16 * cooldownPeriod))
    OBVIOUS
  <2> DEFINE m == Multiplier(cooldownTier)
             n == Multiplier(cooldownTier + 1)
  <2>1. m \in 1..16 /\ n = Least(2 * m, 16)
    BY MultiplierValues DEF DurationInv, TypeOK
  <2>2. cooldown = Least(maxCooldown, cooldownPeriod * m)
    BY DEF DurationInv, CooldownExact
  <2>3. cooldown' = Least(maxCooldown, cooldownPeriod * n)
    BY CooldownValue DEF MarkFailed, Representable, DurationInv, TypeOK
  <2>4. \A i \in 1..16 :
          /\ cooldownPeriod * i \in Nat
          /\ cooldownPeriod * Least(2 * i, 16)
               = Least(2 * (cooldownPeriod * i), 16 * cooldownPeriod)
    BY DEF DurationInv, TypeOK, Least
  <2>5. /\ cooldownPeriod * m \in Nat
        /\ cooldownPeriod * n
             = Least(2 * (cooldownPeriod * m), 16 * cooldownPeriod)
    BY <2>1, <2>4
  <2> HIDE DEF m, n
  <2> QED
    BY <2>2, <2>3, <2>5 DEF DurationInv, TypeOK, Least
<1> QED
  BY <1>1, InvAlways, PTL DEF Spec, Doubles
=============================================================================
