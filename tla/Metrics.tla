------------------------------ MODULE Metrics -------------------------------
(***************************************************************************)
(* The measurements of one endpoint (endpoint.go): two counters and an     *)
(* exponential moving average, all Go atomics without a common lock.       *)
(* Request attempts write them in DoForDomain (recordLatency, then         *)
(* recordSuccess).  A selection (pool.go) scores the endpoint from them,   *)
(* one atomic load at a time, Pool.Stats calls successRate only.           *)
(* A score is an exact fraction; float64 may be off in the last digits.    *)
(***************************************************************************)
EXTENDS Integers, Sequences, FiniteSets

CONSTANTS
  Workers,     \* goroutines running request attempts
  Latencies,   \* how long an attempt may take, in nanoseconds
  MaxLatency,  \* the longest of them
  MaxRequests, \* bound on totalReqs
  Second,      \* time.Second, in nanoseconds
  WarmupRequests,  \* warmupRequests, 10 in the code
  Penalties    \* what PenaltyFor may answer, as fractions

ASSUME WorkersAssumption == IsFiniteSet(Workers)
ASSUME LatenciesAssumption ==
  MaxLatency \in Latencies /\ Latencies \subseteq 0..MaxLatency
ASSUME RequestsAssumption == MaxRequests \in Nat
ASSUME ScoreAssumption ==
  /\ Second \in Nat \ {0}
  /\ WarmupRequests \in Nat \ {0}
  /\ Penalties \subseteq (Nat \ {0}) \X (Nat \ {0})

VARIABLES
  totalReqs,    \* endpoint.totalReqs
  successReqs,  \* endpoint.successReqs
  avgLatency,   \* endpoint.avgLatency, 0 before the first sample
  pc,           \* where each worker is
  ns,           \* the latency each worker is recording
  old,          \* the average its recordLatency loaded
  reader,       \* where the selection's reading is
  totalRead,    \* what successRate loaded first
  successRead,  \* what it loaded then
  latencyRead,  \* the average that weight loaded
  recount,      \* the total that weight loaded at last
  score,        \* the candidate's weight, a fraction
  folded        \* history: the samples, in the order they were folded in

reading == <<reader, totalRead, successRead, latencyRead, recount, score>>
vars == <<totalReqs, successReqs, avgLatency, pc, ns, old, reading, folded>>

WorkerSteps == {"idle", "loading", "swapping", "recorded"}
ReaderSteps == {"idle", "alive", "total read", "rate read", "latency read",
                "weighed", "scored"}

TypeOK ==
  /\ totalReqs \in 0..MaxRequests
  /\ successReqs \in 0..MaxRequests
  /\ avgLatency \in 0..MaxLatency
  /\ pc \in [Workers -> WorkerSteps]
  /\ ns \in [Workers -> Latencies]
  /\ old \in [Workers -> 0..MaxLatency]
  /\ reader \in ReaderSteps
  /\ totalRead \in 0..MaxRequests
  /\ successRead \in 0..MaxRequests
  /\ latencyRead \in 0..MaxLatency
  /\ recount \in 0..MaxRequests
  /\ score \in Nat \X (Nat \ {0})
  /\ folded \in Seq(Latencies)

Init ==
  /\ totalReqs = 0
  /\ successReqs = 0
  /\ avgLatency = 0
  /\ pc = [w \in Workers |-> "idle"]
  /\ ns = [w \in Workers |-> MaxLatency]
  /\ old = [w \in Workers |-> 0]
  /\ reader = "idle"
  /\ totalRead = 0
  /\ successRead = 0
  /\ latencyRead = 0
  /\ recount = 0
  /\ score = <<0, 1>>
  /\ folded = <<>>

Goto(w, step) == pc' = [pc EXCEPT ![w] = step]

-----------------------------------------------------------------------------
(* recordLatency                                                           *)

Count(w) ==
  /\ pc[w] = "idle"
  /\ totalReqs < MaxRequests
  /\ totalReqs' = totalReqs + 1
  /\ \E latency \in Latencies : ns' = [ns EXCEPT ![w] = latency]
  /\ Goto(w, "loading")
  /\ UNCHANGED <<successReqs, avgLatency, old, reading, folded>>

Load(w) ==
  /\ pc[w] = "loading"
  /\ old' = [old EXCEPT ![w] = avgLatency]
  /\ Goto(w, "swapping")
  /\ UNCHANGED <<totalReqs, successReqs, avgLatency, ns, reading, folded>>

(* Mutant: the weights of history and sample do not add up to one.         *)
Smoothed_Heavy(average, sample) ==
  IF average = 0 THEN sample ELSE (7 * average + 4 * sample) \div 10

(* 0.7 and 0.3 in exact arithmetic, truncated as int64(...) does; float64  *)
(* may be off by a nanosecond.                                             *)
Smoothed(average, sample) ==
  IF average = 0 THEN sample ELSE (7 * average + 3 * sample) \div 10

(* Mutants: the average is stored whatever became of it; a sample that     *)
(* lost the race is given up.                                              *)
Unchanged_Assumed(w) == TRUE
AfterLostRace_GiveUp == "recorded"

(* CompareAndSwap succeeds; it is tried again when it does not.            *)
Unchanged(w) == avgLatency = old[w]
AfterLostRace == "loading"

Swap(w) ==
  /\ pc[w] = "swapping"
  /\ IF Unchanged(w)
       THEN /\ avgLatency' = Smoothed(old[w], ns[w])
            /\ folded' = Append(folded, ns[w])
            /\ Goto(w, "recorded")
       ELSE Goto(w, AfterLostRace) /\ UNCHANGED <<avgLatency, folded>>
  /\ UNCHANGED <<totalReqs, successReqs, ns, old, reading>>

-----------------------------------------------------------------------------
(* The attempt was blocked or failed, or it succeeds: recordSuccess.       *)

Fail(w) ==
  /\ pc[w] = "recorded"
  /\ Goto(w, "idle")
  /\ UNCHANGED <<totalReqs, successReqs, avgLatency, ns, old, reading, folded>>

Succeed(w) ==
  /\ pc[w] = "recorded"
  /\ successReqs' = successReqs + 1
  /\ Goto(w, "idle")
  /\ UNCHANGED <<totalReqs, avgLatency, ns, old, reading, folded>>

-----------------------------------------------------------------------------
(* The score: Pool.getNextEndpointForDomain found the endpoint alive.      *)

measures == <<totalReqs, successReqs, avgLatency, pc, ns, old, folded>>

(* weight looks again whether the endpoint is alive; it may be gone, and   *)
(* then weighs nothing.                                                    *)
CheckAlive ==
  /\ reader = "idle"
  /\ \/ reader' = "alive" /\ UNCHANGED score
     \/ reader' = "weighed" /\ score' = <<0, 1>>
  /\ UNCHANGED <<measures, totalRead, successRead, latencyRead, recount>>

(* successRate, called by weight: one load, then the other.                *)
ReadTotal ==
  /\ reader = "alive"
  /\ totalRead' = totalReqs
  /\ reader' = "total read"
  /\ UNCHANGED <<measures, successRead, latencyRead, recount, score>>

(* total == 0 is answered with 1.0, without a second load.                 *)
ReadSuccess ==
  /\ reader = "total read"
  /\ successRead' = IF totalRead = 0 THEN 0 ELSE successReqs
  /\ reader' = "rate read"
  /\ UNCHANGED <<measures, totalRead, latencyRead, recount, score>>

ReadLatency ==
  /\ reader = "rate read"
  /\ latencyRead' = avgLatency
  /\ reader' = "latency read"
  /\ UNCHANGED <<measures, totalRead, successRead, recount, score>>

(* Mutant: the trust goes on growing after the warm-up.                    *)
Confidence_Uncapped(total) == total

(* How far the record is trusted, in WarmupRequests-ths.                   *)
Confidence(total) ==
  IF total >= WarmupRequests THEN WarmupRequests ELSE total

(* What successRate divides by; the rate of a fresh endpoint is one.       *)
Divisor == IF totalRead = 0 THEN 1 ELSE totalRead

(* weight: the success rate per second of latency, blended with a rate of  *)
(* one while the endpoint warms up; 1.0 while nothing is known of it.      *)
Weight(total) ==
  LET successes == IF totalRead = 0 THEN 1 ELSE successRead
      trust == Confidence(total)
  IN  IF latencyRead = 0 \/ total = 0 THEN <<1, 1>>
      ELSE <<Second * ((WarmupRequests - trust) * Divisor
                         + trust * successes),
             latencyRead * WarmupRequests * Divisor>>

(* Mutant: the total that successRate loaded is used again.                *)
LastTotal_Reused == totalRead

(* weight loads the total itself, after the rate and the average.          *)
LastTotal == totalReqs

Weigh ==
  /\ reader = "latency read"
  /\ recount' = LastTotal
  /\ score' = Weight(LastTotal)
  /\ reader' = "weighed"
  /\ UNCHANGED <<measures, totalRead, successRead, latencyRead>>

(* "keep it selectable rather than starving it entirely": 0.001            *)
Floored(w) == IF w[1] <= 0 THEN <<1, 1000>> ELSE w

(* The candidate's weight, times the domain's penalty.                     *)
Score ==
  /\ reader = "weighed"
  /\ \E p \in Penalties :
       score' = <<Floored(score)[1] * p[1], Floored(score)[2] * p[2]>>
  /\ reader' = "scored"
  /\ UNCHANGED <<measures, totalRead, successRead, latencyRead, recount>>

Forget ==
  /\ reader = "scored"
  /\ reader' = "idle"
  /\ totalRead' = 0 /\ successRead' = 0 /\ latencyRead' = 0 /\ recount' = 0
  /\ score' = <<0, 1>>
  /\ UNCHANGED measures

-----------------------------------------------------------------------------
WorkerNext(w) == Count(w) \/ Load(w) \/ Swap(w) \/ Fail(w) \/ Succeed(w)

ReaderNext ==
  \/ CheckAlive \/ ReadTotal \/ ReadSuccess \/ ReadLatency
  \/ Weigh \/ Score \/ Forget

Next == (\E w \in Workers : WorkerNext(w)) \/ ReaderNext

Spec == Init /\ [][Next]_vars

-----------------------------------------------------------------------------
(* Properties                                                              *)

(* No sample is lost: the average is what folding every recorded sample,   *)
(* one after the other, gives, though recordLatency computes it outside    *)
(* any lock from a value others replace meanwhile.                         *)
NoSampleLost ==
  LET average[i \in 0..Len(folded)] ==
        IF i = 0 THEN 0 ELSE Smoothed(average[i - 1], folded[i])
  IN  avgLatency = average[Len(folded)]

At(step) == Cardinality({w \in Workers : pc[w] = step})

(* Every attempt counted in totalReqs is in the average or about to be,    *)
(* and one that is a success has been counted and measured before: in      *)
(* memory the success ratio never exceeds one.                             *)
CountsAgree ==
  /\ totalReqs = Len(folded) + At("loading") + At("swapping")
  /\ successReqs + At("recorded") <= Len(folded)

(* weight makes four loads while attempts end in between, and what it has  *)
(* read fits together all the same: who has read a success has read an     *)
(* average with it (weight takes an average of zero for an endpoint of     *)
(* which nothing is known), and the total it loads at last, by which it    *)
(* trusts the record, covers the attempts and the successes read before.   *)
ReadingsFit ==
  /\ reader \in {"latency read", "weighed"} /\ successRead > 0
       /\ 0 \notin Latencies => latencyRead > 0
  /\ reader = "weighed" => totalRead <= recount /\ successRead <= recount

(* The rate read may exceed one (RateIsRatio).  The weight exceeds the     *)
(* neutral baseline, Second over the average, at most by the factor that   *)
(* the total grew between its two loads.                                   *)
LiftIsBounded ==
  reader = "weighed" /\ latencyRead > 0 /\ recount > 0 =>
    score[1] * (latencyRead * Divisor) <= score[2] * (Second * recount)

-----------------------------------------------------------------------------
(* The inductive invariant, but for the history of NoSampleLost            *)

(* No average of positive samples is zero.                                 *)
MeasuredIsKnown ==
  0 \notin Latencies /\ Len(folded) > 0 => avgLatency > 0

(* What a selection has loaded was so once and has only grown since, and   *)
(* the weight is made of it.                                               *)
ReadingInOrder ==
  /\ totalRead <= totalReqs /\ successRead <= successReqs
  /\ reader \in {"idle", "alive"} => totalRead = 0 /\ successRead = 0
  /\ reader \in {"idle", "alive", "total read", "rate read"}
       => latencyRead = 0
  /\ reader = "weighed" => latencyRead = 0 \/ score = Weight(recount)

IInv ==
  TypeOK /\ CountsAgree /\ MeasuredIsKnown /\ ReadingInOrder /\ ReadingsFit

-----------------------------------------------------------------------------
(* What the documentation says and the code does not do                    *)

(* endpoint.go: successRate "returns the success ratio".  It loads the     *)
(* total first, so the ratio exceeds one when attempts end in between.     *)
RateIsRatio ==
  reader = "rate read" /\ totalRead > 0 => successRead <= totalRead
=============================================================================
