---------------------------- MODULE MetricsProofs ----------------------------
(***************************************************************************)
(* Proofs about Metrics, for any number of workers, any latencies and any  *)
(* length of the warm-up.                                                  *)
(***************************************************************************)
EXTENDS Metrics, FiniteSetTheorems, SequenceTheorems, TLAPS

-----------------------------------------------------------------------------
(* Counting workers                                                        *)

(* There are finitely many workers, so they can be counted.                *)
LEMMA AtIsCount == \A step : At(step) \in Nat
<1> SUFFICES ASSUME NEW step PROVE At(step) \in Nat
  OBVIOUS
<1>1. {w \in Workers : pc[w] = step} \in SUBSET Workers
  OBVIOUS
<1> QED
  BY <1>1, WorkersAssumption, FS_Subset, FS_CardinalityType DEF At

(* One worker goes from one step to another: the one has one less, the     *)
(* other has one more, the rest have as many as before.                    *)
LEMMA OneMoves ==
  ASSUME TypeOK, NEW w \in Workers, NEW from, NEW step,
         pc[w] = from, from # step, Goto(w, step)
  PROVE  /\ At(from) \in Nat \ {0} /\ At(from)' = At(from) - 1
         /\ At(step)' = At(step) + 1
         /\ \A other : other \notin {from, step} => At(other)' = At(other)
<1> DEFINE Who(x) == {v \in Workers : pc[v] = x}
           WhoNext(x) == {v \in Workers : pc'[v] = x}
<1>1. \A x : /\ At(x) = Cardinality(Who(x)) /\ At(x)' = Cardinality(WhoNext(x))
             /\ At(x) \in Nat
  BY AtIsCount DEF At
<1>2. ASSUME NEW x PROVE IsFiniteSet(Who(x))
  <2>1. Who(x) \in SUBSET Workers
    OBVIOUS
  <2> QED
    BY <2>1, WorkersAssumption, FS_Subset
<1>3. /\ WhoNext(from) = Who(from) \ {w} /\ w \in Who(from)
      /\ WhoNext(step) = Who(step) \cup {w} /\ w \notin Who(step)
      /\ \A x : x \notin {from, step} => WhoNext(x) = Who(x)
  BY DEF Goto, TypeOK
<1> HIDE DEF Who, WhoNext
<1>4. Cardinality(WhoNext(from)) = Cardinality(Who(from)) - 1
  BY <1>2, <1>3, FS_RemoveElement
<1>5. Cardinality(WhoNext(step)) = Cardinality(Who(step)) + 1
  BY <1>2, <1>3, FS_AddElement
<1>6. Cardinality(Who(from)) # 0
  BY <1>2, <1>3, FS_EmptySet
<1> QED
  BY <1>1, <1>3, <1>4, <1>5, <1>6

-----------------------------------------------------------------------------
(* Arithmetic                                                              *)

(* The average of two latencies is no longer than the longest.             *)
LEMMA SmoothedInRange ==
  ASSUME NEW average \in 0..MaxLatency, NEW sample \in Latencies
  PROVE  Smoothed(average, sample) \in 0..MaxLatency
<1>1. MaxLatency \in Nat /\ sample \in 0..MaxLatency
  BY LatenciesAssumption
<1>2. (7 * average + 3 * sample) \div 10 \in 0..MaxLatency
  BY <1>1
<1> QED
  BY <1>1, <1>2 DEF Smoothed

(* Products of naturals are naturals; the provers are told once.           *)
LEMMA ProductIsNat ==
  ASSUME NEW a \in Nat, NEW b \in Nat
  PROVE  a * b \in Nat /\ (a # 0 /\ b # 0 => a * b # 0)
OBVIOUS

(* A weight is a fraction, whatever was read.                              *)
LEMMA WeightIsFraction ==
  ASSUME TypeOK, NEW total \in Nat
  PROVE  Weight(total) \in Nat \X (Nat \ {0})
<1> DEFINE successes == IF totalRead = 0 THEN 1 ELSE successRead
           trust == Confidence(total)
           above == (WarmupRequests - trust) * Divisor + trust * successes
           below == latencyRead * WarmupRequests * Divisor
<1>1. CASE latencyRead = 0 \/ total = 0
  BY <1>1 DEF Weight
<1>2. CASE ~(latencyRead = 0 \/ total = 0)
  <2>1. /\ successes \in Nat /\ Divisor \in Nat \ {0}
        /\ latencyRead \in Nat \ {0}
        /\ Second \in Nat /\ WarmupRequests \in Nat \ {0}
    BY <1>2, ScoreAssumption, RequestsAssumption, LatenciesAssumption
       DEF TypeOK, Divisor
  <2>2. trust \in Nat /\ WarmupRequests - trust \in Nat
    BY ScoreAssumption DEF Confidence
  <2>3. Weight(total) = <<Second * above, below>>
    BY <1>2 DEF Weight
  <2> HIDE DEF successes, trust
  <2>4. above \in Nat
    BY <2>1, <2>2, ProductIsNat
  <2>5. below \in Nat \ {0}
    <3>1. latencyRead * WarmupRequests \in Nat \ {0}
      BY <2>1, ProductIsNat
    <3> QED
      BY <2>1, <3>1, ProductIsNat
  <2> HIDE DEF above, below
  <2>6. Second * above \in Nat
    BY <2>1, <2>4, ProductIsNat
  <2> QED
    BY <2>3, <2>5, <2>6
<1> QED
  BY <1>1, <1>2

(* A positive average stays positive, and the first sample is the average. *)
LEMMA SmoothedIsPositive ==
  ASSUME NEW average \in Nat, NEW sample \in Nat \ {0}
  PROVE  Smoothed(average, sample) > 0
<1>1. CASE average = 0
  BY <1>1 DEF Smoothed
<1>2. CASE average # 0
  <2>1. (7 * average + 3 * sample) \div 10 > 0
    BY <1>2
  <2> QED
    BY <1>2, <2>1 DEF Smoothed
<1> QED
  BY <1>1, <1>2

(* A product grows with its factors.                                       *)
LEMMA ProductGrows ==
  ASSUME NEW a \in Nat, NEW b \in Nat, NEW c \in Nat, a <= b
  PROVE  c * a <= c * b
OBVIOUS

(* The weight exceeds the baseline at most by the factor that the total    *)
(* grew, provided that the total covers what was read before it.           *)
LEMMA WeightLifts ==
  ASSUME TypeOK, NEW total \in Nat \ {0}, latencyRead # 0,
         totalRead <= total, successRead <= total
  PROVE  Weight(total)[1] * (latencyRead * Divisor)
           <= Weight(total)[2] * (Second * total)
<1> DEFINE successes == IF totalRead = 0 THEN 1 ELSE successRead
           trust == Confidence(total)
           rest == WarmupRequests - trust
           above == rest * Divisor + trust * successes
<1>1. /\ successes \in Nat /\ successes <= total
      /\ Divisor \in Nat /\ Divisor <= total
      /\ latencyRead \in Nat /\ Second \in Nat /\ WarmupRequests \in Nat
  BY ScoreAssumption, RequestsAssumption, LatenciesAssumption
     DEF TypeOK, Divisor
<1>2. trust \in Nat /\ rest \in Nat /\ rest + trust = WarmupRequests
  BY ScoreAssumption DEF Confidence
<1>3. Weight(total) = <<Second * above,
                        latencyRead * WarmupRequests * Divisor>>
  BY DEF Weight
<1> HIDE DEF successes, trust, rest
<1>4. above \in Nat /\ above <= WarmupRequests * total
  <2>1. /\ rest * Divisor \in Nat /\ trust * successes \in Nat
        /\ rest * total \in Nat /\ trust * total \in Nat
    BY <1>1, <1>2, ProductIsNat
  <2>2. rest * Divisor <= rest * total /\ trust * successes <= trust * total
    BY <1>1, <1>2, ProductGrows
  <2>3. WarmupRequests * total = rest * total + trust * total
    BY <1>2
  <2> QED
    BY <2>1, <2>2, <2>3
<1> HIDE DEF above
<1> DEFINE common == Second * (latencyRead * Divisor)
<1>5. /\ common \in Nat /\ WarmupRequests * total \in Nat
  <2>1. latencyRead * Divisor \in Nat
    BY <1>1, ProductIsNat
  <2> QED
    BY <1>1, <2>1, ProductIsNat
<1>6. (Second * above) * (latencyRead * Divisor) = common * above
  BY <1>1, <1>4
<1>7. (latencyRead * WarmupRequests * Divisor) * (Second * total)
        = common * (WarmupRequests * total)
  BY <1>1
<1> HIDE DEF common
<1>8. common * above <= common * (WarmupRequests * total)
  BY <1>4, <1>5, ProductGrows
<1> QED
  BY <1>3, <1>6, <1>7, <1>8

-----------------------------------------------------------------------------
(* The inductive invariant                                                 *)

(* Every counted attempt is where the counters say.                        *)
LEMMA CountsKept == IInv /\ Next => CountsAgree'
<1> SUFFICES ASSUME IInv, Next PROVE CountsAgree'
  OBVIOUS
<1> USE DEF IInv
<1>1. /\ TypeOK /\ folded \in Seq(Latencies)
      /\ totalReqs \in Nat /\ successReqs \in Nat /\ Len(folded) \in Nat
  BY RequestsAssumption DEF TypeOK
<1>2. /\ totalReqs = Len(folded) + At("loading") + At("swapping")
      /\ successReqs + At("recorded") <= Len(folded)
  BY DEF CountsAgree
<1>3. \A step : At(step) \in Nat
  BY AtIsCount
<1>4. ASSUME NEW w \in Workers, Count(w) PROVE CountsAgree'
  <2>1. /\ At("loading")' = At("loading") + 1
        /\ At("swapping")' = At("swapping")
        /\ At("recorded")' = At("recorded")
    BY <1>1, <1>4, OneMoves DEF Count
  <2> QED
    BY <1>1, <1>2, <1>3, <1>4, <2>1 DEF Count, CountsAgree
<1>5. ASSUME NEW w \in Workers, Load(w) PROVE CountsAgree'
  <2>1. /\ At("loading")' = At("loading") - 1
        /\ At("swapping")' = At("swapping") + 1
        /\ At("recorded")' = At("recorded")
    BY <1>1, <1>5, OneMoves DEF Load
  <2> QED
    BY <1>1, <1>2, <1>3, <1>5, <2>1 DEF Load, CountsAgree
<1>6. ASSUME NEW w \in Workers, Swap(w) PROVE CountsAgree'
  <2>1. CASE Unchanged(w)
    <3>1. /\ At("loading")' = At("loading")
          /\ At("swapping")' = At("swapping") - 1
          /\ At("recorded")' = At("recorded") + 1
      <4>1. pc[w] = "swapping" /\ Goto(w, "recorded")
        BY <1>6, <2>1 DEF Swap
      <4> QED
        BY <1>1, <4>1, OneMoves
    <3>2. ns[w] \in Latencies
      BY <1>1 DEF TypeOK
    <3>3. /\ UNCHANGED <<totalReqs, successReqs>>
          /\ Len(folded') = Len(folded) + 1
      BY <1>1, <1>6, <2>1, <3>2 DEF Swap
    <3> QED
      BY <1>1, <1>2, <1>3, <3>1, <3>3 DEF CountsAgree
  <2>2. CASE ~Unchanged(w)
    <3>1. /\ At("loading")' = At("loading") + 1
          /\ At("swapping")' = At("swapping") - 1
          /\ At("recorded")' = At("recorded")
      BY <1>1, <1>6, <2>2, OneMoves DEF Swap, AfterLostRace
    <3> QED
      BY <1>1, <1>2, <1>3, <1>6, <2>2, <3>1 DEF Swap, CountsAgree
  <2> QED
    BY <2>1, <2>2
<1>7. ASSUME NEW w \in Workers, Fail(w) \/ Succeed(w) PROVE CountsAgree'
  <2>1. /\ At("loading")' = At("loading")
        /\ At("swapping")' = At("swapping")
        /\ At("recorded")' = At("recorded") - 1
    BY <1>1, <1>7, OneMoves DEF Fail, Succeed
  <2>2. /\ UNCHANGED <<totalReqs, folded>>
        /\ successReqs' = successReqs \/ successReqs' = successReqs + 1
    BY <1>7 DEF Fail, Succeed
  <2> QED
    BY <1>1, <1>2, <1>3, <2>1, <2>2 DEF CountsAgree
<1>8. CASE ReaderNext
  <2>1. UNCHANGED measures
    BY <1>8 DEF ReaderNext, CheckAlive, ReadTotal, ReadSuccess, ReadLatency,
                Weigh, Score, Forget
  <2> QED
    BY <1>2, <2>1 DEF measures, CountsAgree, At
<1> QED
  BY <1>4, <1>5, <1>6, <1>7, <1>8 DEF Next, WorkerNext

(* Every variable keeps its type: that successReqs stays in its bound      *)
(* takes the agreement of the counters.                                    *)
LEMMA TypeKept == IInv /\ Next => TypeOK'
<1> SUFFICES ASSUME IInv, Next PROVE TypeOK'
  OBVIOUS
<1> DEFINE WorkersOK ==
             /\ totalReqs \in 0..MaxRequests /\ successReqs \in 0..MaxRequests
             /\ avgLatency \in 0..MaxLatency /\ pc \in [Workers -> WorkerSteps]
             /\ ns \in [Workers -> Latencies]
             /\ old \in [Workers -> 0..MaxLatency]
             /\ folded \in Seq(Latencies)
           ReadingOK ==
             /\ reader \in ReaderSteps /\ totalRead \in 0..MaxRequests
             /\ successRead \in 0..MaxRequests /\ latencyRead \in 0..MaxLatency
             /\ recount \in 0..MaxRequests /\ score \in Nat \X (Nat \ {0})
<1>0. TypeOK /\ WorkersOK /\ ReadingOK /\ CountsAgree
      /\ MaxRequests \in Nat /\ MaxLatency \in Nat
  BY RequestsAssumption, LatenciesAssumption DEF IInv, TypeOK
<1>1. ASSUME NEW w \in Workers, Count(w) PROVE WorkersOK'
  <2>1. PICK latency \in Latencies : ns' = [ns EXCEPT ![w] = latency]
    BY <1>1 DEF Count
  <2> QED
    BY <1>0, <1>1, <2>1 DEF Count, Goto, WorkerSteps
<1>2. ASSUME NEW w \in Workers, Load(w) PROVE WorkersOK'
  BY <1>0, <1>2 DEF Load, Goto, WorkerSteps
<1>3. ASSUME NEW w \in Workers, Swap(w) PROVE WorkersOK'
  <2>1. CASE Unchanged(w)
    <3>1. Smoothed(old[w], ns[w]) \in 0..MaxLatency /\ ns[w] \in Latencies
      BY <1>0, SmoothedInRange
    <3>2. /\ avgLatency' = Smoothed(old[w], ns[w])
          /\ folded' = Append(folded, ns[w])
          /\ pc' = [pc EXCEPT ![w] = "recorded"]
          /\ UNCHANGED <<totalReqs, successReqs, ns, old>>
      BY <1>3, <2>1 DEF Swap, Goto
    <3>3. folded' \in Seq(Latencies)
      BY <1>0, <3>1, <3>2, AppendProperties
    <3> QED
      BY <1>0, <3>1, <3>2, <3>3 DEF WorkerSteps
  <2>2. CASE ~Unchanged(w)
    BY <1>0, <1>3, <2>2 DEF Swap, AfterLostRace, Goto, WorkerSteps
  <2> QED
    BY <2>1, <2>2
<1>4. ASSUME NEW w \in Workers, Fail(w) PROVE WorkersOK'
  BY <1>0, <1>4 DEF Fail, Goto, WorkerSteps
<1>5. ASSUME NEW w \in Workers, Succeed(w) PROVE WorkersOK'
  <2>1. /\ At("recorded") \in Nat \ {0}
        /\ At("loading") \in Nat /\ At("swapping") \in Nat
    BY <1>0, <1>5, OneMoves, AtIsCount DEF Succeed
  <2>2. Len(folded) \in Nat
    BY <1>0, LenProperties
  <2>3. successReqs + 1 <= totalReqs
    BY <1>0, <2>1, <2>2 DEF CountsAgree
  <2> QED
    BY <1>0, <1>5, <2>3 DEF Succeed, Goto, WorkerSteps
<1>6. ASSUME NEW w \in Workers, WorkerNext(w) PROVE ReadingOK'
  <2>1. UNCHANGED reading
    BY <1>6 DEF WorkerNext, Count, Load, Swap, Fail, Succeed
  <2> QED
    BY <1>0, <2>1 DEF reading
<1>7. ASSUME CheckAlive PROVE ReadingOK'
  <2>1. /\ reader' \in ReaderSteps
        /\ UNCHANGED <<totalRead, successRead, latencyRead, recount>>
    BY <1>7 DEF CheckAlive, ReaderSteps
  <2>2. score' = score \/ score' = <<0, 1>>
    BY <1>7 DEF CheckAlive
  <2>3. score' \in Nat \X (Nat \ {0})
    BY <1>0, <2>2
  <2> QED
    BY <1>0, <2>1, <2>3
<1>8. ASSUME ReadTotal PROVE ReadingOK'
  BY <1>0, <1>8 DEF ReadTotal, ReaderSteps
<1>9. ASSUME ReadSuccess PROVE ReadingOK'
  BY <1>0, <1>9 DEF ReadSuccess, ReaderSteps
<1>10. ASSUME ReadLatency PROVE ReadingOK'
  BY <1>0, <1>10 DEF ReadLatency, ReaderSteps
<1>11. ASSUME Weigh PROVE ReadingOK'
  <2>0. totalReqs \in Nat
    BY <1>0
  <2>1. Weight(totalReqs) \in Nat \X (Nat \ {0})
    BY <1>0, <2>0, WeightIsFraction
  <2> QED
    BY <1>0, <1>11, <2>0, <2>1 DEF Weigh, LastTotal, ReaderSteps
<1>12. ASSUME Score PROVE ReadingOK'
  <2>1. PICK p \in Penalties :
          score' = <<Floored(score)[1] * p[1], Floored(score)[2] * p[2]>>
    BY <1>12 DEF Score
  <2>2. p[1] \in Nat /\ p[2] \in Nat \ {0}
    BY ScoreAssumption
  <2>3. Floored(score)[1] \in Nat /\ Floored(score)[2] \in Nat \ {0}
    BY <1>0 DEF Floored
  <2>4. /\ Floored(score)[1] * p[1] \in Nat
        /\ Floored(score)[2] * p[2] \in Nat \ {0}
    BY <2>2, <2>3, ProductIsNat
  <2> QED
    BY <1>0, <1>12, <2>1, <2>4 DEF Score, ReaderSteps
<1>13. ASSUME Forget PROVE ReadingOK'
  BY <1>0, <1>13 DEF Forget, ReaderSteps
<1>14. CASE ReaderNext
  <2>1. UNCHANGED measures
    BY <1>14 DEF ReaderNext, CheckAlive, ReadTotal, ReadSuccess, ReadLatency,
                 Weigh, Score, Forget
  <2>2. WorkersOK'
    BY <1>0, <2>1 DEF measures
  <2>3. ReadingOK'
    BY <1>7, <1>8, <1>9, <1>10, <1>11, <1>12, <1>13, <1>14 DEF ReaderNext
  <2> QED
    BY <2>2, <2>3 DEF TypeOK
<1>15. ASSUME NEW w \in Workers, WorkerNext(w) PROVE TypeOK'
  <2>1. WorkersOK'
    BY <1>1, <1>2, <1>3, <1>4, <1>5, <1>15 DEF WorkerNext
  <2>2. ReadingOK'
    BY <1>6, <1>15
  <2> QED
    BY <2>1, <2>2 DEF TypeOK
<1> QED
  BY <1>14, <1>15 DEF Next

(* Only a swap changes the average or the history, and it adds a sample.   *)
LEMMA MeasuredKept == IInv /\ Next => MeasuredIsKnown'
<1> SUFFICES ASSUME IInv, Next, 0 \notin Latencies, Len(folded') > 0
             PROVE  avgLatency' > 0
  BY DEF MeasuredIsKnown
<1>1. ASSUME NEW w \in Workers, Swap(w), Unchanged(w) PROVE avgLatency' > 0
  <2>0. old[w] \in 0..MaxLatency /\ ns[w] \in Latencies
    BY DEF IInv, TypeOK
  <2>1. old[w] \in Nat /\ ns[w] \in Nat \ {0}
    BY <2>0, LatenciesAssumption
  <2>2. avgLatency' = Smoothed(old[w], ns[w])
    BY <1>1 DEF Swap
  <2> QED
    BY <2>1, <2>2, SmoothedIsPositive
<1>2. CASE UNCHANGED <<folded, avgLatency>>
  BY <1>2 DEF IInv, MeasuredIsKnown
<1>3. ASSUME NEW w \in Workers, WorkerNext(w) PROVE avgLatency' > 0
  BY <1>1, <1>2, <1>3 DEF WorkerNext, Count, Load, Swap, Fail, Succeed
<1>4. CASE ReaderNext
  <2>1. UNCHANGED measures
    BY <1>4 DEF ReaderNext, CheckAlive, ReadTotal, ReadSuccess, ReadLatency,
                Weigh, Score, Forget
  <2> QED
    BY <1>2, <2>1 DEF measures
<1> QED
  BY <1>3, <1>4 DEF Next

(* What was measured and what the counters owe to it.                      *)
LEMMA SuccessIsMeasured ==
  ASSUME IInv
  PROVE  /\ successReqs <= totalReqs
         /\ 0 \notin Latencies /\ successReqs > 0 => avgLatency > 0
<1>1. /\ folded \in Seq(Latencies)
      /\ successReqs \in Nat /\ totalReqs \in Nat /\ Len(folded) \in Nat
  BY RequestsAssumption DEF IInv, TypeOK
<1>2. At("loading") \in Nat /\ At("swapping") \in Nat /\ At("recorded") \in Nat
  BY AtIsCount
<1>3. successReqs <= Len(folded) /\ Len(folded) <= totalReqs
  BY <1>1, <1>2 DEF IInv, CountsAgree
<1> QED
  BY <1>1, <1>3 DEF IInv, MeasuredIsKnown

(* A selection goes by what it has read, whatever the workers add to it    *)
(* meanwhile: they only ever count up.                                     *)
LEMMA ReadingKept == IInv /\ Next => ReadingInOrder' /\ ReadingsFit'
<1> SUFFICES ASSUME IInv, Next PROVE ReadingInOrder' /\ ReadingsFit'
  OBVIOUS
<1>0. ReadingInOrder /\ ReadingsFit
  BY DEF IInv
<1>types. /\ totalReqs \in Nat /\ successReqs \in Nat
          /\ totalRead \in Nat /\ successRead \in Nat
  BY RequestsAssumption DEF IInv, TypeOK
<1>read. totalRead <= totalReqs /\ successRead <= successReqs
  BY <1>0 DEF ReadingInOrder
<1> USE DEF ReadingInOrder, ReadingsFit
<1>1. ASSUME NEW w \in Workers, WorkerNext(w)
      PROVE  ReadingInOrder' /\ ReadingsFit'
  <2>1. UNCHANGED reading
    BY <1>1 DEF WorkerNext, Count, Load, Swap, Fail, Succeed
  <2>2. /\ totalReqs' = totalReqs \/ totalReqs' = totalReqs + 1
        /\ successReqs' = successReqs \/ successReqs' = successReqs + 1
    BY <1>1 DEF WorkerNext, Count, Load, Swap, Fail, Succeed
  <2>3. totalRead <= totalReqs' /\ successRead <= successReqs'
    BY <1>types, <1>read, <2>2
  <2> QED
    BY <1>0, <2>1, <2>3 DEF reading, Weight, Divisor
<1>2. CASE CheckAlive
  <2>1. UNCHANGED <<measures, totalRead, successRead, latencyRead, recount>>
    BY <1>2 DEF CheckAlive
  <2>2. /\ totalRead = 0 /\ successRead = 0 /\ latencyRead = 0
        /\ recount \in Nat /\ reader' \in {"alive", "weighed"}
    BY <1>0, <1>2, RequestsAssumption DEF CheckAlive, IInv, TypeOK
  <2> QED
    BY <1>0, <2>1, <2>2 DEF measures
<1>3. CASE ReadTotal
  <2>1. /\ totalRead' = totalReqs /\ totalReqs' = totalReqs
        /\ successRead' = successRead /\ successReqs' = successReqs
    BY <1>3 DEF ReadTotal, measures
  <2>2. /\ reader = "alive" /\ reader' = "total read"
        /\ latencyRead' = latencyRead
    BY <1>3 DEF ReadTotal
  <2>3. totalRead' <= totalReqs' /\ successRead' <= successReqs'
    BY <1>types, <1>read, <2>1
  <2> QED
    BY <1>0, <2>2, <2>3
<1>4. CASE ReadSuccess
  <2>1. /\ successRead' = 0 \/ successRead' = successReqs
        /\ totalReqs' = totalReqs /\ successReqs' = successReqs
        /\ totalRead' = totalRead
    BY <1>4 DEF ReadSuccess, measures
  <2>2. /\ reader = "total read" /\ reader' = "rate read"
        /\ latencyRead' = latencyRead
    BY <1>4 DEF ReadSuccess
  <2>3. totalRead' <= totalReqs' /\ successRead' <= successReqs'
    BY <1>types, <1>read, <2>1
  <2> QED
    BY <1>0, <2>2, <2>3
<1>5. CASE ReadLatency
  <2>1. 0 \notin Latencies /\ successRead > 0 => avgLatency > 0
    BY <1>types, <1>read, SuccessIsMeasured
  <2> QED
    BY <1>0, <1>5, <2>1 DEF ReadLatency, measures
<1>6. CASE Weigh
  <2>1. totalRead <= totalReqs /\ successRead <= totalReqs
    BY <1>types, <1>read, SuccessIsMeasured
  <2> QED
    BY <1>0, <1>6, <2>1 DEF Weigh, LastTotal, Weight, Divisor, measures
<1>7. CASE Score
  BY <1>0, <1>7 DEF Score, measures
<1>8. CASE Forget
  <2>1. /\ totalRead' = 0 /\ successRead' = 0 /\ latencyRead' = 0
        /\ UNCHANGED <<totalReqs, successReqs>> /\ reader' = "idle"
    BY <1>8 DEF Forget, measures
  <2>2. totalRead' <= totalReqs' /\ successRead' <= successReqs'
    BY <1>types, <2>1
  <2> QED
    BY <2>1, <2>2
<1> QED
  BY <1>1, <1>2, <1>3, <1>4, <1>5, <1>6, <1>7, <1>8 DEF Next, ReaderNext

(* No worker has started, no selection has read.                           *)
LEMMA Initially == Init => IInv
<1> SUFFICES ASSUME Init PROVE IInv
  OBVIOUS
<1>1. TypeOK
  BY RequestsAssumption, LatenciesAssumption
     DEF Init, TypeOK, WorkerSteps, ReaderSteps
<1>2. \A step \in {"loading", "swapping", "recorded"} : At(step) = 0
  <2> SUFFICES ASSUME NEW step \in {"loading", "swapping", "recorded"}
               PROVE  At(step) = 0
    OBVIOUS
  <2>1. {w \in Workers : pc[w] = step} = {}
    BY DEF Init
  <2> QED
    BY <2>1, FS_EmptySet DEF At
<1>3. CountsAgree
  BY <1>2 DEF Init, CountsAgree
<1>4. MeasuredIsKnown
  BY DEF Init, MeasuredIsKnown
<1>5. ReadingInOrder /\ ReadingsFit
  BY DEF Init, ReadingInOrder, ReadingsFit
<1> QED
  BY <1>1, <1>3, <1>4, <1>5 DEF IInv

(* The inductive invariant holds throughout.                               *)
THEOREM Invariant == Spec => []IInv
<1>1. IInv /\ [Next]_vars => IInv'
  <2> SUFFICES ASSUME IInv, [Next]_vars PROVE IInv'
    OBVIOUS
  <2>1. CASE Next
    BY <2>1, TypeKept, CountsKept, MeasuredKept, ReadingKept DEF IInv
  <2>2. CASE UNCHANGED vars
    BY <2>2 DEF vars, reading, IInv, TypeOK, CountsAgree, At,
                MeasuredIsKnown, ReadingInOrder, ReadingsFit, Weight, Divisor
  <2> QED
    BY <2>1, <2>2
<1> QED
  BY Initially, <1>1, PTL DEF Spec

(* Every variable of the endpoint, its workers and a selection has its     *)
(* type: both counters stay within the bound on requests and the average   *)
(* within the longest latency, and a score is a fraction.                  *)
THEOREM TypeCorrect == Spec => []TypeOK
<1>1. IInv => TypeOK
  BY DEF IInv
<1> QED
  BY Invariant, <1>1, PTL

(* recordLatency counts and measures every attempt before recordSuccess    *)
(* counts it, whatever the interleaving.                                   *)
THEOREM SuccessesWereMeasured == Spec => []CountsAgree
<1>1. IInv => CountsAgree
  BY DEF IInv
<1> QED
  BY Invariant, <1>1, PTL

(* What weight has loaded, one load after the other, fits together.        *)
THEOREM ReadingsFitTogether == Spec => []ReadingsFit
<1>1. IInv => ReadingsFit
  BY DEF IInv
<1> QED
  BY Invariant, <1>1, PTL

(* The rate that successRate reads too high lifts the weight no further    *)
(* above the baseline than the total has grown meanwhile.                  *)
THEOREM LiftHasABound == Spec => []LiftIsBounded
<1>1. IInv => LiftIsBounded
  <2> SUFFICES ASSUME IInv, reader = "weighed", latencyRead > 0, recount > 0
               PROVE  score[1] * (latencyRead * Divisor)
                        <= score[2] * (Second * recount)
    BY DEF LiftIsBounded
  <2>1. latencyRead # 0 /\ recount \in Nat \ {0} /\ TypeOK
    BY RequestsAssumption, LatenciesAssumption DEF IInv, TypeOK
  <2>2. /\ score = Weight(recount)
        /\ totalRead <= recount /\ successRead <= recount
    BY <2>1 DEF IInv, ReadingInOrder, ReadingsFit
  <2> QED
    BY <2>1, <2>2, WeightLifts
<1> QED
  BY Invariant, <1>1, PTL

-----------------------------------------------------------------------------
(* The history                                                             *)

(* f is the averages after none, one, ... and all of the samples.          *)
Folding(f, samples) ==
  f = [i \in 0..Len(samples) |->
         IF i = 0 THEN 0 ELSE Smoothed(f[i - 1], samples[i])]

(* There is one such function, and it ends with the average.               *)
HistoryFolds ==
  /\ \E f : Folding(f, folded)
  /\ \A f : Folding(f, folded) => f[Len(folded)] = avgLatency

(* One more sample makes one more average.                                 *)
LEMMA FoldingGrows ==
  ASSUME NEW samples \in Seq(Latencies), NEW sample \in Latencies, NEW average,
         \E f : Folding(f, samples),
         \A f : Folding(f, samples) => f[Len(samples)] = average
  PROVE  LET more == Append(samples, sample)
         IN  /\ \E f : Folding(f, more)
             /\ \A f : Folding(f, more)
                        => f[Len(more)] = Smoothed(average, sample)
<1> DEFINE more == Append(samples, sample)
           n == Len(samples)
<1>1. /\ n \in Nat /\ Len(more) = n + 1 /\ more[n + 1] = sample
      /\ \A i \in 1..n : more[i] = samples[i]
  BY LenProperties, AppendProperties
<1> HIDE DEF more, n
<1>2. \E f : Folding(f, more)
  <2>1. PICK f : Folding(f, samples)
    OBVIOUS
  <2> DEFINE g == [i \in 0..(n + 1) |->
                     IF i = n + 1 THEN Smoothed(f[n], sample) ELSE f[i]]
  <2>2. \A i \in 0..n : f[i] = IF i = 0 THEN 0
                                       ELSE Smoothed(f[i - 1], samples[i])
    BY <2>1 DEF Folding, n
  <2>3. \A i \in 0..(n + 1) : g[i] = IF i = 0 THEN 0
                                             ELSE Smoothed(g[i - 1], more[i])
    <3> SUFFICES ASSUME NEW i \in 0..(n + 1)
                 PROVE  g[i] = IF i = 0 THEN 0 ELSE Smoothed(g[i - 1], more[i])
      OBVIOUS
    <3>1. CASE i = n + 1
      BY <1>1, <3>1
    <3>2. CASE i \in 0..n
      BY <1>1, <2>2, <3>2
    <3> QED
      BY <1>1, <3>1, <3>2
  <2>4. g = [i \in 0..(n + 1) |->
               IF i = 0 THEN 0 ELSE Smoothed(g[i - 1], more[i])]
    BY <2>3
  <2> HIDE DEF g
  <2> QED
    BY <1>1, <2>4 DEF Folding
<1>3. ASSUME NEW g, Folding(g, more)
      PROVE  g[Len(more)] = Smoothed(average, sample)
  <2> DEFINE f == [i \in 0..n |-> g[i]]
  <2>1. \A i \in 0..(n + 1) : g[i] = IF i = 0 THEN 0
                                             ELSE Smoothed(g[i - 1], more[i])
    BY <1>1, <1>3 DEF Folding
  <2>2. \A i \in 0..n : f[i] = IF i = 0 THEN 0
                                       ELSE Smoothed(f[i - 1], samples[i])
    BY <1>1, <2>1
  <2>3. f = [i \in 0..n |->
               IF i = 0 THEN 0 ELSE Smoothed(f[i - 1], samples[i])]
    BY <2>2
  <2>4. f[n] = g[n]
    BY <1>1
  <2> HIDE DEF f
  <2>5. f[n] = average
    BY <2>3 DEF Folding, n
  <2>6. n + 1 \in 0..(n + 1) /\ n + 1 # 0 /\ (n + 1) - 1 = n
    BY <1>1
  <2>7. g[n + 1] = Smoothed(g[n], more[n + 1])
    BY <2>1, <2>6
  <2> QED
    BY <1>1, <2>4, <2>5, <2>7
<1> QED
  BY <1>2, <1>3 DEF more

(* The swap folds its sample into the average that the history gives, for  *)
(* it replaces the value it computed from; no other step touches either.   *)
LEMMA HistoryKept == IInv /\ HistoryFolds /\ [Next]_vars => HistoryFolds'
<1> SUFFICES ASSUME IInv, HistoryFolds, [Next]_vars PROVE HistoryFolds'
  OBVIOUS
<1>1. ASSUME NEW w \in Workers, Swap(w), Unchanged(w) PROVE HistoryFolds'
  <2>1. folded \in Seq(Latencies) /\ ns[w] \in Latencies
    BY DEF IInv, TypeOK
  <2>2. /\ folded' = Append(folded, ns[w])
        /\ avgLatency' = Smoothed(avgLatency, ns[w])
    BY <1>1 DEF Swap, Unchanged
  <2>3. LET more == Append(folded, ns[w])
        IN  /\ \E f : Folding(f, more)
            /\ \A f : Folding(f, more)
                       => f[Len(more)] = Smoothed(avgLatency, ns[w])
    BY <2>1, FoldingGrows DEF HistoryFolds
  <2> QED
    BY <2>2, <2>3 DEF HistoryFolds
<1>2. CASE UNCHANGED <<folded, avgLatency>>
  BY <1>2 DEF HistoryFolds
<1>3. ASSUME NEW w \in Workers, WorkerNext(w) PROVE HistoryFolds'
  BY <1>1, <1>2, <1>3 DEF WorkerNext, Count, Load, Swap, Fail, Succeed
<1>4. CASE ReaderNext
  <2>1. UNCHANGED measures
    BY <1>4 DEF ReaderNext, CheckAlive, ReadTotal, ReadSuccess, ReadLatency,
                Weigh, Score, Forget
  <2> QED
    BY <1>2, <2>1 DEF measures
<1> QED
  BY <1>2, <1>3, <1>4 DEF Next, vars

(* The definition inside NoSampleLost denotes that function.               *)
LEMMA HistoryCounts == HistoryFolds => NoSampleLost
  BY DEF HistoryFolds, NoSampleLost, Folding

(* Before the first sample the average is zero.                            *)
LEMMA NoHistory == Init => HistoryFolds
<1> SUFFICES ASSUME Init PROVE HistoryFolds
  OBVIOUS
<1>1. folded = <<>> /\ avgLatency = 0 /\ Len(<<>>) = 0
  BY DEF Init
<1> DEFINE g == [i \in 0..0 |-> 0]
<1>2. g = [i \in 0..0 |-> IF i = 0 THEN 0 ELSE Smoothed(g[i - 1], <<>>[i])]
  OBVIOUS
<1> HIDE DEF g
<1>3. Folding(g, <<>>)
  BY <1>1, <1>2 DEF Folding
<1>4. ASSUME NEW f, Folding(f, <<>>) PROVE f[0] = 0
  BY <1>1, <1>4 DEF Folding
<1> QED
  BY <1>1, <1>3, <1>4 DEF HistoryFolds

(* No sample that recordLatency recorded is lost, however many attempts    *)
(* swap the average at once.                                               *)
THEOREM EverySampleCounts == Spec => []NoSampleLost
<1>1. Spec => []HistoryFolds
  BY Invariant, NoHistory, HistoryKept, PTL DEF Spec
<1> QED
  BY <1>1, HistoryCounts, PTL
=============================================================================
