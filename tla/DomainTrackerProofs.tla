------------------------ MODULE DomainTrackerProofs -------------------------
(***************************************************************************)
(* Proofs about DomainTracker, for any number of goroutines and entries    *)
(* and any times.                                                          *)
(***************************************************************************)
EXTENDS DomainTracker, TLAPS

USE TimesAssumption, NoneAssumption DEF Times

(* Every step keeps every variable's type.                                 *)
LEMMA TypeKept == TypeOK /\ Next => TypeOK'
<1> SUFFICES ASSUME TypeOK, Next PROVE TypeOK'
  OBVIOUS
<1> USE DEF TypeOK, Answers, ReaderSteps
<1>1. ASSUME NEW w \in Recorders, Stamp(w) PROVE TypeOK'
  BY <1>1 DEF Stamp, BlockedAt
<1>2. ASSUME NEW w \in Recorders, Store(w) PROVE TypeOK'
  BY <1>2 DEF Store, Later
<1>3. ASSUME NEW r \in Readers, Begin(r) PROVE TypeOK'
  BY <1>3 DEF Begin
<1>4. ASSUME NEW r \in Readers, Load(r) PROVE TypeOK'
  BY <1>4 DEF Load, Answer
<1>5. ASSUME NEW r \in Readers, Check(r) PROVE TypeOK'
  BY <1>5 DEF Check, Answer
<1>6. ASSUME NEW r \in Readers, Delete(r) PROVE TypeOK'
  BY <1>6 DEF Delete, Answer, Removed
<1>7. CASE Tick
  BY <1>7 DEF Tick
<1> QED
  BY <1>1, <1>2, <1>3, <1>4, <1>5, <1>6, <1>7 DEF Next

(* Stamping touches an entry that nothing reaches.                         *)
LEMMA StampKeeps ==
  ASSUME IInv, NEW w \in Recorders, Stamp(w)
  PROVE  Remembered' /\ PenaltyRemembered'
<1> USE DEF IInv, TypeOK
<1>1. PICK e \in Entries :
        /\ ~Reachable(e)
        /\ stamp' = [stamp EXCEPT ![e] = now]
        /\ fresh' = [fresh EXCEPT ![w] = e]
  BY DEF Stamp, BlockedAt
<1>2. /\ \A f \in Entries : Reachable(f) => stamp'[f] = stamp[f]
      /\ stamp'[e] = now
  BY <1>1
<1>3. /\ block # None => Reachable(block)
      /\ \A v \in Recorders : fresh[v] # None => Reachable(fresh[v])
      /\ \A r \in Readers : seen[r] # None => Reachable(seen[r])
  BY DEF Reachable
<1>4. UNCHANGED <<now, block, seen, pc, answer, newest, known>>
  BY DEF Stamp
<1>5. newest # None =>
        newest <= now
        /\ (Covers(block, newest)' \/ now > newest + TTL - Lag)
  BY <1>2, <1>3, <1>4 DEF Remembered, Covers
<1>6. \A f \in Entries : stamp'[f] <= now
  BY <1>1 DEF Remembered
<1>7. \A v \in Recorders : fresh'[v] # None => now <= stamp'[fresh'[v]] + Lag
  BY <1>1, <1>2, <1>3 DEF Remembered
<1>8. ASSUME NEW r \in Readers
      PROVE  /\ seen[r] # None =>
                  \/ Covers(seen[r], known[r])'
                  \/ now > known[r] + TTL - Lag
             /\ pc[r] = "deleting" => Expired(seen[r])'
  BY <1>2, <1>3, <1>4 DEF Remembered, Covers, Expired
<1> QED
  BY <1>4, <1>5, <1>6, <1>7, <1>8 DEF Remembered, PenaltyRemembered

(* A stored entry is at most Lag older than any RecordBlock that returned. *)
LEMMA StoreKeeps ==
  ASSUME IInv, NEW w \in Recorders, Store(w)
  PROVE  Remembered' /\ PenaltyRemembered'
<1> USE DEF IInv, TypeOK
<1>1. /\ fresh[w] \in Entries
      /\ block' = fresh[w]
      /\ newest' = Later(newest, stamp[fresh[w]])
      /\ fresh' = [fresh EXCEPT ![w] = None]
      /\ UNCHANGED <<now, stamp, seen, pc, answer, known>>
  BY DEF Store
<1>2. /\ newest' <= now /\ newest' \in Times
      /\ newest # None => newest <= newest'
  BY <1>1 DEF Later, Remembered
<1>3. Covers(block, newest)'
  BY <1>1, <1>2 DEF Covers, Remembered
<1>4. \A r \in Readers :
        known[r] # None => newest' # None /\ known[r] <= newest'
  BY <1>2 DEF Remembered
<1> QED
  BY <1>1, <1>2, <1>3, <1>4 DEF Remembered, PenaltyRemembered, Covers, Expired

(* A deletion takes the expired entry the reader saw, or nothing.          *)
LEMMA DeleteKeeps ==
  ASSUME IInv, NEW r \in Readers, Delete(r)
  PROVE  Remembered' /\ PenaltyRemembered'
<1> USE DEF IInv, TypeOK
<1>1. /\ pc[r] = "deleting" /\ seen[r] \in Entries /\ Expired(seen[r])
      /\ block' = IF block = seen[r] THEN None ELSE block
      /\ UNCHANGED <<now, stamp, fresh, newest, known>>
      /\ pc' = [pc EXCEPT ![r] = "idle"]
      /\ seen' = [seen EXCEPT ![r] = None]
      /\ answer' = [answer EXCEPT ![r] = "1.0"]
  BY DEF Delete, Answer, Removed, Remembered
<1>2. newest # None =>
        Covers(block, newest)' \/ now > newest + TTL - Lag
  BY <1>1 DEF Remembered, Covers, Expired
<1>3. known[r] = None \/ now > known[r] + TTL - Lag
  BY <1>1 DEF Remembered, Covers, Expired
<1> QED
  BY <1>1, <1>2, <1>3 DEF Remembered, PenaltyRemembered, Covers, Expired

(* No step forgets a block whose time is not over.                         *)
LEMMA Kept == IInv /\ Next => Remembered' /\ PenaltyRemembered'
<1> SUFFICES ASSUME IInv, Next PROVE Remembered' /\ PenaltyRemembered'
  OBVIOUS
<1> USE DEF IInv, TypeOK, Answers, ReaderSteps
<1>1. ASSUME NEW r \in Readers, Begin(r)
      PROVE  Remembered' /\ PenaltyRemembered'
  BY <1>1 DEF Begin, Remembered, PenaltyRemembered, Covers, Expired
<1>2. ASSUME NEW r \in Readers, Load(r)
      PROVE  Remembered' /\ PenaltyRemembered'
  BY <1>2 DEF Load, Answer, Remembered, PenaltyRemembered, Covers, Expired
<1>3. ASSUME NEW r \in Readers, Check(r)
      PROVE  Remembered' /\ PenaltyRemembered'
  BY <1>3 DEF Check, Answer, Remembered, PenaltyRemembered, Covers, Expired
<1>4. CASE Tick
  BY <1>4 DEF Tick, Remembered, PenaltyRemembered, Covers, Expired
<1> QED
  BY <1>1, <1>2, <1>3, <1>4, StampKeeps, StoreKeeps, DeleteKeeps DEF Next

(* The inductive invariant holds in every reachable state.                 *)
THEOREM Invariant == Spec => []IInv
<1>1. Init => IInv
  BY DEF Init, IInv, TypeOK, Answers, ReaderSteps, Remembered,
         PenaltyRemembered, Covers, Expired
<1>2. IInv /\ UNCHANGED vars => IInv'
  BY DEF vars, IInv, TypeOK, Remembered, PenaltyRemembered, Covers, Expired
<1>3. IInv /\ Next => IInv'
  BY TypeKept, Kept DEF IInv
<1> QED
  BY <1>1, <1>2, <1>3, PTL DEF Spec

(* Every variable keeps its type.                                          *)
THEOREM TypeCorrect == Spec => []TypeOK
<1>1. IInv => TypeOK
  BY DEF IInv
<1> QED
  BY <1>1, Invariant, PTL

(* After a RecordBlock returned, PenaltyFor penalises until the block's    *)
(* TTL, less the time a RecordBlock may dawdle, is over.                   *)
THEOREM BlocksRemembered == Spec => []PenaltyRemembered
<1>1. IInv => PenaltyRemembered
  BY DEF IInv
<1> QED
  BY <1>1, Invariant, PTL
=============================================================================
