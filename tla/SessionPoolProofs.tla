-------------------------- MODULE SessionPoolProofs -------------------------
(***************************************************************************)
(* Proofs about SessionPool, for any numbers of sessions and callers, with *)
(* or without a limiter.                                                   *)
(***************************************************************************)
EXTENDS SessionPool, FiniteSetTheorems, TLAPS

(* While a caller holds a session the channel has room for it: a release   *)
(* never finds it full.                                                    *)
LEMMA RoomToReturn ==
  ASSUME TypeOK, OnePlace, NEW c \in Callers, Holds(c)
  PROVE  ~ChannelFull
<1>1. held[c] \in Sessions /\ held[c] \notin idle /\ idle \subseteq Sessions
  BY DEF TypeOK, OnePlace, Holds
<1>2. IsFiniteSet(Sessions)
  BY SessionsAssumption
<1>3. IsFiniteSet(Sessions \ {held[c]})
        /\ Cardinality(Sessions \ {held[c]}) = Cardinality(Sessions) - 1
  BY <1>1, <1>2, FS_RemoveElement
<1>4. Cardinality(idle) <= Cardinality(Sessions \ {held[c]})
  BY <1>1, <1>3, FS_Subset
<1>5. Cardinality(idle) \in Nat /\ Cardinality(Sessions) \in Nat
  BY <1>1, <1>2, FS_CardinalityType, FS_Subset
<1> QED
  BY <1>3, <1>4, <1>5 DEF ChannelFull, PoolSize

(* Every step keeps every variable's type.                                 *)
LEMMA TypeKept == IInv /\ Next => TypeOK'
<1> SUFFICES ASSUME IInv, Next PROVE TypeOK'
  OBVIOUS
<1> USE DEF IInv, TypeOK, CloseOrder, Holds, CallerSteps, Verdicts,
            CloserSteps, Goto
<1>1. ASSUME NEW c \in Callers, Acquire(c) PROVE TypeOK'
  BY <1>1 DEF Acquire, ReturnFrom
<1>2. ASSUME NEW c \in Callers, GiveUp(c) PROVE TypeOK'
  BY <1>2 DEF GiveUp
<1>3. ASSUME NEW c \in Callers, LimiterGrants(c) PROVE TypeOK'
  BY <1>3 DEF LimiterGrants
<1>4. ASSUME NEW c \in Callers, LimiterRefuses(c) PROVE TypeOK'
  BY <1>4 DEF LimiterRefuses, WaitEnded
<1>5. ASSUME NEW c \in Callers, ExplainRefusal(c) PROVE TypeOK'
  BY <1>5 DEF ExplainRefusal, ReturnFrom
<1>6. ASSUME NEW c \in Callers, Keep(c) PROVE TypeOK'
  BY <1>6 DEF Keep, StillOpen, ReturnFrom
<1>7. ASSUME NEW c \in Callers, Discard(c) PROVE TypeOK'
  BY <1>7 DEF Discard, StillOpen, Discarded, ReturnFrom
<1>8. ASSUME NEW c \in Callers, SeeClosed(c) PROVE TypeOK'
  BY <1>8 DEF SeeClosed, CloseSeen, ReturnFrom
<1>9. ASSUME NEW c \in Callers, SeeDone(c) PROVE TypeOK'
  BY <1>9 DEF SeeDone, DoneVerdict, ReturnFrom
<1>10. ASSUME NEW c \in Callers, NEW s \in Sessions, Receive(c, s)
      PROVE  TypeOK'
  BY <1>10 DEF Receive
<1>11. ASSUME NEW c \in Callers, Release(c) PROVE TypeOK'
  <2>1. held[c] \in Sessions
    BY <1>11 DEF Release
  <2>2. idle' \in SUBSET Sessions /\ gone' \in SUBSET Sessions
    BY <1>11, <2>1 DEF Release
  <2>3. /\ held' \in [Callers -> Sessions \cup {None}]
        /\ pc' \in [Callers -> CallerSteps]
    BY <1>11 DEF Release
  <2> QED
    BY <1>11, <2>2, <2>3 DEF Release
<1>12. CASE LockSessions
  BY <1>12 DEF LockSessions, WaitsAtLock
<1>13. CASE CloseChannel
  BY <1>13 DEF CloseChannel
<1>14. CASE CancelWaits
  BY <1>14 DEF CancelWaits
<1>15. CASE FinishClose
  BY <1>15 DEF FinishClose, Drained
<1>16. ASSUME NEW s \in Sessions, Drain(s) PROVE TypeOK'
  BY <1>16 DEF Drain
<1> QED
  BY <1>1, <1>2, <1>3, <1>4, <1>5, <1>6, <1>7, <1>8, <1>9,
     <1>10, <1>11, <1>12, <1>13, <1>14, <1>15, <1>16
     DEF Next, CallerNext, AcquireSteps, Select, CloserNext

(* A session moves from one place to another, never to two and never away. *)
LEMMA OnePlaceKept == IInv /\ Next => OnePlace'
<1> SUFFICES ASSUME IInv, Next PROVE OnePlace'
  OBVIOUS
<1> USE PlacesAssumption
    DEF IInv, TypeOK, CallerSteps, Goto, OnePlace, CloseOrder, Holds
<1>1. ASSUME NEW c \in Callers, Acquire(c) PROVE OnePlace'
  BY <1>1 DEF Acquire, ReturnFrom
<1>2. ASSUME NEW c \in Callers, GiveUp(c) PROVE OnePlace'
  BY <1>2 DEF GiveUp
<1>3. ASSUME NEW c \in Callers, LimiterGrants(c) PROVE OnePlace'
  BY <1>3 DEF LimiterGrants
<1>4. ASSUME NEW c \in Callers, LimiterRefuses(c) PROVE OnePlace'
  BY <1>4 DEF LimiterRefuses, WaitEnded
<1>5. ASSUME NEW c \in Callers, ExplainRefusal(c) PROVE OnePlace'
  BY <1>5 DEF ExplainRefusal, ReturnFrom
<1>6. ASSUME NEW c \in Callers, Keep(c) PROVE OnePlace'
  BY <1>6 DEF Keep, StillOpen, ReturnFrom
<1>7. ASSUME NEW c \in Callers, Discard(c) PROVE OnePlace'
  BY <1>7 DEF Discard, StillOpen, Discarded, ReturnFrom
<1>8. ASSUME NEW c \in Callers, SeeClosed(c) PROVE OnePlace'
  BY <1>8 DEF SeeClosed, CloseSeen, ReturnFrom
<1>9. ASSUME NEW c \in Callers, SeeDone(c) PROVE OnePlace'
  BY <1>9 DEF SeeDone, DoneVerdict, ReturnFrom
<1>10. ASSUME NEW c \in Callers, NEW s \in Sessions, Receive(c, s)
      PROVE  OnePlace'
  BY <1>10 DEF Receive
<1>11. ASSUME NEW c \in Callers, Release(c) PROVE OnePlace'
  BY <1>11 DEF Release, PutBack, ChannelFull
<1>12. CASE LockSessions
  BY <1>12 DEF LockSessions, WaitsAtLock
<1>13. CASE CloseChannel
  BY <1>13 DEF CloseChannel
<1>14. CASE CancelWaits
  BY <1>14 DEF CancelWaits
<1>15. CASE FinishClose
  BY <1>15 DEF FinishClose, Drained
<1>16. ASSUME NEW s \in Sessions, Drain(s) PROVE OnePlace'
  BY <1>16 DEF Drain
<1> QED
  BY <1>1, <1>2, <1>3, <1>4, <1>5, <1>6, <1>7, <1>8, <1>9,
     <1>10, <1>11, <1>12, <1>13, <1>14, <1>15, <1>16
     DEF Next, CallerNext, AcquireSteps, Select, CloserNext

(* What is closed, cancelled and refused keeps its order.                  *)
LEMMA CloseOrderKept == IInv /\ Next => CloseOrder'
<1> SUFFICES ASSUME IInv, Next PROVE CloseOrder'
  OBVIOUS
<1> USE PlacesAssumption
    DEF IInv, TypeOK, CallerSteps, Goto, OnePlace, CloseOrder, Holds,
        CloserSteps
<1>1. ASSUME NEW c \in Callers, Acquire(c) PROVE CloseOrder'
  BY <1>1 DEF Acquire, ReturnFrom
<1>2. ASSUME NEW c \in Callers, GiveUp(c) PROVE CloseOrder'
  BY <1>2 DEF GiveUp
<1>3. ASSUME NEW c \in Callers, LimiterGrants(c) PROVE CloseOrder'
  BY <1>3 DEF LimiterGrants
<1>4. ASSUME NEW c \in Callers, LimiterRefuses(c) PROVE CloseOrder'
  BY <1>4 DEF LimiterRefuses, WaitEnded
<1>5. ASSUME NEW c \in Callers, ExplainRefusal(c) PROVE CloseOrder'
  BY <1>5 DEF ExplainRefusal, ReturnFrom
<1>6. ASSUME NEW c \in Callers, Keep(c) PROVE CloseOrder'
  BY <1>6 DEF Keep, StillOpen, ReturnFrom
<1>7. ASSUME NEW c \in Callers, Discard(c) PROVE CloseOrder'
  BY <1>7 DEF Discard, StillOpen, Discarded, ReturnFrom
<1>8. ASSUME NEW c \in Callers, SeeClosed(c) PROVE CloseOrder'
  BY <1>8 DEF SeeClosed, CloseSeen, ReturnFrom
<1>9. ASSUME NEW c \in Callers, SeeDone(c) PROVE CloseOrder'
  BY <1>9 DEF SeeDone, DoneVerdict, ReturnFrom
<1>10. ASSUME NEW c \in Callers, NEW s \in Sessions, Receive(c, s)
      PROVE  CloseOrder'
  BY <1>10 DEF Receive
<1>11. ASSUME NEW c \in Callers, Release(c) PROVE CloseOrder'
  BY <1>11, RoomToReturn DEF Release, PutBack, SessionMuFree
<1>12. CASE LockSessions
  BY <1>12 DEF LockSessions, WaitsAtLock
<1>13. CASE CloseChannel
  BY <1>13 DEF CloseChannel
<1>14. CASE CancelWaits
  BY <1>14 DEF CancelWaits
<1>15. CASE FinishClose
  BY <1>15 DEF FinishClose, Drained
<1>16. ASSUME NEW s \in Sessions, Drain(s) PROVE CloseOrder'
  BY <1>16 DEF Drain
<1> QED
  BY <1>1, <1>2, <1>3, <1>4, <1>5, <1>6, <1>7, <1>8, <1>9,
     <1>10, <1>11, <1>12, <1>13, <1>14, <1>15, <1>16
     DEF Next, CallerNext, AcquireSteps, Select, CloserNext

(* A refusal blamed on the limiter stays the caller's own.                 *)
LEMMA RateLimitKept == IInv /\ Next => RateLimitIsOwn'
<1> SUFFICES ASSUME IInv, Next PROVE RateLimitIsOwn'
  OBVIOUS
<1> USE DEF IInv, TypeOK, CloseOrder, Goto, Verdicts, RateLimitIsOwn
<1>1. ASSUME NEW c \in Callers, Acquire(c) PROVE RateLimitIsOwn'
  BY <1>1 DEF Acquire, ReturnFrom
<1>2. ASSUME NEW c \in Callers, GiveUp(c) PROVE RateLimitIsOwn'
  BY <1>2 DEF GiveUp
<1>3. ASSUME NEW c \in Callers, LimiterGrants(c) PROVE RateLimitIsOwn'
  BY <1>3 DEF LimiterGrants
<1>4. ASSUME NEW c \in Callers, LimiterRefuses(c) PROVE RateLimitIsOwn'
  BY <1>4 DEF LimiterRefuses, WaitEnded
<1>5. ASSUME NEW c \in Callers, ExplainRefusal(c) PROVE RateLimitIsOwn'
  BY <1>5 DEF ExplainRefusal, ReturnFrom
<1>6. ASSUME NEW c \in Callers, Keep(c) PROVE RateLimitIsOwn'
  BY <1>6 DEF Keep, StillOpen, ReturnFrom
<1>7. ASSUME NEW c \in Callers, Discard(c) PROVE RateLimitIsOwn'
  BY <1>7 DEF Discard, StillOpen, Discarded, ReturnFrom
<1>8. ASSUME NEW c \in Callers, SeeClosed(c) PROVE RateLimitIsOwn'
  BY <1>8 DEF SeeClosed, CloseSeen, ReturnFrom
<1>9. ASSUME NEW c \in Callers, SeeDone(c) PROVE RateLimitIsOwn'
  BY <1>9 DEF SeeDone, DoneVerdict, ReturnFrom
<1>10. ASSUME NEW c \in Callers, NEW s \in Sessions, Receive(c, s)
      PROVE  RateLimitIsOwn'
  BY <1>10 DEF Receive
<1>11. ASSUME NEW c \in Callers, Release(c) PROVE RateLimitIsOwn'
  BY <1>11 DEF Release, PutBack, ChannelFull
<1>12. CASE LockSessions
  BY <1>12 DEF LockSessions, WaitsAtLock
<1>13. CASE CloseChannel
  BY <1>13 DEF CloseChannel
<1>14. CASE CancelWaits
  BY <1>14 DEF CancelWaits
<1>15. CASE FinishClose
  BY <1>15 DEF FinishClose, Drained
<1>16. ASSUME NEW s \in Sessions, Drain(s) PROVE RateLimitIsOwn'
  BY <1>16 DEF Drain
<1> QED
  BY <1>1, <1>2, <1>3, <1>4, <1>5, <1>6, <1>7, <1>8, <1>9,
     <1>10, <1>11, <1>12, <1>13, <1>14, <1>15, <1>16
     DEF Next, CallerNext, AcquireSteps, Select, CloserNext

(* The inductive invariant holds in every reachable state.                 *)
THEOREM Invariant == Spec => []IInv
<1>1. Init => IInv
  BY PlacesAssumption
     DEF Init, IInv, TypeOK, CallerSteps, Verdicts, CloserSteps, OnePlace,
         CloseOrder, Holds, RateLimitIsOwn
<1>2. IInv /\ UNCHANGED vars => IInv'
  <2> SUFFICES ASSUME IInv, UNCHANGED vars PROVE IInv'
    OBVIOUS
  <2>1. TypeOK'
    BY DEF IInv, vars, TypeOK
  <2>2. OnePlace'
    BY DEF IInv, vars, OnePlace, Holds
  <2>3. CloseOrder'
    BY DEF IInv, vars, CloseOrder, Holds
  <2>4. RateLimitIsOwn'
    BY DEF IInv, vars, RateLimitIsOwn
  <2> QED
    BY <2>1, <2>2, <2>3, <2>4 DEF IInv
<1>3. IInv /\ Next => IInv'
  BY TypeKept, OnePlaceKept, CloseOrderKept, RateLimitKept DEF IInv
<1> QED
  BY <1>1, <1>2, <1>3, PTL DEF Spec

-----------------------------------------------------------------------------
(* Every session is in one place: the channel, one caller's hands, or      *)
(* closed.                                                                 *)
THEOREM SessionsInOnePlace == Spec => []OnePlace
<1>1. IInv => OnePlace
  BY DEF IInv
<1> QED
  BY <1>1, Invariant, PTL

(* A release never finds the channel full, whatever the number of sessions *)
(* and callers, so no good session is thrown away.                         *)
THEOREM ReleaseNeverFull == Spec => []NeverFull
<1>1. IInv => NeverFull
  BY RoomToReturn DEF IInv, NeverFull, CloseOrder
<1> QED
  BY <1>1, Invariant, PTL

(* A Close that returned left no session in the channel.                   *)
THEOREM CloseLeaksNothing == Spec => []ClosedIsEmpty
<1>1. IInv => ClosedIsEmpty
  BY DEF IInv, ClosedIsEmpty, OnePlace, CloseOrder
<1> QED
  BY <1>1, Invariant, PTL

(* Only a caller that gave up or set a deadline gets a rate-limit error.   *)
THEOREM RateLimitErrorIsOwn == Spec => []RateLimitIsOwn
<1>1. IInv => RateLimitIsOwn
  BY DEF IInv
<1> QED
  BY <1>1, Invariant, PTL

(* Every variable keeps its type.                                          *)
THEOREM TypeCorrect == Spec => []TypeOK
<1>1. IInv => TypeOK
  BY DEF IInv
<1> QED
  BY <1>1, Invariant, PTL

(* Close refuses new borrowers before it cancels the limiter's waits, and  *)
(* ends both before it drains; nothing is closed before.                   *)
THEOREM CloseInOrder == Spec => []CloseOrder
<1>1. IInv => CloseOrder
  BY DEF IInv
<1> QED
  BY <1>1, Invariant, PTL

-----------------------------------------------------------------------------
(* SessionPool implements SessionLease                                     *)

(* Where a session is, for the lease, case by case.                        *)
LEMMA WhereLent ==
  ASSUME IInv, NEW c \in Callers, NEW s \in Sessions, Lent(c, s)
  PROVE  Where[s] = c
<1>1. s \notin gone
  BY PlacesAssumption DEF IInv, OnePlace, Holds, Lent
<1>2. \A d \in Callers : Lent(d, s) => d = c
  BY PlacesAssumption DEF IInv, OnePlace, Holds, Lent
<1> QED
  BY <1>1, <1>2 DEF Where

LEMMA WhereGone ==
  ASSUME NEW s \in gone, s \in Sessions
  PROVE  Where[s] = Gone
BY DEF Where

LEMMA WherePool ==
  ASSUME NEW s \in Sessions, s \notin gone, \A c \in Callers : ~Lent(c, s)
  PROVE  Where[s] = Pool
BY DEF Where

(* A step that keeps who is lent what, and what is closed, keeps Where.    *)
LEMMA WhereKept ==
  ASSUME gone' = gone,
         \A c \in Callers, s \in Sessions : Lent(c, s)' <=> Lent(c, s)
  PROVE  Where' = Where
<1>1. ASSUME NEW s \in Sessions
      PROVE  (CHOOSE c \in Callers : Lent(c, s)')
               = (CHOOSE c \in Callers : Lent(c, s))
  OBVIOUS
<1> QED
  BY <1>1 DEF Where

(* A step that moves one session keeps Where of the others.                *)
LEMMA WhereMoved ==
  ASSUME NEW s \in Sessions,
         \A t \in Sessions \ {s} :
           /\ t \in gone' <=> t \in gone
           /\ \A c \in Callers : Lent(c, t)' <=> Lent(c, t)
  PROVE  Where' = [Where EXCEPT ![s] = Where'[s]]
<1>1. ASSUME NEW t \in Sessions \ {s}
      PROVE  Where'[t] = Where[t]
  <2>1. (CHOOSE c \in Callers : Lent(c, t)')
          = (CHOOSE c \in Callers : Lent(c, t))
    BY <1>1
  <2> QED
    BY <1>1, <2>1 DEF Where
<1>2. DOMAIN Where = Sessions /\ DOMAIN Where' = Sessions
  BY DEF Where
<1>3. Where = [t \in Sessions |-> Where[t]]
      /\ Where' = [t \in Sessions |-> Where'[t]]
  BY DEF Where
<1> QED
  BY <1>1, <1>2, <1>3

(* A caller at its second look at e.closed borrows the session it holds.   *)
LEMMA KeepLends ==
  ASSUME IInv, NEW c \in Callers, Keep(c)
  PROVE  \E s \in Sessions : Lease!Lend(c, s)
<1>0. PICK s \in Sessions : s = held[c]
  BY DEF Keep, IInv, TypeOK, CloseOrder, Holds
<1>1. /\ s = held[c] /\ s \notin gone /\ ~closed /\ ~closed'
      /\ pc[c] = "received"
  BY <1>0, PlacesAssumption
     DEF Keep, StillOpen, IInv, TypeOK, OnePlace, CloseOrder, Holds
<1>2. \A d \in Callers : held[d] = s => d = c
  BY <1>1, PlacesAssumption DEF IInv, OnePlace, Holds
<1>3. Where[s] = Pool
  BY <1>1, <1>2, WherePool DEF Lent
<1>4. ASSUME NEW t \in Sessions PROVE Where[t] # c
  <2>1. ASSUME NEW d \in Callers, Lent(d, t) PROVE Where[t] # c
    BY <1>1, <2>1, WhereLent DEF Lent
  <2>2. CASE t \in gone
    BY <2>2, WhereGone, PlacesAssumption
  <2>3. CASE t \notin gone /\ \A d \in Callers : ~Lent(d, t)
    BY <2>3, WherePool, PlacesAssumption
  <2> QED
    BY <2>1, <2>2, <2>3
<1>5. /\ held' = held /\ gone' = gone
      /\ pc' = [pc EXCEPT ![c] = "using"]
  BY DEF Keep, ReturnFrom, Goto
<1>6. \A d \in Callers : Lent(d, s)' <=> d = c
  BY <1>1, <1>2, <1>5 DEF Lent, IInv, TypeOK
<1>7. Where'[s] = c
  BY <1>1, <1>5, <1>6 DEF Where
<1>8. Where' = [Where EXCEPT ![s] = Where'[s]]
  <2>1. ASSUME NEW t \in Sessions \ {s}, NEW d \in Callers
        PROVE  Lent(d, t)' <=> Lent(d, t)
    BY <1>1, <1>5, <2>1 DEF Lent, IInv, TypeOK
  <2> QED
    BY <1>1, <1>5, <2>1, WhereMoved
<1> QED
  BY <1>1, <1>3, <1>4, <1>7, <1>8 DEF Lease!Lend, Keep, StillOpen

(* A session closed by a step that lends nothing is retired from the lease.*)
LEMMA ClosingRetires ==
  ASSUME IInv, NEW s \in Sessions, s \notin gone, gone' = gone \cup {s},
         closed, closed' = closed,
         \A c \in Callers, t \in Sessions \ {s} : Lent(c, t)' <=> Lent(c, t)
  PROVE  Lease!Retire(s)
<1>1. Where[s] # Gone
  <2>1. ASSUME NEW c \in Callers, Lent(c, s) PROVE Where[s] # Gone
    BY <2>1, WhereLent, PlacesAssumption
  <2>2. CASE \A c \in Callers : ~Lent(c, s)
    BY <2>2, WherePool, PlacesAssumption
  <2> QED
    BY <2>1, <2>2
<1>2. Where'[s] = Gone
  BY DEF Where
<1>3. Where' = [Where EXCEPT ![s] = Where'[s]]
  BY WhereMoved
<1> QED
  BY <1>1, <1>2, <1>3 DEF Lease!Retire

(* A release returns the session, or retires it once the pool is shut.     *)
LEMMA ReleaseReturns ==
  ASSUME IInv, NEW c \in Callers, Release(c)
  PROVE  \E s \in Sessions : Lease!Return(c, s) \/ Lease!Retire(s)
<1>0. PICK s \in Sessions : s = held[c]
  BY DEF Release, IInv, TypeOK, CloseOrder, Holds
<1>1. /\ s = held[c] /\ s \notin gone /\ Lent(c, s) /\ Holds(c)
  BY <1>0, PlacesAssumption
     DEF Release, IInv, TypeOK, OnePlace, CloseOrder, Holds, Lent
<1>2. /\ held' = [held EXCEPT ![c] = None]
      /\ pc' = [pc EXCEPT ![c] = "idle"]
      /\ closed' = closed
  BY DEF Release, Goto
<1>3. \A d \in Callers, t \in Sessions \ {s} : Lent(d, t)' <=> Lent(d, t)
  BY <1>1, <1>2, PlacesAssumption DEF Lent, IInv, TypeOK
<1>4. CASE closed
  <2>1. gone' = gone \cup {s}
    BY <1>1, <1>4 DEF Release, PutBack
  <2> QED
    BY <1>1, <1>2, <1>3, <1>4, <2>1, ClosingRetires
<1>5. CASE ~closed
  <2>1. gone' = gone
    BY <1>1, <1>5, RoomToReturn DEF Release, PutBack, IInv
  <2>2. \A d \in Callers : ~Lent(d, s)'
    <3>1. \A d \in Callers : held[d] = s => d = c
      BY <1>1 DEF IInv, OnePlace, Holds
    <3> QED
      BY <1>1, <1>2, <3>1 DEF Lent, IInv, TypeOK
  <2>3. Where'[s] = Pool
    BY <1>1, <2>1, <2>2 DEF Where
  <2>4. Where' = [Where EXCEPT ![s] = Where'[s]]
    BY <1>1, <1>3, <2>1, WhereMoved
  <2> QED
    BY <1>1, <1>2, <1>5, <2>3, <2>4, WhereLent DEF Lease!Return
<1> QED
  BY <1>4, <1>5

(* Every step is a step of the lease or leaves it unchanged.               *)
LEMMA StepImplements ==
  IInv /\ [Next]_vars => [Lease!Next]_<<Where, closed>>
<1> SUFFICES ASSUME IInv, [Next]_vars
             PROVE  Lease!Next \/ UNCHANGED <<Where, closed>>
  OBVIOUS
<1>1. ASSUME NEW c \in Callers, Keep(c) PROVE Lease!Next
  BY <1>1, KeepLends DEF Lease!Next
<1>2. ASSUME NEW c \in Callers, Release(c) PROVE Lease!Next
  BY <1>2, ReleaseReturns DEF Lease!Next
<1>3. ASSUME NEW c \in Callers, Discard(c) PROVE Lease!Next
  <2>0. PICK s \in Sessions : s = held[c]
    BY <1>3 DEF Discard, IInv, TypeOK, CloseOrder, Holds
  <2>1. s \notin gone /\ gone' = gone \cup {s} /\ closed /\ closed' = closed
    BY <1>3, <2>0, PlacesAssumption
       DEF Discard, StillOpen, Discarded, IInv, OnePlace, Holds
  <2>2. \A d \in Callers, t \in Sessions : Lent(d, t)' <=> Lent(d, t)
    BY <1>3, PlacesAssumption DEF Discard, ReturnFrom, Goto, Lent, IInv, TypeOK
  <2> QED
    BY <2>1, <2>2, ClosingRetires DEF Lease!Next
<1>4. ASSUME NEW s \in Sessions, Drain(s) PROVE Lease!Next
  <2>1. s \notin gone /\ gone' = gone \cup {s} /\ closed /\ closed' = closed
    BY <1>4 DEF Drain, IInv, OnePlace, CloseOrder
  <2>2. \A d \in Callers, t \in Sessions : Lent(d, t)' <=> Lent(d, t)
    BY <1>4 DEF Drain, Lent
  <2> QED
    BY <2>1, <2>2, ClosingRetires DEF Lease!Next
<1>5. CASE CloseChannel
  <2>1. ~closed
    BY <1>5 DEF CloseChannel, IInv, CloseOrder
  <2>2. Where' = Where
    BY <1>5, WhereKept DEF CloseChannel, Lent
  <2> QED
    BY <1>5, <2>1, <2>2 DEF CloseChannel, Lease!Next, Lease!Shut
<1>6. ASSUME gone' = gone, closed' = closed,
             \A c \in Callers, s \in Sessions : Lent(c, s)' <=> Lent(c, s)
      PROVE  UNCHANGED <<Where, closed>>
  BY <1>6, WhereKept
<1>7. ASSUME NEW c \in Callers,
             \/ Acquire(c) \/ GiveUp(c) \/ LimiterGrants(c)
             \/ LimiterRefuses(c) \/ ExplainRefusal(c) \/ SeeClosed(c)
             \/ SeeDone(c) \/ \E s \in Sessions : Receive(c, s)
      PROVE  UNCHANGED <<Where, closed>>
  <2>1. gone' = gone /\ closed' = closed
    BY <1>7 DEF Acquire, GiveUp, LimiterGrants, LimiterRefuses, ExplainRefusal,
                SeeClosed, SeeDone, Receive
  <2>2. /\ pc[c] # "using" /\ pc'[c] # "using"
        /\ \A d \in Callers \ {c} : pc'[d] = pc[d] /\ held'[d] = held[d]
    BY <1>7 DEF Acquire, GiveUp, LimiterGrants, LimiterRefuses, ExplainRefusal,
                SeeClosed, SeeDone, DoneVerdict, Receive, ReturnFrom, Goto,
                IInv, TypeOK, CallerSteps
  <2>3. \A d \in Callers, s \in Sessions : Lent(d, s)' <=> Lent(d, s)
    BY <2>2 DEF Lent
  <2> QED
    BY <1>6, <2>1, <2>3
<1>8. CASE LockSessions \/ CancelWaits \/ FinishClose \/ UNCHANGED vars
  BY <1>6, <1>8 DEF LockSessions, CancelWaits, FinishClose, vars, Lent
<1> QED
  BY <1>1, <1>2, <1>3, <1>4, <1>5, <1>7, <1>8
     DEF Next, CallerNext, AcquireSteps, Select, CloserNext

(* The pool implements its promise: a session is lent to one caller at a   *)
(* time and only while the pool is open, and closed once, only after.      *)
THEOREM ImplementsLease == Spec => LeaseSpec
<1>1. Init => Lease!Init
  <2> SUFFICES ASSUME Init PROVE Lease!Init
    OBVIOUS
  <2>1. \A s \in Sessions : Where[s] = Pool
    BY WherePool DEF Init, Lent
  <2>2. Where = [s \in Sessions |-> Where[s]]
    BY DEF Where
  <2> QED
    BY <2>1, <2>2 DEF Init, Lease!Init
<1> QED
  BY <1>1, Invariant, StepImplements, PTL DEF Spec, LeaseSpec, Lease!Spec
=============================================================================
