--------------------------- MODULE LifecycleProofs ---------------------------
(***************************************************************************)
(* Proofs about Lifecycle, for any numbers of pools, endpoints, sessions   *)
(* and callers of Close.                                                   *)
(***************************************************************************)
EXTENDS Lifecycle, SequenceTheorems, TLAPS

(* An endpoint is a position in the configuration and a place in its pool. *)
LEMMA EndpointPairs ==
  /\ \A ep \in Endpoints : /\ ep[1] \in Positions
                           /\ ep[2] \in 1..NumEndpoints[ep[1]]
                           /\ ep = <<ep[1], ep[2]>>
  /\ \A i \in Positions : \A e \in 1..NumEndpoints[i] : <<i, e>> \in Endpoints
BY DEF Endpoints

(* There are naturally many pools and endpoints.                           *)
LEMMA Counts ==
  /\ MaxPools \in Nat
  /\ \A i \in Positions : NumEndpoints[i] \in Nat \ {0}
BY LifecycleAssumption DEF Positions

(* The round of a checker stays within its pool.                           *)
LEMMA CursorInPool ==
  ASSUME NEW n \in Nat, NEW c \in 0..n
  PROVE  (c + 1) % (n + 1) \in 0..n
OBVIOUS

(* Every configured pool has a name.                                       *)
LEMMA PoolHasName ==
  ASSUME PoolsInOrder, NEW i \in 1..Len(config)
  PROVE  i \in Positions /\ Name(i) \in Names
<1>1. Len(config) \in Nat /\ Len(config) <= MaxPools
  BY DEF PoolsInOrder
<1>2. config[i] \in [name : Names, checked : BOOLEAN]
  BY ElementOfSeq DEF PoolsInOrder
<1> QED
  BY <1>1, <1>2, Counts DEF Name, Positions

(* The map holds the pools New is done with, all of them and no others.    *)
LEMMA RegisteredArePast ==
  ASSUME TypeOK, PoolsInOrder
  PROVE  Registered = 1..(at[1] - 1)
<1>1. ASSUME NEW i \in 1..(at[1] - 1)
      PROVE  i \in Positions /\ Name(i) \in Names
  <2>1. at[1] \in Nat /\ Len(config) \in Nat
    BY Counts DEF TypeOK, PoolsInOrder
  <2>2. i \in 1..Len(config)
    BY <2>1 DEF PoolsInOrder
  <2> QED
    BY <2>2, PoolHasName
<1>2. 1..(at[1] - 1) \subseteq Registered
  BY <1>1 DEF PoolsInOrder, Registered
<1>3. Registered \subseteq 1..(at[1] - 1)
  BY Counts DEF TypeOK, PoolsInOrder, Registered, Positions
<1> QED
  BY <1>2, <1>3

(* What a goroutine is given to close are endpoints of the pool ...        *)
LEMMA WholePool ==
  ASSUME NEW i \in Positions, NEW n \in 0..NumEndpoints[i]
  PROVE  /\ EndpointsOf(i, n) \in Seq(Endpoints)
         /\ Len(EndpointsOf(i, n)) = n
         /\ \A e \in 1..n : EndpointsOf(i, n)[e] = <<i, e>>
BY EndpointPairs, Counts DEF EndpointsOf

(* ... and of the pool that failed, all that New had begun with.           *)
LEMMA WholeUnfinished ==
  ASSUME TypeOK, at \in Endpoints
  PROVE  /\ Unfinished \in Seq(Endpoints)
         /\ \A k \in DOMAIN Unfinished : Unfinished[k][1] = at[1]
         /\ \A e \in 1..at[2] :
              \E k \in DOMAIN Unfinished : Unfinished[k] = <<at[1], e>>
<1> DEFINE rest == EndpointsOf(at[1], at[2] - 1)
<1>1. /\ at[1] \in Positions
      /\ at[2] \in 1..NumEndpoints[at[1]]
      /\ at = <<at[1], at[2]>>
      /\ at[2] - 1 \in 0..NumEndpoints[at[1]]
  BY EndpointPairs, Counts
<1>2. /\ rest \in Seq(Endpoints)
      /\ Len(rest) = at[2] - 1
      /\ \A e \in 1..(at[2] - 1) : rest[e] = <<at[1], e>>
  BY <1>1, WholePool
<1>3. <<at>> \in Seq(Endpoints) /\ Len(<<at>>) = 1 /\ <<at>>[1] = at
  OBVIOUS
<1>4. Unfinished = <<at>> \o rest
  BY DEF Unfinished
<1> HIDE DEF rest
<1>5. /\ Unfinished \in Seq(Endpoints)
      /\ Len(Unfinished) = at[2]
      /\ Unfinished[1] = at
      /\ \A e \in 1..(at[2] - 1) : Unfinished[e + 1] = rest[e]
  BY <1>1, <1>2, <1>3, <1>4
<1>6. ASSUME NEW k \in 2..at[2] PROVE Unfinished[k] = <<at[1], k - 1>>
  <2>1. k - 1 \in 1..(at[2] - 1) /\ (k - 1) + 1 = k
    BY <1>1
  <2> QED
    BY <2>1, <1>2, <1>5
<1>7. DOMAIN Unfinished = 1..at[2]
  BY <1>5
<1>8. ASSUME NEW e \in 1..at[2]
      PROVE  \E k \in DOMAIN Unfinished : Unfinished[k] = <<at[1], e>>
  <2>1. CASE e = at[2]
    BY <2>1, <1>1, <1>5, <1>7
  <2>2. CASE e < at[2]
    <3>1. e + 1 \in 2..at[2] /\ (e + 1) - 1 = e
      BY <2>2, <1>1
    <3> QED
      BY <3>1, <1>6, <1>7
  <2> QED
    BY <2>1, <2>2, <1>1
<1>9. ASSUME NEW k \in DOMAIN Unfinished PROVE Unfinished[k][1] = at[1]
  BY <1>5, <1>6, <1>7
<1> QED
  BY <1>5, <1>8, <1>9

(* Of what is awaited the head goes first, and the rest stays.             *)
LEMMA AwaitsHeadOrTail ==
  ASSUME NEW w \in Seq(Endpoints), w # <<>>
  PROVE  /\ Head(w) \in Endpoints
         /\ Tail(w) \in Seq(Endpoints)
         /\ \A k \in DOMAIN w :
              w[k] = Head(w) \/ \E j \in DOMAIN Tail(w) : Tail(w)[j] = w[k]
         /\ \A j \in DOMAIN Tail(w) : \E k \in DOMAIN w : w[k] = Tail(w)[j]
<1>1. /\ Head(w) = w[1] /\ Head(w) \in Endpoints
      /\ Tail(w) \in Seq(Endpoints)
      /\ DOMAIN w = 1..Len(w) /\ DOMAIN Tail(w) = 1..(Len(w) - 1)
      /\ \A j \in 1..(Len(w) - 1) : Tail(w)[j] = w[j + 1]
      /\ Len(w) \in Nat \ {0}
  OBVIOUS
<1>2. ASSUME NEW k \in DOMAIN w
      PROVE  w[k] = Head(w) \/ \E j \in DOMAIN Tail(w) : Tail(w)[j] = w[k]
  <2>1. CASE k = 1
    BY <2>1, <1>1
  <2>2. CASE k # 1
    <3>1. k - 1 \in 1..(Len(w) - 1) /\ (k - 1) + 1 = k
      BY <2>2, <1>1
    <3> QED
      BY <3>1, <1>1
  <2> QED
    BY <2>1, <2>2
<1>3. ASSUME NEW j \in DOMAIN Tail(w)
      PROVE  \E k \in DOMAIN w : w[k] = Tail(w)[j]
  <2>1. j + 1 \in DOMAIN w
    BY <1>1
  <2> QED
    BY <2>1, <1>1
<1> QED
  BY <1>1, <1>2, <1>3

-----------------------------------------------------------------------------
(* Every step keeps every part of the inductive invariant                  *)

(* Every variable keeps its type.                                          *)
LEMMA TypeKept == IInv /\ Next => TypeOK'
<1> SUFFICES ASSUME IInv, Next PROVE TypeOK'
  OBVIOUS
<1> USE Counts
    DEF IInv, TypeOK, Goto, PutSession, construction, closing, checking
<1>1. CASE AcceptPool
  <2>1. at[1] \in Positions /\ at'[1] = at[1] /\ at'[2] = 1
    BY <1>1 DEF AcceptPool, PoolsInOrder, Positions
  <2>2. at' = <<at[1], 1>> /\ 1 \in 1..NumEndpoints[at[1]]
    BY <1>1, <2>1 DEF AcceptPool
  <2>3. at' \in Endpoints
    BY <2>1, <2>2, EndpointPairs
  <2> QED
    BY <1>1, <2>1, <2>3 DEF AcceptPool, Positions
<1>2. CASE RefusePool
  <2>1. <<>> \in Seq(Endpoints)
    OBVIOUS
  <2> QED
    BY <1>2, <2>1 DEF RefusePool, Undo, Registered
<1>3. CASE OpenFails
  <2>1. at \in Endpoints
    BY <1>3, EndpointPairs DEF OpenFails, PoolsInOrder, Positions
  <2>2. Unfinished \in Seq(Endpoints)
    BY <2>1, WholeUnfinished
  <2> QED
    BY <1>3, <2>2 DEF OpenFails, Undo, Registered
<1>4. CASE AppendEndpoint
  <2>1. at[1] \in Positions /\ at[2] \in 1..NumEndpoints[at[1]]
    BY <1>4 DEF AppendEndpoint, PoolsInOrder, Positions
  <2>2. <<at'[1], at'[2] - 1>> \in Endpoints
    BY <1>4, <2>1, EndpointPairs DEF AppendEndpoint
  <2>3. at' \in (1..MaxPools + 1) \X Nat
    BY <1>4, <2>1 DEF AppendEndpoint, Positions
  <2>4. UNCHANGED <<poolOf, sess, pc, closing, checking>>
    BY <1>4 DEF AppendEndpoint
  <2> QED
    BY <2>2, <2>3, <2>4
<1>5. CASE FinishPool
  <2>1. at[1] \in Positions
    BY <1>5 DEF FinishPool, PoolsInOrder, Positions
  <2>2. poolOf' = [poolOf EXCEPT ![Name(at[1])] = at[1]]
    BY <1>5 DEF FinishPool
  <2>3. poolOf' \in [Names -> 0..MaxPools]
    <3>1. Name(at[1]) \in Names
      BY <1>5, <2>1, PoolHasName DEF FinishPool, PoolsInOrder, Positions
    <3> QED
      BY <2>1, <2>2, <3>1 DEF Positions
  <2>4. at' \in (1..MaxPools + 1) \X Nat /\ at'[2] = 0
    BY <1>5, <2>1 DEF FinishPool, Positions
  <2>5. check' \in [Positions -> {"off", "running", "exited"}]
    BY <1>5, <2>1 DEF FinishPool
  <2>6. Goto(New, "checking") /\ UNCHANGED <<sess, closing, cursor, probing>>
    BY <1>5 DEF FinishPool
  <2> QED
    <3>1. ~(at'[2] > 0)
      BY <2>4
    <3> QED
      BY <2>3, <2>4, <2>5, <2>6, <3>1
<1>6. CASE Succeed
  BY <1>6 DEF Succeed
<1>7. ASSUME NEW s \in Sessions, OpenSession(s) PROVE TypeOK'
  BY <1>7 DEF OpenSession
<1>8. ASSUME NEW c \in Closers, CallClose(c) PROVE TypeOK'
  BY <1>8 DEF CallClose, Registered, Actors
<1>9. ASSUME NEW a \in Actors, NEW i \in Positions, ClosePool(a, i)
      PROVE  TypeOK'
  <2>1. EndpointsOf(i, NumEndpoints[i]) \in Seq(Endpoints)
    BY WholePool
  <2> QED
    BY <1>9, <2>1 DEF ClosePool, Stopped
<1>10. ASSUME NEW a \in Actors, NEW ep \in Endpoints, EnterClose(a, ep)
      PROVE  TypeOK'
  BY <1>10 DEF EnterClose
<1>11. ASSUME NEW a \in Actors, NEW ep \in Endpoints,
              LeaveClose(a, ep) \/ SkipClosed(a, ep)
      PROVE  TypeOK'
  <2>1. Tail(work[a]) \in Seq(Endpoints)
    BY <1>11, AwaitsHeadOrTail DEF LeaveClose, SkipClosed, AtEndpoint
  <2> QED
    <3>1. work' = [work EXCEPT ![a] = Tail(work[a])]
      BY <1>11 DEF LeaveClose, SkipClosed, NextEndpoint
    <3>2. work' \in [Actors -> Seq(Endpoints)]
      BY <2>1, <3>1
    <3> QED
      BY <1>11, <3>2 DEF LeaveClose, SkipClosed, Leave
<1>12. ASSUME NEW a \in Actors, NEW ep \in Endpoints, NEW s \in Sessions,
              DrainOne(a, ep, s)
      PROVE  TypeOK'
  BY <1>12 DEF DrainOne
<1>13. ASSUME NEW a \in Actors, Return(a) PROVE TypeOK'
  BY <1>13 DEF Return
<1>14. ASSUME NEW i \in Positions, Exit(i) PROVE TypeOK'
  BY <1>14 DEF Exit
<1>15. ASSUME NEW i \in Positions, NextCursor(i)
      PROVE  /\ cursor' \in [Positions -> Nat]
             /\ \A j \in Positions : cursor'[j] <= NumEndpoints[j]
  <2>1. cursor[i] \in 0..NumEndpoints[i]
    OBVIOUS
  <2>2. (cursor[i] + 1) % (NumEndpoints[i] + 1) \in 0..NumEndpoints[i]
    BY <2>1, CursorInPool
  <2> QED
    BY <1>15, <2>2 DEF NextCursor
<1>16. ASSUME NEW i \in Positions, Tick(i) \/ PassOver(i) PROVE TypeOK'
  BY <1>15, <1>16 DEF Tick, PassOver
<1>17. ASSUME NEW i \in Positions, EndProbe(i) PROVE TypeOK'
  BY <1>15, <1>17 DEF EndProbe, GivenBack
<1>18. ASSUME NEW i \in Positions, NEW s \in Sessions, Probe(i, s)
      PROVE  TypeOK'
  BY <1>15, <1>18 DEF Probe, Borrowed
<1>19. ASSUME NEW ep \in Endpoints, NEW s \in Sessions,
              Request(ep, s) \/ EndRequest(ep, s)
      PROVE  TypeOK'
  <2>1. PICK state \in {"free", "lent", "closed"} : PutSession(ep, s, state)
    BY <1>19 DEF Request, EndRequest, Borrowed, GivenBack
  <2>2. UNCHANGED <<construction, pc, closing, checking>>
    BY <1>19 DEF Request, EndRequest
  <2> QED
    BY <2>1, <2>2
<1> QED
  BY <1>1, <1>2, <1>3, <1>4, <1>5, <1>6, <1>7, <1>8, <1>9, <1>10, <1>11,
     <1>12, <1>13, <1>14, <1>16, <1>17, <1>18, <1>19
     DEF Next, NewNext, CloseNext, ProbeNext

(* New goes on in the order of the configuration, or not at all.           *)
LEMMA PoolsKept == IInv /\ Next => PoolsInOrder'
<1> SUFFICES ASSUME IInv, Next PROVE PoolsInOrder'
  OBVIOUS
<1> USE Counts DEF IInv, Goto, construction
<1>1. New \in Actors /\ pc \in [Actors -> {"checking", "opening", "ok", "idle",
                                           "closing", "returned"}]
  BY DEF TypeOK, Actors
<1>2. at[1] \in Nat \ {0} /\ at[2] \in Nat /\ Len(config) \in Nat
  BY DEF TypeOK, PoolsInOrder
<1>3. CASE AcceptPool
  <2>1. /\ at' = <<at[1], 1>> /\ pc'[New] = "opening"
        /\ config' = config /\ poolOf' = poolOf /\ at[1] <= Len(config)
        /\ ~Duplicate(at[1])
    BY <1>1, <1>3 DEF AcceptPool
  <2>2. at[1] \in Positions /\ (~Duplicate(at[1]))'
    <3>1. at[1] \in 1..Len(config)
      BY <1>2, <2>1
    <3> QED
      BY <2>1, <3>1, PoolHasName DEF Duplicate, Name
  <2>3. 1 \in 1..(NumEndpoints[at[1]] + 1)
    BY <2>2
  <2> QED
    BY <1>2, <2>1, <2>2, <2>3 DEF PoolsInOrder, Name, Closes
<1>4. CASE RefusePool
  BY <1>1, <1>4 DEF RefusePool, Undo, PoolsInOrder, Duplicate, Name, Closes
<1>5. CASE OpenFails
  <2>1. at \in Endpoints
    BY <1>5, EndpointPairs DEF OpenFails, PoolsInOrder, TypeOK, Positions
  <2> QED
    BY <1>1, <1>5, <2>1 DEF OpenFails, Undo, PoolsInOrder, Name, Closes
<1>6. CASE AppendEndpoint
  <2>1. /\ at' = <<at[1], at[2] + 1>> /\ pc' = pc
        /\ config' = config /\ poolOf' = poolOf /\ pc[New] = "opening"
        /\ at[2] <= NumEndpoints[at[1]]
    BY <1>6 DEF AppendEndpoint
  <2>2. at[1] \in Positions /\ (~Duplicate(at[1]))'
    <3>1. at[1] \in 1..Len(config)
      BY <1>2, <2>1 DEF PoolsInOrder
    <3> QED
      BY <2>1, <3>1, PoolHasName DEF PoolsInOrder, Duplicate, Name
  <2>3. at[2] + 1 \in 1..(NumEndpoints[at[1]] + 1)
    BY <1>2, <2>1, <2>2
  <2> QED
    BY <1>2, <2>1, <2>2, <2>3 DEF PoolsInOrder, Name, Closes
<1>7. CASE FinishPool
  <2>1. /\ at' = <<at[1] + 1, 0>> /\ pc'[New] = "checking"
        /\ config' = config /\ at[1] <= Len(config) /\ ~Duplicate(at[1])
        /\ poolOf' = [poolOf EXCEPT ![Name(at[1])] = at[1]]
    BY <1>1, <1>7 DEF FinishPool, PoolsInOrder
  <2>2. Name(at[1]) \in Names /\ poolOf \in [Names -> 0..MaxPools]
    BY <1>2, <2>1, PoolHasName DEF TypeOK
  <2>3. ASSUME NEW n \in Names PROVE poolOf'[n] < at'[1]
    BY <1>2, <2>1, <2>2 DEF PoolsInOrder
  <2>4. ASSUME NEW i \in 1..(at'[1] - 1) PROVE poolOf'[Name(i)'] = i
    <3>1. Name(i)' = Name(i)
      BY <2>1 DEF Name
    <3>2. CASE i = at[1]
      BY <2>1, <2>2, <3>1, <3>2
    <3>3. CASE i < at[1]
      <4>1. poolOf[Name(i)] = i /\ i # 0
        BY <1>2, <3>3 DEF PoolsInOrder
      <4>2. Name(i) # Name(at[1])
        BY <2>1, <4>1 DEF Duplicate
      <4>3. Name(i) \in Names
        BY <1>2, <2>1, <3>3, PoolHasName
      <4> QED
        BY <2>1, <2>2, <3>1, <4>1, <4>2, <4>3
    <3> QED
      BY <1>2, <2>1, <3>2, <3>3
  <2> QED
    BY <1>2, <2>1, <2>3, <2>4 DEF PoolsInOrder, Closes
<1>8. CASE Succeed
  <2>1. /\ UNCHANGED construction /\ pc'[New] = "ok"
        /\ at[1] > Len(config) /\ at[2] = 0
    BY <1>1, <1>8 DEF Succeed, PoolsInOrder
  <2>2. at[1] = Len(config) + 1
    BY <1>2, <2>1 DEF PoolsInOrder
  <2> QED
    BY <2>1, <2>2 DEF PoolsInOrder, Name, Closes
<1>9. ASSUME UNCHANGED <<construction, pc>> PROVE PoolsInOrder'
  BY <1>9 DEF PoolsInOrder, Duplicate, Name, Closes
<1>10. ASSUME NEW s \in Sessions, OpenSession(s) PROVE PoolsInOrder'
  BY <1>9, <1>10 DEF OpenSession
<1>11. ASSUME NEW c \in Closers, CallClose(c) PROVE PoolsInOrder'
  <2>1. pc'[New] = pc[New]
    BY <1>1, <1>11, LifecycleAssumption DEF CallClose
  <2> QED
    BY <1>11, <2>1 DEF CallClose, PoolsInOrder, Duplicate, Name, Closes
<1>12. ASSUME NEW a \in Actors, NEW i \in Positions, ClosePool(a, i)
      PROVE  PoolsInOrder'
  BY <1>9, <1>12 DEF ClosePool
<1>13. ASSUME NEW a \in Actors, NEW ep \in Endpoints,
              \/ EnterClose(a, ep) \/ LeaveClose(a, ep) \/ SkipClosed(a, ep)
              \/ \E s \in Sessions : DrainOne(a, ep, s)
      PROVE  PoolsInOrder'
  BY <1>9, <1>13 DEF EnterClose, LeaveClose, SkipClosed, DrainOne
<1>14. ASSUME NEW a \in Actors, Return(a) PROVE PoolsInOrder'
  <2>1. pc' = [pc EXCEPT ![a] = "returned"] /\ pc[a] = "closing"
    BY <1>14 DEF Return
  <2>2. CASE a = New
    BY <1>1, <1>14, <2>1, <2>2
       DEF Return, PoolsInOrder, Duplicate, Name, Closes
  <2>3. CASE a # New
    BY <1>1, <1>14, <2>1, <2>3
       DEF Return, PoolsInOrder, Duplicate, Name, Closes
  <2> QED
    BY <2>2, <2>3
<1>15. ASSUME NEW i \in Positions,
              \/ Exit(i) \/ Tick(i) \/ PassOver(i) \/ EndProbe(i)
              \/ \E s \in Sessions : Probe(i, s)
      PROVE  PoolsInOrder'
  BY <1>9, <1>15 DEF Exit, Tick, PassOver, EndProbe, Probe
<1>16. ASSUME NEW ep \in Endpoints, NEW s \in Sessions,
              Request(ep, s) \/ EndRequest(ep, s)
      PROVE  PoolsInOrder'
  BY <1>9, <1>16 DEF Request, EndRequest
<1> QED
  BY <1>3, <1>4, <1>5, <1>6, <1>7, <1>8, <1>10, <1>11, <1>12, <1>13, <1>14,
     <1>15, <1>16 DEF Next, NewNext, CloseNext, ProbeNext

(* Sessions keep to the order in which their endpoints come and go.        *)
LEMMA SessionsKept == IInv /\ Next => SessionsInOrder'
<1> SUFFICES ASSUME IInv, Next PROVE SessionsInOrder'
  OBVIOUS
<1> USE Counts DEF IInv, Goto, construction, closing
<1>1. /\ at[1] \in Nat \ {0} /\ at[2] \in Nat /\ at = <<at[1], at[2]>>
      /\ sess \in [Endpoints ->
                     [Sessions -> {"none", "free", "lent", "closed"}]]
      /\ closer \in [Endpoints -> Actors \cup {None}]
  BY DEF TypeOK
<1>2. \A ep \in Endpoints :
        /\ ep[1] \in Nat \ {0} /\ ep[2] \in Nat \ {0} /\ ep = <<ep[1], ep[2]>>
        /\ ep[2] <= NumEndpoints[ep[1]]
  BY EndpointPairs DEF Positions
<1>3. ASSUME UNCHANGED <<at, sess, closed, closer>> PROVE SessionsInOrder'
  BY <1>3 DEF SessionsInOrder, Built, Opened, Drained
<1>4. CASE AcceptPool
  <2>1. at' = <<at[1], 1>> /\ at[2] = 0 /\ UNCHANGED <<sess, closed, closer>>
    BY <1>4 DEF AcceptPool, PoolsInOrder
  <2>2. \A ep \in Endpoints : /\ Built(ep)' => Built(ep)
                              /\ Built(ep) => Built(ep)'
                              /\ ~Opened(ep)' => ~Opened(ep)
    BY <1>1, <1>2, <2>1 DEF Built, Opened
  <2> QED
    BY <2>1, <2>2 DEF SessionsInOrder, Drained
<1>5. CASE AppendEndpoint
  <2>1. at' = <<at[1], at[2] + 1>> /\ UNCHANGED <<sess, closed, closer>>
    BY <1>5 DEF AppendEndpoint
  <2>2. \A s \in Sessions : at \in Endpoints => sess[at][s] # "none"
    BY <1>5 DEF AppendEndpoint, In
  <2>3. ASSUME NEW ep \in Endpoints
        PROVE  /\ Built(ep)' => Built(ep) \/ ep = at
               /\ ~Opened(ep)' => ~Opened(ep)
    <3>1. Built(ep)' <=> Built(ep) \/ (ep[1] = at[1] /\ ep[2] = at[2])
      <4>1. at'[1] = at[1] /\ at'[2] = at[2] + 1
        BY <2>1
      <4>2. /\ at[1] \in Nat /\ at[2] \in Nat
            /\ ep[1] \in Nat /\ ep[2] \in Nat
        BY <1>1, <1>2
      <4> QED
        BY <4>1, <4>2 DEF Built
    <3>2. ep[1] = at[1] /\ ep[2] = at[2] <=> ep = at
      BY <1>1, <1>2
    <3> QED
      BY <3>1, <3>2 DEF Opened
  <2> QED
    BY <2>1, <2>2, <2>3 DEF SessionsInOrder, Drained
<1>6. CASE FinishPool
  <2>1. /\ at' = <<at[1] + 1, 0>> /\ UNCHANGED <<sess, closed, closer>>
        /\ at[2] > NumEndpoints[at[1]]
    BY <1>6 DEF FinishPool
  <2>2. at \notin Endpoints
    BY <1>1, <2>1, EndpointPairs
  <2>3. ASSUME NEW ep \in Endpoints
        PROVE  /\ Built(ep)' => Built(ep)
               /\ ~Opened(ep)' => ~Opened(ep)
    <3>1. Built(ep)' => Built(ep)
      <4>1. at'[1] = at[1] + 1 /\ at'[2] = 0
        BY <2>1
      <4>2. /\ at[1] \in Nat /\ at[2] \in Nat
            /\ ep[1] \in Nat /\ ep[2] \in Nat
            /\ NumEndpoints[ep[1]] \in Nat /\ ep[2] <= NumEndpoints[ep[1]]
        BY <1>1, <1>2, EndpointPairs
      <4>3. ep[1] = at[1] => ep[2] < at[2]
        BY <2>1, <4>2
      <4> QED
        BY <4>1, <4>2, <4>3 DEF Built
    <3>2. ~Built(ep)' => ~Built(ep)
      BY <1>1, <1>2, <2>1 DEF Built
    <3> QED
      BY <2>2, <3>1, <3>2 DEF Opened
  <2> QED
    BY <1>1, <1>2, <2>1, <2>3 DEF SessionsInOrder, Drained
<1>7. CASE RefusePool \/ OpenFails \/ Succeed
  BY <1>3, <1>7 DEF RefusePool, OpenFails, Succeed, Undo
<1>8. ASSUME NEW s \in Sessions, OpenSession(s) PROVE SessionsInOrder'
  <2>1. /\ sess' = [sess EXCEPT ![at][s] = "free"]
        /\ UNCHANGED <<at, closed, closer>> /\ closed = {}
    BY <1>8 DEF OpenSession, PutSession, CloseInOrder
  <2> QED
    BY <1>1, <2>1 DEF SessionsInOrder, Built, Opened, Drained
<1>9. ASSUME NEW c \in Closers, CallClose(c) PROVE SessionsInOrder'
  BY <1>3, <1>9 DEF CallClose
<1>10. ASSUME NEW a \in Actors, NEW i \in Positions, ClosePool(a, i)
      PROVE  SessionsInOrder'
  BY <1>3, <1>10 DEF ClosePool
<1>11. ASSUME NEW a \in Actors, NEW ep \in Endpoints, EnterClose(a, ep)
      PROVE  SessionsInOrder'
  <2>1. /\ UNCHANGED <<at, sess>> /\ closed' = closed \cup {ep}
        /\ closer' = [closer EXCEPT ![ep] = a] /\ a # None
    BY <1>11, LifecycleAssumption DEF EnterClose, Actors
  <2>2. \A e \in Endpoints : Drained(e)' => Drained(e)
    BY <1>1, <2>1 DEF Drained
  <2> QED
    BY <2>1, <2>2 DEF SessionsInOrder, Built, Opened
<1>12. ASSUME NEW a \in Actors, NEW ep \in Endpoints, LeaveClose(a, ep)
      PROVE  SessionsInOrder'
  <2>1. /\ UNCHANGED <<at, sess, closed>>
        /\ closer' = [closer EXCEPT ![ep] = None]
        /\ \A s \in Sessions : sess[ep][s] # "free"
    BY <1>12 DEF LeaveClose, Leave, In
  <2>2. \A e \in Endpoints : Drained(e)' => Drained(e) \/ e = ep
    BY <1>1, <2>1 DEF Drained
  <2> QED
    BY <2>1, <2>2 DEF SessionsInOrder, Built, Opened
<1>13. ASSUME NEW a \in Actors, NEW ep \in Endpoints, SkipClosed(a, ep)
      PROVE  SessionsInOrder'
  BY <1>3, <1>13 DEF SkipClosed
<1>14. ASSUME NEW a \in Actors, Return(a) PROVE SessionsInOrder'
  BY <1>3, <1>14 DEF Return
<1>15. ASSUME NEW i \in Positions, Exit(i) \/ Tick(i) \/ PassOver(i)
      PROVE  SessionsInOrder'
  BY <1>3, <1>15 DEF Exit, Tick, PassOver
<1>16. ASSUME NEW ep \in Endpoints, NEW s \in Sessions, NEW state,
              UNCHANGED <<at, closed, closer>>, PutSession(ep, s, state),
              Built(ep),
              \/ state = "lent" /\ ep[1] < at[1]
              \/ state = "closed" /\ ep \in closed
              \/ state = "free" /\ ep \notin closed
      PROVE  SessionsInOrder'
  BY <1>1, <1>16 DEF PutSession, SessionsInOrder, Built, Opened, Drained
<1>17. ASSUME NEW ep \in Endpoints, ep[1] < at[1]
      PROVE  Built(ep)
  BY <1>17 DEF Built
<1>18. ASSUME NEW a \in Actors, NEW ep \in Endpoints, NEW s \in Sessions,
              DrainOne(a, ep, s)
      PROVE  SessionsInOrder'
  <2>1. /\ sess' = [sess EXCEPT ![ep][s] = "closed"] /\ sess[ep][s] = "free"
        /\ UNCHANGED <<at, closed, closer>> /\ ep \in closed
    BY <1>18, LifecycleAssumption
       DEF DrainOne, PutSession, CloseInOrder, Actors
  <2> QED
    BY <1>1, <2>1 DEF SessionsInOrder, Built, Opened, Drained
<1>19. ASSUME NEW i \in Positions, cursor[i] # 0
      PROVE  <<i, cursor[i]>> \in Endpoints /\ i < at[1]
  <2>1. cursor[i] \in 1..NumEndpoints[i]
    BY <1>19 DEF TypeOK
  <2> QED
    BY <1>19, <2>1, EndpointPairs DEF CheckersInOrder, CheckerInOrder
<1>20. ASSUME NEW i \in Positions, EndProbe(i) PROVE SessionsInOrder'
  <2> DEFINE ep == <<i, cursor[i]>>
  <2>1. ep \in Endpoints /\ ep[1] < at[1] /\ Built(ep)
    BY <1>17, <1>19, <1>20 DEF EndProbe, CheckersInOrder, CheckerInOrder
  <2>2. probing[i] \in Sessions
    BY <1>20 DEF EndProbe, TypeOK
  <2>3. UNCHANGED <<at, closed, closer>>
        /\ PutSession(ep, probing[i], GivenBack(ep))
    BY <1>20 DEF EndProbe
  <2> QED
    BY <1>16, <2>1, <2>2, <2>3 DEF GivenBack
<1>21. ASSUME NEW i \in Positions, NEW s \in Sessions, Probe(i, s)
      PROVE  SessionsInOrder'
  <2> DEFINE ep == <<i, cursor[i]>>
  <2>1. ep \in Endpoints /\ ep[1] < at[1] /\ Built(ep)
    BY <1>17, <1>19, <1>21 DEF Probe
  <2>2. UNCHANGED <<at, closed, closer>> /\ PutSession(ep, s, Borrowed(ep))
    BY <1>21 DEF Probe
  <2> QED
    BY <1>16, <2>1, <2>2 DEF Borrowed
<1>22. ASSUME NEW ep \in Endpoints, NEW s \in Sessions, Request(ep, s)
      PROVE  SessionsInOrder'
  <2>1. at[2] = 0 /\ Opened(ep)
    BY <1>22 DEF Request, PoolsInOrder, SessionsInOrder
  <2>2. ep[1] < at[1] /\ Built(ep)
    BY <1>1, <1>2, <2>1 DEF Built, Opened
  <2> QED
    BY <1>16, <1>22, <2>2 DEF Request, Borrowed
<1>23. ASSUME NEW ep \in Endpoints, NEW s \in Sessions, EndRequest(ep, s)
      PROVE  SessionsInOrder'
  <2>1. ep[1] < at[1] /\ Built(ep)
    BY <1>17, <1>23 DEF EndRequest, SessionsInOrder
  <2> QED
    BY <1>16, <1>23, <2>1 DEF EndRequest, GivenBack
<1> QED
  BY <1>4, <1>5, <1>6, <1>7, <1>8, <1>9, <1>10, <1>11, <1>12, <1>13, <1>14,
     <1>15, <1>18, <1>20, <1>21, <1>22, <1>23
     DEF Next, NewNext, CloseNext, ProbeNext

(* Checkers stay within what is complete, and with what they borrowed.     *)
LEMMA CheckersKept == IInv /\ Next => CheckersInOrder'
<1> SUFFICES ASSUME IInv, Next PROVE CheckersInOrder'
  OBVIOUS
<1> USE Counts DEF IInv, Goto, construction, closing, checking
<1>1. /\ at[1] \in Nat \ {0}
      /\ sess \in [Endpoints ->
                     [Sessions -> {"none", "free", "lent", "closed"}]]
      /\ check \in [Positions -> {"off", "running", "exited"}]
      /\ cursor \in [Positions -> Nat]
      /\ \A i \in Positions : cursor[i] <= NumEndpoints[i]
      /\ probing \in [Positions -> Sessions \cup {None}]
  BY DEF TypeOK
<1>2. ASSUME NEW i \in Positions, probing[i] # None
      PROVE  /\ cursor[i] \in 1..NumEndpoints[i] /\ probing[i] \in Sessions
             /\ <<i, cursor[i]>> \in Endpoints
             /\ sess[<<i, cursor[i]>>][probing[i]] = "lent"
  BY <1>1, <1>2, EndpointPairs DEF CheckersInOrder, CheckerInOrder
<1>3. ASSUME UNCHANGED <<at, checking>>,
             \A i \in Positions : probing[i] # None =>
               sess'[<<i, cursor[i]>>][probing[i]] = "lent"
      PROVE  CheckersInOrder'
  BY <1>3 DEF CheckersInOrder, CheckerInOrder
<1>4. ASSUME UNCHANGED <<at, sess, checking>> PROVE CheckersInOrder'
  BY <1>4 DEF CheckersInOrder, CheckerInOrder
<1>5. CASE AcceptPool \/ AppendEndpoint
  <2>1. at'[1] = at[1] /\ UNCHANGED <<sess, checking>>
    BY <1>5 DEF AcceptPool, AppendEndpoint
  <2> QED
    BY <2>1 DEF CheckersInOrder, CheckerInOrder
<1>6. CASE FinishPool
  <2>1. at'[1] = at[1] + 1 /\ UNCHANGED <<sess, cursor, probing>>
    BY <1>6 DEF FinishPool
  <2> SUFFICES ASSUME NEW i \in Positions PROVE CheckerInOrder(i)'
    BY DEF CheckersInOrder
  <2>2. CheckerInOrder(i) /\ i \in Nat /\ at[1] \in Nat
    BY <1>1 DEF CheckersInOrder, Positions
  <2>3. CASE i = at[1]
    <3>1. cursor[i] = 0 /\ probing[i] = None
      BY <2>2, <2>3 DEF CheckerInOrder
    <3> QED
      BY <2>1, <2>2, <2>3, <3>1 DEF CheckerInOrder
  <2>4. CASE i # at[1]
    <3>1. check'[i] = check[i]
      BY <1>1, <1>6, <2>4 DEF FinishPool
    <3> QED
      BY <2>1, <2>2, <3>1 DEF CheckerInOrder
  <2> QED
    BY <2>3, <2>4
<1>7. CASE RefusePool \/ OpenFails \/ Succeed
  BY <1>4, <1>7 DEF RefusePool, OpenFails, Succeed
<1>8. ASSUME NEW ep \in Endpoints \cup {at}, NEW s \in Sessions, NEW state,
             UNCHANGED <<at, checking>>, PutSession(ep, s, state),
             sess[ep][s] # "lent" \/ (ep \in Endpoints /\ ~Probed(ep, s))
      PROVE  CheckersInOrder'
  <2> SUFFICES ASSUME NEW i \in Positions, probing[i] # None
               PROVE  sess'[<<i, cursor[i]>>][probing[i]] = "lent"
    BY <1>3, <1>8
  <2>1. <<i, cursor[i]>> # ep \/ probing[i] # s
    BY <1>2, <1>8 DEF Probed
  <2> QED
    BY <1>1, <1>2, <1>8, <2>1 DEF PutSession
<1>9. ASSUME NEW s \in Sessions, OpenSession(s) PROVE CheckersInOrder'
  BY <1>8, <1>9 DEF OpenSession
<1>10. ASSUME NEW c \in Closers, CallClose(c) PROVE CheckersInOrder'
  BY <1>4, <1>10 DEF CallClose
<1>11. ASSUME NEW a \in Actors, NEW i \in Positions, ClosePool(a, i)
      PROVE  CheckersInOrder'
  BY <1>4, <1>11 DEF ClosePool
<1>12. ASSUME NEW a \in Actors, NEW ep \in Endpoints,
              EnterClose(a, ep) \/ LeaveClose(a, ep) \/ SkipClosed(a, ep)
      PROVE  CheckersInOrder'
  BY <1>4, <1>12 DEF EnterClose, LeaveClose, SkipClosed
<1>13. ASSUME NEW a \in Actors, NEW ep \in Endpoints, NEW s \in Sessions,
              DrainOne(a, ep, s)
      PROVE  CheckersInOrder'
  BY <1>8, <1>13 DEF DrainOne
<1>14. ASSUME NEW a \in Actors, Return(a) PROVE CheckersInOrder'
  BY <1>4, <1>14 DEF Return
<1>15. ASSUME NEW i \in Positions, Exit(i) PROVE CheckersInOrder'
  BY <1>1, <1>15 DEF Exit, CheckersInOrder, CheckerInOrder
<1>16. ASSUME NEW i \in Positions, Tick(i) \/ PassOver(i)
      PROVE  CheckersInOrder'
  <2> SUFFICES ASSUME NEW j \in Positions PROVE CheckerInOrder(j)'
    BY DEF CheckersInOrder
  <2>1. /\ CheckerInOrder(i) /\ CheckerInOrder(j)
        /\ UNCHANGED <<at, sess, check, probing>>
    BY <1>16 DEF Tick, PassOver, CheckersInOrder
  <2>2. check[i] = "running" /\ probing[i] = None
    BY <1>16, <2>1 DEF Tick, PassOver, CheckerInOrder
  <2>3. j # i => cursor'[j] = cursor[j]
    BY <1>1, <1>16 DEF Tick, PassOver, NextCursor
  <2> QED
    BY <2>1, <2>2, <2>3 DEF CheckerInOrder
<1>17. ASSUME NEW i \in Positions, NEW s \in Sessions, Probe(i, s)
      PROVE  CheckersInOrder'
  <2> DEFINE ep == <<i, cursor[i]>>
  <2>1. /\ cursor[i] # 0 /\ check[i] = "running" /\ ep \in Endpoints
        /\ UNCHANGED <<at, check>>
        /\ sess' = [sess EXCEPT ![ep][s] = Borrowed(ep)]
    BY <1>1, <1>17, EndpointPairs
       DEF Probe, PutSession, CheckersInOrder, CheckerInOrder
  <2>2. ASSUME NEW j \in Positions, j # i PROVE CheckerInOrder(j)'
    <3>1. /\ CheckerInOrder(j)
          /\ cursor'[j] = cursor[j] /\ probing'[j] = probing[j]
      BY <1>1, <1>17, <2>2 DEF Probe, NextCursor, CheckersInOrder
    <3>2. probing[j] # None => sess'[<<j, cursor[j]>>][probing[j]] = "lent"
      BY <1>1, <1>2, <2>1, <2>2
    <3> QED
      BY <2>1, <3>1, <3>2 DEF CheckerInOrder
  <2>3. CASE ep \in closed
    <3>1. probing'[i] = None /\ CheckerInOrder(i)
      BY <1>17, <2>3 DEF Probe, CheckersInOrder
    <3>2. CheckerInOrder(i)'
      BY <2>1, <3>1 DEF CheckerInOrder
    <3> QED
      BY <2>2, <3>2 DEF CheckersInOrder
  <2>4. CASE ep \notin closed
    <3>1. /\ probing'[i] = s /\ cursor'[i] = cursor[i]
          /\ sess'[ep][s] = "lent" /\ CheckerInOrder(i)
      BY <1>1, <1>17, <2>1, <2>4 DEF Probe, Borrowed, CheckersInOrder
    <3>2. CheckerInOrder(i)'
      BY <2>1, <3>1 DEF CheckerInOrder
    <3> QED
      BY <2>2, <3>2 DEF CheckersInOrder
  <2> QED
    BY <2>3, <2>4
<1>18. ASSUME NEW i \in Positions, EndProbe(i) PROVE CheckersInOrder'
  <2> DEFINE ep == <<i, cursor[i]>>
  <2>1. /\ probing[i] # None /\ check[i] = "running"
        /\ UNCHANGED <<at, check>> /\ probing'[i] = None
        /\ sess' = [sess EXCEPT ![ep][probing[i]] = GivenBack(ep)]
    BY <1>1, <1>18 DEF EndProbe, PutSession, CheckersInOrder, CheckerInOrder
  <2>2. ASSUME NEW j \in Positions, j # i PROVE CheckerInOrder(j)'
    <3>1. /\ CheckerInOrder(j)
          /\ cursor'[j] = cursor[j] /\ probing'[j] = probing[j]
      BY <1>1, <1>18, <2>2 DEF EndProbe, NextCursor, CheckersInOrder
    <3>2. probing[j] # None => sess'[<<j, cursor[j]>>][probing[j]] = "lent"
      BY <1>1, <1>2, <2>1, <2>2
    <3> QED
      BY <2>1, <3>1, <3>2 DEF CheckerInOrder
  <2>3. CheckerInOrder(i)'
    BY <2>1 DEF CheckersInOrder, CheckerInOrder
  <2> QED
    BY <2>2, <2>3 DEF CheckersInOrder
<1>19. ASSUME NEW ep \in Endpoints, NEW s \in Sessions,
              Request(ep, s) \/ EndRequest(ep, s)
      PROVE  CheckersInOrder'
  BY <1>8, <1>19 DEF Request, EndRequest
<1> QED
  BY <1>5, <1>6, <1>7, <1>9, <1>10, <1>11, <1>12, <1>13, <1>14, <1>15, <1>16,
     <1>17, <1>18, <1>19 DEF Next, NewNext, CloseNext, ProbeNext

(* Whoever closes has his turn, and is where he should be.                 *)
LEMMA CloseKept == IInv /\ Next => CloseInOrder'
<1> SUFFICES ASSUME IInv, Next PROVE CloseInOrder'
  OBVIOUS
<1> USE DEF IInv, Goto, construction, closing
<1>1. /\ pc \in [Actors -> {"checking", "opening", "ok", "idle", "closing",
                            "returned"}]
      /\ todo \in [Actors -> SUBSET Positions]
      /\ work \in [Actors -> Seq(Endpoints)]
      /\ closer \in [Endpoints -> Actors \cup {None}]
      /\ New \in Actors /\ New \notin Closers
      /\ \A c \in Closers : c \in Actors
      /\ \A a \in Actors : a = New \/ a \in Closers
      /\ \A a \in Actors : a # None
  BY LifecycleAssumption DEF TypeOK, Actors
<1>2. ASSUME UNCHANGED <<pc, closing>> PROVE CloseInOrder'
  BY <1>2 DEF CloseInOrder, AtEndpoint
<1>3. ASSUME NEW a \in Actors, pc[a] = "closing"
      PROVE  pc[New] \notin {"checking", "opening"}
  BY <1>1, <1>3 DEF CloseInOrder
<1>4. CASE AcceptPool \/ FinishPool \/ Succeed
  <2>1. PICK step \in {"checking", "opening", "ok"} :
          pc' = [pc EXCEPT ![New] = step]
    BY <1>4 DEF AcceptPool, FinishPool, Succeed
  <2>2. pc[New] \in {"checking", "opening"} /\ UNCHANGED closing
    BY <1>4 DEF AcceptPool, FinishPool, Succeed
  <2>3. closed = {} /\ \A c \in Closers : pc[c] = "idle"
    BY <1>1, <2>2 DEF CloseInOrder
  <2>4. closer' = closer /\ \A ep \in Endpoints : closer[ep] = None
    BY <2>2, <2>3 DEF CloseInOrder
  <2> QED
    BY <1>1, <2>1, <2>2, <2>3, <2>4 DEF CloseInOrder
<1>5. ASSUME NEW endpoints \in Seq(Endpoints), Undo(endpoints),
             pc[New] \in {"checking", "opening"}
      PROVE  CloseInOrder'
  <2>1. closed = {} /\ \A c \in Closers : pc[c] = "idle"
    BY <1>1, <1>5 DEF CloseInOrder
  <2>2. closer' = closer /\ \A ep \in Endpoints : closer[ep] = None
    BY <1>5, <2>1 DEF Undo, CloseInOrder
  <2>3. /\ pc' = [pc EXCEPT ![New] = "closing"] /\ closed' = closed
        /\ \A a \in Actors \ {New} : todo'[a] = todo[a] /\ work'[a] = work[a]
    BY <1>1, <1>5 DEF Undo
  <2> QED
    BY <1>1, <2>1, <2>2, <2>3 DEF CloseInOrder
<1>6. CASE RefusePool
  <2>1. <<>> \in Seq(Endpoints)
    OBVIOUS
  <2> QED
    BY <1>5, <1>6, <2>1 DEF RefusePool
<1>7. CASE OpenFails
  <2>1. at \in Endpoints
    BY <1>7, EndpointPairs, Counts
       DEF OpenFails, PoolsInOrder, TypeOK, Positions
  <2> QED
    BY <1>5, <1>7, <2>1, WholeUnfinished DEF OpenFails
<1>8. CASE AppendEndpoint
  BY <1>2, <1>8 DEF AppendEndpoint
<1>9. ASSUME NEW s \in Sessions, OpenSession(s) PROVE CloseInOrder'
  BY <1>2, <1>9 DEF OpenSession
<1>10. ASSUME NEW c \in Closers, CallClose(c) PROVE CloseInOrder'
  <2>1. /\ pc' = [pc EXCEPT ![c] = "closing"] /\ pc[New] = "ok"
        /\ pc[c] = "idle" /\ UNCHANGED <<work, closer, closed, cancelled>>
        /\ todo' = [todo EXCEPT ![c] = Registered]
    BY <1>10 DEF CallClose
  <2>2. pc'[New] = "ok"
    BY <1>1, <2>1
  <2>3. ASSUME NEW ep \in Endpoints, closer[ep] # None
        PROVE  ep \in closed /\ AtEndpoint(closer[ep], ep)'
    BY <1>1, <2>1, <2>3 DEF CloseInOrder, AtEndpoint
  <2> QED
    BY <1>1, <2>1, <2>2, <2>3 DEF CloseInOrder
<1>11. ASSUME NEW a \in Actors, NEW i \in Positions, ClosePool(a, i)
      PROVE  CloseInOrder'
  <2>1. /\ UNCHANGED <<pc, closer, closed>> /\ pc[a] = "closing"
        /\ work[a] = <<>>
        /\ \A b \in Actors \ {a} : todo'[b] = todo[b] /\ work'[b] = work[b]
    BY <1>1, <1>11 DEF ClosePool
  <2>2. ASSUME NEW ep \in Endpoints, closer[ep] # None
        PROVE  ep \in closed /\ AtEndpoint(closer[ep], ep)'
    BY <1>1, <2>1, <2>2 DEF CloseInOrder, AtEndpoint
  <2> QED
    BY <1>1, <1>3, <2>1, <2>2 DEF CloseInOrder
<1>12. ASSUME NEW a \in Actors, NEW ep \in Endpoints, EnterClose(a, ep)
      PROVE  CloseInOrder'
  <2>1. /\ UNCHANGED <<pc, todo, work, cancelled>> /\ AtEndpoint(a, ep)
        /\ closer' = [closer EXCEPT ![ep] = a]
        /\ closed' = closed \cup {ep}
    BY <1>12 DEF EnterClose
  <2>2. pc[New] \notin {"checking", "opening"}
    BY <1>3, <2>1 DEF AtEndpoint
  <2>3. ASSUME NEW e \in Endpoints, closer'[e] # None
        PROVE  e \in closed' /\ AtEndpoint(closer[e], e)'
    BY <1>1, <2>1, <2>3 DEF CloseInOrder, AtEndpoint
  <2> QED
    BY <1>1, <2>1, <2>2, <2>3 DEF CloseInOrder
<1>13. ASSUME NEW a \in Actors, NEW ep \in Endpoints,
              LeaveClose(a, ep) \/ SkipClosed(a, ep)
      PROVE  CloseInOrder'
  <2>1. /\ UNCHANGED <<pc, todo, closed, cancelled>> /\ AtEndpoint(a, ep)
        /\ work' = [work EXCEPT ![a] = Tail(work[a])]
        /\ \A e \in Endpoints : e # ep => closer'[e] = closer[e]
        /\ closer'[ep] = None
    BY <1>1, <1>13 DEF LeaveClose, SkipClosed, Leave, NextEndpoint, OnceDone
  <2>2. ASSUME NEW e \in Endpoints, closer'[e] # None
        PROVE  e \in closed' /\ AtEndpoint(closer[e], e)'
    <3>1. e # ep /\ closer'[e] = closer[e] /\ closer[e] # None
      BY <2>1, <2>2
    <3>2. e \in closed /\ AtEndpoint(closer[e], e) /\ closer[e] \in Actors
      BY <1>1, <3>1 DEF CloseInOrder
    <3>3. closer[e] # a
      BY <2>1, <3>1, <3>2 DEF AtEndpoint
    <3> QED
      BY <1>1, <2>1, <3>1, <3>2, <3>3 DEF AtEndpoint
  <2>3. \A b \in Actors : pc[b] # "closing" => work'[b] = work[b]
    BY <1>1, <2>1 DEF AtEndpoint
  <2> QED
    BY <1>1, <2>1, <2>2, <2>3 DEF CloseInOrder
<1>14. ASSUME NEW a \in Actors, NEW ep \in Endpoints, NEW s \in Sessions,
              DrainOne(a, ep, s)
      PROVE  CloseInOrder'
  BY <1>2, <1>14 DEF DrainOne
<1>15. ASSUME NEW a \in Actors, Return(a) PROVE CloseInOrder'
  <2>1. /\ pc' = [pc EXCEPT ![a] = "returned"] /\ pc[a] = "closing"
        /\ work[a] = <<>> /\ todo[a] = {} /\ UNCHANGED closing
    BY <1>15 DEF Return
  <2>2. ASSUME NEW ep \in Endpoints, closer[ep] # None
        PROVE  ep \in closed /\ AtEndpoint(closer[ep], ep)'
    BY <1>1, <2>1, <2>2 DEF CloseInOrder, AtEndpoint
  <2> QED
    BY <1>1, <1>3, <2>1, <2>2 DEF CloseInOrder
<1>16. ASSUME NEW i \in Positions,
              \/ Exit(i) \/ Tick(i) \/ PassOver(i) \/ EndProbe(i)
              \/ \E s \in Sessions : Probe(i, s)
      PROVE  CloseInOrder'
  BY <1>2, <1>16 DEF Exit, Tick, PassOver, EndProbe, Probe
<1>17. ASSUME NEW ep \in Endpoints, NEW s \in Sessions,
              Request(ep, s) \/ EndRequest(ep, s)
      PROVE  CloseInOrder'
  BY <1>2, <1>17 DEF Request, EndRequest
<1> QED
  BY <1>4, <1>6, <1>7, <1>8, <1>9, <1>10, <1>11, <1>12, <1>13, <1>14, <1>15,
     <1>16, <1>17 DEF Next, NewNext, CloseNext, ProbeNext

(* Before New has failed or succeeded nobody closes or awaits anything.    *)
LEMMA NothingClosesYet ==
  ASSUME IInv, pc[New] \in {"checking", "opening"}
  PROVE  /\ closed = {} /\ cancelled = {}
         /\ \A a \in Actors : ~Closes(a) /\ \A ep : ~Awaits(a, ep)
<1>1. closed = {} /\ cancelled = {} /\ \A c \in Closers : pc[c] = "idle"
  BY DEF IInv, CloseInOrder
<1>2. \A a \in Actors : ~Closes(a) /\ work[a] = <<>>
  BY <1>1 DEF IInv, CloseInOrder, Closes, Actors
<1>3. \A a \in Actors : DOMAIN work[a] = {}
  BY <1>2
<1> QED
  BY <1>1, <1>2, <1>3 DEF Awaits

(* An endpoint's turn to be closed comes after its checker's.              *)
LEMMA StoppedKept == IInv /\ Next => StoppedFirst'
<1> SUFFICES ASSUME IInv, Next PROVE StoppedFirst'
  OBVIOUS
<1> USE DEF Goto, construction, closing
<1>1. /\ pc \in [Actors -> {"checking", "opening", "ok", "idle", "closing",
                            "returned"}]
      /\ work \in [Actors -> Seq(Endpoints)]
      /\ New \in Actors /\ \A c \in Closers : c \in Actors /\ c # New
  BY LifecycleAssumption DEF IInv, TypeOK, Actors
<1>2. ASSUME cancelled \subseteq cancelled',
             Closes(New) => Closes(New)' /\ at' = at,
             \A ep \in Endpoints :
               ep \in closed' \/ (\E a \in Actors : Awaits(a, ep)') =>
                 \/ ep \in closed \/ \E a \in Actors : Awaits(a, ep)
                 \/ ep[1] \in cancelled' \/ (Closes(New)' /\ ep[1] = at'[1])
      PROVE  StoppedFirst'
  BY <1>2 DEF IInv, StoppedFirst
<1>3. ASSUME UNCHANGED <<at, pc, work, closed, cancelled>>
      PROVE  StoppedFirst'
  BY <1>3 DEF IInv, StoppedFirst, Awaits, Closes
<1>4. CASE AcceptPool \/ AppendEndpoint \/ FinishPool \/ Succeed
  <2>1. UNCHANGED <<work, closed>> /\ pc[New] \in {"checking", "opening"}
    BY <1>4 DEF AcceptPool, AppendEndpoint, FinishPool, Succeed
  <2>2. closed' = {} /\ \A a \in Actors, ep \in Endpoints : ~Awaits(a, ep)'
    BY <2>1, NothingClosesYet DEF Awaits
  <2> QED
    BY <2>2 DEF StoppedFirst
<1>5. CASE RefusePool \/ OpenFails
  <2>1. /\ pc[New] \in {"checking", "opening"} /\ pc'[New] = "closing"
        /\ UNCHANGED <<at, closed, cancelled>>
    BY <1>1, <1>5 DEF RefusePool, OpenFails, Undo
  <2>2. \A k \in DOMAIN work'[New] : work'[New][k][1] = at[1]
    <3>1. CASE RefusePool
      <4>1. work'[New] = <<>>
        BY <1>1, <3>1 DEF RefusePool, Undo
      <4> QED
        BY <4>1
    <3>2. CASE OpenFails
      <4>1. at \in Endpoints
        BY <3>2, EndpointPairs, Counts
           DEF OpenFails, IInv, PoolsInOrder, TypeOK, Positions
      <4>2. work'[New] = Unfinished
        BY <1>1, <3>2 DEF OpenFails, Undo
      <4> QED
        BY <4>1, <4>2, WholeUnfinished DEF IInv
    <3> QED
      BY <1>5, <3>1, <3>2
  <2>3. \A a \in Actors \ {New} : work'[a] = work[a]
    BY <1>1, <1>5 DEF RefusePool, OpenFails, Undo
  <2>4. ASSUME NEW ep \in Endpoints, NEW a \in Actors, Awaits(a, ep)'
        PROVE  ep[1] = at[1]
    <3>1. CASE a = New
      BY <2>2, <2>4, <3>1 DEF Awaits
    <3>2. CASE a # New
      BY <2>1, <2>3, <2>4, <3>2, NothingClosesYet DEF Awaits
    <3> QED
      BY <3>1, <3>2
  <2> QED
    BY <2>1, <2>4, NothingClosesYet DEF StoppedFirst, Closes
<1>6. ASSUME NEW s \in Sessions, OpenSession(s) PROVE StoppedFirst'
  BY <1>3, <1>6 DEF OpenSession
<1>7. ASSUME NEW c \in Closers, CallClose(c) PROVE StoppedFirst'
  <2>1. pc'[New] = pc[New] /\ UNCHANGED <<at, work, closed, cancelled>>
    BY <1>1, <1>7 DEF CallClose
  <2> QED
    BY <1>2, <2>1 DEF Awaits, Closes
<1>8. ASSUME NEW a \in Actors, NEW i \in Positions, ClosePool(a, i)
      PROVE  StoppedFirst'
  <2>1. /\ UNCHANGED <<at, pc, closed>> /\ cancelled' = cancelled \cup {i}
        /\ work' = [work EXCEPT ![a] = EndpointsOf(i, NumEndpoints[i])]
    BY <1>8 DEF ClosePool, Stopped
  <2>2. NumEndpoints[i] \in 0..NumEndpoints[i]
    BY Counts
  <2>3. \A k \in DOMAIN work'[a] : work'[a][k][1] = i
    BY <1>1, <2>1, <2>2, WholePool
  <2>4. \A b \in Actors \ {a}, ep \in Endpoints :
          Awaits(b, ep)' = Awaits(b, ep)
    BY <1>1, <2>1 DEF Awaits
  <2>5. \A ep \in Endpoints : Awaits(a, ep)' => ep[1] \in cancelled'
    BY <2>1, <2>3 DEF Awaits
  <2> QED
    BY <1>2, <2>1, <2>4, <2>5 DEF Closes
<1>9. ASSUME NEW a \in Actors, NEW ep \in Endpoints, EnterClose(a, ep)
      PROVE  StoppedFirst'
  <2>1. /\ UNCHANGED <<at, pc, work, cancelled>>
        /\ closed' = closed \cup {ep} /\ work[a] # <<>> /\ ep = Head(work[a])
    BY <1>9 DEF EnterClose, AtEndpoint
  <2>2. Awaits(a, ep)
    BY <1>1, <2>1 DEF Awaits
  <2> QED
    BY <1>2, <2>1, <2>2 DEF Awaits, Closes
<1>10. ASSUME NEW a \in Actors, NEW ep \in Endpoints,
              LeaveClose(a, ep) \/ SkipClosed(a, ep)
      PROVE  StoppedFirst'
  <2>1. /\ UNCHANGED <<at, pc, closed, cancelled>> /\ work[a] # <<>>
        /\ work' = [work EXCEPT ![a] = Tail(work[a])]
    BY <1>10 DEF LeaveClose, SkipClosed, NextEndpoint, AtEndpoint
  <2>2. \A k \in DOMAIN Tail(work[a]) :
          \E j \in DOMAIN work[a] : work[a][j] = Tail(work[a])[k]
    BY <1>1, <2>1, AwaitsHeadOrTail
  <2>3. \A e \in Endpoints : Awaits(a, e)' => Awaits(a, e)
    BY <1>1, <2>1, <2>2 DEF Awaits
  <2>4. \A b \in Actors \ {a}, e \in Endpoints : Awaits(b, e)' = Awaits(b, e)
    BY <1>1, <2>1 DEF Awaits
  <2> QED
    BY <1>2, <2>1, <2>3, <2>4 DEF Closes
<1>11. ASSUME NEW a \in Actors, NEW ep \in Endpoints, NEW s \in Sessions,
              DrainOne(a, ep, s)
      PROVE  StoppedFirst'
  BY <1>3, <1>11 DEF DrainOne
<1>12. ASSUME NEW a \in Actors, Return(a) PROVE StoppedFirst'
  <2>1. /\ UNCHANGED <<at, work, closed, cancelled>>
        /\ Closes(New) => Closes(New)'
    BY <1>1, <1>12 DEF Return, Closes
  <2> QED
    BY <1>2, <2>1 DEF Awaits
<1>13. ASSUME NEW i \in Positions,
              \/ Exit(i) \/ Tick(i) \/ PassOver(i) \/ EndProbe(i)
              \/ \E s \in Sessions : Probe(i, s)
      PROVE  StoppedFirst'
  BY <1>3, <1>13 DEF Exit, Tick, PassOver, EndProbe, Probe
<1>14. ASSUME NEW ep \in Endpoints, NEW s \in Sessions,
              Request(ep, s) \/ EndRequest(ep, s)
      PROVE  StoppedFirst'
  BY <1>3, <1>14 DEF Request, EndRequest
<1> QED
  BY <1>4, <1>5, <1>6, <1>7, <1>8, <1>9, <1>10, <1>11, <1>12, <1>13, <1>14
     DEF Next, NewNext, CloseNext, ProbeNext

(* Whoever closes has done with everything that is no longer before him.   *)
LEMMA ForgottenKept == IInv /\ Next => NothingForgotten'
<1> SUFFICES ASSUME IInv, Next PROVE NothingForgotten'
  OBVIOUS
<1> USE DEF Goto, construction, closing
<1>1. /\ pc \in [Actors -> {"checking", "opening", "ok", "idle", "closing",
                            "returned"}]
      /\ todo \in [Actors -> SUBSET Positions]
      /\ work \in [Actors -> Seq(Endpoints)]
      /\ closer \in [Endpoints -> Actors \cup {None}]
      /\ at[1] \in Nat \ {0} /\ at[2] \in Nat
      /\ New \in Actors /\ \A c \in Closers : c \in Actors /\ c # New
  BY LifecycleAssumption DEF IInv, TypeOK, Actors
<1>2. \A ep \in Endpoints :
        /\ ep[1] \in Nat \ {0} /\ ep[2] \in Nat \ {0} /\ ep = <<ep[1], ep[2]>>
  BY EndpointPairs DEF Positions
<1>3. Registered = 1..(at[1] - 1)
  BY RegisteredArePast DEF IInv
<1>4. ASSUME UNCHANGED at, cancelled \subseteq cancelled',
             NEW a \in Actors, Closes(a), todo'[a] = todo[a],
             \A ep \in Endpoints : /\ Drained(ep) => Drained(ep)'
                                   /\ Awaits(a, ep) => \/ Awaits(a, ep)'
                                                       \/ Drained(ep)'
      PROVE  /\ \A i \in 1..(at'[1] - 1) : i \in todo'[a] \cup cancelled'
             /\ \A ep \in Endpoints : Opened(ep)' =>
                  \/ ep[1] \in todo'[a] /\ ep[1] < at'[1]
                  \/ Awaits(a, ep)'
                  \/ Drained(ep)'
  BY <1>4 DEF IInv, NothingForgotten, Opened, Built
<1>5. ASSUME UNCHANGED <<at, pc, todo, work, closer, closed, cancelled>>
      PROVE  NothingForgotten'
  BY <1>5
     DEF IInv, NothingForgotten, Opened, Built, Awaits, Drained, Closes
<1>6. CASE AcceptPool \/ AppendEndpoint \/ FinishPool \/ Succeed
  <2>1. /\ pc[New] \in {"checking", "opening"}
        /\ \A a \in Actors \ {New} : pc'[a] = pc[a]
        /\ pc'[New] \notin {"closing", "returned"}
    BY <1>1, <1>6 DEF AcceptPool, AppendEndpoint, FinishPool, Succeed
  <2>2. \A a \in Actors : ~Closes(a)'
    BY <2>1, NothingClosesYet DEF Closes
  <2> QED
    BY <2>2 DEF NothingForgotten
<1>7. CASE RefusePool \/ OpenFails
  <2>1. /\ pc[New] \in {"checking", "opening"}
        /\ \A a \in Actors \ {New} : pc'[a] = pc[a]
        /\ at' = at /\ todo'[New] = 1..(at[1] - 1)
    BY <1>1, <1>3, <1>7 DEF RefusePool, OpenFails, Undo
  <2>2. ASSUME NEW ep \in Endpoints, Opened(ep)
        PROVE  ep[1] \in 1..(at[1] - 1) \/ Awaits(New, ep)'
    <3>1. CASE ep[1] < at[1]
      BY <1>1, <1>2, <3>1
    <3>2. CASE ~(ep[1] < at[1])
      <4>1. ep[1] = at[1] /\ ep[2] \in 1..at[2]
        BY <1>1, <1>2, <2>2, <3>2 DEF Opened, Built
      <4>2. OpenFails
        BY <1>1, <1>7, <4>1 DEF RefusePool, IInv, PoolsInOrder
      <4>3. at \in Endpoints
        BY <4>2, EndpointPairs, Counts
           DEF OpenFails, IInv, PoolsInOrder, TypeOK, Positions
      <4>4. work'[New] = Unfinished
        BY <1>1, <4>2 DEF OpenFails, Undo
      <4>5. \E k \in DOMAIN Unfinished : Unfinished[k] = ep
        BY <1>2, <4>1, <4>3, WholeUnfinished DEF IInv
      <4> QED
        BY <4>4, <4>5 DEF Awaits
    <3> QED
      BY <3>1, <3>2
  <2>3. \A a \in Actors \ {New} : ~Closes(a)'
    BY <2>1, NothingClosesYet DEF Closes
  <2>4. \A ep \in Endpoints : Opened(ep)' = Opened(ep)
    BY <2>1 DEF Opened, Built
  <2>5. \A ep \in Endpoints : ep[1] \in 1..(at[1] - 1) => ep[1] < at[1]
    BY <1>1, <1>2
  <2> QED
    BY <2>1, <2>2, <2>3, <2>4, <2>5 DEF NothingForgotten
<1>8. ASSUME NEW s \in Sessions, OpenSession(s) PROVE NothingForgotten'
  BY <1>5, <1>8 DEF OpenSession
<1>9. ASSUME NEW c \in Closers, CallClose(c) PROVE NothingForgotten'
  <2>1. /\ UNCHANGED <<at, work, closer, closed, cancelled>>
        /\ pc[New] = "ok" /\ todo'[c] = 1..(at[1] - 1)
        /\ \A a \in Actors \ {c} : pc'[a] = pc[a] /\ todo'[a] = todo[a]
    BY <1>1, <1>3, <1>9 DEF CallClose
  <2>2. at[2] = 0
    BY <2>1 DEF IInv, PoolsInOrder
  <2>3. ASSUME NEW ep \in Endpoints, Opened(ep)'
        PROVE  ep[1] \in todo'[c] /\ ep[1] < at'[1]
    BY <1>1, <1>2, <2>1, <2>2, <2>3 DEF Opened, Built
  <2>4. \A a \in Actors \ {c} : Closes(a)' => Closes(a)
    BY <2>1 DEF Closes
  <2>5. \A ep \in Endpoints, a \in Actors : /\ Drained(ep) => Drained(ep)'
                                            /\ Awaits(a, ep) => Awaits(a, ep)'
    BY <2>1 DEF Drained, Awaits
  <2> SUFFICES ASSUME NEW a \in Actors, a # c, Closes(a)
               PROVE  /\ \A i \in 1..(at'[1] - 1) :
                           i \in todo'[a] \cup cancelled'
                      /\ \A ep \in Endpoints : Opened(ep)' =>
                           \/ ep[1] \in todo'[a] /\ ep[1] < at'[1]
                           \/ Awaits(a, ep)'
                           \/ Drained(ep)'
    BY <2>1, <2>3, <2>4 DEF NothingForgotten
  <2> QED
    BY <1>4, <2>1, <2>5
<1>10. ASSUME NEW a \in Actors, NEW i \in Positions, ClosePool(a, i)
      PROVE  NothingForgotten'
  <2>1. /\ UNCHANGED <<at, pc, closer, closed>>
        /\ cancelled' = cancelled \cup {i}
        /\ work' = [work EXCEPT ![a] = EndpointsOf(i, NumEndpoints[i])]
        /\ todo' = [todo EXCEPT ![a] = todo[a] \ {i}]
        /\ work[a] = <<>> /\ Closes(a)
    BY <1>10 DEF ClosePool, Stopped, Closes
  <2>3. ASSUME NEW ep \in Endpoints, ep[1] = i PROVE Awaits(a, ep)'
    <3>1. ep[2] \in 1..NumEndpoints[i] /\ ep = <<i, ep[2]>>
      BY <2>3, EndpointPairs
    <3>2. /\ EndpointsOf(i, NumEndpoints[i])[ep[2]] = ep
          /\ DOMAIN EndpointsOf(i, NumEndpoints[i]) = 1..NumEndpoints[i]
      BY <3>1 DEF EndpointsOf
    <3>3. work'[a] = EndpointsOf(i, NumEndpoints[i])
      BY <1>1, <2>1
    <3> QED
      BY <3>1, <3>2, <3>3 DEF Awaits
  <2>4. \A ep \in Endpoints : ~Awaits(a, ep)
    BY <2>1 DEF Awaits
  <2>5. \A ep \in Endpoints : /\ Drained(ep)' = Drained(ep)
                              /\ Opened(ep)' = Opened(ep)
    BY <2>1 DEF Drained, Opened, Built
  <2>6. ASSUME NEW b \in Actors, b # a, Closes(b)
        PROVE  /\ \A j \in 1..(at'[1] - 1) : j \in todo'[b] \cup cancelled'
               /\ \A ep \in Endpoints : Opened(ep)' =>
                    \/ ep[1] \in todo'[b] /\ ep[1] < at'[1]
                    \/ Awaits(b, ep)'
                    \/ Drained(ep)'
    <3>1. todo'[b] = todo[b] /\ work'[b] = work[b]
      BY <1>1, <2>1, <2>6
    <3> QED
      BY <1>4, <2>1, <2>5, <2>6, <3>1 DEF Awaits
  <2>7. ASSUME NEW ep \in Endpoints, Opened(ep)
        PROVE  \/ ep[1] \in todo'[a] /\ ep[1] < at'[1]
               \/ Awaits(a, ep)'
               \/ Drained(ep)'
    BY <1>1, <2>1, <2>3, <2>4, <2>5, <2>7 DEF IInv, NothingForgotten
  <2>8. \A j \in 1..(at'[1] - 1) : j \in todo'[a] \cup cancelled'
    BY <1>1, <2>1 DEF IInv, NothingForgotten
  <2> QED
    BY <2>1, <2>5, <2>6, <2>7, <2>8 DEF NothingForgotten, Closes
<1>11. ASSUME NEW a \in Actors, NEW ep \in Endpoints, EnterClose(a, ep)
      PROVE  NothingForgotten'
  <2>1. /\ UNCHANGED <<at, pc, todo, work, cancelled>> /\ ep \notin closed
        /\ closed' = closed \cup {ep} /\ closer' = [closer EXCEPT ![ep] = a]
    BY <1>11 DEF EnterClose
  <2>2. \A e \in Endpoints : Drained(e) => Drained(e)'
    BY <1>1, <2>1 DEF Drained
  <2> QED
    BY <1>4, <2>1, <2>2 DEF NothingForgotten, Awaits, Closes
<1>12. ASSUME NEW a \in Actors, NEW ep \in Endpoints,
              LeaveClose(a, ep) \/ SkipClosed(a, ep)
      PROVE  NothingForgotten'
  <2>1. /\ UNCHANGED <<at, pc, todo, closed, cancelled>> /\ AtEndpoint(a, ep)
        /\ work' = [work EXCEPT ![a] = Tail(work[a])]
        /\ ep \in closed /\ closer'[ep] = None
        /\ \A e \in Endpoints : e # ep => closer'[e] = closer[e]
    <3>1. CASE LeaveClose(a, ep)
      <4>1. closer[ep] # None
        BY <3>1, LifecycleAssumption DEF LeaveClose, Actors
      <4>2. ep \in closed
        BY <4>1 DEF IInv, CloseInOrder
      <4> QED
        BY <1>1, <3>1, <4>2 DEF LeaveClose, Leave, NextEndpoint
    <3>2. CASE SkipClosed(a, ep)
      BY <3>2 DEF SkipClosed, NextEndpoint, OnceDone
    <3> QED
      BY <1>12, <3>1, <3>2
  <2>2. \A e \in Endpoints : Drained(e) => Drained(e)'
    BY <2>1 DEF Drained
  <2>3. ASSUME NEW e \in Endpoints, Awaits(a, e)
        PROVE  Awaits(a, e)' \/ Drained(e)'
    <3>1. \/ e = Head(work[a])
          \/ \E j \in DOMAIN Tail(work[a]) : Tail(work[a])[j] = e
      BY <1>1, <2>1, <2>3, AwaitsHeadOrTail DEF Awaits, AtEndpoint
    <3> QED
      BY <1>1, <2>1, <3>1 DEF Awaits, AtEndpoint, Drained
  <2>4. ASSUME NEW b \in Actors, b # a, NEW e \in Endpoints
        PROVE  Awaits(b, e) => Awaits(b, e)'
    BY <1>1, <2>1, <2>4 DEF Awaits
  <2> QED
    BY <1>4, <2>1, <2>2, <2>3, <2>4 DEF NothingForgotten, Closes
<1>13. ASSUME NEW a \in Actors, NEW ep \in Endpoints, NEW s \in Sessions,
              DrainOne(a, ep, s)
      PROVE  NothingForgotten'
  BY <1>5, <1>13 DEF DrainOne
<1>14. ASSUME NEW a \in Actors, Return(a) PROVE NothingForgotten'
  <2>1. /\ UNCHANGED <<at, todo, work, closer, closed, cancelled>>
        /\ \A b \in Actors : Closes(b)' => Closes(b)
    BY <1>1, <1>14 DEF Return, Closes
  <2> QED
    BY <1>4, <2>1 DEF NothingForgotten, Awaits, Drained
<1>15. ASSUME NEW i \in Positions,
              \/ Exit(i) \/ Tick(i) \/ PassOver(i) \/ EndProbe(i)
              \/ \E s \in Sessions : Probe(i, s)
      PROVE  NothingForgotten'
  BY <1>5, <1>15 DEF Exit, Tick, PassOver, EndProbe, Probe
<1>16. ASSUME NEW ep \in Endpoints, NEW s \in Sessions,
              Request(ep, s) \/ EndRequest(ep, s)
      PROVE  NothingForgotten'
  BY <1>5, <1>16 DEF Request, EndRequest
<1> QED
  BY <1>6, <1>7, <1>8, <1>9, <1>10, <1>11, <1>12, <1>13, <1>14, <1>15, <1>16
     DEF Next, NewNext, CloseNext, ProbeNext

-----------------------------------------------------------------------------
(* The theorems                                                            *)

(* The invariant holds when New is called ...                              *)
LEMMA Initially == Init => IInv
<1> SUFFICES ASSUME Init PROVE IInv
  OBVIOUS
<1> DEFINE PoolConfigs == [name : Names, checked : BOOLEAN]
<1>1. PICK n \in 0..MaxPools : config \in [1..n -> PoolConfigs]
  BY DEF Init
<1>2. config \in Seq(PoolConfigs) /\ Len(config) = n
  <2> HIDE DEF PoolConfigs
  <2>1. n \in Nat
    BY Counts
  <2>2. config \in Seq(PoolConfigs)
    BY <1>1, <2>1, SeqDef
  <2>3. Len(config) \in Nat /\ 1..Len(config) = 1..n
    BY <1>1, <2>2, LenProperties
  <2> QED
    BY <2>1, <2>2, <2>3
<1>3. at = <<1, 0>> /\ at[1] = 1 /\ at[2] = 0
  BY DEF Init
<1>4. <<>> \in Seq(Endpoints) /\ DOMAIN <<>> = {}
  OBVIOUS
<1>5. TypeOK
  BY <1>3, <1>4, Counts, LifecycleAssumption
     DEF Init, TypeOK, Actors
<1>6. PoolsInOrder
  BY <1>1, <1>2, <1>3, Counts
     DEF Init, PoolsInOrder, Closes, Duplicate, Actors
<1>7. SessionsInOrder
  <2>1. \A ep \in Endpoints : ~Built(ep) /\ ~Drained(ep)
    BY <1>3, EndpointPairs DEF Init, Built, Drained, Positions
  <2> QED
    BY <2>1 DEF Init, SessionsInOrder
<1>8. CheckersInOrder
  BY DEF Init, CheckersInOrder, CheckerInOrder
<1>9. CloseInOrder
  BY LifecycleAssumption DEF Init, CloseInOrder, Actors
<1>10. StoppedFirst /\ NothingForgotten
  BY <1>4 DEF Init, StoppedFirst, NothingForgotten, Awaits, Closes
<1> QED
  BY <1>5, <1>6, <1>7, <1>8, <1>9, <1>10 DEF IInv

(* ... and ever after.                                                     *)
THEOREM Invariant == Spec => []IInv
<1>1. IInv /\ [Next]_vars => IInv'
  <2> SUFFICES ASSUME IInv, [Next]_vars PROVE IInv'
    OBVIOUS
  <2>1. CASE Next
    BY <2>1, TypeKept, PoolsKept, SessionsKept, CheckersKept, CloseKept,
       StoppedKept, ForgottenKept DEF IInv
  <2>2. CASE UNCHANGED vars
    BY <2>2
       DEF vars, construction, closing, checking, IInv, TypeOK, PoolsInOrder,
           SessionsInOrder, CheckersInOrder, CheckerInOrder, CloseInOrder,
           StoppedFirst, NothingForgotten, Name, Duplicate, Built, Opened,
           Drained, Awaits, Closes, AtEndpoint
  <2> QED
    BY <2>1, <2>2
<1> QED
  BY Initially, <1>1, PTL DEF Spec

(* Every variable keeps its type, whatever fails in New and however calls  *)
(* of Close overlap.                                                       *)
THEOREM TypeCorrect == Spec => []TypeOK
<1>1. IInv => TypeOK
  BY DEF IInv
<1> QED
  BY Invariant, <1>1, PTL

(* Once New has failed or a call of Close has returned, the first or a     *)
(* later one, nothing that was opened is left: what is not on loan is      *)
(* closed, what is will be, and every checker has been told to stop.       *)
THEOREM EverythingReleased == Spec => []Released
<1>1. IInv => Released
  <2> SUFFICES ASSUME IInv, NEW a \in Actors, pc[a] = "returned"
               PROVE  /\ \A ep \in Endpoints, s \in Sessions :
                           Gone(ep, s) \/ (Lent(ep, s) /\ ep \in closed)
                      /\ \A i \in Positions :
                           check[i] = "running" => i \in cancelled
    BY DEF Released
  <2>1. Closes(a) /\ todo[a] = {} /\ \A ep : ~Awaits(a, ep)
    BY DEF IInv, CloseInOrder, Closes, Awaits
  <2>2. ASSUME NEW ep \in Endpoints, NEW s \in Sessions
        PROVE  Gone(ep, s) \/ (Lent(ep, s) /\ ep \in closed)
    <3>1. CASE Opened(ep)
      <4>1. Drained(ep) /\ sess[ep][s] # "free"
        BY <2>1, <3>1 DEF IInv, NothingForgotten, SessionsInOrder
      <4> QED
        BY <4>1 DEF IInv, TypeOK, Drained, Gone, Lent
    <3>2. CASE ~Opened(ep)
      BY <3>2 DEF IInv, SessionsInOrder, Gone
    <3> QED
      BY <3>1, <3>2
  <2>3. ASSUME NEW i \in Positions, check[i] = "running"
        PROVE  i \in cancelled
    <3>1. i \in 1..(at[1] - 1)
      <4>1. i < at[1]
        BY <2>3 DEF IInv, CheckersInOrder, CheckerInOrder
      <4>2. i \in Nat \ {0} /\ at[1] \in Nat
        BY DEF IInv, TypeOK, Positions
      <4> QED
        BY <4>1, <4>2
    <3> QED
      BY <2>1, <3>1 DEF IInv, NothingForgotten
  <2> QED
    BY <2>2, <2>3
<1> QED
  BY Invariant, <1>1, PTL

(* A checker that nobody stopped never meets an endpoint that is not ready *)
(* yet, or no longer: construction and shutdown cost no endpoint a failure.*)
THEOREM ProbesFindWholePools == Spec => []CheckersSeeWholePools
<1>1. IInv => CheckersSeeWholePools
  <2> SUFFICES ASSUME IInv, NEW i \in Positions, check[i] = "running",
                      i \notin cancelled, NEW e \in 1..NumEndpoints[i]
               PROVE  /\ <<i, e>> \notin closed
                      /\ \A s \in Sessions : ~Gone(<<i, e>>, s)
    BY DEF CheckersSeeWholePools
  <2> DEFINE ep == <<i, e>>
  <2>1. ep \in Endpoints /\ ep[1] = i /\ i < at[1]
    BY EndpointPairs DEF IInv, CheckersInOrder, CheckerInOrder
  <2>2. at[1] \in Nat /\ i \in Nat
    BY DEF IInv, TypeOK, Positions
  <2> HIDE DEF ep
  <2>3. ep \notin closed
    BY <2>1, <2>2 DEF IInv, StoppedFirst
  <2>4. \A s \in Sessions : sess[ep][s] \notin {"none", "closed"}
    BY <2>1, <2>3 DEF IInv, SessionsInOrder, Built
  <2> QED
    BY <2>3, <2>4 DEF ep, Gone
<1> QED
  BY Invariant, <1>1, PTL
=============================================================================
