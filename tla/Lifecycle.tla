------------------------------ MODULE Lifecycle ------------------------------
(***************************************************************************)
(* How a Client comes up and goes down: New opens every session of every   *)
(* endpoint of every configured pool and starts the health checkers, and   *)
(* undoes all of it when one step fails, while the checkers of the pools   *)
(* already built are probing; Close is called by anyone, more than once    *)
(* and concurrently, while requests have sessions on loan.                 *)
(*                                                                         *)
(* What a probe says of the endpoint's health is left out (EndpointHealth  *)
(* has it), so a checker may pass over any endpoint; what happens inside   *)
(* acquireSession and releaseSession is in SessionPool.                    *)
(***************************************************************************)
EXTENDS Naturals, Sequences, FiniteSets

CONSTANTS Names,          \* pool names
          Sessions,       \* the sessions of one endpoint
          MaxPools,       \* configured pools, duplicates included
          NumEndpoints,   \* how many endpoints the pool at a position has
          New,            \* the goroutine in New
          Closers,        \* the goroutines that call Client.Close
          None

ASSUME LifecycleAssumption ==
  /\ MaxPools \in Nat
  /\ NumEndpoints \in [1..MaxPools -> Nat \ {0}]
  /\ New \notin Closers
  /\ None \notin Sessions \cup Closers \cup {New}

VARIABLES config,     \* cfg.Pools: the name, and whether it is to be checked
          at,         \* <<pool, endpoint>> New is at
          poolOf,     \* c.pools: the position in config, 0 when absent
          sess,       \* every session: "none" until it is opened
          pc,         \* New and the callers of Close
          todo,       \* pools still to be closed by this goroutine
          work,       \* endpoints of the current pool it has to close
          closer,     \* endpoint.closeOnce: the goroutine inside, or None
          closed,     \* endpoints whose channel closed is closed
          check,      \* the checker goroutine of each pool
          cursor,     \* the endpoint it is at; 0: it waits in its select
          probing,    \* the session it has on loan
          cancelled   \* pools whose checker was stopped

construction == <<config, at, poolOf>>
closing == <<todo, work, closer, closed, cancelled>>
checking == <<check, cursor, probing>>
vars == <<construction, sess, pc, closing, checking>>

Positions == 1..MaxPools
Endpoints == UNION {{i} \X (1..NumEndpoints[i]) : i \in Positions}
Actors == {New} \cup Closers

-----------------------------------------------------------------------------
(* Helpers                                                                 *)

Name(i) == config[i].name
Registered == {i \in Positions : \E n \in Names : poolOf[n] = i}
In(ep, state) == {s \in Sessions : sess[ep][s] = state}
PutSession(ep, s, state) == sess' = [sess EXCEPT ![ep][s] = state]
EndpointsOf(i, n) == [e \in 1..n |-> <<i, e>>]
Goto(a, step) == pc' = [pc EXCEPT ![a] = step]

Init ==
  /\ config \in UNION {[1..n -> [name : Names, checked : BOOLEAN]] :
                         n \in 0..MaxPools}
  /\ at = <<1, 0>>
  /\ poolOf = [n \in Names |-> 0]
  /\ sess = [ep \in Endpoints |-> [s \in Sessions |-> "none"]]
  /\ pc = [a \in Actors |-> IF a = New THEN "checking" ELSE "idle"]
  /\ todo = [a \in Actors |-> {}]
  /\ work = [a \in Actors |-> <<>>]
  /\ closer = [ep \in Endpoints |-> None]
  /\ closed = {}
  /\ check = [i \in Positions |-> "off"]
  /\ cursor = [i \in Positions |-> 0]
  /\ probing = [i \in Positions |-> None]
  /\ cancelled = {}

-----------------------------------------------------------------------------
(* New                                                                     *)

(* Mutant: a second pool of the same name takes the place of the first.    *)
Duplicate_Ignored(i) == FALSE

Duplicate(i) == poolOf[Name(i)] # 0

(* The next pool's name is free and its configuration is valid.            *)
AcceptPool ==
  /\ pc[New] = "checking"
  /\ at[1] <= Len(config)
  /\ ~Duplicate(at[1])
  /\ at' = <<at[1], 1>>
  /\ Goto(New, "opening")
  /\ UNCHANGED <<config, poolOf, sess, closing, checking>>

(* What New has to undo; Client.Close goes through the pools of the map.   *)
Undo(endpoints) ==
  /\ Goto(New, "closing")
  /\ work' = [work EXCEPT ![New] = endpoints]
  /\ todo' = [todo EXCEPT ![New] = Registered]
  /\ UNCHANGED <<closer, closed, cancelled>>

(* ErrNoPools, a duplicate name, or validate returns an error.             *)
RefusePool ==
  /\ pc[New] = "checking"
  /\ config = <<>> \/ at[1] <= Len(config)
  /\ Undo(<<>>)
  /\ UNCHANGED <<construction, sess, checking>>

(* factory.New for one of the endpoint's sessions succeeds ...             *)
OpenSession(s) ==
  /\ pc[New] = "opening"
  /\ at[2] <= NumEndpoints[at[1]]
  /\ sess[at][s] = "none"
  /\ PutSession(at, s, "free")
  /\ UNCHANGED <<construction, pc, closing, checking>>

(* e.Close of the endpoint that failed, then pool.Close of those before.   *)
Unfinished == <<at>> \o EndpointsOf(at[1], at[2] - 1)

(* ... or fails.                                                           *)
OpenFails ==
  /\ pc[New] = "opening"
  /\ at[2] <= NumEndpoints[at[1]]
  /\ In(at, "none") # {}
  /\ Undo(Unfinished)
  /\ UNCHANGED <<construction, sess, checking>>

AppendEndpoint ==
  /\ pc[New] = "opening"
  /\ at[2] <= NumEndpoints[at[1]]
  /\ In(at, "none") = {}
  /\ at' = <<at[1], at[2] + 1>>
  /\ UNCHANGED <<config, poolOf, sess, pc, closing, checking>>

(* startHealthCheck, and New puts the pool into its map.                   *)
FinishPool ==
  /\ pc[New] = "opening"
  /\ at[2] > NumEndpoints[at[1]]
  /\ check' = [check EXCEPT
       ![at[1]] = IF config[at[1]].checked THEN "running" ELSE "off"]
  /\ poolOf' = [poolOf EXCEPT ![Name(at[1])] = at[1]]
  /\ at' = <<at[1] + 1, 0>>
  /\ Goto(New, "checking")
  /\ UNCHANGED <<config, sess, closing, cursor, probing>>

Succeed ==
  /\ pc[New] = "checking"
  /\ config # <<>>
  /\ at[1] > Len(config)
  /\ Goto(New, "ok")
  /\ UNCHANGED <<construction, sess, closing, checking>>

-----------------------------------------------------------------------------
(* Closing: Client.Close, Pool.Close, endpoint.Close                       *)

CallClose(c) ==
  /\ pc[c] = "idle"
  /\ pc[New] = "ok"
  /\ Goto(c, "closing")
  /\ todo' = [todo EXCEPT ![c] = Registered]
  /\ UNCHANGED <<construction, sess, work, closer, closed, cancelled,
                 checking>>

(* Mutant: the checker is not stopped with its pool.                       *)
Stopped_Not(i) == cancelled

(* hc.stop cancels the checker's context.                                  *)
Stopped(i) == cancelled \cup {i}

(* Pool.Close of any pool still to do: a map has no order.                 *)
ClosePool(a, i) ==
  /\ pc[a] = "closing"
  /\ work[a] = <<>>
  /\ i \in todo[a]
  /\ todo' = [todo EXCEPT ![a] = @ \ {i}]
  /\ work' = [work EXCEPT ![a] = EndpointsOf(i, NumEndpoints[i])]
  /\ cancelled' = Stopped(i)
  /\ UNCHANGED <<construction, sess, pc, closer, closed, checking>>

AtEndpoint(a, ep) == pc[a] = "closing" /\ work[a] # <<>> /\ ep = Head(work[a])
NextEndpoint(a) == work' = [work EXCEPT ![a] = Tail(@)]

(* closeOnce lets the first one in; it locks, and closes the channel.      *)
EnterClose(a, ep) ==
  /\ AtEndpoint(a, ep)
  /\ closer[ep] = None
  /\ ep \notin closed
  /\ closer' = [closer EXCEPT ![ep] = a]
  /\ closed' = closed \cup {ep}
  /\ UNCHANGED <<construction, sess, pc, todo, work, cancelled, checking>>

DrainOne(a, ep, s) ==
  /\ AtEndpoint(a, ep)
  /\ closer[ep] = a
  /\ sess[ep][s] = "free"
  /\ PutSession(ep, s, "closed")
  /\ UNCHANGED <<construction, pc, closing, checking>>

(* Mutant: the first one leaves without letting the others go on.          *)
Leave_Stuck(ep) == UNCHANGED closer

Leave(ep) == closer' = [closer EXCEPT ![ep] = None]

LeaveClose(a, ep) ==
  /\ AtEndpoint(a, ep)
  /\ closer[ep] = a
  /\ In(ep, "free") = {}
  /\ Leave(ep)
  /\ NextEndpoint(a)
  /\ UNCHANGED <<construction, sess, pc, todo, closed, cancelled, checking>>

(* Mutant: a flag tells that someone was here, instead of sync.Once.       *)
OnceDone_Flag(ep) == TRUE

(* Once.Do returns to the others when the first call has returned.         *)
OnceDone(ep) == closer[ep] = None

SkipClosed(a, ep) ==
  /\ AtEndpoint(a, ep)
  /\ ep \in closed
  /\ closer[ep] # a
  /\ OnceDone(ep)
  /\ NextEndpoint(a)
  /\ UNCHANGED <<construction, sess, pc, todo, closer, closed, cancelled,
                 checking>>

(* Close returns, or New returns its error.                                *)
Return(a) ==
  /\ pc[a] = "closing"
  /\ work[a] = <<>>
  /\ todo[a] = {}
  /\ Goto(a, "returned")
  /\ UNCHANGED <<construction, sess, closing, checking>>

-----------------------------------------------------------------------------
(* Borrowing, by requests and by the checkers                              *)

(* A session received from an endpoint that was closed since is closed.    *)
Borrowed(ep) == IF ep \in closed THEN "closed" ELSE "lent"

GivenBack(ep) == IF ep \in closed THEN "closed" ELSE "free"

(* releaseSession waits for the section of Close.                          *)
CanGiveBack(ep) == closer[ep] = None

Request(ep, s) ==
  /\ pc[New] = "ok"
  /\ sess[ep][s] = "free"
  /\ PutSession(ep, s, Borrowed(ep))
  /\ UNCHANGED <<construction, pc, closing, checking>>

Probed(ep, s) == cursor[ep[1]] = ep[2] /\ probing[ep[1]] = s

EndRequest(ep, s) ==
  /\ sess[ep][s] = "lent"
  /\ ~Probed(ep, s)
  /\ CanGiveBack(ep)
  /\ PutSession(ep, s, GivenBack(ep))
  /\ UNCHANGED <<construction, pc, closing, checking>>

(* The select of run: with the ticker ready as well, either is taken.      *)
Exit(i) ==
  /\ check[i] = "running"
  /\ cursor[i] = 0
  /\ i \in cancelled
  /\ check' = [check EXCEPT ![i] = "exited"]
  /\ UNCHANGED <<construction, sess, pc, closing, cursor, probing>>

(* Mutant: the loop goes one endpoint too far.                             *)
NextCursor_TooFar(i) ==
  cursor' = [cursor EXCEPT ![i] = (@ + 1) % (NumEndpoints[i] + 2)]

NextCursor(i) ==
  cursor' = [cursor EXCEPT ![i] = (@ + 1) % (NumEndpoints[i] + 1)]

Tick(i) ==
  /\ check[i] = "running"
  /\ cursor[i] = 0
  /\ NextCursor(i)
  /\ UNCHANGED <<construction, sess, pc, closing, check, probing>>

(* The endpoint is not alive, or acquireSession failed.                    *)
PassOver(i) ==
  /\ cursor[i] # 0
  /\ probing[i] = None
  /\ NextCursor(i)
  /\ UNCHANGED <<construction, sess, pc, closing, check, probing>>

Probe(i, s) ==
  LET ep == <<i, cursor[i]>> IN
  /\ cursor[i] # 0
  /\ probing[i] = None
  /\ sess[ep][s] = "free"
  /\ PutSession(ep, s, Borrowed(ep))
  /\ IF ep \in closed
       THEN NextCursor(i) /\ UNCHANGED probing
       ELSE probing' = [probing EXCEPT ![i] = s] /\ UNCHANGED cursor
  /\ UNCHANGED <<construction, pc, closing, check>>

EndProbe(i) ==
  LET ep == <<i, cursor[i]>> IN
  /\ probing[i] # None
  /\ CanGiveBack(ep)
  /\ PutSession(ep, probing[i], GivenBack(ep))
  /\ probing' = [probing EXCEPT ![i] = None]
  /\ NextCursor(i)
  /\ UNCHANGED <<construction, pc, closing, check>>

-----------------------------------------------------------------------------
NewNext ==
  \/ AcceptPool \/ RefusePool \/ OpenFails \/ AppendEndpoint
  \/ FinishPool \/ Succeed
  \/ \E s \in Sessions : OpenSession(s)

CloseNext(a) ==
  \/ \E i \in Positions : ClosePool(a, i)
  \/ \E ep \in Endpoints :
       \/ EnterClose(a, ep) \/ LeaveClose(a, ep) \/ SkipClosed(a, ep)
       \/ \E s \in Sessions : DrainOne(a, ep, s)
  \/ Return(a)

ProbeNext(i) == PassOver(i) \/ EndProbe(i) \/ \E s \in Sessions : Probe(i, s)

Next ==
  \/ NewNext
  \/ \E c \in Closers : CallClose(c)
  \/ \E a \in Actors : CloseNext(a)
  \/ \E i \in Positions : Exit(i) \/ Tick(i) \/ ProbeNext(i)
  \/ \E ep \in Endpoints, s \in Sessions : Request(ep, s) \/ EndRequest(ep, s)

Spec == Init /\ [][Next]_vars

(* Goroutines run, acquireSession and the probe return (both have the      *)
(* probe's timeout), requests end.  A select that has both cases ready     *)
(* over and over takes each of them some time.                             *)
FairSpec ==
  /\ Spec
  /\ WF_vars(NewNext)
  /\ \A a \in Actors : WF_vars(CloseNext(a))
  /\ \A i \in Positions : WF_vars(ProbeNext(i)) /\ SF_vars(Exit(i))
  /\ \A ep \in Endpoints, s \in Sessions : WF_vars(EndRequest(ep, s))

-----------------------------------------------------------------------------
(* Properties                                                              *)

TypeOK ==
  /\ at \in (1..MaxPools + 1) \X Nat
  /\ at[2] > 0 => at \in Endpoints \/ <<at[1], at[2] - 1>> \in Endpoints
  /\ poolOf \in [Names -> 0..MaxPools]
  /\ sess \in [Endpoints -> [Sessions -> {"none", "free", "lent", "closed"}]]
  /\ pc \in [Actors -> {"checking", "opening", "ok", "idle", "closing",
                        "returned"}]
  /\ todo \in [Actors -> SUBSET Positions]
  /\ work \in [Actors -> Seq(Endpoints)]
  /\ closer \in [Endpoints -> Actors \cup {None}]
  /\ closed \subseteq Endpoints
  /\ check \in [Positions -> {"off", "running", "exited"}]
  /\ cursor \in [Positions -> Nat]
  /\ \A i \in Positions : cursor[i] <= NumEndpoints[i]
  /\ probing \in [Positions -> Sessions \cup {None}]
  /\ cancelled \subseteq Positions

Lent(ep, s) == sess[ep][s] = "lent"
Gone(ep, s) == sess[ep][s] \in {"none", "closed"}

(* "closes any sessions created successfully if construction fails", and   *)
(* "Close releases every pool": once New has returned an error or any call *)
(* of Close has returned, the first or another one, every session that is  *)
(* not on loan is closed, none will be put back into a channel, and every  *)
(* checker has been told to stop.                                          *)
Released ==
  (\E a \in Actors : pc[a] = "returned") =>
    /\ \A ep \in Endpoints, s \in Sessions :
         Gone(ep, s) \/ (Lent(ep, s) /\ ep \in closed)
    /\ \A i \in Positions : check[i] = "running" => i \in cancelled

(* A checker that has not been told to stop looks at a pool that is        *)
(* complete and that nobody is closing: until stop it finds every endpoint *)
(* built and open.  (stop itself cancels a probe that is under way.)       *)
CheckersSeeWholePools ==
  \A i \in Positions : check[i] = "running" /\ i \notin cancelled =>
    \A e \in 1..NumEndpoints[i] :
      /\ <<i, e>> \notin closed
      /\ \A s \in Sessions : ~Gone(<<i, e>>, s)

(* After a failed New or a call of Close nothing stays behind: in the end  *)
(* every session is closed and every checker goroutine has exited.         *)
NothingStays ==
  (\E a \in Actors : pc[a] = "closing") ~>
    /\ \A ep \in Endpoints, s \in Sessions : Gone(ep, s)
    /\ \A i \in Positions : check[i] # "running"

(* New returns, and so does every call of Close: callers that close the    *)
(* pools in different orders wait for each other, but never in a circle.   *)
CallsReturn ==
  /\ <>(pc[New] \in {"ok", "returned"})
  /\ \A c \in Closers : pc[c] = "closing" ~> pc[c] = "returned"

-----------------------------------------------------------------------------
(* The inductive invariant: what the properties above rest on              *)

(* New is done with an endpoint, or at least with some of its sessions.    *)
Built(ep) == ep[1] < at[1] \/ (ep[1] = at[1] /\ ep[2] < at[2])
Opened(ep) == Built(ep) \/ ep = at

(* Its Close has returned.                                                 *)
Drained(ep) == ep \in closed /\ closer[ep] = None

Awaits(a, ep) == \E k \in DOMAIN work[a] : work[a][k] = ep
Closes(a) == pc[a] \in {"closing", "returned"}

(* New goes through config in order, and c.pools holds what it is done     *)
(* with, each pool under its own name.                                     *)
PoolsInOrder ==
  /\ config \in Seq([name : Names, checked : BOOLEAN])
  /\ Len(config) <= MaxPools
  /\ at[1] <= Len(config) + 1
  /\ pc[New] # "idle"
  /\ pc[New] \in {"checking", "ok"} => at[2] = 0
  /\ pc[New] = "ok" => at[1] = Len(config) + 1
  /\ pc[New] = "opening" =>
       /\ at[1] <= Len(config)
       /\ at[2] \in 1..(NumEndpoints[at[1]] + 1)
       /\ ~Duplicate(at[1])
  /\ \A i \in 1..(at[1] - 1) : poolOf[Name(i)] = i
  /\ \A n \in Names : poolOf[n] < at[1]
  /\ at[2] > 0 /\ Closes(New) => at \in Endpoints

(* Sessions are opened in that order, lent once their pool is complete and *)
(* closed with their endpoint, which then stays empty.                     *)
SessionsInOrder ==
  \A ep \in Endpoints, s \in Sessions :
    /\ Built(ep) => sess[ep][s] # "none"
    /\ ~Opened(ep) => sess[ep][s] = "none"
    /\ sess[ep][s] = "lent" => ep[1] < at[1]
    /\ sess[ep][s] = "closed" => ep \in closed
    /\ Drained(ep) => sess[ep][s] # "free"

(* A checker is started with a complete pool, is at one of its endpoints   *)
(* only while it runs, and keeps the session it borrowed.                  *)
CheckerInOrder(i) ==
  /\ check[i] # "off" => i < at[1]
  /\ cursor[i] # 0 => check[i] = "running"
  /\ probing[i] # None =>
       cursor[i] # 0 /\ sess[<<i, cursor[i]>>][probing[i]] = "lent"

CheckersInOrder == \A i \in Positions : CheckerInOrder(i)

(* Nothing is closed while New opens, nobody can call Close before it has  *)
(* succeeded, and who is inside an endpoint's Close is at that endpoint.   *)
CloseInOrder ==
  /\ pc[New] \in {"checking", "opening"} => closed = {} /\ cancelled = {}
  /\ \A c \in Closers :
       /\ pc[c] \in {"idle", "closing", "returned"}
       /\ pc[c] # "idle" => pc[New] = "ok"
  /\ \A a \in Actors : pc[a] # "closing" => todo[a] = {} /\ work[a] = <<>>
  /\ \A ep \in Endpoints :
       closer[ep] # None => ep \in closed /\ AtEndpoint(closer[ep], ep)

(* An endpoint is closed after its checker was told to stop, or belongs to *)
(* the pool that New gave up.                                              *)
StoppedFirst ==
  \A ep \in Endpoints :
    ep \in closed \/ (\E a \in Actors : Awaits(a, ep)) =>
      ep[1] \in cancelled \/ (Closes(New) /\ ep[1] = at[1])

(* Whoever closes forgets nothing: a pool is still to do or its checker    *)
(* was told to stop; what was opened is still to do, awaited or drained.   *)
NothingForgotten ==
  \A a \in Actors : Closes(a) =>
    /\ \A i \in 1..(at[1] - 1) : i \in todo[a] \cup cancelled
    /\ \A ep \in Endpoints : Opened(ep) =>
         \/ ep[1] \in todo[a] /\ ep[1] < at[1]
         \/ Awaits(a, ep)
         \/ Drained(ep)

IInv ==
  /\ TypeOK
  /\ PoolsInOrder
  /\ SessionsInOrder
  /\ CheckersInOrder
  /\ CloseInOrder
  /\ StoppedFirst
  /\ NothingForgotten
=============================================================================
