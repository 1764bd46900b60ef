---------------------------- MODULE SessionPool -----------------------------
(***************************************************************************)
(* The transport sessions of one endpoint (endpoint.go): the buffered      *)
(* channel that holds the idle ones, acquireSession with its wait on the   *)
(* rate limiter, releaseSession, and the second half of Close, which shuts *)
(* the channel down under sessionMu.                                       *)
(*                                                                         *)
(* A caller is a goroutine that borrows a session: a request attempt, a    *)
(* Ping or a health probe.  Its context may end at any moment.  The        *)
(* limiter (golang.org/x/time/rate) is external: its wait may end at any   *)
(* time, with an error when its context is done or when the caller's       *)
(* deadline is too near.  Which idle session a caller gets is left open.   *)
(***************************************************************************)
EXTENDS Integers, FiniteSets

CONSTANTS
  Sessions,  \* the sessions newEndpointWithFactory opened
  Callers,   \* goroutines that borrow sessions
  Hurried,   \* the callers whose context has a deadline
  Limited,   \* whether the endpoint has a rate limiter
  Pool, Gone, None

PoolSize == Cardinality(Sessions)

ASSUME SessionsAssumption == IsFiniteSet(Sessions)
ASSUME CallersAssumption == Hurried \subseteq Callers
ASSUME LimitedAssumption == Limited \in BOOLEAN
ASSUME PlacesAssumption ==
  /\ Pool \notin Callers /\ Gone \notin Callers /\ Pool # Gone
  /\ None \notin Sessions

VARIABLES
  idle,       \* sessions in the channel e.sessions
  gone,       \* sessions whose Close was called
  held,       \* the session each caller has in hand
  pc,         \* where each caller is
  verdict,    \* what its latest acquireSession returned
  gaveUp,     \* callers whose context has ended
  closed,     \* the channel e.closed is closed
  cancelled,  \* e.closeCtx is cancelled
  closer      \* where Close is; it holds sessionMu from "locked" to "draining"

vars == <<idle, gone, held, pc, verdict, gaveUp, closed, cancelled, closer>>

CallerSteps == {"idle", "limiting", "refused", "waiting", "received", "using"}
Verdicts == {"none", "session", "ErrClientClosed", "rate limit wait",
             "ctx.Err"}
CloserSteps == {"open", "locked", "closed", "draining", "done"}

TypeOK ==
  /\ idle \in SUBSET Sessions
  /\ gone \in SUBSET Sessions
  /\ held \in [Callers -> Sessions \cup {None}]
  /\ pc \in [Callers -> CallerSteps]
  /\ verdict \in [Callers -> Verdicts]
  /\ gaveUp \in SUBSET Callers
  /\ closed \in BOOLEAN
  /\ cancelled \in BOOLEAN
  /\ closer \in CloserSteps

Init ==
  /\ idle = Sessions
  /\ gone = {}
  /\ held = [c \in Callers |-> None]
  /\ pc = [c \in Callers |-> "idle"]
  /\ verdict = [c \in Callers |-> "none"]
  /\ gaveUp = {}
  /\ closed = FALSE
  /\ cancelled = FALSE
  /\ closer = "open"

SessionMuFree == closer \in {"open", "done"}

Goto(c, step) == pc' = [pc EXCEPT ![c] = step]

(* acquireSession returns to its caller with result v.                     *)
ReturnFrom(c, v) ==
  /\ Goto(c, IF v = "session" THEN "using" ELSE "idle")
  /\ verdict' = [verdict EXCEPT ![c] = v]

-----------------------------------------------------------------------------
(* acquireSession                                                          *)

(* A call: refused at once by a closed endpoint, else on to the limiter or *)
(* straight to the sessions.  Its context is a fresh one, or that of the   *)
(* caller's previous attempt, which may have ended.                        *)
Acquire(c) ==
  /\ pc[c] = "idle"
  /\ gaveUp' \in {gaveUp, gaveUp \ {c}}
  /\ \/ closed /\ ReturnFrom(c, "ErrClientClosed")
     \/ ~closed /\ Goto(c, IF Limited THEN "limiting" ELSE "waiting")
                /\ verdict' = [verdict EXCEPT ![c] = "none"]
  /\ UNCHANGED <<idle, gone, held, closed, cancelled, closer>>

(* The caller's context is cancelled or times out.                         *)
GiveUp(c) ==
  /\ pc[c] \in {"limiting", "refused", "waiting", "received"}
  /\ c \notin gaveUp
  /\ gaveUp' = gaveUp \cup {c}
  /\ UNCHANGED <<idle, gone, held, pc, verdict, closed, cancelled, closer>>

LimiterGrants(c) ==
  /\ pc[c] = "limiting"
  /\ Goto(c, "waiting")
  /\ UNCHANGED <<idle, gone, held, verdict, gaveUp, closed, cancelled, closer>>

(* limiter.Wait fails: waitCtx ends with the caller's context or, through  *)
(* AfterFunc, with closeCtx; a deadline may be refused in advance.         *)
WaitEnded(c) == c \in gaveUp \/ cancelled

LimiterRefuses(c) ==
  /\ pc[c] = "limiting"
  /\ WaitEnded(c) \/ c \in Hurried
  /\ Goto(c, "refused")
  /\ UNCHANGED <<idle, gone, held, verdict, gaveUp, closed, cancelled, closer>>

(* The refusal is put down to Close if the endpoint is closed by now.      *)
ExplainRefusal(c) ==
  /\ pc[c] = "refused"
  /\ ReturnFrom(c, IF closed THEN "ErrClientClosed" ELSE "rate limit wait")
  /\ UNCHANGED <<idle, gone, held, gaveUp, closed, cancelled, closer>>

(* Mutant: the select lacks its first case.                                *)
CloseSeen_Never == FALSE

(* The select: a session, e.closed or ctx.Done(), of which Go picks any    *)
(* that is ready, and what the caller gets when its context ended.         *)
CloseSeen == closed
DoneVerdict == "ctx.Err"

Receive(c, s) ==
  /\ pc[c] = "waiting"
  /\ s \in idle
  /\ idle' = idle \ {s}
  /\ held' = [held EXCEPT ![c] = s]
  /\ Goto(c, "received")
  /\ UNCHANGED <<gone, verdict, gaveUp, closed, cancelled, closer>>

SeeClosed(c) ==
  /\ pc[c] = "waiting"
  /\ CloseSeen
  /\ ReturnFrom(c, "ErrClientClosed")
  /\ UNCHANGED <<idle, gone, held, gaveUp, closed, cancelled, closer>>

SeeDone(c) ==
  /\ pc[c] = "waiting"
  /\ c \in gaveUp
  /\ ReturnFrom(c, DoneVerdict)
  /\ UNCHANGED <<idle, gone, held, gaveUp, closed, cancelled, closer>>

(* Mutants: there is no second look; the session is dropped, not closed.   *)
StillOpen_Unchecked == TRUE
Discarded_Leaked(c) == {}

(* The second look at e.closed, session in hand; what is closed when it is *)
(* too late to use it.                                                     *)
StillOpen == ~closed
Discarded(c) == {held[c]}

Keep(c) ==
  /\ pc[c] = "received"
  /\ StillOpen
  /\ ReturnFrom(c, "session")
  /\ UNCHANGED <<idle, gone, held, gaveUp, closed, cancelled, closer>>

Discard(c) ==
  /\ pc[c] = "received"
  /\ ~StillOpen
  /\ gone' = gone \cup Discarded(c)
  /\ held' = [held EXCEPT ![c] = None]
  /\ ReturnFrom(c, "ErrClientClosed")
  /\ UNCHANGED <<idle, gaveUp, closed, cancelled, closer>>

-----------------------------------------------------------------------------
(* releaseSession: e.closed cannot change while sessionMu is held, so the  *)
(* critical section is one step on the channel.                            *)

(* Mutant: the channel is made one session too small.                      *)
ChannelFull_OffByOne == Cardinality(idle) >= PoolSize - 1

(* The channel is full: "should not happen, but never leak the session".   *)
ChannelFull == Cardinality(idle) >= PoolSize

(* Mutant: a release does not look at e.closed.                            *)
PutBack_Unchecked(c) == ~ChannelFull

PutBack(c) == ~closed /\ ~ChannelFull

Release(c) ==
  /\ pc[c] = "using"
  /\ SessionMuFree
  /\ IF PutBack(c)
       THEN idle' = idle \cup {held[c]} /\ UNCHANGED gone
       ELSE gone' = gone \cup {held[c]} /\ UNCHANGED idle
  /\ held' = [held EXCEPT ![c] = None]
  /\ Goto(c, "idle")
  /\ UNCHANGED <<verdict, gaveUp, closed, cancelled, closer>>

-----------------------------------------------------------------------------
(* Close, once, after its section on mu (see EndpointHealth)               *)

(* Mutant: cancel() comes before close(e.closed).                          *)
WaitsAtLock_Cancelled == TRUE

WaitsAtLock == cancelled

LockSessions ==
  /\ closer = "open"
  /\ closer' = "locked"
  /\ cancelled' = WaitsAtLock
  /\ UNCHANGED <<idle, gone, held, pc, verdict, gaveUp, closed>>

CloseChannel ==
  /\ closer = "locked"
  /\ closed' = TRUE
  /\ closer' = "closed"
  /\ UNCHANGED <<idle, gone, held, pc, verdict, gaveUp, cancelled>>

CancelWaits ==
  /\ closer = "closed"
  /\ cancelled' = TRUE
  /\ closer' = "draining"
  /\ UNCHANGED <<idle, gone, held, pc, verdict, gaveUp, closed>>

Drain(s) ==
  /\ closer = "draining"
  /\ s \in idle
  /\ idle' = idle \ {s}
  /\ gone' = gone \cup {s}
  /\ UNCHANGED <<held, pc, verdict, gaveUp, closed, cancelled, closer>>

Drained == idle = {}

FinishClose ==
  /\ closer = "draining"
  /\ Drained
  /\ closer' = "done"
  /\ UNCHANGED <<idle, gone, held, pc, verdict, gaveUp, closed, cancelled>>

-----------------------------------------------------------------------------
Select(c) == SeeClosed(c) \/ SeeDone(c) \/ \E s \in Sessions : Receive(c, s)

AcquireSteps(c) ==
  \/ LimiterGrants(c) \/ LimiterRefuses(c) \/ ExplainRefusal(c)
  \/ Select(c) \/ Keep(c) \/ Discard(c)

CallerNext(c) == Acquire(c) \/ GiveUp(c) \/ AcquireSteps(c) \/ Release(c)

CloserNext ==
  \/ LockSessions \/ CloseChannel \/ CancelWaits \/ FinishClose
  \/ \E s \in Sessions : Drain(s)

Next == (\E c \in Callers : CallerNext(c)) \/ CloserNext

Spec == Init /\ [][Next]_vars

(* Goroutines run on; a sender hands its session to the receiver that has  *)
(* waited longest and a mutex to a starving waiter, hence the strong       *)
(* fairness; the limiter's wait ends; whoever borrows a session releases   *)
(* it (every use in src/ defers releaseSession).  No call of acquireSession *)
(* or Close is forced, but a Close that began goes on.                     *)
Fairness ==
  /\ \A c \in Callers :
       /\ WF_vars(LimiterGrants(c) \/ LimiterRefuses(c))
       /\ WF_vars(ExplainRefusal(c) \/ Keep(c) \/ Discard(c))
       /\ SF_vars(Select(c))
       /\ SF_vars(Release(c))
  /\ WF_vars(CloserNext /\ closer # "open")

FairSpec == Spec /\ Fairness

-----------------------------------------------------------------------------
(* Properties                                                              *)

(* Every session is in exactly one place: in the channel, in one caller's  *)
(* hands, or closed.  So no session is used by two goroutines, used after  *)
(* it was closed, closed twice, or lost.                                   *)
Holds(c) == held[c] # None

OnePlace ==
  /\ idle \cap gone = {}
  /\ \A c \in Callers : Holds(c) => held[c] \notin idle \cup gone
  /\ \A c, d \in Callers : Holds(c) /\ held[c] = held[d] => c = d
  /\ \A s \in Sessions : s \in idle \cup gone \/ \E c \in Callers : held[c] = s

(* The comment in releaseSession is right: a release never finds the       *)
(* channel full, so its default case never closes a good session.          *)
NeverFull == \A c \in Callers : pc[c] = "using" => ~ChannelFull

(* Close leaks nothing: once it returned, a session is closed or in the    *)
(* hands of a caller that will close it, and none goes back to the channel.*)
ClosedIsEmpty ==
  closer = "done" =>
    \A s \in Sessions : s \in gone \/ \E c \in Callers : held[c] = s

(* A rate-limit error is the caller's own doing: Close closes e.closed     *)
(* before it cancels the waits, so a caller that neither gave up nor has a *)
(* deadline learns of Close as ErrClientClosed, never as "rate limit wait" *)
RateLimitIsOwn ==
  \A c \in Callers :
    verdict[c] = "rate limit wait" => c \in gaveUp \cup Hurried

(* Nobody is stranded: a call of acquireSession returns, with a session or *)
(* an error, though sessions are fewer than callers and Close may come at  *)
(* any moment.                                                             *)
AcquireReturns ==
  \A c \in Callers :
    pc[c] \in {"limiting", "refused", "waiting", "received"}
      ~> pc[c] \in {"idle", "using"}

(* Close returns, and every session is closed in the end.                  *)
CloseCompletes == closer = "locked" ~> closer = "done" /\ gone = Sessions

(* The pool keeps the promise of SessionLease.  A session counts as lent   *)
(* from the second look at e.closed.                                       *)
Lent(c, s) == held[c] = s /\ pc[c] = "using"

Where ==
  [s \in Sessions |->
    IF s \in gone THEN Gone
    ELSE IF \E c \in Callers : Lent(c, s)
           THEN CHOOSE c \in Callers : Lent(c, s)
           ELSE Pool]

Lease == INSTANCE SessionLease WITH where <- Where, shut <- closed

LeaseSpec == Lease!Spec

-----------------------------------------------------------------------------
(* The inductive invariant                                                 *)

(* How far Close is, and what follows from it: a session is only closed    *)
(* after e.closed, and a wait refused through closeCtx finds e.closed      *)
(* closed, since cancel comes after close.                                 *)
CloseOrder ==
  /\ closed <=> closer \in {"closed", "draining", "done"}
  /\ cancelled => closed
  /\ gone # {} => closed
  /\ closer = "done" => idle = {}
  /\ \A c \in Callers :
       /\ Holds(c) <=> pc[c] \in {"received", "using"}
       /\ pc[c] = "refused" => c \in gaveUp \cup Hurried \/ closed

IInv == TypeOK /\ OnePlace /\ CloseOrder /\ RateLimitIsOwn
=============================================================================
