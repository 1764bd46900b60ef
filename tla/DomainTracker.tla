--------------------------- MODULE DomainTracker ----------------------------
(***************************************************************************)
(* Which endpoint was recently blocked by which domain                     *)
(* (internal/domain/tracker.go), for one pair of the two: the entry of a   *)
(* sync.Map, whose Load, Store and CompareAndDelete are atomic.            *)
(*                                                                         *)
(* RecordBlock reads the clock, then stores an entry that never changes    *)
(* afterwards; PenaltyFor loads an entry, compares its age with the clock, *)
(* and deletes it when it expired.  Other goroutines run in between.       *)
(***************************************************************************)
EXTENDS Integers

CONSTANTS
  Recorders,  \* goroutines in RecordBlock
  Readers,    \* goroutines in PenaltyFor
  Entries,    \* identities of *blockEntry values, reused once unreachable
  TTL,        \* Tracker.ttl, after NewTracker
  Lag,        \* longest time RecordBlock takes to store what it stamped
  MaxTime,    \* bound on the clock
  None        \* nil, or no entry

ASSUME TimesAssumption ==
  TTL \in Nat \ {0} /\ Lag \in Nat /\ MaxTime \in Nat
ASSUME NoneAssumption == None \notin Entries /\ None \notin Int

VARIABLES
  now,      \* the clock
  block,    \* the entry the map holds, None if there is none
  stamp,    \* blockedAt of each entry
  fresh,    \* the entry each recorder is about to store
  seen,     \* the entry each reader loaded
  pc,       \* where each reader is
  answer,   \* what its latest PenaltyFor answered
  newest,   \* history: the latest blockedAt a RecordBlock returned from
  known     \* history: newest when each reader's latest PenaltyFor began

vars == <<now, block, stamp, fresh, seen, pc, answer, newest, known>>

Times == 0..MaxTime
Answers == {"none", "1.0", "penalty"}
ReaderSteps == {"idle", "loading", "checking", "deleting"}

TypeOK ==
  /\ now \in Times
  /\ block \in Entries \cup {None}
  /\ stamp \in [Entries -> Times]
  /\ fresh \in [Recorders -> Entries \cup {None}]
  /\ seen \in [Readers -> Entries \cup {None}]
  /\ pc \in [Readers -> ReaderSteps]
  /\ answer \in [Readers -> Answers]
  /\ newest \in Times \cup {None}
  /\ known \in [Readers -> Times \cup {None}]

Init ==
  /\ now = 0
  /\ block = None
  /\ stamp = [e \in Entries |-> 0]
  /\ fresh = [w \in Recorders |-> None]
  /\ seen = [r \in Readers |-> None]
  /\ pc = [r \in Readers |-> "idle"]
  /\ answer = [r \in Readers |-> "none"]
  /\ newest = None
  /\ known = [r \in Readers |-> None]

Expired(e) == now - stamp[e] > TTL

Reachable(e) ==
  \/ e = block
  \/ \E w \in Recorders : fresh[w] = e
  \/ \E r \in Readers : seen[r] = e

-----------------------------------------------------------------------------
(* RecordBlock                                                             *)

BlockedAt == now

(* &blockEntry{blockedAt: time.Now()}                                      *)
Stamp(w) ==
  /\ fresh[w] = None
  /\ \E e \in Entries :
       /\ ~Reachable(e)
       /\ stamp' = [stamp EXCEPT ![e] = BlockedAt]
       /\ fresh' = [fresh EXCEPT ![w] = e]
  /\ UNCHANGED <<now, block, seen, pc, answer, newest, known>>

Later(t, u) == IF t = None \/ t < u THEN u ELSE t

(* Store it over whatever is there, a later entry included, and return.    *)
Store(w) ==
  /\ fresh[w] # None
  /\ block' = fresh[w]
  /\ fresh' = [fresh EXCEPT ![w] = None]
  /\ newest' = Later(newest, stamp[fresh[w]])
  /\ UNCHANGED <<now, stamp, seen, pc, answer, known>>

-----------------------------------------------------------------------------
(* PenaltyFor                                                              *)

Begin(r) ==
  /\ pc[r] = "idle"
  /\ pc' = [pc EXCEPT ![r] = "loading"]
  /\ known' = [known EXCEPT ![r] = newest]
  /\ answer' = [answer EXCEPT ![r] = "none"]
  /\ UNCHANGED <<now, block, stamp, fresh, seen, newest>>

(* The call of reader r returns a.                                         *)
Answer(r, a) ==
  /\ answer' = [answer EXCEPT ![r] = a]
  /\ pc' = [pc EXCEPT ![r] = "idle"]
  /\ seen' = [seen EXCEPT ![r] = None]

Load(r) ==
  /\ pc[r] = "loading"
  /\ \/ block = None /\ Answer(r, "1.0")
     \/ /\ block # None
        /\ seen' = [seen EXCEPT ![r] = block]
        /\ pc' = [pc EXCEPT ![r] = "checking"]
        /\ UNCHANGED answer
  /\ UNCHANGED <<now, block, stamp, fresh, newest, known>>

Check(r) ==
  /\ pc[r] = "checking"
  /\ \/ ~Expired(seen[r]) /\ Answer(r, "penalty")
     \/ /\ Expired(seen[r])
        /\ pc' = [pc EXCEPT ![r] = "deleting"]
        /\ UNCHANGED <<answer, seen>>
  /\ UNCHANGED <<now, block, stamp, fresh, newest, known>>

(* Mutant: Delete(key) instead of CompareAndDelete.                        *)
Removed_Any(e) == None

(* CompareAndDelete(key, existing) compares the pointers.                  *)
Removed(e) == IF block = e THEN None ELSE block

Delete(r) ==
  /\ pc[r] = "deleting"
  /\ block' = Removed(seen[r])
  /\ Answer(r, "1.0")
  /\ UNCHANGED <<now, stamp, fresh, newest, known>>

-----------------------------------------------------------------------------
(* Time passes; a RecordBlock that read the clock stores within Lag.       *)
Tick ==
  /\ now < MaxTime
  /\ \A w \in Recorders : fresh[w] # None => now < stamp[fresh[w]] + Lag
  /\ now' = now + 1
  /\ UNCHANGED <<block, stamp, fresh, seen, pc, answer, newest, known>>

Next ==
  \/ \E w \in Recorders : Stamp(w) \/ Store(w)
  \/ \E r \in Readers : Begin(r) \/ Load(r) \/ Check(r) \/ Delete(r)
  \/ Tick

Spec == Init /\ [][Next]_vars

-----------------------------------------------------------------------------
(* Properties                                                              *)

(* A block is remembered: a PenaltyFor that began after a RecordBlock had  *)
(* returned answers 1.0 only when the TTL of that block is over, less the  *)
(* time a RecordBlock may dawdle.  No reader that removes an expired entry *)
(* takes a newer one with it, and of two blocks stored in the other order  *)
(* than they were stamped the earlier costs the later no more than Lag.    *)
PenaltyRemembered ==
  \A r \in Readers :
    answer[r] = "1.0" => known[r] = None \/ now > known[r] + TTL - Lag

-----------------------------------------------------------------------------
(* The inductive invariant                                                 *)

(* e is stamped no more than Lag before t.                                 *)
Covers(e, t) == e # None /\ (t # None => stamp[e] >= t - Lag)

(* The map covers the newest block, unless its time is over; what a reader *)
(* loaded covers the newest block it must know of; what is being deleted   *)
(* has expired; nothing is stamped in the future; and a pending entry is   *)
(* at most Lag old, so storing it late costs no more.                      *)
Remembered ==
  /\ newest # None =>
       newest <= now /\ (Covers(block, newest) \/ now > newest + TTL - Lag)
  /\ \A e \in Entries : stamp[e] <= now
  /\ \A w \in Recorders : fresh[w] # None => now <= stamp[fresh[w]] + Lag
  /\ \A r \in Readers :
       /\ known[r] # None => newest # None /\ known[r] <= newest
       /\ pc[r] \in {"checking", "deleting"} <=> seen[r] # None
       /\ seen[r] # None =>
            Covers(seen[r], known[r]) \/ now > known[r] + TTL - Lag
       /\ pc[r] = "deleting" => Expired(seen[r])

IInv == TypeOK /\ Remembered /\ PenaltyRemembered
=============================================================================
