--------------------------- MODULE Classification ---------------------------
(***************************************************************************)
(* What a failure is taken for.  BlockDetector (detector.go) decides       *)
(* whether what fn returned counts against the endpoint, DoForDomain and   *)
(* Ping (client.go) choose the error and its wording, and                  *)
(* TransientClassifier (transient.go) tells the caller, who has only that  *)
(* error, whether to try again later.  All three go by the text, so each   *)
(* may undo what another meant.                                            *)
(*                                                                         *)
(* A text is the set of phrases it says, lower case; a list of patterns is *)
(* the set of phrases it matches.  Endpoints, sessions and time are left   *)
(* to RequestRetry: here an attempt finds one, finds none, or fails.       *)
(***************************************************************************)
EXTENDS Integers, FiniteSets

CONSTANTS
  MaxAttempts,  \* RetryConfig.MaxAttempts
  Nil           \* nil

ASSUME AttemptsAssumption == MaxAttempts \in Nat \ {0}

(* DetectorConfig: a field is nil or the list given.                       *)
Statuses == {200, 302, 403, 404, 429}
Bodies == {"plain", "challenge page"}
CloudFrontHeaders == {"x-amz-cf-cloudflare"}
Headers == CloudFrontHeaders \cup {"cf-ray", "x-cloudflare", "server"}
DefaultBlockedStatusCodes == {403, 429}
DefaultBodyPatterns == {"challenge page"}
DefaultErrorPatterns ==
  {"blocked", "all proxies are blocked", "captcha", "challenge", "status 403"}

(* TransientConfig                                                         *)
DefaultUnambiguousPatterns ==
  {"proxy tunnel failed", "all proxies are blocked", "blocking response"}
DefaultAmbiguousPatterns == {"connection refused"}
DefaultBlockingPatterns == {"captcha", "status 403", "status 429"}
DefaultContextPatterns == {"proxy", "proxator", "proxy tunnel failed"}

Phrases ==
  DefaultErrorPatterns \cup DefaultUnambiguousPatterns
    \cup DefaultAmbiguousPatterns \cup DefaultBlockingPatterns
    \cup DefaultContextPatterns \cup {"other status", "anything"}

DetectorConfigs ==
  [statusCodes: {Nil, {}, {200}}, bodyPatterns: {Nil, {}, {"invalid"}},
   errorPatterns: {Nil, {}}, disableCloudflareHeaderCheck: BOOLEAN]

Tiers == {"unambiguous", "ambiguous", "blocking", "contextual"}

(* At most one tier is disabled.                                           *)
TransientConfigs ==
  {[t \in Tiers |-> IF t \in disabled THEN {} ELSE Nil] :
     disabled \in {d \in SUBSET Tiers : Cardinality(d) <= 1}}

(* Headers only where they may matter: on a status that is not listed.     *)
Responses ==
  {r \in [status: Statuses, body: Bodies, header: SUBSET Headers] :
     r.header = {} \/ r.status \in {302, 404}}

(* errors.Is: what sentinel an error is or wraps.                          *)
Error(says, is) == [says |-> says, is |-> is]
Sentinels == {"none", "ErrAllProxiesBlocked", "wrapped ErrAllProxiesBlocked",
              "Canceled", "DeadlineExceeded"}
AllBlocked ==
  Error({"proxator", "all proxies are blocked"}, "ErrAllProxiesBlocked")

(* fmt.Errorf with %w: the text grows, the sentinel stays findable.        *)
WrappedIs(is) ==
  IF is = "ErrAllProxiesBlocked" THEN "wrapped ErrAllProxiesBlocked" ELSE is
Wrap(says, e) == Error(says \cup e.says, WrappedIs(e.is))

(* A list may be empty and is not nil, nor is a response or an error.      *)
ASSUME NilAssumption ==
  /\ Nil # {}
  /\ Nil \notin Responses
  /\ Nil \notin [says : SUBSET Phrases, is : Sentinels]

(* What fn, or the session of a Ping, can fail with: any phrase, alone or  *)
(* in context, cancellation, or the exhaustion of another pool.            *)
FnErrors ==
  {Error({p, "anything"}, "none") : p \in Phrases}
    \cup {Error({p, "proxy"}, "none") : p \in Phrases}
    \cup {Error({"anything"}, "Canceled"), AllBlocked,
          Wrap({"anything"}, AllBlocked)}

ContextErrors ==
  {Error({"anything"}, is) : is \in {"Canceled", "DeadlineExceeded"}}

(* ErrClientClosed, the limiter's error, or the context's.                 *)
AcquireErrors ==
  {Error({p}, "none") : p \in {"proxator", "anything"}} \cup ContextErrors

VARIABLES
  given,       \* the DetectorConfig
  tiers,       \* the TransientConfig of the caller's classifier
  op,          \* "Do" for DoForDomain, or "Ping"
  pc,          \* where the call is
  attempt,     \* the number of the current attempt
  lastResp,    \* the response of the last fn, or Nil
  lastErr,     \* its error, or Nil
  toScan,      \* headers not looked at yet, in the order of a map range
  penalised,   \* the current attempt counted against its endpoint
  err,         \* the error of the attempt, in the end that of the call
  transient    \* what IsTransient said of it

config == <<given, tiers, op>>
memory == <<lastResp, lastErr>>
vars ==
  <<config, pc, attempt, memory, toScan, penalised, err, transient>>

Steps == {"configuring", "refused", "ready", "ran", "scanning", "blocked",
          "clean", "judging", "finished", "pinging", "returned", "classified"}

IsError(e) == e.says \subseteq Phrases /\ e.is \in Sentinels

TypeOK ==
  /\ given = Nil \/ given \in DetectorConfigs
  /\ tiers = Nil \/ tiers \in TransientConfigs
  /\ op \in {"Do", "Ping"}
  /\ pc \in Steps
  /\ attempt \in 1..MaxAttempts
  /\ lastResp = Nil \/ lastResp \in Responses
  /\ lastErr = Nil \/ IsError(lastErr)
  /\ toScan \in SUBSET Headers
  /\ penalised \in BOOLEAN
  /\ err = Nil \/ IsError(err)
  /\ transient \in BOOLEAN

Init ==
  /\ given = Nil
  /\ tiers = Nil
  /\ op = "Do"
  /\ pc = "configuring"
  /\ attempt = 1
  /\ lastResp = Nil
  /\ lastErr = Nil
  /\ toScan = {}
  /\ penalised = FALSE
  /\ err = Nil
  /\ transient = FALSE

-----------------------------------------------------------------------------
(* Construction                                                            *)

(* Mutant: the fallback goes by length.                                    *)
Pick_IfEmpty(list, default) == IF list \in {Nil, {}} THEN default ELSE list

(* A nil field selects the defaults; an empty one disables the check.      *)
Pick(list, default) == IF list = Nil THEN default ELSE list

NewTransientClassifierWith(cfg) ==
  [unambiguous |-> Pick(cfg["unambiguous"], DefaultUnambiguousPatterns),
   ambiguous |-> Pick(cfg["ambiguous"], DefaultAmbiguousPatterns),
   blocking |-> Pick(cfg["blocking"], DefaultBlockingPatterns),
   contextual |-> Pick(cfg["contextual"], DefaultContextPatterns)]

NewBlockDetectorWith(cfg) ==
  [statusCodes |-> Pick(cfg.statusCodes, DefaultBlockedStatusCodes),
   bodyPatterns |-> Pick(cfg.bodyPatterns, DefaultBodyPatterns),
   errorPatterns |-> Pick(cfg.errorPatterns, DefaultErrorPatterns),
   checkCFHeaders |-> ~cfg.disableCloudflareHeaderCheck]

(* Neither changes once it is built.                                       *)
detector == NewBlockDetectorWith(given)
classifier == NewTransientClassifierWith(tiers)

(* A body pattern that does not compile fails the construction.            *)
Configure ==
  /\ pc = "configuring"
  /\ given' \in DetectorConfigs
  /\ tiers' \in TransientConfigs
  /\ pc' = IF given'.bodyPatterns = {"invalid"} THEN "refused" ELSE "ready"
  /\ UNCHANGED <<op, attempt, memory, toScan, penalised, err, transient>>

-----------------------------------------------------------------------------
(* The detector                                                            *)

ContainsAny(says, patterns) == says \cap patterns # {}

IsBlockedError(e) == ContainsAny(e.says, detector.errorPatterns)

(* A cf- prefix, or cloudflare anywhere but in CloudFront's x-amz-cf-.     *)
IsCloudflareHeader(key) ==
  key \notin CloudFrontHeaders /\ key \in {"cf-ray", "x-cloudflare"}

(* IsBlocked up to the headers: a listed status blocks, another 2xx does   *)
(* not, then the body decides; below 400 no header is looked at.           *)
BeforeHeaders(resp) ==
  IF resp.status \in detector.statusCodes THEN "blocked"
  ELSE IF resp.status \in 200..299 THEN "clean"
  ELSE IF resp.body \in detector.bodyPatterns THEN "blocked"
  ELSE IF detector.checkCFHeaders /\ resp.status >= 400 THEN "scanning"
  ELSE "clean"

-----------------------------------------------------------------------------
(* An attempt of DoForDomain                                               *)

(* No endpoint was in rotation, or it gave no session.                     *)
NoSession ==
  /\ pc = "ready"
  /\ err' \in {AllBlocked} \cup AcquireErrors
  /\ pc' = "judging"
  /\ UNCHANGED <<config, attempt, memory, toScan, penalised, transient>>

(* fn returns a response, an error, both, or neither.  One response will   *)
(* do beside an error: nobody looks into it.                               *)
RunFn ==
  /\ pc = "ready"
  /\ \/ lastResp' \in Responses /\ lastErr' = Nil
     \/ /\ lastResp' \in
             {Nil, [status |-> 200, body |-> "plain", header |-> {}]}
        /\ lastErr' \in FnErrors
     \/ lastResp' = Nil /\ lastErr' = Nil
  /\ pc' = "ran"
  /\ UNCHANGED <<config, attempt, toScan, penalised, err, transient>>

(* Mutants: the cause is printed, not wrapped; nothing is added.           *)
BlockedBy_Printed(e) == Error({"proxy", "blocked"} \cup e.says, "none")

(* "proxy %d blocked: %w"                                                  *)
BlockedBy(e) == Wrap({"proxy", "blocked"}, e)

JudgeError ==
  /\ pc = "ran"
  /\ lastErr # Nil
  /\ penalised' = IsBlockedError(lastErr)
  /\ err' = IF IsBlockedError(lastErr) THEN BlockedBy(lastErr) ELSE lastErr
  /\ pc' = "judging"
  /\ UNCHANGED <<config, attempt, memory, toScan, transient>>

(* A nil response is not blocked.                                          *)
JudgeResponse ==
  /\ pc = "ran"
  /\ lastErr = Nil
  /\ pc' = IF lastResp = Nil THEN "clean" ELSE BeforeHeaders(lastResp)
  /\ toScan' = IF pc' = "scanning" THEN lastResp.header ELSE {}
  /\ UNCHANGED <<config, attempt, memory, penalised, err, transient>>

(* Mutant: the first header that is not Cloudflare's ends the scan.        *)
OtherHeader_Ends == "clean"

OtherHeader == "scanning"

(* The range over the header map, in any order.                            *)
LookAtHeader ==
  /\ pc = "scanning"
  /\ \E key \in toScan :
       /\ toScan' = toScan \ {key}
       /\ pc' = IF IsCloudflareHeader(key) THEN "blocked" ELSE OtherHeader
  /\ UNCHANGED <<config, attempt, memory, penalised, err, transient>>

EndScan ==
  /\ pc = "scanning"
  /\ toScan = {}
  /\ pc' = "clean"
  /\ UNCHANGED <<config, attempt, memory, toScan, penalised, err, transient>>

StatusPhrase(status) ==
  CASE status = 403 -> "status 403"
    [] status = 429 -> "status 429"
    [] OTHER -> "other status"

(* Mutant: the verdict is told in other words.                             *)
BlockedResponse_Reworded(resp) ==
  Error({"anything", StatusPhrase(resp.status)}, "none")

(* "proxy %d received blocking response (status %d)"                       *)
BlockedResponse(resp) ==
  Error({"proxy", "blocking response", StatusPhrase(resp.status)}, "none")

Block ==
  /\ pc = "blocked"
  /\ penalised' = TRUE
  /\ err' = BlockedResponse(lastResp)
  /\ pc' = "judging"
  /\ UNCHANGED <<config, attempt, memory, toScan, transient>>

(* The call succeeds, or fails for want of a response.                     *)
Succeed ==
  /\ pc = "clean"
  /\ err' = IF lastResp = Nil THEN Error({"proxator", "anything"}, "none")
                              ELSE Nil
  /\ pc' = "returned"
  /\ UNCHANGED <<config, attempt, memory, toScan, penalised, transient>>

-----------------------------------------------------------------------------
(* The end of the call                                                     *)

IsAllBlocked(e) ==
  e.is \in {"ErrAllProxiesBlocked", "wrapped ErrAllProxiesBlocked"}

(* Mutant: MaxAttempts counts the retries.                                 *)
Retriable_Retries ==
  ~IsAllBlocked(err) /\ err.is # "Canceled" /\ attempt <= MaxAttempts

(* The options RetryIf and Attempts.                                       *)
Retriable ==
  ~IsAllBlocked(err) /\ err.is # "Canceled" /\ attempt < MaxAttempts

(* The next attempt finds nothing of this one but lastResp and lastErr.    *)
Retry ==
  /\ pc = "judging"
  /\ Retriable
  /\ attempt' = attempt + 1
  /\ penalised' = FALSE
  /\ toScan' = {}
  /\ err' = Nil
  /\ pc' = "ready"
  /\ UNCHANGED <<config, memory, transient>>

Stop ==
  /\ pc = "judging"
  /\ ~Retriable
  /\ pc' = "finished"
  /\ UNCHANGED <<config, attempt, memory, toScan, penalised, err, transient>>

(* The context ended before the first attempt or during a delay.           *)
Interrupt ==
  /\ \/ pc = "ready" /\ attempt = 1
     \/ pc = "judging" /\ Retriable
  /\ err' \in ContextErrors
  /\ pc' = "finished"
  /\ UNCHANGED <<config, attempt, memory, toScan, penalised, transient>>

(* Mutant: the attempt's error is returned.                                *)
Explained_Wrapped == err

(* Without a response the error of the last fn goes out as it came.        *)
Explained == IF lastResp = Nil /\ lastErr # Nil THEN lastErr ELSE err

Return ==
  /\ pc = "finished"
  /\ err' = Explained
  /\ pc' = "returned"
  /\ UNCHANGED <<config, attempt, memory, toScan, penalised, transient>>

-----------------------------------------------------------------------------
(* Ping: one attempt, which the detector does not judge.                   *)

(* "proxy ping failed: %w" and "proxator: ping returned status %d"         *)
PingFailed(e) == Wrap({"proxy"}, e)
PingStatus(status) == Error({"proxator", StatusPhrase(status)}, "none")

PingFindsNoSession ==
  /\ pc = "ready"
  /\ attempt = 1
  /\ err' \in {AllBlocked} \cup AcquireErrors
  /\ op' = "Ping"
  /\ pc' = "returned"
  /\ UNCHANGED <<given, tiers, attempt, memory, toScan, penalised,
                 transient>>

Ping ==
  /\ pc = "ready"
  /\ attempt = 1
  /\ \/ \E e \in FnErrors : lastErr' = e /\ err' = PingFailed(e)
     \/ /\ lastErr' = Nil
        /\ \E status \in Statuses :
             err' = IF status \in 200..399 THEN Nil ELSE PingStatus(status)
  /\ lastResp' = Nil
  /\ op' = "Ping"
  /\ pc' = "returned"
  /\ UNCHANGED <<given, tiers, attempt, toScan, penalised, transient>>

-----------------------------------------------------------------------------
(* The classifier                                                          *)

(* Mutant: the sentinel is compared, not searched for.                     *)
FromSentinel_Compared(e) == e.is = "ErrAllProxiesBlocked"

(* Tier 1 on sight, tiers 2 and 3 only with proxy context.                 *)
Tiered(says) ==
  \/ ContainsAny(says, classifier.unambiguous)
  \/ /\ ContainsAny(says, classifier.contextual)
     /\ \/ ContainsAny(says, classifier.ambiguous)
        \/ ContainsAny(says, classifier.blocking)

FromSentinel(e) == IsAllBlocked(e)

IsTransient(e) == e # Nil /\ (FromSentinel(e) \/ Tiered(e.says))

Classify ==
  /\ pc = "returned"
  /\ transient' = IsTransient(err)
  /\ pc' = "classified"
  /\ UNCHANGED <<config, attempt, memory, toScan, penalised, err>>

-----------------------------------------------------------------------------
AttemptNext ==
  \/ NoSession \/ RunFn \/ JudgeError \/ JudgeResponse
  \/ LookAtHeader \/ EndScan \/ Block \/ Succeed

Next ==
  \/ Configure \/ AttemptNext \/ Retry \/ Stop \/ Interrupt \/ Return
  \/ PingFindsNoSession \/ Ping \/ Classify

Spec == Init /\ [][Next]_vars

-----------------------------------------------------------------------------
(* Properties                                                              *)

(* What the detector's header scan is asked about.                         *)
UpToHeaders ==
  /\ lastResp # Nil
  /\ lastResp.status = 404
  /\ lastResp.body = "plain"
  /\ detector.checkCFHeaders

(* Healthy traffic keeps its endpoint: an error page that nothing else     *)
(* speaks against counts against its endpoint if and only if one of its    *)
(* headers is a genuine Cloudflare header, in whatever order the map       *)
(* yields them, and never for CloudFront's.                                *)
HeadersDecide ==
  pc \in {"blocked", "clean"} /\ UpToHeaders =>
    (pc = "blocked" <=> {"cf-ray", "x-cloudflare"} \cap lastResp.header # {})

(* "An empty non-nil field disables that check": with the error patterns   *)
(* disabled no error counts against an endpoint, and with a list of status *)
(* codes without defaults, no body patterns and no header check no         *)
(* response does.                                                          *)
DisabledIsSilent ==
  penalised =>
    /\ lastErr # Nil => given.errorPatterns # {}
    /\ lastErr = Nil =>
         \/ given.bodyPatterns # {}
         \/ ~given.disableCloudflareHeaderCheck
         \/ given.statusCodes = Nil
         \/ lastResp.status \in given.statusCodes

(* The reply to a call whose last fn failed is about that failure.         *)
Foreign ==
  /\ op = "Do"
  /\ lastErr # Nil
  /\ err.is # "ErrAllProxiesBlocked"
  /\ lastResp = Nil \/ ~IsBlockedError(lastErr)

(* A failure of fn's own, a database's "connection refused" say, is not    *)
(* made a proxy blip on its way out: what is returned is transient only if *)
(* fn's error was, unless the call found no endpoint left, or the response *)
(* beside a blocked error goes out with it.                                *)
ForeignStaysForeign ==
  pc = "classified" /\ Foreign /\ transient => IsTransient(lastErr)

(* No tier is disabled or replaced.                                        *)
DefaultClassifier == \A t \in Tiers : tiers[t] = Nil

(* A call that ends with a blocked response is transient, unless its       *)
(* context ended before the next attempt, and so is one that finds every   *)
(* endpoint out of rotation before anything ran, the latter whatever tiers *)
(* are disabled.                                                           *)
BlocksAreTransient ==
  /\ lastErr = Nil /\ lastResp # Nil /\ penalised /\ DefaultClassifier
       => transient \/ err \in ContextErrors
  /\ lastErr = Nil /\ err # Nil /\ err.is = "ErrAllProxiesBlocked"
       => transient

(* A probe is proxied traffic by definition: a Ping's network failure or   *)
(* bot wall is transient.                                                  *)
PingHasContext ==
  op = "Ping" /\ DefaultClassifier =>
    /\ lastErr # Nil /\ ContainsAny(lastErr.says, DefaultAmbiguousPatterns
                                        \cup DefaultBlockingPatterns)
         => transient
    /\ err = PingStatus(403) => transient

(* A closed client's error mentions proxator and is not transient for it.  *)
ClosedIsFinal == err = Error({"proxator"}, "none") => ~transient

(* The client's own words are understood: what clears by itself is         *)
(* reported as such, and "configuration errors never resolve on their own" *)
(* nor does a closed client, although each verdict is only read out of     *)
(* the text that another file put together.                                *)
OwnWordsFit ==
  pc = "classified" => BlocksAreTransient /\ PingHasContext /\ ClosedIsFinal

(* A caller wraps the error it got before it asks: more text may make an   *)
(* error transient, never stop it from being so.                           *)
WrappingKeepsTransient ==
  pc = "classified" /\ transient =>
    \A p \in Phrases : IsTransient(Wrap({p}, err))

(* fn reports that another pool is exhausted.  The text says "blocked", so *)
(* the detector may blame the endpoint, but through the wrapping the call  *)
(* still knows not to try again.                                           *)
NestedExhaustionStops ==
  [][lastErr # Nil /\ IsAllBlocked(lastErr) => attempt' = attempt]_vars

-----------------------------------------------------------------------------
(* The inductive invariant                                                 *)

Configured ==
  pc # "configuring" => given \in DetectorConfigs /\ tiers \in TransientConfigs

(* What the detector makes of a response in the end.                       *)
GenuineHeaders(resp) == {"cf-ray", "x-cloudflare"} \cap resp.header
FoundBlocked(resp) ==
  \/ BeforeHeaders(resp) = "blocked"
  \/ BeforeHeaders(resp) = "scanning" /\ GenuineHeaders(resp) # {}

(* The scan passes over no genuine header: one not looked at yet, or none. *)
ScanInOrder ==
  /\ pc \in {"scanning", "blocked", "clean"} => lastErr = Nil
  /\ pc = "scanning" => /\ lastResp # Nil
                        /\ BeforeHeaders(lastResp) = "scanning"
                        /\ GenuineHeaders(lastResp) \subseteq toScan
                        /\ toScan \subseteq lastResp.header
  /\ pc = "blocked" => lastResp # Nil /\ FoundBlocked(lastResp)
  /\ pc = "clean" => lastResp = Nil \/ ~FoundBlocked(lastResp)

(* An endpoint is blamed once the attempt is judged, for what the call     *)
(* still remembers of this very attempt.                                   *)
BlameInOrder ==
  penalised =>
    /\ pc \in {"judging", "finished", "returned", "classified"}
    /\ op = "Do"
    /\ IF lastErr # Nil THEN IsBlockedError(lastErr)
                        ELSE lastResp # Nil /\ FoundBlocked(lastResp)

(* Where the error of a call that failed came from.                        *)
Verdict ==
  \/ err \in ContextErrors
  \/ ~penalised /\ err \in {AllBlocked} \cup AcquireErrors
  \/ /\ lastErr # Nil
     /\ err = IF IsBlockedError(lastErr) THEN BlockedBy(lastErr) ELSE lastErr
  \/ /\ lastErr = Nil /\ lastResp # Nil
     /\ err = BlockedResponse(lastResp)

DoReturned ==
  \/ lastResp = Nil /\ lastErr # Nil /\ err = lastErr
  \/ (lastResp # Nil \/ lastErr = Nil) /\ Verdict
  \/ /\ lastErr = Nil /\ ~penalised
     /\ err \in {Nil, Error({"proxator", "anything"}, "none")}

PingReturned ==
  \/ lastErr = Nil /\ err \in {Nil, AllBlocked} \cup AcquireErrors
  \/ lastErr = Nil /\ \E status \in Statuses : err = PingStatus(status)
  \/ lastErr \in FnErrors /\ err = PingFailed(lastErr)

ErrorInOrder ==
  /\ pc \in {"judging", "finished"} => Verdict
  /\ pc \in {"returned", "classified"}
       => IF op = "Do" THEN DoReturned ELSE PingReturned
  /\ op = "Ping" => pc \in {"returned", "classified"}
  /\ pc = "configuring" \/ (pc = "ready" /\ attempt = 1) => lastErr = Nil
  /\ pc = "classified" => transient = IsTransient(err)

(* An attempt that ended with another pool's exhaustion was the last.      *)
Exhausted == lastErr # Nil /\ IsAllBlocked(lastErr)
ExhaustedInOrder ==
  Exhausted => pc # "ready" /\ (pc = "judging" => IsAllBlocked(err))

IInv ==
  /\ TypeOK /\ Configured /\ ScanInOrder
  /\ BlameInOrder /\ ErrorInOrder /\ ExhaustedInOrder
=============================================================================
