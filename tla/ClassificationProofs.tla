------------------------ MODULE ClassificationProofs -------------------------
(***************************************************************************)
(* Proofs about Classification, for any number of attempts.                *)
(***************************************************************************)
EXTENDS Classification, TLAPS

-----------------------------------------------------------------------------
(* Errors                                                                  *)

Errors == [says : SUBSET Phrases, is : Sentinels]

(* An error is not nil.                                                    *)
LEMMA ErrorIsNotNil == \A e \in Errors : e # Nil /\ IsError(e)
  BY NilAssumption DEF Errors, IsError

(* Every phrase an error is made of is one of the phrases.                 *)
LEMMA PhrasesAre ==
  /\ {"anything", "proxy", "proxator", "blocked", "blocking response",
      "other status", "status 403", "status 429", "all proxies are blocked"}
       \subseteq Phrases
BY DEF Phrases, DefaultErrorPatterns, DefaultUnambiguousPatterns,
       DefaultAmbiguousPatterns, DefaultBlockingPatterns,
       DefaultContextPatterns

(* Wrapping an error gives an error that says no less and for which        *)
(* errors.Is answers as before.                                            *)
LEMMA Wraps ==
  ASSUME NEW says \in SUBSET Phrases, NEW e, IsError(e)
  PROVE  /\ Wrap(says, e) \in Errors
         /\ Wrap(says, e).says = says \cup e.says
         /\ IsAllBlocked(Wrap(says, e)) <=> IsAllBlocked(e)
BY DEF Wrap, WrappedIs, Error, IsError, Errors, Sentinels, IsAllBlocked

(* What an attempt can fail with before or instead of a response.          *)
LEMMA KnownErrors ==
  /\ AllBlocked \in Errors
  /\ FnErrors \subseteq Errors
  /\ ContextErrors \subseteq Errors
  /\ AcquireErrors \subseteq Errors
<1>0. \A says \in SUBSET Phrases, is \in Sentinels :
        Error(says, is) \in Errors
  BY DEF Error, Errors
<1>1. AllBlocked \in Errors
  BY <1>0, PhrasesAre DEF AllBlocked, Sentinels
<1>2. ContextErrors \subseteq Errors
  <2>1. {"anything"} \in SUBSET Phrases
    BY PhrasesAre
  <2>2. \A is \in {"Canceled", "DeadlineExceeded"} : is \in Sentinels
    BY DEF Sentinels
  <2> QED
    BY <1>0, <2>1, <2>2 DEF ContextErrors
<1>3. AcquireErrors \subseteq Errors
  <2>1. \A p \in {"proxator", "anything"} : {p} \in SUBSET Phrases
    BY PhrasesAre
  <2>2. "none" \in Sentinels
    BY DEF Sentinels
  <2> QED
    BY <1>0, <1>2, <2>1, <2>2 DEF AcquireErrors
<1>4. Wrap({"anything"}, AllBlocked) \in Errors
  BY <1>1, PhrasesAre, ErrorIsNotNil, Wraps
<1>5. FnErrors \subseteq Errors
  <2>1. \A p \in Phrases, q \in {"anything", "proxy"} :
          {p, q} \in SUBSET Phrases
    BY PhrasesAre
  <2>2. /\ {"anything"} \in SUBSET Phrases
        /\ {"none", "Canceled"} \subseteq Sentinels
    BY PhrasesAre DEF Sentinels
  <2>3. Error({"anything"}, "Canceled") \in Errors
    BY <1>0, <2>2
  <2>4. \A p \in Phrases : /\ Error({p, "anything"}, "none") \in Errors
                           /\ Error({p, "proxy"}, "none") \in Errors
    BY <1>0, <2>1, <2>2
  <2> QED
    BY <1>1, <1>4, <2>3, <2>4 DEF FnErrors
<1> QED
  BY <1>1, <1>2, <1>3, <1>5

(* What the client says of a response, a ping, or the lack of a response.  *)
LEMMA OwnErrors ==
  /\ \A resp : BlockedResponse(resp) \in Errors
  /\ \A status : PingStatus(status) \in Errors
  /\ Error({"proxator", "anything"}, "none") \in Errors
<1>1. \A status : StatusPhrase(status) \in Phrases
  BY PhrasesAre DEF StatusPhrase
<1> QED
  BY <1>1, PhrasesAre
     DEF BlockedResponse, PingStatus, Error, Errors, Sentinels

-----------------------------------------------------------------------------
(* The lists                                                               *)

(* A tier of the caller's classifier has its defaults or is disabled.      *)
LEMMA TiersAre ==
  ASSUME tiers \in TransientConfigs
  PROVE  /\ classifier.unambiguous \in {{}, DefaultUnambiguousPatterns}
         /\ classifier.ambiguous \in {{}, DefaultAmbiguousPatterns}
         /\ classifier.blocking \in {{}, DefaultBlockingPatterns}
         /\ classifier.contextual \in {{}, DefaultContextPatterns}
         /\ DefaultClassifier =>
              /\ classifier.unambiguous = DefaultUnambiguousPatterns
              /\ classifier.ambiguous = DefaultAmbiguousPatterns
              /\ classifier.blocking = DefaultBlockingPatterns
              /\ classifier.contextual = DefaultContextPatterns
<1>1. \A t \in Tiers : tiers[t] \in {{}, Nil}
  BY DEF TransientConfigs
<1> QED
  BY <1>1 DEF classifier, NewTransientClassifierWith, Pick, Tiers,
              DefaultClassifier

(* A list of the detector is the one given, or the defaults for nil.       *)
LEMMA ListsAre ==
  ASSUME given \in DetectorConfigs
  PROVE  /\ detector.statusCodes \in {DefaultBlockedStatusCodes, {}, {200}}
         /\ given.statusCodes # Nil => detector.statusCodes = given.statusCodes
         /\ detector.bodyPatterns \in {DefaultBodyPatterns, {}, {"invalid"}}
         /\ given.bodyPatterns = {} => detector.bodyPatterns = {}
         /\ given.errorPatterns = {} => detector.errorPatterns = {}
         /\ detector.checkCFHeaders = ~given.disableCloudflareHeaderCheck
BY NilAssumption DEF detector, NewBlockDetectorWith, Pick, DetectorConfigs

-----------------------------------------------------------------------------
(* The inductive invariant                                                 *)

(* Every variable keeps its type.                                          *)
LEMMA TypeKept == IInv /\ Next => TypeOK'
<1> SUFFICES ASSUME IInv, Next PROVE TypeOK'
  OBVIOUS
<1>0. /\ given = Nil \/ given \in DetectorConfigs
      /\ tiers = Nil \/ tiers \in TransientConfigs
      /\ op \in {"Do", "Ping"} /\ pc \in Steps /\ attempt \in 1..MaxAttempts
      /\ lastResp = Nil \/ lastResp \in Responses
      /\ lastErr = Nil \/ IsError(lastErr)
      /\ toScan \in SUBSET Headers /\ penalised \in BOOLEAN
      /\ err = Nil \/ IsError(err)
      /\ transient \in BOOLEAN /\ MaxAttempts \in Nat
  BY AttemptsAssumption DEF IInv, TypeOK
<1> USE DEF Steps
<1>1. CASE Configure
  BY <1>0, <1>1 DEF TypeOK, Configure, memory
<1>2. ASSUME err' \in {AllBlocked} \cup AcquireErrors PROVE IsError(err')
  BY <1>2, KnownErrors, ErrorIsNotNil
<1>3. CASE NoSession
  BY <1>0, <1>2, <1>3 DEF TypeOK, NoSession, config, memory
<1>4. CASE RunFn
  <2>1. lastErr' = Nil \/ IsError(lastErr')
    BY <1>4, KnownErrors, ErrorIsNotNil DEF RunFn
  <2>2. [status |-> 200, body |-> "plain", header |-> {}] \in Responses
    BY DEF Responses, Statuses, Bodies
  <2>3. lastResp' = Nil \/ lastResp' \in Responses
    BY <1>4, <2>2 DEF RunFn
  <2> QED
    BY <1>0, <1>4, <2>1, <2>3 DEF TypeOK, RunFn, config
<1>5. CASE JudgeError
  <2>1. IsError(lastErr)
    BY <1>0, <1>5 DEF JudgeError
  <2>2. IsError(BlockedBy(lastErr))
    BY <2>1, PhrasesAre, Wraps, ErrorIsNotNil DEF BlockedBy
  <2>3. penalised' \in BOOLEAN
    BY <1>5 DEF JudgeError, IsBlockedError, ContainsAny
  <2> QED
    BY <1>0, <1>5, <2>1, <2>2, <2>3 DEF TypeOK, JudgeError, config, memory
<1>6. CASE JudgeResponse
  <2>1. pc' \in Steps
    BY <1>6 DEF JudgeResponse, BeforeHeaders
  <2>2. toScan' \in SUBSET Headers
    <3>1. pc' = "scanning" => lastResp # Nil
      BY <1>6 DEF JudgeResponse
    <3>2. lastResp # Nil => lastResp.header \in SUBSET Headers
      BY <1>0 DEF Responses
    <3> QED
      BY <1>6, <3>1, <3>2 DEF JudgeResponse
  <2> QED
    BY <1>0, <1>6, <2>1, <2>2 DEF TypeOK, JudgeResponse, config, memory
<1>7. CASE LookAtHeader
  BY <1>0, <1>7 DEF TypeOK, LookAtHeader, OtherHeader, config, memory
<1>8. CASE EndScan
  BY <1>0, <1>8 DEF TypeOK, EndScan, config, memory
<1>9. CASE Block
  <2>1. IsError(BlockedResponse(lastResp))
    BY OwnErrors, ErrorIsNotNil
  <2> QED
    BY <1>0, <1>9, <2>1 DEF TypeOK, Block, config, memory
<1>10. CASE Succeed
  <2>1. IsError(Error({"proxator", "anything"}, "none"))
    BY OwnErrors, ErrorIsNotNil
  <2> QED
    BY <1>0, <1>10, <2>1 DEF TypeOK, Succeed, config, memory
<1>11. CASE Retry
  <2>1. attempt < MaxAttempts /\ attempt' = attempt + 1
    BY <1>11 DEF Retry, Retriable
  <2>2. attempt' \in 1..MaxAttempts
    BY <1>0, <2>1
  <2>3. /\ UNCHANGED <<given, tiers, op, lastResp, lastErr, transient>>
        /\ penalised' = FALSE /\ toScan' = {} /\ err' = Nil /\ pc' = "ready"
    BY <1>11 DEF Retry, config, memory
  <2> QED
    BY <1>0, <2>2, <2>3 DEF TypeOK
<1>12. CASE Stop
  BY <1>0, <1>12 DEF TypeOK, Stop, config, memory
<1>13. CASE Interrupt
  <2>1. IsError(err')
    BY <1>13, KnownErrors, ErrorIsNotNil DEF Interrupt
  <2> QED
    BY <1>0, <1>13, <2>1 DEF TypeOK, Interrupt, config, memory
<1>14. CASE Return
  BY <1>0, <1>14 DEF TypeOK, Return, Explained, config, memory
<1>15. CASE PingFindsNoSession
  BY <1>0, <1>2, <1>15 DEF TypeOK, PingFindsNoSession, memory
<1>16. CASE Ping
  <2>1. \A e \in FnErrors : IsError(e) /\ IsError(PingFailed(e))
    BY KnownErrors, ErrorIsNotNil, PhrasesAre, Wraps DEF PingFailed
  <2>2. \A status : IsError(PingStatus(status))
    BY OwnErrors, ErrorIsNotNil
  <2>3. /\ lastErr' = Nil \/ IsError(lastErr')
        /\ err' = Nil \/ IsError(err')
    BY <1>16, <2>1, <2>2 DEF Ping
  <2>4. /\ UNCHANGED <<given, tiers, attempt, toScan, penalised, transient>>
        /\ lastResp' = Nil /\ op' = "Ping" /\ pc' = "returned"
    BY <1>16 DEF Ping
  <2> QED
    BY <1>0, <2>3, <2>4 DEF TypeOK
<1>17. CASE Classify
  <2>1. transient' \in BOOLEAN
    BY <1>17 DEF Classify, IsTransient, FromSentinel, IsAllBlocked, Tiered,
                 ContainsAny
  <2> QED
    BY <1>0, <1>17, <2>1 DEF TypeOK, Classify, config, memory
<1> QED
  BY <1>1, <1>3, <1>4, <1>5, <1>6, <1>7, <1>8, <1>9, <1>10, <1>11, <1>12,
     <1>13, <1>14, <1>15, <1>16, <1>17 DEF Next, AttemptNext

(* The configuration is made once.                                         *)
LEMMA ConfiguredKept == IInv /\ Next => Configured'
BY DEF IInv, Configured, Next, AttemptNext, Configure, NoSession, RunFn,
       JudgeError, JudgeResponse, LookAtHeader, EndScan, Block, Succeed,
       Retry, Stop, Interrupt, Return, PingFindsNoSession, Ping, Classify,
       config

(* What the detector makes of the response does not change, nor what it    *)
(* makes of the error, while both and the configuration are the same.      *)
LEMMA SameJudgement ==
  ASSUME UNCHANGED <<given, lastResp, lastErr>>
  PROVE  /\ FoundBlocked(lastResp)' <=> FoundBlocked(lastResp)
         /\ BeforeHeaders(lastResp)' = BeforeHeaders(lastResp)
         /\ GenuineHeaders(lastResp)' = GenuineHeaders(lastResp)
         /\ IsBlockedError(lastErr)' <=> IsBlockedError(lastErr)
BY DEF FoundBlocked, BeforeHeaders, GenuineHeaders, IsBlockedError,
       ContainsAny, detector

(* The scan drops only headers that say nothing.                           *)
LEMMA ScanKept == IInv /\ Next => ScanInOrder'
<1> SUFFICES ASSUME IInv, Next PROVE ScanInOrder'
  OBVIOUS
<1>0. ScanInOrder
  BY DEF IInv
<1>1. CASE JudgeResponse
  <2>1. UNCHANGED <<given, lastResp, lastErr>> /\ lastErr = Nil
    BY <1>1 DEF JudgeResponse, config, memory
  <2>2. CASE lastResp = Nil
    BY <1>1, <2>1, <2>2 DEF JudgeResponse, ScanInOrder
  <2>3. CASE lastResp # Nil
    <3>1. /\ pc' = BeforeHeaders(lastResp)
          /\ pc' = "scanning" => toScan' = lastResp.header
      BY <1>1, <2>3 DEF JudgeResponse
    <3>2. pc' = "blocked" => FoundBlocked(lastResp)
      BY <3>1 DEF FoundBlocked
    <3>3. pc' = "clean" => ~FoundBlocked(lastResp)
      BY <3>1 DEF FoundBlocked
    <3>4. GenuineHeaders(lastResp) \subseteq lastResp.header
      BY DEF GenuineHeaders
    <3> QED
      BY <2>1, <2>3, <3>1, <3>2, <3>3, <3>4, SameJudgement DEF ScanInOrder
  <2> QED
    BY <2>2, <2>3
<1>2. CASE LookAtHeader
  <2>1. /\ UNCHANGED <<given, lastResp, lastErr>> /\ lastErr = Nil
        /\ lastResp # Nil /\ BeforeHeaders(lastResp) = "scanning"
        /\ GenuineHeaders(lastResp) \subseteq toScan
        /\ toScan \subseteq lastResp.header
    BY <1>0, <1>2 DEF LookAtHeader, ScanInOrder, config, memory
  <2>2. PICK key \in toScan :
          /\ toScan' = toScan \ {key}
          /\ pc' = IF IsCloudflareHeader(key) THEN "blocked" ELSE "scanning"
    BY <1>2 DEF LookAtHeader, OtherHeader
  <2>3. CASE IsCloudflareHeader(key)
    <3>1. key \in GenuineHeaders(lastResp)
      BY <2>1, <2>3 DEF IsCloudflareHeader, GenuineHeaders
    <3> QED
      BY <2>1, <2>2, <2>3, <3>1, SameJudgement DEF ScanInOrder, FoundBlocked
  <2>4. CASE ~IsCloudflareHeader(key)
    <3>1. key \notin GenuineHeaders(lastResp)
      BY <2>4 DEF IsCloudflareHeader, GenuineHeaders, CloudFrontHeaders
    <3> QED
      BY <2>1, <2>2, <2>4, <3>1, SameJudgement DEF ScanInOrder
  <2> QED
    BY <2>3, <2>4
<1>3. CASE EndScan
  <2>1. /\ UNCHANGED <<given, lastResp, lastErr>> /\ lastErr = Nil
        /\ BeforeHeaders(lastResp) = "scanning" /\ pc' = "clean"
        /\ GenuineHeaders(lastResp) = {}
    BY <1>0, <1>3 DEF EndScan, ScanInOrder, config, memory
  <2> QED
    BY <2>1, SameJudgement DEF ScanInOrder, FoundBlocked
<1>4. CASE pc' \notin {"scanning", "blocked", "clean"}
  BY <1>4 DEF ScanInOrder
<1>5. CASE Configure \/ NoSession \/ RunFn \/ JudgeError \/ Block \/ Succeed
             \/ Retry \/ Stop \/ Interrupt \/ Return
             \/ PingFindsNoSession \/ Ping \/ Classify
  BY <1>4, <1>5 DEF Configure, NoSession, RunFn, JudgeError, Block, Succeed,
     Retry, Stop, Interrupt, Return, PingFindsNoSession, Ping, Classify
<1> QED
  BY <1>1, <1>2, <1>3, <1>5 DEF Next, AttemptNext

(* An endpoint is blamed for what the call still remembers.                *)
LEMMA BlameKept == IInv /\ Next => BlameInOrder'
<1> SUFFICES ASSUME IInv, Next, penalised' PROVE BlameInOrder'
  BY DEF BlameInOrder
<1> DEFINE Late == {"judging", "finished", "returned", "classified"}
           Reason == IF lastErr # Nil THEN IsBlockedError(lastErr)
                     ELSE lastResp # Nil /\ FoundBlocked(lastResp)
<1>0. /\ penalised => pc \in Late /\ op = "Do" /\ Reason
      /\ op = "Ping" => pc \in {"returned", "classified"}
      /\ op \in {"Do", "Ping"} /\ penalised \in BOOLEAN
  BY DEF IInv, BlameInOrder, ErrorInOrder, TypeOK
<1>1. CASE JudgeError
  <2>1. /\ UNCHANGED <<given, lastResp, lastErr>> /\ lastErr # Nil
        /\ IsBlockedError(lastErr) /\ pc' = "judging" /\ op' = "Do"
    BY <1>0, <1>1 DEF JudgeError, config, memory
  <2> QED
    BY <2>1, SameJudgement DEF BlameInOrder
<1>2. CASE Block
  <2>1. /\ UNCHANGED <<given, lastResp, lastErr>> /\ lastErr = Nil
        /\ lastResp # Nil /\ FoundBlocked(lastResp)
        /\ pc' = "judging" /\ op' = "Do"
    BY <1>0, <1>2 DEF Block, config, memory, IInv, ScanInOrder
  <2> QED
    BY <2>1, SameJudgement DEF BlameInOrder
<1>3. CASE Stop \/ Interrupt \/ Return \/ Classify
  <2>1. /\ UNCHANGED <<given, op, lastResp, lastErr, penalised>>
        /\ pc' \in Late
    BY <1>3 DEF Stop, Interrupt, Return, Classify, config, memory
  <2>2. Reason /\ op = "Do"
    BY <1>0, <2>1
  <2> QED
    BY <2>1, <2>2, SameJudgement DEF BlameInOrder
<1>4. CASE Configure \/ NoSession \/ RunFn \/ JudgeResponse \/ LookAtHeader
             \/ EndScan \/ Succeed \/ PingFindsNoSession \/ Ping
  <2>1. penalised' = penalised /\ pc \notin Late
    BY <1>4 DEF Configure, NoSession, RunFn, JudgeResponse, LookAtHeader,
       EndScan, Succeed, PingFindsNoSession, Ping
  <2> QED
    BY <1>0, <2>1
<1>5. CASE Retry
  BY <1>5 DEF Retry
<1> QED
  BY <1>1, <1>2, <1>3, <1>4, <1>5 DEF Next, AttemptNext

(* The exhaustion of another pool ends the attempts.                       *)
LEMMA ExhaustedKept == IInv /\ Next => ExhaustedInOrder'
<1> SUFFICES ASSUME IInv, Next, Exhausted' PROVE ExhaustedInOrder'
  BY DEF ExhaustedInOrder
<1>0. /\ Exhausted => pc # "ready" /\ (pc = "judging" => IsAllBlocked(err))
      /\ lastErr = Nil \/ IsError(lastErr)
  BY DEF IInv, ExhaustedInOrder, TypeOK
<1>1. CASE Configure
  <2>1. lastErr = Nil /\ lastErr' = Nil
    BY <1>1 DEF Configure, memory, IInv, ErrorInOrder
  <2> QED
    BY <2>1 DEF Exhausted
<1>2. CASE NoSession
  <2>1. pc = "ready" /\ lastErr' = lastErr
    BY <1>2 DEF NoSession, memory
  <2> QED
    BY <1>0, <2>1 DEF Exhausted, IsAllBlocked
<1>3. CASE JudgeError
  <2>1. lastErr # Nil /\ lastErr' = lastErr /\ pc' = "judging"
        /\ err' = IF IsBlockedError(lastErr) THEN BlockedBy(lastErr)
                                             ELSE lastErr
    BY <1>3 DEF JudgeError, memory
  <2>2. IsAllBlocked(lastErr)
    BY <2>1 DEF Exhausted, IsAllBlocked
  <2>3. IsAllBlocked(BlockedBy(lastErr))
    BY <1>0, <2>1, <2>2, PhrasesAre, Wraps DEF BlockedBy
  <2> QED
    BY <2>1, <2>2, <2>3 DEF ExhaustedInOrder, IsAllBlocked
<1>4. CASE Block
  BY <1>4 DEF Block, memory, IInv, ScanInOrder, Exhausted
<1>5. CASE Retry
  <2>1. pc = "judging" /\ lastErr' = lastErr /\ ~IsAllBlocked(err)
    BY <1>5 DEF Retry, Retriable, memory
  <2> QED
    BY <1>0, <2>1 DEF Exhausted, IsAllBlocked
<1>6. CASE pc' \notin {"ready", "judging"}
  BY <1>6 DEF ExhaustedInOrder
<1>7. CASE RunFn \/ JudgeResponse \/ LookAtHeader \/ EndScan \/ Succeed
             \/ Stop \/ Interrupt \/ Return \/ PingFindsNoSession \/ Ping
             \/ Classify
  BY <1>6, <1>7 DEF RunFn, JudgeResponse, BeforeHeaders, LookAtHeader,
     OtherHeader, EndScan, Succeed, Stop, Interrupt, Return,
     PingFindsNoSession, Ping, Classify
<1> QED
  BY <1>1, <1>2, <1>3, <1>4, <1>5, <1>7 DEF Next, AttemptNext

(* While the call remembers the same of the attempt, so does its error.    *)
LEMMA SameVerdict ==
  ASSUME UNCHANGED <<given, lastResp, lastErr, penalised, err>>
  PROVE  Verdict' <=> Verdict
<1>1. IsBlockedError(lastErr)' <=> IsBlockedError(lastErr)
  BY SameJudgement
<1>2. /\ BlockedBy(lastErr)' = BlockedBy(lastErr)
      /\ BlockedResponse(lastResp)' = BlockedResponse(lastResp)
  OBVIOUS
<1> QED
  BY <1>1, <1>2 DEF Verdict

(* Every error is accounted for, up to what the classifier says of it.     *)
LEMMA ErrorKept == IInv /\ Next => ErrorInOrder'
<1> SUFFICES ASSUME IInv, Next PROVE ErrorInOrder'
  OBVIOUS
<1>0. /\ TypeOK /\ ScanInOrder /\ BlameInOrder
      /\ op \in {"Do", "Ping"}
      /\ pc \in {"judging", "finished"} => Verdict
      /\ pc \in {"returned", "classified"}
           => IF op = "Do" THEN DoReturned ELSE PingReturned
      /\ op = "Ping" => pc \in {"returned", "classified"}
      /\ pc = "configuring" \/ (pc = "ready" /\ attempt = 1) => lastErr = Nil
  BY DEF IInv, ErrorInOrder, TypeOK
<1> DEFINE Working == {"refused", "ran", "scanning", "blocked", "clean"}
<1>1. ASSUME pc' \in Working, op' = "Do" PROVE ErrorInOrder'
  BY <1>1 DEF ErrorInOrder
<1>2. ASSUME pc' \in {"judging", "finished"}, op' = "Do", Verdict'
      PROVE  ErrorInOrder'
  BY <1>2 DEF ErrorInOrder
<1>3. ASSUME pc' = "returned", op' = "Do", DoReturned' PROVE ErrorInOrder'
  BY <1>3 DEF ErrorInOrder
<1>4. ASSUME pc' = "returned", op' = "Ping", PingReturned' PROVE ErrorInOrder'
  BY <1>4 DEF ErrorInOrder
<1>5. CASE Configure
  <2>1. op' = "Do" /\ lastErr' = Nil /\ pc' \in {"refused", "ready"}
    BY <1>0, <1>5 DEF Configure, memory
  <2> QED
    BY <2>1 DEF ErrorInOrder
<1>6. CASE NoSession
  <2>1. op' = "Do" /\ pc' = "judging" /\ ~penalised'
        /\ err' \in {AllBlocked} \cup AcquireErrors
    BY <1>0, <1>6 DEF NoSession, BlameInOrder, config
  <2> QED
    BY <1>2, <2>1 DEF Verdict
<1>7. CASE RunFn \/ JudgeResponse \/ LookAtHeader \/ EndScan
  <2>1. op' = "Do" /\ pc' \in Working
    BY <1>0, <1>7 DEF RunFn, JudgeResponse, BeforeHeaders, LookAtHeader,
       OtherHeader, EndScan, config
  <2> QED
    BY <1>1, <2>1
<1>8. CASE JudgeError
  <2>1. /\ op' = "Do" /\ pc' = "judging" /\ lastErr # Nil
        /\ UNCHANGED <<given, lastResp, lastErr>>
        /\ err' = IF IsBlockedError(lastErr) THEN BlockedBy(lastErr)
                                             ELSE lastErr
    BY <1>0, <1>8 DEF JudgeError, config, memory
  <2>2. BlockedBy(lastErr)' = BlockedBy(lastErr)
    BY <2>1
  <2>3. Verdict'
    BY <2>1, <2>2, SameJudgement DEF Verdict
  <2> QED
    BY <1>2, <2>1, <2>3
<1>9. CASE Block
  <2>1. /\ op' = "Do" /\ pc' = "judging" /\ lastErr' = Nil
        /\ lastResp # Nil /\ lastResp' = lastResp
        /\ err' = BlockedResponse(lastResp)
    BY <1>0, <1>9 DEF Block, config, memory, ScanInOrder
  <2>2. BlockedResponse(lastResp)' = BlockedResponse(lastResp)
    BY <2>1
  <2> QED
    BY <1>2, <2>1, <2>2 DEF Verdict
<1>10. CASE Succeed
  <2>1. op' = "Do" /\ pc' = "returned" /\ lastErr' = Nil /\ ~penalised'
    BY <1>0, <1>10 DEF Succeed, config, memory, ScanInOrder, BlameInOrder
  <2>2. err' \in {Nil, Error({"proxator", "anything"}, "none")}
    BY <1>10 DEF Succeed
  <2> QED
    BY <1>3, <2>1, <2>2 DEF DoReturned
<1>11. CASE Retry
  <2>1. op' = "Do" /\ pc' = "ready" /\ attempt' # 1
    <3>1. attempt \in Nat \ {0}
      BY <1>0, AttemptsAssumption DEF TypeOK
    <3> QED
      BY <1>0, <1>11, <3>1 DEF Retry, config
  <2> QED
    BY <2>1 DEF ErrorInOrder
<1>12. CASE Stop
  <2>1. /\ op' = "Do" /\ pc' = "finished" /\ Verdict
        /\ UNCHANGED <<given, lastResp, lastErr, penalised, err>>
    BY <1>0, <1>12 DEF Stop, config, memory
  <2> QED
    BY <1>2, <2>1, SameVerdict
<1>13. CASE Interrupt
  <2>1. op' = "Do" /\ pc' = "finished" /\ err' \in ContextErrors
    BY <1>0, <1>13 DEF Interrupt, config
  <2> QED
    BY <1>2, <2>1 DEF Verdict
<1>14. CASE Return
  <2>1. /\ op' = "Do" /\ pc' = "returned" /\ Verdict
        /\ UNCHANGED <<given, lastResp, lastErr, penalised>>
        /\ err' = IF lastResp = Nil /\ lastErr # Nil THEN lastErr ELSE err
    BY <1>0, <1>14 DEF Return, Explained, config, memory
  <2>2. CASE lastResp = Nil /\ lastErr # Nil
    BY <1>3, <2>1, <2>2 DEF DoReturned
  <2>3. CASE ~(lastResp = Nil /\ lastErr # Nil)
    BY <1>3, <2>1, <2>3, SameVerdict DEF DoReturned
  <2> QED
    BY <2>2, <2>3
<1>15. CASE PingFindsNoSession
  <2>1. /\ op' = "Ping" /\ pc' = "returned" /\ lastErr' = Nil
        /\ err' \in {AllBlocked} \cup AcquireErrors
    BY <1>0, <1>15 DEF PingFindsNoSession, memory
  <2> QED
    BY <1>4, <2>1 DEF PingReturned
<1>16. CASE Ping
  <2>1. op' = "Ping" /\ pc' = "returned"
    BY <1>16 DEF Ping
  <2>2. CASE \E e \in FnErrors : lastErr' = e /\ err' = PingFailed(e)
    BY <1>4, <2>1, <2>2 DEF PingReturned, PingFailed
  <2>3. CASE /\ lastErr' = Nil
             /\ \E status \in Statuses :
                  err' = IF status \in 200..399 THEN Nil
                                                ELSE PingStatus(status)
    BY <1>4, <2>1, <2>3 DEF PingReturned
  <2> QED
    BY <1>16, <2>2, <2>3 DEF Ping
<1>17. CASE Classify
  <2>1. /\ UNCHANGED <<given, tiers, op, lastResp, lastErr, penalised, err>>
        /\ pc = "returned" /\ pc' = "classified"
        /\ transient' = IsTransient(err)
    BY <1>17 DEF Classify, config, memory
  <2>2. op = "Do" => DoReturned'
    BY <1>0, <2>1, SameVerdict DEF DoReturned
  <2>3. op # "Do" => PingReturned'
    BY <1>0, <2>1 DEF PingReturned
  <2>4. IsTransient(err)' = IsTransient(err)
    BY <2>1 DEF IsTransient, Tiered, classifier
  <2>5. transient' = IsTransient(err)'
    BY <2>1, <2>4, Zenon
  <2> QED
    BY <2>1, <2>2, <2>3, <2>5, Zenon DEF ErrorInOrder
<1> QED
  BY <1>5, <1>6, <1>7, <1>8, <1>9, <1>10, <1>11, <1>12, <1>13, <1>14, <1>15,
     <1>16, <1>17 DEF Next, AttemptNext

(* Nothing has been given, run or said.                                    *)
LEMMA Initially == Init => IInv
<1> SUFFICES ASSUME Init PROVE IInv
  OBVIOUS
<1>0. 1 \in 1..MaxAttempts
  BY AttemptsAssumption
<1>1. TypeOK
  BY <1>0 DEF Init, TypeOK, Steps
<1> QED
  BY <1>1 DEF Init, IInv, Configured, ScanInOrder, BlameInOrder, ErrorInOrder,
              ExhaustedInOrder, Exhausted

(* The inductive invariant holds throughout.                               *)
THEOREM Invariant == Spec => []IInv
<1>1. IInv /\ [Next]_vars => IInv'
  <2> SUFFICES ASSUME IInv, [Next]_vars PROVE IInv'
    OBVIOUS
  <2>1. CASE Next
    BY <2>1, TypeKept, ConfiguredKept, ScanKept, BlameKept, ErrorKept,
       ExhaustedKept DEF IInv
  <2>2. CASE UNCHANGED vars
    <3>1. UNCHANGED <<given, tiers, op, pc, attempt, lastResp, lastErr,
                      toScan, penalised, err, transient>>
      BY <2>2 DEF vars, config, memory
    <3>2. TypeOK' /\ Configured' /\ ExhaustedInOrder'
      BY <3>1 DEF IInv, TypeOK, Configured, ExhaustedInOrder, Exhausted,
                  IsAllBlocked
    <3>3. ScanInOrder' /\ BlameInOrder'
      BY <3>1, SameJudgement DEF IInv, ScanInOrder, BlameInOrder
    <3>4. IsTransient(err)' = IsTransient(err)
      BY <3>1 DEF IsTransient, Tiered, classifier
    <3>5. DoReturned' <=> DoReturned
      BY <3>1, SameVerdict DEF DoReturned
    <3>6. PingReturned' <=> PingReturned
      BY <3>1 DEF PingReturned
    <3>7. pc = "classified" => transient' = IsTransient(err)'
      BY <3>1, <3>4, Zenon DEF IInv, ErrorInOrder
    <3>8. ErrorInOrder'
      BY <3>1, <3>5, <3>6, <3>7, SameVerdict, Zenon DEF IInv, ErrorInOrder
    <3> QED
      BY <3>2, <3>3, <3>8 DEF IInv
  <2> QED
    BY <2>1, <2>2
<1> QED
  BY Initially, <1>1, PTL DEF Spec

-----------------------------------------------------------------------------
(* What follows for the detector                                           *)

(* The call's variables have their types: MaxAttempts is not exceeded.     *)
THEOREM TypeCorrect == Spec => []TypeOK
<1>1. IInv => TypeOK
  BY DEF IInv
<1> QED
  BY Invariant, <1>1, PTL

(* IsBlocked goes by the genuine Cloudflare headers alone, in whatever     *)
(* order the map yields them.                                              *)
THEOREM OrderIsIrrelevant == Spec => []HeadersDecide
<1>1. IInv => HeadersDecide
  <2> SUFFICES ASSUME IInv, pc \in {"blocked", "clean"}, UpToHeaders
               PROVE  pc = "blocked" <=>
                        {"cf-ray", "x-cloudflare"} \cap lastResp.header # {}
    BY DEF HeadersDecide
  <2>1. given \in DetectorConfigs /\ lastResp # Nil
    BY DEF IInv, Configured, UpToHeaders
  <2>2. 404 \notin detector.statusCodes
    BY <2>1, ListsAre DEF DefaultBlockedStatusCodes
  <2>3. "plain" \notin detector.bodyPatterns
    <3>1. /\ "plain" \notin {"challenge page"}
          /\ "plain" \notin {"invalid"}
      OBVIOUS
    <3>2. \/ detector.bodyPatterns = {"challenge page"}
          \/ detector.bodyPatterns = {}
          \/ detector.bodyPatterns = {"invalid"}
      BY <2>1, ListsAre DEF DefaultBodyPatterns
    <3> QED
      BY <3>1, <3>2
  <2>4. BeforeHeaders(lastResp) = "scanning"
    BY <2>2, <2>3 DEF BeforeHeaders, UpToHeaders
  <2>5. FoundBlocked(lastResp) <=> GenuineHeaders(lastResp) # {}
    BY <2>4 DEF FoundBlocked
  <2> QED
    BY <2>1, <2>5 DEF IInv, ScanInOrder, GenuineHeaders
<1> QED
  BY Invariant, <1>1, PTL

(* What NewBlockDetectorWith was told not to check counts against nobody.  *)
THEOREM DisabledCountsForNothing == Spec => []DisabledIsSilent
<1>1. IInv => DisabledIsSilent
  <2> SUFFICES ASSUME IInv, penalised PROVE DisabledIsSilent
    BY DEF DisabledIsSilent
  <2>1. /\ given \in DetectorConfigs
        /\ lastErr # Nil => IsBlockedError(lastErr)
        /\ lastErr = Nil => FoundBlocked(lastResp)
    BY DEF IInv, Configured, BlameInOrder
  <2>2. lastErr # Nil => given.errorPatterns # {}
    BY <2>1, ListsAre DEF IsBlockedError, ContainsAny
  <2>3. FoundBlocked(lastResp) => \/ lastResp.status \in detector.statusCodes
                                 \/ lastResp.body \in detector.bodyPatterns
                                 \/ detector.checkCFHeaders
    BY DEF FoundBlocked, BeforeHeaders
  <2> QED
    BY <2>1, <2>2, <2>3, ListsAre DEF DisabledIsSilent
<1> QED
  BY Invariant, <1>1, PTL

-----------------------------------------------------------------------------
(* What follows for the classifier                                         *)

(* More text never makes an error less transient.                          *)
LEMMA TextAdds ==
  ASSUME NEW says, NEW more
  PROVE  Tiered(says) => Tiered(more \cup says)
BY DEF Tiered, ContainsAny

(* What the client says when it cannot begin an attempt is not transient.  *)
LEMMA AcquiringIsFinal ==
  ASSUME tiers \in TransientConfigs, NEW e \in AcquireErrors
  PROVE  ~IsTransient(e)
<1>1. /\ e.says \in {{"proxator"}, {"anything"}}
      /\ e.is \in {"none", "Canceled", "DeadlineExceeded"}
  BY DEF AcquireErrors, ContextErrors, Error
<1>2. {"proxator", "anything"} \cap (DefaultUnambiguousPatterns
        \cup DefaultAmbiguousPatterns \cup DefaultBlockingPatterns) = {}
  BY DEF DefaultUnambiguousPatterns, DefaultAmbiguousPatterns,
         DefaultBlockingPatterns
<1>3. ~Tiered(e.says)
  BY <1>1, <1>2, TiersAre DEF Tiered, ContainsAny
<1> QED
  BY <1>1, <1>3 DEF IsTransient, FromSentinel, IsAllBlocked

(* IsTransient goes through any wrapping the caller adds.                  *)
THEOREM WrappedStaysTransient == Spec => []WrappingKeepsTransient
<1>1. IInv => WrappingKeepsTransient
  <2> SUFFICES ASSUME IInv, pc = "classified", transient, NEW p \in Phrases
               PROVE  IsTransient(Wrap({p}, err))
    BY DEF WrappingKeepsTransient
  <2>1. err # Nil /\ (FromSentinel(err) \/ Tiered(err.says))
    BY DEF IInv, ErrorInOrder, IsTransient
  <2>2. IsError(err)
    BY <2>1 DEF IInv, TypeOK
  <2>3. /\ Wrap({p}, err) \in Errors
        /\ Wrap({p}, err).says = {p} \cup err.says
        /\ IsAllBlocked(Wrap({p}, err)) <=> IsAllBlocked(err)
    BY <2>2, Wraps
  <2>4. Tiered(err.says) => Tiered({p} \cup err.says)
    BY TextAdds
  <2> QED
    BY <2>1, <2>3, <2>4, ErrorIsNotNil DEF IsTransient, FromSentinel
<1> QED
  BY Invariant, <1>1, PTL

(* DoForDomain returns the error of the last fn as it came, or one of its  *)
(* own, which is transient only if no endpoint was left.                   *)
THEOREM ForeignIsLeftAlone == Spec => []ForeignStaysForeign
<1>1. IInv => ForeignStaysForeign
  <2> SUFFICES ASSUME IInv, pc = "classified", Foreign, transient
               PROVE  IsTransient(lastErr)
    BY DEF ForeignStaysForeign
  <2>1. /\ op = "Do" /\ lastErr # Nil /\ err.is # "ErrAllProxiesBlocked"
        /\ lastResp = Nil \/ ~IsBlockedError(lastErr)
    BY DEF Foreign
  <2>2. DoReturned /\ IsTransient(err) /\ tiers \in TransientConfigs
    BY <2>1 DEF IInv, ErrorInOrder, Configured
  <2>3. CASE err = lastErr
    BY <2>2, <2>3
  <2>4. CASE lastResp # Nil /\ Verdict
    <3>1. err # AllBlocked
      <4>1. AllBlocked.is = "ErrAllProxiesBlocked"
        BY DEF AllBlocked, Error
      <4> QED
        BY <2>1, <4>1
    <3>2. err \notin AcquireErrors
      BY <2>2, AcquiringIsFinal
    <3>3. err \notin ContextErrors
      BY <3>2 DEF AcquireErrors
    <3>4. err = lastErr
      BY <2>1, <2>4, <3>1, <3>2, <3>3 DEF Verdict
    <3> QED
      BY <2>3, <3>4
  <2> QED
    BY <2>1, <2>2, <2>3, <2>4 DEF DoReturned
<1> QED
  BY Invariant, <1>1, PTL

(* The classifier understands what client.go puts into words.              *)
THEOREM OwnWordsAreUnderstood == Spec => []OwnWordsFit
<1>1. IInv => OwnWordsFit
  <2> SUFFICES ASSUME IInv, pc = "classified"
               PROVE  BlocksAreTransient /\ PingHasContext /\ ClosedIsFinal
    BY DEF OwnWordsFit
  <2>0. /\ tiers \in TransientConfigs /\ op \in {"Do", "Ping"}
        /\ transient = IsTransient(err)
        /\ op = "Do" => DoReturned
        /\ op = "Ping" => PingReturned
        /\ penalised => op = "Do"
        /\ lastErr = Nil \/ IsError(lastErr)
    BY DEF IInv, ErrorInOrder, Configured, TypeOK, BlameInOrder
  <2>1. BlocksAreTransient
    <3>1. ASSUME lastErr = Nil, lastResp # Nil, penalised, DefaultClassifier
          PROVE  transient \/ err \in ContextErrors
      <4>1. err \in ContextErrors \/ err = BlockedResponse(lastResp)
        BY <2>0, <3>1 DEF DoReturned, Verdict
      <4>2. "blocking response" \in BlockedResponse(lastResp).says
        BY DEF BlockedResponse, Error
      <4>3. "blocking response" \in classifier.unambiguous
        BY <2>0, <3>1, TiersAre DEF DefaultUnambiguousPatterns
      <4>4. IsTransient(BlockedResponse(lastResp))
        BY <4>2, <4>3, OwnErrors, ErrorIsNotNil
           DEF IsTransient, Tiered, ContainsAny
      <4> QED
        BY <2>0, <4>1, <4>4
    <3>2. ASSUME err # Nil, err.is = "ErrAllProxiesBlocked" PROVE transient
      BY <2>0, <3>2 DEF IsTransient, FromSentinel, IsAllBlocked
    <3> QED
      BY <3>1, <3>2 DEF BlocksAreTransient
  <2>2. PingHasContext
    <3> SUFFICES ASSUME op = "Ping", DefaultClassifier
                 PROVE  /\ lastErr # Nil /\ ContainsAny(lastErr.says,
                                DefaultAmbiguousPatterns
                                  \cup DefaultBlockingPatterns) => transient
                        /\ err = PingStatus(403) => transient
      BY DEF PingHasContext
    <3>1. /\ classifier.ambiguous = DefaultAmbiguousPatterns
          /\ classifier.blocking = DefaultBlockingPatterns
          /\ {"proxy", "proxator"} \subseteq classifier.contextual
      BY <2>0, TiersAre DEF DefaultContextPatterns
    <3>2. ASSUME lastErr # Nil, ContainsAny(lastErr.says,
                   DefaultAmbiguousPatterns \cup DefaultBlockingPatterns)
          PROVE  transient
      <4>1. lastErr \in FnErrors /\ err = PingFailed(lastErr)
        BY <2>0, <3>2 DEF PingReturned
      <4>2. err \in Errors /\ err.says = {"proxy"} \cup lastErr.says
        BY <2>0, <3>2, <4>1, PhrasesAre, Wraps DEF PingFailed
      <4>3. Tiered(err.says)
        BY <3>1, <3>2, <4>2 DEF Tiered, ContainsAny
      <4> QED
        BY <2>0, <4>2, <4>3, ErrorIsNotNil DEF IsTransient
    <3>3. ASSUME err = PingStatus(403) PROVE transient
      <4>0. StatusPhrase(403) = "status 403"
        BY DEF StatusPhrase
      <4>1. err \in Errors /\ err.says = {"proxator", "status 403"}
        BY <3>3, <4>0, OwnErrors DEF PingStatus, Error
      <4>2. "status 403" \in DefaultBlockingPatterns
        BY DEF DefaultBlockingPatterns
      <4>3. Tiered(err.says)
        BY <3>1, <4>1, <4>2 DEF Tiered, ContainsAny
      <4> QED
        BY <2>0, <4>1, <4>3, ErrorIsNotNil DEF IsTransient
    <3> QED
      BY <3>2, <3>3
  <2>3. ClosedIsFinal
    <3>1. Error({"proxator"}, "none") \in AcquireErrors
      BY DEF AcquireErrors
    <3>2. err = Error({"proxator"}, "none") => ~IsTransient(err)
      BY <2>0, <3>1, AcquiringIsFinal
    <3> QED
      BY <2>0, <3>2 DEF ClosedIsFinal
  <2> QED
    BY <2>1, <2>2, <2>3
<1> QED
  BY Invariant, <1>1, PTL

-----------------------------------------------------------------------------
(* What follows for the attempts                                           *)

(* RetryIf finds the sentinel of another pool in what blockedBy wrapped,   *)
(* and no attempt follows.                                                 *)
THEOREM NestedExhaustionIsFinal == Spec => NestedExhaustionStops
<1>1. IInv /\ [Next]_vars
        => [lastErr # Nil /\ IsAllBlocked(lastErr) => attempt' = attempt]_vars
  <2> SUFFICES ASSUME IInv, Next, Exhausted PROVE attempt' = attempt
    BY DEF Exhausted
  <2>1. ~Retry
    BY DEF IInv, ExhaustedInOrder, Retry, Retriable
  <2> QED
    BY <2>1 DEF Next, AttemptNext, Configure, NoSession, RunFn, JudgeError,
       JudgeResponse, LookAtHeader, EndScan, Block, Succeed, Stop, Interrupt,
       Return, PingFindsNoSession, Ping, Classify
<1> QED
  BY Invariant, <1>1, PTL DEF Spec, NestedExhaustionStops
=============================================================================
