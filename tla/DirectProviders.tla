--------------------------- MODULE DirectProviders ---------------------------
(***************************************************************************)
(* The two implementations of IKycProvider, which process a document while *)
(* the caller waits: MockRegulaProvider, the one that the application      *)
(* registers, after a delay; RegulaProvider at once.  Both keep their      *)
(* sessions in a Map of the process.  Their random choices are             *)
(* nondeterministic.                                                       *)
(*                                                                         *)
(* Of a result the module keeps the verdict, its confidence, the risk, the *)
(* check of the machine-readable zone and whether there is a biometric     *)
(* part; extracted data, RFID and light sources decide nothing.            *)
(***************************************************************************)
EXTENDS Integers, KycProviders, VerificationStatus

CONSTANTS
  SessionIds,        \* ids that the providers generate
  DocumentRequests,  \* requests of an instance
  Absent               \* no session, not given

Implementations == {"MockRegulaProvider", "RegulaProvider"}

Contracts == [p \in Implementations |->
  IF p = "RegulaProvider" THEN RegulaProvider ELSE MockRegulaProvider]

\* metadata.simulate: a verdict, a failure rate above 0, a defect (of two, the
\* one that is looked at first), and a confidence: any number that a caller
\* puts into customProperties, which are only checked to be an object.
Simulation ==
  [forceStatus : {"passed", "failed", Absent}, failureRate : BOOLEAN,
   defect : {"poorImageQuality", "expiredDocument", Absent},
   confidence : Int \cup {Absent}]

DocumentRequest ==
  [method : {"direct", "external_link"}, front : BOOLEAN, selfie : BOOLEAN,
   type : {"document", "biometric", "comprehensive"},
   simulate : Simulation \cup {Absent}]

Result ==
  [status : {"passed", "failed"}, confidence : Int,
   riskLevel : {"low", "medium", "high"},
   validity : {"passed", "failed", Absent}, biometric : BOOLEAN]

DocumentSession == [status : Status, result : Result]

ASSUME ProvidersAssumption ==
  /\ DocumentRequests \subseteq DocumentRequest
  /\ Absent \notin Simulation \cup DocumentRequest \cup DocumentSession
  /\ Absent \notin Status /\ Absent \notin Int

VARIABLES
  verifications,  \* [Implementations -> [SessionIds -> session or Absent]]
  processing,     \* requests that wait for the delay of the mock
  told            \* the status last returned for a session

providerVars == <<verifications, processing, told>>

Percentage == 0..100

\* What the mock can have been asked to report.
Simulated == {r.simulate.confidence : r \in {q \in DocumentRequests : q.simulate # Absent}}

ProvidersTypeOK ==
  /\ verifications \in [Implementations -> [SessionIds -> DocumentSession \cup {Absent}]]
  /\ \A p \in Implementations, i \in SessionIds :
       verifications[p][i] # Absent =>
         verifications[p][i].result.confidence \in
           Percentage \cup IF p = "RegulaProvider" THEN {} ELSE Simulated
  /\ processing \in [SessionIds -> DocumentRequests \cup {Absent}]
  /\ told \in [Implementations -> [SessionIds -> Status \cup {Absent}]]

-----------------------------------------------------------------------------
(* Results.                                                                *)

Verdict(status, confidence, risk) ==
  [status |-> status, confidence |-> confidence, riskLevel |-> risk,
   validity |-> Absent, biometric |-> FALSE]

\* generateFailureResult, with a confidence that overrides it
Failures(confidence) ==
  {Verdict("failed", c, "high") :
     c \in IF confidence = Absent THEN 10..35 ELSE {confidence}}

\* processDocumentDirect without simulation: nine times of ten it succeeds.
Unforced(request) ==
  Failures(Absent) \cup
    {[Verdict("passed", c, "low") EXCEPT
        !.validity = IF request.type = "biometric" THEN Absent ELSE "passed",
        !.biometric = request.type # "document"] : c \in 85..98}

\* applySimulationOverrides, and what follows when it returns null.
Processed(request) ==
  LET s == request.simulate
  IN  IF s = Absent THEN Unforced(request)
      ELSE IF s.forceStatus = "failed" THEN Failures(s.confidence)
      ELSE IF s.forceStatus = "passed"
        THEN {Verdict("passed", IF s.confidence = Absent THEN 90 ELSE s.confidence, "low")}
      ELSE (IF s.failureRate THEN Failures(s.confidence) ELSE {}) \cup
           (CASE s.defect = "poorImageQuality" -> Failures(s.confidence)
              [] s.defect = "expiredDocument" -> Failures(Absent)
              [] s.defect = Absent -> Unforced(request))

\* Faulty variant: no cap.
OverallConfidenceUncapped(valid, authentic) ==
  70 + (IF valid THEN 15 ELSE 0) + 2 * authentic

\* calculateOverallConfidence, for a valid machine-readable zone and a number
\* of authentic security features.
OverallConfidence(valid, authentic) ==
  LET sum == 70 + (IF valid THEN 15 ELSE 0) + 2 * authentic
  IN  IF sum < 95 THEN sum ELSE 95

\* The members of RegulaSecurityFeature.
FeatureCount == 8

RiskLevel(confidence) ==
  IF confidence > 85 THEN "low" ELSE IF confidence > 65 THEN "medium" ELSE "high"

\* processDocumentImages
Scored(request, valid, authentic) ==
  LET c == OverallConfidence(valid, authentic)
  IN  [status |-> IF c > 75 THEN "passed" ELSE "failed", confidence |-> c,
       riskLevel |-> RiskLevel(c), validity |-> IF valid THEN "passed" ELSE "failed",
       biometric |-> request.selfie]

-----------------------------------------------------------------------------
(* The calls.                                                              *)

Unused(i) ==
  processing[i] = Absent /\ \A p \in Implementations : told[p][i] = Absent

\* A session is stored and its status returned.
StoreSession(p, i, status, result) ==
  /\ verifications' = [verifications EXCEPT ![p][i] = [status |-> status, result |-> result]]
  /\ told' = [told EXCEPT ![p][i] = status]

\* MockRegulaProvider.createVerification: up to the delay ...
StartMock(i) ==
  /\ Unused(i)
  /\ \E request \in DocumentRequests : processing' = [processing EXCEPT ![i] = request]
  /\ UNCHANGED <<verifications, told>>

\* Faulty variant: processed is completed.
MockStatusProcessed(result) == "completed"

MockStatus(result) == IF result.status = "passed" THEN "completed" ELSE "failed"

\* ... and after it.
FinishMock(i) ==
  /\ processing[i] # Absent
  /\ \E result \in Processed(processing[i]) :
       StoreSession("MockRegulaProvider", i, MockStatus(result), result)
  /\ processing' = [processing EXCEPT ![i] = Absent]

\* RegulaProvider.createVerification, for a request that it does not reject.
CreateRegula(i) ==
  /\ Unused(i)
  /\ \E request \in DocumentRequests, valid \in BOOLEAN, authentic \in 0..FeatureCount :
       /\ request.method = "direct" /\ request.front
       /\ StoreSession("RegulaProvider", i, "completed", Scored(request, valid, authentic))
  /\ UNCHANGED processing

\* getVerificationStatus, for an id that the Map has.
GetStatus(p, i) ==
  /\ verifications[p][i] # Absent
  /\ told' = [told EXCEPT ![p][i] = verifications[p][i].status]
  /\ UNCHANGED <<verifications, processing>>

\* Faulty variant: a session is cancelled whatever its status.
CancelsAny(p, i) == TRUE

\* Whether cancelVerification does what it is asked.
Cancels(p, i) ==
  p = "RegulaProvider" /\ verifications[p][i].status = "in_progress"

CancelSession(p, i) ==
  /\ verifications[p][i] # Absent
  /\ IF Cancels(p, i)
       THEN StoreSession(p, i, "cancelled", verifications[p][i].result)
       ELSE UNCHANGED <<verifications, told>>
  /\ UNCHANGED processing

\* The process ends: the Maps are gone, and who waits gets no answer.
LoseSessions ==
  /\ verifications' = [p \in Implementations |-> [i \in SessionIds |-> Absent]]
  /\ processing' = [i \in SessionIds |-> Absent]
  /\ UNCHANGED told

-----------------------------------------------------------------------------

ProvidersInit ==
  /\ verifications = [p \in Implementations |-> [i \in SessionIds |-> Absent]]
  /\ processing = [i \in SessionIds |-> Absent]
  /\ told = verifications

ProvidersNext ==
  \/ \E i \in SessionIds :
       \/ StartMock(i) \/ FinishMock(i) \/ CreateRegula(i)
       \/ \E p \in Implementations : GetStatus(p, i) \/ CancelSession(p, i)
  \/ LoseSessions

ProvidersSpec == ProvidersInit /\ [][ProvidersNext]_providerVars

-----------------------------------------------------------------------------
(* Properties.                                                             *)

StatusOf(s) == IF s = Absent THEN Absent ELSE s.status

Contract == INSTANCE ProviderContract WITH
  Behaviour <- Contracts, heard <- told, Null <- Absent,
  session <- [p \in Implementations |->
                [i \in SessionIds |-> StatusOf(verifications[p][i])]]

(* The implementations keep the contract that Verifications is checked     *)
(* with: sessions begin final, are never cancelled, never change, and go   *)
(* all at once.                                                            *)
KeepsContract == Contract!Spec

(* What a caller was told last of a session that is kept is its status,    *)
(* and agrees with the verdict that is stored with it: the mock never      *)
(* reports a person whose document failed as completed, whatever the       *)
(* simulation in the request asks for, and no provider calls a failed      *)
(* document of low or a passed one of high risk.                           *)
VerdictsAgree ==
  \A p \in Implementations, i \in SessionIds :
    LET s == verifications[p][i]
    IN  s # Absent =>
          /\ told[p][i] = s.status
          /\ p = "MockRegulaProvider" => (s.status = "completed") = (s.result.status = "passed")
          /\ s.result.status = "passed" => s.result.riskLevel # "high"
          /\ s.result.status = "failed" => s.result.riskLevel # "low"
=============================================================================
