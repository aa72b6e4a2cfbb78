--------------------------- MODULE EnrollmentProofs ---------------------------
(***************************************************************************)
(* Proofs about Enrollment, for every set of servers, keys, tokens,        *)
(* addresses and threads.                                                  *)
(***************************************************************************)
EXTENDS Enrollment, TLAPS

-----------------------------------------------------------------------------
(***************************************************************************)
(* Type correctness.                                                       *)
(***************************************************************************)
\* A thread that takes up a well-formed request leaves the threads well typed.
LEMMA StartsType ==
    ASSUME handler \in [Workers -> Handler], NEW w \in Workers,
           NEW request \in Handler, Starts(w, request)
    PROVE  handler' \in [Workers -> Handler]
  BY DEF Starts

\* So does a thread that is done with its request.
LEMMA EndsType ==
    ASSUME handler \in [Workers -> Handler], NEW w \in Workers, NEW kind,
           Ends(w, kind)
    PROVE  handler' \in [Workers -> Handler]
  BY DEF Ends, Handler

\* What a thread read before its request ends is of the shape of that request.
LEMMA RequestShapes ==
    ASSUME handler \in [Workers -> Handler], NEW w \in Workers
    PROVE  /\ handler[w].kind = "issue" => handler[w] \in IssueRequest
           /\ handler[w].kind = "bootstrap" => handler[w] \in BootstrapRequest
           /\ handler[w].kind = "renew" => handler[w] \in RenewalRequest
           /\ handler[w].kind = "telemetry" => handler[w] \in TelemetryRequest
           /\ handler[w].kind = "expiry" => handler[w] \in ExpirySweep
  BY DEF Handler, Idle, IssueRequest, BootstrapRequest, RenewalRequest,
         TelemetryRequest, ExpirySweep

\* Steps of the administrator and of time on one server keep every table typed.
LEMMA ServerStepType ==
    ASSUME TypeOK, NEW s \in Servers, ServerStep(s)
    PROVE  TypeOK'
  <1> USE DEF TypeOK
  <1>1. ASSUME NEW a \in Addresses, RegisterServer(s, a)
        PROVE  TypeOK'
    BY <1>1 DEF RegisterServer, EnrollmentStates, trustVars, targetVars, reviewVars
  <1>2. ASSUME NEW a \in Addresses, StageAddressChange(s, a)
        PROVE  TypeOK'
    BY <1>2 DEF StageAddressChange, AddressChange, serverVars, trustVars, reviewVars
  <1>3. ASSUME NEW f \in Fingerprints, RotateCertificate(s, f)
        PROVE  TypeOK'
    BY <1>3 DEF RotateCertificate, ReplaceCertificate, Ages, serverVars, targetVars,
                reviewVars
  <1>4. ASSUME NEW f \in Fingerprints, ActivateAddressChange(s, f)
        PROVE  TypeOK'
    BY <1>4 DEF ActivateAddressChange, MovedTarget, ActivatedAddress, UnstageTargets,
                ForgetAddressChange, AddressChange, trustVars, reviewVars
  <1>5. CASE ApproveEnrollment(s)
    BY <1>5 DEF ApproveEnrollment, UnstageTargets, EnrollmentStates, trustVars
  <1>6. CASE RejectEnrollment(s)
    BY <1>6 DEF RejectEnrollment, Decidable, UnstageTargets, EnrollmentStates, Ages
  <1>7. CASE CertificateAges(s)
    BY <1>7 DEF CertificateAges, Ages, serverVars, targetVars, reviewVars
  <1>8. CASE RevokeCertificate(s)
    BY <1>8 DEF RevokeCertificate, DropCertificates, EnrollmentStates, Ages, reviewVars
  <1>9. CASE RetireServer(s)
    BY <1>9 DEF RetireServer, DropCertificates, UnstageTargets, ForgetAddressChange,
                EnrollmentStates, Ages
  <1>10. QED
    BY <1>1, <1>2, <1>3, <1>4, <1>5, <1>6, <1>7, <1>8, <1>9 DEF ServerStep

\* Reading, the first half of a request, changes no table and keeps what it read.
LEMMA RequestBeginsType ==
    ASSUME TypeOK, NEW w \in Workers, RequestBegins(w)
    PROVE  TypeOK'
  <1>1. UNCHANGED <<serverVars, trustVars, token, targetVars, reviewVars>>
    BY DEF RequestBegins, BeginIssueToken, BeginBootstrap, BeginRenewal,
           BeginTelemetryCheck, BeginExpirySweep
  <1>2. handler' \in [Workers -> Handler]
    <2>1. ASSUME NEW s \in Servers, NEW t \in Tokens, BeginIssueToken(w, s, t)
          PROVE  handler' \in [Workers -> Handler]
      <3>1. [kind |-> "issue", server |-> s, token |-> t] \in Handler
        BY DEF Handler, IssueRequest
      <3>2. QED
        BY <2>1, <3>1, StartsType DEF BeginIssueToken, TypeOK
    <2>2. ASSUME NEW s \in Servers, NEW t \in Tokens, NEW f \in Fingerprints,
                 BeginBootstrap(w, s, t, f)
          PROVE  handler' \in [Workers -> Handler]
      <3>1. [kind |-> "bootstrap", server |-> s, token |-> t, fingerprint |-> f,
             timely |-> TRUE] \in Handler
        BY DEF Handler, BootstrapRequest
      <3>2. QED
        BY <2>2, <3>1, StartsType DEF BeginBootstrap, TypeOK
    <2>3. ASSUME NEW s \in Servers, NEW f \in Fingerprints, BeginRenewal(w, s, f)
          PROVE  handler' \in [Workers -> Handler]
      <3>1. certificate[s] \in Fingerprints
        BY <2>3 DEF BeginRenewal, TypeOK
      <3>2. [kind |-> "renew", server |-> s, current |-> certificate[s],
             fingerprint |-> f] \in Handler
        BY <3>1 DEF Handler, RenewalRequest
      <3>3. QED
        BY <2>3, <3>2, StartsType DEF BeginRenewal, TypeOK
    <2>4. ASSUME NEW s \in Servers, BeginTelemetryCheck(w, s)
          PROVE  handler' \in [Workers -> Handler]
      <3>1. [kind |-> "telemetry", server |-> s] \in Handler
        BY DEF Handler, TelemetryRequest
      <3>2. QED
        BY <2>4, <3>1, StartsType DEF BeginTelemetryCheck, TypeOK
    <2>5. CASE BeginExpirySweep(w)
      <3>1. [kind |-> "expiry", servers |-> Expired,
             fingerprints |-> {certificate[s] : s \in Expired}] \in Handler
        BY DEF Handler, ExpirySweep, Expired, TypeOK
      <3>2. QED
        BY <2>5, <3>1, StartsType DEF BeginExpirySweep, TypeOK
    <2>6. QED
      BY <2>1, <2>2, <2>3, <2>4, <2>5 DEF RequestBegins
  <1>3. QED
    BY <1>1, <1>2 DEF TypeOK, serverVars, trustVars, targetVars, reviewVars

\* Writing, the second half, stores values of the shape of the request.
LEMMA RequestEndsType ==
    ASSUME TypeOK, NEW w \in Workers, RequestEnds(w)
    PROVE  TypeOK'
  <1>1. CASE IssueBootstrapToken(w)
    <2>1. handler[w] \in IssueRequest
      BY <1>1, RequestShapes DEF IssueBootstrapToken, Ends, TypeOK
    <2>2. token' \in [Tokens -> TokenRecord]
      BY <1>1, <2>1 DEF IssueBootstrapToken, IssueRequest, TokenRecord, TypeOK
    <2>3. QED
      BY <1>1, <2>2, EndsType
         DEF IssueBootstrapToken, TypeOK, serverVars, trustVars, targetVars, reviewVars
  <1>2. CASE ConsumeBootstrapToken(w)
    <2>1. handler[w] \in BootstrapRequest
      BY <1>2, RequestShapes DEF ConsumeBootstrapToken, Ends, TypeOK
    <2>2. handler[w].server \in Servers /\ handler[w].fingerprint \in Fingerprints
            /\ handler[w].token \in Tokens
      BY <2>1 DEF BootstrapRequest
    <2>3. handler' \in [Workers -> Handler]
      BY <1>2, EndsType DEF ConsumeBootstrapToken, TypeOK
    <2>4. token' \in [Tokens -> TokenRecord]
      BY <1>2, <2>2 DEF ConsumeBootstrapToken, TokenRecord, TypeOK
    <2>5. QED
      BY <1>2, <2>2, <2>3, <2>4
         DEF ConsumeBootstrapToken, TypeOK, EnrollmentStates, Ages
  <1>3. CASE RenewCertificate(w)
    <2>1. handler[w] \in RenewalRequest
      BY <1>3, RequestShapes DEF RenewCertificate, Ends, TypeOK
    <2>2. handler[w].server \in Servers /\ handler[w].fingerprint \in Fingerprints
      BY <2>1 DEF RenewalRequest
    <2>3. handler' \in [Workers -> Handler]
      BY <1>3, EndsType DEF RenewCertificate, TypeOK
    <2>4. QED
      BY <1>3, <2>2, <2>3
         DEF RenewCertificate, ReplaceCertificate, TypeOK, Ages, serverVars,
             targetVars, reviewVars
  <1>4. ASSUME NEW complete \in BOOLEAN, RecordStagedObservations(w, complete)
        PROVE  TypeOK'
    <2>1. handler' \in [Workers -> Handler]
      BY <1>4, EndsType DEF RecordStagedObservations, TypeOK
    <2>2. QED
      BY <1>4, <2>1 DEF RecordStagedObservations, TypeOK, serverVars, trustVars,
                        targetVars
  <1>5. CASE ExpireCertificates(w)
    <2>1. handler' \in [Workers -> Handler]
      BY <1>5, EndsType DEF ExpireCertificates, TypeOK
    <2>2. QED
      BY <1>5, <2>1 DEF ExpireCertificates, StateAfterExpiry, DropCertificates, TypeOK,
                        EnrollmentStates, Ages, targetVars, reviewVars
  <1>6. CASE RequestFails(w)
    <2>1. handler' \in [Workers -> Handler]
      BY <1>6 DEF RequestFails, Handler, TypeOK
    <2>2. QED
      BY <1>6, <2>1 DEF RequestFails, TypeOK, serverVars, trustVars, targetVars,
                        reviewVars
  <1>7. QED
    BY <1>1, <1>2, <1>3, <1>4, <1>5, <1>6 DEF RequestEnds

\* A request that its token's expiry makes late is the request it was otherwise.
LEMMA ExpiryMakesLate ==
    ASSUME handler \in [Workers -> Handler], NEW t \in Tokens, TokenExpires(t)
    PROVE  /\ handler' \in [Workers -> Handler]
           /\ \A w \in Workers : handler'[w] = handler[w] \/ handler'[w].kind # "expiry"
  <1>1. PICK late \in SUBSET Presenting(t) :
            handler' = [w \in Workers |-> IF w \in late THEN [handler[w] EXCEPT !.timely = FALSE]
                                          ELSE handler[w]]
    BY DEF TokenExpires
  <1>2. ASSUME NEW w \in late
        PROVE  LET request == [handler[w] EXCEPT !.timely = FALSE]
               IN  request \in Handler /\ request.kind = "bootstrap"
    <2>1. handler[w] \in BootstrapRequest
      BY RequestShapes DEF Presenting
    <2>2. [handler[w] EXCEPT !.timely = FALSE] \in BootstrapRequest
      BY <2>1 DEF BootstrapRequest
    <2>3. QED
      BY <2>2 DEF Handler, BootstrapRequest
  <1>3. QED
    BY <1>1, <1>2 DEF Presenting

\* Every step keeps the tables and the threads well typed.
LEMMA TypeStep == TypeOK /\ [Next]_vars => TypeOK'
  <1> SUFFICES ASSUME TypeOK, [Next]_vars
               PROVE  TypeOK'
    OBVIOUS
  <1>1. ASSUME NEW t \in Tokens, TokenExpires(t)
        PROVE  TypeOK'
    <2>1. handler' \in [Workers -> Handler]
      BY <1>1, ExpiryMakesLate DEF TypeOK
    <2>2. QED
      BY <1>1, <2>1 DEF TokenExpires, TypeOK, TokenRecord, serverVars, trustVars, targetVars,
                        reviewVars
  <1>2. CASE RecoverIntermediate
    <2>1. {certificate[s] : s \in Servers} \ {None} \subseteq Fingerprints
      BY DEF TypeOK
    <2>2. QED
      BY <1>2, <2>1 DEF RecoverIntermediate, DropCertificates, UnstageTargets, TypeOK,
                        EnrollmentStates, Ages, reviewVars
  <1>3. CASE Restart
    BY <1>3 DEF Restart, TypeOK, Handler, serverVars, trustVars, targetVars, reviewVars
  <1>4. CASE UNCHANGED vars
    BY <1>4 DEF vars, TypeOK, serverVars, trustVars, targetVars, reviewVars
  <1>5. QED
    BY <1>1, <1>2, <1>3, <1>4, ServerStepType, RequestBeginsType, RequestEndsType DEF Next

\* The tables and the requests in flight always have the shape the schema and the
\* handlers give them.
THEOREM TypeCorrect == Spec => []TypeOK
  <1>1. Init => TypeOK
    BY DEF Init, TypeOK, EnrollmentStates, Ages, TokenRecord, Handler
  <1>2. QED
    BY <1>1, TypeStep, PTL DEF Spec

-----------------------------------------------------------------------------
(***************************************************************************)
(* Trust.  A key that becomes current is new to the history; what has been *)
(* revoked is in the history; so what is current is never revoked.         *)
(***************************************************************************)
\* A step that leaves the trust tables alone, and starts no sweep, keeps trust.
LEMMA TrustUntouched ==
    ASSUME TypeOK, TrustInvariant,
           UNCHANGED <<certificate, issuedTo, openHistory, revoked>>,
           \A w \in Workers : handler'[w] = handler[w] \/ handler'[w].kind # "expiry"
    PROVE  TrustInvariant'
  BY DEF TrustInvariant, CertificateTrusted, RevokedWereIssued, SweepsReadIssued

\* A step that drops the certificates of some servers, closes their history rows and
\* may revoke their keys keeps trust.
LEMMA TrustDropped ==
    ASSUME TypeOK, TrustInvariant, NEW S \in SUBSET Servers,
           DropCertificates(S),
           revoked' \subseteq revoked \cup ({certificate[s] : s \in S} \ {None}),
           \A s \in Servers \ S : certificate[s] \in openHistory
                                  => certificate[s] \in openHistory',
           UNCHANGED issuedTo,
           \A w \in Workers : handler'[w] = handler[w] \/ handler'[w].kind # "expiry"
    PROVE  TrustInvariant'
  <1>1. RevokedWereIssued'
    <2>1. \A s \in S : certificate[s] # None => issuedTo[certificate[s]] # None
      BY NoneAssumption DEF TrustInvariant, CertificateTrusted
    <2>2. QED
      BY <2>1 DEF TrustInvariant, RevokedWereIssued
  <1>2. CertificateTrusted'
    <2> SUFFICES ASSUME NEW s \in Servers, certificate'[s] # None
                 PROVE  /\ certificate'[s] \notin revoked'
                        /\ issuedTo'[certificate'[s]] = s
                        /\ certificate'[s] \in openHistory'
      BY DEF CertificateTrusted
    <2>1. s \notin S /\ certificate'[s] = certificate[s]
      BY DEF DropCertificates
    <2>2. certificate[s] \notin revoked /\ issuedTo[certificate[s]] = s
            /\ certificate[s] \in openHistory
      BY <2>1 DEF TrustInvariant, CertificateTrusted
    <2>3. ASSUME NEW r \in S
          PROVE  certificate[r] # certificate[s]
      BY <2>1, <2>2 DEF TrustInvariant, CertificateTrusted
    <2>4. QED
      BY <2>1, <2>2, <2>3
  <1>3. SweepsReadIssued'
    BY DEF TrustInvariant, SweepsReadIssued
  <1>4. QED
    BY <1>1, <1>2, <1>3 DEF TrustInvariant

\* A step that gives a server a key new to the history keeps trust.
LEMMA TrustAdopted ==
    ASSUME TypeOK, TrustInvariant, NEW s \in Servers, NEW f \in Fingerprints,
           HistoryRowFree(f),
           certificate' = [certificate EXCEPT ![s] = f],
           issuedTo' = [issuedTo EXCEPT ![f] = s],
           openHistory' = (openHistory \ {certificate[s]}) \cup {f},
           UNCHANGED revoked,
           \A w \in Workers : handler'[w] = handler[w] \/ handler'[w].kind # "expiry"
    PROVE  TrustInvariant'
  <1>1. f \notin revoked
    BY DEF HistoryRowFree, TrustInvariant, RevokedWereIssued
  <1>2. RevokedWereIssued'
    BY NoneAssumption DEF TrustInvariant, RevokedWereIssued, TypeOK
  <1>3. CertificateTrusted'
    <2> SUFFICES ASSUME NEW r \in Servers, certificate'[r] # None
                 PROVE  /\ certificate'[r] \notin revoked'
                        /\ issuedTo'[certificate'[r]] = r
                        /\ certificate'[r] \in openHistory'
      BY DEF CertificateTrusted
    <2>1. CASE r = s
      BY <1>1, <2>1 DEF TypeOK
    <2>2. CASE r # s
      <3>1. certificate'[r] = certificate[r] /\ certificate[r] \in Fingerprints
        BY <2>2 DEF TypeOK
      <3>2. certificate[r] \notin revoked /\ issuedTo[certificate[r]] = r
              /\ certificate[r] \in openHistory
        BY <3>1 DEF TrustInvariant, CertificateTrusted
      <3>3. certificate[r] # f
        BY <3>2, NoneAssumption DEF HistoryRowFree
      <3>4. certificate[r] # certificate[s]
        BY <2>2, <3>1, <3>2, NoneAssumption DEF TrustInvariant, CertificateTrusted
      <3>5. QED
        BY <3>1, <3>2, <3>3, <3>4 DEF TypeOK
    <2>3. QED
      BY <2>1, <2>2
  <1>4. SweepsReadIssued'
    <2> SUFFICES ASSUME NEW w \in Workers, handler'[w].kind = "expiry",
                        NEW g \in handler'[w].fingerprints
                 PROVE  issuedTo'[g] \in handler'[w].servers
      BY DEF SweepsReadIssued
    <2>1. handler'[w] = handler[w] /\ handler[w] \in ExpirySweep
      BY RequestShapes DEF TypeOK
    <2>2. g \in Fingerprints /\ issuedTo[g] \in handler[w].servers
            /\ handler[w].servers \subseteq Servers
      BY <2>1 DEF TrustInvariant, SweepsReadIssued, ExpirySweep
    <2>3. g # f
      BY <2>2, NoneAssumption DEF HistoryRowFree
    <2>4. QED
      BY <2>1, <2>2, <2>3 DEF TypeOK
  <1>5. QED
    BY <1>2, <1>3, <1>4 DEF TrustInvariant

\* A thread that ends its request sweeps no more; the others are as they were.
LEMMA EndsSweepsNothing ==
    ASSUME TypeOK, NEW w \in Workers, NEW kind, Ends(w, kind)
    PROVE  \A v \in Workers : handler'[v] = handler[v] \/ handler'[v].kind # "expiry"
  BY DEF Ends, Idle, TypeOK

\* Every step keeps trust: each is one of the three kinds above, or a sweep that
\* reads certificates while they are current.
LEMMA TrustStep == TypeOK /\ TrustInvariant /\ [Next]_vars => TrustInvariant'
  <1> SUFFICES ASSUME TypeOK, TrustInvariant, [Next]_vars
               PROVE  TrustInvariant'
    OBVIOUS
  <1>1. ASSUME NEW s \in Servers, ServerStep(s)
        PROVE  TrustInvariant'
    <2>1. ASSUME NEW a \in Addresses, RegisterServer(s, a) \/ StageAddressChange(s, a)
          PROVE  TrustInvariant'
      BY <2>1, TrustUntouched DEF RegisterServer, StageAddressChange, trustVars
    <2>2. ASSUME NEW f \in Fingerprints, RotateCertificate(s, f)
          PROVE  TrustInvariant'
      BY <2>2, TrustAdopted DEF RotateCertificate, ReplaceCertificate
    <2>3. ASSUME NEW f \in Fingerprints, ActivateAddressChange(s, f)
          PROVE  TrustInvariant'
      BY <2>3, TrustUntouched DEF ActivateAddressChange, trustVars
    <2>4. CASE ApproveEnrollment(s) \/ CertificateAges(s)
      BY <2>4, TrustUntouched DEF ApproveEnrollment, CertificateAges, trustVars
    <2>5. CASE RejectEnrollment(s)
      <3>1. DropCertificates({s})
        BY <2>5 DEF RejectEnrollment, DropCertificates, TypeOK
      <3>2. QED
        BY <2>5, <3>1, TrustDropped DEF RejectEnrollment, Decidable
    <2>6. CASE RevokeCertificate(s)
      <3>1. \A r \in Servers \ {s} : certificate[r] \in openHistory
                                     => certificate[r] \in openHistory'
        BY <2>6, NoneAssumption DEF RevokeCertificate, TrustInvariant, CertificateTrusted, TypeOK
      <3>2. QED
        BY <2>6, <3>1, TrustDropped DEF RevokeCertificate
    <2>7. CASE RetireServer(s)
      <3>1. \A r \in Servers \ {s} : certificate[r] \in openHistory
                                     => certificate[r] \in openHistory'
        BY <2>7, NoneAssumption DEF RetireServer, TrustInvariant, CertificateTrusted, TypeOK
      <3>2. QED
        BY <2>7, <3>1, TrustDropped DEF RetireServer
    <2>8. QED
      BY <1>1, <2>1, <2>2, <2>3, <2>4, <2>5, <2>6, <2>7 DEF ServerStep
  <1>2. ASSUME NEW w \in Workers, RequestBegins(w)
        PROVE  TrustInvariant'
    <2>1. CASE BeginExpirySweep(w)
      <3>1. UNCHANGED <<certificate, issuedTo, openHistory, revoked>>
        BY <2>1 DEF BeginExpirySweep, trustVars
      <3>2. SweepsReadIssued'
        <4> SUFFICES ASSUME NEW v \in Workers, handler'[v].kind = "expiry",
                            NEW g \in handler'[v].fingerprints
                     PROVE  issuedTo'[g] \in handler'[v].servers
          BY DEF SweepsReadIssued
        <4>1. CASE v # w
          BY <2>1, <3>1, <4>1 DEF BeginExpirySweep, Starts, TypeOK, TrustInvariant,
                                 SweepsReadIssued
        <4>2. CASE v = w
          <5>1. handler'[v] = [kind |-> "expiry", servers |-> Expired,
                               fingerprints |-> {certificate[s] : s \in Expired}]
            BY <2>1, <4>2 DEF BeginExpirySweep, Starts, TypeOK
          <5>2. PICK s \in Expired : g = certificate[s]
            BY <5>1
          <5>3. issuedTo[g] = s
            BY <5>2 DEF Expired, TrustInvariant, CertificateTrusted
          <5>4. QED
            BY <3>1, <5>1, <5>2, <5>3
        <4>3. QED
          BY <4>1, <4>2
      <3>3. QED
        BY <3>1, <3>2 DEF TrustInvariant, CertificateTrusted, RevokedWereIssued
    <2>2. CASE \E s \in Servers, t \in Tokens : BeginIssueToken(w, s, t)
      BY <2>2, TrustUntouched DEF BeginIssueToken, Starts, trustVars, TypeOK
    <2>3. CASE \E s \in Servers, t \in Tokens, f \in Fingerprints :
                  BeginBootstrap(w, s, t, f)
      BY <2>3, TrustUntouched DEF BeginBootstrap, Starts, trustVars, TypeOK
    <2>4. CASE \E s \in Servers, f \in Fingerprints : BeginRenewal(w, s, f)
      BY <2>4, TrustUntouched DEF BeginRenewal, Starts, trustVars, TypeOK
    <2>5. CASE \E s \in Servers : BeginTelemetryCheck(w, s)
      BY <2>5, TrustUntouched DEF BeginTelemetryCheck, Starts, trustVars, TypeOK
    <2>6. QED
      BY <1>2, <2>1, <2>2, <2>3, <2>4, <2>5 DEF RequestBegins
  <1>3. ASSUME NEW w \in Workers, RequestEnds(w)
        PROVE  TrustInvariant'
    <2>1. CASE IssueBootstrapToken(w)
      BY <2>1, EndsSweepsNothing, TrustUntouched DEF IssueBootstrapToken, trustVars
    <2>2. CASE ConsumeBootstrapToken(w)
      <3>1. handler[w].server \in Servers /\ handler[w].fingerprint \in Fingerprints
        BY <2>2, RequestShapes DEF ConsumeBootstrapToken, Ends, BootstrapRequest, TypeOK
      <3>2. certificate[handler[w].server] = None /\ HistoryRowFree(handler[w].fingerprint)
        BY <2>2 DEF ConsumeBootstrapToken, FirstContactRowsFree
      <3>3. openHistory' = (openHistory \ {certificate[handler[w].server]})
                             \cup {handler[w].fingerprint}
        BY <2>2, <3>2, NoneAssumption DEF ConsumeBootstrapToken, TypeOK
      <3>4. \A v \in Workers : handler'[v] = handler[v] \/ handler'[v].kind # "expiry"
        BY <2>2, EndsSweepsNothing DEF ConsumeBootstrapToken
      <3>5. QED
        BY <2>2, <3>1, <3>2, <3>3, <3>4, TrustAdopted DEF ConsumeBootstrapToken
    <2>3. CASE RenewCertificate(w)
      <3>1. handler[w].server \in Servers /\ handler[w].fingerprint \in Fingerprints
        BY <2>3, RequestShapes DEF RenewCertificate, Ends, RenewalRequest, TypeOK
      <3>2. \A v \in Workers : handler'[v] = handler[v] \/ handler'[v].kind # "expiry"
        BY <2>3, EndsSweepsNothing DEF RenewCertificate
      <3>3. QED
        BY <2>3, <3>1, <3>2, TrustAdopted DEF RenewCertificate, ReplaceCertificate
    <2>4. ASSUME NEW complete \in BOOLEAN, RecordStagedObservations(w, complete)
          PROVE  TrustInvariant'
      BY <2>4, EndsSweepsNothing, TrustUntouched DEF RecordStagedObservations, trustVars
    <2>5. CASE ExpireCertificates(w)
      <3>1. handler[w].servers \in SUBSET Servers /\ handler[w].kind = "expiry"
        BY <2>5, RequestShapes DEF ExpireCertificates, Ends, ExpirySweep, TypeOK
      <3>2. \A s \in Servers \ handler[w].servers :
               certificate[s] \in openHistory => certificate[s] \in openHistory'
        BY <2>5, <3>1, NoneAssumption
           DEF ExpireCertificates, TrustInvariant, CertificateTrusted, SweepsReadIssued,
               TypeOK
      <3>3. \A v \in Workers : handler'[v] = handler[v] \/ handler'[v].kind # "expiry"
        BY <2>5, EndsSweepsNothing DEF ExpireCertificates
      <3>4. QED
        BY <2>5, <3>1, <3>2, <3>3, TrustDropped DEF ExpireCertificates
    <2>6. CASE RequestFails(w)
      BY <2>6, TrustUntouched DEF RequestFails, Idle, trustVars, TypeOK
    <2>7. QED
      BY <1>3, <2>1, <2>2, <2>3, <2>4, <2>5, <2>6 DEF RequestEnds
  <1>4. ASSUME NEW t \in Tokens, TokenExpires(t)
        PROVE  TrustInvariant'
    <2>1. \A w \in Workers : handler'[w] = handler[w] \/ handler'[w].kind # "expiry"
      BY <1>4, ExpiryMakesLate DEF TypeOK
    <2>2. QED
      BY <1>4, <2>1, TrustUntouched DEF TokenExpires, trustVars
  <1>5. CASE RecoverIntermediate
    BY <1>5, TrustDropped DEF RecoverIntermediate
  <1>6. CASE Restart
    BY <1>6, TrustUntouched DEF Restart, Idle, trustVars
  <1>7. CASE UNCHANGED vars
    BY <1>7, TrustUntouched DEF vars, trustVars
  <1>8. QED
    BY <1>1, <1>2, <1>3, <1>4, <1>5, <1>6, <1>7 DEF Next

\* A collector's current key is never one that was revoked, and it is the key of one
\* server only, whatever requests, renewals, rotations and sweeps interleave.
THEOREM TrustSafe == Spec => []CertificateTrusted
  <1>1. Init => TrustInvariant
    BY DEF Init, TrustInvariant, CertificateTrusted, RevokedWereIssued,
           SweepsReadIssued, Idle
  <1>2. TrustInvariant => CertificateTrusted
    BY DEF TrustInvariant
  <1>3. QED
    BY <1>1, <1>2, TrustStep, TypeCorrect, PTL DEF Spec

-----------------------------------------------------------------------------
(***************************************************************************)
(* The rows about a server agree with its state.                           *)
(***************************************************************************)
\* A step that changes none of the tables the invariant reads keeps it.
LEMMA TablesUntouched ==
    ASSUME TableInvariant,
           UNCHANGED <<enrollmentState, certificate, issuedTo, staging, active,
                       addressChange, pendingCode>>
    PROVE  TableInvariant'
  BY DEF TableInvariant, RetiredHoldsNothing, ActiveIsObservable, ReviewMatchesState,
         UnregisteredHoldsNothing

\* A server that gets a new key while it holds one, as in renewal and rotation, is
\* neither retired, unregistered nor awaiting first contact, and stays what it is.
LEMMA TablesReplaced ==
    ASSUME TypeOK, TableInvariant, NEW s \in Servers, NEW f \in Fingerprints,
           certificate[s] # None, ReplaceCertificate(s, f),
           UNCHANGED <<serverVars, targetVars, reviewVars>>
    PROVE  TableInvariant'
  BY NoneAssumption
     DEF TypeOK, TableInvariant, RetiredHoldsNothing, ActiveIsObservable,
         ReviewMatchesState, UnregisteredHoldsNothing, ReplaceCertificate,
         HistoryRowFree, serverVars, targetVars, reviewVars

\* Steps of the administrator and of time keep every row in agreement.
LEMMA TablesServerStep ==
    ASSUME TypeOK, TableInvariant, NEW s \in Servers, ServerStep(s)
    PROVE  TableInvariant'
  <1> USE NoneAssumption
      DEF TypeOK, TableInvariant, RetiredHoldsNothing, ActiveIsObservable,
          ReviewMatchesState, UnregisteredHoldsNothing
  <1>1. ASSUME NEW a \in Addresses, RegisterServer(s, a)
        PROVE  TableInvariant'
    BY <1>1 DEF RegisterServer, trustVars, targetVars, reviewVars
  <1>2. ASSUME NEW a \in Addresses, StageAddressChange(s, a)
        PROVE  TableInvariant'
    BY <1>2 DEF StageAddressChange, serverVars, trustVars, reviewVars
  <1>3. ASSUME NEW f \in Fingerprints, RotateCertificate(s, f)
        PROVE  TableInvariant'
    BY <1>3, TablesReplaced DEF RotateCertificate
  <1>4. ASSUME NEW f \in Fingerprints, ActivateAddressChange(s, f)
        PROVE  TableInvariant'
    BY <1>4 DEF ActivateAddressChange, MovedTarget, ActivatedAddress, UnstageTargets,
                ForgetAddressChange, AddressChange, trustVars, reviewVars
  <1>5. CASE ApproveEnrollment(s)
    BY <1>5 DEF ApproveEnrollment, Decidable, UnstageTargets, trustVars
  <1>6. CASE RejectEnrollment(s)
    BY <1>6 DEF RejectEnrollment, Decidable, UnstageTargets
  <1>7. CASE CertificateAges(s)
    BY <1>7, TablesUntouched DEF CertificateAges, serverVars, targetVars, reviewVars
  <1>8. CASE RevokeCertificate(s)
    BY <1>8 DEF RevokeCertificate, DropCertificates, reviewVars
  <1>9. CASE RetireServer(s)
    BY <1>9 DEF RetireServer, DropCertificates, UnstageTargets, ForgetAddressChange
  <1>10. QED
    BY <1>1, <1>2, <1>3, <1>4, <1>5, <1>6, <1>7, <1>8, <1>9 DEF ServerStep

\* The second half of a request keeps every row in agreement, whatever happened
\* since its first half.
LEMMA TablesRequestEnds ==
    ASSUME TypeOK, TableInvariant, NEW w \in Workers, RequestEnds(w)
    PROVE  TableInvariant'
  <1>1. CASE IssueBootstrapToken(w) \/ RequestFails(w)
              \/ \E complete \in BOOLEAN : RecordStagedObservations(w, complete)
    BY <1>1, TablesUntouched
       DEF IssueBootstrapToken, RequestFails, RecordStagedObservations, serverVars,
           trustVars, targetVars, reviewVars
  <1>2. CASE ConsumeBootstrapToken(w)
    <2>1. handler[w].server \in Servers /\ handler[w].fingerprint \in Fingerprints
      BY <1>2, RequestShapes DEF ConsumeBootstrapToken, Ends, BootstrapRequest, TypeOK
    <2>2. QED
      BY <1>2, <2>1, NoneAssumption
         DEF ConsumeBootstrapToken, FirstContactChecks, FirstContactRowsFree,
             HistoryRowFree, AcceptsBootstrap, TypeOK, TableInvariant,
             RetiredHoldsNothing, ActiveIsObservable, ReviewMatchesState,
             UnregisteredHoldsNothing
  <1>3. CASE RenewCertificate(w)
    <2>1. /\ handler[w].server \in Servers
          /\ handler[w].fingerprint \in Fingerprints
          /\ handler[w].current \in Fingerprints
      BY <1>3, RequestShapes DEF RenewCertificate, Ends, RenewalRequest, TypeOK
    <2>2. certificate[handler[w].server] # None
      BY <1>3, <2>1, NoneAssumption DEF RenewCertificate
    <2>3. QED
      BY <1>3, <2>1, <2>2, TablesReplaced DEF RenewCertificate
  <1>4. CASE ExpireCertificates(w)
    BY <1>4 DEF ExpireCertificates, StateAfterExpiry, DropCertificates, targetVars,
                reviewVars, TypeOK, TableInvariant, RetiredHoldsNothing,
                ActiveIsObservable, ReviewMatchesState, UnregisteredHoldsNothing
  <1>5. QED
    BY <1>1, <1>2, <1>3, <1>4 DEF RequestEnds

\* Every step keeps every row in agreement with the state of its server.
LEMMA TablesStep == TypeOK /\ TableInvariant /\ [Next]_vars => TableInvariant'
  <1> SUFFICES ASSUME TypeOK, TableInvariant, [Next]_vars
               PROVE  TableInvariant'
    OBVIOUS
  <1>1. ASSUME NEW w \in Workers, RequestBegins(w)
        PROVE  TableInvariant'
    <2>1. UNCHANGED <<serverVars, trustVars, token, targetVars, reviewVars>>
      BY <1>1 DEF RequestBegins, BeginIssueToken, BeginBootstrap, BeginRenewal,
                  BeginTelemetryCheck, BeginExpirySweep
    <2>2. QED
      BY <2>1, TablesUntouched DEF serverVars, trustVars, targetVars, reviewVars
  <1>2. CASE RecoverIntermediate
    BY <1>2 DEF RecoverIntermediate, DropCertificates, UnstageTargets, reviewVars,
                TypeOK, TableInvariant, RetiredHoldsNothing, ActiveIsObservable,
                ReviewMatchesState, UnregisteredHoldsNothing
  <1>3. CASE Restart \/ UNCHANGED vars \/ \E t \in Tokens : TokenExpires(t)
    BY <1>3, TablesUntouched
       DEF Restart, TokenExpires, vars, serverVars, trustVars, targetVars, reviewVars
  <1>4. QED
    BY <1>1, <1>2, <1>3, TablesServerStep, TablesRequestEnds DEF Next

\* A retired server holds nothing, an active one can be observed, and the review and
\* the staged rows of a server are those of its state, in every behaviour.
THEOREM TablesConsistent ==
    Spec => [](RetiredHoldsNothing /\ ActiveIsObservable /\ ReviewMatchesState)
  <1>1. Init => TableInvariant
    BY DEF Init, TableInvariant, RetiredHoldsNothing, ActiveIsObservable,
           ReviewMatchesState, UnregisteredHoldsNothing
  <1>2. TableInvariant => RetiredHoldsNothing /\ ActiveIsObservable /\ ReviewMatchesState
    BY DEF TableInvariant
  <1>3. QED
    BY <1>1, <1>2, TablesStep, TypeCorrect, PTL DEF Spec

\* A server that is active has what observing it takes, its certificate, its target and
\* its configuration, through every handler and sweep.
THEOREM ActiveObservable == Spec => []ActiveIsObservable
  BY TablesConsistent, PTL

\* A review is awaited exactly while it is, and a refusal or a loss leaves none behind.
THEOREM ReviewMatches == Spec => []ReviewMatchesState
  BY TablesConsistent, PTL

-----------------------------------------------------------------------------
(***************************************************************************)
(* Enrollment implements ServerLifecycle.                                  *)
(***************************************************************************)
used == {f \in Fingerprints : issuedTo[f] # None}

\* A key new to the history is new to the lifecycle, and is adopted there.
LEMMA AdoptionMapped ==
    ASSUME TypeOK, TrustInvariant, NEW s \in Servers, NEW f \in Fingerprints,
           HistoryRowFree(f),
           certificate' = [certificate EXCEPT ![s] = f],
           issuedTo' = [issuedTo EXCEPT ![f] = s]
    PROVE  Lifecycle!Adopt(s, f)
  <1>1. f \notin used \cup revoked
    BY DEF used, HistoryRowFree, TrustInvariant, RevokedWereIssued
  <1>2. used' = used \cup {f}
    BY NoneAssumption DEF used, TypeOK
  <1>3. QED
    BY <1>1, <1>2 DEF Lifecycle!Adopt, used

\* A step that changes neither state nor trust is a stutter of the lifecycle.
LEMMA StutterMapped ==
    ASSUME UNCHANGED <<enrollmentState, certificate, issuedTo, revoked>>
    PROVE  UNCHANGED Lifecycle!vars
  BY DEF Lifecycle!vars

\* Steps of the administrator and of time on one server are lifecycle steps.
LEMMA ServerStepMapped ==
    ASSUME TypeOK, TrustInvariant, NEW s \in Servers, ServerStep(s)
    PROVE  [Lifecycle!Next]_(Lifecycle!vars)
  <1> USE DEF TypeOK
  <1>1. ASSUME NEW a \in Addresses, RegisterServer(s, a)
        PROVE  Lifecycle!Register(s)
    BY <1>1 DEF RegisterServer, trustVars, Lifecycle!Register, Lifecycle!Move
  <1>2. ASSUME NEW a \in Addresses, StageAddressChange(s, a)
        PROVE  UNCHANGED Lifecycle!vars
    BY <1>2, StutterMapped DEF StageAddressChange, serverVars, trustVars
  <1>3. ASSUME NEW f \in Fingerprints, RotateCertificate(s, f)
        PROVE  Lifecycle!Replace(s, f)
    <2>1. Lifecycle!Adopt(s, f)
      BY <1>3, AdoptionMapped DEF RotateCertificate, ReplaceCertificate
    <2>2. QED
      BY <1>3, <2>1 DEF RotateCertificate, ReplaceCertificate, serverVars,
                        Lifecycle!Replace
  <1>4. ASSUME NEW f \in Fingerprints, ActivateAddressChange(s, f)
        PROVE  UNCHANGED Lifecycle!vars
    BY <1>4, StutterMapped DEF ActivateAddressChange, trustVars
  <1>5. CASE ApproveEnrollment(s)
    <2>1. Lifecycle!Approve(s)
      BY <1>5 DEF ApproveEnrollment, Decidable, trustVars, Lifecycle!Approve,
                  Lifecycle!Move
    <2>2. QED
      BY <2>1 DEF Lifecycle!Next
  <1>6. CASE RejectEnrollment(s)
    <2>1. Lifecycle!Reject(s)
      BY <1>6 DEF RejectEnrollment, Decidable, Lifecycle!Reject, Lifecycle!Move,
                  Lifecycle!Drop
    <2>2. QED
      BY <2>1 DEF Lifecycle!Next
  <1>7. CASE CertificateAges(s)
    BY <1>7, StutterMapped DEF CertificateAges, serverVars
  <1>8. CASE RevokeCertificate(s)
    <2>1. Lifecycle!Revoke(s)
      BY <1>8 DEF RevokeCertificate, DropCertificates, Lifecycle!Revoke,
                  Lifecycle!Move, Lifecycle!Drop
    <2>2. QED
      BY <2>1 DEF Lifecycle!Next
  <1>9. CASE RetireServer(s)
    <2>1. Lifecycle!Retire(s)
      BY <1>9 DEF RetireServer, DropCertificates, EnrollmentStates, Lifecycle!Retire,
                  Lifecycle!Move, Lifecycle!Drop
    <2>2. QED
      BY <2>1 DEF Lifecycle!Next
  <1>10. QED
    BY <1>1, <1>2, <1>3, <1>4, <1>5, <1>6, <1>7, <1>8, <1>9
       DEF ServerStep, Lifecycle!Next

\* The end of a request is a lifecycle step or a stutter.
LEMMA RequestEndsMapped ==
    ASSUME TypeOK, TrustInvariant, NEW w \in Workers, RequestEnds(w)
    PROVE  [Lifecycle!Next]_(Lifecycle!vars)
  <1>1. CASE IssueBootstrapToken(w) \/ RequestFails(w)
              \/ \E complete \in BOOLEAN : RecordStagedObservations(w, complete)
    BY <1>1, StutterMapped DEF IssueBootstrapToken, RequestFails,
       RecordStagedObservations, serverVars, trustVars
  <1>2. CASE ConsumeBootstrapToken(w)
    <2>1. PICK s \in Servers, f \in Fingerprints :
               s = handler[w].server /\ f = handler[w].fingerprint
      BY <1>2, RequestShapes DEF ConsumeBootstrapToken, Ends, BootstrapRequest, TypeOK
    <2>2. Lifecycle!Adopt(s, f)
      BY <1>2, <2>1, AdoptionMapped DEF ConsumeBootstrapToken, FirstContactRowsFree
    <2>3. Lifecycle!FirstContact(s, f)
      BY <1>2, <2>1, <2>2 DEF ConsumeBootstrapToken, FirstContactChecks,
         FirstContactRowsFree, AcceptsBootstrap, Lifecycle!FirstContact, Lifecycle!Move
    <2>4. QED
      BY <2>1, <2>3 DEF Lifecycle!Next
  <1>3. CASE RenewCertificate(w)
    <2>1. PICK s \in Servers, f \in Fingerprints :
               /\ s = handler[w].server /\ f = handler[w].fingerprint
               /\ certificate[s] \in Fingerprints
      BY <1>3, RequestShapes DEF RenewCertificate, Ends, RenewalRequest, TypeOK
    <2>2. Lifecycle!Adopt(s, f)
      BY <1>3, <2>1, AdoptionMapped DEF RenewCertificate, ReplaceCertificate
    <2>3. Lifecycle!Replace(s, f)
      BY <1>3, <2>1, <2>2, NoneAssumption
         DEF RenewCertificate, ReplaceCertificate, serverVars, Lifecycle!Replace
    <2>4. QED
      BY <2>1, <2>3 DEF Lifecycle!Next
  <1>4. CASE ExpireCertificates(w)
    <2>1. handler[w].servers \in SUBSET Servers
      BY <1>4, RequestShapes DEF ExpireCertificates, Ends, ExpirySweep, TypeOK
    <2>2. Lifecycle!Lapse(handler[w].servers)
      BY <1>4, <2>1 DEF ExpireCertificates, StateAfterExpiry, DropCertificates,
                        Lifecycle!Lapse, Lifecycle!Drop
    <2>3. QED
      BY <2>1, <2>2 DEF Lifecycle!Next
  <1>5. QED
    BY <1>1, <1>2, <1>3, <1>4 DEF RequestEnds

\* Every step of the tables and handlers is a lifecycle step or a stutter.
LEMMA StepMapped ==
    TypeOK /\ TrustInvariant /\ [Next]_vars => [Lifecycle!Next]_(Lifecycle!vars)
  <1> SUFFICES ASSUME TypeOK, TrustInvariant, [Next]_vars
               PROVE  [Lifecycle!Next]_(Lifecycle!vars)
    OBVIOUS
  <1>1. ASSUME NEW w \in Workers, RequestBegins(w)
        PROVE  UNCHANGED Lifecycle!vars
    <2>1. UNCHANGED <<serverVars, trustVars, token, targetVars, reviewVars>>
      BY <1>1 DEF RequestBegins, BeginIssueToken, BeginBootstrap, BeginRenewal,
                  BeginTelemetryCheck, BeginExpirySweep
    <2>2. QED
      BY <2>1, StutterMapped DEF serverVars, trustVars
  <1>2. CASE RecoverIntermediate
    <2>1. Lifecycle!DistrustAll
      BY <1>2 DEF RecoverIntermediate, DropCertificates, Lifecycle!DistrustAll,
                  Lifecycle!Drop
    <2>2. QED
      BY <2>1 DEF Lifecycle!Next
  <1>3. CASE Restart \/ UNCHANGED vars \/ \E t \in Tokens : TokenExpires(t)
    BY <1>3, StutterMapped DEF Restart, TokenExpires, vars, serverVars, trustVars
  <1>4. QED
    BY <1>1, <1>2, <1>3, ServerStepMapped, RequestEndsMapped DEF Next

\* The tables, handlers and sweeps keep what the lifecycle promises: a key speaks for
\* one server and never again once it is replaced, dropped or revoked; a server moves
\* only along the lifecycle, and a retired one not at all.
THEOREM EnrollmentImplementsLifecycle == Spec => ImplementsLifecycle
  <1>1. Init => Lifecycle!Init
    BY DEF Init, Lifecycle!Init
  <1>2. Init => TrustInvariant
    BY DEF Init, TrustInvariant, CertificateTrusted, RevokedWereIssued,
           SweepsReadIssued, Idle
  <1>3. QED
    BY <1>1, <1>2, StepMapped, TrustStep, TypeCorrect, PTL
       DEF Spec, ImplementsLifecycle, Lifecycle!Spec

-----------------------------------------------------------------------------
(***************************************************************************)
(* Enrollment implements ScrapeTargets.                                    *)
(***************************************************************************)
\* A step that changes neither state nor target is a stutter of the target table.
LEMMA TargetStutter ==
    ASSUME UNCHANGED <<enrollmentState, active>>
    PROVE  UNCHANGED ScrapeTargets!targetVars
  BY DEF ScrapeTargets!targetVars, Standing

\* A server that changes its state changes its standing, and no other server does.
LEMMA StandingMoves ==
    ASSUME TypeOK, NEW s \in Servers, NEW to \in EnrollmentStates,
           enrollmentState' = [enrollmentState EXCEPT ![s] = to]
    PROVE  [r \in Servers |-> Standing(r)]' =
               [[r \in Servers |-> Standing(r)] EXCEPT
                   ![s] = IF to \in {"active", "re-enrollment-required", "retired"}
                          THEN to ELSE "unverified"]
  BY DEF Standing, TypeOK

\* Steps of the administrator and of time on one server are steps of the target table.
LEMMA TargetsServerStep ==
    ASSUME TypeOK, NEW s \in Servers, ServerStep(s)
    PROVE  [ScrapeTargets!TargetsNext]_(ScrapeTargets!targetVars)
  <1> USE DEF ScrapeTargets!TargetsNext, ScrapeTargets!OtherChange
  <1>1. ASSUME NEW a \in Addresses, RegisterServer(s, a)
        PROVE  UNCHANGED ScrapeTargets!targetVars
    BY <1>1 DEF RegisterServer, targetVars, ScrapeTargets!targetVars, Standing, TypeOK
  <1>2. CASE (\E a \in Addresses : StageAddressChange(s, a))
              \/ (\E f \in Fingerprints : RotateCertificate(s, f)) \/ CertificateAges(s)
    BY <1>2, TargetStutter DEF StageAddressChange, RotateCertificate, CertificateAges,
                               serverVars, targetVars
  <1>3. ASSUME NEW f \in Fingerprints, ActivateAddressChange(s, f)
        PROVE  [ScrapeTargets!TargetsNext]_(ScrapeTargets!targetVars)
    <2>1. CASE active[s] = None
      <3>1. active' = active
        BY <1>3, <2>1 DEF ActivateAddressChange, MovedTarget, TypeOK
      <3>2. QED
        BY <1>3, <3>1, TargetStutter DEF ActivateAddressChange
    <2>2. CASE active[s] # None
      <3>1. PICK a \in Addresses : active' = [active EXCEPT ![s] = a]
        BY <1>3, <2>2 DEF ActivateAddressChange, MovedTarget, ActivatedAddress,
                          AddressChange, TypeOK
      <3>2. ScrapeTargets!Move(s, a)
        BY <1>3, <2>2, <3>1 DEF ActivateAddressChange, ScrapeTargets!Move, Standing
      <3>3. QED
        BY <3>2
    <2>3. QED
      BY <2>1, <2>2
  <1>4. CASE ApproveEnrollment(s)
    <2>1. PICK a \in Addresses : active' = [active EXCEPT ![s] = a]
      BY <1>4 DEF ApproveEnrollment, TypeOK
    <2>2. ScrapeTargets!Approve(s, a)
      BY <1>4, <2>1, StandingMoves
         DEF ApproveEnrollment, Decidable, EnrollmentStates, Standing,
             ScrapeTargets!Approve, ScrapeTargets!Becomes
    <2>3. QED
      BY <2>2
  <1>5. CASE RejectEnrollment(s)
    BY <1>5 DEF RejectEnrollment, Decidable, ScrapeTargets!targetVars, Standing, TypeOK
  <1>6. CASE RevokeCertificate(s)
    <2>1. ScrapeTargets!Revoke(s)
      BY <1>6, StandingMoves DEF RevokeCertificate, EnrollmentStates, Standing,
                  ScrapeTargets!Revoke, ScrapeTargets!Becomes
    <2>2. QED
      BY <2>1
  <1>7. CASE RetireServer(s)
    <2>1. ScrapeTargets!Retire(s)
      BY <1>7, StandingMoves DEF RetireServer, EnrollmentStates, Standing,
                  ScrapeTargets!Retire, ScrapeTargets!Becomes, ScrapeTargets!Standings
    <2>2. QED
      BY <2>1
  <1>8. QED
    BY <1>1, <1>2, <1>3, <1>4, <1>5, <1>6, <1>7 DEF ServerStep

\* Of the ends of requests only first contact and expiry change a standing.
LEMMA TargetsRequestEnds ==
    ASSUME TypeOK, NEW w \in Workers, RequestEnds(w)
    PROVE  [ScrapeTargets!TargetsNext]_(ScrapeTargets!targetVars)
  <1> USE DEF ScrapeTargets!TargetsNext, ScrapeTargets!OtherChange
  <1>1. CASE IssueBootstrapToken(w) \/ RequestFails(w) \/ RenewCertificate(w)
              \/ \E complete \in BOOLEAN : RecordStagedObservations(w, complete)
    BY <1>1, TargetStutter DEF IssueBootstrapToken, RequestFails, RenewCertificate,
       RecordStagedObservations, serverVars, targetVars
  <1>2. CASE ConsumeBootstrapToken(w)
    <2>1. PICK s \in Servers : s = handler[w].server
      BY <1>2, RequestShapes DEF ConsumeBootstrapToken, Ends, BootstrapRequest, TypeOK
    <2>2. /\ enrollmentState' = [enrollmentState EXCEPT ![s] = "pending-verification"]
          /\ AcceptsBootstrap(s)
          /\ UNCHANGED active
      BY <1>2, <2>1 DEF ConsumeBootstrapToken, FirstContactChecks
    <2>3. CASE enrollmentState[s] = "awaiting-first-contact"
      BY <2>2, <2>3 DEF ScrapeTargets!targetVars, Standing, TypeOK
    <2>4. CASE enrollmentState[s] = "re-enrollment-required"
      <3>1. ScrapeTargets!FirstContact(s)
        BY <2>2, <2>4, StandingMoves DEF EnrollmentStates, Standing,
           ScrapeTargets!FirstContact, ScrapeTargets!Becomes
      <3>2. QED
        BY <3>1
    <2>5. QED
      BY <2>2, <2>3, <2>4 DEF AcceptsBootstrap
  <1>3. CASE ExpireCertificates(w)
    <2>1. handler[w].servers \in SUBSET Servers
      BY <1>3, RequestShapes DEF ExpireCertificates, Ends, ExpirySweep, TypeOK
    <2>2. ScrapeTargets!Expire(handler[w].servers)
      BY <1>3, <2>1 DEF ExpireCertificates, StateAfterExpiry, targetVars, Standing,
                        ScrapeTargets!Expire
    <2>3. QED
      BY <2>1, <2>2
  <1>4. QED
    BY <1>1, <1>2, <1>3 DEF RequestEnds

\* Every step of the tables and handlers is a step of the target table or a stutter.
LEMMA TargetsStep ==
    TypeOK /\ [Next]_vars => [ScrapeTargets!TargetsNext]_(ScrapeTargets!targetVars)
  <1> SUFFICES ASSUME TypeOK, [Next]_vars
               PROVE  [ScrapeTargets!TargetsNext]_(ScrapeTargets!targetVars)
    OBVIOUS
  <1>1. ASSUME NEW w \in Workers, RequestBegins(w)
        PROVE  UNCHANGED ScrapeTargets!targetVars
    BY <1>1, TargetStutter DEF RequestBegins, BeginIssueToken, BeginBootstrap,
       BeginRenewal, BeginTelemetryCheck, BeginExpirySweep, serverVars, targetVars
  <1>2. CASE RecoverIntermediate
    <2> DEFINE pending == {s \in Servers : enrollmentState[s] = "pending-verification"}
    <2>1. ScrapeTargets!Distrust(pending)
      BY <1>2 DEF RecoverIntermediate, Standing, ScrapeTargets!Distrust, TypeOK,
                  EnrollmentStates
    <2>2. QED
      BY <2>1 DEF ScrapeTargets!TargetsNext, ScrapeTargets!OtherChange
  <1>3. CASE Restart \/ UNCHANGED vars \/ \E t \in Tokens : TokenExpires(t)
    BY <1>3, TargetStutter DEF Restart, TokenExpires, vars, serverVars, targetVars
  <1>4. QED
    BY <1>1, <1>2, <1>3, TargetsServerStep, TargetsRequestEnds DEF Next

\* The state column and the target table change only as the model of the observation
\* engine lets them: what that model shows holds beside the enrollment of any number
\* of servers, keys and requests.
THEOREM EnrollmentImplementsScrapeTargets == Spec => ImplementsScrapeTargets
  <1>1. Init => ScrapeTargets!TargetsInit
    BY DEF Init, ScrapeTargets!TargetsInit, Standing
  <1>2. QED
    BY <1>1, TargetsStep, TypeCorrect, PTL
       DEF Spec, ImplementsScrapeTargets, ScrapeTargets!TargetsSpec

-----------------------------------------------------------------------------
\* First contact is the only way to Pending Verification, and it spends a token that no
\* other has, taken in time, for a key new to the history.
THEOREM FirstContactSpends == Spec => FirstContactSpendsToken
  <1> DEFINE Spends ==
        \A s \in Servers :
          enrollmentState[s] # "pending-verification"
          /\ enrollmentState'[s] = "pending-verification"
          => /\ \E t \in Tokens : \E w \in Presenting(t) :
                   handler[w].timely /\ Unspent(t, s) /\ token'[t].status = "consumed"
             /\ issuedTo[certificate'[s]] = None
             /\ certificate'[s] = pendingCode'[s]
  <1>1. TypeOK /\ [Next]_vars => [Spends]_vars
    <2> SUFFICES ASSUME TypeOK, Next, NEW s \in Servers,
                        enrollmentState[s] # "pending-verification",
                        enrollmentState'[s] = "pending-verification"
                 PROVE  /\ \E t \in Tokens : \E w \in Presenting(t) :
                              handler[w].timely /\ Unspent(t, s)
                              /\ token'[t].status = "consumed"
                        /\ issuedTo[certificate'[s]] = None
                        /\ certificate'[s] = pendingCode'[s]
      OBVIOUS
    <2>1. PICK w \in Workers : ConsumeBootstrapToken(w)
      <3>1. ASSUME NEW r \in Servers, ServerStep(r)
            PROVE  FALSE
        BY <3>1 DEF ServerStep, RegisterServer, StageAddressChange, RotateCertificate,
           ActivateAddressChange, ApproveEnrollment, RejectEnrollment, CertificateAges,
           RevokeCertificate, RetireServer, serverVars, TypeOK
      <3>2. ASSUME NEW w \in Workers, RequestBegins(w)
            PROVE  FALSE
        BY <3>2 DEF RequestBegins, BeginIssueToken, BeginBootstrap, BeginRenewal,
           BeginTelemetryCheck, BeginExpirySweep, serverVars
      <3>3. CASE RecoverIntermediate
        BY <3>3 DEF RecoverIntermediate, TypeOK
      <3>4. CASE Restart \/ \E t \in Tokens : TokenExpires(t)
        BY <3>4 DEF Restart, TokenExpires, serverVars
      <3>5. ASSUME NEW w \in Workers, RequestEnds(w), ~ConsumeBootstrapToken(w)
            PROVE  FALSE
        BY <3>5 DEF RequestEnds, IssueBootstrapToken, RenewCertificate,
           RecordStagedObservations, ExpireCertificates, StateAfterExpiry, RequestFails,
           serverVars, TypeOK
      <3>6. QED
        BY <3>1, <3>2, <3>3, <3>4, <3>5 DEF Next
    <2>2. /\ handler[w].server \in Servers
          /\ handler[w].token \in Tokens
          /\ handler[w].fingerprint \in Fingerprints
      BY <2>1, RequestShapes DEF ConsumeBootstrapToken, Ends, BootstrapRequest, TypeOK
    <2>3. handler[w].server = s
      BY <2>1, <2>2 DEF ConsumeBootstrapToken, TypeOK
    <2>4. /\ Unspent(handler[w].token, s)
          /\ handler[w].timely
          /\ w \in Presenting(handler[w].token)
          /\ issuedTo[handler[w].fingerprint] = None
      BY <2>1, <2>3 DEF ConsumeBootstrapToken, FirstContactChecks,
                        FirstContactRowsFree, HistoryRowFree, Presenting, Ends
    <2>5. token'[handler[w].token].status = "consumed"
      BY <2>1, <2>2, <2>4 DEF ConsumeBootstrapToken, Unspent, TypeOK
    <2>6. certificate'[s] = handler[w].fingerprint
            /\ pendingCode'[s] = handler[w].fingerprint
      BY <2>1, <2>2, <2>3 DEF ConsumeBootstrapToken, TypeOK
    <2>7. QED
      BY <2>2, <2>4, <2>5, <2>6
  <1>2. QED
    BY <1>1, TypeCorrect, PTL DEF Spec, FirstContactSpendsToken
=============================================================================
