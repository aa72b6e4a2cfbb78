----------------------------- MODULE Enrollment -----------------------------
(***************************************************************************)
(* Server Enrollment and collector trust: the tables of the dashboard's    *)
(* SQLite database that decide which collector speaks for which server,    *)
(* the transactions that change them (database.py) and the HTTP handlers   *)
(* and sweeps that read in one transaction and write in a later one        *)
(* (app.py, observation.py).                                               *)
(*                                                                         *)
(* A transaction opened with BEGIN IMMEDIATE is one action.  A handler that *)
(* reads first, then calls openssl or the network, then writes, is two:    *)
(* what it read is kept in handler[w] between them, and every other action *)
(* may happen in the gap.  The sweep of expired certificates and the issue *)
(* of a bootstrap token are of that kind too: Python's sqlite3 opens their *)
(* transaction at the first write, after the SELECT.                       *)
(*                                                                         *)
(* An operator X_Slip beside an operator X is X as a slip in the code      *)
(* would have it.  Nothing uses it; put in the place of X, it shows which  *)
(* property would notice.                                                  *)
(***************************************************************************)
EXTENDS Naturals, FiniteSets

CONSTANTS
    Servers,      \* Server IDs, drawn at registration and never reused
    Fingerprints, \* public-key fingerprints of collector keys
    Tokens,       \* bootstrap tokens
    Addresses,    \* scrape addresses
    Workers,      \* threads: HTTP handlers, and the observation engine
    None          \* no value: a NULL, or a row that is not there

ASSUME NoneAssumption ==
    None \notin Servers \cup Fingerprints \cup Tokens \cup Addresses

VARIABLES
    enrollmentState, \* servers.enrollment_state
    scrapeAddress,   \* servers.scrape_address
    certificate,     \* collector_certificates: the current fingerprint
    certificateAge,  \* its expires_at against the clock
    issuedTo,        \* collector_certificate_history: fingerprint -> server
    openHistory,     \* the rows of that table whose ended_at IS NULL
    revoked,         \* revoked_collector_fingerprints
    token,           \* bootstrap_tokens
    staging,         \* staging_scrape_targets: the address
    active,          \* active_scrape_targets: the address
    addressChange,   \* pending_scrape_address_changes
    pendingCode,     \* pending_enrollments.verification_code, by the key it names
    observed,        \* observations_json holds every required observation
    handler          \* requests and sweeps between their read and their write

serverVars == <<enrollmentState, scrapeAddress>>
trustVars  == <<certificate, certificateAge, issuedTo, openHistory, revoked>>
targetVars == <<staging, active, addressChange>>
reviewVars == <<pendingCode, observed>>
vars == <<serverVars, trustVars, token, targetVars, reviewVars, handler>>

-----------------------------------------------------------------------------
EnrollmentStates ==
    {"unregistered", "awaiting-first-contact", "pending-verification",
     "active", "re-enrollment-required", "retired"}

Ages == {"fresh", "due", "expired"}

TokenRecord ==
    [server: Servers \cup {None},
     status: {"unissued", "usable", "consumed", "expired"}]

AddressChange == [address: Addresses, fingerprint: Fingerprints]

Idle == [kind |-> "idle"]

IssueRequest     == [kind: {"issue"}, server: Servers, token: Tokens]
BootstrapRequest == [kind: {"bootstrap"}, server: Servers, token: Tokens,
                     fingerprint: Fingerprints, timely: BOOLEAN]
RenewalRequest   == [kind: {"renew"}, server: Servers,
                     current: Fingerprints, fingerprint: Fingerprints]
TelemetryRequest == [kind: {"telemetry"}, server: Servers]
ExpirySweep      == [kind: {"expiry"}, servers: SUBSET Servers,
                     fingerprints: SUBSET Fingerprints]

Handler == {Idle} \cup IssueRequest \cup BootstrapRequest \cup RenewalRequest
             \cup TelemetryRequest \cup ExpirySweep

TypeOK ==
    /\ enrollmentState \in [Servers -> EnrollmentStates]
    /\ scrapeAddress \in [Servers -> Addresses \cup {None}]
    /\ certificate \in [Servers -> Fingerprints \cup {None}]
    /\ certificateAge \in [Servers -> Ages]
    /\ issuedTo \in [Fingerprints -> Servers \cup {None}]
    /\ openHistory \subseteq Fingerprints
    /\ revoked \subseteq Fingerprints
    /\ token \in [Tokens -> TokenRecord]
    /\ staging \in [Servers -> Addresses \cup {None}]
    /\ active \in [Servers -> Addresses \cup {None}]
    /\ addressChange \in [Servers -> AddressChange \cup {None}]
    /\ pendingCode \in [Servers -> Fingerprints \cup {None}]
    /\ observed \in [Servers -> BOOLEAN]
    /\ handler \in [Workers -> Handler]

Init ==
    /\ enrollmentState = [s \in Servers |-> "unregistered"]
    /\ scrapeAddress = [s \in Servers |-> None]
    /\ certificate = [s \in Servers |-> None]
    /\ certificateAge = [s \in Servers |-> "fresh"]
    /\ issuedTo = [f \in Fingerprints |-> None]
    /\ openHistory = {}
    /\ revoked = {}
    /\ token = [t \in Tokens |-> [server |-> None, status |-> "unissued"]]
    /\ staging = [s \in Servers |-> None]
    /\ active = [s \in Servers |-> None]
    /\ addressChange = [s \in Servers |-> None]
    /\ pendingCode = [s \in Servers |-> None]
    /\ observed = [s \in Servers |-> FALSE]
    /\ handler = [w \in Workers |-> Idle]

-----------------------------------------------------------------------------
(***************************************************************************)
(* Threads.  A request that fails after its read, an openssl that times    *)
(* out or a collector that does not answer leaves the database as it was.  *)
(* A crash or a restart of the process loses every request in flight.      *)
(***************************************************************************)
Starts(w, request) ==
    /\ handler[w] = Idle
    /\ handler' = [handler EXCEPT ![w] = request]

Ends(w, kind) ==
    /\ handler[w].kind = kind
    /\ handler' = [handler EXCEPT ![w] = Idle]

RequestFails(w) ==
    /\ handler[w] # Idle
    /\ handler' = [handler EXCEPT ![w] = Idle]
    /\ UNCHANGED <<serverVars, trustVars, token, targetVars, reviewVars>>

Restart ==
    /\ handler' = [w \in Workers |-> Idle]
    /\ UNCHANGED <<serverVars, trustVars, token, targetVars, reviewVars>>

-----------------------------------------------------------------------------
(***************************************************************************)
(* Registration and bootstrap tokens.                                      *)
(***************************************************************************)
AcceptsBootstrap(s) ==
    enrollmentState[s] \in {"awaiting-first-contact", "re-enrollment-required"}

TokenUsable(t, s) == token[t] = [server |-> s, status |-> "usable"]

RegisterServer(s, a) ==
    /\ enrollmentState[s] = "unregistered"
    /\ enrollmentState' = [enrollmentState EXCEPT ![s] = "awaiting-first-contact"]
    /\ scrapeAddress' = [scrapeAddress EXCEPT ![s] = a]
    /\ UNCHANGED <<trustVars, token, targetVars, reviewVars, handler>>

BeginIssueToken(w, s, t) ==
    /\ AcceptsBootstrap(s)
    /\ Starts(w, [kind |-> "issue", server |-> s, token |-> t])
    /\ UNCHANGED <<serverVars, trustVars, token, targetVars, reviewVars>>

IssueBootstrapToken(w) ==
    /\ Ends(w, "issue")
    /\ token[handler[w].token].status = "unissued"
    /\ token' = [token EXCEPT ![handler[w].token] =
                     [server |-> handler[w].server, status |-> "usable"]]
    /\ UNCHANGED <<serverVars, trustVars, targetVars, reviewVars>>

Presenting(t) == {w \in Workers : handler[w].kind = "bootstrap" /\ handler[w].token = t}

\* Fifteen minutes pass since the token was issued.  Of the requests that have found it
\* usable, those that are late have not yet taken the time it will be judged by.
TokenExpires(t) ==
    /\ token[t].status = "usable"
    /\ token' = [token EXCEPT ![t].status = "expired"]
    /\ \E late \in SUBSET Presenting(t) :
          handler' = [w \in Workers |-> IF w \in late THEN [handler[w] EXCEPT !.timely = FALSE]
                                        ELSE handler[w]]
    /\ UNCHANGED <<serverVars, trustVars, targetVars, reviewVars>>

-----------------------------------------------------------------------------
(***************************************************************************)
(* First contact.  The handler checks the token, has openssl sign the      *)
(* collector's request, and only then consumes the token: it takes the     *)
(* time, waits for the write lock and checks again.  The inserts that end  *)
(* the transaction have no ON CONFLICT clause: a row already under one of  *)
(* their primary keys fails the whole transaction.                         *)
(***************************************************************************)
BeginBootstrap(w, s, t, f) ==
    /\ TokenUsable(t, s)
    /\ Starts(w, [kind |-> "bootstrap", server |-> s, token |-> t,
                  fingerprint |-> f, timely |-> TRUE])
    /\ UNCHANGED <<serverVars, trustVars, token, targetVars, reviewVars>>

Unspent(t, s) == token[t].server = s /\ token[t].status \in {"usable", "expired"}

FirstContactChecks_StateOnly(request) == AcceptsBootstrap(request.server)

FirstContactChecks_AnyTime(request) ==
    /\ request.fingerprint \notin revoked
    /\ Unspent(request.token, request.server)
    /\ AcceptsBootstrap(request.server)

FirstContactChecks(request) ==
    /\ request.fingerprint \notin revoked
    /\ Unspent(request.token, request.server)
    /\ request.timely
    /\ AcceptsBootstrap(request.server)

HistoryRowFree_Upsert(f) == TRUE

HistoryRowFree(f) == issuedTo[f] = None

FirstContactRowsFree(s, f) ==
    /\ certificate[s] = None
    /\ HistoryRowFree(f)
    /\ staging[s] = None
    /\ pendingCode[s] = None

ConsumeBootstrapToken(w) ==
    LET s == handler[w].server
        t == handler[w].token
        f == handler[w].fingerprint
    IN  /\ Ends(w, "bootstrap")
        /\ FirstContactChecks(handler[w])
        /\ FirstContactRowsFree(s, f)
        /\ token' = [token EXCEPT ![t].status = "consumed"]
        /\ enrollmentState' = [enrollmentState EXCEPT ![s] = "pending-verification"]
        /\ certificate' = [certificate EXCEPT ![s] = f]
        /\ certificateAge' = [certificateAge EXCEPT ![s] = "fresh"]
        /\ issuedTo' = [issuedTo EXCEPT ![f] = s]
        /\ openHistory' = openHistory \cup {f}
        /\ staging' = [staging EXCEPT ![s] = scrapeAddress[s]]
        /\ pendingCode' = [pendingCode EXCEPT ![s] = f]
        /\ observed' = [observed EXCEPT ![s] = FALSE]
        /\ UNCHANGED <<scrapeAddress, revoked, active, addressChange>>

-----------------------------------------------------------------------------
(***************************************************************************)
(* Verification: the administrator's check of the staged collector, which  *)
(* scrapes it between reading the target and recording what it saw, and    *)
(* the decision, given with the verification code of the enrollment.  The  *)
(* inventory check only adds to what can refuse an approval.               *)
(***************************************************************************)
BeginTelemetryCheck(w, s) ==
    /\ staging[s] # None
    /\ Starts(w, [kind |-> "telemetry", server |-> s])
    /\ UNCHANGED <<serverVars, trustVars, token, targetVars, reviewVars>>

RecordStagedObservations(w, complete) ==
    LET s == handler[w].server
    IN  /\ Ends(w, "telemetry")
        /\ pendingCode[s] # None
        /\ enrollmentState[s] = "pending-verification"
        /\ observed' = [observed EXCEPT ![s] = complete]
        /\ UNCHANGED <<serverVars, trustVars, token, targetVars, pendingCode>>

UnstageTargets_Kept(S) == UNCHANGED staging

UnstageTargets(S) ==
    staging' = [s \in Servers |-> IF s \in S THEN None ELSE staging[s]]

Decidable(s) ==
    /\ enrollmentState[s] = "pending-verification"
    /\ pendingCode[s] # None
    /\ certificate[s] # None

ApproveEnrollment(s) ==
    /\ Decidable(s)
    /\ observed[s]
    /\ staging[s] # None
    /\ active' = [active EXCEPT ![s] = staging[s]]
    /\ UnstageTargets({s})
    /\ pendingCode' = [pendingCode EXCEPT ![s] = None]
    /\ observed' = [observed EXCEPT ![s] = FALSE]
    /\ enrollmentState' = [enrollmentState EXCEPT ![s] = "active"]
    /\ UNCHANGED <<scrapeAddress, trustVars, token, addressChange, handler>>

RejectEnrollment(s) ==
    /\ Decidable(s)
    /\ certificate[s] \notin revoked
    /\ revoked' = revoked \cup {certificate[s]}
    /\ certificate' = [certificate EXCEPT ![s] = None]
    /\ certificateAge' = [certificateAge EXCEPT ![s] = "fresh"]
    /\ UnstageTargets({s})
    /\ pendingCode' = [pendingCode EXCEPT ![s] = None]
    /\ observed' = [observed EXCEPT ![s] = FALSE]
    /\ enrollmentState' = [enrollmentState EXCEPT ![s] = "awaiting-first-contact"]
    /\ UNCHANGED <<scrapeAddress, issuedTo, openHistory, token, active,
                   addressChange, handler>>

-----------------------------------------------------------------------------
(***************************************************************************)
(* Replacing a certificate.  Renewal is asked for by the collector, with   *)
(* the certificate it holds, within ten days of its expiry; rotation by an *)
(* administrator at any time.                                              *)
(***************************************************************************)
BeginRenewal(w, s, f) ==
    /\ certificate[s] # None
    /\ certificateAge[s] \in {"due", "expired"}
    /\ Starts(w, [kind |-> "renew", server |-> s,
                  current |-> certificate[s], fingerprint |-> f])
    /\ UNCHANGED <<serverVars, trustVars, token, targetVars, reviewVars>>

\* The inserted history row is keyed by the new fingerprint.
ReplaceCertificate(s, f) ==
    /\ HistoryRowFree(f)
    /\ certificate' = [certificate EXCEPT ![s] = f]
    /\ certificateAge' = [certificateAge EXCEPT ![s] = "fresh"]
    /\ issuedTo' = [issuedTo EXCEPT ![f] = s]
    /\ openHistory' = (openHistory \ {certificate[s]}) \cup {f}
    /\ UNCHANGED revoked

RenewCertificate(w) ==
    LET s == handler[w].server
    IN  /\ Ends(w, "renew")
        /\ certificate[s] = handler[w].current
        /\ certificateAge[s] \in {"due", "expired"}
        /\ ReplaceCertificate(s, handler[w].fingerprint)
        /\ UNCHANGED <<serverVars, token, targetVars, reviewVars>>

RotateCertificate(s, f) ==
    /\ certificate[s] # None
    /\ ReplaceCertificate(s, f)
    /\ UNCHANGED <<serverVars, token, targetVars, reviewVars, handler>>

-----------------------------------------------------------------------------
(***************************************************************************)
(* Losing trust: revocation, expiry, compromise of the intermediate CA and *)
(* retirement.                                                             *)
(***************************************************************************)
\* Days pass: the certificate comes within ten days of its expiry, then reaches it.
CertificateAges(s) ==
    /\ certificate[s] # None
    /\ \/ certificateAge[s] = "fresh" /\ certificateAge' = [certificateAge EXCEPT ![s] = "due"]
       \/ certificateAge[s] = "due" /\ certificateAge' = [certificateAge EXCEPT ![s] = "expired"]
    /\ UNCHANGED <<serverVars, certificate, issuedTo, openHistory, revoked, token,
                   targetVars, reviewVars, handler>>

DropCertificates(dropped) ==
    /\ certificate' = [s \in Servers |-> IF s \in dropped THEN None ELSE certificate[s]]
    /\ certificateAge' = [s \in Servers |-> IF s \in dropped THEN "fresh" ELSE certificateAge[s]]

RevokeCertificate(s) ==
    /\ certificate[s] # None
    /\ enrollmentState[s] = "active"
    /\ revoked' = revoked \cup {certificate[s]}
    /\ DropCertificates({s})
    /\ active' = [active EXCEPT ![s] = None]
    /\ openHistory' = openHistory \ {certificate[s]}
    /\ enrollmentState' = [enrollmentState EXCEPT ![s] = "re-enrollment-required"]
    /\ UNCHANGED <<scrapeAddress, issuedTo, token, staging, addressChange,
                   reviewVars, handler>>

Expired == {s \in Servers : certificate[s] # None /\ certificateAge[s] = "expired"}

BeginExpirySweep(w) ==
    /\ Expired # {}
    /\ Starts(w, [kind |-> "expiry", servers |-> Expired,
                  fingerprints |-> {certificate[s] : s \in Expired}])
    /\ UNCHANGED <<serverVars, trustVars, token, targetVars, reviewVars>>

StateAfterExpiry_Anyway(s) == "re-enrollment-required"
StateAfterExpiry_Kept(s) == enrollmentState[s]

StateAfterExpiry(s) ==
    IF enrollmentState[s] = "active" THEN "re-enrollment-required"
    ELSE enrollmentState[s]

\* The rows are found again by server, whatever certificate they hold by now.
ExpireCertificates(w) ==
    LET swept == handler[w].servers
    IN  /\ Ends(w, "expiry")
        /\ enrollmentState' =
               [s \in Servers |-> IF s \in swept THEN StateAfterExpiry(s)
                                  ELSE enrollmentState[s]]
        /\ openHistory' = openHistory \ handler[w].fingerprints
        /\ DropCertificates(swept)
        /\ UNCHANGED <<scrapeAddress, issuedTo, revoked, token, targetVars, reviewVars>>

ForgetAddressChange_Kept(s) == UNCHANGED addressChange

ForgetAddressChange(s) == addressChange' = [addressChange EXCEPT ![s] = None]

RecoverIntermediate ==
    /\ revoked' = revoked \cup ({certificate[s] : s \in Servers} \ {None})
    /\ openHistory' = {}
    /\ enrollmentState' =
           [s \in Servers |->
                IF enrollmentState[s] \in {"active", "pending-verification"}
                THEN "re-enrollment-required"
                ELSE enrollmentState[s]]
    /\ DropCertificates(Servers)
    /\ UnstageTargets(Servers)
    /\ active' = [s \in Servers |-> None]
    /\ UNCHANGED <<scrapeAddress, issuedTo, token, addressChange, reviewVars, handler>>

RetireServer(s) ==
    /\ enrollmentState[s] \notin {"unregistered", "retired"}
    /\ revoked' = revoked \cup ({certificate[s]} \ {None})
    /\ openHistory' = openHistory \ {certificate[s]}
    /\ DropCertificates({s})
    /\ UnstageTargets({s})
    /\ active' = [active EXCEPT ![s] = None]
    /\ ForgetAddressChange(s)
    /\ pendingCode' = [pendingCode EXCEPT ![s] = None]
    /\ observed' = [observed EXCEPT ![s] = FALSE]
    /\ enrollmentState' = [enrollmentState EXCEPT ![s] = "retired"]
    /\ UNCHANGED <<scrapeAddress, issuedTo, token, handler>>

-----------------------------------------------------------------------------
(***************************************************************************)
(* Moving a server: the new address is staged against the fingerprint the  *)
(* collector holds, and becomes the active one when the administrator      *)
(* reports that fingerprint seen there.                                    *)
(***************************************************************************)
StageAddressChange(s, a) ==
    /\ certificate[s] # None
    /\ active[s] # None
    /\ addressChange' = [addressChange EXCEPT ![s] =
                             [address |-> a, fingerprint |-> certificate[s]]]
    /\ staging' = [staging EXCEPT ![s] = a]
    /\ UNCHANGED <<serverVars, trustVars, token, active, reviewVars, handler>>

ActivatedAddress_Row(s) == addressChange[s]

ActivatedAddress(s) == addressChange[s].address

MovedTarget_Upserted(s) == ActivatedAddress(s)

\* An UPDATE: of a target that is gone by now there is nothing to move.
MovedTarget(s) == IF active[s] = None THEN None ELSE ActivatedAddress(s)

ActivateAddressChange(s, f) ==
    /\ addressChange[s] # None
    /\ addressChange[s].fingerprint = f
    /\ scrapeAddress' = [scrapeAddress EXCEPT ![s] = ActivatedAddress(s)]
    /\ active' = [active EXCEPT ![s] = MovedTarget(s)]
    /\ UnstageTargets({s})
    /\ ForgetAddressChange(s)
    /\ UNCHANGED <<enrollmentState, trustVars, token, reviewVars, handler>>

-----------------------------------------------------------------------------
ServerStep(s) ==
    \/ \E a \in Addresses : RegisterServer(s, a) \/ StageAddressChange(s, a)
    \/ \E f \in Fingerprints : RotateCertificate(s, f) \/ ActivateAddressChange(s, f)
    \/ ApproveEnrollment(s)
    \/ RejectEnrollment(s)
    \/ CertificateAges(s)
    \/ RevokeCertificate(s)
    \/ RetireServer(s)

RequestBegins(w) ==
    \/ \E s \in Servers, t \in Tokens :
          \/ BeginIssueToken(w, s, t)
          \/ \E f \in Fingerprints : BeginBootstrap(w, s, t, f)
    \/ \E s \in Servers, f \in Fingerprints : BeginRenewal(w, s, f)
    \/ \E s \in Servers : BeginTelemetryCheck(w, s)
    \/ BeginExpirySweep(w)

RequestEnds(w) ==
    \/ IssueBootstrapToken(w)
    \/ ConsumeBootstrapToken(w)
    \/ RenewCertificate(w)
    \/ \E complete \in BOOLEAN : RecordStagedObservations(w, complete)
    \/ ExpireCertificates(w)
    \/ RequestFails(w)

Next ==
    \/ \E s \in Servers : ServerStep(s)
    \/ \E w \in Workers : RequestBegins(w) \/ RequestEnds(w)
    \/ \E t \in Tokens : TokenExpires(t)
    \/ RecoverIntermediate
    \/ Restart

Spec == Init /\ [][Next]_vars
-----------------------------------------------------------------------------
(***************************************************************************)
(* Safety.                                                                 *)
(***************************************************************************)
\* The current certificate of a server was issued to that server, stands open in
\* the history, and its key is not one an administrator has withdrawn.  Neither
\* renewal nor rotation looks into the table of revoked fingerprints
\* (database.py:2283-2422): only the primary key of the history keeps them honest.
CertificateTrusted ==
    \A s \in Servers : certificate[s] # None =>
        /\ certificate[s] \notin revoked
        /\ issuedTo[certificate[s]] = s
        /\ certificate[s] \in openHistory

\* A retired server keeps no credential, no scrape target and no open review, and
\* no request in flight when it was retired gives it one back (retire_server
\* against every handler that read before it).
RetiredHoldsNothing ==
    \A s \in Servers : enrollmentState[s] = "retired" =>
        /\ certificate[s] = None
        /\ staging[s] = None
        /\ active[s] = None
        /\ pendingCode[s] = None
        /\ addressChange[s] = None

\* An active server can be observed: it holds a certificate and a scrape target,
\* and its review is closed.  A sweep of expired certificates that runs on what it
\* read earlier takes the certificate and the state together.
ActiveIsObservable ==
    \A s \in Servers : enrollmentState[s] = "active" =>
        /\ certificate[s] # None
        /\ active[s] # None
        /\ pendingCode[s] = None

\* The review on record belongs to the state: a server pending verification has
\* one, opened for a key issued to that very server; a server that awaits first
\* contact has neither review, certificate nor staged target in the way of the
\* next one; no review is open for a server unregistered, active or retired.
ReviewMatchesState ==
    \A s \in Servers :
        /\ enrollmentState[s] = "pending-verification" => pendingCode[s] # None
        /\ enrollmentState[s] = "awaiting-first-contact" =>
               certificate[s] = None /\ staging[s] = None
        /\ pendingCode[s] # None =>
               /\ enrollmentState[s] \in {"pending-verification", "re-enrollment-required"}
               /\ issuedTo[pendingCode[s]] = s

\* A server reaches Pending Verification only by a first contact that spends a
\* token issued for that server, neither spent before nor past its expiry when the
\* request took its time, and that brings a key no collector has used before; of two
\* requests that both found the token valid, one gets through
\* (consume_bootstrap_token checks again what the handler checked).
FirstContactSpendsToken ==
    [][\A s \in Servers :
          enrollmentState[s] # "pending-verification"
          /\ enrollmentState'[s] = "pending-verification"
          => /\ \E t \in Tokens : \E w \in Presenting(t) :
                   handler[w].timely /\ Unspent(t, s) /\ token'[t].status = "consumed"
             /\ issuedTo[certificate'[s]] = None
             /\ certificate'[s] = pendingCode'[s]]_vars

\* The tables and handlers implement the lifecycle a server is promised.
Lifecycle == INSTANCE ServerLifecycle WITH
    stage    <- enrollmentState,
    identity <- certificate,
    used     <- {f \in Fingerprints : issuedTo[f] # None},
    refused  <- revoked

\* Every behaviour of the tables, handlers and sweeps is one of the lifecycle:
\* no key speaks again once replaced, dropped or revoked, no server leaves
\* retirement, and only an approval makes a server active.
ImplementsLifecycle == Lifecycle!Spec

\* What observation depends on of the state column.
Standing(s) ==
    IF enrollmentState[s] \in {"active", "re-enrollment-required", "retired"}
    THEN enrollmentState[s] ELSE "unverified"

\* The two columns the observation engine reads change as it is told they do.
ScrapeTargets == INSTANCE ScrapeTargets WITH
    standing <- [s \in Servers |-> Standing(s)],
    targets  <- active

\* Every behaviour of the tables, handlers and sweeps is one of the table that the
\* observation engine is modelled beside: a target appears only by an approval,
\* moves only where there is one, and goes with revocation, retirement and recovery
\* but not with expiry.
ImplementsScrapeTargets == ScrapeTargets!TargetsSpec

-----------------------------------------------------------------------------
(***************************************************************************)
(* What the safety properties rest on: with these conjuncts they are       *)
(* inductive.                                                              *)
(***************************************************************************)
\* Only keys that once spoke for a server have been revoked, so a key that is new
\* to the history is not among the revoked ones.
RevokedWereIssued == \A f \in revoked : issuedTo[f] # None

\* The keys a sweep has read belong to the servers it has read.
SweepsReadIssued ==
    \A w \in Workers : handler[w].kind = "expiry" =>
        \A f \in handler[w].fingerprints : issuedTo[f] \in handler[w].servers

\* There is no row about a server that is not registered.
UnregisteredHoldsNothing ==
    \A s \in Servers : enrollmentState[s] = "unregistered" =>
        certificate[s] = None /\ staging[s] = None /\ active[s] = None

TrustInvariant == CertificateTrusted /\ RevokedWereIssued /\ SweepsReadIssued

TableInvariant ==
    /\ RetiredHoldsNothing
    /\ ActiveIsObservable
    /\ ReviewMatchesState
    /\ UnregisteredHoldsNothing

-----------------------------------------------------------------------------
(***************************************************************************)
(* What the documents and the code's own records say, and the code does    *)
(* not keep.                                                               *)
(***************************************************************************)
\* Re-enrollment is open to a server that requires it: no row left from its
\* earlier enrollment takes the primary key that the next first contact inserts.
ReEnrollmentPossible ==
    \A s \in Servers : enrollmentState[s] = "re-enrollment-required" =>
        certificate[s] = None /\ staging[s] = None /\ pendingCode[s] = None

\* A sweep takes only certificates that have reached their expiry.
OnlyExpiredCertificatesExpire ==
    [][\A w \in Workers :
          handler[w].kind = "expiry" /\ handler'[w] = Idle /\ certificate' # certificate
          => \A s \in Servers : certificate[s] # None /\ certificate'[s] = None
                                => certificateAge[s] = "expired"]_vars
=============================================================================
