---------------------------- MODULE ScrapeTargets ----------------------------
(***************************************************************************)
(* What the rest of the dashboard relies on of Server Enrollment: whether  *)
(* a server is evaluated, and from which address it is scraped.  Both are  *)
(* read outside the transactions that change them.                         *)
(*                                                                         *)
(* A target may outlive the enrollment it was activated by: expiry leaves  *)
(* it in place, and the next first contact does not remove it.             *)
(***************************************************************************)
CONSTANTS
    Servers,   \* Server IDs
    Addresses, \* scrape addresses
    None       \* no target

VARIABLES
    standing, \* of servers.enrollment_state, what observation depends on
    targets   \* active_scrape_targets: the address, or None

targetVars == <<standing, targets>>

\* A server is unverified before its first contact and until that is approved.
Standings == {"unverified", "active", "re-enrollment-required", "retired"}

TargetTable == [Servers -> Addresses \cup {None}]

TargetsTypeOK ==
    /\ standing \in [Servers -> Standings]
    /\ targets \in TargetTable

TargetsInit ==
    /\ standing = [s \in Servers |-> "unverified"]
    /\ targets = [s \in Servers |-> None]

-----------------------------------------------------------------------------
Becomes(s, from, to) ==
    /\ standing[s] \in from
    /\ standing' = [standing EXCEPT ![s] = to]

Approve(s, a) ==
    /\ Becomes(s, {"unverified"}, "active")
    /\ targets' = [targets EXCEPT ![s] = a]

\* The target, if there is one still, stays through the new enrollment.
FirstContact(s) ==
    /\ Becomes(s, {"re-enrollment-required"}, "unverified")
    /\ UNCHANGED targets

\* Also after the enrollment has ended, as long as there is a target.
Move(s, a) ==
    /\ targets[s] # None
    /\ targets' = [targets EXCEPT ![s] = a]
    /\ UNCHANGED standing

Revoke(s) ==
    /\ Becomes(s, {"active"}, "re-enrollment-required")
    /\ targets' = [targets EXCEPT ![s] = None]

\* The certificates of S are past their expiry, as far as a sweep has read.
Expire(S) ==
    /\ standing' = [s \in Servers |-> IF s \in S /\ standing[s] = "active"
                                      THEN "re-enrollment-required" ELSE standing[s]]
    /\ UNCHANGED targets

\* The intermediate CA is compromised.  S are the servers pending verification.
Distrust(S) ==
    /\ \A s \in S : standing[s] = "unverified"
    /\ standing' = [s \in Servers |-> IF s \in S \/ standing[s] = "active"
                                      THEN "re-enrollment-required" ELSE standing[s]]
    /\ targets' = [s \in Servers |-> None]

Retire(s) ==
    /\ Becomes(s, Standings \ {"retired"}, "retired")
    /\ targets' = [targets EXCEPT ![s] = None]

-----------------------------------------------------------------------------
\* Every change of the two but the approvals.
OtherChange ==
    \/ \E s \in Servers : FirstContact(s) \/ Revoke(s) \/ Retire(s)
    \/ \E s \in Servers, a \in Addresses : Move(s, a)
    \/ \E S \in SUBSET Servers : Expire(S) \/ Distrust(S)

TargetsNext ==
    \/ \E s \in Servers, a \in Addresses : Approve(s, a)
    \/ OtherChange

TargetsSpec == TargetsInit /\ [][TargetsNext]_targetVars
=============================================================================
