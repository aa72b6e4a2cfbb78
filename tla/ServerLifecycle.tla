--------------------------- MODULE ServerLifecycle ---------------------------
(***************************************************************************)
(* What Server Enrollment promises, without tables, tokens, targets or     *)
(* requests in flight: where each Server ID stands, which key speaks for   *)
(* it, which keys have ever spoken for a server, and which are refused for *)
(* good.  A key speaks for one server and, once replaced or dropped, for   *)
(* none again; a retired Server ID stays retired.                          *)
(***************************************************************************)
CONSTANTS Servers, Fingerprints, None

VARIABLES
    stage,    \* where the Server ID stands in its lifecycle
    identity, \* the key that speaks for the server, or None
    used,     \* every key that has spoken for some server
    refused   \* the keys withdrawn by an administrator

vars == <<stage, identity, used, refused>>

Init ==
    /\ stage = [s \in Servers |-> "unregistered"]
    /\ identity = [s \in Servers |-> None]
    /\ used = {}
    /\ refused = {}

Move(s, from, to) ==
    /\ stage[s] \in from
    /\ stage' = [stage EXCEPT ![s] = to]

Adopt(s, f) ==
    /\ f \notin used \cup refused
    /\ used' = used \cup {f}
    /\ identity' = [identity EXCEPT ![s] = f]

\* The servers of S lose their keys; with refuse the keys are refused for good.
Drop(S, refuse) ==
    /\ identity' = [s \in Servers |-> IF s \in S THEN None ELSE identity[s]]
    /\ refused' = IF refuse THEN refused \cup ({identity[s] : s \in S} \ {None})
                  ELSE refused

Register(s) ==
    /\ Move(s, {"unregistered"}, "awaiting-first-contact")
    /\ UNCHANGED <<identity, used, refused>>

FirstContact(s, f) ==
    /\ Move(s, {"awaiting-first-contact", "re-enrollment-required"},
            "pending-verification")
    /\ identity[s] = None
    /\ Adopt(s, f)
    /\ UNCHANGED refused

Approve(s) ==
    /\ identity[s] # None
    /\ Move(s, {"pending-verification"}, "active")
    /\ UNCHANGED <<identity, used, refused>>

Reject(s) ==
    /\ identity[s] # None
    /\ Move(s, {"pending-verification"}, "awaiting-first-contact")
    /\ Drop({s}, TRUE)
    /\ UNCHANGED used

Replace(s, f) ==
    /\ identity[s] # None
    /\ Adopt(s, f)
    /\ UNCHANGED <<stage, refused>>

\* The keys of S run out.  An active server must enroll again.
Lapse(S) ==
    /\ stage' = [s \in Servers |-> IF s \in S /\ stage[s] = "active"
                                   THEN "re-enrollment-required" ELSE stage[s]]
    /\ Drop(S, FALSE)
    /\ UNCHANGED used

Revoke(s) ==
    /\ identity[s] # None
    /\ Move(s, {"active"}, "re-enrollment-required")
    /\ Drop({s}, TRUE)
    /\ UNCHANGED used

\* The authority that signed every key is compromised: no key is trusted any more.
DistrustAll ==
    /\ stage' = [s \in Servers |->
                    IF stage[s] \in {"active", "pending-verification"}
                    THEN "re-enrollment-required" ELSE stage[s]]
    /\ Drop(Servers, TRUE)
    /\ UNCHANGED used

Retire(s) ==
    /\ Move(s, {"awaiting-first-contact", "pending-verification", "active",
                "re-enrollment-required"}, "retired")
    /\ Drop({s}, TRUE)
    /\ UNCHANGED used

Next ==
    \/ \E s \in Servers : Register(s) \/ Approve(s) \/ Reject(s) \/ Revoke(s) \/ Retire(s)
    \/ \E s \in Servers, f \in Fingerprints : FirstContact(s, f) \/ Replace(s, f)
    \/ \E S \in SUBSET Servers : Lapse(S)
    \/ DistrustAll

Spec == Init /\ [][Next]_vars
=============================================================================
