--------------------------- MODULE ServerProfiles ---------------------------
(***************************************************************************)
(* Server Profiles and Server Inventory (database.py): revisions of        *)
(* profiles, the one configuration staged for each server, its activation  *)
(* when the collector reports it applied, and the hardware a server was    *)
(* verified with.                                                          *)
(*                                                                         *)
(* Every operation is a transaction opened with BEGIN IMMEDIATE, one       *)
(* action; only the collector takes two, it fetches the staged             *)
(* configuration and later reports its hash, and anything may be staged in *)
(* between.  A hash is the configuration it is the hash of.                *)
(*                                                                         *)
(* Of a definition only the temperature sensors it requires are kept, of   *)
(* an inventory only the device each logical sensor is bound to, and of a  *)
(* bundle the bindings.  Disks, GPUs and identifiers are compared in the   *)
(* same way and are not in the bundle; names, and observations that are    *)
(* still missing, only add to what can refuse a request.                   *)
(*                                                                         *)
(* An operator X_Slip beside X is X as a slip in the code would have it,   *)
(* to show which property would notice; nothing uses it.                   *)
(***************************************************************************)
EXTENDS Integers, Sequences

CONSTANTS
    Servers,
    Profiles,
    MaxRevision,    \* bound: revisions of one profile
    MaxActivations, \* bound: activations of one server
    Sensors,        \* logical names of temperature sensors
    Definitions,    \* the sets of them that a drafted definition may require
    Devices,        \* devices a sensor may be bound to
    SeededProfiles, \* profiles whose first revision comes with the program
    SeedRequires,   \* what that revision requires
    None            \* no value: a NULL, or a row that is not there

Revisions == 1..MaxRevision
Keys == [profile: Profiles, revision: Revisions]
Key(p, r) == [profile |-> p, revision |-> r]
Seeds == {Key(p, 1) : p \in SeededProfiles}

ASSUME BoundsAssumption == MaxRevision \in Nat \ {0} /\ MaxActivations \in Nat

ASSUME DefinitionsAssumption ==
    /\ SeededProfiles \subseteq Profiles
    /\ Definitions \subseteq SUBSET Sensors
    /\ SeedRequires \in [SeededProfiles -> SUBSET Sensors]

VARIABLES
    lifecycle,        \* server_profiles.state of every revision
    requires,         \* server_profiles.definition_json
    enrollmentState,  \* servers.enrollment_state
    assigned,         \* servers.profile_id and profile_revision
    configuration,    \* servers.active_configuration_hash
    activations,      \* server_profile_activations, oldest first
    staged,           \* staged_profile_configurations
    reported,         \* pending_enrollments.inventory_json
    verified,         \* verified_server_inventory
    pendingInventory, \* pending_inventory_changes
    collector         \* the configuration each collector has fetched

profileVars == <<lifecycle, requires>>
activeVars == <<assigned, configuration, activations>>
inventoryVars == <<reported, verified, pendingInventory>>
vars == <<profileVars, enrollmentState, activeVars, staged, inventoryVars, collector>>

-----------------------------------------------------------------------------
Lifecycles == {"absent", "draft", "published", "retired"}
EnrollmentStates ==
    {"unregistered", "awaiting-first-contact", "pending-verification",
     "active", "re-enrollment-required", "retired"}
Operations == {"publication", "assignment", "rollback"}

Inventory == [Sensors -> Devices \cup {None}]
Bindings == UNION {[D -> Devices \cup {None}] : D \in SUBSET Sensors}
Configuration == [target: Keys, bindings: Bindings]
Staged == [target: Keys, bindings: Bindings, operation: Operations]

ASSUME NoneAssumption ==
    None \notin Keys \cup Configuration \cup Staged \cup Inventory \cup Devices

TypeOK ==
    /\ lifecycle \in [Keys -> Lifecycles]
    /\ requires \in [Keys -> SUBSET Sensors]
    /\ enrollmentState \in [Servers -> EnrollmentStates]
    /\ assigned \in [Servers -> Keys \cup {None}]
    /\ configuration \in [Servers -> Configuration \cup {None}]
    /\ activations \in [Servers -> Seq(Keys)]
    /\ staged \in [Servers -> Staged \cup {None}]
    /\ reported \in [Servers -> Inventory \cup {None}]
    /\ verified \in [Servers -> Inventory \cup {None}]
    /\ pendingInventory \in [Servers -> Inventory \cup {None}]
    /\ collector \in [Servers -> Configuration \cup {None}]

Init ==
    /\ lifecycle = [k \in Keys |-> IF k \in Seeds THEN "published" ELSE "absent"]
    /\ requires = [k \in Keys |-> IF k \in Seeds THEN SeedRequires[k.profile] ELSE {}]
    /\ enrollmentState = [s \in Servers |-> "unregistered"]
    /\ assigned = [s \in Servers |-> None]
    /\ configuration = [s \in Servers |-> None]
    /\ activations = [s \in Servers |-> <<>>]
    /\ staged = [s \in Servers |-> None]
    /\ reported = [s \in Servers |-> None]
    /\ verified = [s \in Servers |-> None]
    /\ pendingInventory = [s \in Servers |-> None]
    /\ collector = [s \in Servers |-> None]

-----------------------------------------------------------------------------
(***************************************************************************)
(* Hardware.                                                               *)
(***************************************************************************)
Satisfies(inventory, sensors) == \A x \in sensors : inventory[x] # None

\* The part of an inventory that a definition requires, and binds sensors from.
Required(inventory, sensors) == [x \in sensors |-> inventory[x]]

\* The sensors of a server not verified yet are not bound.
StagedBindings(s, sensors) ==
    Required(IF verified[s] = None THEN [x \in Sensors |-> None] ELSE verified[s], sensors)

\* As far as it is required, the hardware is what the server was verified with.
SameHardware_Satisfied(s, inventory, sensors) ==
    verified[s] # None /\ Satisfies(inventory, sensors)

SameHardware(s, inventory, sensors) ==
    verified[s] # None /\ Required(verified[s], sensors) = Required(inventory, sensors)

-----------------------------------------------------------------------------
(***************************************************************************)
(* Revisions: draft, then published, then retired; the seeded ones stay.   *)
(***************************************************************************)
Existing(p) == {r \in Revisions : lifecycle[Key(p, r)] # "absent"}

Draft(k, sensors) ==
    /\ lifecycle' = [lifecycle EXCEPT ![k] = "draft"]
    /\ requires' = [requires EXCEPT ![k] = sensors]
    /\ UNCHANGED <<enrollmentState, activeVars, staged, inventoryVars, collector>>

CloneProfile(p, source) ==
    /\ lifecycle[source] \in {"published", "retired"}
    /\ Existing(p) = {}
    /\ Draft(Key(p, 1), requires[source])

CreateProfileDraft(p, r, sensors) ==
    /\ r - 1 \in Existing(p)
    /\ r \notin Existing(p)
    /\ Draft(Key(p, r), sensors)

OverwritesStaged_Always(s) == TRUE

\* A publication takes the slot of a server only from an earlier publication.
OverwritesStaged(s) == staged[s] = None \/ staged[s].operation = "publication"

AffectedBy(s, k) ==
    /\ assigned[s] # None
    /\ assigned[s].profile = k.profile
    /\ assigned[s].revision # k.revision

Stages(s, k, operation) ==
    [target |-> k, bindings |-> StagedBindings(s, requires[k]), operation |-> operation]

PublishProfile(k) ==
    /\ lifecycle[k] = "draft"
    /\ lifecycle' = [lifecycle EXCEPT ![k] = "published"]
    /\ staged' = [s \in Servers |-> IF AffectedBy(s, k) /\ OverwritesStaged(s)
                                    THEN Stages(s, k, "publication") ELSE staged[s]]
    /\ UNCHANGED <<requires, enrollmentState, activeVars, inventoryVars, collector>>

RetireProfile(k) ==
    /\ lifecycle[k] = "published"
    /\ k \notin Seeds
    /\ lifecycle' = [lifecycle EXCEPT ![k] = "retired"]
    /\ UNCHANGED <<requires, enrollmentState, activeVars, staged, inventoryVars, collector>>

-----------------------------------------------------------------------------
(***************************************************************************)
(* Staging for one server, and activation.                                 *)
(***************************************************************************)
Stageable_Exists(k, operation) == lifecycle[k] # "absent"

Stageable(k, operation) ==
    lifecycle[k] \in (IF operation = "assignment" THEN {"published"}
                      ELSE {"published", "retired"})

RollsBack_Inclusive(s, k) ==
    assigned[s].profile = k.profile /\ k.revision <= assigned[s].revision

RollsBack(s, k) ==
    assigned[s].profile = k.profile /\ k.revision < assigned[s].revision

StageProfileConfiguration(s, k, operation) ==
    /\ assigned[s] # None
    /\ Stageable(k, operation)
    /\ operation = "rollback" => RollsBack(s, k)
    /\ staged' = [staged EXCEPT ![s] = Stages(s, k, operation)]
    /\ UNCHANGED <<profileVars, enrollmentState, activeVars, inventoryVars, collector>>

StagedConfiguration(s) == [target |-> staged[s].target, bindings |-> staged[s].bindings]

\* The proxy's header is all that lets a collector through.
FetchStagedConfiguration(s) ==
    /\ staged[s] # None
    /\ collector' = [collector EXCEPT ![s] = StagedConfiguration(s)]
    /\ UNCHANGED <<profileVars, enrollmentState, activeVars, staged, inventoryVars>>

HashMatches_Revision(s) == collector[s].target = staged[s].target

HashMatches(s) == collector[s] = StagedConfiguration(s)

\* A report is refused without a trace in these tables when its hash is not the
\* staged one or the reported hardware does not meet the staged revision.
ReportMatches(s, inventory) ==
    /\ collector[s] # None
    /\ staged[s] # None
    /\ HashMatches(s)
    /\ Satisfies(inventory, requires[staged[s].target])

RecordActivation_Unrecorded(s, k) == UNCHANGED activations

RecordActivation(s, k) ==
    activations' = [activations EXCEPT ![s] = Append(activations[s], k)]

ActivateStaged(s, inventory) ==
    /\ ReportMatches(s, inventory)
    /\ SameHardware(s, inventory, requires[staged[s].target])
    /\ Len(activations[s]) < MaxActivations
    /\ assigned' = [assigned EXCEPT ![s] = staged[s].target]
    /\ configuration' = [configuration EXCEPT ![s] = StagedConfiguration(s)]
    /\ RecordActivation(s, staged[s].target)
    /\ staged' = [staged EXCEPT ![s] = None]
    /\ UNCHANGED <<profileVars, enrollmentState, inventoryVars, collector>>

\* Hardware other than the verified one is put up for acceptance instead, over any
\* change that was pending.
ActivationFindsChange(s, inventory) ==
    /\ ReportMatches(s, inventory)
    /\ ~SameHardware(s, inventory, requires[staged[s].target])
    /\ pendingInventory' = [pendingInventory EXCEPT ![s] = inventory]
    /\ UNCHANGED <<profileVars, enrollmentState, activeVars, staged, reported, verified,
                   collector>>

-----------------------------------------------------------------------------
(***************************************************************************)
(* Inventory.                                                              *)
(***************************************************************************)
RecordInventoryObservation(s, inventory) ==
    LET same == SameHardware(s, inventory, requires[assigned[s]])
    IN  /\ enrollmentState[s] = "active"
        /\ verified[s] # None
        /\ pendingInventory[s] = None
        /\ verified' = IF same THEN [verified EXCEPT ![s] = inventory] ELSE verified
        /\ pendingInventory' = IF same THEN pendingInventory
                               ELSE [pendingInventory EXCEPT ![s] = inventory]
        /\ UNCHANGED <<profileVars, enrollmentState, activeVars, staged, reported, collector>>

\* A server that was never verified has no row for the update to find.
AcceptInventoryChange(s) ==
    /\ pendingInventory[s] # None
    /\ verified' = [verified EXCEPT ![s] = IF verified[s] = None THEN None
                                           ELSE pendingInventory[s]]
    /\ pendingInventory' = [pendingInventory EXCEPT ![s] = None]
    /\ UNCHANGED <<profileVars, enrollmentState, activeVars, staged, reported, collector>>

-----------------------------------------------------------------------------
(***************************************************************************)
(* Enrollment, as far as it reads or writes profiles and inventories.      *)
(***************************************************************************)
LatestPublished(p, r) ==
    /\ lifecycle[Key(p, r)] = "published"
    /\ \A n \in Revisions : lifecycle[Key(p, n)] = "published" => n <= r

RegisterServer(s, p, r) ==
    /\ enrollmentState[s] = "unregistered"
    /\ LatestPublished(p, r)
    /\ enrollmentState' = [enrollmentState EXCEPT ![s] = "awaiting-first-contact"]
    /\ assigned' = [assigned EXCEPT ![s] = Key(p, r)]
    /\ UNCHANGED <<profileVars, configuration, activations, staged, inventoryVars, collector>>

FirstContact(s, inventory) ==
    /\ enrollmentState[s] \in {"awaiting-first-contact", "re-enrollment-required"}
    /\ reported[s] = None
    /\ enrollmentState' = [enrollmentState EXCEPT ![s] = "pending-verification"]
    /\ reported' = [reported EXCEPT ![s] = inventory]
    /\ UNCHANGED <<profileVars, activeVars, staged, verified, pendingInventory, collector>>

EnrolledConfiguration_Target(s) == assigned[s]

\* Every sensor of the inventory is bound, required or not.
EnrolledConfiguration(s) == [target |-> assigned[s], bindings |-> reported[s]]

ApproveEnrollment(s) ==
    /\ enrollmentState[s] = "pending-verification"
    /\ reported[s] # None
    /\ Satisfies(reported[s], requires[assigned[s]])
    /\ Len(activations[s]) < MaxActivations
    /\ verified' = [verified EXCEPT ![s] = reported[s]]
    /\ reported' = [reported EXCEPT ![s] = None]
    /\ configuration' = [configuration EXCEPT ![s] = EnrolledConfiguration(s)]
    /\ RecordActivation(s, assigned[s])
    /\ enrollmentState' = [enrollmentState EXCEPT ![s] = "active"]
    /\ UNCHANGED <<profileVars, assigned, staged, pendingInventory, collector>>

RejectEnrollment(s) ==
    /\ enrollmentState[s] = "pending-verification"
    /\ reported' = [reported EXCEPT ![s] = None]
    /\ enrollmentState' = [enrollmentState EXCEPT ![s] = "awaiting-first-contact"]
    /\ UNCHANGED <<profileVars, activeVars, staged, verified, pendingInventory, collector>>

\* Revocation, expiry, or the compromise of the intermediate.
TrustLost(s) ==
    /\ enrollmentState[s] \in {"active", "pending-verification"}
    /\ enrollmentState' = [enrollmentState EXCEPT ![s] = "re-enrollment-required"]
    /\ UNCHANGED <<profileVars, activeVars, staged, inventoryVars, collector>>

RetireServer(s) ==
    /\ enrollmentState[s] \notin {"unregistered", "retired"}
    /\ reported' = [reported EXCEPT ![s] = None]
    /\ enrollmentState' = [enrollmentState EXCEPT ![s] = "retired"]
    /\ UNCHANGED <<profileVars, activeVars, staged, verified, pendingInventory, collector>>

-----------------------------------------------------------------------------
ProfileStep ==
    \/ \E k \in Keys : PublishProfile(k) \/ RetireProfile(k)
    \/ \E p \in Profiles :
          \/ \E source \in Keys : CloneProfile(p, source)
          \/ \E r \in Revisions, sensors \in Definitions : CreateProfileDraft(p, r, sensors)

ConfigurationStep(s) ==
    \/ \E k \in Keys :
          \E operation \in {"assignment", "rollback"} :
             StageProfileConfiguration(s, k, operation)
    \/ FetchStagedConfiguration(s)
    \/ \E inventory \in Inventory :
          \/ ActivateStaged(s, inventory)
          \/ ActivationFindsChange(s, inventory)
          \/ RecordInventoryObservation(s, inventory)
    \/ AcceptInventoryChange(s)

EnrollmentStep(s) ==
    \/ \E p \in Profiles, r \in Revisions : RegisterServer(s, p, r)
    \/ \E inventory \in Inventory : FirstContact(s, inventory)
    \/ ApproveEnrollment(s)
    \/ RejectEnrollment(s)
    \/ TrustLost(s)
    \/ RetireServer(s)

Next ==
    \/ ProfileStep
    \/ \E s \in Servers : ConfigurationStep(s) \/ EnrollmentStep(s)

Spec == Init /\ [][Next]_vars
-----------------------------------------------------------------------------
(***************************************************************************)
(* Safety.                                                                 *)
(***************************************************************************)
InForce(k) == lifecycle[k] \in {"published", "retired"}

\* No draft is in force: a revision that a server is assigned, has staged or has ever
\* activated is published, or was, and so has content nobody can edit any more.
NoDraftInForce ==
    \A s \in Servers :
        /\ assigned[s] # None => InForce(assigned[s])
        /\ staged[s] # None => InForce(staged[s].target)
        /\ \A n \in DOMAIN activations[s] : InForce(activations[s][n])

\* What the server's row, the hash of its active configuration and the history of
\* activations (profile_revision_at reads its last entry) say of the profile agrees,
\* and a server has a configuration exactly if it has ever been activated.
ActiveRecordsAgree ==
    \A s \in Servers :
        /\ configuration[s] = None <=> activations[s] = <<>>
        /\ configuration[s] # None =>
              /\ configuration[s].target = assigned[s]
              /\ activations[s][Len(activations[s])] = assigned[s]

\* The slot fits the server it is for, however long it has waited: a publication is of
\* another revision of the server's own profile, and a rollback of a lower one; no
\* operation moves the server under its staged configuration.
StagingFitsServer ==
    \A s \in Servers : staged[s] # None =>
        /\ assigned[s] # None
        /\ staged[s].operation = "publication" =>
              AffectedBy(s, staged[s].target)
        /\ staged[s].operation = "rollback" =>
              /\ staged[s].target.profile = assigned[s].profile
              /\ staged[s].target.revision < assigned[s].revision

\* What an administrator has staged for a server stays until it is activated or an
\* administrator stages something else; publications do not take its place.
ExplicitStagingWaits ==
    [][\A s \in Servers :
          staged[s] # None /\ staged[s].operation # "publication" /\ staged'[s] # staged[s]
          => \/ staged'[s] # None /\ staged'[s].operation # "publication"
             \/ configuration'[s] = StagedConfiguration(s) /\ assigned'[s] = staged[s].target]_vars

\* A configuration becomes active by activation only as its collector has applied it:
\* what was staged between the fetch and the report is not activated unseen.
AppliedIsActive ==
    [][\A s \in Servers :
          configuration'[s] # configuration[s] /\ enrollmentState'[s] = enrollmentState[s]
          => configuration'[s] = collector[s]]_vars

\* A server that takes on another revision has been verified to have what it requires:
\* the inventory on record satisfies it, not only the one reported on activation.
ActivatedOnVerifiedHardware ==
    [][\A s \in Servers :
          Len(activations'[s]) > Len(activations[s])
          => verified'[s] # None /\ Satisfies(verified'[s], requires'[assigned'[s]])]_vars
=============================================================================
