------------------------ MODULE ServerProfilesProofs ------------------------
(***************************************************************************)
(* Proofs about ServerProfiles, for every set of servers, profiles, sensors *)
(* and devices and every bound.                                            *)
(***************************************************************************)
EXTENDS ServerProfiles, TLAPS

\* Exactly the servers that are registered are assigned a profile, and nothing is staged
\* for any other.
RegisteredIsAssigned ==
    \A s \in Servers :
        /\ enrollmentState[s] = "unregistered" <=> assigned[s] = None
        /\ staged[s] # None => assigned[s] # None

TypeInvariant == TypeOK /\ RegisteredIsAssigned

-----------------------------------------------------------------------------
(***************************************************************************)
(* Type correctness.  A configuration is made from the revision a server   *)
(* is assigned, so that it has one is part of the induction.               *)
(***************************************************************************)
\* A key is made of a profile and a revision, and the first revision is one.
LEMMA KeyType ==
    /\ \A p \in Profiles, r \in Revisions : Key(p, r) \in Keys
    /\ 1 \in Revisions
  BY BoundsAssumption DEF Key, Keys, Revisions

\* What a revision requires of an inventory binds sensors to devices.
LEMMA RequiredType ==
    ASSUME NEW inventory \in Inventory, NEW sensors \in SUBSET Sensors
    PROVE  Required(inventory, sensors) \in Bindings
  BY DEF Required, Inventory, Bindings

\* A whole inventory does so too.
LEMMA InventoryBinds == Inventory \subseteq Bindings
  BY DEF Inventory, Bindings

\* What is staged for a server is a configuration and the operation it is for.
LEMMA StagesType ==
    ASSUME TypeOK, NEW s \in Servers, NEW k \in Keys, NEW operation \in Operations
    PROVE  Stages(s, k, operation) \in Staged
  <1> DEFINE source == IF verified[s] = None THEN [x \in Sensors |-> None] ELSE verified[s]
  <1>1. source \in Inventory
    BY DEF TypeOK, Inventory
  <1>2. requires[k] \in SUBSET Sensors
    BY DEF TypeOK
  <1>3. Required(source, requires[k]) \in Bindings
    BY <1>1, <1>2, RequiredType
  <1>4. QED
    BY <1>3 DEF Stages, StagedBindings, Staged

\* Nothing that is staged is the absence of a row.
LEMMA StagesSomething ==
    ASSUME TypeOK, NEW s \in Servers, NEW k \in Keys, NEW operation \in Operations
    PROVE  /\ Stages(s, k, operation) # None
           /\ Stages(s, k, operation).target = k
           /\ Stages(s, k, operation).operation = operation
  BY StagesType, NoneAssumption DEF Stages

\* The configuration that waits for a server is one.
LEMMA StagedConfigurationType ==
    ASSUME TypeOK, NEW s \in Servers, staged[s] # None
    PROVE  /\ StagedConfiguration(s) \in Configuration
           /\ StagedConfiguration(s).target = staged[s].target
           /\ staged[s].target \in Keys
           /\ staged[s].target # None
           /\ StagedConfiguration(s) # None
  BY NoneAssumption DEF TypeOK, Staged, StagedConfiguration, Configuration

\* Steps on revisions keep the tables typed.
LEMMA ProfileStepType ==
    ASSUME TypeInvariant, ProfileStep
    PROVE  TypeInvariant'
  <1> USE DEF TypeInvariant, TypeOK, RegisteredIsAssigned
  <1>1. ASSUME NEW k \in Keys, NEW sensors \in SUBSET Sensors, Draft(k, sensors)
        PROVE  TypeInvariant'
    BY <1>1 DEF Draft, Lifecycles, activeVars, inventoryVars
  <1>2. ASSUME NEW k \in Keys, PublishProfile(k)
        PROVE  TypeInvariant'
    <2>1. \A s \in Servers : Stages(s, k, "publication") \in Staged
      BY StagesType DEF Operations
    <2>2. staged' \in [Servers -> Staged \cup {None}]
      BY <1>2, <2>1 DEF PublishProfile
    <2>3. \A s \in Servers : staged'[s] # None => assigned[s] # None
      BY <1>2 DEF PublishProfile, AffectedBy
    <2>4. QED
      BY <1>2, <2>2, <2>3 DEF PublishProfile, Lifecycles, activeVars, inventoryVars
  <1>3. ASSUME NEW k \in Keys, RetireProfile(k)
        PROVE  TypeInvariant'
    BY <1>3 DEF RetireProfile, Lifecycles, activeVars, inventoryVars
  <1>4. ASSUME NEW p \in Profiles, NEW source \in Keys, CloneProfile(p, source)
        PROVE  TypeInvariant'
    BY <1>4, <1>1, KeyType DEF CloneProfile
  <1>5. ASSUME NEW p \in Profiles, NEW r \in Revisions, NEW sensors \in Definitions,
               CreateProfileDraft(p, r, sensors)
        PROVE  TypeInvariant'
    BY <1>5, <1>1, KeyType, DefinitionsAssumption DEF CreateProfileDraft
  <1>6. QED
    BY <1>2, <1>3, <1>4, <1>5 DEF ProfileStep

\* Steps on the configuration and inventory of a server keep the tables typed.
LEMMA ConfigurationStepType ==
    ASSUME TypeInvariant, NEW s \in Servers, ConfigurationStep(s)
    PROVE  TypeInvariant'
  <1> USE DEF TypeInvariant, TypeOK, RegisteredIsAssigned
  <1>1. ASSUME NEW k \in Keys, NEW operation \in {"assignment", "rollback"},
               StageProfileConfiguration(s, k, operation)
        PROVE  TypeInvariant'
    <2>1. Stages(s, k, operation) \in Staged
      BY StagesType DEF Operations
    <2>2. QED
      BY <1>1, <2>1 DEF StageProfileConfiguration, profileVars, activeVars, inventoryVars
  <1>2. CASE FetchStagedConfiguration(s)
    <2>1. StagedConfiguration(s) \in Configuration
      BY <1>2, StagedConfigurationType DEF FetchStagedConfiguration
    <2>2. QED
      BY <1>2, <2>1 DEF FetchStagedConfiguration, profileVars, activeVars, inventoryVars
  <1>3. ASSUME NEW inventory \in Inventory, ActivateStaged(s, inventory)
        PROVE  TypeInvariant'
    <2>1. /\ staged[s] # None
          /\ assigned[s] # None
      BY <1>3 DEF ActivateStaged, ReportMatches
    <2>2. /\ StagedConfiguration(s) \in Configuration
          /\ staged[s].target \in Keys
          /\ staged[s].target # None
      BY <2>1, StagedConfigurationType
    <2>3. activations' \in [Servers -> Seq(Keys)]
      BY <1>3, <2>2 DEF ActivateStaged, RecordActivation
    <2>4. QED
      BY <1>3, <2>1, <2>2, <2>3 DEF ActivateStaged, profileVars, inventoryVars
  <1>4. ASSUME NEW inventory \in Inventory, ActivationFindsChange(s, inventory)
        PROVE  TypeInvariant'
    BY <1>4 DEF ActivationFindsChange, profileVars, activeVars
  <1>5. ASSUME NEW inventory \in Inventory, RecordInventoryObservation(s, inventory)
        PROVE  TypeInvariant'
    BY <1>5 DEF RecordInventoryObservation, profileVars, activeVars
  <1>6. CASE AcceptInventoryChange(s)
    BY <1>6 DEF AcceptInventoryChange, profileVars, activeVars
  <1>7. QED
    BY <1>1, <1>2, <1>3, <1>4, <1>5, <1>6 DEF ConfigurationStep

\* Steps of enrollment keep the tables typed.
LEMMA EnrollmentStepType ==
    ASSUME TypeInvariant, NEW s \in Servers, EnrollmentStep(s)
    PROVE  TypeInvariant'
  <1> USE DEF TypeInvariant, TypeOK, RegisteredIsAssigned, EnrollmentStates
  <1>1. ASSUME NEW p \in Profiles, NEW r \in Revisions, RegisterServer(s, p, r)
        PROVE  TypeInvariant'
    <2>1. Key(p, r) \in Keys /\ Key(p, r) # None
      BY KeyType, NoneAssumption
    <2>2. QED
      BY <1>1, <2>1 DEF RegisterServer, profileVars, inventoryVars
  <1>2. ASSUME NEW inventory \in Inventory, FirstContact(s, inventory)
        PROVE  TypeInvariant'
    BY <1>2 DEF FirstContact, profileVars, activeVars
  <1>3. CASE ApproveEnrollment(s)
    <2>1. assigned[s] \in Keys /\ reported[s] \in Inventory
      BY <1>3 DEF ApproveEnrollment
    <2>2. EnrolledConfiguration(s) \in Configuration
      BY <2>1, InventoryBinds DEF EnrolledConfiguration, Configuration
    <2>3. activations' \in [Servers -> Seq(Keys)]
      BY <1>3, <2>1 DEF ApproveEnrollment, RecordActivation
    <2>4. QED
      BY <1>3, <2>1, <2>2, <2>3 DEF ApproveEnrollment, profileVars
  <1>4. CASE RejectEnrollment(s)
    BY <1>4 DEF RejectEnrollment, profileVars, activeVars
  <1>5. CASE TrustLost(s)
    BY <1>5 DEF TrustLost, profileVars, activeVars, inventoryVars
  <1>6. CASE RetireServer(s)
    BY <1>6 DEF RetireServer, profileVars, activeVars
  <1>7. QED
    BY <1>1, <1>2, <1>3, <1>4, <1>5, <1>6 DEF EnrollmentStep

\* Types and assignments hold at first.
LEMMA TypeInit == Init => TypeInvariant
  <1> SUFFICES ASSUME Init
               PROVE  TypeInvariant
    OBVIOUS
  <1>1. requires \in [Keys -> SUBSET Sensors]
    BY DefinitionsAssumption DEF Init, Seeds, Key, Keys
  <1>2. QED
    BY <1>1 DEF Init, TypeInvariant, TypeOK, RegisteredIsAssigned, Lifecycles,
                EnrollmentStates

\* Every step keeps types and assignments.
LEMMA TypeStep == TypeInvariant /\ [Next]_vars => TypeInvariant'
  <1> SUFFICES ASSUME TypeInvariant, [Next]_vars
               PROVE  TypeInvariant'
    OBVIOUS
  <1>1. CASE UNCHANGED vars
    BY <1>1 DEF vars, TypeInvariant, TypeOK, RegisteredIsAssigned, profileVars, activeVars,
                inventoryVars
  <1>2. QED
    BY <1>1, ProfileStepType, ConfigurationStepType, EnrollmentStepType DEF Next

\* The tables always have the shape of the schema, and a server that is registered
\* has a profile.
THEOREM TypeCorrect == Spec => []TypeOK
  <1>1. TypeInvariant => TypeOK
    BY DEF TypeInvariant
  <1>2. QED
    BY <1>1, TypeInit, TypeStep, PTL DEF Spec

-----------------------------------------------------------------------------
(***************************************************************************)
(* No draft is in force.  A revision that is published never becomes a     *)
(* draft again, so what was published when it was assigned or staged stays *)
(* so; nothing but the types is needed besides.                            *)
(***************************************************************************)
\* No step turns a published or retired revision into anything else than these.
LEMMA InForceKept ==
    ASSUME TypeInvariant, [Next]_vars, NEW k \in Keys, InForce(k)
    PROVE  InForce(k)'
  <1> USE DEF InForce, TypeInvariant, TypeOK
  <1>1. ASSUME NEW p \in Profiles, NEW r \in Revisions, NEW sensors,
               lifecycle[Key(p, r)] = "absent", Draft(Key(p, r), sensors)
        PROVE  InForce(k)'
    BY <1>1, KeyType DEF Draft
  <1>2. CASE ProfileStep
    <2>1. ASSUME NEW q \in Keys, PublishProfile(q) \/ RetireProfile(q)
          PROVE  InForce(k)'
      BY <2>1 DEF PublishProfile, RetireProfile
    <2>2. ASSUME NEW p \in Profiles, NEW source \in Keys, CloneProfile(p, source)
          PROVE  InForce(k)'
      <3>1. lifecycle[Key(p, 1)] = "absent"
        BY <2>2, KeyType DEF CloneProfile, Existing
      <3>2. QED
        BY <2>2, <3>1, <1>1, KeyType DEF CloneProfile
    <2>3. ASSUME NEW p \in Profiles, NEW r \in Revisions, NEW sensors \in Definitions,
                 CreateProfileDraft(p, r, sensors)
          PROVE  InForce(k)'
      <3>1. lifecycle[Key(p, r)] = "absent"
        BY <2>3 DEF CreateProfileDraft, Existing
      <3>2. QED
        BY <2>3, <3>1, <1>1 DEF CreateProfileDraft
    <2>4. QED
      BY <1>2, <2>1, <2>2, <2>3 DEF ProfileStep
  <1>3. ASSUME NEW s \in Servers, ConfigurationStep(s) \/ EnrollmentStep(s)
        PROVE  InForce(k)'
    BY <1>3 DEF ConfigurationStep, EnrollmentStep, profileVars, StageProfileConfiguration,
                FetchStagedConfiguration, ActivateStaged, ActivationFindsChange,
                RecordInventoryObservation, AcceptInventoryChange, RegisterServer,
                FirstContact, ApproveEnrollment, RejectEnrollment, TrustLost, RetireServer
  <1>4. CASE UNCHANGED vars
    BY <1>4 DEF vars, profileVars
  <1>5. QED
    BY <1>2, <1>3, <1>4 DEF Next

\* What a server is assigned, has staged or has activated is a revision.
LEMMA KeysOfServers ==
    ASSUME TypeInvariant, NEW s \in Servers
    PROVE  /\ assigned[s] # None => assigned[s] \in Keys
           /\ staged[s] # None => staged[s].target \in Keys
           /\ \A n \in DOMAIN activations[s] : activations[s][n] \in Keys
  BY DEF TypeInvariant, TypeOK, Staged

\* The revisions of one server: a step that takes on none of them that was not in force
\* keeps all of them in force.
DraftFree(s) ==
    /\ assigned[s] # None => InForce(assigned[s])
    /\ staged[s] # None => InForce(staged[s].target)
    /\ \A n \in DOMAIN activations[s] : InForce(activations[s][n])

\* A server that a step leaves alone keeps its revisions in force.
LEMMA DraftFreeUnchanged ==
    ASSUME TypeInvariant, [Next]_vars, NEW s \in Servers, DraftFree(s),
           assigned'[s] = assigned[s], staged'[s] = staged[s],
           activations'[s] = activations[s]
    PROVE  DraftFree(s)'
  <1>1. \A k \in Keys : InForce(k) => InForce(k)'
    BY InForceKept
  <1>2. QED
    BY <1>1, KeysOfServers DEF DraftFree, InForce

\* An activation of a revision in force keeps the history of activations in force.
LEMMA ActivationsInForce ==
    ASSUME TypeInvariant, [Next]_vars, NEW s \in Servers, DraftFree(s), NEW k \in Keys,
           InForce(k), RecordActivation(s, k)
    PROVE  \A n \in DOMAIN activations'[s] : InForce(activations[s][n])'
  <1>1. \A q \in Keys : InForce(q) => InForce(q)'
    BY InForceKept
  <1>2. activations[s] \in Seq(Keys) /\ activations'[s] = Append(activations[s], k)
    BY DEF TypeInvariant, TypeOK, RecordActivation
  <1>3. ASSUME NEW n \in DOMAIN activations'[s]
        PROVE  InForce(activations[s][n])'
    <2>1. CASE n \in DOMAIN activations[s]
      <3>1. activations'[s][n] = activations[s][n]
        BY <2>1, <1>2
      <3>2. activations[s][n] \in Keys /\ InForce(activations[s][n])
        BY <2>1, KeysOfServers DEF DraftFree
      <3>3. lifecycle'[activations[s][n]] \in {"published", "retired"}
        BY <3>1, <3>2, <1>1 DEF InForce
      <3>4. QED
        BY <3>1, <3>3 DEF InForce
    <2>2. CASE n = Len(activations[s]) + 1
      <3>1. activations'[s][n] = k
        BY <2>2, <1>2
      <3>2. InForce(k)'
        BY <1>1
      <3>3. QED
        BY <3>1, <3>2 DEF InForce
    <2>3. QED
      BY <2>1, <2>2, <1>2
  <1>4. QED
    BY <1>3

\* What a step stages for a server is in force from that step on.
LEMMA StagedInForce ==
    ASSUME TypeInvariant, [Next]_vars, NEW s \in Servers, DraftFree(s),
           NEW k \in Keys, NEW operation \in Operations, InForce(k)',
           staged'[s] = Stages(s, k, operation),
           assigned'[s] = assigned[s], activations'[s] = activations[s]
    PROVE  DraftFree(s)'
  <1>1. staged'[s].target = k
    BY StagesSomething DEF TypeInvariant
  <1>2. \A q \in Keys : InForce(q) => InForce(q)'
    BY InForceKept
  <1>3. QED
    BY <1>1, <1>2, KeysOfServers DEF DraftFree, InForce

\* Every step keeps the revisions of every server in force.
LEMMA NoDraftInForceStep ==
    ASSUME TypeInvariant, NoDraftInForce, [Next]_vars
    PROVE  NoDraftInForce'
  <1> SUFFICES ASSUME NEW s \in Servers
               PROVE  DraftFree(s)'
    BY DEF NoDraftInForce, DraftFree
  <1>1. DraftFree(s)
    BY DEF NoDraftInForce, DraftFree
  <1>2. TypeOK
    BY DEF TypeInvariant
  <1>3. CASE UNCHANGED vars
    BY <1>1, <1>3, DraftFreeUnchanged DEF vars, activeVars
  <1>4. CASE ProfileStep
    <2>1. ASSUME NEW k \in Keys, PublishProfile(k)
          PROVE  DraftFree(s)'
      <3>1. InForce(k)'
        BY <2>1, <1>2 DEF PublishProfile, InForce, TypeOK
      <3>2. assigned' = assigned /\ activations' = activations
        BY <2>1 DEF PublishProfile, activeVars
      <3>3. staged'[s] = staged[s] \/ staged'[s] = Stages(s, k, "publication")
        BY <2>1 DEF PublishProfile
      <3>4. QED
        BY <1>1, <3>1, <3>2, <3>3, DraftFreeUnchanged, StagedInForce DEF Operations
    <2>2. ASSUME NEW k \in Keys, RetireProfile(k)
          PROVE  DraftFree(s)'
      BY <2>2, <1>1, DraftFreeUnchanged DEF RetireProfile, activeVars
    <2>3. ASSUME NEW p \in Profiles, NEW source \in Keys, CloneProfile(p, source)
          PROVE  DraftFree(s)'
      BY <2>3, <1>1, DraftFreeUnchanged DEF CloneProfile, Draft, activeVars
    <2>4. ASSUME NEW p \in Profiles, NEW r \in Revisions, NEW sensors \in Definitions,
                 CreateProfileDraft(p, r, sensors)
          PROVE  DraftFree(s)'
      BY <2>4, <1>1, DraftFreeUnchanged DEF CreateProfileDraft, Draft, activeVars
    <2>5. QED
      BY <1>4, <2>1, <2>2, <2>3, <2>4 DEF ProfileStep
  <1>5. ASSUME NEW t \in Servers, ConfigurationStep(t)
        PROVE  DraftFree(s)'
    <2>1. ASSUME NEW k \in Keys, NEW operation \in {"assignment", "rollback"},
                 StageProfileConfiguration(t, k, operation)
          PROVE  DraftFree(s)'
      <3>1. InForce(k)'
        BY <2>1, InForceKept DEF StageProfileConfiguration, Stageable, InForce
      <3>2. assigned' = assigned /\ activations' = activations
        BY <2>1 DEF StageProfileConfiguration, activeVars
      <3>3. CASE s = t
        <4>1. staged'[s] = Stages(s, k, operation)
          BY <2>1, <3>3, <1>2 DEF StageProfileConfiguration, TypeOK
        <4>2. QED
          BY <1>1, <3>1, <3>2, <4>1, StagedInForce DEF Operations
      <3>4. CASE s # t
        <4>1. staged'[s] = staged[s]
          BY <2>1, <3>4, <1>2 DEF StageProfileConfiguration, TypeOK
        <4>2. QED
          BY <1>1, <3>2, <4>1, DraftFreeUnchanged
      <3>5. QED
        BY <3>3, <3>4
    <2>2. CASE FetchStagedConfiguration(t)
      BY <2>2, <1>1, DraftFreeUnchanged DEF FetchStagedConfiguration, activeVars
    <2>3. ASSUME NEW inventory \in Inventory, ActivateStaged(t, inventory)
          PROVE  DraftFree(s)'
      <3>1. CASE s = t
        <4>1. staged[s] # None /\ staged[s].target \in Keys /\ InForce(staged[s].target)
          BY <2>3, <3>1, <1>1, KeysOfServers DEF ActivateStaged, ReportMatches, DraftFree
        <4>2. /\ assigned'[s] = staged[s].target
              /\ staged'[s] = None
              /\ RecordActivation(s, staged[s].target)
          BY <2>3, <3>1, <1>2 DEF ActivateStaged, TypeOK
        <4>3. \A n \in DOMAIN activations'[s] : InForce(activations[s][n])'
          BY <1>1, <4>1, <4>2, ActivationsInForce
        <4>4. InForce(assigned[s])'
          BY <4>1, <4>2, InForceKept DEF InForce
        <4>5. QED
          BY <4>2, <4>3, <4>4 DEF DraftFree
      <3>2. CASE s # t
        <4>1. /\ assigned'[s] = assigned[s]
              /\ staged'[s] = staged[s]
              /\ activations'[s] = activations[s]
          BY <2>3, <3>2, <1>2 DEF ActivateStaged, RecordActivation, TypeOK
        <4>2. QED
          BY <1>1, <4>1, DraftFreeUnchanged
      <3>3. QED
        BY <3>1, <3>2
    <2>4. ASSUME NEW inventory \in Inventory,
                 \/ ActivationFindsChange(t, inventory)
                 \/ RecordInventoryObservation(t, inventory)
          PROVE  DraftFree(s)'
      BY <2>4, <1>1, DraftFreeUnchanged
         DEF ActivationFindsChange, RecordInventoryObservation, activeVars
    <2>5. CASE AcceptInventoryChange(t)
      BY <2>5, <1>1, DraftFreeUnchanged DEF AcceptInventoryChange, activeVars
    <2>6. QED
      BY <1>5, <2>1, <2>2, <2>3, <2>4, <2>5 DEF ConfigurationStep
  <1>6. ASSUME NEW t \in Servers, EnrollmentStep(t)
        PROVE  DraftFree(s)'
    <2>1. ASSUME NEW p \in Profiles, NEW r \in Revisions, RegisterServer(t, p, r)
          PROVE  DraftFree(s)'
      <3>1. InForce(Key(p, r)) /\ Key(p, r) \in Keys
        BY <2>1, KeyType DEF RegisterServer, LatestPublished, InForce
      <3>2. staged' = staged /\ activations' = activations
        BY <2>1 DEF RegisterServer
      <3>3. assigned'[s] = assigned[s] \/ assigned'[s] = Key(p, r)
        BY <2>1, <1>2 DEF RegisterServer, TypeOK
      <3>4. \A q \in Keys : InForce(q) => InForce(q)'
        BY InForceKept
      <3>5. QED
        BY <1>1, <3>1, <3>2, <3>3, <3>4, KeysOfServers DEF DraftFree, InForce
    <2>2. ASSUME NEW inventory \in Inventory, FirstContact(t, inventory)
          PROVE  DraftFree(s)'
      BY <2>2, <1>1, DraftFreeUnchanged DEF FirstContact, activeVars
    <2>3. CASE ApproveEnrollment(t)
      <3>1. staged'[s] = staged[s] /\ assigned'[s] = assigned[s]
        BY <2>3 DEF ApproveEnrollment
      <3>2. CASE s = t
        <4>1. assigned[s] \in Keys /\ RecordActivation(s, assigned[s])
          BY <2>3, <3>2, <1>2 DEF ApproveEnrollment, TypeInvariant, TypeOK,
                                  RegisteredIsAssigned
        <4>2. InForce(assigned[s])
          BY <1>1, <4>1, NoneAssumption DEF DraftFree
        <4>3. \A n \in DOMAIN activations'[s] : InForce(activations[s][n])'
          BY <1>1, <4>1, <4>2, ActivationsInForce
        <4>4. \A q \in Keys : InForce(q) => InForce(q)'
          BY InForceKept
        <4>5. QED
          BY <1>1, <3>1, <4>3, <4>4, KeysOfServers DEF DraftFree, InForce
      <3>3. CASE s # t
        <4>1. activations'[s] = activations[s]
          BY <2>3, <3>3, <1>2 DEF ApproveEnrollment, RecordActivation, TypeOK
        <4>2. QED
          BY <1>1, <3>1, <4>1, DraftFreeUnchanged
      <3>4. QED
        BY <3>2, <3>3
    <2>4. CASE RejectEnrollment(t) \/ TrustLost(t) \/ RetireServer(t)
      BY <2>4, <1>1, DraftFreeUnchanged
         DEF RejectEnrollment, TrustLost, RetireServer, activeVars
    <2>5. QED
      BY <1>6, <2>1, <2>2, <2>3, <2>4 DEF EnrollmentStep
  <1>7. QED
    BY <1>3, <1>4, <1>5, <1>6 DEF Next

\* No server is ever assigned, has staged, or has ever activated a revision that is still
\* a draft: publish_profile comes first on every path to it.
THEOREM DraftsStayOut == Spec => []NoDraftInForce
  <1>1. ASSUME Init
        PROVE  NoDraftInForce
    <2>1. \A s \in Servers : assigned[s] = None /\ staged[s] = None /\ activations[s] = <<>>
      BY <1>1 DEF Init
    <2>2. DOMAIN <<>> = {}
      <3>1. <<>> \in Seq(Keys) /\ Len(<<>>) = 0
        OBVIOUS
      <3>2. QED
        BY <3>1
    <2>3. QED
      BY <2>1, <2>2 DEF NoDraftInForce
  <1>2. TypeInvariant /\ NoDraftInForce /\ [Next]_vars => NoDraftInForce'
    BY NoDraftInForceStep
  <1>3. QED
    BY <1>1, <1>2, TypeInit, TypeStep, PTL DEF Spec

-----------------------------------------------------------------------------
(***************************************************************************)
(* The rows of a server: which operations write them.                      *)
(***************************************************************************)
SameActiveRows(s) ==
    /\ assigned'[s] = assigned[s]
    /\ configuration'[s] = configuration[s]
    /\ activations'[s] = activations[s]

\* Only registration, activation and approval change what is active on a server.
LEMMA ActiveRowsWriters ==
    ASSUME TypeInvariant, [Next]_vars, NEW s \in Servers
    PROVE  \/ SameActiveRows(s)
           \/ \E p \in Profiles, r \in Revisions : RegisterServer(s, p, r)
           \/ \E inventory \in Inventory : ActivateStaged(s, inventory)
           \/ ApproveEnrollment(s)
  <1> USE DEF SameActiveRows, activeVars
  <1>1. CASE UNCHANGED vars
    BY <1>1 DEF vars
  <1>2. CASE ProfileStep
    BY <1>2 DEF ProfileStep, PublishProfile, RetireProfile, CloneProfile, CreateProfileDraft,
                Draft
  <1>3. ASSUME NEW t \in Servers, ConfigurationStep(t)
        PROVE  \/ SameActiveRows(s)
               \/ \E inventory \in Inventory : ActivateStaged(s, inventory)
    <2>1. ASSUME NEW inventory \in Inventory, ActivateStaged(t, inventory), s # t
          PROVE  SameActiveRows(s)
      BY <2>1 DEF ActivateStaged, RecordActivation, TypeInvariant, TypeOK
    <2>2. QED
      BY <1>3, <2>1 DEF ConfigurationStep, StageProfileConfiguration, FetchStagedConfiguration,
                        ActivationFindsChange, RecordInventoryObservation,
                        AcceptInventoryChange
  <1>4. ASSUME NEW t \in Servers, EnrollmentStep(t)
        PROVE  \/ SameActiveRows(s)
               \/ \E p \in Profiles, r \in Revisions : RegisterServer(s, p, r)
               \/ ApproveEnrollment(s)
    <2>1. ASSUME NEW p \in Profiles, NEW r \in Revisions, RegisterServer(t, p, r), s # t
          PROVE  SameActiveRows(s)
      BY <2>1 DEF RegisterServer, TypeInvariant, TypeOK
    <2>2. ASSUME ApproveEnrollment(t), s # t
          PROVE  SameActiveRows(s)
      BY <2>2 DEF ApproveEnrollment, RecordActivation, TypeInvariant, TypeOK
    <2>3. QED
      BY <1>4, <2>1, <2>2 DEF EnrollmentStep, FirstContact, RejectEnrollment, TrustLost,
                              RetireServer
  <1>5. QED
    BY <1>1, <1>2, <1>3, <1>4 DEF Next

\* Only publication, staging and activation write the slot of a server.
LEMMA StagedRowWriters ==
    ASSUME TypeInvariant, [Next]_vars, NEW s \in Servers
    PROVE  \/ staged'[s] = staged[s]
           \/ \E k \in Keys : /\ PublishProfile(k)
                              /\ AffectedBy(s, k) /\ OverwritesStaged(s)
                              /\ staged'[s] = Stages(s, k, "publication")
           \/ \E k \in Keys, operation \in {"assignment", "rollback"} :
                 /\ StageProfileConfiguration(s, k, operation)
                 /\ staged'[s] = Stages(s, k, operation)
           \/ \E inventory \in Inventory :
                 ActivateStaged(s, inventory) /\ staged'[s] = None
  <1>1. CASE UNCHANGED vars
    BY <1>1 DEF vars
  <1>2. CASE ProfileStep
    BY <1>2 DEF ProfileStep, PublishProfile, RetireProfile, CloneProfile, CreateProfileDraft,
                Draft
  <1>3. ASSUME NEW t \in Servers, ConfigurationStep(t)
        PROVE  \/ staged'[s] = staged[s]
               \/ \E k \in Keys, operation \in {"assignment", "rollback"} :
                     /\ StageProfileConfiguration(s, k, operation)
                     /\ staged'[s] = Stages(s, k, operation)
               \/ \E inventory \in Inventory :
                     ActivateStaged(s, inventory) /\ staged'[s] = None
    <2>1. ASSUME NEW k \in Keys, NEW operation \in {"assignment", "rollback"},
                 StageProfileConfiguration(t, k, operation)
          PROVE  staged'[s] = IF s = t THEN Stages(s, k, operation) ELSE staged[s]
      BY <2>1 DEF StageProfileConfiguration, TypeInvariant, TypeOK
    <2>2. ASSUME NEW inventory \in Inventory, ActivateStaged(t, inventory)
          PROVE  staged'[s] = IF s = t THEN None ELSE staged[s]
      BY <2>2 DEF ActivateStaged, TypeInvariant, TypeOK
    <2>3. QED
      BY <1>3, <2>1, <2>2 DEF ConfigurationStep, FetchStagedConfiguration,
                              ActivationFindsChange, RecordInventoryObservation,
                              AcceptInventoryChange
  <1>4. ASSUME NEW t \in Servers, EnrollmentStep(t)
        PROVE  staged'[s] = staged[s]
    BY <1>4 DEF EnrollmentStep, RegisterServer, FirstContact, ApproveEnrollment,
                RejectEnrollment, TrustLost, RetireServer
  <1>5. QED
    BY <1>1, <1>2, <1>3, <1>4 DEF Next

-----------------------------------------------------------------------------
(***************************************************************************)
(* The slot fits the server: the only operation that moves a server to     *)
(* another revision while something may be staged is the one that empties  *)
(* the slot.                                                               *)
(***************************************************************************)
\* Every step keeps the slots fitting.
LEMMA StagingFitsStep ==
    ASSUME TypeInvariant, StagingFitsServer, [Next]_vars
    PROVE  StagingFitsServer'
  <1> DEFINE Fits(s) ==
        staged[s] # None =>
            /\ assigned[s] # None
            /\ staged[s].operation = "publication" =>
                  /\ assigned[s].profile = staged[s].target.profile
                  /\ assigned[s].revision # staged[s].target.revision
            /\ staged[s].operation = "rollback" =>
                  /\ staged[s].target.profile = assigned[s].profile
                  /\ staged[s].target.revision < assigned[s].revision
  <1>1. StagingFitsServer <=> \A s \in Servers : Fits(s)
    BY DEF StagingFitsServer, AffectedBy
  <1>2. StagingFitsServer' <=> \A s \in Servers : Fits(s)'
    BY DEF StagingFitsServer, AffectedBy
  <1>3. SUFFICES ASSUME NEW s \in Servers
                 PROVE  Fits(s)'
    BY <1>2
  <1>4. Fits(s)
    BY <1>1
  <1>5. ASSUME NEW k \in Keys, PublishProfile(k), AffectedBy(s, k),
               staged'[s] = Stages(s, k, "publication")
        PROVE  Fits(s)'
    <2>1. staged'[s].target = k /\ staged'[s].operation = "publication"
      BY <1>5, StagesSomething DEF TypeInvariant, Operations
    <2>2. assigned' = assigned
      BY <1>5 DEF PublishProfile, activeVars
    <2>3. QED
      BY <1>5, <2>1, <2>2 DEF AffectedBy
  <1>6. ASSUME NEW k \in Keys, NEW operation \in {"assignment", "rollback"},
               StageProfileConfiguration(s, k, operation),
               staged'[s] = Stages(s, k, operation)
        PROVE  Fits(s)'
    <2>1. staged'[s].target = k /\ staged'[s].operation = operation
      BY <1>6, StagesSomething DEF TypeInvariant, Operations
    <2>2. assigned' = assigned
      BY <1>6 DEF StageProfileConfiguration, activeVars
    <2>3. QED
      BY <1>6, <2>1, <2>2 DEF StageProfileConfiguration, RollsBack
  <1>7. ASSUME staged'[s] = staged[s]
        PROVE  Fits(s)'
    <2>1. CASE SameActiveRows(s)
      BY <1>4, <1>7, <2>1 DEF SameActiveRows
    <2>2. ASSUME NEW p \in Profiles, NEW r \in Revisions, RegisterServer(s, p, r)
          PROVE  Fits(s)'
      BY <1>7, <2>2 DEF RegisterServer, TypeInvariant, RegisteredIsAssigned
    <2>3. ASSUME NEW inventory \in Inventory, ActivateStaged(s, inventory)
          PROVE  Fits(s)'
      BY <2>3 DEF ActivateStaged, TypeInvariant, TypeOK
    <2>4. CASE ApproveEnrollment(s)
      BY <1>4, <1>7, <2>4 DEF ApproveEnrollment
    <2>5. QED
      BY <2>1, <2>2, <2>3, <2>4, ActiveRowsWriters
  <1>8. ASSUME staged'[s] = None
        PROVE  Fits(s)'
    BY <1>8
  <1>9. QED
    BY <1>5, <1>6, <1>7, <1>8, StagedRowWriters

\* A staged publication is of another revision of the server's own profile and a staged
\* rollback of a lower one, however many revisions were published since.
THEOREM StagingFits == Spec => []StagingFitsServer
  <1>1. Init => StagingFitsServer
    BY DEF Init, StagingFitsServer
  <1>2. TypeInvariant /\ StagingFitsServer /\ [Next]_vars => StagingFitsServer'
    BY StagingFitsStep
  <1>3. QED
    BY <1>1, <1>2, TypeInit, TypeStep, PTL DEF Spec

-----------------------------------------------------------------------------
(***************************************************************************)
(* The active records agree.                                               *)
(***************************************************************************)
\* A history that has grown by one entry ends with it.
LEMMA RecordedLast ==
    ASSUME TypeInvariant, NEW s \in Servers, NEW k \in Keys, RecordActivation(s, k)
    PROVE  /\ activations'[s] # <<>>
           /\ activations'[s][Len(activations'[s])] = k
           /\ Len(activations'[s]) > Len(activations[s])
  <1>1. activations[s] \in Seq(Keys) /\ activations'[s] = Append(activations[s], k)
    BY DEF TypeInvariant, TypeOK, RecordActivation
  <1>2. QED
    BY <1>1

\* Every step keeps the records in agreement.
LEMMA RecordsAgreeStep ==
    ASSUME TypeInvariant, ActiveRecordsAgree, [Next]_vars
    PROVE  ActiveRecordsAgree'
  <1> DEFINE Agree(s) ==
        /\ configuration[s] = None <=> activations[s] = <<>>
        /\ configuration[s] # None =>
              /\ configuration[s].target = assigned[s]
              /\ activations[s][Len(activations[s])] = assigned[s]
  <1>1. SUFFICES ASSUME NEW s \in Servers
                 PROVE  Agree(s)'
    BY DEF ActiveRecordsAgree
  <1>2. Agree(s)
    BY DEF ActiveRecordsAgree
  <1>3. CASE SameActiveRows(s)
    BY <1>2, <1>3 DEF SameActiveRows
  <1>4. ASSUME NEW p \in Profiles, NEW r \in Revisions, RegisterServer(s, p, r)
        PROVE  Agree(s)'
    <2>1. assigned[s] = None
      BY <1>4 DEF RegisterServer, TypeInvariant, RegisteredIsAssigned
    <2>2. configuration[s] = None
      BY <1>2, <2>1, NoneAssumption DEF TypeInvariant, TypeOK, Configuration
    <2>3. QED
      BY <1>2, <1>4, <2>2 DEF RegisterServer
  <1>5. ASSUME NEW inventory \in Inventory, ActivateStaged(s, inventory)
        PROVE  Agree(s)'
    <2>1. staged[s] # None
      BY <1>5 DEF ActivateStaged, ReportMatches
    <2>2. /\ staged[s].target \in Keys
          /\ StagedConfiguration(s) # None
          /\ StagedConfiguration(s).target = staged[s].target
      BY <2>1, StagedConfigurationType DEF TypeInvariant
    <2>3. /\ assigned'[s] = staged[s].target
          /\ configuration'[s] = StagedConfiguration(s)
          /\ RecordActivation(s, staged[s].target)
      BY <1>5 DEF ActivateStaged, TypeInvariant, TypeOK
    <2>4. QED
      BY <2>2, <2>3, RecordedLast
  <1>6. CASE ApproveEnrollment(s)
    <2>1. assigned[s] \in Keys /\ reported[s] \in Inventory
      BY <1>6 DEF ApproveEnrollment, TypeInvariant, TypeOK, RegisteredIsAssigned
    <2>2. EnrolledConfiguration(s) # None /\ EnrolledConfiguration(s).target = assigned[s]
      BY <2>1, InventoryBinds, NoneAssumption DEF EnrolledConfiguration, Configuration
    <2>3. /\ assigned'[s] = assigned[s]
          /\ configuration'[s] = EnrolledConfiguration(s)
          /\ RecordActivation(s, assigned[s])
      BY <1>6 DEF ApproveEnrollment, TypeInvariant, TypeOK
    <2>4. QED
      BY <2>1, <2>2, <2>3, RecordedLast
  <1>7. QED
    BY <1>3, <1>4, <1>5, <1>6, ActiveRowsWriters

\* The revision in the server's row, the one its active configuration is of and the last
\* one in its history are the same.
THEOREM RecordsAgree == Spec => []ActiveRecordsAgree
  <1>1. Init => ActiveRecordsAgree
    BY DEF Init, ActiveRecordsAgree
  <1>2. TypeInvariant /\ ActiveRecordsAgree /\ [Next]_vars => ActiveRecordsAgree'
    BY RecordsAgreeStep
  <1>3. QED
    BY <1>1, <1>2, TypeInit, TypeStep, PTL DEF Spec

-----------------------------------------------------------------------------
(***************************************************************************)
(* What a step may not do.                                                 *)
(***************************************************************************)
\* A configuration that becomes active without an approval is the one the collector of
\* that server has fetched and applied, whatever was staged in between.
THEOREM AppliedActive == Spec => AppliedIsActive
  <1>1. ASSUME TypeInvariant, [Next]_vars, NEW s \in Servers,
               configuration'[s] # configuration[s],
               enrollmentState'[s] = enrollmentState[s]
        PROVE  configuration'[s] = collector[s]
    <2>1. ASSUME NEW p \in Profiles, NEW r \in Revisions, RegisterServer(s, p, r)
          PROVE  FALSE
      BY <1>1, <2>1 DEF RegisterServer
    <2>2. ASSUME NEW inventory \in Inventory, ActivateStaged(s, inventory)
          PROVE  configuration'[s] = collector[s]
      BY <2>2, <1>1 DEF ActivateStaged, ReportMatches, HashMatches, TypeInvariant, TypeOK
    <2>3. CASE ApproveEnrollment(s)
      BY <1>1, <2>3 DEF ApproveEnrollment, TypeInvariant, TypeOK, EnrollmentStates
    <2>4. QED
      BY <1>1, <2>1, <2>2, <2>3, ActiveRowsWriters DEF SameActiveRows
  <1>2. TypeInvariant /\ [Next]_vars =>
          [\A s \in Servers :
              configuration'[s] # configuration[s] /\ enrollmentState'[s] = enrollmentState[s]
              => configuration'[s] = collector[s]]_vars
    BY <1>1
  <1>3. QED
    BY <1>2, TypeInit, TypeStep, PTL DEF Spec, AppliedIsActive

\* A server only enters a revision in its history when the inventory on record, and not
\* just the reported one, has all that the revision requires.
THEOREM OnVerifiedHardware == Spec => ActivatedOnVerifiedHardware
  <1>1. ASSUME TypeInvariant, [Next]_vars, NEW s \in Servers,
               Len(activations'[s]) > Len(activations[s])
        PROVE  verified'[s] # None /\ Satisfies(verified'[s], requires'[assigned'[s]])
    <2>1. activations'[s] # activations[s]
      BY <1>1 DEF TypeInvariant, TypeOK
    <2>2. ASSUME NEW p \in Profiles, NEW r \in Revisions, RegisterServer(s, p, r)
          PROVE  FALSE
      BY <2>1, <2>2 DEF RegisterServer
    <2>3. ASSUME NEW inventory \in Inventory, ActivateStaged(s, inventory)
          PROVE  verified'[s] # None /\ Satisfies(verified'[s], requires'[assigned'[s]])
      <3> DEFINE sensors == requires[staged[s].target]
      <3>1. /\ verified' = verified
            /\ requires' = requires
            /\ assigned'[s] = staged[s].target
        BY <1>1, <2>3 DEF ActivateStaged, profileVars, inventoryVars, TypeInvariant, TypeOK
      <3>2. /\ verified[s] # None
            /\ Required(verified[s], sensors) = Required(inventory, sensors)
            /\ Satisfies(inventory, sensors)
        BY <2>3 DEF ActivateStaged, ReportMatches, SameHardware
      <3>3. Satisfies(verified[s], sensors)
        <4>1. \A x \in sensors : Required(verified[s], sensors)[x] = verified[s][x]
          BY DEF Required
        <4>2. \A x \in sensors : Required(inventory, sensors)[x] = inventory[x]
          BY DEF Required
        <4>3. QED
          BY <3>2, <4>1, <4>2 DEF Satisfies
      <3>4. QED
        BY <3>1, <3>2, <3>3
    <2>4. CASE ApproveEnrollment(s)
      <3>1. /\ verified'[s] = reported[s]
            /\ requires' = requires
            /\ assigned'[s] = assigned[s]
        BY <1>1, <2>4 DEF ApproveEnrollment, profileVars, TypeInvariant, TypeOK
      <3>2. QED
        BY <2>4, <3>1 DEF ApproveEnrollment
    <2>5. QED
      BY <1>1, <2>1, <2>2, <2>3, <2>4, ActiveRowsWriters DEF SameActiveRows
  <1>2. TypeInvariant /\ [Next]_vars =>
          [\A s \in Servers :
              Len(activations'[s]) > Len(activations[s])
              => verified'[s] # None /\ Satisfies(verified'[s], requires'[assigned'[s]])]_vars
    BY <1>1
  <1>3. QED
    BY <1>2, TypeInit, TypeStep, PTL DEF Spec, ActivatedOnVerifiedHardware

\* What an administrator has staged for a server leaves its slot only by activation or for
\* something else an administrator stages.
THEOREM ExplicitWaits == Spec => ExplicitStagingWaits
  <1> DEFINE Waits(s) ==
        staged[s] # None /\ staged[s].operation # "publication" /\ staged'[s] # staged[s]
        => \/ staged'[s] # None /\ staged'[s].operation # "publication"
           \/ configuration'[s] = StagedConfiguration(s) /\ assigned'[s] = staged[s].target
  <1>1. ASSUME TypeInvariant, [Next]_vars, NEW s \in Servers
        PROVE  Waits(s)
    <2>1. ASSUME OverwritesStaged(s)
          PROVE  Waits(s)
      BY <2>1 DEF OverwritesStaged
    <2>2. ASSUME NEW k \in Keys, NEW operation \in {"assignment", "rollback"},
                 staged'[s] = Stages(s, k, operation)
          PROVE  Waits(s)
      <3>1. staged'[s] # None /\ staged'[s].operation = operation
        BY <1>1, <2>2, StagesSomething DEF TypeInvariant, Operations
      <3>2. QED
        BY <3>1
    <2>3. ASSUME NEW inventory \in Inventory, ActivateStaged(s, inventory)
          PROVE  Waits(s)
      BY <1>1, <2>3 DEF ActivateStaged, TypeInvariant, TypeOK
    <2>4. QED
      BY <1>1, <2>1, <2>2, <2>3, StagedRowWriters
  <1>2. TypeInvariant /\ [Next]_vars => [\A s \in Servers : Waits(s)]_vars
    BY <1>1
  <1>3. QED
    BY <1>2, TypeInit, TypeStep, PTL DEF Spec, ExplicitStagingWaits
=============================================================================
