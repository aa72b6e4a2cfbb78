----------------------- MODULE ObservationEngineProofs ------------------------
(***************************************************************************)
(* For any servers, addresses and requests: the thread never sleeps        *)
(* through a shutdown.  The two events are set in the order the loop       *)
(* depends on: whoever finds the wake event cleared by the loop after both *)
(* are set is back at the head, where the other event is looked at.        *)
(***************************************************************************)
EXTENDS ObservationEngine, TLAPS

-----------------------------------------------------------------------------
\* Places where the loop is about to look at the stop event, or has ended.
Leaves == {"head", "ended", "dead", "down"}

IInv ==
    /\ TypeOK
    /\ stop >= 1 => stopping
    /\ stop = 2 /\ engine.at \notin Leaves => wake

-----------------------------------------------------------------------------
LEMMA TableTypes ==
    /\ NoTargets \in TargetTable
    /\ \A p \in {"head", "reload", "list-targets", "sweep", "list-servers", "waiting",
                 "woken", "ended", "dead", "down"} : At(p) \in Engine /\ At(p).at = p
    /\ \A t \in TargetTable : Holding("write", t) \in Engine /\ Holding("write", t).at = "write"
    /\ \A S \in SUBSET Servers : \A p \in {"observe", "evaluate"} :
           Working(p, S) \in Engine /\ Working(p, S).at = p
    /\ Idle \in Approver
  <1>1. NoTargets \in TargetTable
    BY DEF NoTargets, TargetTable
  <1>2. \A p \in {"head", "reload", "list-targets", "sweep", "list-servers", "waiting",
                  "woken", "ended", "dead", "down"} : At(p) \in Engine /\ At(p).at = p
    BY <1>1 DEF At, Engine
  <1>3. ASSUME NEW t \in TargetTable
        PROVE  Holding("write", t) \in Engine /\ Holding("write", t).at = "write"
    <2>1. Holding("write", t) = [at |-> "write", read |-> t, todo |-> {}, server |-> None]
      BY DEF Holding, At
    <2>2. QED
      BY <2>1 DEF Engine
  <1>4. ASSUME NEW S \in SUBSET Servers, NEW p \in {"observe", "evaluate"}
        PROVE  Working(p, S) \in Engine /\ Working(p, S).at = p
    <2>1. Working(p, S) = [at |-> p, read |-> NoTargets, todo |-> S, server |-> None]
      BY DEF Working, At
    <2>2. QED
      BY <1>1, <2>1 DEF Engine
  <1>5. Idle \in Approver
    BY <1>1 DEF Idle, Approver
  <1>6. QED
    BY <1>1, <1>2, <1>3, <1>4, <1>5

LEMMA AskedTypes ==
    ASSUME engine \in Engine, NEW s \in Servers
    PROVE  AskedAbout(s) \in Engine /\ AskedAbout(s).at = "record"
  <1>1. NoTargets \in TargetTable
    BY TableTypes
  <1>2. AskedAbout(s) = [at |-> "record", read |-> NoTargets, todo |-> engine.todo \ {s},
                         server |-> s]
    <2>1. Working("record", engine.todo \ {s}) =
              [at |-> "record", read |-> NoTargets, todo |-> engine.todo \ {s}, server |-> None]
      BY DEF Working, At
    <2>2. PICK todo : todo = engine.todo \ {s}
      OBVIOUS
    <2>3. [[at |-> "record", read |-> NoTargets, todo |-> todo, server |-> None]
              EXCEPT !.server = s] =
          [at |-> "record", read |-> NoTargets, todo |-> todo, server |-> s]
      OBVIOUS
    <2>4. QED
      BY <2>1, <2>2, <2>3 DEF AskedAbout
  <1>3. QED
    BY <1>1, <1>2 DEF Engine

\* The changes of the table keep its types.
LEMMA OtherChangeTypes ==
    ASSUME TargetsTypeOK, OtherChange
    PROVE  TargetsTypeOK'
  BY DEF TargetsTypeOK, TargetTable, Standings, OtherChange, FirstContact, Revoke, Retire,
         Move, Expire, Distrust, Becomes

-----------------------------------------------------------------------------
(***************************************************************************)
(* The thread.                                                             *)
(***************************************************************************)
\* What every step of the thread keeps, given where it goes.
LEMMA EngineKeeps ==
    ASSUME IInv, engine' \in Engine, TargetsTypeOK', written' \in TargetTable,
           loaded' \in TargetTable, UNCHANGED <<approver, stopVars>>,
           \/ wake' = wake /\ (engine'.at \in Leaves \/ engine.at \notin Leaves \/ stop # 2)
           \/ wake' = FALSE /\ engine'.at \in Leaves
    PROVE  IInv'
  BY DEF IInv, TypeOK, stopVars

LEMMA EngineStepKeeps ==
    ASSUME IInv, EngineStep \/ Dies
    PROVE  IInv'
  <1> DEFINE Typed == /\ engine \in Engine /\ targets \in TargetTable /\ TargetsTypeOK
                      /\ written \in TargetTable /\ loaded \in TargetTable
                      /\ stop = 2 => stopping
  <1>1. Typed
    BY DEF IInv, TypeOK, TargetsTypeOK
  <1>2. CASE EndsLoop \/ Dies
    BY <1>1, <1>2, TableTypes, EngineKeeps
       DEF EndsLoop, Dies, EngineGoes, Leaves, targetVars, configVars, TargetsTypeOK
  <1>3. CASE ReadsTargets
    BY <1>1, <1>3, TableTypes, EngineKeeps
       DEF ReadsTargets, EngineGoes, Leaves, targetVars, configVars, TargetsTypeOK
  <1>4. CASE WritesConfig
    <2>1. engine.read \in TargetTable
      BY <1>1 DEF Engine
    <2>2. QED
      BY <1>1, <1>4, <2>1, TableTypes, EngineKeeps
         DEF WritesConfig, EngineGoes, Leaves, targetVars, TargetsTypeOK
  <1>5. CASE Reloads \/ ReloadFails
    BY <1>1, <1>5, TableTypes, EngineKeeps
       DEF Reloads, ReloadFails, EngineGoes, Leaves, targetVars, configVars, TargetsTypeOK
  <1>6. CASE ListsTargets \/ ListsServers
    BY <1>1, <1>6, TableTypes, EngineKeeps
       DEF ListsTargets, ListsServers, EngineGoes, Leaves, targetVars, configVars, TargetsTypeOK
  <1>7. CASE ObservesNone \/ EvaluatesNone \/ StopsWaiting
    BY <1>1, <1>7, TableTypes, EngineKeeps
       DEF ObservesNone, EvaluatesNone, StopsWaiting, EngineGoes, Leaves, targetVars,
           configVars, TargetsTypeOK
  <1>8. CASE ClearsWake
    BY <1>1, <1>8, TableTypes, EngineKeeps
       DEF ClearsWake, EngineGoes, Leaves, targetVars, configVars, TargetsTypeOK
  <1>9. CASE Evaluates
    <2>1. engine.todo \in SUBSET Servers
      BY <1>1 DEF Engine
    <2>2. QED
      BY <1>1, <1>9, <2>1, TableTypes, EngineKeeps
         DEF Evaluates, EngineGoes, Leaves, targetVars, configVars, TargetsTypeOK
  <1>10. ASSUME NEW s \in Servers, Observes(s)
         PROVE  IInv'
    <2>1. engine.todo \ {s} \in SUBSET Servers
      BY <1>1 DEF Engine
    <2>2. QED
      BY <1>1, <1>10, <2>1, TableTypes, EngineKeeps
         DEF Observes, EngineGoes, Leaves, targetVars, configVars, TargetsTypeOK
  <1>11. ASSUME NEW s \in Servers, IsAnswered(s) \/ IsUnanswered(s)
         PROVE  IInv'
    BY <1>1, <1>11, AskedTypes, EngineKeeps
       DEF IsAnswered, IsUnanswered, AfterUnanswered, EngineGoes, Leaves, targetVars,
           configVars, TargetsTypeOK
  <1>12. ASSUME NEW S \in SUBSET Servers, SweepsExpired(S)
         PROVE  IInv'
    <2>1. TargetsTypeOK'
      BY <1>1, <1>12, OtherChangeTypes DEF SweepsExpired, OtherChange
    <2>2. QED
      BY <1>1, <1>12, <2>1, TableTypes, EngineKeeps
         DEF SweepsExpired, EngineGoes, Leaves, configVars
  <1>13. QED
    BY <1>2, <1>3, <1>4, <1>5, <1>6, <1>7, <1>8, <1>9, <1>10, <1>11, <1>12 DEF EngineStep

-----------------------------------------------------------------------------
(***************************************************************************)
(* The requests, and the rest.                                             *)
(***************************************************************************)
LEMMA ApproverStepKeeps ==
    ASSUME IInv, NEW p \in Approvers, ApproverStep(p)
    PROVE  IInv'
  <1>1. /\ approver \in [Approvers -> Approver] /\ TargetsTypeOK /\ targets \in TargetTable
        /\ written \in TargetTable /\ loaded \in TargetTable /\ approver[p].read \in TargetTable
    BY DEF IInv, TypeOK, TargetsTypeOK, Approver
  <1>2. ASSUME NEW state \in Approver, approver' = [approver EXCEPT ![p] = state],
               UNCHANGED <<engine, stopVars>>, wake' = wake \/ wake' = TRUE,
               TargetsTypeOK', written' \in TargetTable, loaded' \in TargetTable
        PROVE  IInv'
    <2>1. approver' \in [Approvers -> Approver]
      BY <1>1, <1>2
    <2>2. wake' \in BOOLEAN /\ (wake => wake')
      <3>1. wake \in BOOLEAN
        BY DEF IInv, TypeOK
      <3>2. CASE wake' = wake
        BY <3>1, <3>2
      <3>3. CASE wake' = TRUE
        BY <3>3
      <3>4. QED
        BY <1>2, <3>2, <3>3
    <2>3. QED
      BY <1>2, <2>1, <2>2 DEF IInv, TypeOK, stopVars
  <1>3. /\ \A a \in {"idle", "read", "reload", "wake"} : [Idle EXCEPT !.at = a] \in Approver
        /\ \A t \in TargetTable : [at |-> "write", read |-> t] \in Approver
        /\ Idle \in Approver
    BY TableTypes DEF Idle, Approver
  <1>4. ASSUME NEW s \in Servers, NEW a \in Addresses, Approves(p, s, a)
        PROVE  IInv'
    <2>1. TargetsTypeOK'
      BY <1>1, <1>4 DEF Approves, Approve, Becomes, TargetsTypeOK, TargetTable, Standings
    <2>2. QED
      BY <1>1, <1>2, <1>3, <1>4, <2>1 DEF Approves, ApproverGoes, configVars
  <1>5. CASE ApproverReads(p)
    BY <1>1, <1>2, <1>3, <1>5
       DEF ApproverReads, ApproverGoes, targetVars, configVars, TargetsTypeOK
  <1>6. CASE ApproverWrites(p)
    BY <1>1, <1>2, <1>3, <1>6 DEF ApproverWrites, ApproverGoes, targetVars, TargetsTypeOK
  <1>7. CASE ApproverReloads(p)
    BY <1>1, <1>2, <1>3, <1>7 DEF ApproverReloads, ApproverGoes, targetVars, TargetsTypeOK
  <1>8. CASE ApproverWakes(p) \/ ApproverFails(p)
    BY <1>1, <1>2, <1>3, <1>8
       DEF ApproverWakes, ApproverFails, ApproverGoes, targetVars, configVars, TargetsTypeOK
  <1>9. QED
    BY <1>4, <1>5, <1>6, <1>7, <1>8 DEF ApproverStep

LEMMA StopSignalsKeeps ==
    ASSUME IInv, StopSignals
    PROVE  IInv'
  <1>1. stop \in 0..1 /\ stop' = stop + 1
    BY DEF IInv, TypeOK, StopSignals
  <1>2. CASE stop = 0
    <2>1. stop' = 1 /\ StopSets[stop'] = "stopping"
      BY <1>1, <1>2 DEF StopSets
    <2>2. stopping' = TRUE /\ wake' \in BOOLEAN
      BY <2>1 DEF StopSignals, IInv, TypeOK
    <2>3. QED
      BY <2>1, <2>2 DEF StopSignals, IInv, TypeOK, TargetsTypeOK, targetVars, configVars
  <1>3. CASE stop = 1
    <2>1. stop' = 2 /\ StopSets[stop'] = "wake"
      BY <1>1, <1>3 DEF StopSets
    <2>2. stopping' = TRUE /\ wake' = TRUE
      <3>1. stopping = TRUE
        BY <1>3 DEF IInv, TypeOK
      <3>2. QED
        BY <2>1, <3>1 DEF StopSignals
    <2>3. QED
      BY <2>1, <2>2 DEF StopSignals, IInv, TypeOK, TargetsTypeOK, targetVars, configVars
  <1>4. QED
    BY <1>1, <1>2, <1>3

LEMMA ProcessKeeps ==
    ASSUME IInv, ProcessEnds \/ ProcessStarts
    PROVE  IInv'
  <1>1. engine' \in Engine /\ engine'.at \in Leaves
    BY TableTypes DEF ProcessEnds, ProcessStarts, EngineGoes, Leaves
  <1>2. TargetsTypeOK' /\ written' \in TargetTable /\ loaded' \in TargetTable
    BY DEF ProcessEnds, ProcessStarts, WrittenAtStart, IInv, TypeOK, TargetsTypeOK, targetVars,
           configVars
  <1>3. CASE ProcessEnds
    <2>1. approver' \in [Approvers -> Approver]
      BY <1>3, TableTypes DEF ProcessEnds
    <2>2. wake' \in BOOLEAN /\ stopping' \in BOOLEAN
      BY <1>3 DEF ProcessEnds
    <2>3. stop' \in 0..2 /\ ~(stop' >= 1) /\ stop' # 2
      BY <1>3 DEF ProcessEnds
    <2>4. QED
      BY <1>1, <1>2, <2>1, <2>2, <2>3 DEF IInv, TypeOK
  <1>4. CASE ProcessStarts
    BY <1>1, <1>2, <1>4 DEF ProcessStarts, IInv, TypeOK, stopVars
  <1>5. QED
    BY <1>3, <1>4

-----------------------------------------------------------------------------
THEOREM InvInit == Init => IInv
  <1> SUFFICES ASSUME Init PROVE IInv
    OBVIOUS
  <1>1. TargetsTypeOK
    BY DEF Init, TargetsInit, TargetsTypeOK, TargetTable, Standings
  <1>2. QED
    <2>1. wake \in BOOLEAN /\ stopping \in BOOLEAN /\ stop \in 0..2
      <3>1. wake \in BOOLEAN /\ stopping \in BOOLEAN
        BY DEF Init
      <3>2. stop \in 0..2
        BY DEF Init
      <3>3. QED
        BY <3>1, <3>2
    <2>2. ~(stop >= 1) /\ stop # 2
      BY DEF Init
    <2>3. /\ written \in TargetTable /\ loaded \in TargetTable
          /\ engine \in Engine /\ approver \in [Approvers -> Approver]
      BY TableTypes DEF Init
    <2>4. QED
      BY <1>1, <2>1, <2>2, <2>3 DEF IInv, TypeOK

THEOREM InvStep == IInv /\ [Next]_vars => IInv'
  <1> SUFFICES ASSUME IInv, [Next]_vars
               PROVE  IInv'
    OBVIOUS
  <1>1. CASE UNCHANGED vars
    BY <1>1 DEF vars, IInv, TypeOK, TargetsTypeOK, targetVars, configVars, stopVars
  <1>2. CASE EngineStep \/ Dies
    BY <1>2, EngineStepKeeps
  <1>3. CASE \E p \in Approvers : ApproverStep(p)
    BY <1>3, ApproverStepKeeps
  <1>4. CASE TableChanges
    <2>1. TargetsTypeOK'
      BY <1>4, OtherChangeTypes DEF TableChanges, IInv, TypeOK
    <2>2. QED
      BY <1>4, <2>1 DEF TableChanges, IInv, TypeOK, configVars, stopVars
  <1>5. CASE PrometheusStarts
    BY <1>5 DEF PrometheusStarts, IInv, TypeOK, TargetsTypeOK, targetVars, stopVars
  <1>6. CASE StopSignals \/ ProcessEnds \/ ProcessStarts
    BY <1>6, StopSignalsKeeps, ProcessKeeps
  <1>7. QED
    BY <1>1, <1>2, <1>3, <1>4, <1>5, <1>6 DEF Next

\* Types of the engine, of the approvals and of what they read and write.
THEOREM TypeCorrect == Spec => []TypeOK
  <1>1. IInv => TypeOK
    BY DEF IInv
  <1>2. QED
    BY InvInit, InvStep, <1>1, PTL DEF Spec

\* The thread does not sleep once both events of a shutdown are set.
THEOREM StopHeard == Spec => []StopIsHeard
  <1>1. IInv => StopIsHeard
    BY DEF IInv, StopIsHeard, Leaves
  <1>2. QED
    BY InvInit, InvStep, <1>1, PTL DEF Spec
=============================================================================
