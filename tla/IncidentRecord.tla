---------------------------- MODULE IncidentRecord ----------------------------
(***************************************************************************)
(* What the Critical Alerts rely on of Server Health: the record of one    *)
(* incident, which is opened once, by an evaluation that began by then,    *)
(* tells one severity after another while it is open, and is closed once.  *)
(*                                                                         *)
(* Nothing is said of when an evaluation commits, nor of the order of      *)
(* their times: the closing may be dated before the opening.               *)
(***************************************************************************)
EXTENDS Integers, Sequences

CONSTANT None \* no value: a NULL, or no row

VARIABLES
    clock,
    openedAt,    \* server_incidents.opened_at; None before there is an incident
    closedAt,    \* server_incidents.closed_at
    transitions  \* severities in server_incident_transitions, oldest first

incidentVars == <<openedAt, closedAt, transitions>>

Severities == {"Degraded", "Unavailable"}

IncidentOpen == openedAt # None /\ closedAt = None

RecordInit ==
    /\ openedAt = None
    /\ closedAt = None
    /\ transitions = <<>>

-----------------------------------------------------------------------------
RecordOpens(severity) ==
    /\ openedAt = None
    /\ openedAt' \in Int /\ openedAt' <= clock
    /\ transitions' = <<severity>>
    /\ UNCHANGED closedAt

\* Also when only the causes have changed.
RecordChanges(severity) ==
    /\ IncidentOpen
    /\ transitions' = Append(transitions, severity)
    /\ UNCHANGED <<openedAt, closedAt>>

RecordCloses ==
    /\ IncidentOpen
    /\ closedAt' \in Int /\ closedAt' <= clock
    /\ transitions' = Append(transitions, "Healthy")
    /\ UNCHANGED openedAt

RecordNext ==
    \/ \E severity \in Severities : RecordOpens(severity) \/ RecordChanges(severity)
    \/ RecordCloses

RecordSpec == RecordInit /\ [][RecordNext]_incidentVars
=============================================================================
