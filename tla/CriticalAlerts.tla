--------------------------- MODULE CriticalAlerts ---------------------------
(***************************************************************************)
(* Critical Alerts (health.py): what the page /metrics says of a Server    *)
(* Incident, against the Maintenance Windows of its server.  Prometheus    *)
(* scrapes that page every few seconds and whatever it hears goes straight *)
(* to Alertmanager.                                                        *)
(*                                                                         *)
(* One incident is enough, the page treats each by itself; what            *)
(* evaluations do to it is IncidentRecord, which ServerIncidents is shown  *)
(* to implement.  The page takes the time, then reads the incident, its    *)
(* transitions and the windows in three statements with no transaction     *)
(* around them, so an evaluation may commit between any two.               *)
(*                                                                         *)
(* Times are ticks of a clock longer than the interval between scrapes.    *)
(*                                                                         *)
(* An operator X_Slip beside X is X as a slip in the code would have it,   *)
(* to show which property would notice; nothing uses it.                   *)
(***************************************************************************)
EXTENDS IncidentRecord, SequencesExt, FiniteSets

CONSTANTS
    MaxTime,        \* bound: the last tick
    MaxWindows,     \* bound: Maintenance Windows declared
    MaxTransitions, \* bound: transitions of the incident before it closes
    CommitLag,      \* how much earlier than its commit an evaluation took the time
    RecoverySeconds \* for how long after the closing a recovery is exposed

Times == 0..MaxTime

ASSUME TimesAssumption ==
    /\ MaxTime \in Nat /\ MaxWindows \in Nat /\ MaxTransitions \in Nat
    /\ CommitLag \in Nat /\ RecoverySeconds \in Nat
    /\ None \notin Int

VARIABLES
    windows,   \* maintenance_windows
    scrape,    \* the request for /metrics under way
    alerted,   \* whether Prometheus has ever heard the incident
    recovered, \* whether it has heard its recovery
    heard      \* what the latest answer said of the incident

heardVars == <<alerted, recovered, heard>>
vars == <<clock, windows, incidentVars, scrape, heardVars>>

-----------------------------------------------------------------------------
Windows == {w \in [startsAt: Times, endsAt: 1..MaxTime + 1] : w.startsAt < w.endsAt}

NoRow == [openedAt |-> None, closedAt |-> None, severity |-> "Healthy"]
Row == [openedAt: Times \cup {None}, closedAt: Times \cup {None},
        severity: Severities \cup {"Healthy"}]

Idle(now) == [step |-> "idle", now |-> now, row |-> NoRow, transitions |-> <<>>]
Scrape == [step: {"idle", "begun", "incident", "transitions"}, now: Times \cup {-1},
           row: Row, transitions: Seq(Severities \cup {"Healthy"})]

Silence == [signal |-> "none", severity |-> "Healthy", transition |-> "none"]
Alert(severity, transition) ==
    [signal |-> "incident", severity |-> severity, transition |-> transition]
Recovery == [signal |-> "recovery", severity |-> "Healthy", transition |-> "recovery"]

Answers == {Silence, Recovery} \cup
    {Alert(severity, transition) : severity \in Severities,
                                   transition \in {"opening", "escalation", "improvement"}}

TypeOK ==
    /\ clock \in Times
    /\ windows \in SUBSET Windows
    /\ openedAt \in Times \cup {None}
    /\ closedAt \in Times \cup {None}
    /\ closedAt # None => openedAt # None
    /\ transitions \in Seq(Severities \cup {"Healthy"})
    /\ scrape \in Scrape
    /\ alerted \in BOOLEAN
    /\ recovered \in BOOLEAN
    /\ heard \in Answers

Init ==
    /\ clock = 0
    /\ windows = {}
    /\ RecordInit
    /\ scrape = Idle(-1)
    /\ alerted = FALSE
    /\ recovered = FALSE
    /\ heard = Silence

-----------------------------------------------------------------------------
(***************************************************************************)
(* The incident, as evaluations record it.                                 *)
(***************************************************************************)
\* The time an evaluation that commits now may have taken for its own; nothing keeps a
\* closing from being earlier than the opening.
EvaluationTimes == {t \in Times : clock - CommitLag <= t /\ t <= clock}

OpenIncident(severity) ==
    /\ openedAt' \in EvaluationTimes
    /\ RecordOpens(severity)
    /\ UNCHANGED <<clock, windows, scrape, heardVars>>

ChangeIncident(severity) ==
    /\ Len(transitions) < MaxTransitions
    /\ RecordChanges(severity)
    /\ UNCHANGED <<clock, windows, scrape, heardVars>>

CloseIncident ==
    /\ closedAt' \in EvaluationTimes
    /\ RecordCloses
    /\ UNCHANGED <<clock, windows, scrape, heardVars>>

\* An administrator may declare any time at all, past times too.
CreateMaintenanceWindow(w) ==
    /\ Cardinality(windows) < MaxWindows
    /\ windows' = windows \cup {w}
    /\ UNCHANGED <<clock, incidentVars, scrape, heardVars>>

-----------------------------------------------------------------------------
(***************************************************************************)
(* The answer of the page.                                                 *)
(***************************************************************************)
\* _notification_transition, one row after another.
TransitionAfter_EveryRow(told, severity) ==
    [severity |-> severity,
     transition |-> IF severity = "Unavailable" THEN "escalation"
                    ELSE IF severity = "Degraded" THEN "improvement"
                    ELSE told.transition]

TransitionAfter(told, severity) ==
    [severity |-> severity,
     transition |-> IF severity = told.severity THEN told.transition
                    ELSE IF severity = "Unavailable" THEN "escalation"
                    ELSE IF severity = "Degraded" THEN "improvement"
                    ELSE told.transition]

NotificationTransition(rows) ==
    FoldLeft(TransitionAfter, [severity |-> Head(rows), transition |-> "opening"],
             Tail(rows)).transition

\* The windows that overlap the incident, which ends now while it is open.
IncidentWindows(row, now) ==
    LET end == IF row.closedAt = None THEN now ELSE row.closedAt
    IN  {w \in windows : w.startsAt < end /\ w.endsAt > row.openedAt}

ActiveWindow_Any(row, now) == IncidentWindows(row, now) # {}

ActiveWindow(row, now) ==
    \E w \in IncidentWindows(row, now) : w.startsAt <= now /\ now < w.endsAt

\* How far the windows that begin by then cover the incident from its opening on.
CoverageAfter_Last(row, coverage, w) ==
    IF coverage = None THEN IF w.startsAt > row.openedAt THEN None ELSE w.endsAt
    ELSE IF w.startsAt <= coverage THEN w.endsAt ELSE coverage

CoverageAfter(row, coverage, w) ==
    IF coverage = None THEN IF w.startsAt > row.openedAt THEN None ELSE w.endsAt
    ELSE IF w.startsAt <= coverage /\ w.endsAt > coverage THEN w.endsAt ELSE coverage

\* ORDER BY starts_at: windows that start together come in any order.
ByStart(rows) == \A i, j \in DOMAIN rows : i < j => rows[i].startsAt <= rows[j].startsAt

InOrder(row, now) == CHOOSE rows \in SetToSeqs(IncidentWindows(row, now)) : ByStart(rows)

WhollyContained(row, now) ==
    LET coverage == FoldLeft(LAMBDA c, w : CoverageAfter(row, c, w), None, InOrder(row, now))
    IN  coverage # None /\ coverage >= row.closedAt

JustClosed_Now(row, now) == now = row.closedAt

JustClosed(row, now) == now - row.closedAt <= RecoverySeconds

\* What the page makes of the rows it has read.
Answer_StillOpen(row, rows, now) ==
    IF row.openedAt = None \/ ActiveWindow(row, now) THEN Silence
    ELSE IF row.closedAt = None \/ JustClosed(row, now)
    THEN Alert(row.severity, NotificationTransition(rows))
    ELSE Silence

Answer(row, rows, now) ==
    IF row.openedAt = None \/ ActiveWindow(row, now) THEN Silence
    ELSE IF row.closedAt = None THEN Alert(row.severity, NotificationTransition(rows))
    ELSE IF ~WhollyContained(row, now) /\ JustClosed(row, now) THEN Recovery
    ELSE Silence

-----------------------------------------------------------------------------
(***************************************************************************)
(* A scrape of the page.                                                   *)
(***************************************************************************)
BeginScrape ==
    /\ scrape.step = "idle"
    /\ scrape' = [Idle(clock) EXCEPT !.step = "begun"]
    /\ UNCHANGED <<clock, windows, incidentVars, heardVars>>

ReadIncident ==
    /\ scrape.step = "begun"
    /\ scrape' = [scrape EXCEPT
          !.step = "incident",
          !.row = IF openedAt = None THEN NoRow
                  ELSE [openedAt |-> openedAt, closedAt |-> closedAt,
                        severity |-> Last(transitions)]]
    /\ UNCHANGED <<clock, windows, incidentVars, heardVars>>

ReadTransitions ==
    /\ scrape.step = "incident"
    /\ scrape' = [scrape EXCEPT !.step = "transitions", !.transitions = transitions]
    /\ UNCHANGED <<clock, windows, incidentVars, heardVars>>

\* The windows are read last, and the answer given.
AnswerScrape ==
    LET answer == Answer(scrape.row, scrape.transitions, scrape.now)
    IN  /\ scrape.step = "transitions"
        /\ scrape' = Idle(scrape.now)
        /\ heard' = answer
        /\ alerted' = (alerted \/ answer.signal = "incident")
        /\ recovered' = (recovered \/ answer.signal = "recovery")
        /\ UNCHANGED <<clock, windows, incidentVars>>

\* Prometheus scrapes at least once in every tick, and no scrape takes two.
Tick ==
    /\ clock < MaxTime
    /\ scrape.now = clock
    /\ clock' = clock + 1
    /\ UNCHANGED <<windows, incidentVars, scrape, heardVars>>

Next ==
    \/ \E severity \in Severities : OpenIncident(severity) \/ ChangeIncident(severity)
    \/ CloseIncident
    \/ \E w \in Windows : CreateMaintenanceWindow(w)
    \/ BeginScrape \/ ReadIncident \/ ReadTransitions \/ AnswerScrape
    \/ Tick

Spec == Init /\ [][Next]_vars
-----------------------------------------------------------------------------
(***************************************************************************)
(* Safety.                                                                 *)
(***************************************************************************)
TheIncident ==
    [openedAt |-> openedAt, closedAt |-> closedAt, severity |-> Last(transitions)]

InWindow(t) == \E w \in windows : w.startsAt <= t /\ t < w.endsAt

\* An incident counts as contained, and its recovery stays unsaid, exactly if windows
\* cover every moment of it: the loop over the sorted windows loses no nested, adjacent
\* or overlapping one.
ContainmentIsCoverage ==
    closedAt # None /\ openedAt < closedAt =>
        (WhollyContained(TheIncident, clock)
         <=> \A t \in openedAt..(closedAt - 1) : InWindow(t))

\* An incident is heard: if no window was active at a time when its opening had committed,
\* and it did not close until a scrape begun then was over, Prometheus has heard of it.
IncidentIsHeard ==
    openedAt # None =>
        \A t \in (openedAt + CommitLag + 1)..(clock - 2) :
            (closedAt = None \/ t + 1 < closedAt) /\ ~InWindow(t) => alerted

\* A recovery is heard: once its time is over, it has been, unless the incident was
\* contained in windows or a window was active at each of its last moments.
RecoveryIsHeard ==
    closedAt # None /\ clock > closedAt + RecoverySeconds + 1 =>
        \/ recovered
        \/ WhollyContained(TheIncident, clock)
        \/ \A t \in (closedAt + CommitLag + 1)..(closedAt + RecoverySeconds) : InWindow(t)

\* While an incident is open, what tells its alert apart changes only with its severity:
\* a cause more or less sends nothing new.
CauseChangesStaySilent ==
    [][IncidentOpen /\ closedAt' = None /\ Last(transitions') = Last(transitions)
       => NotificationTransition(transitions') = NotificationTransition(transitions)]_vars
=============================================================================
