-------------------------- MODULE ObservationEngine --------------------------
(***************************************************************************)
(* The observation engine (observation.py): one thread that, round after   *)
(* round, reconciles Prometheus with the active scrape targets, observes   *)
(* them, sweeps expired certificates and evaluates Server Health, then     *)
(* waits thirty seconds or until it is woken.  Beside it run the handlers  *)
(* of approvals, which reconcile too, and whatever else changes the table  *)
(* and tells nobody: revocation, expiry, a move, retirement.               *)
(*                                                                         *)
(* To reconcile is to read the table, to replace prometheus.yml and to ask *)
(* Prometheus to load it, in three steps with no lock around them          *)
(* (prometheus.py:837-848), so a writer may put back what it read before   *)
(* another one read more.                                                  *)
(*                                                                         *)
(* An operator X_Slip beside X is X as a slip in the code would have it,   *)
(* to show which property would notice; nothing uses it.                   *)
(***************************************************************************)
EXTENDS Naturals, ScrapeTargets

CONSTANT
    Approvers \* threads of requests that approve an enrollment

VARIABLES
    written,  \* the targets in prometheus.yml
    loaded,   \* the targets Prometheus scrapes
    engine,   \* the thread: where it is, and what it has read; down without a process
    approver, \* the requests: where they are, and what they have read
    wake,     \* the event the engine waits for
    stopping, \* the event it looks at before each round
    stop      \* how far the shutdown of the process has come

configVars == <<written, loaded>>
stopVars == <<stopping, stop>>
vars == <<targetVars, configVars, engine, approver, wake, stopVars>>

-----------------------------------------------------------------------------
NoTargets == [s \in Servers |-> None]

\* What is kept in a place where nothing reads it any more is forgotten.
At(place) == [at |-> place, read |-> NoTargets, todo |-> {}, server |-> None]
Holding(place, table) == [At(place) EXCEPT !.read = table]
Working(place, S) == [At(place) EXCEPT !.todo = S]

Engine ==
    [at: {"head", "write", "reload", "list-targets", "observe", "sweep",
          "list-servers", "evaluate", "record", "waiting", "woken", "ended", "dead", "down"},
     read: TargetTable, todo: SUBSET Servers, server: Servers \cup {None}]

Approver == [at: {"idle", "read", "write", "reload", "wake"}, read: TargetTable]

Idle == [at |-> "idle", read |-> NoTargets]

TypeOK ==
    /\ TargetsTypeOK
    /\ written \in TargetTable
    /\ loaded \in TargetTable
    /\ engine \in Engine
    /\ approver \in [Approvers -> Approver]
    /\ wake \in BOOLEAN
    /\ stopping \in BOOLEAN
    /\ stop \in 0..2

Init ==
    /\ TargetsInit
    /\ written = NoTargets
    /\ loaded = NoTargets
    /\ engine = At("head")
    /\ approver = [p \in Approvers |-> Idle]
    /\ wake = FALSE
    /\ stopping = FALSE
    /\ stop = 0

-----------------------------------------------------------------------------
(***************************************************************************)
(* A round of the engine.                                                  *)
(***************************************************************************)
EngineGoes(from, state) ==
    /\ engine.at = from
    /\ engine' = state

EndsLoop ==
    /\ stopping
    /\ EngineGoes("head", At("ended"))
    /\ UNCHANGED <<targetVars, configVars, approver, wake, stopVars>>

ReadsTargets ==
    /\ ~stopping
    /\ EngineGoes("head", Holding("write", targets))
    /\ UNCHANGED <<targetVars, configVars, approver, wake, stopVars>>

\* The file takes its place in one rename.
WritesConfig ==
    /\ EngineGoes("write", At("reload"))
    /\ written' = engine.read
    /\ UNCHANGED <<targetVars, loaded, approver, wake, stopVars>>

Reloads ==
    /\ EngineGoes("reload", At("list-targets"))
    /\ loaded' = written
    /\ UNCHANGED <<targetVars, written, approver, wake, stopVars>>

\* PrometheusUnavailable, and the round goes on.
ReloadFails ==
    /\ EngineGoes("reload", At("list-targets"))
    /\ UNCHANGED <<targetVars, configVars, approver, wake, stopVars>>

ListsTargets ==
    /\ EngineGoes("list-targets",
                  Working("observe", {s \in Servers : targets[s] # None}))
    /\ UNCHANGED <<targetVars, configVars, approver, wake, stopVars>>

\* A scrape that fails is recorded as one, and the next target has its turn.
Observes(s) ==
    /\ s \in engine.todo
    /\ EngineGoes("observe", Working("observe", engine.todo \ {s}))
    /\ UNCHANGED <<targetVars, configVars, approver, wake, stopVars>>

ObservesNone ==
    /\ engine.todo = {}
    /\ EngineGoes("observe", At("sweep"))
    /\ UNCHANGED <<targetVars, configVars, approver, wake, stopVars>>

SweepsExpired(S) ==
    /\ EngineGoes("sweep", At("list-servers"))
    /\ Expire(S)
    /\ UNCHANGED <<configVars, approver, wake, stopVars>>

Evaluated(s) == standing[s] \in {"active", "re-enrollment-required"}

ListsServers ==
    /\ EngineGoes("list-servers", Working("evaluate", {s \in Servers : Evaluated(s)}))
    /\ UNCHANGED <<targetVars, configVars, approver, wake, stopVars>>

AskedAbout(s) == [Working("record", engine.todo \ {s}) EXCEPT !.server = s]

IsAnswered(s) ==
    /\ s \in engine.todo
    /\ EngineGoes("evaluate", AskedAbout(s))
    /\ UNCHANGED <<targetVars, configVars, approver, wake, stopVars>>

AfterUnanswered_GivesUp(s) == At("waiting")

\* An observation without an answer is recorded in the place of one.
AfterUnanswered(s) == AskedAbout(s)

\* Prometheus does not answer, or is not asked since the server must enroll again.
IsUnanswered(s) ==
    /\ s \in engine.todo
    /\ EngineGoes("evaluate", AfterUnanswered(s))
    /\ UNCHANGED <<targetVars, configVars, approver, wake, stopVars>>

\* evaluate_server_health; what it does to the incidents is in ServerIncidents.
Evaluates ==
    /\ EngineGoes("record", Working("evaluate", engine.todo))
    /\ UNCHANGED <<targetVars, configVars, approver, wake, stopVars>>

EvaluatesNone ==
    /\ engine.todo = {}
    /\ EngineGoes("evaluate", At("waiting"))
    /\ UNCHANGED <<targetVars, configVars, approver, wake, stopVars>>

WaitEnds_WokenOnly == wake

\* wait(timeout=30) returns at once when woken, and after thirty seconds otherwise.
WaitEnds == TRUE

StopsWaiting ==
    /\ WaitEnds
    /\ EngineGoes("waiting", At("woken"))
    /\ UNCHANGED <<targetVars, configVars, approver, wake, stopVars>>

ClearsWake ==
    /\ EngineGoes("woken", At("head"))
    /\ wake' = FALSE
    /\ UNCHANGED <<targetVars, configVars, approver, stopVars>>

Running == engine.at # "down"

\* Anything but PrometheusUnavailable, a locked database or an answer that is not
\* HTTP among others, ends the thread; nothing starts it again and /health/ready does
\* not ask for it.  A reload that was carried out all the same is PrometheusStarts.
Dies ==
    /\ engine.at \notin {"waiting", "woken", "ended", "dead", "down"}
    /\ engine' = At("dead")
    /\ UNCHANGED <<targetVars, configVars, approver, wake, stopVars>>

EngineStep ==
    \/ EndsLoop \/ ReadsTargets \/ WritesConfig \/ Reloads \/ ReloadFails
    \/ ListsTargets \/ ObservesNone \/ ListsServers \/ Evaluates \/ EvaluatesNone
    \/ StopsWaiting \/ ClearsWake
    \/ \E s \in Servers : Observes(s) \/ IsAnswered(s) \/ IsUnanswered(s)
    \/ \E S \in SUBSET Servers : SweepsExpired(S)

-----------------------------------------------------------------------------
(***************************************************************************)
(* An approval: commit, answer, then reconcile and wake the engine.        *)
(***************************************************************************)
ApproverGoes(p, from, state) ==
    /\ approver[p].at = from
    /\ approver' = [approver EXCEPT ![p] = state]

Approves(p, s, a) ==
    /\ Running
    /\ ApproverGoes(p, "idle", [Idle EXCEPT !.at = "read"])
    /\ Approve(s, a)
    /\ UNCHANGED <<configVars, engine, wake, stopVars>>

ApproverReads(p) ==
    /\ ApproverGoes(p, "read", [at |-> "write", read |-> targets])
    /\ UNCHANGED <<targetVars, configVars, engine, wake, stopVars>>

ApproverWrites(p) ==
    /\ ApproverGoes(p, "write", [Idle EXCEPT !.at = "reload"])
    /\ written' = approver[p].read
    /\ UNCHANGED <<targetVars, loaded, engine, wake, stopVars>>

ApproverReloads(p) ==
    /\ ApproverGoes(p, "reload", [Idle EXCEPT !.at = "wake"])
    /\ \/ loaded' = written
       \/ UNCHANGED loaded
    /\ UNCHANGED <<targetVars, written, engine, wake, stopVars>>

ApproverWakes(p) ==
    /\ ApproverGoes(p, "wake", Idle)
    /\ wake' = TRUE
    /\ UNCHANGED <<targetVars, configVars, engine, stopVars>>

\* The answer cannot be sent, the database is locked, the file cannot be written, or
\* Prometheus answers what is not HTTP: the engine is not woken.
ApproverFails(p) ==
    /\ ApproverGoes(p, approver[p].at, Idle)
    /\ approver[p].at \in {"read", "write", "reload"}
    /\ UNCHANGED <<targetVars, configVars, engine, wake, stopVars>>

-----------------------------------------------------------------------------
(***************************************************************************)
(* The table changes, Prometheus starts anew, the process stops or dies.   *)
(***************************************************************************)
TableChanges ==
    /\ Running
    /\ OtherChange
    /\ UNCHANGED <<configVars, engine, approver, wake, stopVars>>

PrometheusStarts ==
    /\ loaded' = written
    /\ UNCHANGED <<targetVars, written, engine, approver, wake, stopVars>>

\* The events that stop() sets, in its order.
StopSets_WakeFirst == <<"wake", "stopping">>

StopSets == <<"stopping", "wake">>

StopSignals ==
    /\ Running
    /\ stop < 2
    /\ stop' = stop + 1
    /\ stopping' = (stopping \/ StopSets[stop'] = "stopping")
    /\ wake' = (wake \/ StopSets[stop'] = "wake")
    /\ UNCHANGED <<targetVars, configVars, engine, approver>>

\* The process is killed, or gives up the join after ten seconds.  Its threads and
\* events are gone; the table and the file stay.
ProcessEnds ==
    /\ Running
    /\ engine' = At("down")
    /\ approver' = [p \in Approvers |-> Idle]
    /\ wake' = FALSE
    /\ stopping' = FALSE
    /\ stop' = 0
    /\ UNCHANGED <<targetVars, configVars>>

WrittenAtStart_Standing == standing

WrittenAtStart == targets

\* create_server writes the configuration before any thread runs.
ProcessStarts ==
    /\ EngineGoes("down", At("head"))
    /\ written' = WrittenAtStart
    /\ UNCHANGED <<targetVars, loaded, approver, wake, stopVars>>

-----------------------------------------------------------------------------
ApproverStep(p) ==
    \/ \E s \in Servers, a \in Addresses : Approves(p, s, a)
    \/ ApproverReads(p) \/ ApproverWrites(p) \/ ApproverReloads(p)
    \/ ApproverWakes(p) \/ ApproverFails(p)

Next ==
    \/ EngineStep
    \/ Dies
    \/ \E p \in Approvers : ApproverStep(p)
    \/ TableChanges
    \/ PrometheusStarts
    \/ StopSignals
    \/ ProcessEnds
    \/ ProcessStarts

\* The thread is scheduled, and each of its calls returns: every query, scrape and
\* statement has a timeout.  Prometheus, asked again and again to load its file, at
\* last does.  Nothing else has to happen.
Fairness == WF_vars(EngineStep) /\ SF_vars(Reloads)

Spec == Init /\ [][Next]_vars /\ Fairness

-----------------------------------------------------------------------------
(***************************************************************************)
(* Safety.                                                                 *)
(***************************************************************************)
\* Once stop() has set both its events, the engine does not sleep through its thirty
\* seconds while the shutdown waits ten for it: whichever of its statements it was
\* at, clearing the wake event included, it finds one event or the other.
StopIsHeard == stop = 2 /\ engine.at = "waiting" => wake

-----------------------------------------------------------------------------
(***************************************************************************)
(* Liveness, as long as the thread lives.                                  *)
(***************************************************************************)
\* From some point on the thread of one and the same process lives: a restart passes
\* by "down", and no step of a round, of an approval or of the table's does.
EngineLives == engine.at \notin {"ended", "dead", "down"}

Undisturbed == <>[]EngineLives

\* Prometheus ends up scraping exactly what the table says, from the address it
\* says: a target that stays is loaded for good, one that is gone, by a retirement
\* nobody told the engine of, is dropped for good.  A writer that puts back an old
\* table and a reload that fails are made good by a later round.
ConfigurationFollows ==
    Undisturbed => \A s \in Servers, a \in Addresses \cup {None} :
                       <>[](targets[s] = a) => <>[](loaded[s] = a)

\* A server that stays enrolled is evaluated again and again, whatever becomes of the
\* queries about the servers before it and whatever wakes the engine meanwhile.
EvaluatedAgainAndAgain ==
    Undisturbed => \A s \in Servers :
        <>[]Evaluated(s) => []<>(engine.at = "record" /\ engine.server = s)
=============================================================================
