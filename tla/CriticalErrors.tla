--------------------------- MODULE CriticalErrors ---------------------------
(***************************************************************************)
(* A Critical Error on its way from a host to its Server Health.           *)
(*                                                                         *)
(* On the host a timer runs two programs one after the other: the first    *)
(* (lab-critical-errors-evidence) collects what the journal, pstore and    *)
(* the watchdog show, the second (lab-critical-errors-helper) counts what  *)
(* it has not seen before, stamps the time of the latest event, and        *)
(* replaces two files: its state and the metrics of node_exporter.  The    *)
(* host may reboot, and either program be stopped, between any two steps.  *)
(*                                                                         *)
(* Prometheus scrapes the metrics; the observation engine asks, round by   *)
(* round, whether the stamp is at most Fresh old (prometheus.py:427) and   *)
(* feeds a rule that fires at once and clears after Hold (health.py:992).  *)
(*                                                                         *)
(* The three kinds of event are counted alike; of one of them, Watched,    *)
(* the model follows the stamp.  The clocks of host, Prometheus and        *)
(* dashboard are one.                                                      *)
(*                                                                         *)
(* An operator X_Slip beside X is X as a slip in the code would have it,   *)
(* to show which property would notice; nothing uses it.                   *)
(***************************************************************************)
EXTENDS Integers, FiniteSets, FiniteSetsExt

CONSTANTS
    IoErrors,    \* the lines storage errors may leave in the journal of a boot
    Watched,     \* the kind of event whose stamp is followed
    Fresh,       \* for how long an event is one: sixty seconds
    Hold,        \* for how long it must be over for the rule to clear: thirty minutes
    ScrapeEvery, \* how often Prometheus scrapes: thirty seconds
    MaxBoots,    \* bound: boots of the host
    MaxTime,     \* bound: the last tick
    None         \* no value

Kinds == {"storage-io-error", "previous-panic", "watchdog-reset"}

ASSUME TimingAssumption ==
    /\ Fresh \in Nat /\ Hold \in Nat /\ ScrapeEvery \in Nat /\ ScrapeEvery <= Fresh
    /\ MaxBoots \in Nat \ {0} /\ MaxTime \in Nat

ASSUME NamesAssumption == Watched \in Kinds /\ None \notin Nat

VARIABLES
    clock,
    host,        \* the current boot, and what an observer would find there
    left,        \* every piece of evidence that events have left so far
    state,       \* the state file: what has been seen, counters, latest event
    metrics,     \* the metrics file: counters and latest event
    helper,      \* the two programs: where they are, and what they hold
    scraped,     \* the stamp Prometheus has; None when it has none
    sinceScrape, \* ticks since the last scrape that succeeded
    sinceRound,  \* ticks since the engine last asked
    rule,        \* the rule's state in server_health_evaluations
    heard,       \* the stamp of the last event the rule has heard and not forgotten
    smooth       \* since the last stamp: published at once, no scrape or round failed or late

hostVars == <<host, left>>
fileVars == <<state, metrics, helper>>
observationVars == <<scraped, sinceScrape, sinceRound, rule, heard>>
vars == <<clock, hostVars, fileVars, observationVars, smooth>>

-----------------------------------------------------------------------------
Times == 0..MaxTime
Boots == 1..MaxBoots
Stamps == Times \cup {None}

\* What tells one piece of evidence from another: its kind, the boot it is about and
\* the line, text or status it was found as.
Evidence == [kind: Kinds, boot: Boots,
             trace: IoErrors \cup {"line", "text", "status"}]

Host == [boot: Boots, ioErrors: SUBSET IoErrors, panicLine: BOOLEAN,
         pstore: SUBSET Boots, watchdog: BOOLEAN]

Counters == [Kinds -> Nat]
State == [seen: SUBSET Evidence, counters: Counters, latest: Stamps]
Metrics == [counters: Counters, latest: Stamps]

NoCounts == [k \in Kinds |-> 0]
NoState == [seen |-> {}, counters |-> NoCounts, latest |-> None]

Resting == [at |-> "rest", shown |-> {}, next |-> NoState]
Helper == [at: {"rest", "count", "first", "second"}, shown: SUBSET Evidence, next: State]

\* A round may come this late and still hear an event at once published and scraped.
RoundWithin == Fresh - ScrapeEvery

TypeOK ==
    /\ clock \in Times
    /\ host \in Host /\ (host.panicLine => host.boot > 1)
    /\ left \in SUBSET Evidence
    /\ state \in State
    /\ metrics \in Metrics
    /\ helper \in Helper
    /\ scraped \in Stamps
    /\ sinceScrape \in 0..ScrapeEvery
    /\ sinceRound \in 0..RoundWithin
    /\ rule \in [active: BOOLEAN, clearingSince: Stamps]
    /\ heard \in Stamps
    /\ smooth \in BOOLEAN

Init ==
    /\ clock = 0
    /\ host = [boot |-> 1, ioErrors |-> {}, panicLine |-> FALSE, pstore |-> {},
               watchdog |-> FALSE]
    /\ left = {}
    /\ state = NoState
    /\ metrics = [counters |-> NoCounts, latest |-> None]
    /\ helper = Resting
    /\ scraped = None
    /\ sinceScrape = 0
    /\ sinceRound = 0
    /\ rule = [active |-> FALSE, clearingSince |-> None]
    /\ heard = None
    /\ smooth = FALSE

-----------------------------------------------------------------------------
(***************************************************************************)
(* The host.                                                               *)
(***************************************************************************)
Found(kind, boot, trace) == [kind |-> kind, boot |-> boot, trace |-> trace]

StorageError(e) ==
    /\ e \notin host.ioErrors
    /\ host' = [host EXCEPT !.ioErrors = @ \cup {e}]
    /\ left' = left \cup {Found("storage-io-error", host.boot, e)}
    /\ UNCHANGED <<clock, fileVars, observationVars, smooth>>

\* What a boot that ends leaves to be found after it: of a panic a line in its
\* journal, a text in pstore, or both, and of a watchdog its status.
Remains(line, text, status) ==
    (IF line THEN {Found("previous-panic", host.boot, "line")} ELSE {})
    \cup (IF text THEN {Found("previous-panic", host.boot, "text")} ELSE {})
    \cup (IF status THEN {Found("watchdog-reset", host.boot + 1, "status")} ELSE {})

\* Texts stay in pstore until something clears it; both programs stop.
Reboot(line, text, status, pstore) ==
    /\ host.boot < MaxBoots
    /\ pstore \subseteq host.pstore
    /\ host' = [boot |-> host.boot + 1, ioErrors |-> {}, panicLine |-> line,
                pstore |-> IF text THEN pstore \cup {host.boot} ELSE pstore,
                watchdog |-> status]
    /\ left' = left \cup Remains(line, text, status)
    /\ helper' = Resting
    /\ UNCHANGED <<clock, state, metrics, observationVars, smooth>>

-----------------------------------------------------------------------------
(***************************************************************************)
(* Collecting, counting, publishing.                                       *)
(***************************************************************************)
PanicFound_AnyLine(previous) == {Found("previous-panic", host.boot - 1, "line")}

\* One panic at most is reported: the first line of the previous boot that tells of
\* one, and only without such a line the first text.
PanicFound(previous) ==
    IF previous /\ host.panicLine
    THEN {Found("previous-panic", host.boot - 1, "line")}
    ELSE IF host.pstore # {}
    THEN {Found("previous-panic", Min(host.pstore), "text")}
    ELSE {}

\* current, previous: whether the journal of that boot could be read.
Shown(current, previous) ==
    (IF current THEN {Found("storage-io-error", host.boot, e) : e \in host.ioErrors} ELSE {})
    \cup PanicFound(previous)
    \cup (IF host.watchdog THEN {Found("watchdog-reset", host.boot, "status")} ELSE {})

HelperGoes(from, to) ==
    /\ helper.at = from
    /\ helper' = to

Collects(current, previous) ==
    /\ HelperGoes("rest", [Resting EXCEPT !.at = "count",
                                          !.shown = Shown(current, previous)])
    /\ UNCHANGED <<clock, hostVars, state, metrics, observationVars, smooth>>

NewOf(kind) == {i \in helper.shown \ state.seen : i.kind = kind}

SeenAfter_Shown == helper.shown

\* What has been seen is remembered for good, whether it shows again or not.
SeenAfter == state.seen \cup helper.shown

Counted ==
    [seen     |-> SeenAfter,
     counters |-> [k \in Kinds |-> state.counters[k] + Cardinality(NewOf(k))],
     latest   |-> IF NewOf(Watched) # {} THEN clock ELSE state.latest]

Counts ==
    /\ HelperGoes("count", [Resting EXCEPT !.at = "first", !.next = Counted])
    /\ UNCHANGED <<clock, hostVars, state, metrics, observationVars, smooth>>

\* The two files, in the order they are replaced.
Files_MetricsFirst == <<"metrics", "state">>

Files == <<"state", "metrics">>

Publish(next) ==
    /\ metrics' = [counters |-> next.counters, latest |-> next.latest]
    /\ smooth' = IF next.latest = metrics.latest THEN smooth ELSE next.latest = clock

\* The new file has its name, and keeps it whatever happens: the helper syncs the
\* file and not its directory, so that this is an assumption about the file system.
Replaces(file) ==
    \/ /\ file = "state"
       /\ state' = helper.next
       /\ UNCHANGED <<metrics, smooth>>
    \/ /\ file = "metrics"
       /\ Publish(helper.next)
       /\ UNCHANGED state

ReplacesFirst ==
    /\ HelperGoes("first", [helper EXCEPT !.at = "second"])
    /\ Replaces(Files[1])
    /\ UNCHANGED <<clock, hostVars, observationVars>>

ReplacesSecond ==
    /\ HelperGoes("second", Resting)
    /\ Replaces(Files[2])
    /\ UNCHANGED <<clock, hostVars, observationVars>>

\* journalctl takes more than its twenty seconds, the disk is full, the unit is stopped.
HelperStops ==
    /\ helper.at # "rest"
    /\ helper' = Resting
    /\ UNCHANGED <<clock, hostVars, state, metrics, observationVars, smooth>>

-----------------------------------------------------------------------------
(***************************************************************************)
(* Observation.                                                            *)
(***************************************************************************)
Scrapes ==
    /\ scraped' = metrics.latest
    /\ sinceScrape' = 0
    /\ UNCHANGED <<clock, hostVars, fileVars, sinceRound, rule, heard, smooth>>

\* The collector does not answer, and its series are stale.
ScrapeFails ==
    /\ scraped' = None
    /\ smooth' = FALSE
    /\ UNCHANGED <<clock, hostVars, fileVars, sinceScrape, sinceRound, rule, heard>>

EventIncreased_OneScrape ==
    scraped # None /\ 0 <= clock - scraped /\ clock - scraped <= ScrapeEvery

\* The query of _event_increased; no series is no event.
EventIncreased == scraped # None /\ 0 <= clock - scraped /\ clock - scraped <= Fresh

ClearingSince == IF rule.clearingSince = None THEN clock ELSE rule.clearingSince

ClearingAfterEvent_Kept == rule.clearingSince

\* A rule that fires again begins its hold anew.
ClearingAfterEvent == None

\* _advance_rule, for a rule that fires at once and clears after Hold.
Advanced ==
    IF EventIncreased
    THEN [active |-> TRUE, clearingSince |-> ClearingAfterEvent]
    ELSE IF rule.active /\ clock - ClearingSince < Hold
    THEN [active |-> TRUE, clearingSince |-> ClearingSince]
    ELSE [active |-> FALSE, clearingSince |-> None]

Round ==
    /\ rule' = Advanced
    /\ heard' = IF EventIncreased THEN scraped ELSE heard
    /\ sinceRound' = 0
    /\ UNCHANGED <<clock, hostVars, fileVars, scraped, sinceScrape, smooth>>

\* PrometheusUnavailable: the observation that stands in covers no critical errors,
\* and the rule is dropped with its timer.
RoundUnanswered ==
    /\ rule' = [active |-> FALSE, clearingSince |-> None]
    /\ heard' = None
    /\ sinceRound' = 0
    /\ smooth' = FALSE
    /\ UNCHANGED <<clock, hostVars, fileVars, scraped, sinceScrape>>

Tick ==
    /\ clock < MaxTime
    /\ clock' = clock + 1
    /\ sinceScrape' = Min({sinceScrape + 1, ScrapeEvery})
    /\ sinceRound' = Min({sinceRound + 1, RoundWithin})
    /\ smooth' = (smooth /\ sinceScrape < ScrapeEvery /\ sinceRound < RoundWithin)
    /\ UNCHANGED <<hostVars, fileVars, scraped, rule, heard>>

-----------------------------------------------------------------------------
Next ==
    \/ \E e \in IoErrors : StorageError(e)
    \/ \E line, text, status \in BOOLEAN, pstore \in SUBSET Boots :
           Reboot(line, text, status, pstore)
    \/ \E current, previous \in BOOLEAN : Collects(current, previous)
    \/ Counts
    \/ ReplacesFirst
    \/ ReplacesSecond
    \/ HelperStops
    \/ Scrapes
    \/ ScrapeFails
    \/ Round
    \/ RoundUnanswered
    \/ Tick

Spec == Init /\ [][Next]_vars

-----------------------------------------------------------------------------
(***************************************************************************)
(* Safety.                                                                 *)
(***************************************************************************)
\* However often the programs are stopped between their steps and the host reboots,
\* no piece of evidence is counted twice: the published counters never exceed what
\* events have left to be found.
CountedOnce ==
    \A k \in Kinds : metrics.counters[k] <= Cardinality({i \in left : i.kind = k})

\* A counter that Prometheus may have seen never goes back, although state and
\* metrics are replaced one after the other: what is published is in the state first.
CountersNeverGoBack ==
    [][\A k \in Kinds : metrics'.counters[k] >= metrics.counters[k]]_vars

\* An event that was published as it was stamped is heard by the rule before it is
\* too old to be one, if no scrape failed or came later than ScrapeEvery, and no round
\* went unanswered or came later than what that leaves of Fresh.
EventIsHeard ==
    smooth /\ metrics.latest # None /\ clock > metrics.latest + Fresh
        => heard = metrics.latest

\* The rule stays active through the hold of the last event it has heard, whatever
\* comes and goes meanwhile, unless an unanswered round makes it forget.
EventHolds == heard # None /\ clock < heard + Hold => rule.active
=============================================================================
