# Lab Server Health Dashboard: TLA+ models and proofs

The dashboard is one Python process: a `ThreadingHTTPServer` with a thread per
request, one observation-engine thread, and one SQLite database that all of them
write. Collectors on the lab servers present certificates to it, Prometheus
scrapes them and the dashboard's own metrics, and Alertmanager sends what it hears. The models here
are translated from `src/src/lab_dashboard`, and from the two programs of
`src/deploy/collector` that observe Critical Errors on a lab server, and checked with
TLC; the theorems about them are checked with TLAPS. Terms are those of `src/CONTEXT.md`.

## Inventory

| Component | State | Operations | What makes it hard | What makes it correct |
|---|---|---|---|---|
| Server Enrollment and collector trust (`database.py`, `app.py`) | `servers`, `bootstrap_tokens`, `collector_certificates` and history, revoked fingerprints, staging and active targets, pending enrollments and address changes | register, issue token, first contact, telemetry check, approve, reject, renew, rotate, revoke, expire, move, recover from a compromised intermediate, retire | handlers read, call openssl or the collector, then write; sweeps run over what they read before; eleven tables must agree | only a trusted key speaks for a server; a token works once; retirement is final |
| Server Health and Server Incidents (`health.py`) | rule timers, recorded health, incidents, transitions, acknowledgments | evaluate | engine and every page evaluate the same server; time is taken before the lock; thresholds met in one rule are passed in another | rules, health and incident agree; history is only added to; one incident per period; an override makes no rule weaker |
| Critical Alerts and Maintenance Windows (`health.py`, `alerting.py`) | maintenance windows, delivery tests | create window, expose metrics | overlapping windows, a sixty-second recovery signal | what was alerted is recovered, what is under maintenance is not sent |
| Server Profiles and Inventory (`database.py`, `profile.py`) | revisions, staged configurations, verified and pending inventory | draft, publish, retire, stage, activate, report and accept inventory | publication, assignment and rollback overwrite each other's staging | the active configuration is one that was published and verified |
| Observation engine (`observation.py`) | its thread, wake and stop events, observation runs | reconcile, observe, sweep, evaluate, wait, stop | the table changes under it; events are cleared after the wait; an error ends the thread | every enrolled server is evaluated again and again; a shutdown is heard |
| Prometheus client and scrape configuration (`prometheus.py`) | the written and the loaded configuration | query, write, reload | two writers and no lock; a write without a reload; unanswered queries | targets follow the active table |
| Critical-error helper (`deploy/collector`) | state file, metrics file | collect evidence, count events, publish | stops and reboots between two file replacements; an event lasts sixty seconds | nothing is counted twice or taken back; an event published is heard and held |
| Certificate issue and installation (`pki.py`, `installer.py`, `install.sh`) | key and certificate files, their locks | make an identity, sign, install | openssl commands that fail half-way; two requests that make one identity | an identity in use is never made again |
| Backup and restore (`operations.py`) | archives | back up, restore | copies taken at different moments; a kill leaves part of an archive | what is restored is what the collectors trust |
| Authentication, pages, configuration, qualification | none | | | |

How they interact: handlers and the engine share the database and nothing else.
Enrollment decides which servers the engine and the pages evaluate
(`active` and `re-enrollment-required`), Server Inventory feeds one health rule,
Server Health opens and closes incidents, and Critical Alerts read incidents and
windows when Prometheus scrapes the dashboard. Prometheus and the dashboard share
`prometheus.yml`, the trust files of each server, and a request to reload. A backup
runs in a process of its own and reads the database and the files. `PROJECT.json` lists
every component with what is modelled of it, and every hazard at its line.

## Modules

| Module | Models |
|---|---|
| `Enrollment` | the trust tables, the transactions on them, the handlers and sweeps around them |
| `ServerLifecycle` | what enrollment promises: stage, speaking key, used keys, refused keys |
| `ScrapeTargets` | what observation relies on of enrollment: who is evaluated, who is scraped from where |
| `EnrollmentProofs` | theorems about `Enrollment`, its refinement of `ServerLifecycle` and of `ScrapeTargets` included |
| `MCEnrollment` | symmetry for TLC |
| `RuleTimers` | how one rule becomes active and inactive |
| `ServerIncidents` | evaluations, health, incidents, over `RuleTimers` |
| `IncidentRecord` | what the Critical Alerts rely on of Server Health: how one incident is recorded |
| `ServerIncidentsProofs` | theorems about `ServerIncidents`, its refinement of `IncidentRecord` included |
| `MCServerIncidents` | rules and holds for TLC |
| `HealthRules` | when a threshold rule fires and clears, what overrides may change, and what holds promise, over `RuleTimers` |
| `HealthRulesProofs` | theorems about `HealthRules` |
| `MCHealthRules` | thresholds and holds for TLC |
| `ServerProfiles` | revisions of profiles, the staged configuration of each server, activation, inventories |
| `ServerProfilesProofs` | theorems about `ServerProfiles` |
| `MCServerProfiles` | profiles and sensors for TLC |
| `CriticalAlerts` | what `/metrics` says of an incident, Maintenance Windows, scrapes, over any `IncidentRecord` |
| `CriticalAlertsProofs` | theorems about `CriticalAlerts` |
| `MCCriticalAlerts` | times for TLC |
| `ObservationEngine` | the engine's loop, approvals beside it, and the scrape configuration, over any `ScrapeTargets` |
| `ObservationEngineProofs` | theorems about `ObservationEngine` |
| `MCObservationEngine` | nothing but the instance for TLC |
| `CriticalErrors` | a Critical Error from the evidence on the host to the rule that hears of it |
| `CriticalErrorsProofs` | theorems about `CriticalErrors` |
| `MCCriticalErrors` | the instance for TLC |
| `TrustFiles` | the collector CA and the identities Prometheus scrapes with, made file by file |
| `Backup` | backup and restore beside `TrustFiles` |
| `BackupProofs` | theorems about `TrustFiles`, and about `Backup` from them |
| `MCBackup` | the instance for TLC |

### Transactions and requests

A transaction opened with `BEGIN IMMEDIATE` holds SQLite's write lock from before
its first read to its commit: it is one action. Python's `sqlite3` in its default
mode opens a transaction at the first INSERT, UPDATE or DELETE, not at a SELECT, so
`with connection:` around a SELECT and later writes is not atomic. The sweep of
expired certificates and the issue of a token are written that way, and are two
actions each.

A request that reads in one transaction and writes in another is two actions, with
what it read in `handler[w]` (Enrollment) or `evaluation[e]` (ServerIncidents).
Between the two any other action may happen. `RequestFails` and `EvaluationLost`
are the error paths (openssl refuses, a collector does not answer, the lock is not
granted in time), `Restart` of `Enrollment` the loss of every request in
flight; the database survives all of them. INSERTs without ON CONFLICT raise `IntegrityError` when the
row exists and roll the transaction back: their primary keys are guards
(`FirstContactRowsFree`, `HistoryRowFree`).

### Enrollment: state and actions

Each variable is a table or a column, named beside its declaration. `certificateAge`
stands for `expires_at` against the clock: fresh, due (within ten days of expiry),
expired. `pendingCode[s]` is the verification code, by the key it was derived from:
codes are never compared across keys. `issuedTo` and `openHistory` are the two
things the history table records of a key. Audit rows are left out; the inventory check
of an approval only adds reasons to refuse.

A first contact takes the time before it waits for the write lock, and its token is judged by
that time: `handler[w].timely` is what it took, and a token that expires makes some of the
requests that present it late and leaves others, which have taken their time, in time.

Three details of the code carry weight. A rejection leaves the history row of the
rejected key open (`_reject_pending_enrollment` does not touch it). Expiry deletes by
server, not by key. Revocation keeps the staged target and the address change, while
retirement drops both.

### ServerIncidents: state and actions

A rule is a name. An observation says which rules it covers, which fire and which
clear; `_rule_conditions` computes that from thresholds, which are data. The
model lets any covered rule fire, clear or do neither, so every observation the code can
make is among them. `PrimaryTelemetry` makes a server Unavailable;
`InventoryChange` is covered by pages only; `SteadyRules` are covered by every
observation; `EvidenceRules` only when Prometheus answers. `Record(s, i)` reads the rows of one incident as
an `IncidentRecord`. `since` is the one timer that
matters: `firingSince` of an inactive rule or `clearingSince` of an active one. The
profile, and with it the set of rules, is fixed during a behaviour.

### ServerProfiles: state and actions

`lifecycle` and `requires` are the table of profile revisions, which triggers of the
schema keep immutable. `staged[s]` is the one row a server has in
`staged_profile_configurations`: publications, assignments and rollbacks all write it,
and only the first of them gives way to what is there. Of a definition the model keeps
the temperature sensors it requires: they decide whether an inventory satisfies a
profile, whether two inventories agree, and what a bundle binds. A hash is the
configuration it is the hash of. The collector is the one actor that takes two steps, the
fetch and the report; `collector[s]` is what it has fetched, and stays after the report,
so a report may be repeated or come late. A report is let in by the proxy's header, whatever the
enrollment state (`_verified_collector` looks at nothing else). Approval, rejection,
first contact, loss of trust and retirement appear with what they do to profiles and
inventories; the rest of them is in `Enrollment`.

Two details matter. A configuration made at approval binds every sensor of the
inventory, one that is staged binds those the profile requires. Staged rows and pending
inventory changes outlive retirement and re-enrollment.

### CriticalAlerts: state and actions

A request for `/metrics` takes the time, reads the incident, reads its transitions and
reads the windows, each in a statement of its own: four steps, `scrape` keeping what was
read. Prometheus asks again every five seconds (the job written by
`write_scrape_config`), and a recovery is exposed for sixty. A tick of the clock
stands for a stretch in which a scrape begins and none takes longer than one, which is all that
`Tick` assumes of Prometheus. An evaluation records the time it began at, up to `CommitLag` before it
commits. Windows may be declared for any time, past ones too. The coverage loop of
`_incident_maintenance` is a fold over the windows in the order of the query: by their start
(health.py:722), in any order where they start together. The incident is an `IncidentRecord`,
dated no more than `CommitLag` before the clock.

### ObservationEngine: state and actions

A round of `_run` is a step for each statement that reads or changes what others share:
read the active targets, replace `prometheus.yml`, ask for a reload, list the targets and
observe one after the other, sweep, list the servers and evaluate one after the other, wait, clear
the wake event. `engine.read` and `engine.todo` are what it has read; `written` is the
file and `loaded` what Prometheus scrapes. An approval (`_decide_enrollment`) reconciles
in the same steps, beside the engine and without a lock, and wakes it after that. All other changes of the
table are those of `ScrapeTargets`, which `Enrollment` implements: nobody tells
the engine of them. Any exception but `PrometheusUnavailable` ends the thread (`Dies`), in
any statement that has a file or the database to fail on. `StopSignals` is `stop()`, one
event at a time. The process may end at any statement (`ProcessEnds`) and a new one starts from what
is on disk and in Prometheus (`ProcessStarts`); between the two the engine is at `down`, and
with no process nothing changes the table.

### CriticalErrors: state and actions

Both programs run one after the other in one systemd unit, every thirty seconds.
`Collects` is the first: which pieces of evidence it shows depends on which journals it can
read and on what a reboot has left. A piece of evidence is told from another by what the
identities in the state file are made of. `Counts` computes state and metrics,
`ReplacesFirst` and `ReplacesSecond` replace the two files; `HelperStops` and `Reboot` may
come between any of them. A replaced file is taken to survive a reboot as it is: the helper syncs
each file before it renames it, but not the directory, so that this is assumed of the file
system. A tick is thirty seconds. `smooth` is history: whether, since
the last stamp, it was published as it was made and no scrape or round was failed or late.

### TrustFiles and Backup: state and actions

A file is known by the making of the identity that wrote it (`run`), and by whether it
was finished. Making is one step per openssl command; a command that fails leaves any part of
its files, in the order openssl writes them: a key before what it signs with it. That order
is an assumption about openssl, and needed: were `ca.crt` written before `ca.key`, a failure between them would
leave what a later making could complete. `rows` are the servers with a scrape
target, staged or active. `Backup` adds the copy: the database and `prometheus.yml` in a step
each, then `pki` as `copytree` walks it: the directory is listed once, its files (those of the
collector CA) are copied one by one, and somewhere among them the directories of the servers are
listed and copied, one after another, each listed when it is entered. An
archive is begun in the destination and then whole; an archive that is not whole does not
decrypt. A restore yields what the archive has.

### HealthRules: state and actions

One rule is followed twice, with the overrides of the active revision (`strict`) and without
any (`plain`), through the same observations at the same times. `Valid` is what
`_override_error` accepts; an observation has any numbers at all. A revision with other
overrides may become active while the rule waits on a timer. The rules of GPUs, services
and events have no thresholds. `foundFiring`, `foundClearing` and `forgotten` are history, kept by nothing in the
program: the times of the evaluations, one after another down to the last, that found the rule to fire or
to clear, and whether the last step was an evaluation that did not cover the rule, which drops its state.

## Runs

| Run | Instance | Shows |
|---|---|---|
| `enrollment` | 2 servers, 3 keys, 2 tokens, 1 address, 2 threads, symmetry; 825,902 states | `CertificateTrusted`, `RetiredHoldsNothing`, `ActiveIsObservable`, `ReviewMatchesState`, `FirstContactSpendsToken`, `ImplementsLifecycle`, `ImplementsScrapeTargets` |
| `server_incidents` | 1 server, 2 evaluators, 2 rules, 3 instants, 2 incidents of 2 transitions; 1,179,392 states | `IncidentFollowsHealth`, `TransitionsAreChanges`, `OneIncidentPerPeriod`, `ImplementsIncidentRecord` |
| `server_profiles` | 1 server, 2 profiles of 2 revisions, 1 sensor, 1 device, 2 activations; 1,722,194 states | `NoDraftInForce`, `ActiveRecordsAgree`, `StagingFitsServer`, `ExplicitStagingWaits`, `AppliedIsActive`, `ActivatedOnVerifiedHardware` |
| `critical_alerts` | 1 incident of 2 transitions before it closes, 2 windows, 6 ticks, a recovery exposed for 2; 7,061,578 states | `ContainmentIsCoverage`, `IncidentIsHeard`, `RecoveryIsHeard`, `CauseChangesStaySilent` |
| `observation_engine` | 2 servers, 1 address, 1 approval at a time; 444,960 states | `StopIsHeard`, and under fairness `ConfigurationFollows` and `EvaluatedAgainAndAgain` |
| `critical_errors` | 1 storage error, 2 boots, 7 ticks of 30 s, a hold of 3; 2,323,783 states | `CountedOnce`, `CountersNeverGoBack`, `EventIsHeard`, `EventHolds` |
| `backup` | 1 server, 2 threads, 3 makings of an identity; 1,091,492 states | `IdentityIsOnePiece`, `TrustStands`, `RestoredIsTrusted` |
| `health_rules` | 5 readings, 3 instants, every rule and every accepted override; 10,577 states from 3.5 million steps | `OverridesOnlyTighten`, `HoldsAreKept` |
| `re_enrollment_possible` | 1 server, 2 threads | leftovers of an earlier enrollment block the next first contact |
| `only_expired_expire` | as above | a sweep deletes a certificate renewed after its SELECT |
| `only_enrolled_alerted` | 1 server, 3 rules | incidents of retired and unverified servers stay open |
| `clears_only_after_hold` | as above | an unanswered query forgets an event and its hold |

Every passing run but `health_rules` checks its module's type invariant too. The last four are expected to fail: each states what a document or the code's own record says, and its
finding in `PROJECT.json` quotes it.

Bounds. Two servers are enough for a key, token or sweep to be about the
wrong one; three keys let a server lose one, hold one and be brought a third; two tokens
let an old and a new one coexist; two threads interleave any two requests. The keys and
tokens are a real bound: once they are spent no further enrollment begins.
In `server_incidents`, three instants let a timer start, wait and elapse and let a late
evaluation carry an older time, and two incidents let a period follow another.
`MaxTransitions` bounds escalations; closing is never bounded, so an incident can
always end. The clock stops at `LastInstant` and a retired server is never evaluated
again, so those runs do not check deadlock. The other runs do, but since a restart, an
inventory report or another scrape is always possible, freedom from deadlock says
nothing by itself there.

In `observation_engine` the second server is the one that must not be starved or forgotten
while the first is in the way, and one address suffices, since a target that goes and comes back is
as stale as one that moves. An event of `critical_errors` may fall before or after a
reboot, and seven ticks hold an event, its sixty seconds and its hold; its clock stops, so it does not check
deadlock. In `backup` a server's identity and the collector CA are two identities already, and
three makings let one fail and be made again; backups are made until one is whole. Five readings
let a threshold lie below, at and above each of the baseline's with room between fire and clear; three instants let
a hold of one or of two elapse, and an evaluation carry a time before the timer it finds.

In `server_profiles` one server is enough, since a publication treats the servers of a
profile one by one; two revisions of each profile let one be staged while the other is
active, and a second profile lets assignments cross. One device is a sensor that
is there or not. Two
activations let a server move once after its enrollment, or enroll twice. In
`critical_alerts` two windows may nest, touch, overlap or leave a gap, and six ticks hold an
incident, a recovery's two ticks and a late commit. The incident's severity before it closes
takes the three values of an escalation, an improvement and a mere change of causes.

Symmetry is used with safety properties only; all constants are interchangeable sets.

Fairness. Only `ObservationEngine` states any: `WF_vars(EngineStep)`, since the thread is
scheduled and every call it makes, queries, scrapes, statements and the wait itself, has a
timeout; and `SF_vars(Reloads)`, an assumption about the environment, that Prometheus, asked
in every round, does not refuse for ever. The premise of the liveness properties
(`Undisturbed`) is that from some point on the thread of one and the same process lives
(`EngineLives`), which the code does not guarantee. It is a premise on where the engine is, met
by every loop that goes on, whatever is approved, retired or refused meanwhile. Nothing in
enrollment, profiles or backups must happen, since every step waits for an administrator, a
collector or a timer, and that alerts and events are heard is stated with the clock.

## Proofs

All theorems hold for any values of the constants that meet the named assumptions:
`None` is outside the sets it stands beside, the two special rules are distinct from the
others and from each other, holds and bounds are natural numbers.

* `TypeCorrect` (`Enrollment`, `ServerIncidents`): types are inductive as they stand.
* `TrustSafe`: `CertificateTrusted` is not inductive. A first contact checks that its
  key has no history row and is not revoked, but renewal and rotation check the
  history only; that suffices since every revoked key has a history row
  (`RevokedWereIssued`). A sweep closes history rows of the keys it read and deletes
  certificates of the servers it read; the two match since each of these keys
  belongs to one of these servers (`SweepsReadIssued`). Their conjunction,
  `TrustInvariant`, is inductive.
* `TablesConsistent`: `RetiredHoldsNothing`, `ActiveIsObservable`,
  `ReviewMatchesState` and `UnregisteredHoldsNothing` are inductive together: that a
  retired server gets nothing back is the primary key and state checks of each
  transaction, and those read the rows the other parts speak of. `ActiveObservable` and
  `ReviewMatches` state the two that a run checks by themselves.
* `EnrollmentImplementsLifecycle`: every step maps to a step of `ServerLifecycle` or a
  stutter. It rests on `TrustInvariant`: without it a key adopted might have been
  refused before.
* `EnrollmentImplementsScrapeTargets`: every step changes a server's state and target as
  `ScrapeTargets` lets it; it rests on `TableInvariant`. `ObservationEngine` is checked over
  `ScrapeTargets`, and so over anything that implements it.
* `FirstContactSpends`: the action property, from types alone.
* `FollowsHealthAlways`, `ChangesAlways`, `HistoryKeptAlways`, `OneIncidentAlways`: from
  the type invariant and from each other; the first is inductive with types, since a
  transition is recorded in the transaction that records the rules it follows from.
* `IncidentsAreRecords` (`ServerIncidents`): to each incident, every evaluation is a step of its
  `IncidentRecord` or a stutter. It needs that evaluations under way took their time from a clock that
  has not gone back since (`ObservedByNow`), and that an incident only grows (`ToldLonger`).
  `CriticalAlerts` is built over `IncidentRecord`, and so over anything that implements it; that
  an evaluation commits within `CommitLag` of its time is an assumption of its own.
* `ServerProfiles`: types need one fact more, that exactly registered servers are
  assigned a profile and only they have something staged (`RegisteredIsAssigned`),
  since a configuration is made from what is assigned. With it `DraftsStayOut` is inductive:
  no step takes a revision out of force (`InForceKept`), and every revision taken on is in
  force at that moment. `StagingFits` and `RecordsAgree` rest on two lemmas that say
  which operations write the rows of a server (`ActiveRowsWriters`, `StagedRowWriters`):
  only activation moves a server that has something staged, and it empties the slot.
  `AppliedActive`, `OnVerifiedHardware` and `ExplicitWaits` are action properties from the
  same lemmas.

* `IdentitiesStand` and `IdentitiesAreOnePiece` (`TrustFiles`): the code looks at which files
  exist, the properties speak of who made them. The invariant between the two is that the last
  file of an identity, the one written last, exists only if the whole identity is of
  one making; that a thread that makes an identity holds its lock, and the last file is absent
  meanwhile; and that rows, and threads past an identity, have complete ones.
* `ConditionsAreDisjoint` and `OverridesTighten` (`HealthRules`): the first from the bands alone,
  each being open, the baseline's too. The second needs the order of both timers (`Tighter`): when both
  are active, `strict` began to clear no earlier than `plain`, when neither is, to fire no
  later. `TimerStart` keeps it even when an evaluation is late.
* `HoldsAlwaysKept` (`HealthRules`): a rule turns only when evaluations in an unbroken
  stretch span its hold, and when they do, the evaluation that completes the span turns it. The
  invariant (`HeldInv`): the timer of a rule is the least time of its stretch, for an
  evaluation that comes late with an earlier time restarts the timer at that time, and one with a later time
  leaves it. `ConditionsAreDisjoint` is needed for a rule that turns to begin with an empty
  stretch of the other kind; bands that may overlap break the property, as its second mutant shows.

* `RestoredTrust` (`Backup`): the invariant (`BInv`) relates the copy to the files. Whatever the copy
  refers to had complete identities when it was copied, and by `IdentitiesStand`'s lemma a
  complete identity is never written to again; an owner still to come has nothing in the
  copy, and one that has been, or is being, copied has in it what it has, but for the files
  listed and not copied yet. An owner that something refers to has files, so the directories it
is found in are there when they are listed (`NeededHaveFiles`). The order of `BACKUP_PATHS` is used where the references are copied:
  all owners are still to come then. `BackupLeavesTrust` carries over what is proved of
  `TrustFiles`: a step of the backup is a stutter there.
* `StopHeard` (`ObservationEngine`): `stopping` is set first, so once both events are set an engine
  of that process that is not at the head of its loop, or past it, still has the wake event;
  clearing it leads to the head, and the head to the end.
* `CountedOnceAlways` and `CountersNeverGoBackAlways` (`CriticalErrors`): a counter is the number of
  pieces of evidence seen of its kind, a set, and all of it has been left by events; what
  is published is never more than the state counts, since the state is replaced first.
* `EventHeard` and `EventHoldsAlways` (`CriticalErrors`): while all is smooth a stamp that Prometheus has
  not got is no older than its last scrape, and one the rule has not heard is older than the
  last round by `ScrapeEvery` at most (`OnItsWay`); a rule that clears began to no earlier than
  it heard of its last event (`Holding`). `ScrapeEvery <= Fresh` is the assumption it takes.

* `IncidentHeard` (`CriticalAlerts`): call an incident audible at a time when its opening has
  committed, no window is active, and it will not close before a scrape of that time is over.
  The invariant (`HInv`): once a scrape has reached such a time, the incident has been heard
  or that scrape is under way and has read the incident, if it has, as an open one. A scrape
  of a time begins before the clock passes it, and ends before the clock passes the next; so
  the row it reads is an open one, and two ticks later it has been answered.

* `ContainmentIsCovered` (`CriticalAlerts`): the coverage loop computes coverage, for any number of
  windows and any order among those that start together. The loop's invariant (`Covers`) says that
  every instant from the opening to the time reached is under a window seen so far, and that every
  window seen ends by that time or starts after it; it is carried along the fold window by window. Neither the library's induction theorems nor the
  existence of what a fold iterates can be cited with the provers at hand, so `Induction`
  is proved from the pigeonhole principle of `FiniteSetTheorems`, and `FoldExists` from
  it. `NotificationIsTold` and `WhollyContainedIsCoverage` state what the two folds of the module yield.
* `RecoveryHeard` (`CriticalAlerts`): the invariant (`RInv`) is that of `IncidentHeard` for the
  recovery; it rests on `ContainmentIsCovered` and on more windows covering no less, so that an incident once
  wholly contained stays so. `CauseChangesSilent` follows from the fold over transitions alone, and
  `TypeCorrect` (`RowsOK`) from what each statement of a scrape reads.

What is only model-checked: the four refuted statements and liveness (`ConfigurationFollows`,
`EvaluatedAgainAndAgain`). Liveness needs ENABLED, which is out of the prover's reach. Every other
property of a passing run is a theorem. Some theorems state what no run checks by
itself: the types of `HealthRules`; `ConditionsAreDisjoint`, without which `HoldsAreKept` fails; and
`HistoryKeptAlways`, which for a closed incident and for what has been told says more than
`ImplementsIncidentRecord`, the causes of each transition included.

## Not modelled

HTTP parsing, pages and authentication hold no state. What a collector certificate says is
data, and the installer a script run once. The Prometheus queries other than that for an event are external data.
Credentials during a rotation's overlap have no row of their own. Acknowledgments of critical
errors, delivery tests and observation runs are rows that only pages and labels show.
Qualification is a batch report and the audit log is never read to decide. See
`PROJECT.json` for each component.

Some of what the models show is stated by no run, and noted with its hazard instead:
a target survives expiry and is scraped through the next enrollment; a server whose certificate
expires while it is Pending Verification can only be retired or recovered; the inventory rule
comes with every page and goes with every round; an error other than `PrometheusUnavailable` ends
observation for good; an incident may close at a time before it opened; a
scrape around an escalation may be told of it with the old severity; a pending inventory
change may be replaced before it is accepted, which does not ask for what the profile requires;
a revision retired since it was staged may be activated; the two traces of one panic may be counted as
two; an event may miss its sixty seconds when a round takes time; a client certificate
openssl was killed over counts as one; part of an archive, which age is assumed to refuse, counts as a fresh backup in
`operational_status`.

## Plan

1. `ServerIncidents`: acknowledgments of critical errors, and the profile that an
   evaluation is dated to (`profile_revision_at`), composed with `ServerProfiles`.
2. `Enrollment`: which key a telemetry check scraped, and what it verified, so that a check
   that outlives its enrollment's key can be spoken of.
