------------------------- MODULE CriticalErrorsProofs -------------------------
(***************************************************************************)
(* For any evidence, times and bounds, and wherever the host reboots and   *)
(* its programs are stopped: events are counted once, published counters   *)
(* never go back, and an event that is published and observed in time is   *)
(* heard, and holds.                                                       *)
(***************************************************************************)
EXTENDS CriticalErrors, FiniteSetTheorems, WellFoundedInduction, TLAPS

-----------------------------------------------------------------------------
(***************************************************************************)
(* Types.                                                                  *)
(***************************************************************************)
\* The least of a set of naturals.
LEMMA MinOf ==
    ASSUME NEW S \in SUBSET Nat, S # {}
    PROVE  Min(S) \in S /\ \A x \in S : Min(S) <= x
  <1>1. PICK x \in S : \A y \in S : ~ (<<y, x>> \in OpToRel(<, Nat))
    BY WFMin, NatLessThanWellFounded
  <1>2. \A y \in S : ~ (y < x)
    BY <1>1 DEF OpToRel
  <1>3. \A y \in S : x <= y
    BY <1>2
  <1>4. QED
    BY <1>1, <1>3 DEF Min

\* A delay that has reached its bound stays there.
LEMMA Bounded ==
    ASSUME NEW n \in Nat, NEW i \in 0..n
    PROVE  Min({i + 1, n}) = IF i < n THEN i + 1 ELSE n
  <1>1. Min({i + 1, n}) \in {i + 1, n} /\ \A x \in {i + 1, n} : Min({i + 1, n}) <= x
    BY MinOf
  <1>2. QED
    BY <1>1

LEMMA RoundWithinType == RoundWithin \in Nat
  BY TimingAssumption DEF RoundWithin

LEMMA StartTypes ==
    /\ NoCounts \in Counters /\ NoState \in State /\ Resting \in Helper
    /\ 0 \in Times /\ None \in Stamps
    /\ Resting.at = "rest"
  <1>1. NoCounts \in Counters
    BY DEF NoCounts, Counters
  <1>2. 0 \in Times /\ None \in Stamps
    BY TimingAssumption DEF Times, Stamps
  <1>3. NoState \in State
    BY <1>1, <1>2 DEF NoState, State
  <1>4. QED
    BY <1>1, <1>2, <1>3 DEF Resting, Helper

LEMMA FoundType ==
    ASSUME NEW kind \in Kinds, NEW boot \in Boots,
           NEW trace \in IoErrors \cup {"line", "text", "status"}
    PROVE  Found(kind, boot, trace) \in Evidence
  BY DEF Found, Evidence

-----------------------------------------------------------------------------
(***************************************************************************)
(* What has been seen is what events have left, and it is what has been    *)
(* counted: a set, so nothing is in it twice.                              *)
(***************************************************************************)
OfKind(S, k) == {i \in S : i.kind = k}

CountsSeen(s) == \A k \in Kinds : s.counters[k] = Cardinality(OfKind(s.seen, k))

\* What is found about the host is evidence that an event has left.
Visible ==
    /\ \A e \in host.ioErrors : Found("storage-io-error", host.boot, e) \in left
    /\ host.panicLine => Found("previous-panic", host.boot - 1, "line") \in left
    /\ \A b \in host.pstore : Found("previous-panic", b, "text") \in left
    /\ host.watchdog => Found("watchdog-reset", host.boot, "status") \in left

LEMMA ShownLeft ==
    ASSUME TypeOK, Visible, NEW current \in BOOLEAN, NEW previous \in BOOLEAN
    PROVE  Shown(current, previous) \subseteq left
  <1>1. PanicFound(previous) \subseteq left
    <2>1. CASE previous /\ host.panicLine
      BY <2>1 DEF PanicFound, Visible
    <2>2. CASE ~(previous /\ host.panicLine) /\ host.pstore # {}
      <3>1. host.pstore \in SUBSET Nat
        BY TimingAssumption DEF TypeOK, Host, Boots
      <3>2. Min(host.pstore) \in host.pstore
        BY <2>2, <3>1, MinOf
      <3>3. QED
        BY <2>2, <3>2 DEF PanicFound, Visible
    <2>3. CASE ~(previous /\ host.panicLine) /\ host.pstore = {}
      BY <2>3 DEF PanicFound
    <2>4. QED
      BY <2>1, <2>2, <2>3
  <1>2. {Found("storage-io-error", host.boot, e) : e \in host.ioErrors} \subseteq left
    BY DEF Visible
  <1>3. host.watchdog => {Found("watchdog-reset", host.boot, "status")} \subseteq left
    BY DEF Visible
  <1>4. QED
    BY <1>1, <1>2, <1>3 DEF Shown

CInv ==
    /\ IsFiniteSet(left)
    /\ Visible
    /\ helper.shown \subseteq left
    /\ state.seen \subseteq left
    /\ helper.next.seen \subseteq left
    /\ CountsSeen(state)
    /\ CountsSeen(helper.next)
    /\ helper.at = "first" => state.seen \subseteq helper.next.seen
    /\ helper.at = "second" => helper.next = state
    /\ \A k \in Kinds : metrics.counters[k] <= state.counters[k]

\* More evidence is not less of any kind.
LEMMA MoreIsNotLess ==
    ASSUME NEW S, NEW T, IsFiniteSet(T), S \subseteq T, NEW k
    PROVE  /\ IsFiniteSet(S)
           /\ Cardinality(OfKind(S, k)) \in Nat /\ Cardinality(OfKind(T, k)) \in Nat
           /\ Cardinality(OfKind(S, k)) <= Cardinality(OfKind(T, k))
  <1>1. OfKind(S, k) \in SUBSET OfKind(T, k) /\ OfKind(T, k) \in SUBSET T /\ S \in SUBSET T
    BY DEF OfKind
  <1>2. IsFiniteSet(OfKind(T, k)) /\ IsFiniteSet(S)
    BY <1>1, FS_Subset
  <1>3. IsFiniteSet(OfKind(S, k)) /\ Cardinality(OfKind(S, k)) <= Cardinality(OfKind(T, k))
    BY <1>1, <1>2, FS_Subset
  <1>4. QED
    BY <1>2, <1>3, FS_CardinalityType

\* What is counted is what has been seen, before and after.
LEMMA CountedType ==
    ASSUME TypeOK, CInv
    PROVE  Counted \in State /\ CountsSeen(Counted)
  <1>1. helper.shown \in SUBSET Evidence /\ state \in State
    BY DEF TypeOK, Helper
  <1>2. ASSUME NEW k \in Kinds
        PROVE  /\ state.counters[k] + Cardinality(NewOf(k)) \in Nat
               /\ state.counters[k] + Cardinality(NewOf(k)) = Cardinality(OfKind(SeenAfter, k))
    <2>1. NewOf(k) = OfKind(helper.shown \ state.seen, k)
      BY DEF NewOf, OfKind
    <2>2. /\ IsFiniteSet(OfKind(state.seen, k)) /\ IsFiniteSet(NewOf(k))
          /\ Cardinality(OfKind(state.seen, k)) \in Nat /\ Cardinality(NewOf(k)) \in Nat
      <3>1. OfKind(state.seen, k) \in SUBSET left /\ NewOf(k) \in SUBSET left
        BY DEF OfKind, NewOf, CInv
      <3>2. QED
        BY <3>1, FS_Subset, FS_CardinalityType DEF CInv
    <2>3. /\ OfKind(SeenAfter, k) = OfKind(state.seen, k) \cup NewOf(k)
          /\ OfKind(state.seen, k) \cap NewOf(k) = {}
      BY DEF OfKind, NewOf, SeenAfter
    <2>4. Cardinality(OfKind(SeenAfter, k)) =
              Cardinality(OfKind(state.seen, k)) + Cardinality(NewOf(k)) - Cardinality({})
      BY <2>2, <2>3, FS_Union
    <2>5. state.counters[k] = Cardinality(OfKind(state.seen, k))
      BY DEF CInv, CountsSeen
    <2>6. QED
      BY <2>2, <2>4, <2>5, FS_EmptySet
  <1>3. PICK counters \in Counters :
            counters = [k \in Kinds |-> state.counters[k] + Cardinality(NewOf(k))]
    BY <1>2 DEF Counters
  <1>4. PICK latest \in Stamps :
            latest = IF NewOf(Watched) # {} THEN clock ELSE state.latest
    BY <1>1 DEF TypeOK, Stamps, State
  <1>5. SeenAfter \in SUBSET Evidence
    BY <1>1 DEF SeenAfter, State
  <1>6. Counted = [seen |-> SeenAfter, counters |-> counters, latest |-> latest]
    BY <1>3, <1>4 DEF Counted
  <1>7. QED
    BY <1>2, <1>3, <1>5, <1>6 DEF State, CountsSeen

LEMMA RemainsType ==
    ASSUME TypeOK, host.boot < MaxBoots,
           NEW line \in BOOLEAN, NEW text \in BOOLEAN, NEW status \in BOOLEAN
    PROVE  /\ Remains(line, text, status) \in SUBSET Evidence
           /\ IsFiniteSet(Remains(line, text, status))
  <1> DEFINE a == Found("previous-panic", host.boot, "line")
             b == Found("previous-panic", host.boot, "text")
             c == Found("watchdog-reset", host.boot + 1, "status")
  <1>1. host.boot \in Boots /\ host.boot + 1 \in Boots
    BY TimingAssumption DEF TypeOK, Host, Boots
  <1>2. a \in Evidence /\ b \in Evidence /\ c \in Evidence
    BY <1>1, FoundType DEF Kinds
  <1>3. Remains(line, text, status) \in SUBSET {a, b, c}
    BY DEF Remains
  <1>4. IsFiniteSet({a, b, c})
    <2>1. IsFiniteSet({} \cup {a})
      BY FS_EmptySet, FS_AddElement
    <2>2. IsFiniteSet(({} \cup {a}) \cup {b})
      BY <2>1, FS_AddElement
    <2>3. IsFiniteSet((({} \cup {a}) \cup {b}) \cup {c})
      BY <2>2, FS_AddElement
    <2>4. (({} \cup {a}) \cup {b}) \cup {c} = {a, b, c}
      OBVIOUS
    <2>5. QED
      BY <2>3, <2>4
  <1>5. QED
    BY <1>2, <1>3, <1>4, FS_Subset

-----------------------------------------------------------------------------
(***************************************************************************)
(* The host, and the two programs.                                         *)
(***************************************************************************)
\* The steps of a program leave the host, and what is observed of it.
LEMMA HelperTypes ==
    ASSUME TypeOK, helper' \in Helper, state' \in State, metrics' \in Metrics,
           smooth' \in BOOLEAN, UNCHANGED <<clock, hostVars, observationVars>>
    PROVE  TypeOK'
  BY DEF TypeOK, hostVars, observationVars

LEMMA StorageErrorStep ==
    ASSUME TypeOK, CInv, NEW e \in IoErrors, StorageError(e)
    PROVE  TypeOK' /\ CInv'
  <1> DEFINE new == Found("storage-io-error", host.boot, e)
  <1>1. new \in Evidence
    BY FoundType DEF TypeOK, Host, Kinds
  <1>2. left' = left \cup {new} /\ IsFiniteSet(left')
    BY FS_AddElement DEF StorageError, CInv
  <1>3. /\ host'.boot = host.boot /\ host'.ioErrors = host.ioErrors \cup {e}
        /\ host'.panicLine = host.panicLine /\ host'.pstore = host.pstore
        /\ host'.watchdog = host.watchdog /\ host' \in Host
    BY DEF StorageError, TypeOK, Host
  <1>4. TypeOK'
    BY <1>1, <1>2, <1>3 DEF StorageError, TypeOK, fileVars, observationVars
  <1>5. Visible'
    BY <1>2, <1>3 DEF CInv, Visible
  <1>6. CInv'
    BY <1>2, <1>5 DEF StorageError, CInv, CountsSeen, fileVars
  <1>7. QED
    BY <1>4, <1>6

LEMMA RebootStep ==
    ASSUME TypeOK, CInv, NEW line \in BOOLEAN, NEW text \in BOOLEAN, NEW status \in BOOLEAN,
           NEW pstore \in SUBSET Boots, Reboot(line, text, status, pstore)
    PROVE  TypeOK' /\ CInv'
  <1>1. /\ Remains(line, text, status) \in SUBSET Evidence
        /\ IsFiniteSet(Remains(line, text, status))
    BY RemainsType DEF Reboot
  <1>2. /\ left' = left \cup Remains(line, text, status)
        /\ IsFiniteSet(left') /\ left' \in SUBSET Evidence
    BY <1>1, FS_Union DEF Reboot, CInv, TypeOK
  <1>3. host.boot \in Boots /\ host.boot + 1 \in Boots /\ host.boot + 1 > 1
    BY TimingAssumption DEF Reboot, TypeOK, Host, Boots
  <1>4. /\ host'.boot = host.boot + 1 /\ host'.ioErrors = {} /\ host'.panicLine = line
        /\ host'.pstore = (IF text THEN pstore \cup {host.boot} ELSE pstore)
        /\ host'.watchdog = status
    BY DEF Reboot
  <1>5. host' \in Host
    <2>1. (IF text THEN pstore \cup {host.boot} ELSE pstore) \in SUBSET Boots
      BY <1>3
    <2>2. QED
      BY <1>3, <2>1 DEF Reboot, Host
  <1>6. helper' \in Helper /\ helper' = Resting
    BY StartTypes DEF Reboot
  <1>7. TypeOK'
    BY <1>2, <1>3, <1>4, <1>5, <1>6 DEF Reboot, TypeOK, observationVars
  <1>8. Visible'
    <2>1. (host.boot + 1) - 1 = host.boot
      BY <1>3 DEF Boots
    <2>2. host'.panicLine => Found("previous-panic", host'.boot - 1, "line") \in left'
      BY <1>2, <1>4, <2>1 DEF Remains
    <2>3. \A b \in host'.pstore : Found("previous-panic", b, "text") \in left'
      BY <1>2, <1>4 DEF Remains, Reboot, CInv, Visible
    <2>4. host'.watchdog => Found("watchdog-reset", host'.boot, "status") \in left'
      BY <1>2, <1>4 DEF Remains
    <2>5. QED
      BY <1>4, <2>2, <2>3, <2>4 DEF Visible
  <1>9. CountsSeen(Resting.next)
    BY FS_EmptySet DEF Resting, NoState, NoCounts, CountsSeen, OfKind
  <1>10. /\ helper'.shown = {} /\ helper'.next.seen = {} /\ helper'.at = "rest"
         /\ helper'.next = Resting.next
    BY <1>6 DEF Resting, NoState
  <1>11. CInv'
    BY <1>2, <1>8, <1>9, <1>10 DEF Reboot, CInv, CountsSeen
  <1>12. QED
    BY <1>7, <1>11

\* A program that goes where it holds nothing, or what is counted.
LEMMA HelperCounts ==
    ASSUME CInv, UNCHANGED <<hostVars, state>>, metrics' = metrics,
           helper'.shown \subseteq left, helper'.next.seen \subseteq left,
           CountsSeen(helper'.next),
           helper'.at = "first" => state.seen \subseteq helper'.next.seen,
           helper'.at # "second"
    PROVE  CInv'
  BY DEF CInv, Visible, CountsSeen, hostVars

LEMMA NothingCounted ==
    CountsSeen(NoState) /\ NoState.seen = {}
  BY FS_EmptySet DEF NoState, NoCounts, CountsSeen, OfKind

LEMMA CollectsStep ==
    ASSUME TypeOK, CInv, NEW current \in BOOLEAN, NEW previous \in BOOLEAN,
           Collects(current, previous)
    PROVE  TypeOK' /\ CInv'
  <1>1. PICK shown : shown = Shown(current, previous)
    OBVIOUS
  <1>2. shown \subseteq left /\ shown \in SUBSET Evidence
    BY <1>1, ShownLeft DEF CInv, TypeOK
  <1>3. helper' = [at |-> "count", shown |-> shown, next |-> NoState]
    BY <1>1 DEF Collects, HelperGoes, Resting
  <1>4. helper' \in Helper
    BY <1>2, <1>3, StartTypes DEF Helper
  <1>5. TypeOK'
    BY <1>4, HelperTypes DEF Collects, TypeOK
  <1>6. CInv'
    BY <1>2, <1>3, NothingCounted, HelperCounts DEF Collects
  <1>7. QED
    BY <1>5, <1>6

LEMMA CountsStep ==
    ASSUME TypeOK, CInv, Counts
    PROVE  TypeOK' /\ CInv'
  <1>1. PICK next \in State : next = Counted
    BY CountedType
  <1>2. helper' = [at |-> "first", shown |-> {}, next |-> next]
    BY <1>1 DEF Counts, HelperGoes, Resting
  <1>3. helper' \in Helper
    BY <1>2 DEF Helper
  <1>4. TypeOK'
    BY <1>3, HelperTypes DEF Counts, TypeOK
  <1>5. next.seen = state.seen \cup helper.shown /\ CountsSeen(next)
    BY <1>1, CountedType DEF Counted, SeenAfter, CountsSeen
  <1>6. next.seen \subseteq left /\ state.seen \subseteq next.seen
    BY <1>5 DEF CInv
  <1>7. CInv'
    BY <1>2, <1>5, <1>6, HelperCounts DEF Counts
  <1>8. QED
    BY <1>4, <1>7

LEMMA HelperStopsStep ==
    ASSUME TypeOK, CInv, HelperStops
    PROVE  TypeOK' /\ CInv'
  <1>1. TypeOK'
    BY StartTypes, HelperTypes DEF HelperStops, TypeOK
  <1>2. helper'.shown = {} /\ helper'.next = NoState /\ helper'.at = "rest"
    BY DEF HelperStops, Resting
  <1>3. CInv'
    BY <1>2, NothingCounted, HelperCounts DEF HelperStops
  <1>4. QED
    BY <1>1, <1>3

\* The state is replaced first, and counts all it did.
LEMMA FirstStep ==
    ASSUME TypeOK, CInv, ReplacesFirst
    PROVE  TypeOK' /\ CInv'
  <1>1. /\ helper.at = "first" /\ helper \in Helper /\ state' = helper.next
        /\ UNCHANGED <<metrics, smooth, hostVars, clock, observationVars>>
        /\ helper' = [helper EXCEPT !.at = "second"]
    BY DEF ReplacesFirst, HelperGoes, Replaces, Files, TypeOK
  <1>2. helper' = [at |-> "second", shown |-> helper.shown, next |-> helper.next]
    BY <1>1 DEF Helper
  <1>3. helper' \in Helper /\ state' \in State
    BY <1>1, <1>2 DEF Helper
  <1>4. TypeOK'
    BY <1>1, <1>3, HelperTypes DEF TypeOK
  <1>5. \A k \in Kinds : metrics.counters[k] <= state'.counters[k]
    <2>1. SUFFICES ASSUME NEW k \in Kinds
                   PROVE  metrics.counters[k] <= helper.next.counters[k]
      BY <1>1
    <2>2. state.seen \subseteq helper.next.seen /\ IsFiniteSet(helper.next.seen)
      BY <1>1, FS_Subset DEF CInv
    <2>3. /\ Cardinality(OfKind(state.seen, k)) <= Cardinality(OfKind(helper.next.seen, k))
          /\ Cardinality(OfKind(state.seen, k)) \in Nat
          /\ Cardinality(OfKind(helper.next.seen, k)) \in Nat
      BY <2>2, MoreIsNotLess
    <2>4. metrics.counters[k] \in Nat /\ metrics.counters[k] <= state.counters[k]
      BY DEF TypeOK, Metrics, Counters, CInv
    <2>5. QED
      BY <2>3, <2>4 DEF CInv, CountsSeen
  <1>6. CInv'
    BY <1>1, <1>2, <1>5 DEF CInv, Visible, CountsSeen, hostVars
  <1>7. QED
    BY <1>4, <1>6

LEMMA SecondStep ==
    ASSUME TypeOK, CInv, ReplacesSecond
    PROVE  TypeOK' /\ CInv' /\ \A k \in Kinds : metrics'.counters[k] >= metrics.counters[k]
  <1>1. /\ helper.next = state /\ state' = state /\ helper' = Resting
        /\ UNCHANGED <<hostVars, clock, observationVars>>
        /\ metrics' = [counters |-> state.counters, latest |-> state.latest]
        /\ smooth' = IF state.latest = metrics.latest THEN smooth ELSE state.latest = clock
    BY DEF ReplacesSecond, HelperGoes, Replaces, Files, Publish, CInv
  <1>2. metrics' \in Metrics /\ smooth' \in BOOLEAN
    <2>1. metrics' \in Metrics
      BY <1>1 DEF TypeOK, State, Metrics
    <2>2. smooth' \in BOOLEAN
      BY <1>1 DEF TypeOK
    <2>3. QED
      BY <2>1, <2>2
  <1>3. TypeOK'
    BY <1>1, <1>2, StartTypes, HelperTypes DEF TypeOK
  <1>4. \A k \in Kinds : state.counters[k] \in Nat /\ metrics.counters[k] \in Nat
    BY DEF TypeOK, State, Metrics, Counters
  <1>5. /\ helper'.shown = {} /\ helper'.next = NoState /\ helper'.at = "rest"
    BY <1>1 DEF Resting
  <1>6. CInv'
    BY <1>1, <1>4, <1>5, NothingCounted DEF CInv, Visible, CountsSeen, hostVars
  <1>7. QED
    BY <1>1, <1>3, <1>4, <1>6 DEF CInv

-----------------------------------------------------------------------------
(***************************************************************************)
(* The way of a stamp, and the hold of what has been heard.                *)
(***************************************************************************)
\* As long as all is smooth a stamp that Prometheus does not have is younger than its
\* last scrape, and one that the rule has not heard is so by ScrapeEvery more.
OnItsWay ==
    smooth /\ metrics.latest # None =>
        /\ metrics.latest <= clock
        /\ scraped = metrics.latest \/ clock - metrics.latest <= sinceScrape
        /\ heard = metrics.latest \/ clock - metrics.latest - ScrapeEvery <= sinceRound

\* A rule that clears has begun to since it heard of its last event.
Holding ==
    heard # None =>
        /\ heard <= clock
        /\ rule.clearingSince # None => heard <= rule.clearingSince
        /\ clock < heard + Hold => rule.active

TInv == OnItsWay /\ Holding

LEMMA TimeTypes ==
    ASSUME TypeOK
    PROVE  /\ clock \in Nat /\ sinceScrape \in Nat /\ sinceRound \in Nat
           /\ sinceScrape <= ScrapeEvery /\ sinceRound <= RoundWithin
           /\ Fresh \in Nat /\ Hold \in Nat /\ ScrapeEvery \in Nat
           /\ RoundWithin = Fresh - ScrapeEvery /\ RoundWithin \in Nat
           /\ metrics.latest # None => metrics.latest \in Nat
           /\ scraped # None => scraped \in Nat
           /\ heard # None => heard \in Nat
           /\ rule.clearingSince # None => rule.clearingSince \in Nat
           /\ rule.active \in BOOLEAN
  <1>1. RoundWithin = Fresh - ScrapeEvery /\ RoundWithin \in Nat
    BY RoundWithinType DEF RoundWithin
  <1>2. rule.active \in BOOLEAN
    BY DEF TypeOK
  <1>3. \A t \in Stamps : t # None => t \in Nat
    BY TimingAssumption DEF Stamps, Times
  <1>4. /\ metrics.latest \in Stamps /\ scraped \in Stamps /\ heard \in Stamps
        /\ rule.clearingSince \in Stamps
    BY DEF TypeOK, Metrics
  <1>5. clock \in Nat /\ sinceScrape \in Nat /\ sinceScrape <= ScrapeEvery
    BY TimingAssumption DEF TypeOK, Times
  <1>6. sinceRound \in Nat /\ sinceRound <= RoundWithin
    BY <1>1 DEF TypeOK
  <1>7. QED
    BY <1>1, <1>2, <1>3, <1>4, <1>5, <1>6, TimingAssumption

\* A stamp that is published is new only as of now.
LEMMA PublishTimes ==
    ASSUME TypeOK, TInv, NEW next \in State, Publish(next), UNCHANGED <<clock, observationVars>>
    PROVE  TInv'
  <1>1. Holding'
    BY DEF TInv, Holding, observationVars
  <1>2. CASE next.latest = metrics.latest
    <2>1. metrics'.latest = metrics.latest /\ smooth' = smooth
      BY <1>2 DEF Publish
    <2>2. OnItsWay'
      BY <2>1 DEF TInv, OnItsWay, observationVars
    <2>3. QED
      BY <1>1, <2>2 DEF TInv
  <1>3. CASE next.latest # metrics.latest
    <2>1. metrics'.latest = next.latest /\ smooth' = (next.latest = clock)
      BY <1>3 DEF Publish
    <2>2. clock - clock <= sinceScrape /\ clock - clock - ScrapeEvery <= sinceRound
      BY TimeTypes
    <2>3. clock <= clock
      BY TimeTypes
    <2>4. OnItsWay'
      BY <2>1, <2>2, <2>3 DEF OnItsWay, observationVars
    <2>5. QED
      BY <1>1, <2>4 DEF TInv
  <1>4. QED
    BY <1>2, <1>3

LEMMA RoundTimes ==
    ASSUME TypeOK, TInv, Round
    PROVE  TInv'
  <1> USE TimeTypes
  <1>1. CASE EventIncreased
    <2>1. /\ rule' = [active |-> TRUE, clearingSince |-> None]
          /\ heard' = scraped /\ sinceRound' = 0 /\ scraped \in Nat
          /\ scraped <= clock
          /\ UNCHANGED <<clock, metrics, scraped, sinceScrape, smooth>>
      BY <1>1 DEF Round, Advanced, ClearingAfterEvent, EventIncreased, fileVars
    <2>2. Holding'
      BY <2>1 DEF Holding
    <2>3. OnItsWay'
      BY <2>1 DEF TInv, OnItsWay
    <2>4. QED
      BY <2>2, <2>3 DEF TInv
  <1>2. CASE ~EventIncreased
    <2>1. /\ rule' = Advanced /\ heard' = heard /\ sinceRound' = 0
          /\ UNCHANGED <<clock, metrics, scraped, sinceScrape, smooth>>
      BY <1>2 DEF Round, fileVars
    <2>2. Holding'
      <3>1. CASE rule.active /\ clock - ClearingSince < Hold
        <4>1. rule'.active = TRUE /\ rule'.clearingSince = ClearingSince
          BY <1>2, <2>1, <3>1 DEF Advanced
        <4>2. heard # None => heard <= ClearingSince
          BY DEF TInv, Holding, ClearingSince
        <4>3. QED
          BY <2>1, <4>1, <4>2 DEF TInv, Holding
      <3>2. CASE ~(rule.active /\ clock - ClearingSince < Hold)
        <4>1. rule'.clearingSince = None
          BY <1>2, <2>1, <3>2 DEF Advanced
        <4>2. heard # None => ~(clock < heard + Hold)
          <5>1. SUFFICES ASSUME heard # None, clock < heard + Hold PROVE FALSE
            OBVIOUS
          <5>2. rule.active /\ heard <= clock
            BY <5>1 DEF TInv, Holding
          <5>3. ClearingSince \in Nat /\ heard <= ClearingSince
            BY <5>1, <5>2 DEF TInv, Holding, ClearingSince
          <5>4. clock - ClearingSince < Hold
            BY <5>1, <5>3
          <5>5. QED
            BY <3>2, <5>2, <5>4
        <4>3. QED
          BY <2>1, <4>1, <4>2 DEF TInv, Holding
      <3>3. QED
        BY <3>1, <3>2
    <2>3. OnItsWay'
      <3>1. SUFFICES ASSUME smooth, metrics.latest # None, heard # metrics.latest
                     PROVE  clock - metrics.latest - ScrapeEvery <= 0
        BY <2>1 DEF TInv, OnItsWay
      <3>2. /\ metrics.latest <= clock
            /\ scraped = metrics.latest \/ clock - metrics.latest <= sinceScrape
            /\ clock - metrics.latest - ScrapeEvery <= sinceRound
        BY <3>1 DEF TInv, OnItsWay
      <3>3. CASE scraped = metrics.latest
        <4>1. clock - metrics.latest <= Fresh
          BY <3>1, <3>2
        <4>2. QED
          BY <1>2, <3>1, <3>2, <3>3, <4>1 DEF EventIncreased
      <3>4. CASE clock - metrics.latest <= sinceScrape
        BY <3>1, <3>4
      <3>5. QED
        BY <3>2, <3>3, <3>4
    <2>4. QED
      BY <2>2, <2>3 DEF TInv
  <1>3. QED
    BY <1>1, <1>2

LEMMA TickTimes ==
    ASSUME TypeOK, TInv, Tick
    PROVE  TInv'
  <1> USE TimeTypes
  <1>1. /\ clock' = clock + 1
        /\ UNCHANGED <<metrics, scraped, rule, heard>>
    BY DEF Tick, fileVars
  <1>2. smooth' => /\ smooth
                   /\ sinceScrape < ScrapeEvery /\ sinceRound < RoundWithin
                   /\ sinceScrape' = sinceScrape + 1 /\ sinceRound' = sinceRound + 1
    <2>1. Min({sinceScrape + 1, ScrapeEvery}) =
              IF sinceScrape < ScrapeEvery THEN sinceScrape + 1 ELSE ScrapeEvery
      BY Bounded DEF TypeOK
    <2>2. Min({sinceRound + 1, RoundWithin}) =
              IF sinceRound < RoundWithin THEN sinceRound + 1 ELSE RoundWithin
      BY Bounded DEF TypeOK
    <2>3. QED
      BY <2>1, <2>2 DEF Tick
  <1>3. Holding'
    BY <1>1 DEF TInv, Holding
  <1>4. OnItsWay'
    <2>1. SUFFICES ASSUME smooth', metrics.latest # None
                   PROVE  /\ metrics.latest <= clock + 1
                          /\ scraped = metrics.latest
                             \/ clock + 1 - metrics.latest <= sinceScrape + 1
                          /\ heard = metrics.latest
                             \/ clock + 1 - metrics.latest - ScrapeEvery <= sinceRound + 1
      BY <1>1, <1>2 DEF OnItsWay
    <2>2. /\ metrics.latest <= clock
          /\ scraped = metrics.latest \/ clock - metrics.latest <= sinceScrape
          /\ heard = metrics.latest \/ clock - metrics.latest - ScrapeEvery <= sinceRound
      BY <1>2, <2>1 DEF TInv, OnItsWay
    <2>3. QED
      BY <2>1, <2>2
  <1>5. QED
    BY <1>3, <1>4 DEF TInv

\* Whatever else is observed: a scrape has the stamp, and what fails is not smooth.
LEMMA ObservationTimes ==
    ASSUME TypeOK, TInv, Scrapes \/ ScrapeFails \/ RoundUnanswered
    PROVE  TInv'
  <1>1. CASE Scrapes
    BY <1>1 DEF Scrapes, TInv, OnItsWay, Holding, fileVars
  <1>2. CASE ScrapeFails
    BY <1>2 DEF ScrapeFails, TInv, OnItsWay, Holding, fileVars
  <1>3. CASE RoundUnanswered
    BY <1>3 DEF RoundUnanswered, TInv, OnItsWay, Holding
  <1>4. QED
    BY <1>1, <1>2, <1>3

\* What observes leaves the host and its programs.
LEMMA ObservationTypes ==
    ASSUME TypeOK, Scrapes \/ ScrapeFails \/ Round \/ RoundUnanswered \/ Tick
    PROVE  TypeOK'
  <1>1. /\ clock \in Times /\ scraped \in Stamps /\ metrics.latest \in Stamps
        /\ 0 \in 0..ScrapeEvery /\ 0 \in 0..RoundWithin /\ None \in Stamps
        /\ rule.clearingSince \in Stamps
    BY RoundWithinType, TimingAssumption DEF TypeOK, Metrics, Stamps
  <1>2. CASE Scrapes
    BY <1>1, <1>2 DEF Scrapes, TypeOK, hostVars, fileVars
  <1>3. CASE ScrapeFails
    <2>1. smooth' \in BOOLEAN
      BY <1>3 DEF ScrapeFails
    <2>2. QED
      BY <1>1, <1>3, <2>1 DEF ScrapeFails, TypeOK, hostVars, fileVars
  <1>4. CASE Round
    <2>1. ClearingSince \in Stamps
      BY <1>1 DEF ClearingSince, Stamps
    <2>2. Advanced \in [active: BOOLEAN, clearingSince: Stamps]
      BY <1>1, <2>1 DEF Advanced, ClearingAfterEvent
    <2>3. QED
      BY <1>1, <1>4, <2>2 DEF Round, TypeOK, hostVars, fileVars
  <1>5. CASE RoundUnanswered
    <2>1. smooth' \in BOOLEAN /\ rule' \in [active: BOOLEAN, clearingSince: Stamps]
      BY <1>1, <1>5 DEF RoundUnanswered
    <2>2. QED
      BY <1>1, <1>5, <2>1 DEF RoundUnanswered, TypeOK, hostVars, fileVars
  <1>6. CASE Tick
    <2>1. sinceScrape' \in 0..ScrapeEvery
      BY <1>6, Bounded, TimingAssumption DEF Tick, TypeOK
    <2>2. sinceRound' \in 0..RoundWithin
      BY <1>6, Bounded, RoundWithinType DEF Tick, TypeOK
    <2>3. clock' \in Times
      BY <1>6, TimingAssumption DEF Tick, TypeOK, Times
    <2>4. smooth' \in BOOLEAN
      BY <1>6 DEF Tick
    <2>5. QED
      BY <1>6, <2>1, <2>2, <2>3, <2>4 DEF Tick, TypeOK, hostVars, fileVars
  <1>7. QED
    BY <1>2, <1>3, <1>4, <1>5, <1>6

\* The files and the host change without the stamps.
LEMMA OtherTimes ==
    ASSUME TypeOK, TInv, UNCHANGED <<clock, metrics, observationVars, smooth>>
    PROVE  TInv'
  BY DEF TInv, OnItsWay, Holding, observationVars

-----------------------------------------------------------------------------
IInv == TypeOK /\ CInv /\ TInv

THEOREM ErrorsInit == Init => IInv
  <1> SUFFICES ASSUME Init PROVE IInv
    OBVIOUS
  <1>1. TypeOK
    <2>1. host \in Host /\ ~host.panicLine
      BY TimingAssumption DEF Init, Host, Boots
    <2>2. metrics \in Metrics
      BY StartTypes DEF Init, Metrics
    <2>3. rule \in [active: BOOLEAN, clearingSince: Stamps] /\ smooth \in BOOLEAN
      BY StartTypes DEF Init
    <2>4. 0 \in 0..ScrapeEvery /\ 0 \in 0..RoundWithin
      BY RoundWithinType, TimingAssumption
    <2>5. QED
      BY <2>1, <2>2, <2>3, <2>4, StartTypes DEF Init, TypeOK
  <1>2. CInv
    <2>1. IsFiniteSet(left)
      BY FS_EmptySet DEF Init
    <2>2. Visible
      BY DEF Init, Visible
    <2>3. \A k \in Kinds : metrics.counters[k] = 0 /\ state.counters[k] = 0
      BY DEF Init, NoState, NoCounts
    <2>4. QED
      BY <2>1, <2>2, <2>3, NothingCounted DEF Init, CInv, Resting
  <1>3. TInv
    BY DEF Init, TInv, OnItsWay, Holding
  <1>4. QED
    BY <1>1, <1>2, <1>3 DEF IInv

THEOREM ErrorsStep == IInv /\ [Next]_vars => IInv'
  <1> SUFFICES ASSUME IInv, [Next]_vars
               PROVE  IInv'
    OBVIOUS
  <1> USE DEF IInv
  <1>1. CASE UNCHANGED vars
    <2>1. TypeOK'
      BY <1>1 DEF vars, TypeOK, hostVars, fileVars, observationVars
    <2>2. CInv'
      BY <1>1 DEF vars, CInv, Visible, CountsSeen, hostVars, fileVars
    <2>3. TInv'
      BY <1>1, OtherTimes DEF vars, fileVars
    <2>4. QED
      BY <2>1, <2>2, <2>3
  <1>2. ASSUME NEW e \in IoErrors, StorageError(e)
        PROVE  IInv'
    BY <1>2, StorageErrorStep, OtherTimes DEF StorageError, fileVars
  <1>3. ASSUME NEW line \in BOOLEAN, NEW text \in BOOLEAN, NEW status \in BOOLEAN,
               NEW pstore \in SUBSET Boots, Reboot(line, text, status, pstore)
        PROVE  IInv'
    BY <1>3, RebootStep, OtherTimes DEF Reboot
  <1>4. ASSUME NEW current \in BOOLEAN, NEW previous \in BOOLEAN, Collects(current, previous)
        PROVE  IInv'
    BY <1>4, CollectsStep, OtherTimes DEF Collects
  <1>5. CASE Counts
    BY <1>5, CountsStep, OtherTimes DEF Counts
  <1>6. CASE ReplacesFirst
    <2>1. UNCHANGED <<clock, metrics, observationVars, smooth>>
      BY <1>6 DEF ReplacesFirst, Replaces, Files
    <2>2. QED
      BY <1>6, <2>1, FirstStep, OtherTimes
  <1>7. CASE ReplacesSecond
    <2>1. PICK next \in State : next = helper.next
      BY DEF TypeOK, Helper
    <2>2. Publish(next) /\ UNCHANGED <<clock, observationVars>>
      BY <1>7, <2>1 DEF ReplacesSecond, Replaces, Files
    <2>3. QED
      BY <1>7, <2>2, SecondStep, PublishTimes
  <1>8. CASE HelperStops
    BY <1>8, HelperStopsStep, OtherTimes DEF HelperStops
  <1>9. CASE Scrapes \/ ScrapeFails \/ Round \/ RoundUnanswered \/ Tick
    <2>1. TypeOK'
      BY <1>9, ObservationTypes
    <2>2. UNCHANGED <<hostVars, fileVars>>
      BY <1>9 DEF Scrapes, ScrapeFails, Round, RoundUnanswered, Tick
    <2>3. CInv'
      BY <2>2 DEF CInv, Visible, CountsSeen, hostVars, fileVars
    <2>4. TInv'
      BY <1>9, ObservationTimes, RoundTimes, TickTimes
    <2>5. QED
      BY <2>1, <2>3, <2>4
  <1>10. QED
    BY <1>1, <1>2, <1>3, <1>4, <1>5, <1>6, <1>7, <1>8, <1>9 DEF Next

\* Types of the host, its programs and what is observed.
THEOREM TypeCorrect == Spec => []TypeOK
  <1>1. IInv => TypeOK
    BY DEF IInv
  <1>2. QED
    BY ErrorsInit, ErrorsStep, <1>1, PTL DEF Spec

\* No piece of evidence is counted twice, wherever the programs are stopped.
THEOREM CountedOnceAlways == Spec => []CountedOnce
  <1>1. ASSUME IInv PROVE CountedOnce
    <2>1. SUFFICES ASSUME NEW k \in Kinds
                   PROVE  metrics.counters[k] <= Cardinality(OfKind(left, k))
      BY DEF CountedOnce, OfKind
    <2>2. /\ Cardinality(OfKind(state.seen, k)) <= Cardinality(OfKind(left, k))
          /\ Cardinality(OfKind(state.seen, k)) \in Nat
          /\ Cardinality(OfKind(left, k)) \in Nat
      BY <1>1, MoreIsNotLess DEF IInv, CInv
    <2>3. metrics.counters[k] \in Nat /\ metrics.counters[k] <= state.counters[k]
      BY <1>1 DEF IInv, CInv, TypeOK, Metrics, Counters
    <2>4. QED
      BY <1>1, <2>2, <2>3 DEF IInv, CInv, CountsSeen
  <1>2. QED
    BY ErrorsInit, ErrorsStep, <1>1, PTL DEF Spec

\* What Prometheus may have seen of a counter it never sees less of.
THEOREM CountersNeverGoBackAlways == Spec => CountersNeverGoBack
  <1>1. ASSUME IInv, [Next]_vars
        PROVE  [\A k \in Kinds : metrics'.counters[k] >= metrics.counters[k]]_vars
    <2>1. CASE ReplacesSecond
      BY <1>1, <2>1, SecondStep DEF IInv
    <2>2. CASE metrics' = metrics
      BY <1>1, <2>2 DEF IInv, TypeOK, Metrics, Counters
    <2>3. ReplacesFirst => metrics' = metrics
      BY DEF ReplacesFirst, Replaces, Files
    <2>4. ReplacesSecond \/ metrics' = metrics
      BY <1>1, <2>3
         DEF Next, vars, StorageError, Reboot, Collects, Counts, HelperStops, Scrapes,
             ScrapeFails, Round, RoundUnanswered, Tick, fileVars
    <2>5. QED
      BY <2>1, <2>2, <2>4
  <1>2. QED
    BY ErrorsInit, ErrorsStep, <1>1, PTL DEF Spec, CountersNeverGoBack

\* An event published as it was stamped is heard before it is too old, for any
\* intervals that leave the rounds what the scrapes do not take of Fresh.
THEOREM EventHeard == Spec => []EventIsHeard
  <1>1. ASSUME IInv PROVE EventIsHeard
    <2>1. SUFFICES ASSUME smooth, metrics.latest # None, clock > metrics.latest + Fresh,
                          heard # metrics.latest
                   PROVE  FALSE
      BY DEF EventIsHeard
    <2>2. clock - metrics.latest - ScrapeEvery <= sinceRound
      BY <1>1, <2>1 DEF IInv, TInv, OnItsWay
    <2>3. QED
      BY <1>1, <2>1, <2>2, TimeTypes DEF IInv
  <1>2. QED
    BY ErrorsInit, ErrorsStep, <1>1, PTL DEF Spec

\* A rule stays active through the hold of the last event it has heard.
THEOREM EventHoldsAlways == Spec => []EventHolds
  <1>1. IInv => EventHolds
    BY DEF IInv, TInv, Holding, EventHolds
  <1>2. QED
    BY ErrorsInit, ErrorsStep, <1>1, PTL DEF Spec
=============================================================================
