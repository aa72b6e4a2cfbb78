------------------------- MODULE CriticalAlertsProofs -------------------------
(***************************************************************************)
(* For any clock, windows and bounds: an incident that could be heard is,  *)
(* and so is its recovery; an incident counts as contained exactly if      *)
(* windows cover it; a change of causes tells nothing new.                 *)
(*                                                                         *)
(* What the two loops of health.py compute takes an induction over their   *)
(* rows.  It is one over sets of numbers, which follows from the pigeon    *)
(* hole principle.                                                         *)
(***************************************************************************)
EXTENDS CriticalAlerts, FiniteSetTheorems, TLAPS

-----------------------------------------------------------------------------
\* No number is missing from a set that has 0, and with each number the next: adding one
\* would map what it has below the missing number into the same without 0.
LEMMA Induction ==
    ASSUME NEW T, 0 \in T, \A n \in Nat : n \in T => n + 1 \in T
    PROVE  Nat \subseteq T
  <1> SUFFICES ASSUME NEW x \in Nat, x \notin T PROVE FALSE
    OBVIOUS
  <1> DEFINE U == {n \in 0..x : n \in T}
             V == U \ {0}
             next == [n \in U |-> n + 1]
  <1>1. IsFiniteSet(U)
    <2>1. IsFiniteSet(0..x)
      BY FS_Interval
    <2>2. U \in SUBSET (0..x)
      OBVIOUS
    <2> HIDE DEF U
    <2>3. QED
      BY <2>1, <2>2, FS_Subset
  <1>2. 0 \in U
    OBVIOUS
  <1>3. IsFiniteSet(V) /\ Cardinality(V) < Cardinality(U)
    <2>1. IsFiniteSet(V) /\ Cardinality(V) = Cardinality(U) - 1
      BY <1>1, <1>2, FS_RemoveElement
    <2>2. Cardinality(U) \in Nat
      BY <1>1, FS_CardinalityType
    <2>3. QED
      BY <2>1, <2>2
  <1>4. next \in [U -> V]
    <2>1. ASSUME NEW n \in U PROVE n + 1 \in V
      <3>1. n \in Nat /\ n <= x /\ n \in T /\ n # x
        OBVIOUS
      <3>2. QED
        BY <3>1
    <2>2. QED
      BY <2>1
  <1>5. PICK m, n \in U : m # n /\ next[m] = next[n]
    <2> HIDE DEF U, V, next
    <2>1. QED
      BY <1>1, <1>3, <1>4, FS_PigeonHole
  <1>6. QED
    BY <1>5

-----------------------------------------------------------------------------
\* What FoldLeft iterates over the positions of a sequence: on each set of positions, the
\* last is applied to the result on the others.
IsFold(iter, G, base, n) ==
    iter = [s \in SUBSET (1..n) |-> IF s = {} THEN base ELSE G[Max(s)][iter[s \ {Max(s)}]]]

LEMMA MaxIs ==
    ASSUME NEW s \in SUBSET Nat, NEW n \in s, \A i \in s : i <= n
    PROVE  Max(s) = n
  <1>1. \A y \in s : n >= y
    OBVIOUS
  <1>2. \A m \in s : (\A y \in s : m >= y) => m = n
    OBVIOUS
  <1>3. QED
    BY <1>1, <1>2 DEF Max

LEMMA HasGreatest ==
    ASSUME NEW N \in Nat, NEW s \in SUBSET (0..N), s # {}
    PROVE  \E m \in s : \A i \in s : i <= m
  <1> DEFINE Has(r) == \E m \in r : \A i \in r : i <= m
             T == {n \in Nat : \A r \in SUBSET (0..n) : r # {} => Has(r)}
  <1>1. 0 \in T
    <2>1. ASSUME NEW r \in SUBSET (0..0), r # {} PROVE Has(r)
      <3>1. PICK m \in r : TRUE
        BY <2>1
      <3>2. m <= 0 /\ \A i \in r : i <= m
        OBVIOUS
      <3>3. QED
        BY <3>2
    <2> HIDE DEF Has
    <2>2. QED
      BY <2>1
  <1>2. ASSUME NEW n \in Nat, n \in T PROVE n + 1 \in T
    <2>1. ASSUME NEW r \in SUBSET (0..n+1), r # {} PROVE Has(r)
      <3>1. CASE n + 1 \in r
        BY <3>1
      <3>2. CASE n + 1 \notin r
        <4>1. r \in SUBSET (0..n)
          BY <3>2
        <4>2. QED
          BY <1>2, <2>1, <4>1
      <3>3. QED
        BY <3>1, <3>2
    <2> HIDE DEF Has
    <2>2. QED
      BY <2>1
  <1> HIDE DEF Has
  <1>3. N \in T
    <2> HIDE DEF T
    <2>1. QED
      BY <1>1, <1>2, Induction
  <1>4. Has(s)
    BY <1>3
  <1>5. QED
    BY <1>4 DEF Has

LEMMA MaxIsIn ==
    ASSUME NEW N \in Nat, NEW s \in SUBSET (1..N), s # {}
    PROVE  Max(s) \in s
  <1>1. s \in SUBSET (0..N) /\ s \in SUBSET Nat
    OBVIOUS
  <1>2. PICK m \in s : \A i \in s : i <= m
    BY <1>1, HasGreatest
  <1>3. QED
    BY <1>1, <1>2, MaxIs

LEMMA FoldExists ==
    ASSUME NEW C, NEW base \in C, NEW N \in Nat, NEW G \in [1..N -> [C -> C]]
    PROVE  \E iter \in [SUBSET (1..N) -> C] : IsFold(iter, G, base, N)
  <1> DEFINE Solved(n) == \E iter \in [SUBSET (1..n) -> C] : IsFold(iter, G, base, n)
             T == {n \in Nat : n <= N => Solved(n)}
  <1> HIDE DEF Solved
  <1>1. 0 \in T
    <2> DEFINE iter == [s \in SUBSET (1..0) |-> base]
    <2>1. SUBSET (1..0) = {{}}
      OBVIOUS
    <2>2. iter \in [SUBSET (1..0) -> C] /\ IsFold(iter, G, base, 0)
      BY <2>1 DEF IsFold
    <2>3. Solved(0)
      BY <2>2 DEF Solved
    <2>4. QED
      BY <2>3
  <1>2. ASSUME NEW n \in Nat, n \in T, n + 1 <= N PROVE n + 1 \in T
    <2>1. PICK prev \in [SUBSET (1..n) -> C] : IsFold(prev, G, base, n)
      <3>1. Solved(n)
        BY <1>2
      <3>2. QED
        BY <3>1 DEF Solved
    <2> DEFINE iter == [s \in SUBSET (1..n+1) |->
                          IF n + 1 \in s THEN G[n + 1][prev[s \ {n + 1}]] ELSE prev[s]]
    <2>2. \A s \in SUBSET (1..n+1) : s \ {n + 1} \in SUBSET (1..n)
      OBVIOUS
    <2>3. iter \in [SUBSET (1..n+1) -> C]
      <3>1. G[n + 1] \in [C -> C]
        BY <1>2
      <3>2. ASSUME NEW s \in SUBSET (1..n+1)
            PROVE  (IF n + 1 \in s THEN G[n + 1][prev[s \ {n + 1}]] ELSE prev[s]) \in C
        <4>1. n + 1 \notin s => s \in SUBSET (1..n)
          OBVIOUS
        <4>2. QED
          BY <2>1, <2>2, <3>1, <4>1
      <3>3. QED
        BY <3>2
    <2>4. ASSUME NEW s \in SUBSET (1..n+1)
          PROVE  iter[s] = IF s = {} THEN base ELSE G[Max(s)][iter[s \ {Max(s)}]]
      <3>1. CASE n + 1 \in s
        <4>1. Max(s) = n + 1
          BY <3>1, MaxIs
        <4>2. s \ {n + 1} \in SUBSET (1..n+1) /\ n + 1 \notin s \ {n + 1}
          OBVIOUS
        <4>3. QED
          BY <3>1, <4>1, <4>2
      <3>2. CASE n + 1 \notin s
        <4>1. s \in SUBSET (1..n)
          BY <3>2
        <4>2. s \ {Max(s)} \in SUBSET (1..n) /\ n + 1 \notin s \ {Max(s)}
          BY <3>2, <4>1
        <4>3. prev[s] = IF s = {} THEN base ELSE G[Max(s)][prev[s \ {Max(s)}]]
          BY <2>1, <4>1 DEF IsFold
        <4>4. iter[s] = prev[s] /\ iter[s \ {Max(s)}] = prev[s \ {Max(s)}]
          BY <3>2, <4>2
        <4>5. QED
          BY <4>3, <4>4
      <3>3. QED
        BY <3>1, <3>2
    <2>5. IsFold(iter, G, base, n + 1)
      BY <2>4 DEF IsFold
    <2> HIDE DEF iter
    <2>6. Solved(n + 1)
      BY <2>3, <2>5 DEF Solved
    <2>7. QED
      BY <2>6
  <1>3. ASSUME NEW n \in Nat, n \in T PROVE n + 1 \in T
    <2>1. CASE n + 1 <= N
      BY <1>2, <1>3, <2>1
    <2>2. CASE ~(n + 1 <= N)
      BY <2>2
    <2>3. QED
      BY <2>1, <2>2
  <1>4. N \in T
    <2> HIDE DEF T
    <2>1. QED
      BY <1>1, <1>3, Induction
  <1>5. Solved(N)
    BY <1>4
  <1>6. QED
    BY <1>5 DEF Solved

\* The positions up to k, of which k is the last.
LEMMA Positions ==
    ASSUME NEW N \in Nat, NEW k \in 1..N
    PROVE  /\ 1..k \in SUBSET (1..N) /\ 1..k # {}
           /\ Max(1..k) = k /\ (1..k) \ {k} = 1..k-1
  <1>1. k \in 1..k /\ (\A i \in 1..k : i <= k) /\ 1..k \in SUBSET Nat
    OBVIOUS
  <1>2. Max(1..k) = k
    BY <1>1, MaxIs
  <1>3. QED
    BY <1>1, <1>2

-----------------------------------------------------------------------------
Told == [severity: Severities \cup {"Healthy"},
         transition: {"opening", "escalation", "improvement"}]

LEMMA ToldAfter ==
    ASSUME NEW told \in Told, NEW severity \in Severities \cup {"Healthy"}
    PROVE  TransitionAfter(told, severity) \in Told
  BY DEF Told, TransitionAfter, Severities

\* What _notification_transition has after each row.
IsTold(told, rows) ==
    /\ told = [k \in 1..Len(rows) |-> told[k]]
    /\ told[1] = [severity |-> rows[1], transition |-> "opening"]
    /\ \A k \in 1..Len(rows)-1 : told[k + 1] = TransitionAfter(told[k], rows[k + 1])

LEMMA NotificationIsTold ==
    ASSUME NEW rows \in Seq(Severities \cup {"Healthy"}), rows # <<>>
    PROVE  \E told : IsTold(told, rows) /\ NotificationTransition(rows) = told[Len(rows)].transition
  <1> DEFINE first == [severity |-> Head(rows), transition |-> "opening"]
             rest == Tail(rows)
             N == Len(rest)
             G == [k \in 1..N |-> [c \in Told |-> TransitionAfter(c, rest[k])]]
             IsIter(it) == it = [s \in SUBSET (DOMAIN rest) |->
                                        IF s = {} THEN first
                                        ELSE TransitionAfter(it[s \ {Max(s)}], rest[Max(s)])]
             iter == CHOOSE it : IsIter(it)
  <1>1. /\ rest \in Seq(Severities \cup {"Healthy"}) /\ N \in Nat /\ DOMAIN rest = 1..N
        /\ N = Len(rows) - 1 /\ \A k \in 1..N : rest[k] = rows[k + 1]
        /\ Head(rows) = rows[1] /\ rows[1] \in Severities \cup {"Healthy"}
    OBVIOUS
  <1>2. NotificationTransition(rows) = iter[DOMAIN rest].transition
    BY DEF NotificationTransition, FoldLeft, MapThenFoldSet
  <1>3. IsIter(iter)
    <2>1. first \in Told
      BY <1>1 DEF Told
    <2>2. G \in [1..N -> [Told -> Told]]
      BY <1>1, ToldAfter
    <2>3. PICK g \in [SUBSET (1..N) -> Told] : IsFold(g, G, first, N)
      <3> HIDE DEF G, N, first
      <3>1. QED
        BY <1>1, <2>1, <2>2, FoldExists
    <2>4. ASSUME NEW s \in SUBSET (1..N)
          PROVE  g[s] = IF s = {} THEN first ELSE TransitionAfter(g[s \ {Max(s)}], rest[Max(s)])
      <3>1. g[s] = IF s = {} THEN first ELSE G[Max(s)][g[s \ {Max(s)}]]
        BY <2>3 DEF IsFold
      <3>2. s # {} => Max(s) \in 1..N
        BY <1>1, MaxIsIn
      <3>3. s \ {Max(s)} \in SUBSET (1..N)
        OBVIOUS
      <3>4. g[s \ {Max(s)}] \in Told
        BY <2>3, <3>3
      <3>5. s # {} => G[Max(s)][g[s \ {Max(s)}]] = TransitionAfter(g[s \ {Max(s)}], rest[Max(s)])
        BY <3>2, <3>4
      <3>6. QED
        BY <3>1, <3>5
    <2>5. IsIter(g)
      BY <1>1, <2>3, <2>4
    <2>6. QED
      BY <2>5
  <1> HIDE DEF iter
  <1>4. /\ iter[{}] = first
        /\ \A k \in 1..N : iter[1..k] = TransitionAfter(iter[1..k-1], rest[k])
    <2>1. iter[{}] = first
      BY <1>3
    <2>2. ASSUME NEW k \in 1..N
          PROVE  iter[1..k] = TransitionAfter(iter[1..k-1], rest[k])
      <3>1. /\ 1..k \in SUBSET (DOMAIN rest) /\ 1..k # {}
            /\ Max(1..k) = k /\ (1..k) \ {k} = 1..k-1
        BY <1>1, Positions
      <3>2. QED
        BY <1>3, <3>1
    <2>3. QED
      BY <2>1, <2>2
  <1> DEFINE told == [k \in 1..Len(rows) |-> iter[1..k-1]]
  <1>5. told[1] = first
    <2>1. 1 \in 1..Len(rows) /\ 1..1-1 = {}
      BY <1>1
    <2>2. QED
      BY <1>4, <2>1
  <1>6. ASSUME NEW k \in 1..Len(rows)-1
        PROVE  told[k + 1] = TransitionAfter(told[k], rows[k + 1])
    <2>1. k \in 1..N /\ k + 1 \in 1..Len(rows) /\ k \in 1..Len(rows) /\ (k + 1) - 1 = k
      BY <1>1
    <2>2. QED
      BY <1>1, <1>4, <2>1
  <1>7. told[Len(rows)] = iter[DOMAIN rest]
    <2>1. Len(rows) \in 1..Len(rows) /\ Len(rows) - 1 = N
      BY <1>1
    <2>2. QED
      BY <1>1, <2>1
  <1>8. IsTold(told, rows)
    BY <1>1, <1>5, <1>6 DEF IsTold
  <1> HIDE DEF told
  <1>9. QED
    BY <1>2, <1>7, <1>8

LEMMA ToldTypes ==
    ASSUME NEW rows \in Seq(Severities \cup {"Healthy"}), rows # <<>>, NEW told, IsTold(told, rows)
    PROVE  \A k \in 1..Len(rows) : told[k] \in Told /\ told[k].severity = rows[k]
  <1> DEFINE T == {n \in Nat : n + 1 \in 1..Len(rows) =>
                                  told[n + 1] \in Told /\ told[n + 1].severity = rows[n + 1]}
  <1>1. 0 \in T
    BY DEF IsTold, Told
  <1>2. ASSUME NEW n \in Nat, n \in T PROVE n + 1 \in T
    <2>1. SUFFICES ASSUME (n + 1) + 1 \in 1..Len(rows)
                   PROVE  /\ told[(n + 1) + 1] \in Told
                          /\ told[(n + 1) + 1].severity = rows[(n + 1) + 1]
      OBVIOUS
    <2>2. n + 1 \in 1..Len(rows)-1 /\ told[n + 1] \in Told
      BY <1>2, <2>1
    <2>3. told[(n + 1) + 1] = TransitionAfter(told[n + 1], rows[(n + 1) + 1])
      BY <2>2 DEF IsTold
    <2>4. rows[(n + 1) + 1] \in Severities \cup {"Healthy"}
      BY <2>1
    <2>5. QED
      BY <2>2, <2>3, <2>4, ToldAfter DEF TransitionAfter
  <1>3. Nat \subseteq T
    <2> HIDE DEF T
    <2>1. QED
      BY <1>1, <1>2, Induction
  <1>4. SUFFICES ASSUME NEW k \in 1..Len(rows)
                 PROVE  told[k] \in Told /\ told[k].severity = rows[k]
    OBVIOUS
  <1>5. k - 1 \in T /\ (k - 1) + 1 = k
    BY <1>3
  <1>6. QED
    BY <1>5

LEMMA NotificationType ==
    ASSUME NEW rows \in Seq(Severities \cup {"Healthy"}), rows # <<>>
    PROVE  NotificationTransition(rows) \in {"opening", "escalation", "improvement"}
  <1>1. PICK told : IsTold(told, rows) /\ NotificationTransition(rows) = told[Len(rows)].transition
    BY NotificationIsTold
  <1>2. Len(rows) \in 1..Len(rows)
    OBVIOUS
  <1>3. told[Len(rows)] \in Told
    BY <1>1, <1>2, ToldTypes
  <1>4. QED
    BY <1>1, <1>3 DEF Told

\* A row that repeats the severity tells nothing new.
LEMMA SameSeverity ==
    ASSUME NEW rows \in Seq(Severities \cup {"Healthy"}), rows # <<>>,
           NEW severity \in Severities \cup {"Healthy"}, severity = Last(rows)
    PROVE  NotificationTransition(Append(rows, severity)) = NotificationTransition(rows)
  <1> DEFINE more == Append(rows, severity)
             n == Len(rows)
  <1>1. /\ more \in Seq(Severities \cup {"Healthy"}) /\ more # <<>> /\ Len(more) = n + 1
        /\ more[n + 1] = severity /\ \A k \in 1..n : more[k] = rows[k]
        /\ n \in Nat /\ n # 0 /\ severity = rows[n]
    BY DEF Last
  <1> HIDE DEF more, n
  <1>2. PICK told : IsTold(told, rows) /\ NotificationTransition(rows) = told[n].transition
    BY NotificationIsTold DEF n
  <1>3. PICK again : IsTold(again, more) /\ NotificationTransition(more) = again[n + 1].transition
    BY <1>1, NotificationIsTold
  <1>4. \A k \in 1..n : again[k] = told[k]
    <2> DEFINE T == {k \in Nat : k + 1 \in 1..n => again[k + 1] = told[k + 1]}
    <2>1. 0 \in T
      <3>1. again[1] = [severity |-> more[1], transition |-> "opening"]
        BY <1>3 DEF IsTold
      <3>2. told[1] = [severity |-> rows[1], transition |-> "opening"]
        BY <1>2 DEF IsTold
      <3>3. 0 + 1 \in 1..n => again[0 + 1] = told[0 + 1]
        BY <1>1, <3>1, <3>2
      <3>4. QED
        BY <3>3
    <2>2. ASSUME NEW k \in Nat, k \in T PROVE k + 1 \in T
      <3>1. SUFFICES ASSUME (k + 1) + 1 \in 1..n PROVE again[(k + 1) + 1] = told[(k + 1) + 1]
        OBVIOUS
      <3>2. k + 1 \in 1..n /\ k + 1 \in 1..n-1 /\ k + 1 \in 1..(n + 1)-1
        BY <1>1, <3>1
      <3>3. again[(k + 1) + 1] = TransitionAfter(again[k + 1], more[(k + 1) + 1])
        BY <1>1, <1>3, <3>2 DEF IsTold
      <3>4. told[(k + 1) + 1] = TransitionAfter(told[k + 1], rows[(k + 1) + 1])
        BY <1>2, <3>2 DEF IsTold, n
      <3>5. QED
        BY <1>1, <2>2, <3>1, <3>2, <3>3, <3>4
    <2>3. Nat \subseteq T
      <3> HIDE DEF T
      <3>1. QED
        BY <2>1, <2>2, Induction
    <2>4. SUFFICES ASSUME NEW k \in 1..n PROVE again[k] = told[k]
      OBVIOUS
    <2>5. k - 1 \in T /\ (k - 1) + 1 = k
      <3> HIDE DEF T
      <3>1. QED
        BY <1>1, <2>3
    <2>6. QED
      BY <2>5
  <1>5. n \in 1..n /\ n \in 1..(n + 1)-1
    BY <1>1
  <1>6. told[n].severity = severity
    BY <1>1, <1>2, <1>5, ToldTypes DEF n
  <1>7. again[n + 1] = TransitionAfter(told[n], severity)
    BY <1>1, <1>3, <1>4, <1>5 DEF IsTold
  <1>8. QED
    BY <1>2, <1>3, <1>6, <1>7 DEF TransitionAfter, more

-----------------------------------------------------------------------------
\* A set of n windows, in order.
Orders(W, n, rows) ==
    /\ rows \in [1..n -> W]
    /\ \A w \in W : \E i \in 1..n : rows[i] = w
    /\ \A i, j \in 1..n : i # j => rows[i] # rows[j]
    /\ \A i, j \in 1..n : i < j => rows[i].startsAt <= rows[j].startsAt

LEMMA WindowTimes ==
    ASSUME NEW w \in Windows
    PROVE  w.startsAt \in Nat /\ w.endsAt \in Nat /\ w.startsAt < w.endsAt /\ w.startsAt \in Times
  BY TimesAssumption DEF Windows, Times

\* One of the windows starts last.
LEMMA HasLastWindow ==
    ASSUME NEW W \in SUBSET Windows, W # {}
    PROVE  \E w \in W : \A v \in W : v.startsAt <= w.startsAt
  <1> DEFINE starts == {w.startsAt : w \in W}
  <1>1. starts \in SUBSET (0..MaxTime) /\ starts # {}
    BY WindowTimes DEF Times
  <1>2. PICK m \in starts : \A t \in starts : t <= m
    <2> HIDE DEF starts
    <2>1. QED
      BY <1>1, HasGreatest, TimesAssumption
  <1>3. QED
    BY <1>2

LEMMA OrderExists ==
    ASSUME NEW W \in SUBSET Windows, IsFiniteSet(W)
    PROVE  \E rows : Orders(W, Cardinality(W), rows)
  <1> DEFINE Ordered(V, n) == \E rows : Orders(V, n, rows)
             T == {n \in Nat : \A V \in SUBSET Windows :
                                  IsFiniteSet(V) /\ Cardinality(V) = n => Ordered(V, n)}
  <1>1. 0 \in T
    <2>1. ASSUME NEW V \in SUBSET Windows, IsFiniteSet(V), Cardinality(V) = 0
          PROVE  Ordered(V, 0)
      <3>1. V = {}
        BY <2>1, FS_EmptySet
      <3>2. Orders(V, 0, <<>>)
        BY <3>1 DEF Orders
      <3>3. QED
        BY <3>2
    <2> HIDE DEF Ordered
    <2>2. QED
      BY <2>1
  <1>2. ASSUME NEW n \in Nat, n \in T PROVE n + 1 \in T
    <2>1. ASSUME NEW V \in SUBSET Windows, IsFiniteSet(V), Cardinality(V) = n + 1
          PROVE  Ordered(V, n + 1)
      <3>1. V # {}
        BY <2>1, FS_EmptySet
      <3>2. PICK w \in V : \A v \in V : v.startsAt <= w.startsAt
        BY <3>1, HasLastWindow
      <3>3. IsFiniteSet(V \ {w}) /\ Cardinality(V \ {w}) = n
        <4>1. /\ IsFiniteSet(V \ {w})
              /\ Cardinality(V \ {w}) = Cardinality(V) - 1
          <5> HIDE DEF T, Ordered
          <5>1. QED
            BY <2>1, FS_RemoveElement
        <4>2. QED
          BY <2>1, <4>1
      <3>4. V \ {w} \in SUBSET Windows
        OBVIOUS
      <3>5. Ordered(V \ {w}, n)
        <4> HIDE DEF Ordered
        <4>1. QED
          BY <1>2, <3>3, <3>4
      <3>6. PICK rows : Orders(V \ {w}, n, rows)
        BY <3>5
      <3> DEFINE more == [i \in 1..n+1 |-> IF i = n + 1 THEN w ELSE rows[i]]
      <3>7. \A i \in 1..n+1 : i = n + 1 \/ i \in 1..n
        OBVIOUS
      <3>8. /\ rows \in [1..n -> V \ {w}]
            /\ \A v \in V \ {w} : \E i \in 1..n : rows[i] = v
            /\ \A i, j \in 1..n : i # j => rows[i] # rows[j]
            /\ \A i, j \in 1..n : i < j => rows[i].startsAt <= rows[j].startsAt
        BY <3>6 DEF Orders
      <3>9. more \in [1..n+1 -> V]
        BY <3>7, <3>8
      <3>10. more[n + 1] = w /\ \A i \in 1..n : more[i] = rows[i] /\ rows[i] # w
        BY <3>8
      <3> HIDE DEF more
      <3>11. \A v \in V : \E i \in 1..n+1 : more[i] = v
        <4>1. n + 1 \in 1..n+1 /\ \A i \in 1..n : i \in 1..n+1
          OBVIOUS
        <4>2. QED
          BY <3>8, <3>10, <4>1
      <3>12. \A i, j \in 1..n+1 : i # j => more[i] # more[j]
        BY <3>7, <3>8, <3>10
      <3>13. ASSUME NEW i \in 1..n+1, NEW j \in 1..n+1, i < j
             PROVE  more[i].startsAt <= more[j].startsAt
        <4>1. i \in 1..n
          BY <3>13
        <4>2. rows[i] \in V
          BY <3>8, <4>1
        <4>3. QED
          BY <3>2, <3>7, <3>8, <3>10, <3>13, <4>1, <4>2
      <3>14. Orders(V, n + 1, more)
        BY <3>9, <3>11, <3>12, <3>13 DEF Orders
      <3>15. QED
        BY <3>14
    <2> HIDE DEF Ordered
    <2>2. QED
      BY <2>1
  <1> HIDE DEF Ordered
  <1>3. Cardinality(W) \in Nat
    BY FS_CardinalityType
  <1>4. Nat \subseteq T
    <2> HIDE DEF T
    <2>1. QED
      BY <1>1, <1>2, Induction
  <1>5. Ordered(W, Cardinality(W))
    BY <1>3, <1>4
  <1>6. QED
    BY <1>5 DEF Ordered

\* The rows of the incident come in order.
LEMMA InOrderOrders ==
    ASSUME windows \in SUBSET Windows, IsFiniteSet(windows), NEW row, NEW now
    PROVE  /\ Cardinality(IncidentWindows(row, now)) \in Nat
           /\ Orders(IncidentWindows(row, now), Cardinality(IncidentWindows(row, now)),
                     InOrder(row, now))
  <1> DEFINE W == IncidentWindows(row, now)
             n == Cardinality(W)
  <1>1. W \in SUBSET windows /\ W \in SUBSET Windows
    BY DEF IncidentWindows
  <1>2. IsFiniteSet(W)
    BY <1>1, FS_Subset
  <1>3. n \in Nat
    BY <1>2, FS_CardinalityType
  <1>4. PICK rows : Orders(W, n, rows)
    <2> HIDE DEF W
    <2>1. QED
      BY <1>1, <1>2, OrderExists
  <1>5. rows \in SetToSeqs(W) /\ ByStart(rows)
    BY <1>4 DEF Orders, SetToSeqs, ByStart
  <1>6. InOrder(row, now) \in SetToSeqs(W) /\ ByStart(InOrder(row, now))
    BY <1>5 DEF InOrder
  <1> DEFINE order == InOrder(row, now)
  <1> HIDE DEF W, order
  <1>7. order \in [1..n -> W] /\ \A i, j \in 1..n : i # j => order[i] # order[j]
    BY <1>6 DEF SetToSeqs, order
  <1>8. \A w \in W : \E i \in 1..n : order[i] = w
    <2>1. IsFiniteSet(1..n) /\ Cardinality(1..n) = n
      BY <1>3, FS_Interval
    <2>2. order \in Injection(1..n, W)
      BY <1>7 DEF Injection, IsInjective
    <2>3. order \in Surjection(1..n, W)
      BY <1>2, <2>1, <2>2, FS_Injection
    <2>4. QED
      BY <2>3 DEF Surjection
  <1>9. \A i, j \in 1..n : i < j => order[i].startsAt <= order[j].startsAt
    BY <1>6, <1>7 DEF ByStart, order
  <1>10. QED
    BY <1>3, <1>7, <1>8, <1>9 DEF Orders, W, order

-----------------------------------------------------------------------------
\* How far the loop has come after each window.
IsCoverage(cover, row, rows, n) ==
    /\ cover[0] = None
    /\ \A k \in 1..n : cover[k] = CoverageAfter(row, cover[k - 1], rows[k])

LEMMA CoverageAfterType ==
    ASSUME NEW row, NEW c \in Nat \cup {None}, NEW w \in Windows
    PROVE  CoverageAfter(row, c, w) \in Nat \cup {None}
  BY WindowTimes DEF CoverageAfter

LEMMA WhollyContainedIsCoverage ==
    ASSUME windows \in SUBSET Windows, IsFiniteSet(windows), NEW row, NEW now,
           NEW W, W = IncidentWindows(row, now), NEW n, n = Cardinality(W)
    PROVE  \E rows, cover :
               /\ n \in Nat /\ Orders(W, n, rows) /\ IsCoverage(cover, row, rows, n)
               /\ WhollyContained(row, now) <=> cover[n] # None /\ cover[n] >= row.closedAt
  <1> DEFINE rows == InOrder(row, now)
             C == Nat \cup {None}
             G == [k \in 1..n |-> [c \in C |-> CoverageAfter(row, c, rows[k])]]
             IsIter(it) == it = [s \in SUBSET (DOMAIN rows) |->
                                    IF s = {} THEN None
                                    ELSE CoverageAfter(row, it[s \ {Max(s)}], rows[Max(s)])]
             iter == CHOOSE it : IsIter(it)
  <1>1. n \in Nat /\ Orders(W, n, rows)
    BY InOrderOrders
  <1>2. WhollyContained(row, now) <=>
            iter[DOMAIN rows] # None /\ iter[DOMAIN rows] >= row.closedAt
    BY DEF WhollyContained, FoldLeft, MapThenFoldSet
  <1> HIDE DEF rows
  <1>3. DOMAIN rows = 1..n /\ \A k \in 1..n : rows[k] \in Windows
    <2>1. rows \in [1..n -> W] /\ W \in SUBSET Windows
      BY <1>1 DEF Orders, IncidentWindows
    <2>2. QED
      BY <2>1
  <1>4. IsIter(iter)
    <2>1. G \in [1..n -> [C -> C]]
      BY <1>3, CoverageAfterType
    <2>2. PICK g \in [SUBSET (1..n) -> C] : IsFold(g, G, None, n)
      <3>1. None \in C /\ n \in Nat
        BY <1>1
      <3> HIDE DEF G, C, IsIter
      <3>2. QED
        BY ONLY <2>1, <3>1, FoldExists
    <2>3. ASSUME NEW s \in SUBSET (1..n)
          PROVE  g[s] = IF s = {} THEN None
                        ELSE CoverageAfter(row, g[s \ {Max(s)}], rows[Max(s)])
      <3>1. g[s] = IF s = {} THEN None ELSE G[Max(s)][g[s \ {Max(s)}]]
        BY <2>2 DEF IsFold
      <3>2. s # {} => Max(s) \in 1..n
        BY <1>1, MaxIsIn
      <3>3. s \ {Max(s)} \in SUBSET (1..n)
        OBVIOUS
      <3>4. g[s \ {Max(s)}] \in C
        BY <2>2, <3>3
      <3>5. s # {} => G[Max(s)][g[s \ {Max(s)}]]
                        = CoverageAfter(row, g[s \ {Max(s)}], rows[Max(s)])
        BY <3>2, <3>4
      <3>6. QED
        BY <3>1, <3>5
    <2>4. IsIter(g)
      BY <1>3, <2>2, <2>3
    <2>5. QED
      BY <2>4
  <1> HIDE DEF iter
  <1> DEFINE cover == [k \in 0..n |-> iter[1..k]]
  <1>5. cover[0] = None /\ cover[n] = iter[DOMAIN rows]
    <2>1. 0 \in 0..n /\ n \in 0..n /\ 1..0 = {}
      BY <1>1
    <2>2. iter[{}] = None
      BY <1>4
    <2>3. QED
      BY <1>3, <2>1, <2>2
  <1>6. ASSUME NEW k \in 1..n
        PROVE  cover[k] = CoverageAfter(row, cover[k - 1], rows[k])
    <2>1. /\ 1..k \in SUBSET (DOMAIN rows) /\ 1..k # {}
          /\ Max(1..k) = k /\ (1..k) \ {k} = 1..k-1
      BY <1>1, <1>3, Positions
    <2>2. iter[1..k] = CoverageAfter(row, iter[1..k-1], rows[k])
      BY <1>4, <2>1
    <2>3. k \in 0..n /\ k - 1 \in 0..n
      BY <1>1
    <2>4. QED
      BY <2>2, <2>3
  <1> HIDE DEF cover
  <1>7. IsCoverage(cover, row, rows, n)
    BY <1>5, <1>6 DEF IsCoverage
  <1>8. QED
    BY <1>1, <1>2, <1>5, <1>7

-----------------------------------------------------------------------------
\* A window holds a time.
Holds(w, t) == w.startsAt <= t /\ t < w.endsAt

\* What the loop knows after k windows: until it has begun, each came after the opening; then
\* they hold every time up to the coverage, and each has ended by it or comes after it.
Covers(cover, row, rows, k) ==
    /\ cover[k] = None => \A j \in 1..k : row.openedAt < rows[j].startsAt
    /\ cover[k] # None =>
         /\ cover[k] \in Nat /\ row.openedAt < cover[k]
         /\ \A t \in row.openedAt..cover[k]-1 : \E j \in 1..k : Holds(rows[j], t)
         /\ \A j \in 1..k : rows[j].endsAt <= cover[k] \/ cover[k] < rows[j].startsAt

LEMMA CoverageCovers ==
    ASSUME NEW W \in SUBSET Windows, NEW n \in Nat, NEW rows, Orders(W, n, rows),
           NEW row, row.openedAt \in Nat, \A w \in W : row.openedAt < w.endsAt,
           NEW cover, IsCoverage(cover, row, rows, n)
    PROVE  Covers(cover, row, rows, n)
  <1> DEFINE T == {k \in Nat : k <= n => Covers(cover, row, rows, k)}
  <1>1. 0 \in T
    BY DEF Covers, IsCoverage
  <1>2. ASSUME NEW k \in Nat, k \in T, k + 1 <= n PROVE Covers(cover, row, rows, k + 1)
    <2> DEFINE w == rows[k + 1]
               old == cover[k]
               new == cover[k + 1]
    <2>1. Covers(cover, row, rows, k)
      BY <1>2
    <2>2. k + 1 \in 1..n /\ (k + 1) - 1 = k
      BY <1>2
    <2>3. new = CoverageAfter(row, old, w)
      BY <2>2 DEF IsCoverage
    <2>4. /\ w \in W /\ w.startsAt \in Nat /\ w.endsAt \in Nat /\ w.startsAt < w.endsAt
          /\ row.openedAt < w.endsAt
      BY <2>2, WindowTimes DEF Orders
    <2>5. ASSUME NEW j \in 1..k
          PROVE  /\ rows[j].startsAt <= w.startsAt
                 /\ rows[j].startsAt \in Nat /\ rows[j].endsAt \in Nat
      <3>1. j \in 1..n /\ j < k + 1
        BY <1>2
      <3>2. rows[j] \in Windows
        BY <3>1 DEF Orders
      <3>3. QED
        BY <2>2, <3>1, <3>2, WindowTimes DEF Orders
    <2>6. \A j \in 1..k+1 : j = k + 1 \/ j \in 1..k
      OBVIOUS
    <2>7. k + 1 \in 1..k+1 /\ \A j \in 1..k : j \in 1..k+1
      OBVIOUS
    <2> HIDE DEF w, old, new
    <2>8. CASE old = None /\ w.startsAt > row.openedAt
      <3>1. new = None
        BY <2>3, <2>8 DEF CoverageAfter
      <3>2. \A j \in 1..k+1 : row.openedAt < rows[j].startsAt
        BY <2>1, <2>4, <2>6, <2>8 DEF Covers, w, old
      <3>3. QED
        BY <3>1, <3>2 DEF Covers, new
    <2>9. CASE old = None /\ ~(w.startsAt > row.openedAt)
      <3>1. new = w.endsAt /\ new # None
        BY <2>3, <2>4, <2>9, TimesAssumption DEF CoverageAfter
      <3>2. ASSUME NEW j \in 1..k PROVE FALSE
        <4>1. row.openedAt < rows[j].startsAt
          BY <2>1, <2>9 DEF Covers, old
        <4>2. QED
          BY <2>4, <2>5, <2>9, <4>1
      <3>3. \A t \in row.openedAt..new-1 : Holds(rows[k + 1], t)
        BY <2>4, <2>9, <3>1 DEF Holds, w
      <3>4. \A j \in 1..k+1 : rows[j].endsAt <= new
        BY <2>4, <2>6, <3>1, <3>2 DEF w
      <3>5. QED
        BY <2>4, <2>7, <3>1, <3>3, <3>4 DEF Covers, new
    <2>10. CASE old # None /\ ~(w.startsAt <= old)
      <3>1. new = old
        BY <2>3, <2>10 DEF CoverageAfter
      <3>2. /\ old \in Nat /\ row.openedAt < old
            /\ \A t \in row.openedAt..old-1 : \E j \in 1..k : Holds(rows[j], t)
            /\ \A j \in 1..k : rows[j].endsAt <= old \/ old < rows[j].startsAt
        BY <2>1, <2>10 DEF Covers, old
      <3>3. old < w.startsAt
        BY <2>4, <2>10, <3>2
      <3>4. \A j \in 1..k+1 : rows[j].endsAt <= new \/ new < rows[j].startsAt
        BY <2>6, <3>1, <3>2, <3>3 DEF w
      <3>5. \A t \in row.openedAt..new-1 : \E j \in 1..k+1 : Holds(rows[j], t)
        BY <2>7, <3>1, <3>2
      <3>6. QED
        BY <2>10, <3>1, <3>2, <3>4, <3>5 DEF Covers, new
    <2>11. CASE old # None /\ w.startsAt <= old
      <3>1. new = IF w.endsAt > old THEN w.endsAt ELSE old
        BY <2>3, <2>11 DEF CoverageAfter
      <3>2. /\ old \in Nat /\ row.openedAt < old
            /\ \A t \in row.openedAt..old-1 : \E j \in 1..k : Holds(rows[j], t)
            /\ \A j \in 1..k : rows[j].endsAt <= old \/ old < rows[j].startsAt
        BY <2>1, <2>11 DEF Covers, old
      <3>3. new \in Nat /\ old <= new /\ w.endsAt <= new /\ new # None
        BY <2>4, <3>1, <3>2, TimesAssumption
      <3>4. ASSUME NEW j \in 1..k PROVE rows[j].endsAt <= new
        BY <2>4, <2>5, <2>11, <3>2, <3>3
      <3>5. \A j \in 1..k+1 : rows[j].endsAt <= new
        BY <2>6, <3>3, <3>4 DEF w
      <3>6. ASSUME NEW t \in row.openedAt..new-1
            PROVE  \E j \in 1..k+1 : Holds(rows[j], t)
        <4>1. CASE t < old
          <5>1. t \in row.openedAt..old-1
            BY <3>2, <3>3, <4>1
          <5>2. QED
            BY <2>7, <3>2, <5>1
        <4>2. CASE ~(t < old)
          <5>1. Holds(w, t)
            BY <2>4, <2>11, <3>1, <3>2, <4>2 DEF Holds
          <5>2. QED
            BY <2>7, <5>1 DEF w
        <4>3. QED
          BY <4>1, <4>2
      <3>7. QED
        BY <3>2, <3>3, <3>5, <3>6 DEF Covers, new
    <2>12. QED
      BY <2>8, <2>9, <2>10, <2>11
  <1>3. ASSUME NEW k \in Nat, k \in T PROVE k + 1 \in T
    BY <1>2, <1>3
  <1>4. Nat \subseteq T
    <2> HIDE DEF T
    <2>1. QED
      BY <1>1, <1>3, Induction
  <1>5. n \in T
    BY <1>4
  <1>6. QED
    BY <1>5

-----------------------------------------------------------------------------
\* The types that what is heard depends on.
Types ==
    /\ clock \in Times
    /\ openedAt \in Times \cup {None}
    /\ closedAt \in Times \cup {None}
    /\ closedAt # None => openedAt # None
    /\ openedAt # None => openedAt <= clock
    /\ closedAt # None => closedAt <= clock
    /\ scrape.now \in {clock - 1, clock}
    /\ scrape.step \in {"idle", "begun", "incident", "transitions"}
    /\ scrape = [step |-> scrape.step, now |-> scrape.now, row |-> scrape.row,
                 transitions |-> scrape.transitions]

\* A scrape of time t that has read the incident, if it has, as an open one.
Hears(t) ==
    /\ scrape.now = t
    /\ scrape.step # "idle"
    /\ scrape.step # "begun" => scrape.row.openedAt = openedAt /\ scrape.row.closedAt = None

\* The incident is open, and no window is active, at t and until a scrape of t is over.
Audible(t) ==
    /\ openedAt # None
    /\ t \in Times
    /\ openedAt + CommitLag + 1 <= t
    /\ closedAt = None \/ t + 1 < closedAt
    /\ ~InWindow(t)

\* No scrape that begins when the incident is audible ends without it being heard; and
\* one begins in every tick.
HInv == \A t \in Times : Audible(t) /\ t <= scrape.now => alerted \/ Hears(t)

IInv == Types /\ HInv

-----------------------------------------------------------------------------
LEMMA TimeTypes ==
    ASSUME Types
    PROVE  /\ clock \in Nat /\ CommitLag \in Nat /\ MaxTime \in Nat
           /\ scrape.now \in Int /\ clock - 1 <= scrape.now /\ scrape.now <= clock
           /\ openedAt # None => openedAt \in Nat
           /\ closedAt # None => closedAt \in Nat /\ closedAt <= clock
  BY TimesAssumption DEF Types, Times

\* What becomes audible has been so.
LEMMA AudibleStays ==
    ASSUME HInv, UNCHANGED <<scrape, alerted>>,
           \A t \in Times : Audible(t)' /\ t <= scrape.now
                                => Audible(t) /\ openedAt' = openedAt
    PROVE  HInv'
  BY DEF HInv, Hears

-----------------------------------------------------------------------------
(***************************************************************************)
(* The incident, the windows and the clock.                                *)
(***************************************************************************)
LEMMA OpenStep ==
    ASSUME IInv, NEW severity, OpenIncident(severity)
    PROVE  IInv'
  <1>1. openedAt' \in Times /\ clock - CommitLag <= openedAt' /\ openedAt' <= clock
    BY DEF OpenIncident, RecordOpens, EvaluationTimes
  <1>2. openedAt' # None
    BY <1>1, TimesAssumption DEF Times
  <1>3. Types'
    BY <1>1, <1>2 DEF IInv, Types, OpenIncident, RecordOpens
  <1>4. ASSUME NEW t \in Times, Audible(t)'
        PROVE  ~(t <= scrape.now)
    <2>1. openedAt' + CommitLag + 1 <= t /\ t \in Nat /\ openedAt' \in Nat
      <3>1. openedAt' + CommitLag + 1 <= t
        BY <1>4 DEF Audible
      <3>2. t \in Nat /\ openedAt' \in Nat
        BY <1>1, TimesAssumption DEF Times
      <3>3. QED
        BY <3>1, <3>2
    <2>2. QED
      BY <1>1, <2>1, TimeTypes DEF IInv
  <1>5. HInv'
    BY <1>4, AudibleStays DEF IInv, OpenIncident, RecordOpens, heardVars
  <1>6. QED
    BY <1>3, <1>5 DEF IInv

LEMMA CloseStep ==
    ASSUME IInv, CloseIncident
    PROVE  IInv'
  <1>1. closedAt' \in Times /\ closedAt' <= clock /\ openedAt # None /\ closedAt = None
    BY DEF CloseIncident, RecordCloses, EvaluationTimes, IncidentOpen
  <1>2. Types'
    BY <1>1 DEF IInv, Types, CloseIncident, RecordCloses
  <1>3. \A t \in Times : Audible(t)' => Audible(t)
    BY <1>1 DEF Audible, InWindow, CloseIncident, RecordCloses
  <1>4. HInv'
    BY <1>3, AudibleStays DEF IInv, CloseIncident, RecordCloses, heardVars
  <1>5. QED
    BY <1>2, <1>4 DEF IInv

\* Neither a cause more or less nor a window more makes an incident audible.
LEMMA ChangeStep ==
    ASSUME IInv,
           \/ \E severity \in Severities : ChangeIncident(severity)
           \/ \E w \in Windows : CreateMaintenanceWindow(w)
    PROVE  IInv'
  <1>1. UNCHANGED <<clock, openedAt, closedAt, scrape, alerted>> /\ windows \subseteq windows'
    BY DEF ChangeIncident, RecordChanges, CreateMaintenanceWindow, incidentVars, heardVars
  <1>2. Types'
    BY <1>1 DEF IInv, Types
  <1>3. \A t \in Times : Audible(t)' => Audible(t)
    BY <1>1 DEF Audible, InWindow
  <1>4. HInv'
    BY <1>1, <1>3, AudibleStays DEF IInv
  <1>5. QED
    BY <1>2, <1>4 DEF IInv

LEMMA TickStep ==
    ASSUME IInv, Tick
    PROVE  IInv'
  <1>1. UNCHANGED <<windows, openedAt, closedAt, scrape, alerted>>
    BY DEF Tick, incidentVars, heardVars
  <1>2. clock' = clock + 1 /\ clock' \in Times /\ scrape.now = clock
    BY TimesAssumption DEF Tick, IInv, Types, Times
  <1>3. Types'
    BY <1>1, <1>2, TimeTypes DEF IInv, Types
  <1>4. \A t \in Times : Audible(t)' => Audible(t)
    BY <1>1 DEF Audible, InWindow
  <1>5. HInv'
    BY <1>1, <1>4, AudibleStays DEF IInv
  <1>6. QED
    BY <1>3, <1>5 DEF IInv

-----------------------------------------------------------------------------
(***************************************************************************)
(* A scrape.                                                               *)
(***************************************************************************)
\* The steps of a scrape leave what is audible.
LEMMA SameAudible ==
    ASSUME UNCHANGED <<clock, windows, incidentVars>>
    PROVE  \A t \in Times : Audible(t)' <=> Audible(t)
  BY DEF Audible, InWindow, incidentVars

LEMMA BeginStep ==
    ASSUME IInv, BeginScrape
    PROVE  IInv'
  <1>1. /\ scrape.step = "idle" /\ alerted' = alerted
        /\ UNCHANGED <<clock, windows, incidentVars>>
    BY DEF BeginScrape, heardVars
  <1>2. scrape' = [step |-> "begun", now |-> clock, row |-> NoRow, transitions |-> <<>>]
    BY DEF BeginScrape, Idle
  <1>3. Types'
    BY <1>1, <1>2 DEF IInv, Types, incidentVars
  <1>4. ASSUME NEW t \in Times, Audible(t), t <= clock
        PROVE  alerted \/ Hears(t)'
    <2>1. CASE t <= scrape.now
      BY <1>1, <1>4, <2>1 DEF IInv, HInv, Hears
    <2>2. CASE ~(t <= scrape.now)
      <3>1. t = clock
        BY <1>4, <2>2, TimeTypes, TimesAssumption DEF IInv, Times
      <3>2. QED
        BY <1>2, <3>1 DEF Hears
    <2>3. QED
      BY <2>1, <2>2
  <1>5. HInv'
    BY <1>1, <1>2, <1>4, SameAudible DEF HInv
  <1>6. QED
    BY <1>3, <1>5 DEF IInv

LEMMA ReadStep ==
    ASSUME IInv, ReadIncident \/ ReadTransitions
    PROVE  IInv'
  <1>1. alerted' = alerted /\ UNCHANGED <<clock, windows, incidentVars>>
    BY DEF ReadIncident, ReadTransitions, heardVars
  <1>2. CASE ReadIncident
    <2>1. PICK row : row = IF openedAt = None THEN NoRow
                           ELSE [openedAt |-> openedAt, closedAt |-> closedAt,
                                 severity |-> Last(transitions)]
      OBVIOUS
    <2>2. scrape.step = "begun"
      BY <1>2 DEF ReadIncident
    <2>3. scrape' = [step |-> "incident", now |-> scrape.now, row |-> row,
                     transitions |-> scrape.transitions]
      BY <1>2, <2>1 DEF ReadIncident, IInv, Types
    <2>4. Types'
      BY <1>1, <2>3 DEF IInv, Types, incidentVars
    <2>5. ASSUME NEW t \in Times, Audible(t), Hears(t)
          PROVE  Hears(t)'
      <3>1. openedAt # None /\ (closedAt = None \/ t + 1 < closedAt)
        BY <2>5 DEF Audible
      <3>2. t = scrape.now
        BY <2>5 DEF Hears
      <3>3. closedAt = None
        BY <3>1, <3>2, TimeTypes DEF IInv
      <3>4. row.openedAt = openedAt /\ row.closedAt = None
        BY <2>1, <3>1, <3>3
      <3>5. QED
        BY <1>1, <2>3, <3>2, <3>4 DEF Hears, incidentVars
    <2>6. HInv'
      BY <1>1, <2>3, <2>5, SameAudible DEF IInv, HInv
    <2>7. QED
      BY <2>4, <2>6 DEF IInv
  <1>3. CASE ReadTransitions
    <2>1. scrape' = [step |-> "transitions", now |-> scrape.now, row |-> scrape.row,
                     transitions |-> transitions]
      BY <1>3 DEF ReadTransitions, IInv, Types
    <2>2. Types'
      BY <1>1, <2>1 DEF IInv, Types, incidentVars
    <2>3. scrape.step = "incident"
      BY <1>3 DEF ReadTransitions
    <2>4. \A t \in Times : Hears(t) => Hears(t)'
      BY <1>1, <2>1, <2>3 DEF Hears, incidentVars
    <2>5. HInv'
      BY <1>1, <2>1, <2>4, SameAudible DEF IInv, HInv
    <2>6. QED
      BY <2>2, <2>5 DEF IInv
  <1>4. QED
    BY <1>2, <1>3

\* A scrape that has read an audible incident says so.
LEMMA AnswerStep ==
    ASSUME IInv, AnswerScrape
    PROVE  IInv'
  <1> DEFINE answer == Answer(scrape.row, scrape.transitions, scrape.now)
  <1>1. /\ scrape.step = "transitions" /\ alerted' = (alerted \/ answer.signal = "incident")
        /\ UNCHANGED <<clock, windows, incidentVars>>
        /\ scrape' = [step |-> "idle", now |-> scrape.now, row |-> NoRow, transitions |-> <<>>]
    BY DEF AnswerScrape, Idle
  <1>2. Types'
    BY <1>1 DEF IInv, Types, incidentVars
  <1>3. ASSUME NEW t \in Times, Audible(t), Hears(t)
        PROVE  answer.signal = "incident"
    <2>1. /\ scrape.row.openedAt # None /\ scrape.row.closedAt = None
          /\ scrape.now = t /\ ~InWindow(t)
      BY <1>1, <1>3 DEF Audible, Hears
    <2>2. ~ActiveWindow(scrape.row, scrape.now)
      BY <2>1 DEF ActiveWindow, IncidentWindows, InWindow
    <2>3. answer = Alert(scrape.row.severity, NotificationTransition(scrape.transitions))
      BY <2>1, <2>2 DEF Answer
    <2>4. QED
      BY <2>3 DEF Alert
  <1> HIDE DEF answer
  <1>4. HInv'
    BY <1>1, <1>3, SameAudible DEF IInv, HInv
  <1>5. QED
    BY <1>2, <1>4 DEF IInv

-----------------------------------------------------------------------------
THEOREM AlertsInit == Init => IInv
  <1> SUFFICES ASSUME Init PROVE IInv
    OBVIOUS
  <1>1. Types
    BY TimesAssumption DEF Init, RecordInit, Types, Times, Idle
  <1>2. HInv
    BY DEF Init, RecordInit, HInv, Audible
  <1>3. QED
    BY <1>1, <1>2 DEF IInv

THEOREM AlertsStep == IInv /\ [Next]_vars => IInv'
  <1> SUFFICES ASSUME IInv, [Next]_vars
               PROVE  IInv'
    OBVIOUS
  <1>1. CASE UNCHANGED vars
    BY <1>1 DEF vars, IInv, Types, HInv, Audible, InWindow, Hears, incidentVars, heardVars
  <1>2. CASE \E severity \in Severities : OpenIncident(severity)
    BY <1>2, OpenStep
  <1>3. CASE \/ \E severity \in Severities : ChangeIncident(severity)
             \/ \E w \in Windows : CreateMaintenanceWindow(w)
    BY <1>3, ChangeStep
  <1>4. CASE CloseIncident \/ Tick
    BY <1>4, CloseStep, TickStep
  <1>5. CASE BeginScrape \/ ReadIncident \/ ReadTransitions \/ AnswerScrape
    BY <1>5, BeginStep, ReadStep, AnswerStep
  <1>6. QED
    BY <1>1, <1>2, <1>3, <1>4, <1>5 DEF Next

\* An incident that is open, and in no window, when a scrape begins and until it is
\* over is heard, however late evaluations commit.
THEOREM IncidentHeard == Spec => []IncidentIsHeard
  <1>1. ASSUME IInv PROVE IncidentIsHeard
    <2>1. SUFFICES ASSUME openedAt # None,
                          NEW t \in (openedAt + CommitLag + 1)..(clock - 2),
                          closedAt = None \/ t + 1 < closedAt, ~InWindow(t)
                   PROVE  alerted
      BY DEF IncidentIsHeard
    <2>2. t \in Times /\ t < scrape.now /\ openedAt + CommitLag + 1 <= t
      BY <1>1, <2>1, TimeTypes DEF IInv, Types, Times
    <2>3. Audible(t)
      BY <2>1, <2>2 DEF Audible
    <2>4. t <= scrape.now /\ scrape.now # t
      BY <1>1, <2>2, TimeTypes, TimesAssumption DEF IInv, Times
    <2>5. QED
      BY <1>1, <2>2, <2>3, <2>4 DEF IInv, HInv, Hears
  <1>2. QED
    BY AlertsInit, AlertsStep, <1>1, PTL DEF Spec

-----------------------------------------------------------------------------
(***************************************************************************)
(* What the loop over the windows decides.                                 *)
(***************************************************************************)
\* The last time of an incident, which may close at the time it opened, or before.
LastTime(row) == IF row.openedAt < row.closedAt THEN row.closedAt - 1 ELSE row.openedAt

CoveredAt(row, t) ==
    \E w \in windows : w.startsAt < row.closedAt /\ row.openedAt < w.endsAt /\ Holds(w, t)

LEMMA ContainedMeansCovered ==
    ASSUME windows \in SUBSET Windows, IsFiniteSet(windows), NEW now,
           NEW row, row.openedAt \in Times, row.closedAt \in Times
    PROVE  WhollyContained(row, now) <=> \A t \in row.openedAt..LastTime(row) : CoveredAt(row, t)
  <1>1. PICK W, n : W = IncidentWindows(row, now) /\ n = Cardinality(W)
    OBVIOUS
  <1>2. PICK rows, cover :
            /\ n \in Nat /\ Orders(W, n, rows) /\ IsCoverage(cover, row, rows, n)
            /\ WhollyContained(row, now) <=> cover[n] # None /\ cover[n] >= row.closedAt
    BY <1>1, WhollyContainedIsCoverage
  <1>3. row.openedAt \in Nat /\ row.closedAt \in Nat /\ row.closedAt # None
    BY TimesAssumption DEF Times
  <1>4. W = {w \in windows : w.startsAt < row.closedAt /\ row.openedAt < w.endsAt}
    <2>1. \A w \in windows : w.endsAt \in Nat
      BY WindowTimes
    <2>2. QED
      BY <1>1, <1>3, <2>1 DEF IncidentWindows
  <1>5. W \in SUBSET Windows
    BY <1>4
  <1>6. Covers(cover, row, rows, n)
    BY <1>2, <1>3, <1>4, <1>5, CoverageCovers
  <1>7. ASSUME cover[n] # None, cover[n] >= row.closedAt, NEW t \in row.openedAt..LastTime(row)
        PROVE  CoveredAt(row, t)
    <2>1. t \in row.openedAt..cover[n]-1
      BY <1>3, <1>6, <1>7 DEF Covers, LastTime
    <2>2. PICK j \in 1..n : Holds(rows[j], t)
      BY <1>6, <1>7, <2>1 DEF Covers
    <2>3. rows[j] \in W
      BY <1>2 DEF Orders
    <2>4. QED
      BY <1>4, <2>2, <2>3 DEF CoveredAt
  <1>8. ASSUME \A t \in row.openedAt..LastTime(row) : CoveredAt(row, t)
        PROVE  cover[n] # None /\ cover[n] >= row.closedAt
    <2>1. ASSUME NEW t \in row.openedAt..LastTime(row)
          PROVE  \E j \in 1..n : Holds(rows[j], t)
      <3>1. PICK w \in W : Holds(w, t)
        BY <1>4, <1>8 DEF CoveredAt
      <3>2. QED
        BY <1>2, <3>1 DEF Orders
    <2>2. \A j \in 1..n : rows[j].startsAt \in Nat /\ rows[j].endsAt \in Nat
      BY <1>2, <1>5, WindowTimes DEF Orders
    <2>3. cover[n] # None
      <3>1. row.openedAt \in row.openedAt..LastTime(row)
        BY <1>3 DEF LastTime
      <3>2. PICK j \in 1..n : Holds(rows[j], row.openedAt)
        BY <2>1, <3>1
      <3>3. ~(row.openedAt < rows[j].startsAt)
        BY <1>3, <2>2, <3>2 DEF Holds
      <3>4. QED
        BY <1>6, <3>3 DEF Covers
    <2>4. ASSUME ~(cover[n] >= row.closedAt) PROVE FALSE
      <3>1. cover[n] \in Nat /\ row.openedAt < cover[n]
        BY <1>6, <2>3 DEF Covers
      <3>2. cover[n] \in row.openedAt..LastTime(row)
        BY <1>3, <2>4, <3>1 DEF LastTime
      <3>3. PICK j \in 1..n : Holds(rows[j], cover[n])
        BY <2>1, <3>2
      <3>4. rows[j].endsAt <= cover[n] \/ cover[n] < rows[j].startsAt
        BY <1>6, <2>3 DEF Covers
      <3>5. QED
        BY <2>2, <3>1, <3>3, <3>4 DEF Holds
    <2>5. QED
      BY <2>3, <2>4
  <1>9. QED
    BY <1>2, <1>7, <1>8

-----------------------------------------------------------------------------
(***************************************************************************)
(* Types, and what a scrape under way has read.                            *)
(***************************************************************************)
RowsOK ==
    /\ openedAt # None => transitions # <<>>
    /\ closedAt = None => transitions \in Seq(Severities)
    /\ scrape.row.openedAt # None =>
         /\ openedAt # None
         /\ scrape.step = "transitions" => scrape.transitions # <<>>
         /\ scrape.row.closedAt = None => scrape.row.severity \in Severities

TInv == TypeOK /\ RowsOK /\ IsFiniteSet(windows)

LEMMA AnswerType ==
    ASSUME TInv, scrape.step = "transitions"
    PROVE  Answer(scrape.row, scrape.transitions, scrape.now) \in Answers
  <1>1. /\ scrape.row.openedAt # None => scrape.transitions # <<>>
        /\ scrape.row.openedAt # None /\ scrape.row.closedAt = None
               => scrape.row.severity \in Severities
        /\ scrape.transitions \in Seq(Severities \cup {"Healthy"})
    BY DEF TInv, RowsOK, TypeOK, Scrape
  <1>2. scrape.row.openedAt # None
            => NotificationTransition(scrape.transitions) \in {"opening", "escalation", "improvement"}
    BY <1>1, NotificationType
  <1>3. QED
    BY <1>1, <1>2 DEF Answer, Answers, Silence, Recovery, Alert

LEMMA TInvStep ==
    ASSUME TInv, [Next]_vars
    PROVE  TInv'
  <1> USE DEF TInv
  <1>1. CASE UNCHANGED vars
    BY <1>1 DEF vars, TypeOK, RowsOK, incidentVars, heardVars
  <1>2. ASSUME NEW severity \in Severities, OpenIncident(severity)
        PROVE  TInv'
    <2>1. /\ openedAt' \in Times /\ closedAt = None /\ transitions' = <<severity>>
          /\ UNCHANGED <<clock, windows, closedAt, scrape, alerted, recovered, heard>>
      BY <1>2 DEF OpenIncident, RecordOpens, EvaluationTimes, heardVars, TypeOK
    <2>2. transitions' \in Seq(Severities) /\ transitions' # <<>>
      BY <2>1
    <2>3. transitions' \in Seq(Severities \cup {"Healthy"})
      BY <2>1
    <2>4. openedAt' # None
      BY <2>1, TimesAssumption DEF Times
    <2>5. QED
      BY <2>1, <2>2, <2>3, <2>4 DEF TypeOK, RowsOK
  <1>3. ASSUME NEW severity \in Severities, ChangeIncident(severity)
        PROVE  TInv'
    <2>1. /\ openedAt # None /\ closedAt = None /\ transitions' = Append(transitions, severity)
          /\ UNCHANGED <<clock, windows, openedAt, closedAt, scrape, alerted, recovered, heard>>
      BY <1>3 DEF ChangeIncident, RecordChanges, IncidentOpen, heardVars
    <2>2. transitions \in Seq(Severities)
      BY <2>1 DEF RowsOK
    <2>3. transitions' \in Seq(Severities) /\ transitions' # <<>>
      BY <2>1, <2>2
    <2>4. transitions' \in Seq(Severities \cup {"Healthy"})
      BY <2>1 DEF TypeOK
    <2>5. QED
      BY <2>1, <2>3, <2>4 DEF TypeOK, RowsOK
  <1>4. CASE CloseIncident
    <2>1. /\ openedAt # None /\ closedAt' \in Times /\ transitions' = Append(transitions, "Healthy")
          /\ UNCHANGED <<clock, windows, openedAt, scrape, alerted, recovered, heard>>
      BY <1>4 DEF CloseIncident, RecordCloses, IncidentOpen, EvaluationTimes, heardVars
    <2>2. closedAt' # None
      BY <2>1, TimesAssumption DEF Times
    <2>3. transitions' \in Seq(Severities \cup {"Healthy"}) /\ transitions' # <<>>
      BY <2>1 DEF TypeOK
    <2>4. QED
      BY <2>1, <2>2, <2>3 DEF TypeOK, RowsOK
  <1>5. ASSUME NEW w \in Windows, CreateMaintenanceWindow(w)
        PROVE  TInv'
    <2>1. IsFiniteSet(windows \cup {w})
      BY FS_AddElement
    <2>2. QED
      BY <1>5, <2>1 DEF CreateMaintenanceWindow, TypeOK, RowsOK, incidentVars, heardVars
  <1>6. CASE BeginScrape
    <2>1. /\ scrape' = [step |-> "begun", now |-> clock, row |-> NoRow, transitions |-> <<>>]
          /\ UNCHANGED <<clock, windows, openedAt, closedAt, transitions,
                         alerted, recovered, heard>>
      BY <1>6 DEF BeginScrape, Idle, incidentVars, heardVars
    <2>2. scrape' \in Scrape
      BY <2>1 DEF Scrape, Row, NoRow, TypeOK
    <2>3. scrape'.row.openedAt = None
      BY <2>1 DEF NoRow
    <2>4. QED
      BY <2>1, <2>2, <2>3 DEF TypeOK, RowsOK
  <1>7. CASE ReadIncident
    <2>1. UNCHANGED <<clock, windows, openedAt, closedAt, transitions, alerted, recovered, heard>>
      BY <1>7 DEF ReadIncident, incidentVars, heardVars
    <2>2. PICK row : row = IF openedAt = None THEN NoRow
                           ELSE [openedAt |-> openedAt, closedAt |-> closedAt,
                                 severity |-> Last(transitions)]
      OBVIOUS
    <2>3. scrape' = [step |-> "incident", now |-> scrape.now, row |-> row,
                     transitions |-> scrape.transitions]
      BY <1>7, <2>2 DEF ReadIncident, TypeOK, Scrape
    <2>4. openedAt # None =>
              /\ Last(transitions) \in Severities \cup {"Healthy"}
              /\ closedAt = None => Last(transitions) \in Severities
      BY DEF RowsOK, TypeOK, Last
    <2>5. row \in Row /\ (row.openedAt # None => openedAt # None)
          /\ (row.openedAt # None /\ row.closedAt = None => row.severity \in Severities)
      BY <2>2, <2>4 DEF Row, NoRow, TypeOK
    <2>6. scrape' \in Scrape
      BY <2>3, <2>5 DEF Scrape, TypeOK
    <2>7. QED
      BY <2>1, <2>3, <2>5, <2>6 DEF TypeOK, RowsOK
  <1>8. CASE ReadTransitions
    <2>1. UNCHANGED <<clock, windows, openedAt, closedAt, transitions, alerted, recovered, heard>>
      BY <1>8 DEF ReadTransitions, incidentVars, heardVars
    <2>2. scrape' = [step |-> "transitions", now |-> scrape.now, row |-> scrape.row,
                     transitions |-> transitions]
      BY <1>8 DEF ReadTransitions, TypeOK, Scrape
    <2>3. scrape' \in Scrape
      BY <2>2 DEF Scrape, TypeOK
    <2>4. QED
      BY <2>1, <2>2, <2>3 DEF TypeOK, RowsOK
  <1>9. CASE AnswerScrape
    <2>1. /\ UNCHANGED <<clock, windows, openedAt, closedAt, transitions>>
          /\ scrape.step = "transitions"
          /\ scrape' = [step |-> "idle", now |-> scrape.now, row |-> NoRow, transitions |-> <<>>]
          /\ alerted' \in BOOLEAN /\ recovered' \in BOOLEAN
          /\ heard' = Answer(scrape.row, scrape.transitions, scrape.now)
      BY <1>9 DEF AnswerScrape, Idle, incidentVars
    <2>2. heard' \in Answers
      BY <2>1, AnswerType
    <2>3. scrape' \in Scrape
      BY <2>1 DEF Scrape, Row, NoRow, TypeOK
    <2>4. scrape'.row.openedAt = None
      BY <2>1 DEF NoRow
    <2>5. QED
      BY <2>1, <2>2, <2>3, <2>4 DEF TypeOK, RowsOK
  <1>10. CASE Tick
    <2>1. clock' \in Times
      BY <1>10, TimesAssumption DEF Tick, TypeOK, Times
    <2>2. QED
      BY <1>10, <2>1 DEF Tick, TypeOK, RowsOK, incidentVars, heardVars
  <1>11. QED
    BY <1>1, <1>2, <1>3, <1>4, <1>5, <1>6, <1>7, <1>8, <1>9, <1>10 DEF Next

LEMMA TInvInit ==
    ASSUME Init
    PROVE  TInv
  <1>1. IsFiniteSet(windows)
    BY FS_EmptySet DEF Init, RecordInit
  <1>2. scrape \in Scrape /\ scrape.row.openedAt = None
    BY DEF Init, RecordInit, Idle, Scrape, Row, NoRow
  <1>3. transitions \in Seq(Severities) /\ transitions \in Seq(Severities \cup {"Healthy"})
    BY DEF Init, RecordInit
  <1>4. clock \in Times /\ windows \in SUBSET Windows /\ openedAt = None /\ closedAt = None
    BY TimesAssumption DEF Init, RecordInit, Times
  <1>5. /\ alerted \in BOOLEAN /\ recovered \in BOOLEAN
        /\ heard \in Answers
    <2>1. alerted \in BOOLEAN /\ recovered \in BOOLEAN
      BY DEF Init, RecordInit
    <2>2. heard \in Answers
      BY DEF Init, RecordInit, Answers
    <2>3. QED
      BY <2>1, <2>2
  <1>6. QED
    BY <1>1, <1>2, <1>3, <1>4, <1>5 DEF TInv, TypeOK, RowsOK

\* Types, of what is heard too.
THEOREM TypeCorrect == Spec => []TypeOK
  <1>1. TInv => TypeOK
    BY DEF TInv
  <1>2. QED
    BY TInvInit, TInvStep, <1>1, PTL DEF Spec

\* For any number of windows, however they nest, meet or overlap: the loop finds an incident
\* contained exactly if they cover every moment of it.
THEOREM ContainmentIsCovered == Spec => []ContainmentIsCoverage
  <1>1. ASSUME TInv PROVE ContainmentIsCoverage
    <2>1. SUFFICES ASSUME closedAt # None, openedAt < closedAt
                   PROVE  WhollyContained(TheIncident, clock)
                          <=> \A t \in openedAt..(closedAt - 1) : InWindow(t)
      BY DEF ContainmentIsCoverage
    <2>2. openedAt \in Times /\ closedAt \in Times /\ openedAt \in Nat /\ closedAt \in Nat
      BY <1>1, <2>1, TimesAssumption DEF TInv, TypeOK, Times
    <2>3. PICK row : row = TheIncident
      OBVIOUS
    <2>4. row.openedAt = openedAt /\ row.closedAt = closedAt /\ LastTime(row) = closedAt - 1
      BY <2>1, <2>3 DEF TheIncident, LastTime
    <2>5. WhollyContained(row, clock) <=> \A t \in openedAt..(closedAt - 1) : CoveredAt(row, t)
      BY <1>1, <2>2, <2>4, ContainedMeansCovered DEF TInv, TypeOK
    <2>6. ASSUME NEW t \in openedAt..(closedAt - 1) PROVE CoveredAt(row, t) <=> InWindow(t)
      <3>1. \A w \in windows : w.startsAt \in Nat /\ w.endsAt \in Nat
        BY <1>1, WindowTimes DEF TInv, TypeOK
      <3>2. QED
        BY <2>2, <2>4, <3>1 DEF CoveredAt, InWindow, Holds
    <2>7. QED
      BY <2>3, <2>5, <2>6
  <1>2. QED
    BY TInvInit, TInvStep, <1>1, PTL DEF Spec

\* A row of transitions that repeats the severity leaves what the alert is told apart by.
THEOREM CauseChangesSilent == Spec => CauseChangesStaySilent
  <1>1. ASSUME TInv, [Next]_vars
        PROVE  [IncidentOpen /\ closedAt' = None /\ Last(transitions') = Last(transitions)
                => NotificationTransition(transitions') = NotificationTransition(transitions)]_vars
    <2> SUFFICES ASSUME IncidentOpen, closedAt' = None, Last(transitions') = Last(transitions)
                 PROVE  NotificationTransition(transitions') = NotificationTransition(transitions)
      OBVIOUS
    <2>1. CASE UNCHANGED transitions
      BY <2>1
    <2>2. ASSUME NEW severity \in Severities, ChangeIncident(severity)
          PROVE  NotificationTransition(transitions') = NotificationTransition(transitions)
      <3>1. /\ transitions' = Append(transitions, severity)
            /\ transitions \in Seq(Severities \cup {"Healthy"}) /\ transitions # <<>>
        BY <1>1, <2>2 DEF ChangeIncident, RecordChanges, IncidentOpen, TInv, TypeOK, RowsOK
      <3>2. severity = Last(transitions)
        BY <3>1 DEF Last
      <3>3. QED
        BY <3>1, <3>2, SameSeverity
    <2>3. ~CloseIncident
      <3>1. CloseIncident => closedAt' \in Times
        BY DEF CloseIncident, RecordCloses, EvaluationTimes
      <3>2. QED
        BY <3>1, TimesAssumption DEF Times
    <2>4. \A severity \in Severities : ~OpenIncident(severity)
      BY DEF OpenIncident, RecordOpens, IncidentOpen
    <2>5. QED
      BY <1>1, <2>1, <2>2, <2>3, <2>4 DEF Next, vars, incidentVars, CreateMaintenanceWindow,
         BeginScrape, ReadIncident, ReadTransitions, AnswerScrape, Tick
  <1>2. QED
    BY TInvInit, TInvStep, <1>1, PTL DEF Spec, CauseChangesStaySilent

-----------------------------------------------------------------------------
(***************************************************************************)
(* The recovery.                                                           *)
(***************************************************************************)
\* The incident has closed, a scrape of t would still say so, and no window is active at t.
Recoverable(t) ==
    /\ closedAt # None
    /\ t \in Times
    /\ closedAt + CommitLag + 1 <= t /\ t <= closedAt + RecoverySeconds
    /\ ~InWindow(t)

\* A scrape of time t that has read the incident, if it has, as closed.
HearsRecovery(t) ==
    /\ scrape.now = t
    /\ scrape.step # "idle"
    /\ scrape.step # "begun" =>
           scrape.row.openedAt = openedAt /\ scrape.row.closedAt = closedAt

\* At each of its moments a window that overlaps the incident is active.
IncidentCovered == \A t \in openedAt..LastTime(TheIncident) : CoveredAt(TheIncident, t)

\* No scrape that begins when the recovery is to be heard ends without it, unless it found
\* the incident contained; and contained it stays.
RInv ==
    \A t \in Times : Recoverable(t) /\ t <= scrape.now =>
                         recovered \/ IncidentCovered \/ HearsRecovery(t)

RecoveryInv == Types /\ TInv /\ RInv

\* Of the incident only when it opened and closed counts.
LEMMA ContainedIsCovered ==
    ASSUME Types, TInv, closedAt # None, NEW row, NEW now,
           row.openedAt = openedAt, row.closedAt = closedAt
    PROVE  WhollyContained(row, now) <=> IncidentCovered
  <1>1. row.openedAt \in Times /\ row.closedAt \in Times
    BY DEF Types
  <1>2. WhollyContained(row, now) <=> \A t \in row.openedAt..LastTime(row) : CoveredAt(row, t)
    BY <1>1, ContainedMeansCovered DEF TInv, TypeOK
  <1>3. LastTime(row) = LastTime(TheIncident)
    BY DEF LastTime, TheIncident
  <1>4. \A t : CoveredAt(row, t) <=> CoveredAt(TheIncident, t)
    BY DEF CoveredAt, TheIncident
  <1>5. QED
    BY <1>2, <1>3, <1>4 DEF IncidentCovered

\* More windows cover no less.
LEMMA CoveredStays ==
    ASSUME windows \subseteq windows', UNCHANGED <<openedAt, closedAt>>
    PROVE  /\ IncidentCovered => IncidentCovered'
           /\ \A t \in Times : Recoverable(t)' => Recoverable(t)
  BY DEF IncidentCovered, CoveredAt, TheIncident, LastTime, Recoverable, InWindow

LEMMA RInvStep ==
    ASSUME RecoveryInv, [Next]_vars
    PROVE  RInv'
  <1> USE DEF RecoveryInv
  <1>1. CASE UNCHANGED vars \/ Tick
    <2>1. UNCHANGED <<windows, openedAt, closedAt, scrape, recovered>>
      BY <1>1 DEF vars, Tick, incidentVars, heardVars
    <2>2. QED
      BY <2>1, CoveredStays DEF RInv, HearsRecovery
  <1>2. ASSUME NEW severity \in Severities, OpenIncident(severity)
        PROVE  RInv'
    <2>1. openedAt = None /\ closedAt' = closedAt
      BY <1>2 DEF OpenIncident, RecordOpens
    <2>2. closedAt' = None
      BY <2>1 DEF Types
    <2>3. QED
      BY <2>2 DEF RInv, Recoverable
  <1>3. ASSUME NEW severity \in Severities, ChangeIncident(severity)
        PROVE  RInv'
    <2>1. closedAt' = None
      BY <1>3 DEF ChangeIncident, RecordChanges, IncidentOpen
    <2>2. QED
      BY <2>1 DEF RInv, Recoverable
  <1>4. CASE CloseIncident
    <2>1. /\ closedAt' \in Times /\ clock - CommitLag <= closedAt' /\ closedAt' <= clock
          /\ UNCHANGED <<clock, scrape>>
      BY <1>4 DEF CloseIncident, RecordCloses, EvaluationTimes
    <2>2. ASSUME NEW t \in Times, Recoverable(t)', t <= scrape'.now PROVE FALSE
      <3>1. closedAt' + CommitLag + 1 <= t
        BY <2>2 DEF Recoverable
      <3>2. t \in Nat /\ closedAt' \in Nat
        BY <2>1, TimesAssumption DEF Times
      <3>3. QED
        BY <2>1, <2>2, <3>1, <3>2, TimeTypes
    <2>3. QED
      BY <2>2 DEF RInv
  <1>5. ASSUME NEW w \in Windows, CreateMaintenanceWindow(w)
        PROVE  RInv'
    <2>1. /\ windows \subseteq windows'
          /\ UNCHANGED <<openedAt, closedAt, scrape, recovered>>
      BY <1>5 DEF CreateMaintenanceWindow, incidentVars, heardVars
    <2>2. QED
      BY <2>1, CoveredStays DEF RInv, HearsRecovery
  <1>6. CASE BeginScrape
    <2>1. /\ scrape.step = "idle"
          /\ scrape' = [step |-> "begun", now |-> clock, row |-> NoRow, transitions |-> <<>>]
          /\ UNCHANGED <<windows, openedAt, closedAt, recovered>>
      BY <1>6 DEF BeginScrape, Idle, incidentVars, heardVars
    <2>2. ASSUME NEW t \in Times, Recoverable(t), t <= clock
          PROVE  recovered \/ IncidentCovered \/ HearsRecovery(t)'
      <3>1. CASE t <= scrape.now
        BY <2>1, <2>2, <3>1 DEF RInv, HearsRecovery
      <3>2. CASE ~(t <= scrape.now)
        <4>1. t = clock
          BY <2>2, <3>2, TimeTypes, TimesAssumption DEF Times
        <4>2. QED
          BY <2>1, <4>1 DEF HearsRecovery
      <3>3. QED
        BY <3>1, <3>2
    <2>3. QED
      BY <2>1, <2>2, CoveredStays DEF RInv
  <1>7. CASE ReadIncident
    <2>1. UNCHANGED <<windows, openedAt, closedAt, recovered>>
      BY <1>7 DEF ReadIncident, incidentVars, heardVars
    <2>2. PICK row : row = IF openedAt = None THEN NoRow
                           ELSE [openedAt |-> openedAt, closedAt |-> closedAt,
                                 severity |-> Last(transitions)]
      OBVIOUS
    <2>3. scrape' = [step |-> "incident", now |-> scrape.now, row |-> row,
                     transitions |-> scrape.transitions]
      BY <1>7, <2>2 DEF ReadIncident, Types
    <2>4. ASSUME NEW t \in Times, Recoverable(t), HearsRecovery(t)
          PROVE  HearsRecovery(t)'
      <3>1. openedAt # None
        BY <2>4 DEF Recoverable, Types
      <3>2. row.openedAt = openedAt /\ row.closedAt = closedAt
        BY <2>2, <3>1
      <3>3. QED
        BY <2>1, <2>3, <2>4, <3>2 DEF HearsRecovery
    <2>5. QED
      BY <2>1, <2>3, <2>4, CoveredStays DEF RInv
  <1>8. CASE ReadTransitions
    <2>1. /\ scrape.step = "incident"
          /\ UNCHANGED <<windows, openedAt, closedAt, recovered>>
      BY <1>8 DEF ReadTransitions, incidentVars, heardVars
    <2>2. scrape' = [step |-> "transitions", now |-> scrape.now, row |-> scrape.row,
                     transitions |-> transitions]
      BY <1>8 DEF ReadTransitions, Types
    <2>3. \A t \in Times : HearsRecovery(t) => HearsRecovery(t)'
      BY <2>1, <2>2 DEF HearsRecovery
    <2>4. QED
      BY <2>1, <2>2, <2>3, CoveredStays DEF RInv
  <1>9. CASE AnswerScrape
    <2> DEFINE answer == Answer(scrape.row, scrape.transitions, scrape.now)
    <2>1. /\ scrape.step = "transitions"
          /\ recovered' = (recovered \/ answer.signal = "recovery")
          /\ scrape' = [step |-> "idle", now |-> scrape.now, row |-> NoRow, transitions |-> <<>>]
          /\ UNCHANGED <<windows, openedAt, closedAt>>
      BY <1>9 DEF AnswerScrape, Idle, incidentVars
    <2>2. ASSUME NEW t \in Times, Recoverable(t), HearsRecovery(t), ~IncidentCovered
          PROVE  answer.signal = "recovery"
      <3>1. /\ scrape.row.openedAt = openedAt /\ scrape.row.closedAt = closedAt
            /\ scrape.now = t
        BY <2>1, <2>2 DEF HearsRecovery
      <3>2. openedAt # None /\ closedAt # None /\ t <= closedAt + RecoverySeconds /\ ~InWindow(t)
        BY <2>2 DEF Recoverable, Types
      <3>3. ~ActiveWindow(scrape.row, scrape.now)
        BY <3>1, <3>2 DEF ActiveWindow, IncidentWindows, InWindow
      <3>4. ~WhollyContained(scrape.row, scrape.now)
        BY <2>2, <3>1, <3>2, ContainedIsCovered
      <3>5. JustClosed(scrape.row, scrape.now)
        <4>1. closedAt \in Nat /\ t \in Nat
          BY <3>2, TimesAssumption DEF Types, Times
        <4>2. QED
          BY <3>1, <3>2, <4>1, TimesAssumption DEF JustClosed
      <3>6. answer = Recovery
        BY <3>1, <3>2, <3>3, <3>4, <3>5 DEF Answer
      <3>7. QED
        BY <3>6 DEF Recovery
    <2> HIDE DEF answer
    <2>3. QED
      BY <2>1, <2>2, CoveredStays DEF RInv
  <1>10. QED
    BY <1>1, <1>2, <1>3, <1>4, <1>5, <1>6, <1>7, <1>8, <1>9 DEF Next

\* The recovery of an incident is heard unless windows cover it, or one is active at each
\* moment at which the recovery could have been; whatever is declared meanwhile.
THEOREM RecoveryHeard == Spec => []RecoveryIsHeard
  <1>1. Init => RInv
    BY DEF Init, RecordInit, RInv, Recoverable
  <1>2. ASSUME IInv, TInv, RInv PROVE RecoveryIsHeard
    <2>1. SUFFICES ASSUME closedAt # None, clock > closedAt + RecoverySeconds + 1,
                          ~WhollyContained(TheIncident, clock),
                          NEW t \in (closedAt + CommitLag + 1)..(closedAt + RecoverySeconds),
                          ~InWindow(t)
                   PROVE  recovered
      BY DEF RecoveryIsHeard
    <2>2. closedAt \in Nat
      BY <1>2, <2>1, TimeTypes DEF IInv
    <2>3. /\ t \in Times /\ t <= scrape.now /\ t # scrape.now
          /\ closedAt + CommitLag + 1 <= t /\ t <= closedAt + RecoverySeconds
      BY <1>2, <2>1, <2>2, TimeTypes, TimesAssumption DEF IInv, Types, Times
    <2>4. Recoverable(t)
      BY <2>1, <2>3 DEF Recoverable
    <2>5. ~IncidentCovered
      BY <1>2, <2>1, ContainedIsCovered DEF IInv, TheIncident
    <2>6. QED
      BY <1>2, <2>3, <2>4, <2>5 DEF RInv, HearsRecovery
  <1>3. ASSUME IInv, TInv, RInv, [Next]_vars PROVE RInv'
    BY <1>3, RInvStep DEF RecoveryInv, IInv
  <1>4. QED
    BY AlertsInit, AlertsStep, TInvInit, TInvStep, <1>1, <1>2, <1>3, PTL DEF Spec
=============================================================================
