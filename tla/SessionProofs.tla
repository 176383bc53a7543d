----------------------------- MODULE SessionProofs -----------------------------
(***************************************************************************)
(* What update (features/session.py) makes of the histories, for any log,   *)
(* any number of clients and any limits.  The code keeps a compacted         *)
(* history and forgets the clients it has no room for; the lemmas below say  *)
(* that nothing is lost by it: what is kept is what an unbounded record of   *)
(* the session would give.                                                  *)
(***************************************************************************)
EXTENDS SessionFeatureState, FiniteSetTheorems, SequenceTheorems, WellFoundedInduction, TLAPS

-----------------------------------------------------------------------------
(* A set of numbers has a least one. *)
LEMMA Least ==
  ASSUME NEW T \in SUBSET Nat, T # {}
  PROVE  \E n \in T : \A k \in T : n <= k
<1>1. PICK n \in T : \A k \in T : ~(<<k, n>> \in OpToRel(<, Nat))
  BY NatLessThanWellFounded, WFMin
<1>2. \A k \in T : ~(k < n)
  BY <1>1 DEF OpToRel
<1> QED BY <1>2

(* Any part of the positions of a log is finite. *)
LEMMA PositionsFinite ==
  ASSUME NEW n \in Nat, NEW T \in SUBSET (1..n)
  PROVE  IsFiniteSet(T) /\ Cardinality(T) \in Nat
<1>1. IsFiniteSet(1..n)
  BY FS_Interval
<1>2. IsFiniteSet(T)
  BY <1>1, FS_Subset
<1> QED BY <1>2, FS_CardinalityType

(* A set of positions has a last one. *)
LEMMA LastPosition ==
  ASSUME NEW n \in Nat, NEW T \in SUBSET (1..n), T # {}
  PROVE  \E i \in T : \A j \in T : j <= i
<1> DEFINE D == {n - i : i \in T}
<1>1. \A i \in T : n - i \in Nat
  OBVIOUS
<1>2. D \in SUBSET Nat /\ D # {}
  BY <1>1, Zenon
<1>3. PICK d \in D : \A k \in D : d <= k
  BY <1>2, Least
<1>4. PICK i \in T : d = n - i
  OBVIOUS
<1>5. \A j \in T : n - j \in D
  OBVIOUS
<1>6. \A j \in T : j <= i
  BY <1>3, <1>4, <1>5
<1> QED BY <1>6

(* The elements of a sequence are no more than it is long, and as many if they
   are distinct. *)
LEMMA ElementsCounted ==
  ASSUME NEW S, NEW s \in Seq(S)
  PROVE  /\ IsFiniteSet(Elements(s))
         /\ Cardinality(Elements(s)) \in Nat
         /\ Cardinality(Elements(s)) <= Len(s)
         /\ (\A k, l \in DOMAIN s : s[k] = s[l] => k = l) => Cardinality(Elements(s)) = Len(s)
<1>1. DOMAIN s = 1..Len(s) /\ Len(s) \in Nat
  OBVIOUS
<1>2. IsFiniteSet(1..Len(s)) /\ Cardinality(1..Len(s)) = Len(s)
  BY <1>1, FS_Interval
<1> DEFINE f == [k \in 1..Len(s) |-> s[k]]
<1>3. f \in Surjection(1..Len(s), Elements(s))
  BY <1>1 DEF Surjection, Elements
<1>4. /\ IsFiniteSet(Elements(s))
      /\ Cardinality(Elements(s)) <= Len(s)
      /\ Cardinality(Elements(s)) = Len(s) <=> f \in Injection(1..Len(s), Elements(s))
  BY <1>2, <1>3, FS_Surjection
<1>5. ASSUME \A k, l \in DOMAIN s : s[k] = s[l] => k = l
      PROVE  f \in Injection(1..Len(s), Elements(s))
  BY <1>1, <1>3, <1>5 DEF Injection, Surjection, IsInjective
<1> QED BY <1>4, <1>5, FS_CardinalityType

-----------------------------------------------------------------------------
(* The order of a history: by timestamp, and by arrival among equals. *)
Timed(g, S) == \A i \in S : i \in Nat /\ g[i].at \in Nat

LEMMA BeforeIsTotal ==
  ASSUME NEW g, NEW S, Timed(g, S), NEW i \in S, NEW j \in S, NEW k \in S
  PROVE  /\ Before(g, i, j) \/ Before(g, j, i) \/ i = j
         /\ ~(Before(g, i, j) /\ Before(g, j, i))
         /\ ~Before(g, i, i)
         /\ Before(g, i, j) /\ Before(g, j, k) => Before(g, i, k)
  BY DEF Timed, Before

(* Of finitely many events one comes last. *)
LEMMA LastOfEvents ==
  ASSUME NEW g, NEW S, Timed(g, S), IsFiniteSet(S), S # {}
  PROVE  \E t \in S : \A j \in S : ~Before(g, t, j)
<1> DEFINE After(i) == {l \in S : Before(g, i, l)}
           D == {Cardinality(After(i)) : i \in S}
<1>1. ASSUME NEW i \in S
      PROVE  IsFiniteSet(After(i)) /\ Cardinality(After(i)) \in Nat
  <2>1. After(i) \in SUBSET S
    OBVIOUS
  <2>2. IsFiniteSet(After(i))
    BY <2>1, FS_Subset
  <2> QED BY <2>2, FS_CardinalityType
<1>2. D \in SUBSET Nat /\ D # {}
  BY <1>1
<1>3. PICK d \in D : \A k \in D : d <= k
  BY <1>2, Least
<1>4. PICK t \in S : d = Cardinality(After(t))
  OBVIOUS
<1>5. ASSUME NEW j \in S, Before(g, t, j)
      PROVE  FALSE
  <2>1. \A l \in S : Before(g, j, l) => Before(g, t, l)
    BY <1>5, BeforeIsTotal
  <2>2. j \notin After(j) /\ j \in After(t)
    BY <1>5, BeforeIsTotal
  <2>3. After(j) \in SUBSET After(t) /\ After(j) # After(t)
    BY <2>1, <2>2
  <2> HIDE DEF After
  <2>4. Cardinality(After(j)) < Cardinality(After(t))
    BY <1>1, <2>3, FS_Subset
  <2>5. Cardinality(After(t)) <= Cardinality(After(j))
    BY <1>3, <1>4
  <2> QED BY <1>1, <2>4, <2>5
<1> QED BY <1>5

-----------------------------------------------------------------------------
(***************************************************************************)
(* A history may be cut down to the last MaxEvents events of the window     *)
(* before each new event: what is left out can never come back.  H is the   *)
(* history kept of the events S, x the new event.                           *)
(***************************************************************************)
Compacted(g, S) == Latest(g, Recent(g, S))

(* The window after x, of all the events and of those that were kept. *)
Whole(g, S, x) == Recent(g, S \cup {x})
Cut(g, S, x) == Recent(g, Compacted(g, S) \cup {x})

(* The latest of the events is kept, so the window is the same. *)
LEMMA LatestIsKept ==
  ASSUME NEW g, NEW S, Timed(g, S), IsFiniteSet(S), S # {}
  PROVE  \E t \in Compacted(g, S) : \A j \in S : g[t].at >= g[j].at
<1>1. PICK t \in S : \A j \in S : ~Before(g, t, j)
  BY LastOfEvents
<1>2. \A j \in S : g[t].at >= g[j].at
  BY <1>1 DEF Before, Timed
<1>3. t \in Recent(g, S)
  BY <1>1, <1>2, SessionAssumption DEF Recent, Timed
<1>4. {j \in Recent(g, S) : Before(g, t, j)} = {}
  BY <1>1 DEF Recent
<1>5. Cardinality({j \in Recent(g, S) : Before(g, t, j)}) < MaxEvents
  BY <1>4, FS_EmptySet, SessionAssumption
<1>6. t \in Compacted(g, S)
  BY <1>3, <1>5 DEF Compacted, Latest
<1> QED BY <1>2, <1>6

LEMMA SameWindow ==
  ASSUME NEW g, NEW S, NEW x, Timed(g, S), Timed(g, {x}), IsFiniteSet(S)
  PROVE  \A i : i \in Cut(g, S, x)
                 <=> i \in Whole(g, S, x) /\ i \in Compacted(g, S) \cup {x}
<1> DEFINE H == Compacted(g, S)
<1>1. H \subseteq S
  BY DEF Compacted, Latest, Recent
<1>2. ASSUME NEW i \in H \cup {x}, \A j \in H \cup {x} : g[i].at + Window >= g[j].at,
             NEW j \in S
      PROVE  g[i].at + Window >= g[j].at
  <2>2. PICK t \in H : \A k \in S : g[t].at >= g[k].at
    BY LatestIsKept, <1>2
  <2>3. g[i].at + Window >= g[t].at /\ g[t].at >= g[j].at
    BY <1>2, <2>2
  <2>4. g[i].at \in Nat /\ g[t].at \in Nat /\ g[j].at \in Nat
    BY <1>1, <1>2, <2>2 DEF Timed
  <2> HIDE DEF H
  <2> QED BY <2>3, <2>4, SessionAssumption
<1> HIDE DEF H
<1>3. \A i \in H \cup {x} :
        (\A j \in H \cup {x} : g[i].at + Window >= g[j].at)
          <=> (\A j \in S \cup {x} : g[i].at + Window >= g[j].at)
  BY <1>1, <1>2
<1>4. \A i : i \in Recent(g, H \cup {x}) <=> i \in Recent(g, S \cup {x}) /\ i \in H \cup {x}
  BY <1>1, <1>3 DEF Recent
<1> QED BY <1>4 DEF H, Cut, Whole

(* Event o is the last that B leaves out, and was so for good reason. *)
LastLeftOut(g, A, B, o) ==
  /\ \A l \in A : Before(g, o, l) => l \in B
  /\ IsFiniteSet({l \in B : Before(g, o, l)})
  /\ Cardinality({l \in B : Before(g, o, l)}) >= MaxEvents

(* What is left out has MaxEvents later events in the history for ever. *)
LEMMA LeftOutForGood ==
  ASSUME NEW g, NEW S, NEW x, Timed(g, S), Timed(g, {x}), IsFiniteSet(S),
         NEW A, A = Whole(g, S, x), NEW B, B = Cut(g, S, x), A # B
  PROVE  \E o \in A \ B : LastLeftOut(g, A, B, o)
<1> DEFINE R == Recent(g, S)
           H == Compacted(g, S)
<1>1. \A i : i \in B <=> i \in A /\ i \in Compacted(g, S) \cup {x}
  BY SameWindow
<1>2. A \subseteq S \cup {x} /\ B \subseteq A /\ R \subseteq S
  BY <1>1 DEF Recent, Whole
<1>3. IsFiniteSet(A \ B) /\ A \ B # {} /\ IsFiniteSet(R) /\ IsFiniteSet(B)
  <2>1. IsFiniteSet(S \cup {x})
    BY FS_AddElement
  <2>2. A \ B \in SUBSET (S \cup {x}) /\ R \in SUBSET S /\ B \in SUBSET (S \cup {x})
    BY <1>2
  <2> QED BY <1>2, <2>1, <2>2, FS_Subset
<1>4. Timed(g, A \ B)
  BY <1>2 DEF Timed
<1>5. PICK o \in A \ B : \A j \in A \ B : ~Before(g, o, j)
  BY <1>3, <1>4, LastOfEvents
<1>6. \A l \in A : Before(g, o, l) => l \in B
  BY <1>5
<1>7. o \in S /\ o \notin H /\ o \in R
  <2>1. o \in S /\ o \notin H
    BY <1>1, <1>2, <1>5
  <2>2. \A j \in S : g[o].at + Window >= g[j].at
    BY <1>5 DEF Recent, Whole
  <2> QED BY <2>1, <2>2 DEF Recent
<1> DEFINE D == {l \in R : Before(g, o, l)}
<1>8. ~(Cardinality(D) < MaxEvents)
  BY <1>7 DEF Compacted, Latest
<1>9. D \subseteq {l \in B : Before(g, o, l)}
  <2>1. SUFFICES ASSUME NEW l \in D
                 PROVE  l \in B
    OBVIOUS
  <2>2. l \in S /\ Before(g, o, l)
    BY <1>2, <2>1
  <2>3. g[l].at >= g[o].at /\ g[l].at \in Nat /\ g[o].at \in Nat
    BY <1>7, <2>2 DEF Before, Timed
  <2>4. \A j \in S \cup {x} : g[o].at + Window >= g[j].at /\ g[j].at \in Nat
    BY <1>5 DEF Recent, Whole, Timed
  <2>5. \A j \in S \cup {x} : g[l].at + Window >= g[j].at
    BY <2>3, <2>4, SessionAssumption
  <2>6. l \in A
    BY <2>2, <2>5 DEF Recent, Whole
  <2> QED BY <1>6, <2>2, <2>6
<1>10. IsFiniteSet({l \in B : Before(g, o, l)})
  BY <1>3, FS_Subset
<1>11. Cardinality({l \in B : Before(g, o, l)}) >= Cardinality(D)
  BY <1>9, <1>10, FS_Subset
<1>12. /\ Cardinality({l \in B : Before(g, o, l)}) \in Nat
       /\ Cardinality(D) \in Nat
  <2>1. IsFiniteSet(D)
    BY <1>9, <1>10, FS_Subset
  <2> QED BY <1>10, <2>1, FS_CardinalityType
<1> HIDE DEF D
<1>13. Cardinality({l \in B : Before(g, o, l)}) >= MaxEvents
  BY <1>8, <1>11, <1>12, SessionAssumption
<1> QED BY <1>5, <1>6, <1>10, <1>13 DEF LastLeftOut

(* So the same events come last with what was left out and without. *)
LEMMA SameLatest ==
  ASSUME NEW g, NEW S, NEW x, Timed(g, S), Timed(g, {x}), IsFiniteSet(S),
         NEW A, A = Whole(g, S, x), NEW B, B = Cut(g, S, x), A # B
  PROVE  Latest(g, B) = Latest(g, A)
<1>1. \A i : i \in B <=> i \in A /\ i \in Compacted(g, S) \cup {x}
  BY SameWindow
<1>2. B \subseteq A /\ A \subseteq S \cup {x}
  BY <1>1 DEF Recent, Whole
<1>3. PICK o \in A \ B : LastLeftOut(g, A, B, o)
  BY LeftOutForGood
<1>4. /\ o \in A \ B
      /\ \A l \in A : Before(g, o, l) => l \in B
      /\ IsFiniteSet({l \in B : Before(g, o, l)})
      /\ Cardinality({l \in B : Before(g, o, l)}) >= MaxEvents
  BY <1>3 DEF LastLeftOut
<1>5. Timed(g, A) /\ IsFiniteSet(A)
  <2>1. IsFiniteSet(S \cup {x})
    BY FS_AddElement
  <2> QED BY <1>2, <2>1, FS_Subset DEF Timed
<1> DEFINE After(X, i) == {l \in X : Before(g, i, l)}
<1>6. ASSUME NEW i \in A
      PROVE  /\ IsFiniteSet(After(A, i)) /\ Cardinality(After(A, i)) \in Nat
             /\ IsFiniteSet(After(B, i)) /\ Cardinality(After(B, i)) \in Nat
  <2>1. After(A, i) \in SUBSET A /\ After(B, i) \in SUBSET A
    BY <1>2
  <2>2. IsFiniteSet(After(A, i)) /\ IsFiniteSet(After(B, i))
    BY <1>5, <2>1, FS_Subset
  <2> QED BY <2>2, FS_CardinalityType
(* No later than the last event left out, an event is too old. *)
<1>7. ASSUME NEW i \in A, i = o \/ Before(g, i, o)
      PROVE  Cardinality(After(A, i)) >= MaxEvents /\ Cardinality(After(B, i)) >= MaxEvents
  <2>1. \A l \in B : Before(g, o, l) => Before(g, i, l)
    BY <1>4, <1>2, <1>5, <1>7, BeforeIsTotal
  <2>2. After(B, o) \in SUBSET After(A, i) /\ After(B, o) \in SUBSET After(B, i)
    BY <1>2, <2>1
  <2>3. Cardinality(After(B, o)) >= MaxEvents
    BY <1>4
  <2>4. o \in A
    BY <1>4
  <2> HIDE DEF After
  <2>5. /\ Cardinality(After(B, o)) <= Cardinality(After(A, i))
        /\ Cardinality(After(B, o)) <= Cardinality(After(B, i))
    BY <1>6, <2>2, FS_Subset
  <2> QED BY <1>6, <2>3, <2>4, <2>5, SessionAssumption
(* Later, its later events are all kept. *)
<1>8. ASSUME NEW i \in A, Before(g, o, i)
      PROVE  i \in B /\ After(A, i) = After(B, i)
  <2>1. \A l \in A : Before(g, i, l) => Before(g, o, l)
    BY <1>4, <1>5, <1>8, BeforeIsTotal
  <2> QED BY <1>4, <1>2, <1>8, <2>1
<1>9. ASSUME NEW i \in A
      PROVE  i = o \/ Before(g, i, o) \/ Before(g, o, i)
  BY <1>4, <1>5, BeforeIsTotal
<1>10. \A i : i \in Latest(g, A) <=> i \in A /\ Cardinality(After(A, i)) < MaxEvents
  BY DEF Latest
<1>11. \A i : i \in Latest(g, B) <=> i \in B /\ Cardinality(After(B, i)) < MaxEvents
  BY DEF Latest
<1> HIDE DEF After
<1>12. \A i \in A : i \in Latest(g, A) <=> i \in Latest(g, B)
  BY <1>2, <1>6, <1>7, <1>8, <1>9, <1>10, <1>11, SessionAssumption
<1>13. Latest(g, A) = Latest(g, B)
  BY <1>2, <1>10, <1>11, <1>12
<1> QED BY <1>13

LEMMA Compaction ==
  ASSUME NEW g, NEW S, NEW x, Timed(g, S), Timed(g, {x}), IsFiniteSet(S)
  PROVE  Latest(g, Cut(g, S, x)) = Latest(g, Whole(g, S, x))
  BY SameLatest

-----------------------------------------------------------------------------
(* log1 is the log of n events with one more, of client c. *)
OneMore(log, log1, n, c) ==
  /\ log \in Seq(Event) /\ n = Len(log)
  /\ log1 \in Seq(Event) /\ Len(log1) = n + 1
  /\ \A i \in 1..n : log1[i] = log[i]
  /\ log1[n + 1].client = c

LEMMA LogGrows ==
  ASSUME NEW log \in Seq(Event), NEW e \in Event
  PROVE  OneMore(log, Append(log, e), Len(log), e.client)
  BY DEF OneMore

LEMMA OneMoreType ==
  ASSUME NEW log, NEW log1, NEW n, NEW c, OneMore(log, log1, n, c)
  PROVE  /\ n \in Nat /\ log \in Seq(Event) /\ log1 \in Seq(Event) /\ c \in Clients
         /\ Len(log) = n /\ DOMAIN log = 1..n /\ \A i \in 1..n : log[i] \in Event
         /\ Len(log1) = n + 1 /\ DOMAIN log1 = 1..(n + 1)
         /\ \A i \in 1..(n + 1) : log1[i] \in Event
         /\ \A i \in 1..n : log1[i] = log[i]
         /\ log1[n + 1].client = c
<1>1. n \in Nat /\ DOMAIN log1 = 1..(n + 1) /\ \A i \in 1..(n + 1) : log1[i] \in Event
  BY DEF OneMore
<1>2. log1[n + 1] \in Event
  BY <1>1
<1>3. c \in Clients
  BY <1>2 DEF OneMore, Event
<1> QED BY <1>1, <1>3 DEF OneMore

LEMMA EventsGrow ==
  ASSUME NEW log, NEW log1, NEW n, NEW c, OneMore(log, log1, n, c), NEW d
  PROVE  /\ EventsOf(log, d) \subseteq 1..n
         /\ d = c => EventsOf(log1, d) = EventsOf(log, d) \cup {n + 1}
         /\ d # c => EventsOf(log1, d) = EventsOf(log, d)
<1>1. n \in Nat /\ DOMAIN log = 1..n /\ DOMAIN log1 = (1..n) \cup {n + 1}
  <2>1. n \in Nat /\ DOMAIN log = 1..n /\ DOMAIN log1 = 1..(n + 1)
    BY OneMoreType
  <2> QED BY <2>1
<1>2. log1[n + 1].client = c /\ \A i \in 1..n : log1[i].client = log[i].client
  BY OneMoreType
<1>3. \A i : i \in EventsOf(log1, d) <=> i \in EventsOf(log, d) \/ (i = n + 1 /\ d = c)
  BY <1>1, <1>2 DEF EventsOf
<1>4. EventsOf(log, d) \subseteq 1..n
  BY <1>1 DEF EventsOf
<1> QED BY <1>3, <1>4

LEMMA BetweenGrows ==
  ASSUME NEW log, NEW log1, NEW n, NEW c, OneMore(log, log1, n, c), NEW i \in Nat
  PROVE  /\ \A k \in 0..(n + 1) : Between(log1, i, k) = Between(log, i, k)
         /\ i <= n => Between(log1, i, n + 2) = Between(log, i, n + 1) \cup {c}
<1>1. ASSUME NEW k \in 0..(n + 1)
      PROVE  Between(log1, i, k) = Between(log, i, k)
  <2>1. \A m \in (i + 1)..(k - 1) : log1[m] = log[m]
    BY OneMoreType
  <2> QED BY <2>1 DEF Between
<1>2. ASSUME i <= n
      PROVE  Between(log1, i, n + 2) = Between(log, i, n + 1) \cup {c}
  <2>1. \A m \in (i + 1)..n : log1[m] = log[m]
    BY OneMoreType
  <2>2. \A m : m \in (i + 1)..(n + 2 - 1) <=> m \in (i + 1)..n \/ m = n + 1
    BY <1>2, OneMoreType
  <2>3. \A m : m \in (i + 1)..(n + 1 - 1) <=> m \in (i + 1)..n
    BY OneMoreType
  <2>6. n \in Nat /\ log1[n + 1].client = c
    BY OneMoreType
  <2>4. \A x : x \in Between(log1, i, n + 2)
                 <=> (\E m \in (i + 1)..n : x = log1[m].client) \/ x = log1[n + 1].client
    BY <2>2, <2>6 DEF Between
  <2>5. \A x : x \in Between(log, i, n + 1) <=> \E m \in (i + 1)..n : x = log[m].client
    BY <2>3, <2>6 DEF Between
  <2>7. \A x : x \in Between(log1, i, n + 2) <=> x \in Between(log, i, n + 1) \cup {c}
    BY <2>1, <2>4, <2>5, <2>6
  <2> QED BY <2>7
<1> QED BY <1>1, <1>2

LEMMA BetweenFinite ==
  ASSUME NEW log \in Seq(Event), NEW i \in Nat, NEW k \in Nat, k <= Len(log) + 1
  PROVE  /\ IsFiniteSet(Between(log, i, k)) /\ Cardinality(Between(log, i, k)) \in Nat
         /\ Between(log, i, k) \subseteq Clients
<1> DEFINE f == [m \in (i + 1)..(k - 1) |-> log[m].client]
<1>1. f \in Surjection((i + 1)..(k - 1), Between(log, i, k))
  BY DEF Surjection, Between
<1>2. IsFiniteSet((i + 1)..(k - 1))
  BY FS_Interval
<1>3. IsFiniteSet(Between(log, i, k))
  BY <1>1, <1>2, FS_Surjection
<1>4. \A m \in (i + 1)..(k - 1) : log[m].client \in Clients
  <2>1. \A m \in 1..Len(log) : log[m] \in Event
    OBVIOUS
  <2>2. Len(log) \in Nat /\ (i + 1)..(k - 1) \subseteq 1..Len(log)
    OBVIOUS
  <2> QED BY <2>1, <2>2 DEF Event
<1> QED BY <1>3, <1>4, FS_CardinalityType DEF Between

(* Who has lost its place has lost it for good. *)
LEMMA LossGrows ==
  ASSUME NEW log, NEW log1, NEW n, NEW c, OneMore(log, log1, n, c), NEW d, NEW i \in 1..n
  PROVE  /\ LosesPlace(log, d, i, n + 1) /\ d # c => LosesPlace(log1, d, i, n + 2)
         /\ LosesPlace(log1, d, i, n + 2)
              <=> /\ d \notin Between(log, i, n + 1) \cup {c}
                  /\ Cardinality(Between(log, i, n + 1) \cup {c}) >= MaxClients
<1> DEFINE B == Between(log, i, n + 1)
<1>1. Between(log1, i, n + 2) = B \cup {c}
  BY OneMoreType, BetweenGrows
<1>2. IsFiniteSet(B) /\ Cardinality(B) \in Nat
  <2>1. log \in Seq(Event) /\ i \in Nat /\ n + 1 \in Nat /\ n + 1 <= Len(log) + 1
    BY OneMoreType
  <2> QED BY <2>1, BetweenFinite
<1> HIDE DEF B
<1>3. Cardinality(B \cup {c}) \in Nat /\ Cardinality(B \cup {c}) >= Cardinality(B)
  <2>1. Cardinality(B \cup {c}) = IF c \in B THEN Cardinality(B) ELSE Cardinality(B) + 1
    BY <1>2, FS_AddElement, Zenon
  <2> QED BY <1>2, <2>1
<1>4. Cardinality(B) >= MaxClients => Cardinality(B \cup {c}) >= MaxClients
  BY <1>2, <1>3, SessionAssumption
<1> QED BY <1>1, <1>4 DEF B, LosesPlace

(* Client d has its last event at i, and others so many since that it lost its
   place, or not. *)
LastAt(log, d, i) == i \in EventsOf(log, d) /\ \A j \in EventsOf(log, d) : j <= i
Gone(log, d, i) == LosesPlace(log, d, i, Len(log) + 1)

LEMMA HasLast ==
  ASSUME NEW log \in Seq(Event), NEW d, EventsOf(log, d) # {}
  PROVE  \E i \in EventsOf(log, d) : LastAt(log, d, i)
<1>1. Len(log) \in Nat /\ EventsOf(log, d) \in SUBSET (1..Len(log))
  BY DEF EventsOf
<1>2. PICK i \in EventsOf(log, d) : \A j \in EventsOf(log, d) : j <= i
  BY <1>1, LastPosition
<1> QED BY <1>2 DEF LastAt

(* An event of d in between: d did not lose its place there. *)
LEMMA OwnEventBetween ==
  ASSUME NEW log \in Seq(Event), NEW d, NEW m \in EventsOf(log, d), NEW i \in Nat, NEW k \in Nat,
         i < m, m < k
  PROVE  ~LosesPlace(log, d, i, k)
<1>1. m \in (i + 1)..(k - 1) /\ log[m].client = d
  BY DEF EventsOf
<1> QED BY <1>1 DEF LosesPlace, Between

(* d has a session exactly if it has events and is not gone since the last one. *)
LEMMA SessionLives ==
  ASSUME NEW log \in Seq(Event), NEW d, NEW i, LastAt(log, d, i)
  PROVE  SessionOf(log, d) # {} <=> ~Gone(log, d, i)
<1>1. i \in 1..Len(log) /\ Len(log) \in Nat /\ EventsOf(log, d) \subseteq 1..Len(log)
  BY DEF LastAt, EventsOf
<1>2. ASSUME ~Gone(log, d, i)
      PROVE  i \in SessionOf(log, d)
  <2>1. ASSUME NEW j \in EventsOf(log, d), NEW k \in EventsOf(log, d) \cup {Len(log) + 1},
               i <= j, j < k, LosesPlace(log, d, j, k)
        PROVE  FALSE
    <3>1. j = i /\ k = Len(log) + 1
      BY <1>1, <2>1 DEF LastAt
    <3> QED BY <1>2, <2>1, <3>1 DEF Gone
  <2> QED BY <2>1 DEF SessionOf, LastAt
<1>3. ASSUME Gone(log, d, i)
      PROVE  SessionOf(log, d) = {}
  <2>1. SUFFICES ASSUME NEW j \in EventsOf(log, d)
                 PROVE  j \notin SessionOf(log, d)
    BY DEF SessionOf
  <2>2. j <= i /\ i < Len(log) + 1 /\ i \in EventsOf(log, d)
    BY <1>1 DEF LastAt
  <2>3. LosesPlace(log, d, i, Len(log) + 1)
    BY <1>3 DEF Gone
  <2> QED BY <2>2, <2>3 DEF SessionOf
<1> QED BY <1>2, <1>3

(* The client of the new event: the event joins its session. *)
LEMMA SessionJoined ==
  ASSUME NEW log, NEW log1, NEW n, NEW c, OneMore(log, log1, n, c)
  PROVE  SessionOf(log1, c) = SessionOf(log, c) \cup {n + 1}
<1> DEFINE E == EventsOf(log, c)
<1>1. E \subseteq 1..n /\ EventsOf(log1, c) = E \cup {n + 1}
  BY EventsGrow
<1>2. ASSUME NEW j \in E \cup {n + 1}, NEW k \in E \cup {n + 1, n + 2}, j < k
      PROVE  /\ k = n + 2 => ~LosesPlace(log1, c, j, k)
             /\ k # n + 2 => j \in E /\ k \in E \cup {n + 1}
             /\ k # n + 2 => (LosesPlace(log1, c, j, k) <=> LosesPlace(log, c, j, k))
  <2>1. CASE k = n + 2 /\ j \in E
    <3>1. n + 1 \in EventsOf(log1, c) /\ j \in Nat /\ k \in Nat /\ j < n + 1 /\ n + 1 < k
      BY <1>1, <2>1, OneMoreType
    <3>2. ~LosesPlace(log1, c, j, k)
      BY <3>1, OwnEventBetween, OneMoreType
    <3> QED BY <2>1, <3>2
  <2>2. CASE k = n + 2 /\ j = n + 1
    <3>1. (j + 1)..(k - 1) = {}
      BY <2>2, OneMoreType
    <3>2. Between(log1, j, k) = {}
      BY <3>1 DEF Between
    <3>3. ~LosesPlace(log1, c, j, k)
      BY <3>2, FS_EmptySet, SessionAssumption DEF LosesPlace
    <3> QED BY <2>2, <3>3
  <2>3. CASE k # n + 2
    <3>1. j \in E /\ k \in E \cup {n + 1} /\ j \in Nat /\ k \in 0..(n + 1)
      BY <1>1, <1>2, <2>3, OneMoreType
    <3>2. Between(log1, j, k) = Between(log, j, k)
      BY <3>1, BetweenGrows
    <3> QED BY <2>3, <3>1, <3>2 DEF LosesPlace
  <2> QED BY <1>2, <2>1, <2>2, <2>3
<1>3. SessionOf(log1, c)
        = {i \in E \cup {n + 1} :
             ~\E j \in E \cup {n + 1}, k \in E \cup {n + 1, n + 2} :
                i <= j /\ j < k /\ LosesPlace(log1, c, j, k)}
  <2>1. (E \cup {n + 1}) \cup {n + 1 + 1} = E \cup {n + 1, n + 2} /\ Len(log1) = n + 1
    BY OneMoreType
  <2> QED BY <1>1, <2>1 DEF SessionOf
<1>4. SessionOf(log, c)
        = {i \in E : ~\E j \in E, k \in E \cup {n + 1} :
                        i <= j /\ j < k /\ LosesPlace(log, c, j, k)}
  <2>1. Len(log) = n
    BY OneMoreType
  <2> QED BY <2>1 DEF SessionOf
<1>5. n \in Nat
  BY OneMoreType
<1> HIDE DEF E
<1>6. ASSUME NEW i \in E
      PROVE  i \in SessionOf(log1, c) <=> i \in SessionOf(log, c)
  BY <1>1, <1>2, <1>3, <1>4, <1>5
<1>7. n + 1 \in SessionOf(log1, c)
  BY <1>1, <1>2, <1>3, <1>5
<1>8. SessionOf(log1, c) \subseteq E \cup {n + 1} /\ SessionOf(log, c) \subseteq E
  BY <1>3, <1>4
<1> QED BY <1>6, <1>7, <1>8

(* Another client, unless it is gone: its session stays as it is. *)
LEMMA SessionStays ==
  ASSUME NEW log, NEW log1, NEW n, NEW c, OneMore(log, log1, n, c),
         NEW d, d # c, NEW i, LastAt(log, d, i), ~Gone(log1, d, i)
  PROVE  SessionOf(log1, d) = SessionOf(log, d)
<1> DEFINE E == EventsOf(log, d)
<1>1. n \in Nat /\ Len(log) = n /\ Len(log1) = n + 1
  BY OneMoreType
<1>2. E \subseteq 1..n /\ EventsOf(log1, d) = E /\ i \in E /\ \A j \in E : j <= i
  BY EventsGrow DEF LastAt
<1>3. \A j \in E, k \in E : LosesPlace(log1, d, j, k) <=> LosesPlace(log, d, j, k)
  <2>1. \A j \in E, k \in E : j \in Nat /\ k \in 0..(n + 1)
    BY <1>1, <1>2
  <2> QED BY <2>1, BetweenGrows DEF LosesPlace
<1>4. ~LosesPlace(log1, d, i, n + 2) /\ ~LosesPlace(log, d, i, n + 1)
  <2>1. n + 1 + 1 = n + 2 /\ i \in 1..n
    BY <1>1, <1>2
  <2>2. ~LosesPlace(log1, d, i, n + 2)
    BY <1>1, <2>1 DEF Gone
  <2> QED BY <2>1, <2>2, LossGrows
<1>5. \A j \in E : j # i => /\ ~LosesPlace(log1, d, j, n + 2)
                            /\ ~LosesPlace(log, d, j, n + 1)
  <2>1. \A j \in E : j # i => j \in Nat /\ j < i /\ i < n + 1 /\ i < n + 2
    BY <1>1, <1>2
  <2>2. n + 1 \in Nat /\ n + 2 \in Nat
    BY <1>1
  <2>3. log \in Seq(Event) /\ log1 \in Seq(Event)
    BY OneMoreType
  <2> QED BY <1>2, <2>1, <2>2, <2>3, OwnEventBetween
<1>6. SessionOf(log1, d)
        = {l \in E : ~\E j \in E, k \in E \cup {n + 2} :
                        l <= j /\ j < k /\ LosesPlace(log1, d, j, k)}
  <2>1. n + 1 + 1 = n + 2
    BY <1>1
  <2> QED BY <1>1, <1>2, <2>1 DEF SessionOf
<1>7. SessionOf(log, d)
        = {l \in E : ~\E j \in E, k \in E \cup {n + 1} :
                        l <= j /\ j < k /\ LosesPlace(log, d, j, k)}
  BY <1>1 DEF SessionOf
<1> HIDE DEF E
<1> QED BY <1>3, <1>4, <1>5, <1>6, <1>7

-----------------------------------------------------------------------------
(* The clients that are tracked, in the order of their last updates. *)
Distinct(K) == \A k, l \in DOMAIN K : K[k] = K[l] => k = l

(* Those after position k. *)
After(K, k) == {K[l] : l \in (k + 1)..Len(K)}

(* R is K without its q-th client. *)
Without(K, q, R) ==
  /\ R \in Seq(Clients) /\ Len(R) = Len(K) - 1
  /\ \A k \in 1..Len(R) : R[k] = IF k < q THEN K[k] ELSE K[k + 1]

LEMMA PartOfSeq ==
  ASSUME NEW S, NEW s \in Seq(S), NEW a \in Nat \ {0}, NEW b \in Nat, a <= b + 1, b <= Len(s)
  PROVE  /\ SubSeq(s, a, b) \in Seq(S) /\ Len(SubSeq(s, a, b)) = b + 1 - a
         /\ \A i \in 1..(b + 1 - a) : SubSeq(s, a, b)[i] = s[a + i - 1]
  OBVIOUS

LEMMA FirstRemoved ==
  ASSUME NEW K \in Seq(Clients), Distinct(K), NEW c, NEW q \in 1..Len(K), K[q] = c
  PROVE  Without(K, q, RemoveFirst(K, c))
<1>1. Len(K) \in Nat /\ DOMAIN K = 1..Len(K)
  OBVIOUS
<1>2. SelectInSeq(K, LAMBDA v : v = c) = q
  <2>1. {k \in 1..Len(K) : K[k] = c} = {q}
    BY <1>1 DEF Distinct
  <2>2. Min({q}) \in {q}
    <3>1. \E x \in {q} : \A y \in {q} : x <= y
      BY <1>1
    <3> QED BY <3>1 DEF Min
  <2> QED BY <2>1, <2>2, Zenon DEF SelectInSeq
<1> DEFINE L == SubSeq(K, 1, q - 1)
           M == SubSeq(K, q + 1, Len(K))
<1>3. RemoveFirst(K, c) = L \o M
  BY <1>2, Zenon DEF RemoveFirst, RemoveAt
<1>4. /\ L \in Seq(Clients) /\ Len(L) = q - 1
      /\ \A k \in 1..(q - 1) : L[k] = K[k]
  <2>1. 1 \in Nat \ {0} /\ q - 1 \in Nat /\ 1 <= q - 1 + 1
        /\ q - 1 <= Len(K) /\ q - 1 + 1 - 1 = q - 1
    BY <1>1
  <2>2. \A k \in 1..(q - 1) : 1 + k - 1 = k
    BY <1>1
  <2> QED BY <2>1, <2>2, PartOfSeq
<1>5. /\ M \in Seq(Clients) /\ Len(M) = Len(K) - q
      /\ \A k \in 1..(Len(K) - q) : M[k] = K[q + k]
  <2>1. q + 1 \in Nat \ {0} /\ Len(K) \in Nat /\ q + 1 <= Len(K) + 1
    BY <1>1
  <2>3. Len(K) + 1 - (q + 1) = Len(K) - q
    <3>1. q \in Nat /\ \A a, b \in Nat : a + 1 - (b + 1) = a - b
      BY <1>1
    <3> QED BY <1>1, <3>1, Zenon
  <2>2. \A k \in 1..(Len(K) - q) : q + 1 + k - 1 = q + k
    BY <1>1
  <2> QED BY <2>1, <2>2, <2>3, PartOfSeq
<1> DEFINE R == L \o M
<1> HIDE DEF L, M
<1>6. R \in Seq(Clients) /\ Len(R) = Len(L) + Len(M)
  <2>1. L \in Seq(Clients) /\ M \in Seq(Clients)
    BY <1>4, <1>5
  <2> QED BY <2>1, ConcatProperties
<1>7. /\ \A k \in 1..Len(L) : R[k] = L[k]
      /\ \A k \in 1..Len(M) : R[Len(L) + k] = M[k]
  BY <1>4, <1>5
<1> HIDE DEF R
<1>8. Len(R) = Len(K) - 1
  BY <1>1, <1>4, <1>5, <1>6
<1>9. ASSUME NEW k \in 1..Len(R)
      PROVE  R[k] = IF k < q THEN K[k] ELSE K[k + 1]
  <2>1. CASE k < q
    <3>1. k \in 1..(q - 1)
      BY <1>1, <1>8, <2>1
    <3> QED BY <1>4, <1>7, <2>1, <3>1
  <2>2. CASE ~(k < q)
    <3>1. k - (q - 1) \in 1..(Len(K) - q) /\ q - 1 + (k - (q - 1)) = k /\ q + (k - (q - 1)) = k + 1
      BY <1>1, <1>8, <2>2
    <3>2. R[q - 1 + (k - (q - 1))] = M[k - (q - 1)] /\ M[k - (q - 1)] = K[q + (k - (q - 1))]
      BY <1>4, <1>5, <1>7, <3>1
    <3> QED BY <2>2, <3>1, <3>2
  <2> QED BY <2>1, <2>2
<1> QED BY <1>3, <1>6, <1>8, <1>9 DEF Without, R

(* The others keep their order. *)
LEMMA OrderKept ==
  ASSUME NEW K \in Seq(Clients), Distinct(K), NEW q \in 1..Len(K), NEW R, Without(K, q, R)
  PROVE  /\ Distinct(R)
         /\ \A d : d \in Elements(R) <=> d \in Elements(K) /\ d # K[q]
         /\ \A k \in DOMAIN R : \E h \in DOMAIN K :
              /\ R[k] = K[h]
              /\ IF h < q THEN After(K, h) = After(R, k) \cup {K[q]} ELSE After(K, h) = After(R, k)
<1>1. /\ Len(K) \in Nat /\ DOMAIN K = 1..Len(K) /\ DOMAIN R = 1..(Len(K) - 1)
      /\ Len(R) = Len(K) - 1
  BY DEF Without
<1>2. \A k \in 1..(Len(K) - 1) : R[k] = IF k < q THEN K[k] ELSE K[k + 1]
  BY <1>1 DEF Without
<1>3. Distinct(R)
  BY <1>1, <1>2 DEF Distinct
<1>4. ASSUME NEW d
      PROVE  d \in Elements(R) <=> d \in Elements(K) /\ d # K[q]
  <2>1. ASSUME d \in Elements(R)
        PROVE  d \in Elements(K) /\ d # K[q]
    <3>1. PICK k \in 1..(Len(K) - 1) : d = R[k]
      BY <1>1, <2>1 DEF Elements
    <3> DEFINE h == IF k < q THEN k ELSE k + 1
    <3>2. h \in 1..Len(K) /\ h # q /\ d = K[h]
      BY <1>1, <1>2, <3>1
    <3> QED BY <1>1, <3>2 DEF Elements, Distinct
  <2>2. ASSUME d \in Elements(K), d # K[q]
        PROVE  d \in Elements(R)
    <3>1. PICK h \in 1..Len(K) : d = K[h]
      BY <1>1, <2>2 DEF Elements
    <3> DEFINE k == IF h < q THEN h ELSE h - 1
    <3>2. k \in 1..(Len(K) - 1) /\ d = R[k]
      BY <1>1, <1>2, <2>2, <3>1
    <3> QED BY <1>1, <3>2 DEF Elements
  <2> QED BY <2>1, <2>2
<1>5. ASSUME NEW k \in 1..(Len(K) - 1)
      PROVE  \E h \in 1..Len(K) :
               /\ R[k] = K[h]
               /\ IF h < q THEN After(K, h) = After(R, k) \cup {K[q]}
                  ELSE After(K, h) = After(R, k)
  <2>1. CASE k < q
    <3>1. k \in 1..Len(K) /\ R[k] = K[k]
      BY <1>1, <1>2, <2>1
    <3>2. ASSUME NEW d
          PROVE  d \in After(K, k) <=> d \in After(R, k) \/ d = K[q]
      <4>1. ASSUME NEW h \in (k + 1)..Len(K), h # q
            PROVE  \E l \in (k + 1)..Len(R) : K[h] = R[l]
        <5> DEFINE l == IF h < q THEN h ELSE h - 1
        <5>1. l \in (k + 1)..Len(R) /\ R[l] = K[h]
          BY <1>1, <1>2, <2>1, <4>1
        <5> QED BY <5>1
      <4>2. \A l \in (k + 1)..Len(R) : \E h \in (k + 1)..Len(K) : R[l] = K[h]
        <5>1. TAKE l \in (k + 1)..Len(R)
        <5> DEFINE h == IF l < q THEN l ELSE l + 1
        <5>2. h \in (k + 1)..Len(K) /\ R[l] = K[h]
          BY <1>1, <1>2, <2>1
        <5> QED BY <5>2
      <4>3. q \in (k + 1)..Len(K)
        BY <1>1, <2>1
      <4>4. /\ d \in After(K, k) <=> \E h \in (k + 1)..Len(K) : d = K[h]
            /\ d \in After(R, k) <=> \E l \in (k + 1)..Len(R) : d = R[l]
        BY DEF After
      <4> QED BY <4>1, <4>2, <4>3, <4>4
    <3> QED BY <2>1, <3>1, <3>2
  <2>2. CASE k >= q
    <3>1. k + 1 \in 1..Len(K) /\ R[k] = K[k + 1] /\ ~(k + 1 < q)
      BY <1>1, <1>2, <2>2
    <3>2. ASSUME NEW d
          PROVE  d \in After(K, k + 1) <=> d \in After(R, k)
      <4>1. \A h \in (k + 1 + 1)..Len(K) : h - 1 \in (k + 1)..Len(R) /\ K[h] = R[h - 1]
        BY <1>1, <1>2, <2>2
      <4>2. \A l \in (k + 1)..Len(R) : l + 1 \in (k + 1 + 1)..Len(K) /\ R[l] = K[l + 1]
        BY <1>1, <1>2, <2>2
      <4>3. /\ d \in After(K, k + 1) <=> \E h \in (k + 1 + 1)..Len(K) : d = K[h]
            /\ d \in After(R, k) <=> \E l \in (k + 1)..Len(R) : d = R[l]
        BY DEF After
      <4> QED BY <4>1, <4>2, <4>3
    <3>3. After(K, k + 1) = After(R, k)
      BY <3>2
    <3> QED BY <3>1, <3>3
  <2> QED BY <1>1, <2>1, <2>2
<1> QED BY <1>1, <1>3, <1>4, <1>5

(* What keeps its place when c moves to the end: all but c and, when there is
   no room for a new c, the first. *)
KeptWell(K, R, c) ==
  /\ R \in Seq(Clients) /\ Distinct(R) /\ c \notin Elements(R)
  /\ Len(R) < MaxClients
  /\ Len(R) = IF c \in Elements(K) \/ Len(K) >= MaxClients THEN Len(K) - 1 ELSE Len(K)
  /\ Elements(R) \subseteq Elements(K)
  /\ \A d \in Elements(K) :
       d \in Elements(R) \/ d = c \/ (d = K[1] /\ Len(K) >= MaxClients /\ c \notin Elements(K))
  /\ \A k \in DOMAIN R : \E h \in DOMAIN K :
       /\ R[k] = K[h]
       /\ \A d : d # c => (d \in After(K, h) <=> d \in After(R, k))

LEMMA KeptIsWell ==
  ASSUME NEW s, s.clients \in Seq(Clients), Distinct(s.clients), Len(s.clients) <= MaxClients,
         NEW c
  PROVE  KeptWell(s.clients, Kept(s, c), c)
<1> DEFINE K == s.clients
<1>1. Len(K) \in Nat /\ DOMAIN K = 1..Len(K) /\ MaxClients \in Nat \ {0}
  BY SessionAssumption
<1> HIDE DEF K
<1>2. CASE c \in Elements(K)
  <2>1. PICK q \in 1..Len(K) : K[q] = c
    BY <1>1, <1>2 DEF Elements
  <2> DEFINE R == RemoveFirst(K, c)
  <2>2. Without(K, q, R)
    BY <2>1, FirstRemoved DEF K
  <2>3. Kept(s, c) = R
    BY <1>2 DEF Kept, Evicts, K
  <2> HIDE DEF R
  <2>4. /\ Distinct(R)
        /\ \A d : d \in Elements(R) <=> d \in Elements(K) /\ d # c
        /\ \A k \in DOMAIN R : \E h \in DOMAIN K :
              /\ R[k] = K[h]
              /\ IF h < q THEN After(K, h) = After(R, k) \cup {K[q]} ELSE After(K, h) = After(R, k)
    BY <2>1, <2>2, OrderKept DEF K
  <2>5. /\ R \in Seq(Clients) /\ Len(R) = Len(K) - 1 /\ Len(R) < MaxClients
        /\ DOMAIN R = 1..Len(R)
    BY <1>1, <2>2 DEF Without, K
  <2>6. \A k \in DOMAIN R : \E h \in DOMAIN K :
              /\ R[k] = K[h]
              /\ \A d : d # c => (d \in After(K, h) <=> d \in After(R, k))
    BY <2>1, <2>4
  <2>7. KeptWell(K, R, c)
    BY <1>2, <2>4, <2>5, <2>6 DEF KeptWell
  <2> QED BY <2>3, <2>7 DEF K
<1>3. CASE c \notin Elements(K) /\ Len(K) >= MaxClients
  <2>1. 1 \in 1..Len(K) /\ K # <<>>
    BY <1>1, <1>3
  <2> DEFINE R == Tail(K)
  <2>2. Kept(s, c) = R
    BY <1>3 DEF Kept, Evicts, K
  <2>3. /\ R \in Seq(Clients) /\ Len(R) = Len(K) - 1
        /\ \A k \in 1..Len(R) : R[k] = K[k + 1]
    BY <2>1, HeadTailProperties DEF K
  <2> HIDE DEF R
  <2>4. Without(K, 1, R)
    BY <1>1, <2>3 DEF Without
  <2>5. /\ Distinct(R)
        /\ \A d : d \in Elements(R) <=> d \in Elements(K) /\ d # K[1]
        /\ \A k \in DOMAIN R : \E h \in DOMAIN K :
              /\ R[k] = K[h]
              /\ IF h < 1 THEN After(K, h) = After(R, k) \cup {K[1]} ELSE After(K, h) = After(R, k)
    BY <2>1, <2>4, OrderKept DEF K
  <2>6. \A k \in DOMAIN R : \E h \in DOMAIN K : R[k] = K[h] /\ After(K, h) = After(R, k)
    BY <1>1, <2>5
  <2>7. Len(R) < MaxClients /\ Len(K) \in Nat
    BY <1>1, <2>3 DEF K
  <2>8. KeptWell(K, R, c)
    BY <1>3, <2>3, <2>5, <2>6, <2>7 DEF KeptWell
  <2> QED BY <2>2, <2>8 DEF K
<1>4. CASE c \notin Elements(K) /\ ~(Len(K) >= MaxClients)
  <2>1. RemoveFirst(K, c) = K
    <3>1. ~\E i \in 1..Len(K) : K[i] = c
      BY <1>1, <1>4 DEF Elements
    <3> QED BY <3>1, Zenon DEF RemoveFirst
  <2>2. Kept(s, c) = K
    BY <1>4, <2>1 DEF Kept, Evicts, K
  <2>3. Len(K) < MaxClients /\ K \in Seq(Clients) /\ Distinct(K)
    BY <1>1, <1>4 DEF K
  <2>4. KeptWell(K, K, c)
    BY <1>4, <2>3 DEF KeptWell
  <2> QED BY <2>2, <2>4 DEF K
<1> QED BY <1>2, <1>3, <1>4

-----------------------------------------------------------------------------
(***************************************************************************)
(* The order says how long ago each client came: since its last event there *)
(* were only the clients after it.  Who is not tracked is gone.             *)
(***************************************************************************)
Tracked(log, K) ==
  /\ K \in Seq(Clients) /\ Distinct(K) /\ Len(K) <= MaxClients
  /\ \A k \in DOMAIN K : \E i \in EventsOf(log, K[k]) :
       LastAt(log, K[k], i) /\ Between(log, i, Len(log) + 1) = After(K, k)
  /\ \A d \in Clients \ Elements(K) : \A i \in EventsOf(log, d) :
       LastAt(log, d, i) => Gone(log, d, i)

(* So a client that is tracked is not gone. *)
LEMMA TrackedLives ==
  ASSUME NEW log \in Seq(Event), NEW K, Tracked(log, K), NEW d \in Elements(K)
  PROVE  \E i \in EventsOf(log, d) : LastAt(log, d, i) /\ ~Gone(log, d, i)
<1>1. PICK k \in DOMAIN K : K[k] = d
  BY DEF Elements
<1>2. PICK i \in EventsOf(log, d) : LastAt(log, d, i) /\ Between(log, i, Len(log) + 1) = After(K, k)
  BY <1>1 DEF Tracked
<1>3. /\ K \in Seq(Clients) /\ Len(K) \in Nat /\ DOMAIN K = 1..Len(K) /\ Len(K) <= MaxClients
      /\ Distinct(K) /\ MaxClients \in Nat
  BY SessionAssumption DEF Tracked
<1>4. IsFiniteSet(After(K, k)) /\ Cardinality(After(K, k)) \in Nat
      /\ Cardinality(After(K, k)) <= Len(K) - k
  <2> DEFINE S == SubSeq(K, k + 1, Len(K))
  <2>1. /\ S \in Seq(Clients) /\ Len(S) = Len(K) + 1 - (k + 1)
        /\ \A l \in 1..(Len(K) + 1 - (k + 1)) : S[l] = K[k + 1 + l - 1]
    <3>1. /\ k + 1 \in Nat \ {0} /\ Len(K) \in Nat /\ k + 1 <= Len(K) + 1 /\ Len(K) <= Len(K)
      BY <1>3
    <3> QED BY <1>3, <3>1, PartOfSeq
  <2> HIDE DEF S
  <2>2. k \in Nat /\ Len(S) = Len(K) - k /\ DOMAIN S = 1..(Len(K) - k)
    BY <1>3, <2>1
  <2>3. ASSUME NEW x
        PROVE  x \in Elements(S) <=> x \in After(K, k)
    <3>1. \A l \in 1..(Len(K) - k) : k + l \in (k + 1)..Len(K) /\ S[l] = K[k + l]
      <4>1. \A l \in 1..(Len(K) - k) :
              /\ k + l \in (k + 1)..Len(K)
              /\ l \in 1..(Len(K) + 1 - (k + 1)) /\ k + 1 + l - 1 = k + l
        BY <1>3, <2>2
      <4> QED BY <2>1, <4>1
    <3>2. \A l \in (k + 1)..Len(K) : l - k \in 1..(Len(K) - k) /\ k + (l - k) = l
      BY <1>3, <2>2
    <3>3. /\ x \in After(K, k) <=> \E l \in (k + 1)..Len(K) : x = K[l]
          /\ x \in Elements(S) <=> \E l \in 1..(Len(K) - k) : x = S[l]
      BY <2>2 DEF After, Elements
    <3> QED BY <3>1, <3>2, <3>3
  <2>4. Elements(S) = After(K, k)
    BY <2>3
  <2> QED BY <2>1, <2>2, <2>4, ElementsCounted
<1>5. Cardinality(After(K, k)) < MaxClients
  BY <1>3, <1>4
<1>6. ~(Cardinality(After(K, k)) >= MaxClients)
  BY <1>3, <1>4, <1>5
<1>7. ~Gone(log, d, i)
  BY <1>2, <1>6 DEF Gone, LosesPlace
<1> QED BY <1>2, <1>7

(* An event of c puts it at the end. *)
LEMMA TrackedNext ==
  ASSUME NEW log, NEW log1, NEW n, NEW c, OneMore(log, log1, n, c),
         NEW K, Tracked(log, K), NEW R, KeptWell(K, R, c)
  PROVE  Tracked(log1, Append(R, c)) /\ Len(Append(R, c)) = Len(R) + 1
<1> DEFINE K1 == Append(R, c)
<1>1. /\ n \in Nat /\ Len(log) = n /\ Len(log1) = n + 1 /\ c \in Clients
      /\ log \in Seq(Event) /\ log1 \in Seq(Event)
  BY OneMoreType
<1>2. /\ R \in Seq(Clients) /\ DOMAIN R = 1..Len(R) /\ Len(R) \in Nat
      /\ Distinct(R) /\ c \notin Elements(R) /\ Len(R) < MaxClients /\ MaxClients \in Nat
  BY SessionAssumption DEF KeptWell
<1>3. /\ K1 \in Seq(Clients) /\ Len(K1) = Len(R) + 1 /\ DOMAIN K1 = 1..(Len(R) + 1)
      /\ \A k \in 1..Len(R) : K1[k] = R[k]
      /\ K1[Len(R) + 1] = c
  BY <1>1, <1>2
<1> HIDE DEF K1
<1>4. \A d : d \in Elements(K1) <=> d \in Elements(R) \/ d = c
  <2>1. \A k : k \in 1..(Len(R) + 1) <=> k \in 1..Len(R) \/ k = Len(R) + 1
    BY <1>2
  <2> QED BY <1>2, <1>3, <2>1 DEF Elements
<1>5. Distinct(K1)
  <2>1. \A k \in 1..(Len(R) + 1) : k \in 1..Len(R) \/ k = Len(R) + 1
    BY <1>2
  <2>2. \A k \in 1..Len(R) : R[k] # c
    BY <1>2 DEF Elements
  <2> QED BY <1>2, <1>3, <2>1, <2>2 DEF Distinct
<1>6. ASSUME NEW k \in 1..Len(R), NEW d
      PROVE  d \in After(K1, k) <=> d \in After(R, k) \/ d = c
  <2>1. \A l : l \in (k + 1)..Len(K1) <=> l \in (k + 1)..Len(R) \/ l = Len(R) + 1
    BY <1>2, <1>3
  <2>2. \A l \in (k + 1)..Len(R) : K1[l] = R[l]
    BY <1>2, <1>3
  <2>3. /\ d \in After(K1, k) <=> \E l \in (k + 1)..Len(K1) : d = K1[l]
        /\ d \in After(R, k) <=> \E l \in (k + 1)..Len(R) : d = R[l]
    BY DEF After
  <2> QED BY <1>3, <2>1, <2>2, <2>3
<1>7. ASSUME NEW d, d # c
      PROVE  \A i : LastAt(log, d, i) <=> LastAt(log1, d, i)
  BY <1>7, EventsGrow DEF LastAt
<1>8. n + 1 + 1 = n + 2
  BY <1>1
<1>9. ASSUME NEW k \in DOMAIN K1
      PROVE  \E i \in EventsOf(log1, K1[k]) :
               LastAt(log1, K1[k], i) /\ Between(log1, i, Len(log1) + 1) = After(K1, k)
  <2>1. CASE k \in 1..Len(R)
    <3>1. PICK h \in DOMAIN K :
            /\ R[k] = K[h]
            /\ \A d : d # c => (d \in After(K, h) <=> d \in After(R, k))
      BY <1>2, <2>1 DEF KeptWell
    <3>2. PICK i \in EventsOf(log, K[h]) :
            LastAt(log, K[h], i) /\ Between(log, i, Len(log) + 1) = After(K, h)
      BY <3>1 DEF Tracked
    <3>3. K1[k] = R[k] /\ K[h] # c
      BY <1>2, <1>3, <2>1, <3>1 DEF Elements
    <3>4. LastAt(log1, K1[k], i) /\ i \in EventsOf(log1, K1[k]) /\ i \in 1..n
      BY <1>7, <3>1, <3>2, <3>3, EventsGrow DEF LastAt
    <3>5. Between(log1, i, n + 2) = Between(log, i, n + 1) \cup {c}
      <4>1. i \in Nat /\ i <= n
        BY <1>1, <3>4
      <4> QED BY <4>1, BetweenGrows
    <3>6. \A d : d \in Between(log1, i, n + 2) <=> d \in After(K1, k)
      BY <1>1, <1>6, <2>1, <3>1, <3>2, <3>5
    <3>7. Between(log1, i, n + 2) = After(K1, k)
      <4>1. /\ Between(log1, i, n + 2) \subseteq After(K1, k)
            /\ After(K1, k) \subseteq Between(log1, i, n + 2)
        BY <3>6
      <4> QED BY <4>1
    <3> QED BY <1>1, <1>8, <3>4, <3>7
  <2>2. CASE k = Len(R) + 1
    <3>1. n + 1 \in EventsOf(log1, c) /\ \A j \in EventsOf(log1, c) : j <= n + 1
      BY <1>1, EventsGrow
    <3>2. Between(log1, n + 1, n + 2) = {}
      <4>1. \A m : m \notin (n + 1 + 1)..(n + 2 - 1)
        BY <1>1
      <4> QED BY <1>1, <4>1 DEF Between
    <3>3. After(K1, k) = {}
      <4>1. (k + 1)..Len(K1) = {}
        BY <1>2, <1>3, <2>2
      <4> QED BY <4>1 DEF After
    <3> QED BY <1>1, <1>3, <1>8, <2>2, <3>1, <3>2, <3>3 DEF LastAt
  <2> QED BY <1>2, <1>3, <2>1, <2>2
<1>10. ASSUME NEW d \in Clients, d \notin Elements(K1), NEW i, LastAt(log1, d, i)
       PROVE  Gone(log1, d, i)
  <2>1. d # c /\ d \notin Elements(R)
    BY <1>4, <1>10
  <2>2. LastAt(log, d, i) /\ i \in EventsOf(log, d) /\ i \in 1..n
    BY <1>7, <1>10, <2>1, EventsGrow DEF LastAt
  <2>3. LosesPlace(log1, d, i, n + 2)
    <3>1. CASE d \notin Elements(K)
      <4>1. Gone(log, d, i)
        BY <2>2, <3>1 DEF Tracked
      <4> QED BY <1>1, <2>1, <2>2, <4>1, LossGrows DEF Gone
    <3>2. CASE d \in Elements(K)
      <4>1. /\ d = K[1] /\ Len(K) >= MaxClients /\ c \notin Elements(K)
            /\ Elements(R) \subseteq Elements(K) /\ Len(R) = Len(K) - 1
        BY <2>1, <3>2 DEF KeptWell
      <4>2. /\ Len(K) \in Nat /\ DOMAIN K = 1..Len(K) /\ Distinct(K) /\ Len(K) = MaxClients
            /\ 1 \in DOMAIN K
        BY <1>2, <4>1, SessionAssumption DEF Tracked
      <4>3. Between(log, i, n + 1) = After(K, 1)
        <5>1. PICK j \in EventsOf(log, d) :
                LastAt(log, d, j) /\ Between(log, j, Len(log) + 1) = After(K, 1)
          BY <4>1, <4>2 DEF Tracked
        <5>2. j = i
          BY <2>2, <5>1, EventsGrow DEF LastAt
        <5> QED BY <1>1, <5>1, <5>2
      <4>4. d \notin After(K, 1)
        <5>1. \A l \in 2..Len(K) : l \in DOMAIN K /\ l # 1
          BY <4>2
        <5> QED BY <4>1, <4>2, <5>1 DEF After, Distinct
      <4>5. Elements(K1) \subseteq After(K, 1) \cup {c}
        <5>1. SUFFICES ASSUME NEW x \in Elements(R)
                       PROVE  x \in After(K, 1)
          BY <1>4
        <5>2. PICK l \in DOMAIN K : x = K[l]
          BY <4>1 DEF Elements
        <5>3. l # 1
          BY <2>1, <4>1, <5>2
        <5>4. l \in (1 + 1)..Len(K)
          BY <4>2, <5>3
        <5> QED BY <5>2, <5>4 DEF After
      <4>6. IsFiniteSet(After(K, 1)) /\ IsFiniteSet(After(K, 1) \cup {c})
        <5>1. i \in Nat /\ n + 1 \in Nat /\ n + 1 <= Len(log) + 1
          BY <1>1, <2>2
        <5>2. IsFiniteSet(Between(log, i, n + 1))
          BY <1>1, <5>1, BetweenFinite
        <5> QED BY <4>3, <5>2, FS_AddElement
      <4>7. Cardinality(Elements(K1)) = MaxClients
        <5>1. Len(K1) = MaxClients
          BY <1>2, <1>3, <4>1, <4>2
        <5>2. \A k, l \in DOMAIN K1 : K1[k] = K1[l] => k = l
          BY <1>5 DEF Distinct
        <5> QED BY <1>3, <5>1, <5>2, ElementsCounted
      <4>8. Cardinality(Elements(K1)) <= Cardinality(After(K, 1) \cup {c})
        BY <4>5, <4>6, FS_Subset
      <4>9. Cardinality(After(K, 1) \cup {c}) \in Nat
        BY <4>6, FS_CardinalityType
      <4>10. Cardinality(After(K, 1) \cup {c}) >= MaxClients
        BY <1>2, <4>7, <4>8, <4>9
      <4>11. d \notin Between(log, i, n + 1) \cup {c}
             /\ Cardinality(Between(log, i, n + 1) \cup {c}) >= MaxClients
        BY <2>1, <4>3, <4>4, <4>10
      <4> QED BY <2>2, <4>11, LossGrows
    <3> QED BY <3>1, <3>2
  <2> QED BY <1>1, <1>8, <2>3 DEF Gone
<1>11. Len(K1) <= MaxClients
  BY <1>2, <1>3
<1>12. Tracked(log1, K1)
  BY <1>3, <1>5, <1>9, <1>10, <1>11 DEF Tracked
<1> QED BY <1>3, <1>12 DEF K1

-----------------------------------------------------------------------------
(* The first events of sessions. *)
Starts(log) == {i \in DOMAIN log : StartsSession(log, i)}

LEMMA StartsBefore ==
  ASSUME NEW log, NEW log1, NEW n, NEW c, OneMore(log, log1, n, c), NEW i \in 1..n
  PROVE  StartsSession(log1, i) <=> StartsSession(log, i)
<1> DEFINE d == log[i].client
<1>1. /\ n \in Nat /\ log1[i].client = d /\ \A j \in EventsOf(log, d) : j \in Nat
      /\ \A j : j < i => (j \in EventsOf(log1, d) <=> j \in EventsOf(log, d))
  <2>1. n \in Nat /\ log1[i].client = d
    BY OneMoreType
  <2> HIDE DEF d
  <2> QED BY <2>1, EventsGrow
<1>2. ASSUME NEW j \in EventsOf(log, d), j < i
      PROVE  Between(log1, j, i) = Between(log, j, i)
             /\ (LosesPlace(log1, d, j, i) <=> LosesPlace(log, d, j, i))
  <2>1. j \in Nat /\ i \in 0..(n + 1)
    BY <1>1
  <2>2. Between(log1, j, i) = Between(log, j, i)
    BY <2>1, BetweenGrows
  <2> HIDE DEF d
  <2> QED BY <2>2 DEF LosesPlace
<1>3. /\ StartsSession(log1, i)
           <=> \A j \in EventsOf(log1, d) :
                 j < i /\ d \notin Between(log1, j, i) => LosesPlace(log1, d, j, i)
      /\ StartsSession(log, i)
           <=> \A j \in EventsOf(log, d) :
                 j < i /\ d \notin Between(log, j, i) => LosesPlace(log, d, j, i)
  BY <1>1 DEF StartsSession
<1> HIDE DEF d
<1> QED BY <1>1, <1>2, <1>3

(* An event starts a session if its client is not tracked. *)
LEMMA StartsNow ==
  ASSUME NEW log, NEW log1, NEW n, NEW c, OneMore(log, log1, n, c), NEW K, Tracked(log, K)
  PROVE  StartsSession(log1, n + 1) <=> c \notin Elements(K)
<1>1. /\ n \in Nat /\ log1[n + 1].client = c /\ c \in Clients /\ Len(log) = n
      /\ log \in Seq(Event) /\ DOMAIN log = 1..n
  BY OneMoreType
<1>2. /\ EventsOf(log, c) \subseteq 1..n
      /\ \A j : j < n + 1 => (j \in EventsOf(log1, c) <=> j \in EventsOf(log, c))
  BY <1>1, EventsGrow
<1>3. \A j \in EventsOf(log, c) : Between(log1, j, n + 1) = Between(log, j, n + 1)
  <2>1. \A j \in EventsOf(log, c) : j \in Nat /\ n + 1 \in 0..(n + 1)
    BY <1>1, <1>2
  <2> QED BY <2>1, BetweenGrows
<1>4. StartsSession(log1, n + 1)
        <=> \A j \in EventsOf(log, c) :
              c \notin Between(log, j, n + 1) => LosesPlace(log, c, j, n + 1)
  <2>1. StartsSession(log1, n + 1)
          <=> \A j \in EventsOf(log1, c) :
                j < n + 1 /\ c \notin Between(log1, j, n + 1) => LosesPlace(log1, c, j, n + 1)
    BY <1>1 DEF StartsSession
  <2>2. \A j \in EventsOf(log, c) :
          j < n + 1 /\ (LosesPlace(log1, c, j, n + 1) <=> LosesPlace(log, c, j, n + 1))
    BY <1>1, <1>2, <1>3 DEF LosesPlace
  <2> QED BY <1>2, <1>3, <2>1, <2>2
<1>5. \A j \in EventsOf(log, c) : c \notin Between(log, j, n + 1) <=> LastAt(log, c, j)
  <2>1. SUFFICES ASSUME NEW j \in EventsOf(log, c)
                 PROVE  c \notin Between(log, j, n + 1) <=> LastAt(log, c, j)
    OBVIOUS
  <2>2. c \in Between(log, j, n + 1) <=> \E m \in (j + 1)..(n + 1 - 1) : c = log[m].client
    BY <1>1, <1>2 DEF Between
  <2>3. \A m : m \in (j + 1)..(n + 1 - 1) <=> m \in 1..n /\ m > j
    BY <1>1, <1>2
  <2>4. \A m \in 1..n : c = log[m].client <=> m \in EventsOf(log, c)
    BY <1>1 DEF EventsOf
  <2>5. \A m \in EventsOf(log, c) : m > j <=> ~(m <= j)
    BY <1>2
  <2> QED BY <1>2, <2>2, <2>3, <2>4, <2>5 DEF LastAt
<1>6. CASE c \in Elements(K)
  <2>1. PICK j \in EventsOf(log, c) : LastAt(log, c, j) /\ ~Gone(log, c, j)
    BY <1>1, <1>6, TrackedLives
  <2> QED BY <1>1, <1>4, <1>5, <1>6, <2>1 DEF Gone
<1>7. CASE c \notin Elements(K)
  <2>1. \A j \in EventsOf(log, c) : LastAt(log, c, j) => LosesPlace(log, c, j, n + 1)
    BY <1>1, <1>7 DEF Tracked, Gone
  <2> QED BY <1>4, <1>5, <1>7, <2>1
<1> QED BY <1>6, <1>7

LEMMA StartsCounted ==
  ASSUME NEW log, NEW log1, NEW n, NEW c, OneMore(log, log1, n, c), NEW K, Tracked(log, K)
  PROVE  /\ Cardinality(Starts(log)) \in Nat
         /\ Cardinality(Starts(log1))
              = IF c \in Elements(K) THEN Cardinality(Starts(log)) ELSE Cardinality(Starts(log)) + 1
<1>1. n \in Nat /\ DOMAIN log = 1..n /\ DOMAIN log1 = 1..(n + 1)
  BY OneMoreType
<1> DEFINE S == Starts(log)
<1>2. S \in SUBSET (1..n)
  BY <1>1 DEF Starts
<1>3. \A i : i \in Starts(log1) <=> i \in S \/ (i = n + 1 /\ c \notin Elements(K))
  <2>1. \A i : i \in 1..(n + 1) <=> i \in 1..n \/ i = n + 1
    BY <1>1
  <2> QED BY <1>1, <2>1, StartsBefore, StartsNow DEF Starts
<1> HIDE DEF S
<1>4. IsFiniteSet(S) /\ Cardinality(S) \in Nat /\ n + 1 \notin S
  <2>1. n + 1 \notin S
    BY <1>1, <1>2
  <2> QED BY <1>1, <1>2, <2>1, PositionsFinite
<1>5. CASE c \in Elements(K)
  <2>1. Starts(log1) = S
    BY <1>3, <1>5
  <2> QED BY <1>4, <1>5, <2>1 DEF S
<1>6. CASE c \notin Elements(K)
  <2>1. Starts(log1) = S \cup {n + 1}
    BY <1>3, <1>6
  <2>2. Cardinality(S \cup {n + 1}) = Cardinality(S) + 1
    BY <1>4, FS_AddElement
  <2> QED BY <1>4, <1>6, <2>1, <2>2 DEF S
<1> QED BY <1>5, <1>6

-----------------------------------------------------------------------------
(* The histories. *)
LEMMA WindowIsCompacted ==
  ASSUME NEW log, NEW d
  PROVE  RecentWindow(log, d) = Compacted(log, SessionOf(log, d))
  BY DEF RecentWindow, Compacted, Latest, Recent

LEMMA CompactedAgrees ==
  ASSUME NEW log, NEW log1, NEW n, NEW c, OneMore(log, log1, n, c), NEW S \in SUBSET (1..n)
  PROVE  Compacted(log1, S) = Compacted(log, S)
<1>1. \A i \in S : log1[i] = log[i]
  BY OneMoreType
<1>2. Recent(log1, S) = Recent(log, S)
  BY <1>1 DEF Recent
<1> DEFINE R == Recent(log, S)
<1>3. R \subseteq S
  BY DEF Recent
<1> HIDE DEF R
<1>4. \A i \in R : {j \in R : Before(log1, i, j)} = {j \in R : Before(log, i, j)}
  BY <1>1, <1>3 DEF Before
<1>5. Latest(log1, R) = Latest(log, R)
  BY <1>4 DEF Latest
<1> QED BY <1>2, <1>5 DEF Compacted, R

LEMMA SessionOfEvents ==
  ASSUME NEW log \in Seq(Event), NEW d
  PROVE  /\ SessionOf(log, d) \in SUBSET (1..Len(log)) /\ Len(log) \in Nat
         /\ RecentWindow(log, d) \in SUBSET SessionOf(log, d)
         /\ EventsOf(log, d) = {} => RecentWindow(log, d) = {}
         /\ SessionOf(log, d) = {} => RecentWindow(log, d) = {}
  BY DEF SessionOf, EventsOf, RecentWindow

(* The client of the new event: what is kept of its session is enough. *)
LEMMA OwnHistory ==
  ASSUME NEW log, NEW log1, NEW n, NEW c, OneMore(log, log1, n, c)
  PROVE  Latest(log1, Recent(log1, RecentWindow(log, c) \cup {n + 1})) = RecentWindow(log1, c)
<1> DEFINE S == SessionOf(log, c)
<1>1. S \in SUBSET (1..n) /\ n \in Nat
  BY OneMoreType, SessionOfEvents
<1>2. SessionOf(log1, c) = S \cup {n + 1}
  BY SessionJoined
<1> HIDE DEF S
<1>3. RecentWindow(log, c) = Compacted(log1, S)
  BY <1>1, CompactedAgrees, WindowIsCompacted DEF S
<1>4. Timed(log1, S) /\ Timed(log1, {n + 1}) /\ IsFiniteSet(S)
  <2>1. \A i \in 1..(n + 1) : log1[i] \in Event
    BY OneMoreType
  <2>2. \A i \in 1..(n + 1) : log1[i].at \in Nat
    BY <2>1, SessionAssumption DEF Event
  <2> QED BY <1>1, <2>2, PositionsFinite DEF Timed
<1>5. Compacted(log1, Compacted(log1, S) \cup {n + 1}) = Compacted(log1, S \cup {n + 1})
  <2>1. Latest(log1, Cut(log1, S, n + 1)) = Latest(log1, Whole(log1, S, n + 1))
    BY <1>4, Compaction
  <2> QED BY <2>1 DEF Compacted, Cut, Whole
<1>6. Compacted(log1, S \cup {n + 1}) = RecentWindow(log1, c)
  BY <1>2, WindowIsCompacted
<1>7. Compacted(log1, RecentWindow(log, c) \cup {n + 1}) = RecentWindow(log1, c)
  BY <1>3, <1>5, <1>6
<1> QED BY <1>7 DEF Compacted

(* The others: a history is untouched or forgotten. *)
LEMMA OtherHistory ==
  ASSUME NEW log, NEW log1, NEW n, NEW c, OneMore(log, log1, n, c), NEW K1, Tracked(log1, K1),
         NEW d \in Clients, d # c
  PROVE  RecentWindow(log1, d) = IF d \in Elements(K1) THEN RecentWindow(log, d) ELSE {}
<1>1. log \in Seq(Event) /\ log1 \in Seq(Event) /\ n \in Nat /\ Len(log) = n
  BY OneMoreType
<1>2. CASE d \in Elements(K1)
  <2>1. PICK i \in EventsOf(log1, d) : LastAt(log1, d, i) /\ ~Gone(log1, d, i)
    BY <1>1, <1>2, TrackedLives
  <2>2. LastAt(log, d, i)
    BY <2>1, EventsGrow DEF LastAt
  <2>3. SessionOf(log1, d) = SessionOf(log, d)
    BY <2>1, <2>2, SessionStays
  <2>4. SessionOf(log, d) \in SUBSET (1..n)
    BY <1>1, SessionOfEvents
  <2>5. Compacted(log1, SessionOf(log, d)) = Compacted(log, SessionOf(log, d))
    BY <2>4, CompactedAgrees
  <2> QED BY <1>2, <2>3, <2>5, WindowIsCompacted
<1>3. CASE d \notin Elements(K1)
  <2>1. CASE EventsOf(log1, d) = {}
    BY <1>1, <1>3, <2>1, SessionOfEvents
  <2>2. CASE EventsOf(log1, d) # {}
    <3>1. PICK i \in EventsOf(log1, d) : LastAt(log1, d, i)
      BY <1>1, <2>2, HasLast
    <3>2. Gone(log1, d, i)
      BY <1>3, <3>1 DEF Tracked
    <3>3. SessionOf(log1, d) = {}
      BY <1>1, <3>1, <3>2, SessionLives
    <3> QED BY <1>1, <1>3, <3>3, SessionOfEvents
  <2> QED BY <2>1, <2>2
<1> QED BY <1>2, <1>3

-----------------------------------------------------------------------------
(***************************************************************************)
(* The invariant of a detector's state, and that update keeps it.           *)
(***************************************************************************)
SessionOK(s) ==
  /\ s \in SessionState
  /\ Tracked(s.log, s.clients)
  /\ \A c \in Clients : s.histories[c] = RecentWindow(s.log, c)
  /\ s.evicted + Len(s.clients) = Cardinality(Starts(s.log))

LEMMA NewSessionOK == SessionOK(NewSession)
<1> DEFINE s == NewSession
           none == <<>>
<1>1. /\ s.log = none /\ s.clients = none /\ s.histories = [c \in Clients |-> {}]
      /\ s.evicted = 0 /\ s \in SessionState
  BY DEF NewSession, SessionState
<1>2. /\ none \in Seq(Event) /\ none \in Seq(Clients) /\ Len(none) = 0 /\ DOMAIN none = {}
  OBVIOUS
<1> HIDE DEF s, none
<1>3. \A c \in Clients : EventsOf(none, c) = {} /\ RecentWindow(none, c) = {}
  <2>1. \A c \in Clients : EventsOf(none, c) = {}
    BY <1>2 DEF EventsOf
  <2> QED BY <1>2, <2>1, SessionOfEvents
<1>4. Tracked(none, none)
  BY <1>2, <1>3, SessionAssumption DEF Tracked, Distinct
<1>5. Cardinality(Starts(none)) = 0
  <2>1. Starts(none) = {}
    BY <1>2 DEF Starts
  <2> QED BY <2>1, FS_EmptySet
<1> QED BY <1>1, <1>2, <1>3, <1>4, <1>5 DEF SessionOK, s

(***************************************************************************)
(* One update (session.py:41-71), of any state the detector can be in.      *)
(***************************************************************************)
THEOREM UpdateKeepsSession ==
  ASSUME NEW s, SessionOK(s), NEW e \in Event
  PROVE  /\ SessionOK(Update(s, e))
         /\ Update(s, e).log = Append(s.log, e)
         /\ Update(s, e).histories[e.client] = RecentWindow(Append(s.log, e), e.client)
<1> DEFINE c == e.client
           n == Len(s.log)
           log1 == Append(s.log, e)
           R == Kept(s, c)
           K1 == Append(R, c)
           t == Update(s, e)
<1>1. /\ s.log \in Seq(Event) /\ s.clients \in Seq(Clients) /\ s.evicted \in Nat
      /\ s.histories \in [Clients -> SUBSET Nat] /\ c \in Clients /\ n \in Nat
  BY DEF SessionOK, SessionState, Event
<1>2. OneMore(s.log, log1, n, c)
  BY <1>1, LogGrows
<1>3. log1 \in Seq(Event) /\ Len(log1) = n + 1
  BY <1>1
<1>4. /\ t.log = log1 /\ t.clients = K1
      /\ t.histories = [d \in Clients |->
           IF d = c THEN Latest(log1, Recent(log1, s.histories[d] \cup {Len(log1)}))
           ELSE IF d \in Elements(R) THEN s.histories[d] ELSE {}]
      /\ t.evicted = IF Evicts(s, c) THEN s.evicted + 1 ELSE s.evicted
      /\ t = [log |-> t.log, clients |-> t.clients, histories |-> t.histories,
              evicted |-> t.evicted]
  BY DEF Update
<1> HIDE DEF t, log1, n
<1>5. Tracked(s.log, s.clients) /\ KeptWell(s.clients, R, c)
  <2>1. Tracked(s.log, s.clients)
    BY DEF SessionOK
  <2>2. Distinct(s.clients) /\ Len(s.clients) <= MaxClients
    BY <2>1 DEF Tracked
  <2> QED BY <1>1, <2>1, <2>2, KeptIsWell
<1>6. Tracked(log1, K1) /\ Len(K1) = Len(R) + 1
  BY <1>2, <1>5, TrackedNext
<1> HIDE DEF R
<1>7. R \in Seq(Clients) /\ Len(R) \in Nat /\ Len(s.clients) \in Nat /\ K1 \in Seq(Clients)
      /\ c \notin Elements(R)
  BY <1>1, <1>5, <1>6 DEF KeptWell, Tracked
<1>8. \A d \in Clients : d # c => (d \in Elements(K1) <=> d \in Elements(R))
  <2>1. /\ DOMAIN R = 1..Len(R) /\ DOMAIN K1 = 1..(Len(R) + 1)
        /\ \A k \in 1..Len(R) : K1[k] = R[k]
        /\ K1[Len(R) + 1] = c
    BY <1>1, <1>7
  <2>2. \A k : k \in 1..(Len(R) + 1) <=> k \in 1..Len(R) \/ k = Len(R) + 1
    BY <1>7
  <2> HIDE DEF K1, c
  <2> QED BY <2>1, <2>2 DEF Elements
<1> HIDE DEF K1, c
<1>9. t.histories[c] = RecentWindow(log1, c)
  <2>1. t.histories[c] = Latest(log1, Recent(log1, RecentWindow(s.log, c) \cup {n + 1}))
    BY <1>1, <1>3, <1>4 DEF SessionOK
  <2> QED BY <1>2, <2>1, OwnHistory
<1>10. ASSUME NEW d \in Clients, d # c
       PROVE  t.histories[d] = RecentWindow(log1, d)
  <2>1. t.histories[d] = IF d \in Elements(K1) THEN RecentWindow(s.log, d) ELSE {}
    BY <1>4, <1>8, <1>10 DEF SessionOK
  <2> QED BY <1>2, <1>6, <1>10, <2>1, OtherHistory
<1>11. t.evicted \in Nat /\ t.evicted + Len(K1) = Cardinality(Starts(log1))
  <2>1. /\ Cardinality(Starts(s.log)) \in Nat
        /\ Cardinality(Starts(log1))
             = IF c \in Elements(s.clients) THEN Cardinality(Starts(s.log))
               ELSE Cardinality(Starts(s.log)) + 1
    BY <1>2, <1>5, StartsCounted
  <2>2. s.evicted + Len(s.clients) = Cardinality(Starts(s.log))
    BY DEF SessionOK
  <2>3. Len(R) = IF c \in Elements(s.clients) \/ Len(s.clients) >= MaxClients
                   THEN Len(s.clients) - 1 ELSE Len(s.clients)
    BY <1>5 DEF KeptWell
  <2>4. t.evicted = IF c \notin Elements(s.clients) /\ Len(s.clients) >= MaxClients
                      THEN s.evicted + 1 ELSE s.evicted
    BY <1>4 DEF Evicts
  <2>5. CASE c \in Elements(s.clients)
    BY <1>1, <1>6, <1>7, <2>1, <2>2, <2>3, <2>4, <2>5
  <2>6. CASE c \notin Elements(s.clients) /\ Len(s.clients) >= MaxClients
    BY <1>1, <1>6, <1>7, <2>1, <2>2, <2>3, <2>4, <2>6
  <2>7. CASE c \notin Elements(s.clients) /\ ~(Len(s.clients) >= MaxClients)
    BY <1>1, <1>6, <1>7, <2>1, <2>2, <2>3, <2>4, <2>7
  <2> QED BY <2>5, <2>6, <2>7
<1>12. \A d \in Clients : t.histories[d] = RecentWindow(log1, d)
  BY <1>9, <1>10
<1>13. t.histories \in [Clients -> SUBSET Nat]
  <2>1. \A d : RecentWindow(log1, d) \in SUBSET Nat
    BY <1>3, SessionOfEvents
  <2> DEFINE F(d) == IF d = c
                       THEN Latest(log1, Recent(log1, s.histories[d] \cup {Len(log1)}))
                     ELSE IF d \in Elements(R) THEN s.histories[d] ELSE {}
  <2>2. t.histories = [d \in Clients |-> F(d)]
    BY <1>4
  <2> HIDE DEF F
  <2> QED BY <1>12, <2>1, <2>2
<1>14. t \in SessionState
  BY <1>3, <1>4, <1>7, <1>11, <1>13 DEF SessionState
<1>15. SessionOK(t)
  BY <1>4, <1>6, <1>11, <1>12, <1>14 DEF SessionOK
<1> QED BY <1>1, <1>4, <1>9, <1>15 DEF t, log1, c

(* What is tracked, told from the log alone. *)
LEMMA TrackedSessions ==
  ASSUME NEW s, SessionOK(s)
  PROVE  /\ Elements(s.clients) = {c \in Clients : SessionOf(s.log, c) # {}}
         /\ s.evicted + Len(s.clients)
              = Cardinality({i \in DOMAIN s.log : StartsSession(s.log, i)})
<1>1. /\ s.log \in Seq(Event) /\ s.clients \in Seq(Clients) /\ Tracked(s.log, s.clients)
  BY DEF SessionOK, SessionState
<1>2. Elements(s.clients) \subseteq Clients
  BY <1>1 DEF Elements
<1>3. ASSUME NEW d \in Clients
      PROVE  d \in Elements(s.clients) <=> SessionOf(s.log, d) # {}
  <2>1. CASE d \in Elements(s.clients)
    <3>1. PICK i \in EventsOf(s.log, d) : LastAt(s.log, d, i) /\ ~Gone(s.log, d, i)
      BY <1>1, <2>1, TrackedLives
    <3> QED BY <1>1, <2>1, <3>1, SessionLives
  <2>2. CASE d \notin Elements(s.clients) /\ EventsOf(s.log, d) # {}
    <3>1. PICK i \in EventsOf(s.log, d) : LastAt(s.log, d, i)
      BY <1>1, <2>2, HasLast
    <3>2. Gone(s.log, d, i)
      BY <1>1, <2>2, <3>1 DEF Tracked
    <3> QED BY <1>1, <2>2, <3>1, <3>2, SessionLives
  <2>3. CASE d \notin Elements(s.clients) /\ EventsOf(s.log, d) = {}
    BY <2>3 DEF SessionOf
  <2> QED BY <2>1, <2>2, <2>3
<1>4. Elements(s.clients) = {c \in Clients : SessionOf(s.log, c) # {}}
  BY <1>2, <1>3
<1> QED BY <1>4 DEF SessionOK, Starts
=============================================================================
