---------------------------- MODULE AnalysisProofs ----------------------------
(***************************************************************************)
(* What holds of the analysis service for any connections, scripts and      *)
(* limits: the histories are those of an unbounded record, and each answer  *)
(* is the one its request alone should have.                                *)
(*                                                                         *)
(* The invariant (ConnectionOK) says of each connection by itself what is   *)
(* on the wire at each stage of its thread, and how far the batch has come; *)
(* a step of one connection leaves that of every other as it is.  It says   *)
(* nothing of the wire any more once an answer has left lines unread that   *)
(* read as requests (Loose): what comes then is not the client's choice.    *)
(***************************************************************************)
EXTENDS AnalysisService, SessionProofs

-----------------------------------------------------------------------------
(* The lines of a batch. *)
LEMMA LinesApart ==
  /\ Blank \in Lines /\ Binary \in Lines /\ Event \subseteq Lines /\ BadLines \subseteq Lines
  /\ Raising \in Lines /\ Malformed \in BadLines /\ RequestLines \subseteq BadLines
  /\ \A e \in Event : e # Blank /\ e # Binary /\ e # Raising /\ e \notin BadLines
  /\ \A b \in BadLines : b # Blank /\ b # Binary /\ b # Raising
  /\ Blank # Binary /\ Blank # Raising
  /\ Pieces \subseteq Lines /\ Pieces \cap RequestLines = {}
<1>1. \A e \in Event : DOMAIN e = {"client", "at"}
  BY DEF Event
<1>2. DOMAIN Blank = {"other"} /\ DOMAIN Binary = {"other"} /\ DOMAIN Raising = {"other"}
      /\ DOMAIN Malformed = {"other"}
      /\ (\A b \in BadLines : DOMAIN b = {"other"} \/ DOMAIN b = {"asks"})
      /\ \A b \in RequestLines : DOMAIN b = {"asks"}
  BY DEF Blank, Binary, Raising, Malformed, BadLines, RequestLines
<1>3. Blank.other = "blank" /\ Binary.other = "binary" /\ Raising.other = "raising"
      /\ \A b \in BadLines : DOMAIN b = {"other"} => b.other \in {"malformed", "long"}
  <2>1. ASSUME NEW S, NEW b \in [other : S] PROVE b.other \in S
    OBVIOUS
  <2>2. \A b \in RequestLines : DOMAIN b # {"other"}
    BY <1>2
  <2> QED BY <2>1, <2>2 DEF Blank, Binary, Raising, BadLines
<1>4. {"client", "at"} # {"other"} /\ {"client", "at"} # {"asks"} /\ {"asks"} # {"other"}
  OBVIOUS
<1>5. Blank \in Lines /\ Binary \in Lines /\ Event \subseteq Lines /\ BadLines \subseteq Lines
      /\ Raising \in Lines /\ Malformed \in BadLines /\ RequestLines \subseteq BadLines
  BY DEF Lines, Malformed, BadLines
<1>6. \A e \in Event : e # Blank /\ e # Binary /\ e # Raising /\ e \notin BadLines
  BY <1>1, <1>2, <1>4
<1>7. \A b \in BadLines : b # Blank /\ b # Binary /\ b # Raising
  BY <1>2, <1>3
<1>8. Blank # Binary /\ Blank # Raising
  BY <1>3
<1>9. Pieces \subseteq Lines /\ Pieces \cap RequestLines = {}
  BY <1>2, <1>4, <1>5 DEF Pieces
<1> QED BY <1>5, <1>6, <1>7, <1>8, <1>9

(* The first n lines of a body. *)
Prefix(body, n) == SubSeq(body, 1, n)

LEMMA PrefixOf ==
  ASSUME NEW S, NEW body \in Seq(S), NEW n \in 0..Len(body)
  PROVE  /\ Prefix(body, n) \in Seq(S) /\ Len(Prefix(body, n)) = n
         /\ DOMAIN Prefix(body, n) = 1..n
         /\ \A i \in 1..n : Prefix(body, n)[i] = body[i]
  BY DEF Prefix

(* The events of a body, by rank. *)
EventsOfBody(body) == Positions(body, Event)

LEMMA EventsFinite ==
  ASSUME NEW body \in Seq(Lines)
  PROVE  /\ EventsOfBody(body) \in SUBSET (1..Len(body))
         /\ IsFiniteSet(EventsOfBody(body)) /\ Cardinality(EventsOfBody(body)) \in Nat
         /\ \A i : /\ IsFiniteSet({j \in EventsOfBody(body) : j < i})
                   /\ EventsBefore(body, i) \in Nat
                   /\ EventsBefore(body, i) = Cardinality({j \in EventsOfBody(body) : j < i})
<1>1. EventsOfBody(body) \in SUBSET (1..Len(body)) /\ Len(body) \in Nat
  BY DEF EventsOfBody, Positions
<1>2. \A T \in SUBSET (1..Len(body)) : IsFiniteSet(T) /\ Cardinality(T) \in Nat
  BY <1>1, PositionsFinite
<1>3. ASSUME NEW i
      PROVE  /\ IsFiniteSet({j \in EventsOfBody(body) : j < i})
             /\ EventsBefore(body, i) = Cardinality({j \in EventsOfBody(body) : j < i})
             /\ EventsBefore(body, i) \in Nat
  <2>1. {j \in EventsOfBody(body) : j < i} \in SUBSET (1..Len(body))
    BY <1>1
  <2>2. EventsBefore(body, i) = Cardinality({j \in EventsOfBody(body) : j < i})
    BY DEF EventsBefore, EventsOfBody
  <2> QED BY <1>2, <2>1, <2>2
<1> QED BY <1>1, <1>2, <1>3

LEMMA RanksGrow ==
  ASSUME NEW body \in Seq(Lines), NEW i \in EventsOfBody(body), NEW k, i < k,
         k \in EventsOfBody(body) \/ k = Len(body) + 1
  PROVE  EventsBefore(body, i) < EventsBefore(body, k)
<1> DEFINE E == EventsOfBody(body)
           A == {j \in E : j < i}
           B == {j \in E : j < k}
<1>1. E \in SUBSET (1..Len(body)) /\ IsFiniteSet(B) /\ IsFiniteSet(A)
      /\ EventsBefore(body, i) = Cardinality(A) /\ EventsBefore(body, i) \in Nat
      /\ EventsBefore(body, k) = Cardinality(B) /\ EventsBefore(body, k) \in Nat
  BY EventsFinite
<1>2. i \in B /\ i \notin A /\ A \subseteq B
  <2>1. Len(body) \in Nat
    OBVIOUS
  <2>2. i \in Nat /\ k \in Nat /\ \A j \in E : j \in Nat
    BY <1>1, <2>1
  <2>3. i \in E /\ ~(i < i) /\ \A j \in E : j < i => j < k
    BY <2>2
  <2> HIDE DEF E
  <2> QED BY <2>3
<1> HIDE DEF A, B
<1>3. Cardinality(A) <= Cardinality(B) /\ Cardinality(A) # Cardinality(B)
  BY <1>1, <1>2, FS_Subset
<1> QED BY <1>1, <1>3

LEMMA AllRanked ==
  ASSUME NEW body \in Seq(Lines), NEW m \in 1..Cardinality(EventsOfBody(body))
  PROVE  \E i \in EventsOfBody(body) : EventsBefore(body, i) = m - 1
<1> DEFINE E == EventsOfBody(body)
           n == Cardinality(E)
           f == [i \in E |-> EventsBefore(body, i) + 1]
<1>1. E \in SUBSET (1..Len(body)) /\ Len(body) \in Nat /\ n \in Nat /\ IsFiniteSet(E)
      /\ \A i : EventsBefore(body, i) \in Nat
  <2>1. Len(body) \in Nat
    OBVIOUS
  <2> QED BY <2>1, EventsFinite
<1>2. EventsBefore(body, Len(body) + 1) = n
  <2>1. {j \in E : j < Len(body) + 1} = E
    BY <1>1
  <2> QED BY <2>1, EventsFinite
<1>3. \A i \in E : EventsBefore(body, i) < n
  <2>1. \A i \in E : i < Len(body) + 1
    BY <1>1
  <2> QED BY <1>2, <2>1, RanksGrow
<1>4. \A i \in E, k \in E : i # k => EventsBefore(body, i) # EventsBefore(body, k)
  <2>1. \A i \in E, k \in E : i # k => i < k \/ k < i
    BY <1>1
  <2>2. \A i \in E, k \in E : i < k => EventsBefore(body, i) < EventsBefore(body, k)
    BY RanksGrow
  <2> QED BY <1>1, <2>1, <2>2
<1> HIDE DEF E, n
<1>5. f \in Injection(E, 1..n)
  <2>1. f \in [E -> 1..n]
    BY <1>1, <1>3
  <2>2. \A i \in E, k \in E : f[i] = f[k] => i = k
    BY <1>1, <1>4
  <2> QED BY <2>1, <2>2 DEF Injection, IsInjective
<1>6. IsFiniteSet(1..n) /\ Cardinality(1..n) = n
  <2>1. n \in Int /\ 1 \in Int /\ n \in Nat
    BY <1>1
  <2>2. IsFiniteSet(1..n) /\ Cardinality(1..n) = IF 1 > n THEN 0 ELSE n - 1 + 1
    BY <2>1, FS_Interval
  <2>3. (IF 1 > n THEN 0 ELSE n - 1 + 1) = n
    BY <2>1
  <2> QED BY <2>2, <2>3
<1>7. f \in Surjection(E, 1..n)
  <2>1. Cardinality(E) = Cardinality(1..n)
    BY <1>6 DEF n
  <2> HIDE DEF f
  <2> QED BY <1>5, <1>6, <2>1, FS_Injection
<1>8. m \in 1..n
  BY DEF n, E
<1>9. PICK i \in E : f[i] = m
  BY <1>7, <1>8 DEF Surjection
<1>10. EventsBefore(body, i) = m - 1
  BY <1>1, <1>8, <1>9
<1> QED BY <1>10 DEF E

(* The log of a body is made of its events, in their order. *)
LEMMA LogOfBody ==
  ASSUME NEW body \in Seq(Lines)
  PROVE  /\ Log(body) \in Seq(Event) /\ Len(Log(body)) = Cardinality(EventsOfBody(body))
         /\ \A i \in EventsOfBody(body) :
              /\ EventsBefore(body, i) + 1 \in 1..Len(Log(body))
              /\ Log(body)[EventsBefore(body, i) + 1] = body[i]
<1> DEFINE E == EventsOfBody(body)
           n == Cardinality(E)
           at(m) == CHOOSE i \in E : EventsBefore(body, i) = m - 1
<1>1. E \in SUBSET (1..Len(body)) /\ Len(body) \in Nat /\ n \in Nat
      /\ \A i : EventsBefore(body, i) \in Nat
  <2>1. Len(body) \in Nat
    OBVIOUS
  <2> QED BY <2>1, EventsFinite
<1>2. \A m \in 1..n : at(m) \in E /\ EventsBefore(body, at(m)) = m - 1
  BY AllRanked
<1>3. Log(body) = [m \in 1..n |-> body[at(m)]]
  BY DEF Log, EventsOfBody
<1>4. \A i \in E : body[i] \in Event
  BY DEF EventsOfBody, Positions
<1> HIDE DEF n, at
<1>5. /\ Log(body) \in [1..n -> Event] /\ Log(body) \in Seq(Event) /\ Len(Log(body)) = n
      /\ \A m \in 1..n : Log(body)[m] = body[at(m)]
  BY <1>1, <1>2, <1>3, <1>4
<1>6. ASSUME NEW i \in E
      PROVE  EventsBefore(body, i) + 1 \in 1..n /\ body[at(EventsBefore(body, i) + 1)] = body[i]
  <2>1. EventsBefore(body, i) < n
    <3>1. i < Len(body) + 1
      BY <1>1
    <3>2. EventsBefore(body, Len(body) + 1) = n
      <4>1. {j \in E : j < Len(body) + 1} = E
        BY <1>1
      <4> QED BY <4>1, EventsFinite DEF n
    <3> QED BY <3>1, <3>2, RanksGrow
  <2>2. EventsBefore(body, i) + 1 \in 1..n
    BY <1>1, <2>1
  <2> DEFINE k == at(EventsBefore(body, i) + 1)
  <2>3. k \in E /\ EventsBefore(body, k) = EventsBefore(body, i)
    BY <1>1, <1>2, <2>2
  <2> HIDE DEF k
  <2>4. k = i
    <3>1. k = i \/ k < i \/ i < k
      BY <1>1, <2>3
    <3>2. k < i => EventsBefore(body, k) < EventsBefore(body, i)
      BY <2>3, RanksGrow
    <3>3. i < k => EventsBefore(body, i) < EventsBefore(body, k)
      BY <2>3, RanksGrow
    <3> QED BY <1>1, <2>3, <3>1, <3>2, <3>3
  <2> QED BY <2>2, <2>4 DEF k
<1> QED BY <1>5, <1>6 DEF n

(* The ranks of the events do not depend on what follows them, and the log of
   the first k lines is told by the ranks of the body. *)
LEMMA PrefixLog ==
  ASSUME NEW body \in Seq(Lines), NEW k \in 0..Len(body)
  PROVE  /\ Log(Prefix(body, k)) \in Seq(Event)
         /\ Len(Log(Prefix(body, k))) = EventsBefore(body, k + 1)
         /\ EventsBefore(body, k + 1) \in Nat
         /\ \A i \in EventsOfBody(body) : i <= k =>
              /\ EventsBefore(body, i) + 1 \in 1..Len(Log(Prefix(body, k)))
              /\ Log(Prefix(body, k))[EventsBefore(body, i) + 1] = body[i]
         /\ \A m \in 1..Len(Log(Prefix(body, k))) :
              \E i \in EventsOfBody(body) : i <= k /\ EventsBefore(body, i) = m - 1
<1> DEFINE P == Prefix(body, k)
           E == EventsOfBody(body)
           F == EventsOfBody(P)
<1>1. P \in Seq(Lines) /\ Len(P) = k /\ k \in Nat /\ Len(body) \in Nat
      /\ DOMAIN P = 1..k /\ \A i \in 1..k : P[i] = body[i]
  BY PrefixOf
<1>2. \A i : i \in F <=> i \in E /\ i <= k
  <2>1. \A i : i \in F <=> i \in 1..k /\ P[i] \in Event
    BY <1>1 DEF EventsOfBody, Positions
  <2>2. \A i : i \in E <=> i \in 1..Len(body) /\ body[i] \in Event
    BY DEF EventsOfBody, Positions
  <2>3. \A i : i \in 1..k <=> i \in 1..Len(body) /\ i <= k
    BY <1>1
  <2> QED BY <1>1, <2>1, <2>2, <2>3
<1>3. \A i \in E : i \in 1..Len(body)
  BY DEF EventsOfBody, Positions
<1>4. ASSUME NEW i \in 1..(k + 1)
      PROVE  EventsBefore(P, i) = EventsBefore(body, i) /\ EventsBefore(P, i) \in Nat
  <2>1. {j \in F : j < i} = {j \in E : j < i}
    <3>1. \A j \in E : j < i => j <= k
      BY <1>1, <1>3
    <3> QED BY <1>2, <3>1
  <2> HIDE DEF P, E, F
  <2>2. EventsBefore(P, i) = Cardinality({j \in F : j < i}) /\ EventsBefore(P, i) \in Nat
    BY <1>1, EventsFinite DEF F
  <2>3. EventsBefore(body, i) = Cardinality({j \in E : j < i})
    BY EventsFinite DEF E
  <2> QED BY <2>1, <2>2, <2>3
<1>5. EventsBefore(P, k + 1) = Cardinality(F)
  <2>1. {j \in F : j < k + 1} = F
    BY <1>1, <1>2, <1>3
  <2> HIDE DEF P
  <2>2. EventsBefore(P, k + 1) = Cardinality({j \in F : j < k + 1})
    BY <1>1, EventsFinite
  <2> QED BY <2>1, <2>2
<1> HIDE DEF P
<1>6. /\ Log(P) \in Seq(Event) /\ Len(Log(P)) = Cardinality(F)
      /\ \A i \in F : /\ EventsBefore(P, i) + 1 \in 1..Len(Log(P))
                      /\ Log(P)[EventsBefore(P, i) + 1] = P[i]
  BY <1>1, LogOfBody
<1>7. \A m \in 1..Cardinality(F) : \E i \in F : EventsBefore(P, i) = m - 1
  BY <1>1, AllRanked
<1>8. k + 1 \in 1..(k + 1) /\ \A i \in F : i \in 1..(k + 1) /\ i \in 1..k
  BY <1>1, <1>2, <1>3
<1>9. Len(Log(P)) = EventsBefore(body, k + 1) /\ EventsBefore(body, k + 1) \in Nat
  BY <1>4, <1>5, <1>6, <1>8
<1>10. ASSUME NEW i \in E, i <= k
       PROVE  /\ EventsBefore(body, i) + 1 \in 1..Len(Log(P))
              /\ Log(P)[EventsBefore(body, i) + 1] = body[i]
  <2>1. i \in F
    BY <1>2, <1>10
  <2>2. EventsBefore(P, i) = EventsBefore(body, i) /\ P[i] = body[i]
    BY <1>1, <1>4, <1>8, <2>1
  <2> QED BY <1>6, <2>1, <2>2
<1>11. \A m \in 1..Len(Log(P)) : \E i \in E : i <= k /\ EventsBefore(body, i) = m - 1
  <2>1. \A i \in F : i \in E /\ i <= k /\ EventsBefore(P, i) = EventsBefore(body, i)
    BY <1>2, <1>4, <1>8
  <2> QED BY <1>6, <1>7, <2>1
<1> QED BY <1>6, <1>9, <1>10, <1>11 DEF P

(* One line more: an event is put at the end of the log, another line leaves it
   as it is. *)
LEMMA LogAppend ==
  ASSUME NEW body \in Seq(Lines), NEW k \in Nat, k < Len(body)
  PROVE  /\ k \in 0..Len(body) /\ k + 1 \in 0..Len(body) /\ k + 1 \in 1..Len(body)
         /\ body[k + 1] \in Event =>
              Log(Prefix(body, k + 1)) = Append(Log(Prefix(body, k)), body[k + 1])
         /\ body[k + 1] \notin Event => Log(Prefix(body, k + 1)) = Log(Prefix(body, k))
<1> DEFINE E == EventsOfBody(body)
           log == Log(Prefix(body, k))
           log1 == Log(Prefix(body, k + 1))
<1>1. k \in 0..Len(body) /\ k + 1 \in 0..Len(body) /\ k + 1 \in 1..Len(body)
  BY DEF Lines
<1>2. /\ log \in Seq(Event) /\ Len(log) = EventsBefore(body, k + 1)
      /\ EventsBefore(body, k + 1) \in Nat
      /\ \A i \in E : i <= k =>
           EventsBefore(body, i) + 1 \in 1..Len(log) /\ log[EventsBefore(body, i) + 1] = body[i]
      /\ \A m \in 1..Len(log) : \E i \in E : i <= k /\ EventsBefore(body, i) = m - 1
  BY <1>1, PrefixLog
<1>3. /\ log1 \in Seq(Event)
      /\ \A i \in E : i <= k + 1 =>
           EventsBefore(body, i) + 1 \in 1..Len(log1) /\ log1[EventsBefore(body, i) + 1] = body[i]
      /\ \A m \in 1..Len(log1) : \E i \in E : i <= k + 1 /\ EventsBefore(body, i) = m - 1
  BY <1>1, PrefixLog
<1>4. (k + 1 \in E <=> body[k + 1] \in Event) /\ \A i \in E : i \in 1..Len(body)
  BY <1>1 DEF EventsOfBody, Positions
<1>5. \A i \in E : i <= k + 1 => i <= k \/ i = k + 1
  BY <1>4
<1>6. \A i \in E : i <= k => i <= k + 1
  BY <1>4
<1> HIDE DEF E, log, log1
<1>7. \A m \in 1..Len(log) : m \in 1..Len(log1) /\ log1[m] = log[m]
  <2> SUFFICES ASSUME NEW m \in 1..Len(log)
               PROVE  m \in 1..Len(log1) /\ log1[m] = log[m]
    OBVIOUS
  <2>1. PICK i \in E : i <= k /\ EventsBefore(body, i) = m - 1
    BY <1>2
  <2>2. EventsBefore(body, i) + 1 = m
    BY <2>1
  <2> QED BY <1>2, <1>3, <1>6, <2>1, <2>2
<1>8. CASE body[k + 1] \in Event
  <2>1. Len(log) + 1 \in 1..Len(log1) /\ log1[Len(log) + 1] = body[k + 1]
    <3>1. k + 1 \in E /\ k + 1 <= k + 1
      BY <1>4, <1>8
    <3> QED BY <1>2, <1>3, <3>1
  <2>2. \A m \in 1..Len(log1) : m - 1 <= Len(log)
    <3> SUFFICES ASSUME NEW m \in 1..Len(log1) PROVE m - 1 <= Len(log)
      OBVIOUS
    <3>1. PICK i \in E : i <= k + 1 /\ EventsBefore(body, i) = m - 1
      BY <1>3
    <3>2. CASE i = k + 1
      BY <1>2, <3>1, <3>2
    <3>3. CASE i <= k
      <4>1. EventsBefore(body, i) + 1 <= Len(log)
        BY <1>2, <3>3
      <4> QED BY <1>2, <3>1, <4>1
    <3> QED BY <1>5, <3>1, <3>2, <3>3
  <2>3. Len(log1) = Len(log) + 1
    <3>1. Len(log1) \in Nat /\ Len(log) \in Nat /\ Len(log1) \in 1..Len(log1)
      BY <1>2, <1>3, <2>1
    <3>2. Len(log1) - 1 <= Len(log)
      BY <2>2, <3>1
    <3> QED BY <2>1, <3>1, <3>2
  <2>4. log1 = Append(log, body[k + 1])
    BY <1>2, <1>3, <1>7, <1>8, <2>1, <2>3
  <2> QED BY <1>1, <1>8, <2>4 DEF log, log1
<1>9. CASE body[k + 1] \notin Event
  <2>1. \A m \in 1..Len(log1) : m <= Len(log)
    <3> SUFFICES ASSUME NEW m \in 1..Len(log1) PROVE m <= Len(log)
      OBVIOUS
    <3>1. PICK i \in E : i <= k + 1 /\ EventsBefore(body, i) = m - 1
      BY <1>3
    <3>2. i <= k
      BY <1>4, <1>5, <1>9, <3>1
    <3>3. EventsBefore(body, i) + 1 <= Len(log)
      BY <1>2, <3>2
    <3> QED BY <1>2, <3>1, <3>3
  <2>2. Len(log1) = Len(log)
    <3>1. Len(log) > 0 => Len(log) \in 1..Len(log)
      BY <1>2
    <3>2. Len(log1) > 0 => Len(log1) \in 1..Len(log1)
      BY <1>3
    <3> QED BY <1>2, <1>3, <1>7, <2>1, <3>1, <3>2
  <2>3. log1 = log
    BY <1>2, <1>3, <1>7, <2>2
  <2> QED BY <1>1, <1>9, <2>3 DEF log, log1
<1> QED BY <1>8, <1>9

(* The detections of a longer log begin with those of the shorter one. *)
LEMMA FoundAppend ==
  ASSUME NEW log \in Seq(Event), NEW e \in Event
  PROVE  Found(Append(log, e))
           = Append(Found(log), [client |-> e.client,
                                 history |-> RecentWindow(Append(log, e), e.client)])
<1> DEFINE log1 == Append(log, e)
           n == Len(log)
           of(l, i) == [client |-> l[i].client,
                        history |-> RecentWindow(SubSeq(l, 1, i), l[i].client)]
<1>1. /\ n \in Nat /\ log1 \in Seq(Event) /\ Len(log1) = n + 1 /\ log1[n + 1] = e
      /\ SubSeq(log1, 1, n + 1) = log1
      /\ \A i \in 1..n : log1[i] = log[i]
  OBVIOUS
<1>2. \A i \in 1..n : SubSeq(log1, 1, i) = SubSeq(log, 1, i)
  OBVIOUS
<1>3. Found(log) = [i \in 1..n |-> of(log, i)] /\ Found(log1) = [i \in 1..(n + 1) |-> of(log1, i)]
  BY <1>1 DEF Found
<1>4. \A i \in 1..n : of(log1, i) = of(log, i)
  BY <1>1, <1>2
<1>5. of(log1, n + 1) = [client |-> e.client, history |-> RecentWindow(log1, e.client)]
  BY <1>1
<1> HIDE DEF log1, of, n
<1>6. Found(log1) = Append(Found(log), of(log1, n + 1))
  <2> DEFINE D == {of(log1, i) : i \in 1..(n + 1)}
  <2>1. \A i \in 1..n : i \in 1..(n + 1)
    BY <1>1
  <2>2. Found(log) \in [1..n -> D] /\ Found(log1) \in [1..(n + 1) -> D]
    BY <1>3, <1>4, <2>1
  <2>3. of(log1, n + 1) \in D /\ Found(log1)[n + 1] = of(log1, n + 1)
    BY <1>1, <1>3
  <2>4. \A i \in 1..n : Found(log1)[i] = Found(log)[i]
    BY <1>3, <1>4, <2>1
  <2> HIDE DEF D
  <2>5. /\ Found(log) \in Seq(D) /\ Found(log1) \in Seq(D)
        /\ Len(Found(log)) = n /\ Len(Found(log1)) = n + 1
    BY <1>1, <2>2
  <2> QED BY <1>1, <2>3, <2>4, <2>5
<1> QED BY <1>5, <1>6 DEF log1

-----------------------------------------------------------------------------
(* What the answer to a body should be, told by how far its analysis comes. *)
Said(status, found) == [status |-> status, detections |-> found]

(* The lines that end the analysis whatever comes before them. *)
Harmful == BadLines \cup {Raising}

(* The first k lines hold nothing that ends the analysis. *)
Harmless(body, k) ==
  /\ Positions(Prefix(body, k), Harmful) = {}
  /\ Len(Log(Prefix(body, k))) <= MaxBatchEvents

Stops(body) == Bad(body) \cup Raises(body) \cup Over(body)

LEMMA HarmlessLines ==
  ASSUME NEW body \in Seq(Lines), NEW k \in 0..Len(body), Harmless(body, k)
  PROVE  \A j \in Stops(body) : j \in 1..Len(body) /\ k < j
<1>1. \A j \in Stops(body) : j \in 1..Len(body)
  BY DEF Stops, Bad, Raises, Over, Positions
<1>2. ASSUME NEW j \in Bad(body) \cup Raises(body), j <= k PROVE FALSE
  <2>1. j \in 1..Len(body) /\ body[j] \in Harmful
    BY DEF Bad, Raises, Positions, Harmful
  <2>2. j \in DOMAIN Prefix(body, k) /\ Prefix(body, k)[j] = body[j]
    <3>1. j \in 1..k
      BY <1>2, <2>1
    <3> QED BY <3>1, PrefixOf
  <2>3. j \in Positions(Prefix(body, k), Harmful)
    BY <2>1, <2>2 DEF Positions
  <2> QED BY <2>3 DEF Harmless
<1>3. ASSUME NEW j \in Over(body), j <= k PROVE FALSE
  <2>1. j \in EventsOfBody(body) /\ EventsBefore(body, j) = MaxBatchEvents
    BY DEF Over, EventsOfBody
  <2>2. /\ EventsBefore(body, j) + 1 \in 1..Len(Log(Prefix(body, k)))
        /\ Len(Log(Prefix(body, k))) \in Nat
    BY <1>3, <2>1, PrefixLog
  <2> QED BY <2>1, <2>2, ServiceAssumption DEF Harmless
<1> QED BY <1>1, <1>2, <1>3 DEF Stops

LEMMA FirstStop ==
  ASSUME NEW body \in Seq(Lines), NEW k \in 0..Len(body), Harmless(body, k),
         k + 1 \in Stops(body)
  PROVE  Stops(body) # {} /\ Min(Stops(body)) = k + 1
<1>1. \A j \in Stops(body) : j \in Nat /\ k < j
  BY HarmlessLines
<1>2. k + 1 \in Stops(body) /\ \A j \in Stops(body) : k + 1 <= j
  BY <1>1
<1>3. Min(Stops(body)) \in Stops(body) /\ \A j \in Stops(body) : Min(Stops(body)) <= j
  BY <1>2, Zenon DEF Min
<1> QED BY <1>1, <1>2, <1>3

LEMMA VerdictIs ==
  ASSUME NEW body \in Seq(Lines)
  PROVE  /\ Binary \in Elements(body) => Verdict(body) = Said("not_utf8", <<>>)
         /\ Binary \notin Elements(body) =>
              /\ Stops(body) = {} /\ Log(body) = <<>> => Verdict(body) = Said("no_events", <<>>)
              /\ Stops(body) = {} /\ Log(body) # <<>>
                   => Verdict(body) = Said("ok", Found(Log(body)))
              /\ Stops(body) # {} /\ Min(Stops(body)) \in Bad(body)
                   => Verdict(body) = Said("unprocessable", <<>>)
              /\ Stops(body) # {} /\ Min(Stops(body)) \notin Bad(body) \cup Raises(body)
                   => Verdict(body) = Said("too_many_events", <<>>)
  BY DEF Verdict, Said, Stops

LEMMA VerdictOfAll ==
  ASSUME NEW body \in Seq(Lines), Binary \notin Elements(body), Harmless(body, Len(body))
  PROVE  Verdict(body) = IF Log(body) = <<>> THEN Said("no_events", <<>>)
                         ELSE Said("ok", Found(Log(body)))
<1>1. Len(body) \in 0..Len(body) /\ ~\E j \in 1..Len(body) : Len(body) < j
  OBVIOUS
<1>2. Stops(body) = {}
  BY <1>1, HarmlessLines
<1> QED BY <1>2, VerdictIs

LEMMA VerdictAtBad ==
  ASSUME NEW body \in Seq(Lines), Binary \notin Elements(body), NEW k \in Nat, k < Len(body),
         Harmless(body, k), body[k + 1] \in BadLines
  PROVE  Verdict(body) = Said("unprocessable", <<>>)
<1>1. k \in 0..Len(body) /\ k + 1 \in DOMAIN body
  OBVIOUS
<1>2. k + 1 \in Bad(body) /\ k + 1 \in Stops(body)
  BY <1>1 DEF Bad, Positions, Stops
<1> QED BY <1>1, <1>2, FirstStop, VerdictIs

LEMMA VerdictAtLimit ==
  ASSUME NEW body \in Seq(Lines), Binary \notin Elements(body), NEW k \in Nat, k < Len(body),
         Harmless(body, k), body[k + 1] \in Event,
         Len(Log(Prefix(body, k))) = MaxBatchEvents
  PROVE  Verdict(body) = Said("too_many_events", <<>>)
<1>1. k \in 0..Len(body) /\ k + 1 \in DOMAIN body
  OBVIOUS
<1>2. k + 1 \in Stops(body)
  <2>1. EventsBefore(body, k + 1) = MaxBatchEvents
    BY <1>1, PrefixLog
  <2> QED BY <1>1, <2>1 DEF Over, Positions, Stops
<1>3. k + 1 \notin Bad(body) \cup Raises(body)
  BY LinesApart DEF Bad, Raises, Positions
<1> QED BY <1>1, <1>2, <1>3, FirstStop, VerdictIs

(* One line more that does not end the analysis. *)
LEMMA HarmlessNext ==
  ASSUME NEW body \in Seq(Lines)
  PROVE  /\ Harmless(body, 0) /\ Log(Prefix(body, 0)) = <<>>
         /\ \A k \in Nat : /\ k < Len(body) /\ Harmless(body, k)
                           /\ \/ body[k + 1] = Blank
                              \/ /\ body[k + 1] \in Event
                                 /\ Len(Log(Prefix(body, k))) < MaxBatchEvents
                           => Harmless(body, k + 1)
<1>1. Harmless(body, 0) /\ Log(Prefix(body, 0)) = <<>>
  <2>1. Prefix(body, 0) = <<>> /\ Prefix(body, 0) \in Seq(Lines) /\ 0 \in 0..Len(body)
    BY DEF Prefix
  <2>2. Positions(Prefix(body, 0), Harmful) = {} /\ EventsOfBody(Prefix(body, 0)) = {}
    BY <2>1 DEF EventsOfBody, Positions
  <2>3. /\ Log(Prefix(body, 0)) \in Seq(Event)
        /\ Len(Log(Prefix(body, 0))) = Cardinality(EventsOfBody(Prefix(body, 0)))
    BY <2>1, LogOfBody
  <2>4. Len(Log(Prefix(body, 0))) = 0
    BY <2>2, <2>3, FS_EmptySet
  <2> QED BY <2>2, <2>3, <2>4, ServiceAssumption DEF Harmless
<1>2. ASSUME NEW k \in Nat, k < Len(body), Harmless(body, k),
             \/ body[k + 1] = Blank
             \/ body[k + 1] \in Event /\ Len(Log(Prefix(body, k))) < MaxBatchEvents
      PROVE  Harmless(body, k + 1)
  <2>1. /\ k \in 0..Len(body) /\ k + 1 \in 0..Len(body)
        /\ body[k + 1] \in Event =>
             Log(Prefix(body, k + 1)) = Append(Log(Prefix(body, k)), body[k + 1])
        /\ body[k + 1] \notin Event => Log(Prefix(body, k + 1)) = Log(Prefix(body, k))
    BY <1>2, LogAppend
  <2>2. Log(Prefix(body, k)) \in Seq(Event)
    BY <2>1, PrefixLog
  <2>3. Len(Log(Prefix(body, k + 1))) <= MaxBatchEvents
    <3>1. CASE body[k + 1] = Blank
      BY <1>2, <2>1, <3>1, LinesApart DEF Harmless
    <3>2. CASE body[k + 1] \in Event /\ Len(Log(Prefix(body, k))) < MaxBatchEvents
      BY <2>1, <2>2, <3>2, ServiceAssumption
    <3> QED BY <1>2, <3>1, <3>2
  <2>4. body[k + 1] \notin Harmful
    BY <1>2, LinesApart DEF Harmful
  <2>5. Positions(Prefix(body, k + 1), Harmful) = {}
    <3> SUFFICES ASSUME NEW j \in Positions(Prefix(body, k + 1), Harmful) PROVE FALSE
      OBVIOUS
    <3>1. j \in 1..(k + 1) /\ body[j] \in Harmful
      BY <2>1, PrefixOf DEF Positions
    <3>2. j \in 1..k
      BY <2>4, <3>1
    <3>3. j \in DOMAIN Prefix(body, k) /\ Prefix(body, k)[j] = body[j]
      <4>1. DOMAIN Prefix(body, k) = 1..k /\ \A i \in 1..k : Prefix(body, k)[i] = body[i]
        BY <2>1, PrefixOf
      <4> QED BY <3>2, <4>1
    <3>4. j \in Positions(Prefix(body, k), Harmful)
      BY <3>1, <3>3 DEF Positions
    <3> QED BY <1>2, <3>4 DEF Harmless
  <2> QED BY <2>3, <2>5 DEF Harmless
<1> QED BY <1>1, <1>2

-----------------------------------------------------------------------------
(* What is on the wire. *)
Tokens == [head : RequestHead] \cup [line : Lines]

(* The lines of a body after the first n. *)
From(body, n) == SubSeq(body, n + 1, Len(body))

LEMMA FromIs ==
  ASSUME NEW body \in Seq(Lines), NEW n \in 0..Len(body)
  PROVE  /\ From(body, n) \in Seq(Lines) /\ Len(From(body, n)) = Len(body) - n
         /\ From(body, n) = <<>> <=> n = Len(body)
         /\ From(body, 0) = body
         /\ Prefix(body, Len(body)) = body
         /\ n # Len(body) => /\ n + 1 \in 0..Len(body) /\ n + 1 \in 1..Len(body) /\ n < Len(body)
                             /\ Head(From(body, n)) = body[n + 1]
                             /\ Tail(From(body, n)) = From(body, n + 1)
<1>1. Len(body) \in Nat /\ n \in Nat /\ n <= Len(body) /\ n + 1 \in Nat
  OBVIOUS
<1>2. /\ From(body, n) \in Seq(Lines) /\ Len(From(body, n)) = Len(body) - n
      /\ \A i \in 1..(Len(body) - n) : From(body, n)[i] = body[n + i]
  BY <1>1 DEF From
<1>3. From(body, n) = <<>> <=> n = Len(body)
  BY <1>1, <1>2
<1>4. From(body, 0) = body /\ Prefix(body, Len(body)) = body
  BY <1>1 DEF From, Prefix
<1>5. ASSUME n # Len(body)
      PROVE  /\ n + 1 \in 0..Len(body) /\ n + 1 \in 1..Len(body) /\ n < Len(body)
             /\ Head(From(body, n)) = body[n + 1] /\ Tail(From(body, n)) = From(body, n + 1)
  <2>1. n + 1 \in 0..Len(body) /\ n + 1 \in 1..Len(body) /\ n < Len(body)
    BY <1>1, <1>5
  <2>2. From(body, n) # <<>> /\ 1 \in 1..(Len(body) - n)
    BY <1>1, <1>3, <1>5
  <2>3. Head(From(body, n)) = body[n + 1]
    BY <1>1, <1>2, <2>2
  <2>4. /\ From(body, n + 1) \in Seq(Lines) /\ Len(From(body, n + 1)) = Len(body) - (n + 1)
        /\ \A i \in 1..(Len(body) - (n + 1)) : From(body, n + 1)[i] = body[(n + 1) + i]
    BY <1>1, <2>1 DEF From
  <2>5. Tail(From(body, n)) = From(body, n + 1)
    <3> DEFINE s == From(body, n)
               t == From(body, n + 1)
               m == Len(body) - (n + 1)
    <3>1. /\ m \in Nat /\ s \in Seq(Lines) /\ Len(s) = m + 1 /\ s # <<>>
          /\ t \in Seq(Lines) /\ Len(t) = m
      BY <1>1, <1>2, <2>1, <2>2, <2>4
    <3>2. \A i \in 1..m : i + 1 \in 1..(Len(body) - n) /\ n + (i + 1) = (n + 1) + i
      BY <1>1, <2>1
    <3>3. \A i \in 1..m : t[i] = s[i + 1]
      BY <1>2, <2>4, <3>2
    <3> HIDE DEF s, t, m
    <3>4. Tail(s) \in Seq(Lines) /\ Len(Tail(s)) = m /\ \A i \in 1..m : Tail(s)[i] = s[i + 1]
      BY <3>1
    <3>5. Tail(s) = t
      BY <3>1, <3>3, <3>4
    <3> QED BY <3>5 DEF s, t
  <2> QED BY <2>1, <2>3, <2>5
<1> QED BY <1>2, <1>3, <1>4, <1>5

LinesOf(body) == [i \in DOMAIN body |-> [line |-> body[i]]]

LEMMA LinesOfIs ==
  ASSUME NEW body \in Seq(Lines)
  PROVE  /\ LinesOf(body) \in Seq(Tokens) /\ Len(LinesOf(body)) = Len(body)
         /\ \A i \in 1..Len(body) : LinesOf(body)[i] = [line |-> body[i]]
         /\ LinesOf(body) = <<>> <=> body = <<>>
         /\ body # <<>> => Head(LinesOf(body)) = [line |-> body[1]]
<1>1. DOMAIN body = 1..Len(body) /\ Len(body) \in Nat
  OBVIOUS
<1>2. \A i \in 1..Len(body) : [line |-> body[i]] \in Tokens
  BY DEF Tokens
<1>3. LinesOf(body) \in [1..Len(body) -> Tokens]
      /\ \A i \in 1..Len(body) : LinesOf(body)[i] = [line |-> body[i]]
  BY <1>1, <1>2 DEF LinesOf
<1>4. LinesOf(body) \in Seq(Tokens) /\ Len(LinesOf(body)) = Len(body)
  BY <1>1, <1>3
<1>5. LinesOf(body) = <<>> <=> body = <<>>
  BY <1>1, <1>4
<1>6. body # <<>> => Head(LinesOf(body)) = [line |-> body[1]]
  <2>1. body # <<>> => 1 \in 1..Len(body)
    BY <1>1
  <2> QED BY <1>3, <1>4, <1>5, <2>1
<1> QED BY <1>3, <1>4, <1>5, <1>6

LEMMA PrefixNext ==
  ASSUME NEW body \in Seq(Lines), NEW n \in Nat, n < Len(body)
  PROVE  body[n + 1] \in Lines /\ Prefix(body, n + 1) = Append(Prefix(body, n), body[n + 1])
  BY DEF Prefix

LEMMA LinesOfAppend ==
  ASSUME NEW s \in Seq(Lines), NEW x \in Lines
  PROVE  LinesOf(Append(s, x)) = Append(LinesOf(s), [line |-> x])
<1> DEFINE a == LinesOf(s)
           b == LinesOf(Append(s, x))
<1>1. /\ Append(s, x) \in Seq(Lines) /\ Len(Append(s, x)) = Len(s) + 1 /\ Len(s) \in Nat
      /\ Append(s, x)[Len(s) + 1] = x /\ \A i \in 1..Len(s) : Append(s, x)[i] = s[i]
  OBVIOUS
<1>2. /\ a \in Seq(Tokens) /\ Len(a) = Len(s) /\ \A i \in 1..Len(s) : a[i] = [line |-> s[i]]
      /\ b \in Seq(Tokens) /\ Len(b) = Len(s) + 1
      /\ \A i \in 1..(Len(s) + 1) : b[i] = [line |-> Append(s, x)[i]]
  BY <1>1, LinesOfIs
<1>3. b[Len(s) + 1] = [line |-> x] /\ \A i \in 1..Len(s) : b[i] = a[i]
  BY <1>1, <1>2
<1>4. [line |-> x] \in Tokens
  BY DEF Tokens
<1> HIDE DEF a, b
<1>5. b = Append(a, [line |-> x])
  BY <1>1, <1>2, <1>3, <1>4
<1> QED BY <1>5 DEF a, b

(* What is left of some lines when the first m have been read. *)
LEMMA LinesAfter ==
  ASSUME NEW s \in Seq(Lines), NEW m \in 0..Len(s)
  PROVE  LET w == SubSeq(LinesOf(s), m + 1, Len(s))
         IN /\ w \in Seq(Tokens) /\ (w = <<>> <=> m = Len(s))
            /\ m < Len(s) => Head(w) = [line |-> s[m + 1]]
            /\ m = 0 => w = LinesOf(s)
<1> DEFINE a == LinesOf(s)
           w == SubSeq(a, m + 1, Len(s))
<1>1. /\ a \in Seq(Tokens) /\ Len(a) = Len(s) /\ Len(s) \in Nat /\ m \in Nat /\ m <= Len(s)
      /\ \A i \in 1..Len(s) : a[i] = [line |-> s[i]]
  BY LinesOfIs
<1> HIDE DEF a
<1>2. /\ w \in Seq(Tokens) /\ Len(w) = Len(s) - m
      /\ \A i \in 1..(Len(s) - m) : w[i] = a[m + i]
  BY <1>1
<1>3. m = 0 => w = a
  BY <1>1
<1>4. w = <<>> <=> m = Len(s)
  <2> HIDE DEF w
  <2> QED BY <1>1, <1>2
<1>5. m < Len(s) => Head(w) = [line |-> s[m + 1]]
  <2> SUFFICES ASSUME m < Len(s) PROVE Head(w) = [line |-> s[m + 1]]
    OBVIOUS
  <2>1. 1 \in 1..(Len(s) - m) /\ m + 1 \in 1..Len(s) /\ w # <<>>
    BY <1>1, <1>4
  <2>2. w[1] = [line |-> s[m + 1]]
    BY <1>1, <1>2, <2>1
  <2> HIDE DEF w
  <2> QED BY <1>2, <2>1, <2>2
<1> QED BY <1>2, <1>3, <1>4, <1>5 DEF a

(* A head and what has been sent after it. *)
Mail(h, s) == <<[head |-> h]>> \o LinesOf(s)

LEMMA MailIs ==
  ASSUME NEW h \in RequestHead, NEW s \in Seq(Lines)
  PROVE  /\ Mail(h, s) \in Seq(Tokens) /\ Mail(h, s) # <<>>
         /\ Head(Mail(h, s)) = [head |-> h] /\ Tail(Mail(h, s)) = LinesOf(s)
         /\ \A x \in Lines : Append(Mail(h, s), [line |-> x]) = Mail(h, Append(s, x))
<1> DEFINE a == LinesOf(s)
           t == [head |-> h]
<1>1. t \in Tokens /\ a \in Seq(Tokens)
  <2>1. a \in Seq(Tokens)
    BY LinesOfIs
  <2>2. t \in Tokens
    BY DEF Tokens
  <2> QED BY <2>1, <2>2
<1>2. \A x \in Lines : LinesOf(Append(s, x)) = Append(a, [line |-> x]) /\ [line |-> x] \in Tokens
  <2>1. \A x \in Lines : LinesOf(Append(s, x)) = Append(a, [line |-> x])
    BY LinesOfAppend
  <2>2. \A x \in Lines : [line |-> x] \in Tokens
    BY DEF Tokens
  <2> QED BY <2>1, <2>2
<1> HIDE DEF a, t
<1>3. <<t>> \o a \in Seq(Tokens) /\ <<t>> \o a # <<>> /\ Head(<<t>> \o a) = t
  BY <1>1
<1>4. Tail(<<t>> \o a) = a
  BY <1>1
<1>5. \A y \in Tokens : Append(<<t>> \o a, y) = <<t>> \o Append(a, y)
  <2> SUFFICES ASSUME NEW y \in Tokens PROVE Append(<<t>> \o a, y) = <<t>> \o Append(a, y)
    OBVIOUS
  <2>1. /\ Append(<<t>> \o a, y) \in Seq(Tokens) /\ Len(Append(<<t>> \o a, y)) = Len(a) + 2
        /\ <<t>> \o Append(a, y) \in Seq(Tokens) /\ Len(<<t>> \o Append(a, y)) = Len(a) + 2
        /\ Len(a) \in Nat
    BY <1>1
  <2>2. ASSUME NEW i \in 1..(Len(a) + 2)
        PROVE  Append(<<t>> \o a, y)[i] = (<<t>> \o Append(a, y))[i]
    <3>1. CASE i = 1
      BY <1>1, <2>1, <3>1
    <3>2. CASE i > 1 /\ i <= Len(a) + 1
      BY <1>1, <2>1, <3>2
    <3>3. CASE i = Len(a) + 2
      BY <1>1, <2>1, <3>3
    <3> QED BY <2>1, <3>1, <3>2, <3>3
  <2> QED BY <2>1, <2>2, SeqEqual
<1> QED BY <1>2, <1>3, <1>4, <1>5 DEF Mail, a, t

(* What comes last changes nothing in what comes first. *)
LEMMA FirstStays ==
  ASSUME NEW w \in Seq(Tokens), NEW x \in Tokens
  PROVE  /\ Append(w, x) \in Seq(Tokens) /\ Append(w, x) # <<>>
         /\ w = <<>> => Head(Append(w, x)) = x
         /\ w # <<>> => Head(Append(w, x)) = Head(w)
  OBVIOUS

(* What an answer leaves unread. *)
LEMMA LeftUnreadIs ==
  ASSUME NEW r \in Request
  PROVE  /\ ReadsLines(r.head) \in Nat /\ r.body \in Seq(Lines) /\ r.head \in RequestHead
         /\ LeftUnread(r) \in Seq(Lines)
         /\ LeftUnread(r) = <<>> <=> ReadsLines(r.head) >= Len(r.body)
         /\ \A n \in Nat : ReadsLines(r.head) <= n /\ n < Len(r.body)
                             => r.body[n + 1] \in Elements(LeftUnread(r))
<1> DEFINE k == ReadsLines(r.head)
           b == r.body
           s == SubSeq(b, k + 1, Len(b))
<1>1. r.head \in RequestHead /\ b \in Seq(Lines)
  BY DEF Request
<1>2. r.head.lines \in Nat
  BY <1>1 DEF RequestHead
<1>3. k \in Nat
  BY <1>2 DEF ReadsLines
<1>4. LeftUnread(r) = s
  BY DEF LeftUnread
<1> HIDE DEF k, b
<1>5. /\ s \in Seq(Lines) /\ Len(b) \in Nat
      /\ Len(s) = IF k >= Len(b) THEN 0 ELSE Len(b) - k
      /\ \A i \in 1..Len(s) : s[i] = b[k + i]
  BY <1>1, <1>3
<1>6. s = <<>> <=> k >= Len(b)
  <2> HIDE DEF s
  <2> QED BY <1>3, <1>5
<1>7. ASSUME NEW n \in Nat, k <= n, n < Len(b) PROVE b[n + 1] \in Elements(s)
  <2>1. (n - k) + 1 \in 1..Len(s) /\ k + ((n - k) + 1) = n + 1
    BY <1>3, <1>5, <1>7
  <2>2. s[(n - k) + 1] = b[n + 1]
    BY <1>5, <2>1
  <2>3. DOMAIN s = 1..Len(s)
    BY <1>5
  <2> HIDE DEF s
  <2> QED BY <2>1, <2>2, <2>3 DEF Elements
<1> QED BY <1>1, <1>3, <1>4, <1>5, <1>6, <1>7 DEF k, b

-----------------------------------------------------------------------------
(* The invariant. *)
Detected == [client : Clients, history : SUBSET Nat]

EarlyStatuses ==
  {"ok", "method_not_allowed", "not_found", "disabled", "unauthorized", "content_type",
   "content_length", "exceeds_limit"}
AnswerType ==
  [status : EarlyStatuses \cup Statuses \cup {"bad_request", "not_utf8"},
   detections : Seq(Detected)]

VarTypes ==
  /\ script \in [Connections -> Seq(Request)]
  /\ sent \in [Connections -> Nat]
  /\ unsent \in [Connections -> Seq(Lines)]
  /\ wire \in [Connections -> Seq(Tokens)]
  /\ stage \in [Connections -> {"listening", "headers", "reading", "analyzing", "closed"}]
  /\ request \in [Connections -> RequestHead]
  /\ taken \in [Connections -> Seq(Lines)]
  /\ batch \in [Connections -> Seq(Lines)]
  /\ session \in [Connections -> SessionState]
  /\ detections \in [Connections -> Seq(Detected)]
  /\ answers \in [Connections -> Seq(AnswerType)]

(* The request p sent last; before the first it is as if one without a body had
   been answered. *)
Current(p) == IF sent[p] = 0 THEN NoRequest ELSE script[p][sent[p]]

(* s is what has been sent of its body, n lines of it whole. *)
SentOf(p, n, s) ==
  \/ s = Prefix(Current(p).body, n)
  \/ /\ p \in hungUp /\ n < Len(Current(p).body)
     /\ \E piece \in Pieces : s = Append(Prefix(Current(p).body, n), piece)

(* A token that the answer to r leaves unread. *)
IsLeft(r, token) == \E l \in Elements(LeftUnread(r)) \cup Pieces : token = [line |-> l]

(* The thread has read what it reads of the current request. *)
Resting(p, n) ==
  LET r == Current(p)
  IN IF LeftUnread(r) = <<>> THEN wire[p] = <<>> /\ (unsent[p] = <<>> \/ p \in hungUp)
     ELSE IF wire[p] = <<>>
       THEN p \in hungUp \/ (ReadsLines(r.head) <= n /\ n < Len(r.body))
     ELSE IsLeft(r, Head(wire[p]))

(* The thread and its client at each stage, when n lines of the current body
   have been sent: as long as they are in step, *)
Answered(p, n) ==
  /\ stage[p] = "listening" /\ sent[p] = Len(answers[p])
  /\ InStep(p, sent[p]) /\ Resting(p, n)

Asking(p, s) ==
  /\ stage[p] = "listening" /\ sent[p] = Len(answers[p]) + 1 /\ InStep(p, sent[p])
  /\ wire[p] = Mail(Current(p).head, s)

Reading(p, s) ==
  /\ stage[p] = "reading" /\ sent[p] = Len(answers[p]) + 1 /\ InStep(p, sent[p])
  /\ EarlyAnswer(Current(p).head) = "body" /\ request[p] = Current(p).head
  /\ wire[p] = LinesOf(s)

Analyzing(p, n) ==
  /\ stage[p] = "analyzing" /\ sent[p] = Len(answers[p]) + 1 /\ InStep(p, sent[p])
  /\ EarlyAnswer(Current(p).head) = "body"
  /\ taken[p] \in Heard(p, Current(p)) /\ Resting(p, n)

(* when the client has sent a request after an answer that left lines unread, *)
Barred(p) ==
  /\ stage[p] = "listening" /\ sent[p] = Len(answers[p]) + 1 /\ sent[p] > 1
  /\ LeftUnread(script[p][sent[p] - 1]) # <<>>
  /\ wire[p] # <<>> /\ IsLeft(script[p][sent[p] - 1], Head(wire[p]))

(* and when some line that was left unread asks for something. *)
Loose(p) == \E j \in 1..sent[p] : j <= Len(answers[p]) /\ AsksFor(script[p][j]) # {}

Talks(p, n) ==
  \/ stage[p] = "closed" \/ Loose(p)
  \/ Answered(p, n) \/ Barred(p) \/ Analyzing(p, n)
  \/ \E s \in Seq(Lines) : SentOf(p, n, s) /\ (Asking(p, s) \/ Reading(p, s))

TalkOK(p) ==
  /\ sent[p] <= Len(script[p])
  /\ \E n \in 0..Len(Current(p).body) : unsent[p] = From(Current(p).body, n) /\ Talks(p, n)

(* The analysis has come to line k of the body. *)
Analysed(p, k) ==
  /\ batch[p] = From(taken[p], k)
  /\ Harmless(taken[p], k)
  /\ session[p].log = Log(Prefix(taken[p], k))
  /\ detections[p] = Found(session[p].log)

BatchOK(p) ==
  /\ Binary \notin Elements(taken[p])
  /\ \E k \in 0..Len(taken[p]) : Analysed(p, k)

WorkOK(p) ==
  /\ SessionOK(session[p])
  /\ Len(detections[p]) = Len(session[p].log) /\ Len(detections[p]) <= MaxBatchEvents
  /\ Len(batch[p]) <= Len(taken[p])
  /\ stage[p] = "analyzing" => BatchOK(p)

AnswersOK(p) == \A i \in DOMAIN answers[p] : AnswerMatches(p, i)

ConnectionOK(p) == TalkOK(p) /\ WorkOK(p) /\ AnswersOK(p)

Inv == VarTypes /\ \A p \in Connections : ConnectionOK(p)

-----------------------------------------------------------------------------
(* What a step does not touch. *)
LEMMA AsksLeaves ==
  ASSUME NEW r, AsksFor(r) # {}
  PROVE  LeftUnread(r) # <<>>
<1>1. DOMAIN <<>> = {}
  OBVIOUS
<1>2. Elements(<<>>) = {}
  BY <1>1 DEF Elements
<1> QED BY <1>2 DEF AsksFor

LEMMA CurrentIs ==
  ASSUME VarTypes, NEW p \in Connections, sent[p] <= Len(script[p])
  PROVE  /\ Current(p) \in Request /\ Current(p).body \in Seq(Lines)
         /\ Current(p).head \in RequestHead /\ Len(Current(p).body) \in Nat
         /\ sent[p] \in 0..Len(script[p]) /\ sent[p] \in Nat /\ Len(script[p]) \in Nat
         /\ script[p] \in Seq(Request) /\ DOMAIN script[p] = 1..Len(script[p])
         /\ Len(answers[p]) \in Nat
         /\ sent[p] # 0 => Current(p) = script[p][sent[p]]
         /\ sent[p] = 0 => Current(p) = NoRequest
         /\ LeftUnread(NoRequest) = <<>>
<1>1. sent[p] \in Nat /\ script[p] \in Seq(Request) /\ Len(script[p]) \in Nat
      /\ DOMAIN script[p] = 1..Len(script[p]) /\ Len(answers[p]) \in Nat
  <2>1. answers[p] \in Seq(AnswerType) /\ script[p] \in Seq(Request) /\ sent[p] \in Nat
    BY DEF VarTypes
  <2> QED BY <2>1
<1>2. sent[p] \in 0..Len(script[p])
  BY <1>1
<1>3. NoRequest \in Request /\ NoRequest.body = <<>>
  <2>1. Health \in RequestHead
    BY DEF Health, RequestHead
  <2>2. <<>> \in Seq(Lines)
    OBVIOUS
  <2> QED BY <2>1, <2>2 DEF NoRequest, Request
<1>4. Current(p) \in Request
  <2>1. sent[p] # 0 => sent[p] \in 1..Len(script[p])
    BY <1>2
  <2> QED BY <1>1, <1>3, <2>1 DEF Current
<1>5. Current(p).body \in Seq(Lines) /\ Current(p).head \in RequestHead
      /\ Len(Current(p).body) \in Nat
  BY <1>4, LeftUnreadIs
<1>6. LeftUnread(NoRequest) = <<>>
  <2>1. Len(NoRequest.body) = 0 /\ ReadsLines(NoRequest.head) \in Nat
    BY <1>3, LeftUnreadIs
  <2> QED BY <1>3, <2>1, LeftUnreadIs
<1> QED BY <1>1, <1>2, <1>4, <1>5, <1>6 DEF Current

LEMMA WorkStays ==
  ASSUME NEW p \in Connections, WorkOK(p),
         taken'[p] = taken[p], batch'[p] = batch[p], session'[p] = session[p],
         detections'[p] = detections[p],
         stage'[p] = "analyzing" => stage[p] = "analyzing"
  PROVE  WorkOK(p)'
<1>1. /\ SessionOK(session'[p])
      /\ Len(detections'[p]) = Len(session'[p].log) /\ Len(detections'[p]) <= MaxBatchEvents
      /\ Len(batch'[p]) <= Len(taken'[p])
  BY DEF WorkOK
<1>2. ASSUME stage'[p] = "analyzing" PROVE BatchOK(p)'
  <2>1. BatchOK(p)
    BY <1>2 DEF WorkOK
  <2> QED BY <2>1 DEF BatchOK, Analysed
<1> QED BY <1>1, <1>2 DEF WorkOK

LEMMA HeardGrows ==
  ASSUME NEW p, NEW r, p \in hungUp => p \in hungUp'
  PROVE  Heard(p, r) \subseteq Heard(p, r)'
<1> DEFINE whole == {n \in 0..Len(r.body) : n = r.head.lines}
           below == {n \in 0..Len(r.body) : n < r.head.lines}
           S == IF p \in hungUp THEN below ELSE {}
           T == IF p \in hungUp' THEN below ELSE {}
           parts(U) == {SubSeq(r.body, 1, n) : n \in whole \cup U}
           of(n, piece) == Append(SubSeq(r.body, 1, n), piece)
           cut(U) == {of(n, piece) : n \in U \ {Len(r.body)}, piece \in Pieces}
<1>1. Heard(p, r) = parts(S) \cup cut(S) /\ Heard(p, r)' = parts(T) \cup cut(T)
  BY DEF Heard
<1>2. S \subseteq T
  OBVIOUS
<1> HIDE DEF whole, S, T
<1>3. \A n : n \in S => n \in T
  BY <1>2
<1>4. parts(S) \subseteq parts(T)
  <2> SUFFICES ASSUME NEW n \in whole \cup S PROVE SubSeq(r.body, 1, n) \in parts(T)
    OBVIOUS
  <2>1. n \in whole \cup T
    BY <1>3
  <2> QED BY <2>1
<1>5. cut(S) \subseteq cut(T)
  <2> DEFINE U == S \ {Len(r.body)}
             V == T \ {Len(r.body)}
  <2>1. \A n : n \in U => n \in V
    BY <1>3
  <2> HIDE DEF of, U, V
  <2>2. \A x : x \in {of(n, piece) : n \in U, piece \in Pieces}
                 => x \in {of(n, piece) : n \in V, piece \in Pieces}
    BY <2>1
  <2> QED BY <2>2 DEF U, V
<1> HIDE DEF parts, cut
<1> QED BY <1>1, <1>4, <1>5

LEMMA MatchStays ==
  ASSUME VarTypes, NEW p \in Connections, NEW i, AnswerMatches(p, i), script' = script,
         answers'[p][i] = answers[p][i], sent'[p] \in Nat, sent[p] <= sent'[p], i \in Nat,
         p \in hungUp => p \in hungUp',
         answers[p][i].status = "bad_request"
           => Len(answers'[p]) = Len(answers[p]) /\ stage'[p] = "closed"
  PROVE  AnswerMatches(p, i)'
<1>1. sent[p] \in Nat
  BY DEF VarTypes
<1>2. InStep(p, i)' => InStep(p, i)
  BY DEF InStep
<1>3. RightAnswer(p, i) => RightAnswer(p, i)'
  BY HeardGrows DEF RightAnswer
<1>4. i <= sent[p] => i <= sent'[p]
  BY <1>1
<1>5. \A j \in 1..sent[p] : j \in 1..sent'[p]
  BY <1>1
<1>6. i > sent'[p] => i > sent[p]
  BY <1>1
<1> QED BY <1>2, <1>3, <1>4, <1>5, <1>6 DEF AnswerMatches

LEMMA AnswersStay ==
  ASSUME VarTypes, NEW p \in Connections, AnswersOK(p), script' = script,
         answers'[p] = answers[p], sent'[p] \in Nat, sent[p] <= sent'[p],
         p \in hungUp => p \in hungUp',
         stage[p] = "closed" => stage'[p] = "closed"
  PROVE  AnswersOK(p)'
<1> SUFFICES ASSUME NEW i \in DOMAIN answers'[p] PROVE AnswerMatches(p, i)'
  BY DEF AnswersOK
<1>1. AnswerMatches(p, i) /\ i \in Nat
  <2>1. answers[p] \in Seq(AnswerType)
    BY DEF VarTypes
  <2> QED BY <2>1 DEF AnswersOK
<1>2. answers[p][i].status = "bad_request" => stage'[p] = "closed"
  BY <1>1 DEF AnswerMatches
<1> QED BY <1>1, <1>2, MatchStays

(* A new answer, on a connection that is not closed. *)
LEMMA AnswersGrow ==
  ASSUME VarTypes, NEW p \in Connections, AnswersOK(p), script' = script,
         NEW a \in AnswerType,
         answers'[p] = Append(answers[p], a), sent'[p] = sent[p],
         p \in hungUp => p \in hungUp',
         stage[p] # "closed",
         AnswerMatches(p, Len(answers[p]))'
  PROVE  AnswersOK(p)'
<1>1. answers[p] \in Seq(AnswerType) /\ sent[p] \in Nat /\ sent[p] <= sent'[p]
  BY DEF VarTypes
<1>2. /\ DOMAIN answers'[p] = 1..(Len(answers[p]) + 1)
      /\ \A i \in 1..Len(answers[p]) : answers'[p][i] = answers[p][i]
      /\ DOMAIN answers[p] = 1..Len(answers[p]) /\ Len(answers[p]) \in Nat
  BY <1>1
<1>3. ASSUME NEW i \in 1..Len(answers[p]) PROVE AnswerMatches(p, i)'
  <2>1. AnswerMatches(p, i)
    BY <1>2 DEF AnswersOK
  <2>2. answers[p][i].status # "bad_request"
    BY <2>1 DEF AnswerMatches
  <2>3. answers'[p][i] = answers[p][i] /\ i \in Nat
    BY <1>2
  <2> QED BY <1>1, <2>1, <2>2, <2>3, MatchStays
<1>4. ASSUME NEW i \in DOMAIN answers'[p] PROVE AnswerMatches(p, i)'
  <2>1. i \in 1..Len(answers[p]) \/ i = Len(answers[p]) + 1
    BY <1>2
  <2>2. CASE i \in 1..Len(answers[p])
    BY <1>3, <2>2
  <2>3. CASE i = Len(answers[p]) + 1
    <3>1. i = Len(answers'[p])
      BY <1>1, <2>3
    <3> QED BY <3>1 DEF AnswerMatches
  <2> QED BY <2>1, <2>2, <2>3
<1> QED BY <1>4 DEF AnswersOK

(* An answer after one that left something unread. *)
LEMMA AnswerOutOfStep ==
  ASSUME VarTypes, NEW p \in Connections, sent[p] <= Len(script[p]), script' = script,
         NEW a, sent'[p] = sent[p],
         Len(answers'[p]) = Len(answers[p]) + 1,
         answers'[p][Len(answers[p]) + 1] = a,
         NEW j \in 1..sent[p], j <= Len(answers[p]), LeftUnread(script[p][j]) # <<>>,
         a.status = "bad_request" => stage'[p] = "closed",
         a.status = "bad_request" \/ AsksFor(script[p][j]) # {}
  PROVE  AnswerMatches(p, Len(answers[p]))'
<1>1. /\ sent[p] \in Nat /\ Len(script[p]) \in Nat /\ Len(answers[p]) \in Nat
      /\ DOMAIN script[p] = 1..Len(script[p])
  BY CurrentIs
<1>2. PICK i : i = Len(answers[p]) + 1
  OBVIOUS
<1>3. j \in DOMAIN script[p] /\ j < i
  BY <1>1, <1>2
<1>4. ~InStep(p, i)'
  BY <1>3 DEF InStep
<1>5. answers'[p][i] = a /\ Len(answers'[p]) = i /\ script'[p] = script[p] /\ sent'[p] = sent[p]
  BY <1>2
<1> QED BY <1>4, <1>5 DEF AnswerMatches

LEMMA LooseStays ==
  ASSUME VarTypes, NEW p \in Connections, Loose(p), script' = script,
         sent'[p] \in Nat, sent[p] <= sent'[p],
         Len(answers'[p]) \in Nat, Len(answers[p]) <= Len(answers'[p])
  PROVE  Loose(p)'
<1>1. sent[p] \in Nat /\ answers[p] \in Seq(AnswerType)
  BY DEF VarTypes
<1>2. Len(answers[p]) \in Nat
  BY <1>1
<1>3. PICK j \in 1..sent[p] : j <= Len(answers[p]) /\ AsksFor(script[p][j]) # {}
  BY DEF Loose
<1>4. j \in 1..sent'[p] /\ j <= Len(answers'[p])
  BY <1>1, <1>2, <1>3
<1>5. AsksFor(script'[p][j]) # {}
  BY <1>3
<1> QED BY <1>4, <1>5 DEF Loose

(* A step of one connection and the others. *)
Untouched(q) ==
  /\ script' = script /\ (q \in hungUp' <=> q \in hungUp)
  /\ sent'[q] = sent[q] /\ unsent'[q] = unsent[q] /\ wire'[q] = wire[q]
  /\ stage'[q] = stage[q] /\ request'[q] = request[q]
  /\ taken'[q] = taken[q] /\ batch'[q] = batch[q]
  /\ session'[q] = session[q] /\ detections'[q] = detections[q] /\ answers'[q] = answers[q]

(* The client and its thread stay as they are, as long as nothing they see of each
   other changes. *)
LEMMA TalkStays ==
  ASSUME NEW p \in Connections, TalkOK(p), script' = script, p \in hungUp' <=> p \in hungUp,
         sent'[p] = sent[p], unsent'[p] = unsent[p], wire'[p] = wire[p],
         stage'[p] = stage[p], request'[p] = request[p], taken'[p] = taken[p],
         answers'[p] = answers[p]
  PROVE  TalkOK(p)'
<1>1. Current(p)' = Current(p) /\ \A i : InStep(p, i)' <=> InStep(p, i)
  BY DEF Current, InStep
<1>2. PICK n \in 0..Len(Current(p).body) : unsent[p] = From(Current(p).body, n) /\ Talks(p, n)
  BY DEF TalkOK
<1>3. Resting(p, n) => Resting(p, n)'
  BY <1>1 DEF Resting
<1>4. Answered(p, n) => Answered(p, n)'
  BY <1>1, <1>3 DEF Answered
<1>5. Barred(p) => Barred(p)'
  BY DEF Barred
<1>6. Analyzing(p, n) => Analyzing(p, n)'
  <2>1. Heard(p, Current(p)) \subseteq Heard(p, Current(p))'
    BY <1>1, HeardGrows
  <2> QED BY <1>1, <1>3, <2>1 DEF Analyzing
<1>7. Loose(p) => Loose(p)'
  BY DEF Loose
<1>8. ASSUME NEW s \in Seq(Lines), SentOf(p, n, s), Asking(p, s) \/ Reading(p, s)
      PROVE  SentOf(p, n, s)' /\ (Asking(p, s)' \/ Reading(p, s)')
  <2>1. SentOf(p, n, s)'
    BY <1>1, <1>8 DEF SentOf
  <2>2. Asking(p, s) => Asking(p, s)'
    BY <1>1 DEF Asking
  <2>3. Reading(p, s) => Reading(p, s)'
    BY <1>1 DEF Reading
  <2> QED BY <1>8, <2>1, <2>2, <2>3
<1>9. Talks(p, n)'
  BY <1>2, <1>4, <1>5, <1>6, <1>7, <1>8 DEF Talks
<1> QED BY <1>1, <1>2, <1>9 DEF TalkOK

LEMMA UntouchedIsOK ==
  ASSUME VarTypes, NEW q \in Connections, Untouched(q), ConnectionOK(q)
  PROVE  ConnectionOK(q)'
<1>1. TalkOK(q) /\ WorkOK(q) /\ AnswersOK(q)
  BY DEF ConnectionOK
<1>2. TalkOK(q)'
  BY <1>1, TalkStays DEF Untouched
<1>3. WorkOK(q)'
  BY <1>1, WorkStays DEF Untouched
<1>4. AnswersOK(q)'
  <2>1. sent'[q] \in Nat /\ sent[q] <= sent'[q]
    BY DEF VarTypes, Untouched
  <2> QED BY <1>1, <2>1, AnswersStay DEF Untouched
<1> QED BY <1>2, <1>3, <1>4 DEF ConnectionOK

OthersUntouched(p) == \A q \in Connections \ {p} : Untouched(q)

-----------------------------------------------------------------------------
(* The client. *)
LEMMA SendHeadKeeps ==
  ASSUME VarTypes, NEW p \in Connections, ConnectionOK(p), SendHead(p)
  PROVE  VarTypes' /\ ConnectionOK(p)' /\ OthersUntouched(p)
<1> DEFINE r == script[p][sent[p] + 1]
           h == r.head
<1>1. /\ p \notin hungUp /\ stage[p] # "closed" /\ unsent[p] = <<>>
      /\ sent[p] <= Len(answers[p]) /\ sent[p] < Len(script[p])
      /\ wire' = [wire EXCEPT ![p] = Append(@, [head |-> h])]
      /\ unsent' = [unsent EXCEPT ![p] = r.body]
      /\ sent' = [sent EXCEPT ![p] = @ + 1]
      /\ script' = script /\ hungUp' = hungUp /\ answers' = answers /\ stage' = stage
      /\ request' = request /\ taken' = taken /\ batch' = batch /\ session' = session
      /\ detections' = detections
  BY DEF SendHead, Connected, handlerVars
<1>2. TalkOK(p) /\ WorkOK(p) /\ AnswersOK(p) /\ sent[p] <= Len(script[p])
  BY DEF ConnectionOK, TalkOK
<1>3. /\ Current(p) \in Request /\ Current(p).body \in Seq(Lines)
      /\ Len(Current(p).body) \in Nat
      /\ sent[p] \in Nat /\ Len(script[p]) \in Nat /\ script[p] \in Seq(Request)
      /\ Len(answers[p]) \in Nat /\ DOMAIN script[p] = 1..Len(script[p])
      /\ sent[p] # 0 => Current(p) = script[p][sent[p]]
      /\ sent[p] = 0 => LeftUnread(Current(p)) = <<>>
  BY <1>2, CurrentIs
<1>4. r \in Request /\ r.body \in Seq(Lines) /\ h \in RequestHead /\ [head |-> h] \in Tokens
  <2>1. sent[p] + 1 \in 1..Len(script[p])
    BY <1>1, <1>3
  <2>2. r \in Request
    BY <1>3, <2>1
  <2> QED BY <2>2 DEF Request, Tokens
<1>5. Current(p)' = r
  BY <1>1, <1>3 DEF Current, VarTypes
<1> HIDE DEF r
<1>6. VarTypes'
  <2>1. wire[p] \in Seq(Tokens) /\ wire \in [Connections -> Seq(Tokens)]
    BY DEF VarTypes
  <2>2. Append(wire[p], [head |-> h]) \in Seq(Tokens)
    BY <1>4, <2>1
  <2>3. wire' \in [Connections -> Seq(Tokens)]
    BY <1>1, <2>1, <2>2
  <2>4. sent \in [Connections -> Nat] /\ unsent \in [Connections -> Seq(Lines)]
    BY DEF VarTypes
  <2>5. sent' \in [Connections -> Nat]
    BY <1>1, <1>3, <2>4
  <2>6. unsent' \in [Connections -> Seq(Lines)]
    BY <1>1, <1>4, <2>4
  <2> QED BY <1>1, <2>3, <2>5, <2>6 DEF VarTypes
<1>7. OthersUntouched(p)
  BY <1>1 DEF OthersUntouched, Untouched, VarTypes
<1> HIDE DEF h
<1>8. /\ sent'[p] = sent[p] + 1 /\ unsent'[p] = r.body
      /\ wire'[p] = Append(wire[p], [head |-> h]) /\ wire[p] \in Seq(Tokens)
  BY <1>1 DEF VarTypes
<1>9. PICK n \in 0..Len(Current(p).body) : unsent[p] = From(Current(p).body, n) /\ Talks(p, n)
  BY <1>2 DEF TalkOK
<1>10. n = Len(Current(p).body)
  BY <1>1, <1>3, <1>9, FromIs
<1>11. /\ Len(r.body) \in Nat /\ 0 \in 0..Len(r.body) /\ From(r.body, 0) = r.body
       /\ Prefix(r.body, 0) = <<>>
  BY <1>4, FromIs DEF Prefix
<1>12. Talks(p, 0)'
  <2>1. CASE Loose(p)
    <3>1. /\ sent'[p] \in Nat /\ sent[p] <= sent'[p]
          /\ Len(answers'[p]) \in Nat /\ Len(answers[p]) <= Len(answers'[p])
      BY <1>1, <1>3, <1>8
    <3>2. Loose(p)'
      BY <1>1, <2>1, <3>1, LooseStays
    <3> QED BY <3>2 DEF Talks
  <2>2. CASE Answered(p, n) /\ LeftUnread(Current(p)) = <<>>
    <3>1. wire[p] = <<>> /\ stage[p] = "listening" /\ sent[p] = Len(answers[p])
          /\ InStep(p, sent[p])
      BY <2>2 DEF Answered, Resting
    <3>2. wire'[p] = Mail(h, <<>>)
      <4>1. LinesOf(<<>>) = <<>>
        <5>1. <<>> \in Seq(Lines)
          OBVIOUS
        <5> QED BY <5>1, LinesOfIs
      <4> DEFINE t == [head |-> h]
      <4>2. t \in Tokens
        BY <1>4
      <4> HIDE DEF t
      <4>3. Append(<<>>, t) = <<t>> \o <<>>
        BY <4>2
      <4> QED BY <1>8, <3>1, <4>1, <4>3 DEF Mail, t
    <3>3. InStep(p, sent[p])'
      <4>1. \A j \in DOMAIN script[p] : j < sent[p] + 1 => j < sent[p] \/ j = sent[p]
        BY <1>3
      <4>2. \A j \in DOMAIN script[p] : j < sent[p] + 1 => LeftUnread(script[p][j]) = <<>>
        BY <1>3, <2>2, <3>1, <4>1 DEF InStep
      <4> QED BY <1>1, <1>8, <4>2 DEF InStep
    <3>4. Asking(p, <<>>)'
      BY <1>1, <1>5, <1>8, <3>1, <3>2, <3>3 DEF Asking, h
    <3>5. SentOf(p, 0, <<>>)' /\ <<>> \in Seq(Lines)
      BY <1>5, <1>11 DEF SentOf
    <3> QED BY <3>4, <3>5 DEF Talks
  <2>3. CASE Answered(p, n) /\ LeftUnread(Current(p)) # <<>>
    <3>1. stage[p] = "listening" /\ sent[p] = Len(answers[p]) /\ Resting(p, n)
      BY <2>3 DEF Answered
    <3>2. wire[p] # <<>> /\ IsLeft(Current(p), Head(wire[p]))
      <4>1. ~(n < Len(Current(p).body))
        BY <1>3, <1>10
      <4> QED BY <1>1, <2>3, <3>1, <4>1 DEF Resting
    <3>3. sent[p] # 0 /\ Current(p) = script[p][sent[p]]
      BY <1>3, <2>3
    <3>4. wire'[p] # <<>> /\ Head(wire'[p]) = Head(wire[p])
      BY <1>4, <1>8, <3>2, FirstStays
    <3>5. script'[p][sent'[p] - 1] = Current(p) /\ sent'[p] > 1
      BY <1>1, <1>3, <1>8, <3>3
    <3>6. IsLeft(script[p][sent[p] - 1], Head(wire[p]))'
      BY <3>2, <3>4, <3>5 DEF IsLeft
    <3>7. Barred(p)'
      BY <1>1, <1>8, <2>3, <3>1, <3>4, <3>5, <3>6 DEF Barred
    <3> QED BY <3>7 DEF Talks
  <2>4. sent[p] # Len(answers[p]) + 1
    BY <1>1, <1>3
  <2>5. Loose(p) \/ Answered(p, n)
    BY <1>1, <1>9, <2>4 DEF Talks, Barred, Analyzing, Asking, Reading
  <2> QED BY <2>1, <2>2, <2>3, <2>5
<1>13. TalkOK(p)'
  <2>1. sent'[p] <= Len(script'[p])
    BY <1>1, <1>3, <1>8
  <2> QED BY <1>5, <1>8, <1>11, <1>12, <2>1 DEF TalkOK
<1>14. WorkOK(p)'
  BY <1>1, <1>2, WorkStays
<1>15. AnswersOK(p)'
  <2>1. sent'[p] \in Nat /\ sent[p] <= sent'[p]
    BY <1>3, <1>8
  <2> QED BY <1>1, <1>2, <2>1, AnswersStay
<1> QED BY <1>6, <1>7, <1>13, <1>14, <1>15 DEF ConnectionOK

(* A line, or a piece of one, comes after what is on the wire. *)
LEMMA LineArrives ==
  ASSUME VarTypes, NEW p \in Connections, sent[p] <= Len(script[p]),
         NEW n \in 0..Len(Current(p).body), n < Len(Current(p).body),
         unsent[p] = From(Current(p).body, n), p \notin hungUp,
         NEW x \in Lines, wire'[p] = Append(wire[p], [line |-> x]),
         x \in Pieces \/ x = Current(p).body[n + 1],
         script' = script, sent' = sent
  PROVE  /\ wire'[p] # <<>> /\ Current(p)' = Current(p)
         /\ wire[p] # <<>> => Head(wire'[p]) = Head(wire[p])
         /\ \A m : Resting(p, n) => Resting(p, m)'
<1>1. /\ Current(p) \in Request /\ Current(p).body \in Seq(Lines) /\ n \in Nat
      /\ Len(Current(p).body) \in Nat
  BY CurrentIs
<1>2. Current(p)' = Current(p)
  BY DEF Current
<1>3. wire[p] \in Seq(Tokens) /\ [line |-> x] \in Tokens
  BY DEF VarTypes, Tokens
<1>4. /\ wire'[p] # <<>>
      /\ wire[p] # <<>> => Head(wire'[p]) = Head(wire[p])
      /\ wire[p] = <<>> => Head(wire'[p]) = [line |-> x]
  BY <1>3, FirstStays
<1>5. ASSUME Resting(p, n), NEW m PROVE Resting(p, m)'
  <2>1. LeftUnread(Current(p)) # <<>>
    <3>1. unsent[p] # <<>>
      BY <1>1, FromIs
    <3> QED BY <1>5, <3>1 DEF Resting
  <2>2. IsLeft(Current(p), Head(wire'[p]))
    <3>1. CASE wire[p] = <<>>
      <4>1. ReadsLines(Current(p).head) <= n
        BY <1>5, <2>1, <3>1 DEF Resting
      <4>2. Current(p).body[n + 1] \in Elements(LeftUnread(Current(p)))
        BY <1>1, <4>1, LeftUnreadIs
      <4> QED BY <1>4, <3>1, <4>2 DEF IsLeft
    <3>2. CASE wire[p] # <<>>
      BY <1>4, <1>5, <2>1, <3>2 DEF Resting
    <3> QED BY <3>1, <3>2
  <2> QED BY <1>2, <1>4, <2>1, <2>2 DEF Resting, IsLeft
<1> QED BY <1>2, <1>4, <1>5

(* What the client has sent changes as it should. *)
LEMMA ClientGoesOn ==
  ASSUME VarTypes, NEW p \in Connections, TalkOK(p), stage[p] # "closed", p \notin hungUp,
         script' = script, sent' = sent, answers' = answers, stage' = stage,
         request' = request, taken' = taken,
         NEW n \in 0..Len(Current(p).body), unsent[p] = From(Current(p).body, n), Talks(p, n),
         NEW m \in 0..Len(Current(p).body), unsent'[p] = From(Current(p).body, m),
         Resting(p, n) => Resting(p, m)',
         wire[p] # <<>> => wire'[p] # <<>> /\ Head(wire'[p]) = Head(wire[p]),
         NEW s \in Seq(Lines), SentOf(p, m, s)',
         wire[p] = Mail(Current(p).head, Prefix(Current(p).body, n))
           => wire'[p] = Mail(Current(p).head, s),
         wire[p] = LinesOf(Prefix(Current(p).body, n)) => wire'[p] = LinesOf(s)
  PROVE  TalkOK(p)'
<1>1. Current(p)' = Current(p) /\ (\A i : InStep(p, i)' <=> InStep(p, i))
  BY DEF Current, InStep
<1>2. Len(answers[p]) \in Nat /\ sent[p] \in Nat
  BY CurrentIs DEF TalkOK
<1>3. Loose(p) => Loose(p)'
  BY DEF Loose
<1>4. Answered(p, n) => Answered(p, m)'
  BY <1>1 DEF Answered
<1>5. Barred(p) => Barred(p)'
  BY DEF Barred, IsLeft
<1>6. Analyzing(p, n) => Analyzing(p, m)'
  <2>1. Heard(p, Current(p)) \subseteq Heard(p, Current(p))'
    BY <1>1, HeardGrows
  <2> QED BY <1>1, <2>1 DEF Analyzing
<1>7. ASSUME NEW t \in Seq(Lines), SentOf(p, n, t), Asking(p, t) \/ Reading(p, t)
      PROVE  Asking(p, s)' \/ Reading(p, s)'
  <2>1. t = Prefix(Current(p).body, n)
    BY <1>7 DEF SentOf
  <2>2. Asking(p, t) => Asking(p, s)'
    BY <1>1, <2>1 DEF Asking
  <2>3. Reading(p, t) => Reading(p, s)'
    BY <1>1, <2>1 DEF Reading
  <2> QED BY <1>7, <2>2, <2>3
<1>8. Talks(p, m)'
  BY <1>3, <1>4, <1>5, <1>6, <1>7 DEF Talks
<1> QED BY <1>1, <1>8 DEF TalkOK

LEMMA SendLineKeeps ==
  ASSUME VarTypes, NEW p \in Connections, ConnectionOK(p), SendLine(p)
  PROVE  VarTypes' /\ ConnectionOK(p)' /\ OthersUntouched(p)
<1> DEFINE body == Current(p).body
           h == Current(p).head
<1>1. /\ p \notin hungUp /\ stage[p] # "closed" /\ unsent[p] # <<>>
      /\ wire' = [wire EXCEPT ![p] = Append(@, [line |-> Head(unsent[p])])]
      /\ unsent' = [unsent EXCEPT ![p] = Tail(@)]
      /\ script' = script /\ sent' = sent /\ hungUp' = hungUp /\ answers' = answers
      /\ stage' = stage /\ request' = request /\ taken' = taken /\ batch' = batch
      /\ session' = session /\ detections' = detections
  BY DEF SendLine, Connected, handlerVars
<1>2. TalkOK(p) /\ WorkOK(p) /\ AnswersOK(p) /\ sent[p] <= Len(script[p])
  BY DEF ConnectionOK, TalkOK
<1>3. Current(p) \in Request /\ body \in Seq(Lines) /\ sent[p] \in Nat /\ h \in RequestHead
      /\ Len(body) \in Nat
  BY <1>2, CurrentIs
<1>4. VarTypes'
  <2>1. unsent[p] \in Seq(Lines)
    BY DEF VarTypes
  <2>2. Head(unsent[p]) \in Lines /\ Tail(unsent[p]) \in Seq(Lines)
    BY <1>1, <2>1
  <2>3. [line |-> Head(unsent[p])] \in Tokens
    BY <2>2 DEF Tokens
  <2>4. wire[p] \in Seq(Tokens) /\ wire \in [Connections -> Seq(Tokens)]
    BY DEF VarTypes
  <2>5. Append(wire[p], [line |-> Head(unsent[p])]) \in Seq(Tokens)
    BY <2>3, <2>4
  <2>6. wire' \in [Connections -> Seq(Tokens)]
    BY <1>1, <2>4, <2>5
  <2>7. unsent' \in [Connections -> Seq(Lines)]
    BY <1>1, <2>2 DEF VarTypes
  <2> QED BY <1>1, <2>6, <2>7 DEF VarTypes
<1>5. OthersUntouched(p)
  BY <1>1 DEF OthersUntouched, Untouched, VarTypes
<1>6. PICK n \in 0..Len(body) : unsent[p] = From(body, n) /\ Talks(p, n)
  BY <1>2 DEF TalkOK
<1> HIDE DEF body
<1>7. /\ n # Len(body) /\ n + 1 \in 0..Len(body) /\ n < Len(body) /\ n \in Nat
      /\ Head(unsent[p]) = body[n + 1] /\ Tail(unsent[p]) = From(body, n + 1)
  <2>1. unsent[p] = From(body, n)
    BY <1>6 DEF body
  <2>2. n \in 0..Len(body) /\ n \in Nat
    BY <1>3 DEF body
  <2>3. n # Len(body)
    BY <1>1, <1>3, <2>1, <2>2, FromIs
  <2>4. /\ n + 1 \in 0..Len(body) /\ n < Len(body)
        /\ Head(From(body, n)) = body[n + 1] /\ Tail(From(body, n)) = From(body, n + 1)
    BY <1>3, <2>2, <2>3, FromIs
  <2> QED BY <2>1, <2>2, <2>3, <2>4
<1>8. wire'[p] = Append(wire[p], [line |-> body[n + 1]]) /\ unsent'[p] = From(body, n + 1)
  BY <1>1, <1>7 DEF VarTypes
<1>9. body[n + 1] \in Lines /\ Prefix(body, n + 1) = Append(Prefix(body, n), body[n + 1])
      /\ Prefix(body, n) \in Seq(Lines) /\ Prefix(body, n + 1) \in Seq(Lines)
  BY <1>3, <1>7, PrefixNext, PrefixOf
<1>10. /\ wire'[p] # <<>> /\ Current(p)' = Current(p)
       /\ wire[p] # <<>> => Head(wire'[p]) = Head(wire[p])
       /\ Resting(p, n) => Resting(p, n + 1)'
  BY <1>1, <1>2, <1>6, <1>7, <1>8, <1>9, LineArrives DEF body
<1>11. TalkOK(p)'
  <2> DEFINE x == body[n + 1]
  <2> PICK s : s = Prefix(body, n + 1)
    OBVIOUS
  <2>1. SentOf(p, n + 1, s)'
    BY <1>10 DEF SentOf, body
  <2> HIDE DEF x, h
  <2>2. wire[p] = Mail(h, Prefix(body, n)) => wire'[p] = Mail(h, s)
    <3>1. Append(Mail(h, Prefix(body, n)), [line |-> x]) = Mail(h, Append(Prefix(body, n), x))
      BY <1>3, <1>9, MailIs DEF x
    <3> QED BY <1>8, <1>9, <3>1 DEF x
  <2>3. wire[p] = LinesOf(Prefix(body, n)) => wire'[p] = LinesOf(s)
    BY <1>8, <1>9, LinesOfAppend DEF x
  <2>4. s \in Seq(Lines)
    BY <1>9
  <2> QED BY <1>1, <1>2, <1>6, <1>7, <1>8, <1>10, <2>1, <2>2, <2>3, <2>4, ClientGoesOn DEF body, h
<1>12. WorkOK(p)'
  BY <1>1, <1>2, WorkStays
<1>13. AnswersOK(p)'
  BY <1>1, <1>2, <1>3, AnswersStay
<1> QED BY <1>4, <1>5, <1>11, <1>12, <1>13 DEF ConnectionOK

LEMMA HangUpKeeps ==
  ASSUME VarTypes, NEW p \in Connections, ConnectionOK(p), HangUp(p)
  PROVE  VarTypes' /\ ConnectionOK(p)' /\ OthersUntouched(p)
<1> DEFINE body == Current(p).body
           h == Current(p).head
<1>1. /\ p \notin hungUp /\ stage[p] # "closed" /\ hungUp' = hungUp \cup {p}
      /\ script' = script /\ sent' = sent /\ unsent' = unsent
      /\ answers' = answers /\ stage' = stage /\ request' = request /\ taken' = taken
      /\ batch' = batch /\ session' = session /\ detections' = detections
      /\ \/ wire' = wire
         \/ /\ unsent[p] # <<>>
            /\ \E piece \in Pieces : wire' = [wire EXCEPT ![p] = Append(@, [line |-> piece])]
  BY DEF HangUp, Connected, handlerVars
<1>2. TalkOK(p) /\ WorkOK(p) /\ AnswersOK(p) /\ sent[p] <= Len(script[p])
  BY DEF ConnectionOK, TalkOK
<1>3. Current(p) \in Request /\ body \in Seq(Lines) /\ sent[p] \in Nat /\ h \in RequestHead
      /\ Len(body) \in Nat
  BY <1>2, CurrentIs
<1>4. Current(p)' = Current(p)
  BY <1>1 DEF Current
<1>5. PICK n \in 0..Len(body) : unsent[p] = From(body, n) /\ Talks(p, n)
  BY <1>2 DEF TalkOK
<1>6. Prefix(body, n) \in Seq(Lines)
  BY <1>3, PrefixOf
<1>7. WorkOK(p)'
  BY <1>1, <1>2, WorkStays
<1>8. AnswersOK(p)'
  BY <1>1, <1>2, <1>3, AnswersStay
<1>9. CASE wire' = wire
  <2>1. VarTypes' /\ OthersUntouched(p)
    BY <1>1, <1>9 DEF VarTypes, OthersUntouched, Untouched
  <2>2. Resting(p, n) => Resting(p, n)'
    BY <1>1, <1>4, <1>9 DEF Resting
  <2> PICK s : s = Prefix(body, n)
    OBVIOUS
  <2>3. SentOf(p, n, s)'
    BY <1>4 DEF SentOf
  <2>4. unsent'[p] = From(body, n)
    BY <1>1, <1>5
  <2>5. TalkOK(p)'
    BY <1>1, <1>2, <1>5, <1>6, <1>9, <2>2, <2>3, <2>4, ClientGoesOn
  <2> QED BY <1>7, <1>8, <2>1, <2>5 DEF ConnectionOK
<1>10. ASSUME unsent[p] # <<>>, NEW piece \in Pieces,
              wire' = [wire EXCEPT ![p] = Append(@, [line |-> piece])]
       PROVE  VarTypes' /\ ConnectionOK(p)' /\ OthersUntouched(p)
  <2>1. piece \in Lines /\ [line |-> piece] \in Tokens
    BY LinesApart DEF Tokens
  <2>2. /\ wire' \in [Connections -> Seq(Tokens)] /\ wire'[p] = Append(wire[p], [line |-> piece])
        /\ \A q \in Connections \ {p} : wire'[q] = wire[q]
    <3>1. wire[p] \in Seq(Tokens) /\ wire \in [Connections -> Seq(Tokens)]
      BY DEF VarTypes
    <3>2. Append(wire[p], [line |-> piece]) \in Seq(Tokens)
      BY <2>1, <3>1
    <3> QED BY <1>10, <3>1, <3>2
  <2>3. VarTypes' /\ OthersUntouched(p)
    BY <1>1, <2>2 DEF VarTypes, OthersUntouched, Untouched
  <2>4. n < Len(body)
    BY <1>3, <1>5, <1>10, FromIs
  <2>5. /\ wire'[p] # <<>>
        /\ wire[p] # <<>> => Head(wire'[p]) = Head(wire[p])
        /\ Resting(p, n) => Resting(p, n)'
    BY <1>1, <1>2, <1>5, <2>1, <2>2, <2>4, LineArrives
  <2>6. TalkOK(p)'
    <3> PICK s : s = Append(Prefix(body, n), piece)
      OBVIOUS
    <3>1. SentOf(p, n, s)'
      BY <1>1, <1>4, <2>4 DEF SentOf
    <3> HIDE DEF h, body
    <3>2. wire[p] = Mail(h, Prefix(body, n)) => wire'[p] = Mail(h, s)
      BY <1>3, <1>6, <2>1, <2>2, MailIs
    <3>3. wire[p] = LinesOf(Prefix(body, n)) => wire'[p] = LinesOf(s)
      BY <1>6, <2>1, <2>2, LinesOfAppend
    <3>4. s \in Seq(Lines) /\ unsent'[p] = From(body, n)
      BY <1>1, <1>5, <1>6, <2>1
    <3> QED BY <1>1, <1>2, <1>5, <2>5, <3>1, <3>2, <3>3, <3>4, ClientGoesOn DEF h, body
  <2> QED BY <1>7, <1>8, <2>3, <2>6 DEF ConnectionOK
<1> QED BY <1>1, <1>9, <1>10

-----------------------------------------------------------------------------
(* The thread. *)
LEMMA TailTyped ==
  ASSUME VarTypes, NEW p \in Connections, wire[p] # <<>>
  PROVE  Tail(wire[p]) \in Seq(Tokens) /\ Head(wire[p]) \in Tokens
<1>1. wire[p] \in Seq(Tokens)
  BY DEF VarTypes
<1> QED BY <1>1

LEMMA TokenIs ==
  ASSUME NEW t \in Tokens
  PROVE  /\ "head" \in DOMAIN t => t.head \in RequestHead
         /\ "line" \in DOMAIN t => t.line \in Lines
         /\ "head" \in DOMAIN t \/ "line" \in DOMAIN t
         /\ ~("head" \in DOMAIN t /\ "line" \in DOMAIN t)
         /\ \A x : t = [line |-> x] => "line" \in DOMAIN t /\ t.line = x
         /\ \A x : t = [head |-> x] => "head" \in DOMAIN t /\ t.head = x
  BY DEF Tokens

LEMMA AnswerTyped ==
  ASSUME VarTypes, NEW p \in Connections, NEW a \in AnswerType,
         answers' = [answers EXCEPT ![p] = Append(@, a)]
  PROVE  /\ answers' \in [Connections -> Seq(AnswerType)]
         /\ answers'[p] = Append(answers[p], a) /\ Len(answers'[p]) = Len(answers[p]) + 1
         /\ answers'[p][Len(answers'[p])] = a /\ Len(answers[p]) \in Nat
         /\ answers'[p][Len(answers[p]) + 1] = a
         /\ \A q \in Connections \ {p} : answers'[q] = answers[q]
<1>1. answers \in [Connections -> Seq(AnswerType)] /\ answers[p] \in Seq(AnswerType)
  BY DEF VarTypes
<1>2. /\ Append(answers[p], a) \in Seq(AnswerType)
      /\ Len(Append(answers[p], a)) = Len(answers[p]) + 1 /\ Len(answers[p]) \in Nat
      /\ Append(answers[p], a)[Len(answers[p]) + 1] = a
  BY <1>1
<1>3. answers'[p] = Append(answers[p], a) /\ answers' \in [Connections -> Seq(AnswerType)]
      /\ \A q \in Connections \ {p} : answers'[q] = answers[q]
  BY <1>1, <1>2
<1> QED BY <1>2, <1>3

(* A thread that ends, or is not in step any more, says nothing of the rest. *)
LEMMA LooseTalks ==
  ASSUME NEW p \in Connections, TalkOK(p), script' = script, sent' = sent,
         unsent'[p] = unsent[p], stage'[p] = "closed" \/ Loose(p)'
  PROVE  TalkOK(p)'
<1>1. Current(p)' = Current(p)
  BY DEF Current
<1>2. PICK n \in 0..Len(Current(p).body) : unsent[p] = From(Current(p).body, n)
  BY DEF TalkOK
<1>3. Talks(p, n)'
  BY DEF Talks
<1> QED BY <1>1, <1>2, <1>3 DEF TalkOK

(* What the thread leaves on the wire when it has read what it reads of a body. *)
LEMMA RestLeft ==
  ASSUME VarTypes, NEW p \in Connections, sent[p] <= Len(script[p]),
         NEW n \in 0..Len(Current(p).body), unsent[p] = From(Current(p).body, n),
         NEW s \in Seq(Lines), SentOf(p, n, s), NEW m \in 0..Len(s),
         \/ m = ReadsLines(Current(p).head)
         \/ m = Len(s) /\ m < ReadsLines(Current(p).head) /\ p \in hungUp,
         wire'[p] = SubSeq(LinesOf(s), m + 1, Len(s)),
         script' = script, sent' = sent, unsent' = unsent, hungUp' = hungUp
  PROVE  Resting(p, n)'
<1>1. PICK r : r = Current(p)
  OBVIOUS
<1> DEFINE body == r.body
           k == ReadsLines(r.head)
<1>2. /\ r \in Request /\ body \in Seq(Lines) /\ Len(body) \in Nat /\ n \in 0..Len(body)
      /\ n \in Nat /\ Current(p)' = r
  BY <1>1, CurrentIs DEF Current
<1>3. /\ k \in Nat /\ (LeftUnread(r) = <<>> <=> k >= Len(body))
      /\ \A i \in Nat : k <= i /\ i < Len(body) => body[i + 1] \in Elements(LeftUnread(r))
  BY <1>2, LeftUnreadIs
<1>4. /\ Len(s) \in Nat
      /\ Len(s) = n \/ (Len(s) = n + 1 /\ p \in hungUp /\ n < Len(body))
      /\ \A i \in 1..Len(s) : s[i] = body[i] \/ s[i] \in Pieces
  <2>1. /\ Prefix(body, n) \in Seq(Lines) /\ Len(Prefix(body, n)) = n
        /\ \A i \in 1..n : Prefix(body, n)[i] = body[i]
    <3> HIDE DEF body
    <3> QED BY <1>2, PrefixOf
  <2>2. CASE s = Prefix(body, n)
    BY <1>2, <2>1, <2>2
  <2>3. ASSUME p \in hungUp, n < Len(body), NEW piece \in Pieces,
               s = Append(Prefix(body, n), piece)
        PROVE  /\ Len(s) = n + 1
               /\ \A i \in 1..Len(s) : s[i] = body[i] \/ s[i] \in Pieces
    <3>1. Len(s) = n + 1 /\ s[n + 1] = piece /\ \A i \in 1..n : s[i] = Prefix(body, n)[i]
      BY <1>2, <2>1, <2>3
    <3>2. \A i \in 1..(n + 1) : i \in 1..n \/ i = n + 1
      BY <1>2
    <3> QED BY <2>1, <3>1, <3>2
  <2> QED BY <1>1, <1>2, <2>2, <2>3 DEF SentOf
<1>5. /\ wire'[p] = <<>> <=> m = Len(s)
      /\ m < Len(s) => Head(wire'[p]) = [line |-> s[m + 1]]
  <2> DEFINE w == SubSeq(LinesOf(s), m + 1, Len(s))
  <2>1. (w = <<>> <=> m = Len(s)) /\ (m < Len(s) => Head(w) = [line |-> s[m + 1]])
    BY LinesAfter
  <2> HIDE DEF w
  <2>2. wire'[p] = w
    BY DEF w
  <2> QED BY <2>1, <2>2
<1>6. unsent'[p] = unsent[p] /\ (unsent[p] = <<>> <=> n = Len(body))
  <2>1. From(body, n) = <<>> <=> n = Len(body)
    BY <1>2, FromIs
  <2>2. unsent[p] = From(body, n)
    BY <1>1
  <2> QED BY <2>1, <2>2
<1> HIDE DEF k, body
<1>7. m = k \/ (m = Len(s) /\ m < k /\ p \in hungUp')
  BY <1>1 DEF k
<1>8. CASE LeftUnread(r) = <<>>
  <2>1. m = Len(s)
    BY <1>2, <1>3, <1>4, <1>7, <1>8
  <2>2. n = Len(body) \/ p \in hungUp'
    BY <1>2, <1>3, <1>4, <1>7, <1>8
  <2> QED BY <1>2, <1>5, <1>6, <1>8, <2>1, <2>2 DEF Resting
<1>9. CASE LeftUnread(r) # <<>>
  <2>1. k < Len(body)
    BY <1>2, <1>3, <1>9
  <2>2. wire'[p] = <<>> => p \in hungUp' \/ (k <= n /\ n < Len(body))
    BY <1>2, <1>3, <1>4, <1>5, <1>7, <2>1
  <2>3. ASSUME wire'[p] # <<>> PROVE IsLeft(r, Head(wire'[p]))
    <3>1. m < Len(s) /\ m = k /\ m + 1 \in 1..Len(s)
      <4>1. m # Len(s)
        BY <1>5, <2>3
      <4>2. m \in 0..Len(s) /\ Len(s) \in Nat
        BY <1>4
      <4> QED BY <1>7, <4>1, <4>2
    <3>2. body[m + 1] \in Elements(LeftUnread(r))
      <4>1. m \in Nat /\ k <= m /\ m < Len(body)
        BY <1>3, <2>1, <3>1
      <4> QED BY <1>3, <4>1
    <3>3. s[m + 1] \in Elements(LeftUnread(r)) \cup Pieces
      BY <1>4, <3>1, <3>2
    <3> QED BY <1>5, <3>1, <3>3 DEF IsLeft
  <2> QED BY <1>2, <1>9, <2>2, <2>3 DEF Resting, k, body
<1> QED BY <1>8, <1>9

(* What comes next on the wire of a thread that listens. *)
LEMMA NextHead ==
  ASSUME VarTypes, NEW p \in Connections, TalkOK(p), stage[p] = "listening", wire[p] # <<>>,
         "head" \in DOMAIN Head(wire[p]), ~Loose(p)
  PROVE  \E n \in 0..Len(Current(p).body), s \in Seq(Lines) :
           /\ unsent[p] = From(Current(p).body, n) /\ SentOf(p, n, s) /\ Asking(p, s)
           /\ Head(wire[p]).head = Current(p).head /\ Tail(wire[p]) = LinesOf(s)
<1>1. PICK n \in 0..Len(Current(p).body) : unsent[p] = From(Current(p).body, n) /\ Talks(p, n)
  BY DEF TalkOK
<1>2. Current(p).head \in RequestHead
  BY CurrentIs DEF TalkOK
<1>3. \A x : Head(wire[p]) # [line |-> x]
  BY TailTyped, TokenIs
<1>4. ~Answered(p, n) /\ ~Barred(p)
  BY <1>3 DEF Answered, Barred, Resting, IsLeft
<1>5. PICK s \in Seq(Lines) : SentOf(p, n, s) /\ Asking(p, s)
  BY <1>1, <1>4 DEF Talks, Analyzing, Reading
<1>6. Head(wire[p]) = [head |-> Current(p).head] /\ Tail(wire[p]) = LinesOf(s)
  <2> DEFINE h == Current(p).head
  <2>1. h \in RequestHead /\ wire[p] = Mail(h, s)
    BY <1>2, <1>5 DEF Asking
  <2> HIDE DEF h
  <2>2. Head(Mail(h, s)) = [head |-> h] /\ Tail(Mail(h, s)) = LinesOf(s)
    BY <2>1, MailIs
  <2> QED BY <2>1, <2>2 DEF h
<1>7. Head(wire[p]).head = Current(p).head
  BY <1>6
<1> QED BY <1>1, <1>5, <1>6, <1>7

LEMMA NextLine ==
  ASSUME VarTypes, NEW p \in Connections, TalkOK(p), stage[p] = "listening", wire[p] # <<>>,
         "line" \in DOMAIN Head(wire[p])
  PROVE  /\ \E j \in 1..sent[p] :
              /\ j <= Len(answers[p]) /\ LeftUnread(script[p][j]) # <<>>
              /\ Loose(p) => AsksFor(script[p][j]) # {}
         /\ Head(wire[p]).line \in RequestLines => Loose(p)
<1>1. PICK n \in 0..Len(Current(p).body) : unsent[p] = From(Current(p).body, n) /\ Talks(p, n)
  BY DEF TalkOK
<1>2. /\ Current(p) \in Request /\ sent[p] \in Nat /\ Current(p).head \in RequestHead
      /\ Len(answers[p]) \in Nat
      /\ sent[p] # 0 => Current(p) = script[p][sent[p]]
      /\ sent[p] = 0 => LeftUnread(Current(p)) = <<>>
  BY CurrentIs DEF TalkOK
<1>3. CASE Loose(p)
  <2>1. PICK j \in 1..sent[p] : j <= Len(answers[p]) /\ AsksFor(script[p][j]) # {}
    BY <1>3 DEF Loose
  <2>2. LeftUnread(script[p][j]) # <<>>
    BY <2>1, AsksLeaves
  <2> QED BY <1>3, <2>1, <2>2
<1>4. CASE ~Loose(p)
  <2>1. \A x : Head(wire[p]) # [head |-> x]
    BY TailTyped, TokenIs
  <2>2. ~\E s \in Seq(Lines) : Asking(p, s)
    BY <1>2, <2>1, MailIs DEF Asking
  <2>3. Answered(p, n) \/ Barred(p)
    BY <1>1, <1>4, <2>2 DEF Talks, Analyzing, Reading
  <2>4. PICK j \in 1..sent[p] :
          j <= Len(answers[p]) /\ LeftUnread(script[p][j]) # <<>>
          /\ IsLeft(script[p][j], Head(wire[p]))
    <3>1. CASE Answered(p, n)
      <4>1. sent[p] = Len(answers[p]) /\ Resting(p, n)
        BY <3>1 DEF Answered
      <4>2. LeftUnread(Current(p)) # <<>> /\ IsLeft(Current(p), Head(wire[p]))
        BY <4>1 DEF Resting
      <4>3. sent[p] # 0 /\ sent[p] \in 1..sent[p] /\ Current(p) = script[p][sent[p]]
        BY <1>2, <4>2
      <4> QED BY <1>2, <4>1, <4>2, <4>3
    <3>2. CASE Barred(p)
      <4>1. sent[p] - 1 \in 1..sent[p] /\ sent[p] - 1 <= Len(answers[p])
        BY <1>2, <3>2 DEF Barred
      <4> QED BY <3>2, <4>1 DEF Barred
    <3> QED BY <2>3, <3>1, <3>2
  <2>5. Head(wire[p]).line \notin RequestLines
    <3> SUFFICES ASSUME Head(wire[p]).line \in RequestLines PROVE FALSE
      OBVIOUS
    <3>1. Head(wire[p]).line \in Elements(LeftUnread(script[p][j])) \cup Pieces
      BY <2>4, TailTyped, TokenIs DEF IsLeft
    <3>2. AsksFor(script[p][j]) # {}
      BY <3>1, LinesApart DEF AsksFor
    <3> QED BY <1>4, <2>4, <3>2 DEF Loose
  <2> QED BY <1>4, <2>4, <2>5
<1> QED BY <1>3, <1>4

(* The three outcomes of a head. *)
LEMMA Served ==
  ASSUME VarTypes, NEW p \in Connections, NEW h \in RequestHead, Serve(p, h),
         stage[p] # "closed", stage[p] # "analyzing"
  PROVE  LET a == Said(EarlyAnswer(h), <<>>)
         IN /\ request' = [request EXCEPT ![p] = h]
            /\ stage' \in [Connections -> {"listening", "headers", "reading", "analyzing", "closed"}]
            /\ \A q \in Connections \ {p} : stage'[q] = stage[q]
            /\ stage'[p] # "analyzing"
            /\ a.status # "bad_request"
            /\ \/ stage'[p] = "closed" /\ answers' = answers
               \/ EarlyAnswer(h) = "body" /\ stage'[p] = "reading" /\ answers' = answers
               \/ /\ a \in AnswerType /\ EarlyAnswer(h) # "body"
                  /\ stage'[p] = "listening"
                  /\ answers' = [answers EXCEPT ![p] = Append(@, a)]
<1> DEFINE a == Said(EarlyAnswer(h), <<>>)
<1>1. EarlyAnswer(h) \in EarlyStatuses \cup {"none", "body"}
  BY DEF EarlyAnswer, EarlyStatuses
<1>2. EarlyAnswer(h) \notin {"none", "body"} => a \in AnswerType
  <2>1. <<>> \in Seq(Detected)
    OBVIOUS
  <2> QED BY <1>1, <2>1 DEF Said, AnswerType
<1>3. EarlyAnswer(h) # "bad_request" /\ a.status = EarlyAnswer(h)
  BY <1>1 DEF EarlyStatuses, Said
<1>4. \/ EarlyAnswer(h) = "none" /\ stage' = [stage EXCEPT ![p] = "closed"] /\ answers' = answers
      \/ EarlyAnswer(h) = "body" /\ stage' = [stage EXCEPT ![p] = "reading"] /\ answers' = answers
      \/ /\ EarlyAnswer(h) \notin {"none", "body"} /\ stage' = [stage EXCEPT ![p] = "listening"]
         /\ answers' = [answers EXCEPT ![p] = Append(@, a)]
  BY DEF Serve, GoTo, Answer, Said
<1>5. stage \in [Connections -> {"listening", "headers", "reading", "analyzing", "closed"}]
  BY DEF VarTypes
<1>6. request' = [request EXCEPT ![p] = h]
  BY DEF Serve
<1> HIDE DEF a
<1>7. stage' \in [Connections -> {"listening", "headers", "reading", "analyzing", "closed"}]
      /\ \A q \in Connections \ {p} : stage'[q] = stage[q]
  BY <1>4, <1>5
<1>8. /\ stage'[p] # "analyzing"
      /\ \/ stage'[p] = "closed" /\ answers' = answers
         \/ EarlyAnswer(h) = "body" /\ stage'[p] = "reading" /\ answers' = answers
         \/ /\ a \in AnswerType /\ EarlyAnswer(h) # "body"
            /\ stage'[p] = "listening"
            /\ answers' = [answers EXCEPT ![p] = Append(@, a)]
  BY <1>2, <1>4, <1>5
<1> QED BY <1>3, <1>6, <1>7, <1>8 DEF a

(* An answer to a head that was taken out of what nobody had read. *)
LEMMA ServeLoose ==
  ASSUME VarTypes, NEW p \in Connections, ConnectionOK(p), Loose(p),
         stage[p] # "closed", stage[p] # "analyzing",
         NEW h \in RequestHead, Serve(p, h),
         wire' \in [Connections -> Seq(Tokens)],
         \A q \in Connections \ {p} : wire'[q] = wire[q],
         script' = script, sent' = sent, unsent' = unsent, hungUp' = hungUp,
         taken' = taken, batch' = batch, session' = session, detections' = detections
  PROVE  VarTypes' /\ ConnectionOK(p)' /\ OthersUntouched(p)
<1> DEFINE a == Said(EarlyAnswer(h), <<>>)
<1>1. TalkOK(p) /\ WorkOK(p) /\ AnswersOK(p) /\ sent[p] <= Len(script[p])
  BY DEF ConnectionOK, TalkOK
<1>2. /\ request' = [request EXCEPT ![p] = h]
      /\ stage' \in [Connections -> {"listening", "headers", "reading", "analyzing", "closed"}]
      /\ \A q \in Connections \ {p} : stage'[q] = stage[q]
      /\ stage'[p] # "analyzing" /\ a.status # "bad_request"
      /\ \/ answers' = answers
         \/ a \in AnswerType /\ answers' = [answers EXCEPT ![p] = Append(@, a)]
  BY Served
<1> HIDE DEF a
<1>3. PICK j \in 1..sent[p] : j <= Len(answers[p]) /\ AsksFor(script[p][j]) # {}
  BY DEF Loose
<1>4. LeftUnread(script[p][j]) # <<>>
  BY <1>3, AsksLeaves
<1>5. /\ answers' \in [Connections -> Seq(AnswerType)]
      /\ \A q \in Connections \ {p} : answers'[q] = answers[q]
      /\ Len(answers'[p]) \in Nat /\ Len(answers[p]) <= Len(answers'[p])
      /\ AnswersOK(p)'
  <2>1. CASE answers' = answers
    <3>1. answers \in [Connections -> Seq(AnswerType)] /\ sent'[p] \in Nat /\ sent[p] <= sent'[p]
      BY DEF VarTypes
    <3>2. AnswersOK(p)'
      BY <1>1, <2>1, <3>1, AnswersStay
    <3>3. answers[p] \in Seq(AnswerType)
      BY <3>1
    <3>4. Len(answers'[p]) \in Nat /\ Len(answers[p]) <= Len(answers'[p])
      BY <2>1, <3>3
    <3> QED BY <2>1, <3>1, <3>2, <3>4
  <2>2. CASE a \in AnswerType /\ answers' = [answers EXCEPT ![p] = Append(@, a)]
    <3>1. /\ answers' \in [Connections -> Seq(AnswerType)]
          /\ answers'[p] = Append(answers[p], a) /\ Len(answers'[p]) = Len(answers[p]) + 1
          /\ Len(answers[p]) \in Nat /\ answers'[p][Len(answers[p]) + 1] = a
          /\ \A q \in Connections \ {p} : answers'[q] = answers[q]
      BY <2>2, AnswerTyped
    <3>2. AnswerMatches(p, Len(answers[p]))'
      BY <1>1, <1>2, <1>3, <1>4, <3>1, AnswerOutOfStep
    <3>3. AnswersOK(p)'
      BY <1>1, <2>2, <3>1, <3>2, AnswersGrow
    <3> QED BY <3>1, <3>3
  <2> QED BY <1>2, <2>1, <2>2
<1>6. VarTypes' /\ OthersUntouched(p)
  <2>1. request' \in [Connections -> RequestHead]
    BY <1>2 DEF VarTypes
  <2> QED BY <1>2, <1>5, <2>1 DEF VarTypes, OthersUntouched, Untouched
<1>7. TalkOK(p)'
  <2>1. sent'[p] \in Nat /\ sent[p] <= sent'[p]
    BY DEF VarTypes
  <2>2. Loose(p)'
    BY <1>5, <2>1, LooseStays
  <2> QED BY <1>1, <2>2, LooseTalks
<1>8. WorkOK(p)'
  BY <1>1, <1>2, WorkStays
<1> QED BY <1>5, <1>6, <1>7, <1>8 DEF ConnectionOK

LEMMA DispatchKeeps ==
  ASSUME VarTypes, NEW p \in Connections, ConnectionOK(p), Dispatch(p)
  PROVE  VarTypes' /\ ConnectionOK(p)' /\ OthersUntouched(p)
<1>1. /\ stage[p] = "listening" /\ wire[p] # <<>> /\ "head" \in DOMAIN Head(wire[p])
      /\ wire' = [wire EXCEPT ![p] = Tail(@)]
      /\ Serve(p, Head(wire[p]).head)
      /\ script' = script /\ sent' = sent /\ unsent' = unsent /\ hungUp' = hungUp
      /\ taken' = taken /\ batch' = batch /\ session' = session /\ detections' = detections
  BY DEF Dispatch, Reads, clientVars
<1>2. TalkOK(p) /\ WorkOK(p) /\ AnswersOK(p) /\ sent[p] <= Len(script[p])
  BY DEF ConnectionOK, TalkOK
<1>3. wire' \in [Connections -> Seq(Tokens)] /\ wire'[p] = Tail(wire[p])
      /\ \A q \in Connections \ {p} : wire'[q] = wire[q]
  <2>1. Tail(wire[p]) \in Seq(Tokens) /\ wire \in [Connections -> Seq(Tokens)]
    BY <1>1, TailTyped DEF VarTypes
  <2> QED BY <1>1, <2>1
<1>4. Head(wire[p]).head \in RequestHead
  BY <1>1, TailTyped, TokenIs
<1>5. CASE Loose(p)
  BY <1>1, <1>3, <1>4, <1>5, ServeLoose
<1>6. CASE ~Loose(p)
  <2>1. PICK n \in 0..Len(Current(p).body), s \in Seq(Lines) :
          /\ unsent[p] = From(Current(p).body, n) /\ SentOf(p, n, s) /\ Asking(p, s)
          /\ Head(wire[p]).head = Current(p).head /\ Tail(wire[p]) = LinesOf(s)
    BY <1>1, <1>2, <1>6, NextHead
  <2>2. PICK h : h = Current(p).head
    OBVIOUS
  <2> DEFINE a == Said(EarlyAnswer(h), <<>>)
  <2>3. /\ request' = [request EXCEPT ![p] = h]
        /\ stage' \in [Connections -> {"listening", "headers", "reading", "analyzing", "closed"}]
        /\ \A q \in Connections \ {p} : stage'[q] = stage[q]
        /\ stage'[p] # "analyzing" /\ a.status # "bad_request"
        /\ \/ stage'[p] = "closed" /\ answers' = answers
           \/ EarlyAnswer(h) = "body" /\ stage'[p] = "reading" /\ answers' = answers
           \/ /\ a \in AnswerType /\ EarlyAnswer(h) # "body"
              /\ stage'[p] = "listening"
              /\ answers' = [answers EXCEPT ![p] = Append(@, a)]
    BY <1>1, <1>4, <2>1, <2>2, Served
  <2>4. /\ Current(p)' = Current(p) /\ (\A i : InStep(p, i)' <=> InStep(p, i))
        /\ SentOf(p, n, s)'
    BY <1>1, <2>1 DEF Current, InStep, SentOf
  <2>5. /\ sent[p] \in Nat /\ Len(answers[p]) \in Nat /\ sent[p] = Len(answers[p]) + 1
        /\ InStep(p, sent[p]) /\ Current(p) = script[p][sent[p]]
    <3>1. sent[p] = Len(answers[p]) + 1 /\ InStep(p, sent[p])
      BY <2>1 DEF Asking
    <3> QED BY <1>2, <3>1, CurrentIs
  <2>6. request' \in [Connections -> RequestHead] /\ request'[p] = h
        /\ \A q \in Connections \ {p} : request'[q] = request[q]
    BY <1>4, <2>1, <2>2, <2>3 DEF VarTypes
  <2>7. WorkOK(p)'
    BY <1>1, <1>2, <2>3, WorkStays
  <2>8. ASSUME answers' = answers, TalkOK(p)'
        PROVE  VarTypes' /\ ConnectionOK(p)' /\ OthersUntouched(p)
    <3>1. VarTypes' /\ OthersUntouched(p)
      BY <1>1, <1>3, <2>3, <2>6, <2>8 DEF VarTypes, OthersUntouched, Untouched
    <3>2. AnswersOK(p)'
      BY <1>1, <1>2, <2>5, <2>8, AnswersStay
    <3> QED BY <2>7, <2>8, <3>1, <3>2 DEF ConnectionOK
  <2>9. CASE stage'[p] = "closed" /\ answers' = answers
    <3>1. TalkOK(p)'
      BY <1>1, <1>2, <2>9, LooseTalks
    <3> QED BY <2>8, <2>9, <3>1
  <2>10. CASE EarlyAnswer(h) = "body" /\ stage'[p] = "reading" /\ answers' = answers
    <3>1. Reading(p, s)'
      BY <1>1, <1>3, <2>1, <2>2, <2>4, <2>5, <2>6, <2>10 DEF Reading
    <3>2. Talks(p, n)'
      BY <2>4, <3>1 DEF Talks
    <3>3. TalkOK(p)'
      BY <1>1, <1>2, <2>1, <2>4, <3>2 DEF TalkOK
    <3> QED BY <2>8, <2>10, <3>3
  <2> HIDE DEF a
  <2>11. CASE /\ a \in AnswerType /\ EarlyAnswer(h) # "body"
              /\ stage'[p] = "listening"
              /\ answers' = [answers EXCEPT ![p] = Append(@, a)]
    <3>1. /\ answers' \in [Connections -> Seq(AnswerType)]
          /\ answers'[p] = Append(answers[p], a) /\ Len(answers'[p]) = Len(answers[p]) + 1
          /\ answers'[p][Len(answers[p]) + 1] = a
          /\ \A q \in Connections \ {p} : answers'[q] = answers[q]
      BY <2>11, AnswerTyped
    <3>2. VarTypes' /\ OthersUntouched(p)
      BY <1>1, <1>3, <2>3, <2>6, <3>1 DEF VarTypes, OthersUntouched, Untouched
    <3>3. Resting(p, n)'
      <4>1. Len(s) \in Nat /\ 0 \in 0..Len(s) /\ ReadsLines(Current(p).head) = 0
        BY <2>2, <2>11 DEF ReadsLines
      <4>2. wire'[p] = SubSeq(LinesOf(s), 0 + 1, Len(s))
        BY <1>3, <2>1, <4>1, LinesAfter
      <4> QED BY <1>1, <1>2, <2>1, <4>1, <4>2, RestLeft
    <3>4. Answered(p, n)'
      BY <1>1, <2>4, <2>5, <2>11, <3>1, <3>3 DEF Answered
    <3>5. TalkOK(p)'
      <4>1. Talks(p, n)'
        BY <3>4 DEF Talks
      <4> QED BY <1>1, <1>2, <2>1, <2>4, <4>1 DEF TalkOK
    <3>6. AnswerMatches(p, Len(answers[p]))'
      <4>1. PICK i : i = Len(answers[p]) + 1
        OBVIOUS
      <4>2. /\ answers'[p][i] = a /\ sent'[p] = i /\ Len(answers'[p]) = i /\ i \in Nat
            /\ script'[p][i].head = h
        BY <1>1, <2>2, <2>5, <3>1, <4>1
      <4>3. a = [status |-> EarlyAnswer(h), detections |-> <<>>]
        BY DEF a, Said
      <4>4. RightAnswer(p, i)'
        BY <2>11, <4>2, <4>3 DEF RightAnswer
      <4> QED BY <2>3, <4>2, <4>4 DEF AnswerMatches
    <3>7. AnswersOK(p)'
      BY <1>1, <1>2, <2>11, <3>1, <3>6, AnswersGrow
    <3> QED BY <2>7, <3>2, <3>5, <3>7 DEF ConnectionOK
  <2> QED BY <2>3, <2>9, <2>10, <2>11 DEF a
<1> QED BY <1>5, <1>6

LEMMA RefuseLineKeeps ==
  ASSUME VarTypes, NEW p \in Connections, ConnectionOK(p), RefuseLine(p)
  PROVE  VarTypes' /\ ConnectionOK(p)' /\ OthersUntouched(p)
<1> DEFINE a == Said("bad_request", <<>>)
<1>1. /\ stage[p] = "listening" /\ wire[p] # <<>> /\ "line" \in DOMAIN Head(wire[p])
      /\ wire' = [wire EXCEPT ![p] = Tail(@)]
      /\ stage' = [stage EXCEPT ![p] = "closed"]
      /\ script' = script /\ sent' = sent /\ unsent' = unsent /\ hungUp' = hungUp
      /\ request' = request
      /\ taken' = taken /\ batch' = batch /\ session' = session /\ detections' = detections
      /\ answers' = answers \/ answers' = [answers EXCEPT ![p] = Append(@, a)]
  BY DEF RefuseLine, LineIsNext, Reads, GoTo, Answer, Said, clientVars
<1>2. TalkOK(p) /\ WorkOK(p) /\ AnswersOK(p) /\ sent[p] <= Len(script[p])
  BY DEF ConnectionOK, TalkOK
<1>3. a \in AnswerType /\ a.status = "bad_request"
  <2>1. <<>> \in Seq(Detected)
    OBVIOUS
  <2> QED BY <2>1 DEF Said, AnswerType
<1> HIDE DEF a
<1>4. wire' \in [Connections -> Seq(Tokens)] /\ \A q \in Connections \ {p} : wire'[q] = wire[q]
  <2>1. Tail(wire[p]) \in Seq(Tokens) /\ wire \in [Connections -> Seq(Tokens)]
    BY <1>1, TailTyped DEF VarTypes
  <2> QED BY <1>1, <2>1
<1>5. stage'[p] = "closed"
  BY <1>1 DEF VarTypes
<1>6. /\ answers' \in [Connections -> Seq(AnswerType)]
      /\ \A q \in Connections \ {p} : answers'[q] = answers[q]
      /\ AnswersOK(p)'
  <2>1. CASE answers' = answers
    <3>1. sent'[p] \in Nat /\ sent[p] <= sent'[p]
      BY <1>1 DEF VarTypes
    <3>2. AnswersOK(p)'
      BY <1>1, <1>2, <2>1, <3>1, AnswersStay
    <3> QED BY <2>1, <3>2 DEF VarTypes
  <2>2. CASE answers' = [answers EXCEPT ![p] = Append(@, a)]
    <3>1. /\ answers' \in [Connections -> Seq(AnswerType)]
          /\ answers'[p] = Append(answers[p], a) /\ Len(answers'[p]) = Len(answers[p]) + 1
          /\ answers'[p][Len(answers[p]) + 1] = a
          /\ \A q \in Connections \ {p} : answers'[q] = answers[q]
      BY <1>3, <2>2, AnswerTyped
    <3>2. PICK j \in 1..sent[p] : j <= Len(answers[p]) /\ LeftUnread(script[p][j]) # <<>>
      BY <1>1, <1>2, NextLine
    <3>3. AnswerMatches(p, Len(answers[p]))'
      BY <1>1, <1>2, <1>3, <1>5, <3>1, <3>2, AnswerOutOfStep
    <3>4. AnswersOK(p)'
      BY <1>1, <1>2, <1>3, <3>1, <3>3, AnswersGrow
    <3> QED BY <3>1, <3>4
  <2> QED BY <1>1, <2>1, <2>2
<1>7. VarTypes' /\ OthersUntouched(p)
  BY <1>1, <1>4, <1>6 DEF VarTypes, OthersUntouched, Untouched
<1>8. TalkOK(p)'
  BY <1>1, <1>2, <1>5, LooseTalks
<1>9. WorkOK(p)'
  BY <1>1, <1>2, <1>5, WorkStays
<1> QED BY <1>6, <1>7, <1>8, <1>9 DEF ConnectionOK

(* A step that gives no answer and leaves the rest of the work as it is, of a
   thread that ends or is out of step. *)
LEMMA QuietStep ==
  ASSUME VarTypes, NEW p \in Connections, ConnectionOK(p), stage[p] # "closed",
         NEW label \in {"listening", "headers", "reading", "closed"},
         stage' = [stage EXCEPT ![p] = label],
         label = "closed" \/ Loose(p),
         wire' \in [Connections -> Seq(Tokens)],
         \A q \in Connections \ {p} : wire'[q] = wire[q],
         request' \in [Connections -> RequestHead],
         \A q \in Connections \ {p} : request'[q] = request[q],
         script' = script, sent' = sent, unsent' = unsent, hungUp' = hungUp,
         taken' = taken, batch' = batch, session' = session, detections' = detections,
         answers' = answers
  PROVE  VarTypes' /\ ConnectionOK(p)' /\ OthersUntouched(p)
<1>1. TalkOK(p) /\ WorkOK(p) /\ AnswersOK(p) /\ sent[p] <= Len(script[p])
  BY DEF ConnectionOK, TalkOK
<1>2. stage'[p] = label /\ stage'[p] # "analyzing"
  BY DEF VarTypes
<1>3. VarTypes' /\ OthersUntouched(p)
  BY DEF VarTypes, OthersUntouched, Untouched
<1>4. TalkOK(p)'
  <2>1. Loose(p) => Loose(p)'
    BY DEF Loose
  <2> QED BY <1>1, <1>2, <2>1, LooseTalks
<1>5. WorkOK(p)'
  BY <1>1, <1>2, WorkStays
<1>6. AnswersOK(p)'
  <2>1. sent'[p] \in Nat /\ sent[p] <= sent'[p]
    BY DEF VarTypes
  <2> QED BY <1>1, <2>1, AnswersStay
<1> QED BY <1>3, <1>4, <1>5, <1>6 DEF ConnectionOK

LEMMA TakeLineKeeps ==
  ASSUME VarTypes, NEW p \in Connections, ConnectionOK(p), TakeLine(p)
  PROVE  VarTypes' /\ ConnectionOK(p)' /\ OthersUntouched(p)
<1> DEFINE l == Head(wire[p]).line
<1>1. /\ stage[p] = "listening" /\ wire[p] # <<>> /\ "line" \in DOMAIN Head(wire[p])
      /\ l \in RequestLines
      /\ wire' = [wire EXCEPT ![p] = Tail(@)]
      /\ stage' = [stage EXCEPT ![p] = "headers"]
      /\ request' = [request EXCEPT ![p] = l.asks]
      /\ script' = script /\ sent' = sent /\ unsent' = unsent /\ hungUp' = hungUp
      /\ taken' = taken /\ batch' = batch /\ session' = session /\ detections' = detections
      /\ answers' = answers
  BY DEF TakeLine, LineIsNext, Reads, GoTo, clientVars
<1>2. TalkOK(p)
  BY DEF ConnectionOK
<1>3. Loose(p)
  BY <1>1, <1>2, NextLine
<1>4. wire' \in [Connections -> Seq(Tokens)] /\ \A q \in Connections \ {p} : wire'[q] = wire[q]
  <2>1. Tail(wire[p]) \in Seq(Tokens) /\ wire \in [Connections -> Seq(Tokens)]
    BY <1>1, TailTyped DEF VarTypes
  <2> QED BY <1>1, <2>1
<1> HIDE DEF l
<1>5. /\ request' \in [Connections -> RequestHead]
      /\ \A q \in Connections \ {p} : request'[q] = request[q]
  <2>1. l.asks \in RequestHead
    BY <1>1 DEF RequestLines
  <2> QED BY <1>1, <2>1 DEF VarTypes
<1> QED BY <1>1, <1>3, <1>4, <1>5, QuietStep

LEMMA ReadHeadersKeeps ==
  ASSUME VarTypes, NEW p \in Connections, ConnectionOK(p), ReadHeaders(p)
  PROVE  VarTypes' /\ ConnectionOK(p)' /\ OthersUntouched(p)
<1>1. /\ stage[p] = "headers"
      /\ wire' = [wire EXCEPT ![p] = IF @ = <<>> THEN @ ELSE Tail(@)]
      /\ script' = script /\ sent' = sent /\ unsent' = unsent /\ hungUp' = hungUp
      /\ taken' = taken /\ batch' = batch /\ session' = session /\ detections' = detections
      /\ \/ Serve(p, request[p])
         \/ stage' = stage /\ request' = request /\ answers' = answers
  BY DEF ReadHeaders, clientVars
<1>2. wire' \in [Connections -> Seq(Tokens)] /\ \A q \in Connections \ {p} : wire'[q] = wire[q]
  <2>1. wire \in [Connections -> Seq(Tokens)] /\ wire[p] \in Seq(Tokens)
    BY DEF VarTypes
  <2>2. (IF wire[p] = <<>> THEN wire[p] ELSE Tail(wire[p])) \in Seq(Tokens)
    BY <2>1, TailTyped
  <2> QED BY <1>1, <2>1, <2>2
<1>3. Loose(p)
  BY <1>1 DEF ConnectionOK, TalkOK, Talks, Answered, Barred, Analyzing, Asking, Reading
<1>4. request \in [Connections -> RequestHead] /\ request[p] \in RequestHead
      /\ stage \in [Connections -> {"listening", "headers", "reading", "analyzing", "closed"}]
  BY DEF VarTypes
<1>5. CASE Serve(p, request[p])
  BY <1>1, <1>2, <1>3, <1>4, <1>5, ServeLoose
<1>6. CASE stage' = stage /\ request' = request /\ answers' = answers
  <2>1. stage' = [stage EXCEPT ![p] = "headers"]
    BY <1>1, <1>4, <1>6
  <2> QED BY <1>1, <1>2, <1>3, <1>4, <1>6, <2>1, QuietStep
<1> QED BY <1>1, <1>5, <1>6

LEMMA CloseKeeps ==
  ASSUME VarTypes, NEW p \in Connections, ConnectionOK(p), Close(p)
  PROVE  VarTypes' /\ ConnectionOK(p)' /\ OthersUntouched(p)
<1>1. /\ stage[p] # "closed"
      /\ stage' = [stage EXCEPT ![p] = "closed"]
      /\ script' = script /\ sent' = sent /\ unsent' = unsent /\ hungUp' = hungUp
      /\ wire' = wire /\ request' = request /\ answers' = answers
      /\ taken' = taken /\ batch' = batch /\ session' = session /\ detections' = detections
  BY DEF Close, GoTo, clientVars
<1>2. wire \in [Connections -> Seq(Tokens)] /\ request \in [Connections -> RequestHead]
  BY DEF VarTypes
<1> QED BY <1>1, <1>2, QuietStep

LEMMA RaiseKeeps ==
  ASSUME VarTypes, NEW p \in Connections, ConnectionOK(p), Raise(p)
  PROVE  VarTypes' /\ ConnectionOK(p)' /\ OthersUntouched(p)
<1>1. /\ stage[p] # "closed"
      /\ stage' = [stage EXCEPT ![p] = "closed"]
      /\ script' = script /\ sent' = sent /\ unsent' = unsent /\ hungUp' = hungUp
      /\ wire' = wire /\ request' = request /\ answers' = answers
      /\ taken' = taken /\ batch' = batch /\ session' = session /\ detections' = detections
  BY DEF Raise, Analyzes, GoTo, clientVars
<1>2. wire \in [Connections -> Seq(Tokens)] /\ request \in [Connections -> RequestHead]
  BY DEF VarTypes
<1> QED BY <1>1, <1>2, QuietStep

(* The lines the thread has in its hands when it has read a body. *)
LEMMA ReadIs ==
  ASSUME VarTypes, NEW p \in Connections
  PROVE  LET k == BodyLength(request[p])
             m == Min({k, Len(wire[p])})
             lines == [i \in 1..m |-> AsLine(wire[p][i])]
         IN /\ m \in 0..Len(wire[p]) /\ (m = k \/ (m = Len(wire[p]) /\ m < k))
            /\ lines \in Seq(Lines) /\ SubSeq(wire[p], m + 1, Len(wire[p])) \in Seq(Tokens)
            /\ \A s \in Seq(Lines) : wire[p] = LinesOf(s) =>
                 Len(wire[p]) = Len(s) /\ m \in 0..Len(s) /\ lines = SubSeq(s, 1, m)
<1> DEFINE k == BodyLength(request[p])
           w == wire[p]
           m == Min({k, Len(w)})
           lines == [i \in 1..m |-> AsLine(w[i])]
<1>1. w \in Seq(Tokens) /\ Len(w) \in Nat /\ k \in Nat
  <2>1. w \in Seq(Tokens)
    BY DEF VarTypes
  <2>2. request[p] \in RequestHead
    BY DEF VarTypes
  <2> QED BY <2>1, <2>2 DEF BodyLength, RequestHead
<1> HIDE DEF k, w
<1>2. m \in 0..Len(w) /\ (m = k \/ (m = Len(w) /\ m < k)) /\ m \in Nat
  <2>1. \E x \in {k, Len(w)} : \A y \in {k, Len(w)} : x <= y
    BY <1>1
  <2>2. m \in {k, Len(w)} /\ \A y \in {k, Len(w)} : m <= y
    BY <2>1, Zenon DEF Min
  <2> HIDE DEF m
  <2> QED BY <1>1, <2>2
<1> HIDE DEF m
<1>3. \A t \in Tokens : AsLine(t) \in Lines
  BY TokenIs, LinesApart DEF AsLine
<1>4. lines \in Seq(Lines)
  <2>1. \A i \in 1..m : w[i] \in Tokens
    BY <1>1, <1>2
  <2>2. lines \in [1..m -> Lines]
    BY <1>3, <2>1
  <2> HIDE DEF lines
  <2> QED BY <1>2, <2>2
<1>5. SubSeq(w, m + 1, Len(w)) \in Seq(Tokens)
  BY <1>1, <1>2
<1>6. ASSUME NEW s \in Seq(Lines), w = LinesOf(s)
      PROVE  Len(w) = Len(s) /\ m \in 0..Len(s) /\ lines = SubSeq(s, 1, m)
  <2>1. Len(w) = Len(s) /\ \A i \in 1..Len(s) : w[i] = [line |-> s[i]]
    BY <1>6, LinesOfIs
  <2>2. \A i \in 1..m : AsLine(w[i]) = s[i]
    <3> SUFFICES ASSUME NEW i \in 1..m PROVE AsLine(w[i]) = s[i]
      OBVIOUS
    <3>1. i \in 1..Len(s) /\ w[i] \in Tokens
      BY <1>1, <1>2, <2>1
    <3>2. w[i] = [line |-> s[i]]
      BY <2>1, <3>1
    <3>3. "line" \in DOMAIN w[i] /\ w[i].line = s[i]
      BY <3>1, <3>2, TokenIs
    <3> QED BY <3>3 DEF AsLine
  <2>3. lines = [i \in 1..m |-> s[i]]
    BY <2>2
  <2>4. SubSeq(s, 1, m) = [i \in 1..m |-> s[i]]
    BY <1>2, <2>1
  <2> QED BY <1>2, <2>1, <2>3, <2>4
<1> QED BY <1>2, <1>4, <1>5, <1>6 DEF k, w, m, lines

(* As long as thread and client are in step, they are what it may be given to
   read of the request's body. *)
LEMMA HeardOf ==
  ASSUME VarTypes, NEW p \in Connections, sent[p] <= Len(script[p]),
         NEW n \in 0..Len(Current(p).body), NEW s \in Seq(Lines), SentOf(p, n, s),
         NEW m \in 0..Len(s), NEW k, k = Current(p).head.lines,
         m = k \/ (m = Len(s) /\ m < k /\ p \in hungUp)
  PROVE  SubSeq(s, 1, m) \in Heard(p, Current(p))
<1>1. PICK r : r = Current(p)
  OBVIOUS
<1> DEFINE body == r.body
           short == IF p \in hungUp THEN {i \in 0..Len(body) : i < k} ELSE {}
<1>2. /\ body \in Seq(Lines) /\ Len(body) \in Nat /\ k \in Nat /\ n \in 0..Len(body)
      /\ Len(s) \in Nat /\ m \in Nat
  <2>1. body \in Seq(Lines) /\ r.head \in RequestHead
    BY <1>1, CurrentIs
  <2>2. r.head.lines \in Nat
    BY <2>1 DEF RequestHead
  <2> QED BY <1>1, <2>1, <2>2
<1>3. ASSUME NEW i \in 0..Len(body), i = k \/ i \in short
      PROVE  SubSeq(body, 1, i) \in Heard(p, r)
  <2> DEFINE U == {x \in 0..Len(body) : x = r.head.lines}
             S == IF p \in hungUp THEN {x \in 0..Len(body) : x < r.head.lines} ELSE {}
             cut == {Append(SubSeq(body, 1, x), piece) : x \in S \ {Len(body)}, piece \in Pieces}
  <2>1. i \in U \cup S
    BY <1>1, <1>3
  <2>2. Heard(p, r) = {SubSeq(body, 1, x) : x \in U \cup S} \cup cut
    BY DEF Heard
  <2> HIDE DEF U, S, cut
  <2> QED BY <2>1, <2>2
<1>4. ASSUME NEW i \in short, i # Len(body), NEW piece \in Pieces
      PROVE  Append(SubSeq(body, 1, i), piece) \in Heard(p, r)
  <2> DEFINE U == {x \in 0..Len(body) : x = r.head.lines}
             S == IF p \in hungUp THEN {x \in 0..Len(body) : x < r.head.lines} ELSE {}
             parts == {SubSeq(body, 1, x) : x \in U \cup S}
             cuts == {Append(SubSeq(body, 1, x), y) : x \in S \ {Len(body)}, y \in Pieces}
  <2>1. i \in S \ {Len(body)}
    BY <1>1, <1>4
  <2>2. Heard(p, r) = parts \cup cuts
    BY DEF Heard
  <2>3. Append(SubSeq(body, 1, i), piece) \in cuts
    <3> HIDE DEF S
    <3> QED BY <2>1
  <2> HIDE DEF parts, cuts
  <2> QED BY <2>2, <2>3
<1> HIDE DEF body
<1>5. CASE s = Prefix(body, n)
  <2>1. Len(s) = n /\ s = SubSeq(body, 1, n)
    BY <1>2, <1>5, PrefixOf DEF Prefix
  <2>2. SubSeq(s, 1, m) = SubSeq(body, 1, m) /\ m \in 0..Len(body)
    BY <1>2, <2>1
  <2>3. m = k \/ m \in short
    BY <1>2, <2>1
  <2> QED BY <1>1, <1>3, <2>2, <2>3
<1>6. ASSUME p \in hungUp, n < Len(body), NEW piece \in Pieces,
             s = Append(Prefix(body, n), piece)
      PROVE  SubSeq(s, 1, m) \in Heard(p, r)
  <2>1. Prefix(body, n) \in Seq(Lines) /\ Len(Prefix(body, n)) = n /\ Len(s) = n + 1
        /\ piece \in Lines
    BY <1>2, <1>6, PrefixOf, LinesApart
  <2>2. CASE m <= n
    <3>1. SubSeq(s, 1, m) = SubSeq(body, 1, m) /\ m \in 0..Len(body)
      <4>1. SubSeq(s, 1, m) = SubSeq(Prefix(body, n), 1, m)
        BY <1>2, <1>6, <2>1, <2>2
      <4>2. SubSeq(Prefix(body, n), 1, m) = SubSeq(body, 1, m)
        BY <1>2, <2>2 DEF Prefix
      <4> QED BY <1>2, <2>2, <4>1, <4>2
    <3>2. m = k
      BY <1>2, <2>1, <2>2
    <3> QED BY <1>3, <3>1, <3>2
  <2>3. CASE m > n
    <3>1. m = n + 1 /\ n < k /\ n \in 0..Len(body) /\ n # Len(body)
      BY <1>2, <1>6, <2>1, <2>3
    <3>2. SubSeq(s, 1, m) = s
      BY <1>2, <2>1, <3>1
    <3>3. n \in short
      BY <1>6, <3>1
    <3> QED BY <1>4, <1>6, <3>1, <3>2, <3>3 DEF Prefix
  <2> QED BY <1>2, <2>2, <2>3
<1> QED BY <1>1, <1>5, <1>6 DEF SentOf, body

(* The answer to a body that was read in step. *)
LEMMA AnswerInStep ==
  ASSUME VarTypes, NEW p \in Connections, sent[p] <= Len(script[p]), script' = script,
         sent' = sent, hungUp' = hungUp, EarlyAnswer(Current(p).head) = "body",
         sent[p] = Len(answers[p]) + 1,
         NEW lines \in Heard(p, Current(p)), NEW a, a = Verdict(lines),
         a.status # "bad_request",
         Len(answers'[p]) = Len(answers[p]) + 1, answers'[p][Len(answers[p]) + 1] = a
  PROVE  AnswerMatches(p, Len(answers[p]))'
<1>1. Len(answers[p]) \in Nat /\ sent[p] \in Nat /\ Current(p) = script[p][sent[p]]
  BY CurrentIs
<1>2. PICK i : i = Len(answers[p]) + 1
  OBVIOUS
<1>3. /\ answers'[p][i] = a /\ sent'[p] = i /\ Len(answers'[p]) = i /\ i \in Nat
      /\ script'[p][i] = Current(p)
  BY <1>1, <1>2
<1>4. RightAnswer(p, i)'
  <2>1. PICK r : r = Current(p)
    OBVIOUS
  <2>2. lines \in Heard(p, r)'
    BY <2>1, HeardGrows
  <2> QED BY <1>3, <2>1, <2>2 DEF RightAnswer
<1> QED BY <1>3, <1>4 DEF AnswerMatches

(* An answer at the end of a request: of what is in step, or of what is not. *)
LEMMA AnswerComes ==
  ASSUME VarTypes, NEW p \in Connections, sent[p] <= Len(script[p]), AnswersOK(p),
         script' = script, sent' = sent, hungUp' = hungUp, stage[p] # "closed",
         NEW a \in AnswerType, a.status # "bad_request",
         answers' = [answers EXCEPT ![p] = Append(@, a)],
         \/ Loose(p)
         \/ /\ EarlyAnswer(Current(p).head) = "body" /\ sent[p] = Len(answers[p]) + 1
            /\ \E lines \in Heard(p, Current(p)) : a = Verdict(lines)
  PROVE  /\ AnswersOK(p)'
         /\ Loose(p) => Loose(p)'
<1>1. /\ answers'[p] = Append(answers[p], a) /\ Len(answers'[p]) = Len(answers[p]) + 1
      /\ answers'[p][Len(answers[p]) + 1] = a /\ Len(answers[p]) \in Nat
      /\ sent[p] \in Nat /\ sent'[p] = sent[p] /\ sent[p] <= sent'[p]
  <2>1. sent[p] \in Nat /\ sent'[p] = sent[p] /\ sent[p] <= sent'[p]
    BY DEF VarTypes
  <2> QED BY <2>1, AnswerTyped
<1>2. AnswerMatches(p, Len(answers[p]))'
  <2>1. CASE Loose(p)
    <3>1. PICK j \in 1..sent[p] : j <= Len(answers[p]) /\ AsksFor(script[p][j]) # {}
      BY <2>1 DEF Loose
    <3>2. LeftUnread(script[p][j]) # <<>>
      BY <3>1, AsksLeaves
    <3> QED BY <1>1, <3>1, <3>2, AnswerOutOfStep
  <2>2. ASSUME EarlyAnswer(Current(p).head) = "body", sent[p] = Len(answers[p]) + 1,
               NEW lines \in Heard(p, Current(p)), a = Verdict(lines)
        PROVE  AnswerMatches(p, Len(answers[p]))'
    BY <1>1, <2>2, AnswerInStep
  <2> QED BY <2>1, <2>2
<1>3. AnswersOK(p)'
  BY <1>1, <1>2, AnswersGrow
<1>4. Loose(p) => Loose(p)'
  <2>1. Len(answers'[p]) \in Nat /\ Len(answers[p]) <= Len(answers'[p])
    BY <1>1
  <2> QED BY <1>1, <2>1, LooseStays
<1> QED BY <1>3, <1>4

LEMMA ReadBodyKeeps ==
  ASSUME VarTypes, NEW p \in Connections, ConnectionOK(p), ReadBody(p)
  PROVE  VarTypes' /\ ConnectionOK(p)' /\ OthersUntouched(p)
<1> DEFINE k == BodyLength(request[p])
           m == Min({k, Len(wire[p])})
           lines == [i \in 1..m |-> AsLine(wire[p][i])]
           left == SubSeq(wire[p], m + 1, Len(wire[p]))
           a == Said("not_utf8", <<>>)
           refused == /\ Binary \in Elements(lines)
                      /\ answers' = [answers EXCEPT ![p] = Append(@, a)]
                      /\ stage' = [stage EXCEPT ![p] = "listening"]
                      /\ taken' = taken /\ batch' = batch /\ session' = session
                      /\ detections' = detections
           begun == /\ Binary \notin Elements(lines)
                    /\ stage' = [stage EXCEPT ![p] = "analyzing"]
                    /\ taken' = [taken EXCEPT ![p] = lines]
                    /\ batch' = [batch EXCEPT ![p] = lines]
                    /\ session' = [session EXCEPT ![p] = NewSession]
                    /\ detections' = [detections EXCEPT ![p] = <<>>]
                    /\ answers' = answers
<1>1. /\ script' = script /\ sent' = sent /\ unsent' = unsent /\ hungUp' = hungUp
      /\ request' = request /\ stage[p] = "reading"
      /\ Len(wire[p]) >= k \/ p \in hungUp
      /\ wire' = [wire EXCEPT ![p] = left]
      /\ refused \/ begun
  BY DEF ReadBody, clientVars, Answer, GoTo, Said, Detector
<1>2. TalkOK(p) /\ WorkOK(p) /\ AnswersOK(p) /\ sent[p] <= Len(script[p])
  BY DEF ConnectionOK, TalkOK
<1>3. /\ m \in 0..Len(wire[p]) /\ (m = k \/ (m = Len(wire[p]) /\ m < k))
      /\ lines \in Seq(Lines) /\ left \in Seq(Tokens)
      /\ \A s \in Seq(Lines) : wire[p] = LinesOf(s) =>
           Len(wire[p]) = Len(s) /\ m \in 0..Len(s) /\ lines = SubSeq(s, 1, m)
  BY ReadIs
<1>4. wire[p] \in Seq(Tokens) /\ Len(wire[p]) \in Nat /\ k \in Nat
  <2>1. wire[p] \in Seq(Tokens) /\ request[p] \in RequestHead
    BY DEF VarTypes
  <2> QED BY <2>1 DEF BodyLength, RequestHead
<1> HIDE DEF k, m, lines, left
<1>5. wire' \in [Connections -> Seq(Tokens)] /\ wire'[p] = left
      /\ \A q \in Connections \ {p} : wire'[q] = wire[q]
  BY <1>1, <1>3 DEF VarTypes
<1>6. m = k \/ (m = Len(wire[p]) /\ m < k /\ p \in hungUp)
  BY <1>1, <1>3, <1>4
<1>7. PICK n \in 0..Len(Current(p).body) : unsent[p] = From(Current(p).body, n) /\ Talks(p, n)
  BY <1>2 DEF TalkOK
<1>8. /\ Current(p)' = Current(p) /\ (\A i : InStep(p, i)' <=> InStep(p, i))
      /\ unsent'[p] = From(Current(p).body, n)
  BY <1>1, <1>7 DEF Current, InStep
<1>9. \/ Loose(p)
      \/ /\ EarlyAnswer(Current(p).head) = "body" /\ sent[p] = Len(answers[p]) + 1
         /\ InStep(p, sent[p]) /\ lines \in Heard(p, Current(p)) /\ Resting(p, n)'
  <2>1. SUFFICES ASSUME ~Loose(p)
                 PROVE  /\ EarlyAnswer(Current(p).head) = "body"
                        /\ sent[p] = Len(answers[p]) + 1 /\ InStep(p, sent[p])
                        /\ lines \in Heard(p, Current(p)) /\ Resting(p, n)'
    OBVIOUS
  <2>2. PICK s \in Seq(Lines) : SentOf(p, n, s) /\ Reading(p, s)
    BY <1>1, <1>7, <2>1 DEF Talks, Answered, Barred, Analyzing, Asking
  <2>3. /\ EarlyAnswer(Current(p).head) = "body" /\ sent[p] = Len(answers[p]) + 1
        /\ InStep(p, sent[p]) /\ request[p] = Current(p).head /\ wire[p] = LinesOf(s)
    BY <2>2 DEF Reading
  <2>4. Len(wire[p]) = Len(s) /\ m \in 0..Len(s) /\ lines = SubSeq(s, 1, m)
    BY <1>3, <2>3
  <2>5. k = Current(p).head.lines /\ k = ReadsLines(Current(p).head)
    BY <2>3 DEF k, BodyLength, ReadsLines
  <2>6. lines \in Heard(p, Current(p))
    <3>1. SubSeq(s, 1, m) \in Heard(p, Current(p))
      BY <1>2, <1>6, <2>2, <2>4, <2>5, HeardOf
    <3> QED BY <2>4, <3>1
  <2>7. Resting(p, n)'
    <3>1. wire'[p] = SubSeq(LinesOf(s), m + 1, Len(s))
      BY <1>5, <2>3, <2>4 DEF left
    <3> QED BY <1>1, <1>2, <1>6, <1>7, <2>2, <2>4, <2>5, <3>1, RestLeft
  <2> QED BY <2>3, <2>6, <2>7
<1>10. CASE refused
  <2>1. a \in AnswerType /\ a.status # "bad_request"
    <3>1. <<>> \in Seq(Detected)
      OBVIOUS
    <3> QED BY <3>1 DEF Said, AnswerType
  <2>2. a = Verdict(lines)
    BY <1>3, <1>10, VerdictIs
  <2> HIDE DEF a
  <2>3. answers' = [answers EXCEPT ![p] = Append(@, a)]
    BY <1>10
  <2>4. /\ answers' \in [Connections -> Seq(AnswerType)]
        /\ Len(answers'[p]) = Len(answers[p]) + 1
        /\ \A q \in Connections \ {p} : answers'[q] = answers[q]
    BY <2>1, <2>3, AnswerTyped
  <2>5. stage'[p] = "listening" /\ VarTypes' /\ OthersUntouched(p)
    BY <1>1, <1>5, <1>10, <2>4 DEF VarTypes, OthersUntouched, Untouched
  <2>6. AnswersOK(p)' /\ (Loose(p) => Loose(p)')
    BY <1>1, <1>2, <1>9, <2>1, <2>2, <2>3, AnswerComes
  <2>7. TalkOK(p)'
    <3>1. CASE Loose(p)
      BY <1>1, <1>2, <2>6, <3>1, LooseTalks
    <3>2. CASE ~Loose(p)
      <4>1. Answered(p, n)'
        BY <1>1, <1>8, <1>9, <2>4, <2>5, <3>2 DEF Answered
      <4>2. Talks(p, n)'
        BY <4>1 DEF Talks
      <4> QED BY <1>1, <1>2, <1>8, <4>2 DEF TalkOK
    <3> QED BY <3>1, <3>2
  <2>8. WorkOK(p)'
    BY <1>1, <1>2, <1>10, <2>5, WorkStays
  <2> QED BY <2>5, <2>6, <2>7, <2>8 DEF ConnectionOK
<1>11. CASE begun
  <2>1. NewSession \in SessionState /\ SessionOK(NewSession) /\ NewSession.log = <<>>
    BY NewSessionOK DEF SessionOK, NewSession
  <2>2. <<>> \in Seq(Detected) /\ Len(<<>>) = 0
    OBVIOUS
  <2>3. /\ stage'[p] = "analyzing" /\ taken'[p] = lines /\ batch'[p] = lines
        /\ session'[p] = NewSession /\ detections'[p] = <<>>
    BY <1>11 DEF VarTypes
  <2>4. VarTypes'
    BY <1>1, <1>3, <1>5, <1>11, <2>1, <2>2 DEF VarTypes
  <2>5. OthersUntouched(p)
    BY <1>1, <1>5, <1>11 DEF VarTypes, OthersUntouched, Untouched
  <2>6. TalkOK(p)'
    <3>1. CASE Loose(p)
      <4>1. Loose(p)'
        BY <1>1, <1>11, <3>1 DEF Loose
      <4> QED BY <1>1, <1>2, <4>1, LooseTalks
    <3>2. CASE ~Loose(p)
      <4>1. lines \in Heard(p, Current(p))'
        BY <1>1, <1>8, <1>9, <3>2, HeardGrows
      <4>2. Analyzing(p, n)'
        BY <1>1, <1>8, <1>9, <1>11, <2>3, <3>2, <4>1 DEF Analyzing
      <4>3. Talks(p, n)'
        BY <4>2 DEF Talks
      <4> QED BY <1>1, <1>2, <1>8, <4>3 DEF TalkOK
    <3> QED BY <3>1, <3>2
  <2>7. WorkOK(p)'
    <3>1. Len(lines) \in Nat /\ 0 \in 0..Len(lines)
      BY <1>3
    <3>2. Harmless(lines, 0) /\ Log(Prefix(lines, 0)) = <<>> /\ From(lines, 0) = lines
      BY <1>3, <3>1, HarmlessNext, FromIs
    <3>3. Found(<<>>) = <<>>
      BY DEF Found
    <3>4. Analysed(p, 0)'
      BY <2>1, <2>3, <3>2, <3>3 DEF Analysed
    <3>5. BatchOK(p)'
      <4>1. Binary \notin Elements(taken'[p])
        BY <1>11, <2>3
      <4>2. 0 \in 0..Len(taken'[p])
        BY <2>3, <3>1
      <4> QED BY <3>4, <4>1, <4>2 DEF BatchOK
    <3>6. /\ Len(detections'[p]) = Len(session'[p].log) /\ Len(detections'[p]) <= MaxBatchEvents
          /\ Len(batch'[p]) <= Len(taken'[p])
      BY <2>1, <2>2, <2>3, <3>1, ServiceAssumption
    <3> QED BY <2>1, <2>3, <3>5, <3>6 DEF WorkOK
  <2>8. AnswersOK(p)'
    <3>1. sent'[p] \in Nat /\ sent[p] <= sent'[p]
      BY <1>1 DEF VarTypes
    <3> QED BY <1>1, <1>2, <1>11, <3>1, AnswersStay
  <2> QED BY <2>4, <2>5, <2>6, <2>7, <2>8 DEF ConnectionOK
<1> QED BY <1>1, <1>10, <1>11


-----------------------------------------------------------------------------
(* The analysis of a batch. *)
LEMMA AtWork ==
  ASSUME VarTypes, NEW p \in Connections, TalkOK(p), WorkOK(p), stage[p] = "analyzing"
  PROVE  /\ Loose(p) \/ \E n \in 0..Len(Current(p).body) :
                          unsent[p] = From(Current(p).body, n) /\ Analyzing(p, n)
         /\ BatchOK(p) /\ taken[p] \in Seq(Lines)
         /\ \E k \in 0..Len(taken[p]) :
              /\ Analysed(p, k)
              /\ batch[p] = <<>> => k = Len(taken[p])
              /\ batch[p] # <<>> =>
                   /\ k \in Nat /\ k < Len(taken[p]) /\ k + 1 \in 0..Len(taken[p])
                   /\ taken[p][k + 1] = Head(batch[p])
                   /\ Tail(batch[p]) = From(taken[p], k + 1)
<1>1. PICK n \in 0..Len(Current(p).body) : unsent[p] = From(Current(p).body, n) /\ Talks(p, n)
  BY DEF TalkOK
<1>2. Loose(p) \/ Analyzing(p, n)
  BY <1>1 DEF Talks, Answered, Barred, Asking, Reading
<1>3. BatchOK(p) /\ taken[p] \in Seq(Lines)
  BY DEF WorkOK, VarTypes
<1>4. PICK k \in 0..Len(taken[p]) : Analysed(p, k)
  BY <1>3 DEF BatchOK
<1>5. batch[p] = From(taken[p], k)
  BY <1>4 DEF Analysed
<1>6. k \in Nat /\ (batch[p] = <<>> <=> k = Len(taken[p]))
  BY <1>3, <1>5, FromIs
<1>7. k # Len(taken[p]) => /\ k + 1 \in 0..Len(taken[p]) /\ k < Len(taken[p])
                           /\ Head(batch[p]) = taken[p][k + 1]
                           /\ Tail(batch[p]) = From(taken[p], k + 1)
  BY <1>3, <1>5, FromIs
<1> QED BY <1>1, <1>2, <1>3, <1>4, <1>6, <1>7

(* A step of the analysis that gives no answer. *)
LEMMA StaysAtWork ==
  ASSUME VarTypes, NEW p \in Connections, ConnectionOK(p), stage[p] = "analyzing",
         script' = script, sent' = sent, unsent' = unsent, hungUp' = hungUp, wire' = wire,
         stage' = stage, request' = request, taken' = taken, answers' = answers,
         NEW k \in 0..Len(taken[p]), Analysed(p, k)',
         SessionOK(session'[p]),
         Len(detections'[p]) = Len(session'[p].log), Len(detections'[p]) <= MaxBatchEvents,
         Len(batch'[p]) <= Len(taken[p])
  PROVE  ConnectionOK(p)'
<1>1. TalkOK(p) /\ WorkOK(p) /\ AnswersOK(p)
  BY DEF ConnectionOK
<1>2. TalkOK(p)'
  BY <1>1, TalkStays
<1>3. WorkOK(p)'
  <2>1. BatchOK(p)
    BY <1>1 DEF WorkOK
  <2>2. BatchOK(p)'
    BY <2>1 DEF BatchOK
  <2> QED BY <2>2 DEF WorkOK
<1>4. AnswersOK(p)'
  <2>1. sent'[p] \in Nat /\ sent[p] <= sent'[p]
    BY DEF VarTypes
  <2> QED BY <1>1, <2>1, AnswersStay
<1> QED BY <1>2, <1>3, <1>4 DEF ConnectionOK

LEMMA SkipKeeps ==
  ASSUME VarTypes, NEW p \in Connections, ConnectionOK(p), Skip(p)
  PROVE  VarTypes' /\ ConnectionOK(p)' /\ OthersUntouched(p)
<1>1. /\ stage[p] = "analyzing" /\ batch[p] # <<>> /\ Head(batch[p]) = Blank
      /\ batch' = [batch EXCEPT ![p] = Tail(@)]
      /\ script' = script /\ sent' = sent /\ unsent' = unsent /\ hungUp' = hungUp
      /\ wire' = wire /\ stage' = stage /\ request' = request /\ taken' = taken
      /\ session' = session /\ detections' = detections /\ answers' = answers
  BY DEF Skip, Analyzes, clientVars
<1>2. TalkOK(p) /\ WorkOK(p)
  BY DEF ConnectionOK
<1>3. batch[p] \in Seq(Lines) /\ Tail(batch[p]) \in Seq(Lines)
      /\ Len(Tail(batch[p])) <= Len(batch[p]) /\ Len(batch[p]) \in Nat
      /\ Len(Tail(batch[p])) \in Nat
  <2>1. batch[p] \in Seq(Lines)
    BY DEF VarTypes
  <2> QED BY <1>1, <2>1
<1>4. VarTypes' /\ OthersUntouched(p) /\ batch'[p] = Tail(batch[p])
  BY <1>1, <1>3 DEF VarTypes, OthersUntouched, Untouched
<1>5. taken[p] \in Seq(Lines) /\ Len(taken[p]) \in Nat
  BY DEF VarTypes
<1>6. PICK k \in 0..Len(taken[p]) :
        /\ Analysed(p, k)
        /\ k \in Nat /\ k < Len(taken[p]) /\ k + 1 \in 0..Len(taken[p])
        /\ taken[p][k + 1] = Head(batch[p]) /\ Tail(batch[p]) = From(taken[p], k + 1)
  BY <1>1, <1>2, AtWork
<1>7. Harmless(taken[p], k + 1)
  BY <1>1, <1>5, <1>6, HarmlessNext DEF Analysed
<1>8. Log(Prefix(taken[p], k + 1)) = Log(Prefix(taken[p], k))
  <2>1. taken[p][k + 1] \notin Event
    BY <1>1, <1>6, LinesApart
  <2> QED BY <1>5, <1>6, <2>1, LogAppend
<1>9. Analysed(p, k + 1)'
  BY <1>1, <1>4, <1>6, <1>7, <1>8 DEF Analysed
<1>10. /\ SessionOK(session'[p])
       /\ Len(detections'[p]) = Len(session'[p].log) /\ Len(detections'[p]) <= MaxBatchEvents
       /\ Len(batch'[p]) <= Len(taken[p])
  BY <1>1, <1>2, <1>3, <1>4, <1>5 DEF WorkOK
<1>11. ConnectionOK(p)'
  BY <1>1, <1>6, <1>9, <1>10, StaysAtWork
<1> QED BY <1>4, <1>11

LEMMA DetectKeeps ==
  ASSUME VarTypes, NEW p \in Connections, ConnectionOK(p), Detect(p)
  PROVE  VarTypes' /\ ConnectionOK(p)' /\ OthersUntouched(p)
<1> DEFINE e == Head(batch[p])
           s == session[p]
           u == Update(s, e)
           d == Detection(u, e)
<1>1. /\ stage[p] = "analyzing" /\ batch[p] # <<>> /\ e \in Event
      /\ Len(detections[p]) < MaxBatchEvents
      /\ session' = [session EXCEPT ![p] = u]
      /\ detections' = [detections EXCEPT ![p] = Append(@, d)]
      /\ batch' = [batch EXCEPT ![p] = Tail(@)]
      /\ script' = script /\ sent' = sent /\ unsent' = unsent /\ hungUp' = hungUp
      /\ wire' = wire /\ stage' = stage /\ request' = request /\ taken' = taken
      /\ answers' = answers
  BY DEF Detect, Analyzes, clientVars
<1>2. TalkOK(p) /\ WorkOK(p)
  BY DEF ConnectionOK
<1>3. batch[p] \in Seq(Lines) /\ Tail(batch[p]) \in Seq(Lines)
      /\ Len(Tail(batch[p])) <= Len(batch[p]) /\ Len(batch[p]) \in Nat
      /\ Len(Tail(batch[p])) \in Nat
  <2>1. batch[p] \in Seq(Lines)
    BY DEF VarTypes
  <2> QED BY <1>1, <2>1
<1>4. SessionOK(s) /\ s.log \in Seq(Event) /\ Len(detections[p]) = Len(s.log)
      /\ Len(batch[p]) <= Len(taken[p])
  BY <1>2 DEF WorkOK, SessionOK, SessionState
<1>5. /\ SessionOK(u) /\ u.log = Append(s.log, e) /\ u \in SessionState
      /\ u.histories[e.client] = RecentWindow(Append(s.log, e), e.client)
  BY <1>1, <1>4, UpdateKeepsSession DEF SessionOK
<1>6. d = [client |-> e.client, history |-> RecentWindow(Append(s.log, e), e.client)]
  BY <1>5 DEF Detection
<1>7. d \in Detected
  <2>1. e.client \in Clients
    BY <1>1 DEF Event
  <2>2. u.histories[e.client] \in SUBSET Nat
    BY <1>5, <2>1 DEF SessionState
  <2> QED BY <2>1, <2>2 DEF Detection, Detected
<1>8. taken[p] \in Seq(Lines) /\ Len(taken[p]) \in Nat
      /\ detections[p] \in Seq(Detected) /\ Len(detections[p]) \in Nat
  BY DEF VarTypes
<1> HIDE DEF e, s, u, d
<1>9. Append(detections[p], d) \in Seq(Detected)
      /\ Len(Append(detections[p], d)) = Len(detections[p]) + 1
  BY <1>7, <1>8
<1>10. /\ session'[p] = u /\ detections'[p] = Append(detections[p], d)
       /\ batch'[p] = Tail(batch[p])
  BY <1>1 DEF VarTypes
<1>11. VarTypes'
  <2>1. session' \in [Connections -> SessionState]
    BY <1>1, <1>5 DEF VarTypes
  <2>2. detections' \in [Connections -> Seq(Detected)]
    BY <1>1, <1>9 DEF VarTypes
  <2>3. batch' \in [Connections -> Seq(Lines)]
    BY <1>1, <1>3 DEF VarTypes
  <2> QED BY <1>1, <2>1, <2>2, <2>3 DEF VarTypes
<1>12. OthersUntouched(p)
  BY <1>1 DEF VarTypes, OthersUntouched, Untouched
<1>13. PICK k \in 0..Len(taken[p]) :
         /\ Analysed(p, k)
         /\ k \in Nat /\ k < Len(taken[p]) /\ k + 1 \in 0..Len(taken[p])
         /\ taken[p][k + 1] = e /\ Tail(batch[p]) = From(taken[p], k + 1)
  BY <1>1, <1>2, AtWork DEF e
<1>14. s.log = Log(Prefix(taken[p], k)) /\ detections[p] = Found(s.log)
       /\ Harmless(taken[p], k)
  BY <1>13 DEF Analysed, s
<1>15. Harmless(taken[p], k + 1)
  <2>1. Len(Log(Prefix(taken[p], k))) < MaxBatchEvents /\ taken[p][k + 1] \in Event
    BY <1>1, <1>4, <1>13, <1>14
  <2> QED BY <1>8, <1>13, <1>14, <2>1, HarmlessNext
<1>16. Log(Prefix(taken[p], k + 1)) = Append(s.log, e)
  <2>1. taken[p][k + 1] \in Event
    BY <1>1, <1>13
  <2> QED BY <1>8, <1>13, <1>14, <2>1, LogAppend
<1>17. Found(Append(s.log, e)) = Append(detections[p], d)
  BY <1>1, <1>4, <1>6, <1>14, FoundAppend
<1>18. Analysed(p, k + 1)'
  BY <1>1, <1>5, <1>10, <1>13, <1>15, <1>16, <1>17 DEF Analysed
<1>19. /\ SessionOK(session'[p])
       /\ Len(detections'[p]) = Len(session'[p].log) /\ Len(detections'[p]) <= MaxBatchEvents
       /\ Len(batch'[p]) <= Len(taken[p])
  <2>1. Len(u.log) = Len(s.log) + 1
    BY <1>1, <1>4, <1>5
  <2>2. Len(detections[p]) + 1 <= MaxBatchEvents
    BY <1>1, <1>8, ServiceAssumption
  <2> QED BY <1>3, <1>4, <1>5, <1>8, <1>9, <1>10, <2>1, <2>2
<1>20. ConnectionOK(p)'
  BY <1>1, <1>13, <1>18, <1>19, StaysAtWork
<1> QED BY <1>11, <1>12, <1>20

LEMMA FinishKeeps ==
  ASSUME VarTypes, NEW p \in Connections, ConnectionOK(p), Finish(p)
  PROVE  VarTypes' /\ ConnectionOK(p)' /\ OthersUntouched(p)
<1> DEFINE a(status) == Said(status, IF status = "ok" THEN detections[p] ELSE <<>>)
           body == taken[p]
<1>1. /\ stage[p] = "analyzing"
      /\ stage' = [stage EXCEPT ![p] = "listening"]
      /\ script' = script /\ sent' = sent /\ unsent' = unsent /\ hungUp' = hungUp
      /\ wire' = wire /\ request' = request /\ taken' = taken /\ batch' = batch
      /\ session' = session /\ detections' = detections
  BY DEF Finish, Analyzes, GoTo, clientVars
<1>2. PICK status \in Statuses :
        Ends(p, status) /\ answers' = [answers EXCEPT ![p] = Append(@, a(status))]
  BY DEF Finish, Answer, Said
<1>3. TalkOK(p) /\ WorkOK(p) /\ AnswersOK(p)
  BY DEF ConnectionOK
<1>4. BatchOK(p) /\ body \in Seq(Lines) /\ Len(body) \in Nat
      /\ Binary \notin Elements(body)
  <2>1. body \in Seq(Lines)
    BY DEF VarTypes
  <2> QED BY <1>1, <1>3, <2>1, AtWork DEF BatchOK
<1>5. PICK k \in 0..Len(body) :
        /\ Analysed(p, k)
        /\ batch[p] = <<>> => k = Len(body)
        /\ batch[p] # <<>> => k \in Nat /\ k < Len(body) /\ body[k + 1] = Head(batch[p])
  BY <1>1, <1>3, AtWork
<1>6. /\ Harmless(body, k) /\ detections[p] = Found(Log(Prefix(body, k)))
      /\ Len(detections[p]) = Len(Log(Prefix(body, k))) /\ Len(detections[p]) <= MaxBatchEvents
      /\ Log(Prefix(body, k)) \in Seq(Event) /\ detections[p] \in Seq(Detected)
  BY <1>3, <1>4, <1>5, PrefixLog DEF Analysed, WorkOK, VarTypes
<1>7. a(status) \in AnswerType /\ a(status).status # "bad_request"
  <2>1. (IF status = "ok" THEN detections[p] ELSE <<>>) \in Seq(Detected)
    BY <1>6
  <2>2. status # "bad_request"
    BY DEF Statuses
  <2> QED BY <2>1, <2>2 DEF Said, AnswerType
<1>8. a(status) = Verdict(body)
  <2>1. CASE batch[p] = <<>>
    <3>1. Prefix(body, k) = body
      BY <1>4, <1>5, <2>1, FromIs
    <3>2. Verdict(body) = IF Log(body) = <<>> THEN Said("no_events", <<>>)
                          ELSE Said("ok", Found(Log(body)))
      BY <1>4, <1>5, <1>6, <2>1, VerdictOfAll
    <3>3. Log(body) = <<>> <=> detections[p] = <<>>
      BY <1>6, <3>1
    <3>4. status = IF detections[p] = <<>> THEN "no_events" ELSE "ok"
      BY <1>2, <2>1 DEF Ends, Statuses
    <3> QED BY <1>6, <3>1, <3>2, <3>3, <3>4
  <2>2. CASE batch[p] # <<>> /\ body[k + 1] \in BadLines
    <3>1. status = "unprocessable"
      BY <1>2, <1>5, <2>2, LinesApart DEF Ends, Statuses
    <3>2. Verdict(body) = Said("unprocessable", <<>>)
      BY <1>4, <1>5, <1>6, <2>2, VerdictAtBad
    <3> QED BY <3>1, <3>2
  <2>3. CASE batch[p] # <<>> /\ body[k + 1] \notin BadLines
    <3>1. status = "too_many_events" /\ body[k + 1] \in Event
          /\ Len(detections[p]) >= MaxBatchEvents
      BY <1>2, <1>5, <2>3 DEF Ends, Statuses
    <3>2. Len(Log(Prefix(body, k))) = MaxBatchEvents
      BY <1>6, <3>1, ServiceAssumption
    <3>3. Verdict(body) = Said("too_many_events", <<>>)
      BY <1>4, <1>5, <1>6, <2>3, <3>1, <3>2, VerdictAtLimit
    <3> QED BY <3>1, <3>3
  <2> QED BY <2>1, <2>2, <2>3
<1> DEFINE c == a(status)
<1>9. c \in AnswerType /\ c.status # "bad_request" /\ c = Verdict(body)
      /\ answers' = [answers EXCEPT ![p] = Append(@, c)]
  BY <1>2, <1>7, <1>8
<1> HIDE DEF c
<1>10. /\ answers' \in [Connections -> Seq(AnswerType)]
       /\ answers'[p] = Append(answers[p], c) /\ Len(answers'[p]) = Len(answers[p]) + 1
       /\ \A q \in Connections \ {p} : answers'[q] = answers[q]
  BY <1>9, AnswerTyped
<1>11. stage'[p] = "listening" /\ VarTypes' /\ OthersUntouched(p)
  BY <1>1, <1>10 DEF VarTypes, OthersUntouched, Untouched
<1>12. WorkOK(p)'
  BY <1>1, <1>3, <1>11, WorkStays
<1>13. sent[p] <= Len(script[p])
  BY <1>3 DEF TalkOK
<1>14. CASE Loose(p)
  <2>1. AnswersOK(p)' /\ Loose(p)'
    BY <1>1, <1>3, <1>9, <1>13, <1>14, AnswerComes
  <2>2. TalkOK(p)'
    BY <1>1, <1>3, <2>1, LooseTalks
  <2> QED BY <1>11, <1>12, <2>1, <2>2 DEF ConnectionOK
<1>15. ASSUME NEW n \in 0..Len(Current(p).body), unsent[p] = From(Current(p).body, n),
              Analyzing(p, n)
       PROVE  VarTypes' /\ ConnectionOK(p)' /\ OthersUntouched(p)
  <2>1. /\ EarlyAnswer(Current(p).head) = "body" /\ sent[p] = Len(answers[p]) + 1
        /\ InStep(p, sent[p]) /\ body \in Heard(p, Current(p)) /\ Resting(p, n)
    BY <1>15 DEF Analyzing
  <2>2. AnswersOK(p)'
    BY <1>1, <1>3, <1>9, <1>13, <2>1, AnswerComes
  <2>3. /\ Current(p)' = Current(p) /\ (\A i : InStep(p, i)' <=> InStep(p, i))
    BY <1>1 DEF Current, InStep
  <2>4. Resting(p, n)'
    BY <1>1, <2>1, <2>3 DEF Resting
  <2>5. Answered(p, n)'
    BY <1>1, <1>10, <1>11, <2>1, <2>3, <2>4 DEF Answered
  <2>6. TalkOK(p)'
    BY <1>1, <1>13, <1>15, <2>3, <2>5 DEF TalkOK, Talks
  <2> QED BY <1>11, <1>12, <2>2, <2>6 DEF ConnectionOK
<1> QED BY <1>1, <1>3, <1>14, <1>15, AtWork
-----------------------------------------------------------------------------
LEMMA InitOK == Init => Inv
<1> SUFFICES ASSUME Init PROVE Inv
  OBVIOUS
<1>1. /\ SessionOK(NewSession) /\ NewSession \in SessionState /\ NewSession.log = <<>>
      /\ Health \in RequestHead
  <2>1. SessionOK(NewSession) /\ NewSession \in SessionState
    BY NewSessionOK DEF SessionOK
  <2>2. NewSession.log = <<>>
    BY DEF NewSession
  <2>3. Health \in RequestHead
    BY DEF Health, RequestHead
  <2> QED BY <2>1, <2>2, <2>3
<1>2. /\ <<>> \in Seq(Lines) /\ <<>> \in Seq(Tokens) /\ <<>> \in Seq(Detected)
      /\ <<>> \in Seq(AnswerType) /\ Len(<<>>) = 0 /\ DOMAIN <<>> = {}
  OBVIOUS
<1>3. VarTypes
  BY <1>1, <1>2, ServiceAssumption DEF Init, VarTypes
<1>4. ASSUME NEW p \in Connections PROVE ConnectionOK(p)
  <2>1. /\ sent[p] = 0 /\ unsent[p] = <<>> /\ wire[p] = <<>> /\ stage[p] = "listening"
        /\ taken[p] = <<>> /\ batch[p] = <<>> /\ session[p] = NewSession
        /\ detections[p] = <<>> /\ answers[p] = <<>>
    BY DEF Init
  <2>2. script[p] \in Seq(Request) /\ sent[p] <= Len(script[p])
    <3>1. script[p] \in Seq(Request)
      BY <1>3 DEF VarTypes
    <3> QED BY <2>1, <3>1
  <2>3. Current(p) = NoRequest /\ LeftUnread(NoRequest) = <<>> /\ NoRequest.body = <<>>
    BY <1>3, <2>1, <2>2, CurrentIs DEF NoRequest
  <2>4. TalkOK(p)
    <3>1. InStep(p, 0)
      BY <2>2 DEF InStep
    <3>2. Answered(p, 0)
      BY <1>2, <2>1, <2>3, <3>1 DEF Answered, Resting
    <3>3. 0 \in 0..Len(<<>>)
      BY <1>2
    <3>4. From(<<>>, 0) = <<>>
      BY <1>2, <3>3, FromIs
    <3> QED BY <2>1, <2>2, <2>3, <3>2, <3>3, <3>4 DEF TalkOK, Talks
  <2>5. WorkOK(p)
    BY <1>1, <1>2, <2>1, ServiceAssumption DEF WorkOK
  <2>6. AnswersOK(p)
    BY <1>2, <2>1 DEF AnswersOK
  <2> QED BY <2>4, <2>5, <2>6 DEF ConnectionOK
<1> QED BY <1>3, <1>4 DEF Inv

LEMMA StepTouchesOne ==
  ASSUME VarTypes, NEW p \in Connections, ConnectionOK(p),
         SendHead(p) \/ SendLine(p) \/ HangUp(p) \/ ThreadStep(p)
  PROVE  VarTypes' /\ ConnectionOK(p)' /\ OthersUntouched(p)
<1>1. CASE SendHead(p)
  BY <1>1, SendHeadKeeps
<1>2. CASE SendLine(p)
  BY <1>2, SendLineKeeps
<1>3. CASE HangUp(p)
  BY <1>3, HangUpKeeps
<1>4. CASE Dispatch(p)
  BY <1>4, DispatchKeeps
<1>5. CASE RefuseLine(p)
  BY <1>5, RefuseLineKeeps
<1>6. CASE Close(p)
  BY <1>6, CloseKeeps
<1>7. CASE ReadBody(p)
  BY <1>7, ReadBodyKeeps
<1>8. CASE Skip(p)
  BY <1>8, SkipKeeps
<1>9. CASE Detect(p)
  BY <1>9, DetectKeeps
<1>10. CASE Finish(p)
  BY <1>10, FinishKeeps
<1>11. CASE TakeLine(p)
  BY <1>11, TakeLineKeeps
<1>12. CASE ReadHeaders(p)
  BY <1>12, ReadHeadersKeeps
<1>13. CASE Raise(p)
  BY <1>13, RaiseKeeps
<1> QED BY <1>1, <1>2, <1>3, <1>4, <1>5, <1>6, <1>7, <1>8, <1>9, <1>10, <1>11, <1>12, <1>13
        DEF ThreadStep

LEMMA StepOK == Inv /\ [Next]_vars => Inv'
<1> SUFFICES ASSUME Inv, [Next]_vars PROVE Inv'
  OBVIOUS
<1>1. VarTypes /\ \A p \in Connections : ConnectionOK(p)
  BY DEF Inv
<1>2. CASE UNCHANGED vars
  <2>1. VarTypes'
    BY <1>1, <1>2 DEF VarTypes, vars, clientVars, handlerVars
  <2>2. \A q \in Connections : Untouched(q)
    BY <1>2 DEF Untouched, vars, clientVars, handlerVars
  <2> QED BY <1>1, <2>1, <2>2, UntouchedIsOK DEF Inv
<1>3. ASSUME NEW p \in Connections,
             SendHead(p) \/ SendLine(p) \/ HangUp(p) \/ ThreadStep(p)
      PROVE  Inv'
  <2>1. VarTypes' /\ ConnectionOK(p)' /\ OthersUntouched(p)
    BY <1>1, <1>3, StepTouchesOne
  <2>2. \A q \in Connections \ {p} : ConnectionOK(q)'
    BY <1>1, <2>1, UntouchedIsOK DEF OthersUntouched
  <2> QED BY <2>1, <2>2 DEF Inv
<1> QED BY <1>2, <1>3 DEF Next

LEMMA Invariance == Spec => []Inv
BY InitOK, StepOK, PTL DEF Spec

-----------------------------------------------------------------------------
(* Every variable keeps the values the code can give it, and no more clients
   are tracked, and no more events analysed, than the limits allow. *)
THEOREM ServiceTypeCorrect == Spec => []TypeOK
<1>1. Inv => TypeOK
  <2> SUFFICES ASSUME Inv PROVE TypeOK
    OBVIOUS
  <2>1. script \in [Connections -> Seq(Request)]
    BY DEF Inv, VarTypes
  <2>2. ASSUME NEW p \in Connections
        PROVE  /\ sent[p] \in 0..Len(script[p])
               /\ stage[p] \in {"listening", "headers", "reading", "analyzing", "closed"}
               /\ session[p] \in SessionState
               /\ Len(session[p].clients) <= MaxClients
               /\ Len(detections[p]) = Len(session[p].log)
               /\ Len(detections[p]) <= MaxBatchEvents
               /\ Len(batch[p]) <= Len(taken[p])
    <3>1. TalkOK(p) /\ WorkOK(p) /\ VarTypes
      BY DEF Inv, ConnectionOK
    <3>2. sent[p] \in 0..Len(script[p])
      BY <3>1, CurrentIs DEF TalkOK
    <3>3. stage[p] \in {"listening", "headers", "reading", "analyzing", "closed"}
      BY <3>1 DEF VarTypes
    <3>4. SessionOK(session[p])
      BY <3>1 DEF WorkOK
    <3>5. session[p] \in SessionState /\ Len(session[p].clients) <= MaxClients
      BY <3>4 DEF SessionOK, Tracked
    <3> QED BY <3>1, <3>2, <3>3, <3>5 DEF WorkOK
  <2> QED BY <2>1, <2>2 DEF TypeOK
<1> QED BY <1>1, Invariance, PTL

(***************************************************************************)
(* A history, kept from one event to the next and cut to what is recent,    *)
(* is the one an unbounded record of the client's session would give,       *)
(* however late its events arrive and however many clients there are        *)
(* (session.py:52-60).                                                     *)
(***************************************************************************)
THEOREM HistoriesAreRecentWindows == Spec => []HistoryIsRecentWindow
<1>1. Inv => HistoryIsRecentWindow
  BY DEF Inv, ConnectionOK, WorkOK, SessionOK, HistoryIsRecentWindow
<1> QED BY <1>1, Invariance, PTL

(***************************************************************************)
(* The clients that are tracked are those whose session has not been        *)
(* evicted, and the metrics account for every session                       *)
(* (session.py:45-49, 64-71).                                              *)
(***************************************************************************)
THEOREM SessionsAccounted == Spec => []SessionsAreAccounted
<1>1. Inv => SessionsAreAccounted
  <2> SUFFICES ASSUME Inv, NEW p \in Connections
               PROVE  /\ Elements(session[p].clients)
                           = {c \in Clients : SessionOf(session[p].log, c) # {}}
                      /\ session[p].evicted + Len(session[p].clients)
                           = Cardinality({i \in DOMAIN session[p].log :
                                            StartsSession(session[p].log, i)})
    BY DEF SessionsAreAccounted
  <2>1. SessionOK(session[p])
    BY DEF Inv, ConnectionOK, WorkOK
  <2> QED BY <2>1, TrackedSessions
<1> QED BY <1>1, Invariance, PTL

(***************************************************************************)
(* As long as no answer has left a part of a body unread, the i-th answer   *)
(* on a connection is the answer to its i-th request, and depends on        *)
(* nothing but that request, whatever other connections do and wherever a   *)
(* client or a Content-Length breaks a body off; and a connection gives no  *)
(* answer that nothing its client sent asks for (http.py:79-152).          *)
(***************************************************************************)
THEOREM AnswersMatch == Spec => []AnswersMatchRequests
<1>1. Inv => AnswersMatchRequests
  BY DEF Inv, ConnectionOK, AnswersOK, AnswersMatchRequests
<1> QED BY <1>1, Invariance, PTL

-----------------------------------------------------------------------------
(* What the liveness of the service rests on, short of the fairness of its
   threads: one that owes an answer has a step to take, and each step it takes
   leaves less to do. *)

(* A thread has all that its next step waits for. *)
MayStep(p) ==
  \/ /\ stage[p] = "listening" /\ wire[p] # <<>>
     /\ "head" \in DOMAIN Head(wire[p]) \/ "line" \in DOMAIN Head(wire[p])
  \/ stage[p] = "reading" /\ Len(wire[p]) >= BodyLength(request[p])
  \/ /\ stage[p] = "analyzing"
     /\ \/ batch[p] = <<>>
        \/ Head(batch[p]) \in Event \cup BadLines \cup {Blank, Raising}

(* The steps that are left until the answer, at most. *)
Left(p) ==
  IF stage[p] = "listening" THEN Len(Current(p).body) + 2
  ELSE IF stage[p] = "reading" THEN Len(Current(p).body) + 1
  ELSE Len(batch[p])

Owing ==
  [][\A p \in Connections : Waits(p) /\ Waits(p)' /\ ~Loose(p) =>
       /\ Left(p)' \in Nat /\ Left(p)' <= Left(p)
       /\ ThreadStep(p) => Left(p)' < Left(p)]_vars

(* Where a thread can be that owes an answer. *)
LEMMA OwesAt ==
  ASSUME VarTypes, NEW p \in Connections, TalkOK(p), WorkOK(p), Waits(p), ~Loose(p)
  PROVE  /\ sent[p] = Len(answers[p]) + 1 /\ Len(answers[p]) \in Nat
         /\ \/ stage[p] = "listening" /\ wire[p] # <<>>
            \/ /\ stage[p] = "reading" /\ request[p] = Current(p).head
               /\ Current(p).head.lines <= Len(Current(p).body)
               /\ wire[p] = LinesOf(Current(p).body)
            \/ stage[p] = "analyzing"
<1>1. sent[p] > Len(answers[p]) /\ unsent[p] = <<>> /\ stage[p] # "closed"
  BY DEF Waits
<1>2. PICK n \in 0..Len(Current(p).body) : unsent[p] = From(Current(p).body, n) /\ Talks(p, n)
  BY DEF TalkOK
<1>3. /\ Current(p).body \in Seq(Lines) /\ Len(Current(p).body) \in Nat
      /\ Current(p).head \in RequestHead
      /\ sent[p] \in Nat /\ Len(answers[p]) \in Nat
      /\ sent[p] # 0 => Current(p) = script[p][sent[p]]
  BY CurrentIs DEF TalkOK
<1>4. n = Len(Current(p).body) /\ ~Answered(p, n)
  <2>1. From(Current(p).body, n) = <<>> <=> n = Len(Current(p).body)
    BY <1>3, FromIs
  <2>2. ~Answered(p, n)
    BY <1>1, <1>3 DEF Answered
  <2> QED BY <1>1, <1>2, <2>1, <2>2
<1>5. CASE Barred(p) \/ Analyzing(p, n)
  BY <1>3, <1>5 DEF Barred, Analyzing
<1>6. ASSUME NEW s \in Seq(Lines), SentOf(p, n, s), Asking(p, s)
      PROVE  stage[p] = "listening" /\ wire[p] # <<>> /\ sent[p] = Len(answers[p]) + 1
  BY <1>3, <1>6, MailIs DEF Asking
<1>7. ASSUME NEW s \in Seq(Lines), SentOf(p, n, s), Reading(p, s)
      PROVE  /\ stage[p] = "reading" /\ request[p] = Current(p).head
             /\ Current(p).head.lines <= Len(Current(p).body)
             /\ wire[p] = LinesOf(Current(p).body) /\ sent[p] = Len(answers[p]) + 1
  <2>1. s = Prefix(Current(p).body, n)
    BY <1>3, <1>4, <1>7 DEF SentOf
  <2>2. Prefix(Current(p).body, n) = Current(p).body
    BY <1>3, <1>4, FromIs
  <2>3. sent[p] \in 1..sent[p] /\ Current(p) = script[p][sent[p]]
    BY <1>1, <1>3
  <2>4. SentWhole(Current(p))
    BY <2>3 DEF Waits
  <2> QED BY <1>7, <2>1, <2>2, <2>4 DEF Reading, SentWhole
<1> QED BY <1>1, <1>2, <1>3, <1>4, <1>5, <1>6, <1>7 DEF Talks

(***************************************************************************)
(* A thread that owes an answer never waits for anything: when a request    *)
(* has been sent whole, its head or what is before it is on the wire, or    *)
(* the body is there as long as it was announced, or the next line of the   *)
(* batch is one the analysis knows what to do with.  This is of threads     *)
(* that no answer has left with lines that read as requests, whose headers  *)
(* may take in what the client sends next (http.py:79-152).                *)
(***************************************************************************)
THEOREM OwingThreadsCanStep ==
  Spec => [](\A p \in Connections : Waits(p) /\ ~Loose(p) => MayStep(p))
<1>1. ASSUME Inv, NEW p \in Connections, Waits(p), ~Loose(p) PROVE MayStep(p)
  <2>1. VarTypes /\ TalkOK(p) /\ WorkOK(p)
    BY <1>1 DEF Inv, ConnectionOK
  <2>2. CASE stage[p] = "listening" /\ wire[p] # <<>>
    BY <2>1, <2>2, TailTyped, TokenIs DEF MayStep
  <2>3. CASE /\ stage[p] = "reading" /\ request[p] = Current(p).head
             /\ Current(p).head.lines <= Len(Current(p).body)
             /\ wire[p] = LinesOf(Current(p).body)
    <3>1. Current(p).body \in Seq(Lines)
      BY <2>1, CurrentIs DEF TalkOK
    <3>2. Len(wire[p]) = Len(Current(p).body)
      BY <2>3, <3>1, LinesOfIs
    <3> QED BY <2>3, <3>2 DEF MayStep, BodyLength
  <2>4. CASE stage[p] = "analyzing"
    <3>1. PICK k \in 0..Len(taken[p]) :
            batch[p] # <<>> => /\ k + 1 \in 0..Len(taken[p]) /\ k \in Nat
                               /\ taken[p][k + 1] = Head(batch[p])
      BY <2>1, <2>4, AtWork
    <3>2. Binary \notin Elements(taken[p]) /\ taken[p] \in Seq(Lines)
      BY <2>1, <2>4, AtWork DEF BatchOK
    <3>3. batch[p] # <<>> => Head(batch[p]) \in Lines \ {Binary}
      <4> SUFFICES ASSUME batch[p] # <<>> PROVE Head(batch[p]) \in Lines \ {Binary}
        OBVIOUS
      <4>1. k + 1 \in DOMAIN taken[p] /\ taken[p][k + 1] = Head(batch[p])
        BY <3>1, <3>2
      <4>2. taken[p][k + 1] \in Lines
        BY <3>2, <4>1
      <4>3. taken[p][k + 1] \in Elements(taken[p])
        BY <4>1 DEF Elements
      <4> QED BY <3>2, <4>1, <4>2, <4>3
    <3> QED BY <2>4, <3>3 DEF MayStep, Lines
  <2> QED BY <1>1, <2>1, <2>2, <2>3, <2>4, OwesAt
<1>2. Inv => \A p \in Connections : Waits(p) /\ ~Loose(p) => MayStep(p)
  BY <1>1
<1> QED BY <1>2, Invariance, PTL

(* What is left is a number, and stays the same when others step. *)
LEMMA LeftIs ==
  ASSUME VarTypes, NEW p \in Connections, TalkOK(p)
  PROVE  Left(p) \in Nat
<1>1. Len(Current(p).body) \in Nat /\ batch[p] \in Seq(Lines)
  BY CurrentIs DEF VarTypes, TalkOK
<1> QED BY <1>1 DEF Left

LEMMA LeftStays ==
  ASSUME NEW p \in Connections, Untouched(p)
  PROVE  Left(p)' = Left(p)
BY DEF Untouched, Left, Current

(* A step of the thread, unless it gives the answer or ends. *)
LEMMA LeftShrinks ==
  ASSUME VarTypes, NEW p \in Connections, ConnectionOK(p), ThreadStep(p), Waits(p), Waits(p)',
         ~Loose(p)
  PROVE  Left(p)' < Left(p)
<1>1. TalkOK(p) /\ WorkOK(p) /\ sent[p] <= Len(script[p])
  BY DEF ConnectionOK, TalkOK
<1>2. /\ Current(p).body \in Seq(Lines) /\ sent[p] \in Nat /\ DOMAIN stage = Connections
      /\ batch \in [Connections -> Seq(Lines)] /\ batch[p] \in Seq(Lines)
      /\ answers \in [Connections -> Seq(AnswerType)] /\ Len(answers[p]) \in Nat
      /\ Len(Current(p).body) \in Nat
  BY <1>1, CurrentIs DEF VarTypes
<1>3. script' = script /\ sent' = sent
  BY DEF ThreadStep, Dispatch, RefuseLine, LineIsNext, TakeLine, ReadHeaders, Close, ReadBody,
         Skip, Detect, Raise, Finish, clientVars
<1>4. Current(p)' = Current(p)
  BY <1>3 DEF Current
<1>5. /\ sent[p] = Len(answers[p]) + 1
      /\ \/ stage[p] = "listening"
         \/ /\ stage[p] = "reading" /\ wire[p] = LinesOf(Current(p).body)
         \/ stage[p] = "analyzing"
  BY <1>1, OwesAt
<1>6. stage'[p] # "closed" /\ ~\E a : answers' = [answers EXCEPT ![p] = Append(@, a)]
  <2>1. ASSUME NEW a, answers' = [answers EXCEPT ![p] = Append(@, a)] PROVE FALSE
    <3>1. Len(answers'[p]) = Len(answers[p]) + 1
      BY <1>2, <2>1
    <3> QED BY <1>2, <1>3, <1>5, <3>1 DEF Waits
  <2> QED BY <2>1 DEF Waits
<1>7. CASE Dispatch(p)
  <2>1. stage[p] = "listening" /\ stage'[p] = "reading"
    BY <1>2, <1>6, <1>7 DEF Dispatch, Serve, GoTo, Answer
  <2> QED BY <1>2, <1>4, <2>1 DEF Left
<1>8. CASE RefuseLine(p) \/ Close(p) \/ Raise(p)
  BY <1>2, <1>6, <1>8 DEF RefuseLine, Close, Raise, GoTo
<1>9. CASE TakeLine(p) \/ ReadHeaders(p)
  <2>1. CASE TakeLine(p)
    BY <1>1, <2>1, NextLine DEF TakeLine, LineIsNext, Reads
  <2>2. CASE ReadHeaders(p)
    BY <1>5, <2>2 DEF ReadHeaders
  <2> QED BY <1>9, <2>1, <2>2
<1>10. CASE ReadBody(p)
  <2> DEFINE m == Min({BodyLength(request[p]), Len(wire[p])})
             lines == [i \in 1..m |-> AsLine(wire[p][i])]
  <2>1. /\ stage[p] = "reading"
        /\ \/ answers' = [answers EXCEPT ![p] = Append(@, Said("not_utf8", <<>>))]
           \/ /\ stage' = [stage EXCEPT ![p] = "analyzing"]
              /\ batch' = [batch EXCEPT ![p] = lines]
    BY <1>10 DEF ReadBody, Answer, GoTo, Said
  <2>2. /\ m \in 0..Len(Current(p).body)
        /\ lines = SubSeq(Current(p).body, 1, m)
    BY <1>2, <1>5, <2>1, ReadIs
  <2> HIDE DEF m, lines
  <2>3. stage'[p] = "analyzing" /\ batch'[p] = lines
    BY <1>2, <1>6, <2>1
  <2>4. Len(lines) <= Len(Current(p).body) /\ Len(lines) \in Nat
    BY <1>2, <2>2
  <2> QED BY <1>2, <2>1, <2>3, <2>4 DEF Left
<1>11. CASE Skip(p) \/ Detect(p)
  <2>1. stage[p] = "analyzing" /\ stage'[p] = "analyzing" /\ batch[p] # <<>>
        /\ batch'[p] = Tail(batch[p])
    BY <1>2, <1>11 DEF Skip, Detect, Analyzes
  <2>2. Len(Tail(batch[p])) = Len(batch[p]) - 1 /\ Len(batch[p]) \in Nat
    BY <1>2, <2>1
  <2> QED BY <2>1, <2>2 DEF Left
<1>12. CASE Finish(p)
  BY <1>6, <1>12 DEF Finish, Answer
<1> QED BY <1>7, <1>8, <1>9, <1>10, <1>11, <1>12 DEF ThreadStep

(***************************************************************************)
(* As long as an answer is owed, every step of its thread leaves less to    *)
(* do, and no step of a client or of another thread leaves more: an answer  *)
(* comes after at most as many steps of its thread as its request has       *)
(* lines, and two, under the same condition (http.py:28-36, 137-152).      *)
(***************************************************************************)
THEOREM OwingThreadsGetOn == Spec => Owing
<1> DEFINE Good(p) == Waits(p) /\ Waits(p)' /\ ~Loose(p) =>
                        /\ Left(p)' \in Nat /\ Left(p)' <= Left(p)
                        /\ ThreadStep(p) => Left(p)' < Left(p)
           Counts == \A p \in Connections : Left(p) \in Nat
<1>1. ASSUME Inv, Counts, Counts', [Next]_vars, NEW p \in Connections, Waits(p), Waits(p)',
             ~Loose(p)
      PROVE  /\ Left(p)' \in Nat /\ Left(p)' <= Left(p)
             /\ ThreadStep(p) => Left(p)' < Left(p)
  <2>1. VarTypes /\ \A q \in Connections : ConnectionOK(q)
    BY <1>1 DEF Inv
  <2>3. ThreadStep(p) => Left(p)' < Left(p)
    BY <1>1, <2>1, LeftShrinks
  <2>4. ~ThreadStep(p) => Left(p)' = Left(p)
    <3> SUFFICES ASSUME ~ThreadStep(p) PROVE Left(p)' = Left(p)
      OBVIOUS
    <3>1. CASE UNCHANGED vars
      BY <3>1 DEF Left, Current, vars, clientVars, handlerVars
    <3>2. CASE SendHead(p) \/ SendLine(p)
      <4>1. Len(answers[p]) \in Nat /\ sent[p] \in Nat
        <5>1. answers[p] \in Seq(AnswerType) /\ sent[p] \in Nat
          BY <2>1 DEF VarTypes
        <5> QED BY <5>1
      <4> QED BY <1>1, <3>2, <4>1 DEF Waits, SendHead, SendLine
    <3>3. CASE HangUp(p)
      BY <3>3 DEF HangUp, handlerVars, Left, Current
    <3>4. ASSUME NEW q \in Connections \ {p},
                 SendHead(q) \/ SendLine(q) \/ HangUp(q) \/ ThreadStep(q)
          PROVE  Left(p)' = Left(p)
      BY <2>1, <3>4, StepTouchesOne, LeftStays DEF OthersUntouched
    <3> QED BY <1>1, <3>1, <3>2, <3>3, <3>4 DEF Next
  <2> QED BY <1>1, <2>3, <2>4
<1>2. Inv /\ Counts /\ Counts' /\ [Next]_vars => \A p \in Connections : Good(p)
  BY <1>1
<1>3. Inv => Counts
  BY LeftIs DEF Inv, ConnectionOK
<1> HIDE DEF Good, Counts
<1>4. (\A p \in Connections : Good(p)) <=>
        \A p \in Connections : Waits(p) /\ Waits(p)' /\ ~Loose(p) =>
                        /\ Left(p)' \in Nat /\ Left(p)' <= Left(p)
                        /\ ThreadStep(p) => Left(p)' < Left(p)
  BY DEF Good
<1> QED BY <1>2, <1>3, <1>4, Invariance, PTL DEF Spec, Owing
=============================================================================
