------------------------ MODULE ControlledCorpusProofs ------------------------
(***************************************************************************)
(* What holds of every baseline report made of the files of one preflight,  *)
(* for any corpora, people, operators and number of runs.                   *)
(*                                                                         *)
(* First the splits of one manifest are looked at by themselves.  The       *)
(* invariant then says that there is a history, a corpus for each preflight  *)
(* so far, to which every file, every copy of a file in a command's memory   *)
(* and the report agree.  The thresholds of BaselineLadder come last: they   *)
(* are right for any set of scores, so they are for the rows of a report.    *)
(***************************************************************************)
EXTENDS BaselineLadder, FiniteSetTheorems, WellFoundedInduction, TLAPS

AcceptedCorpora == {c \in Corpus : Accepts(c)}

-----------------------------------------------------------------------------
(* A split of the manifest rows divides rows of it. *)
LEMMA SplitsAreOfRows ==
  ASSUME NEW rows, NEW I \in Holdouts(rows), NEW x \in Splits(rows, I)
  PROVE  x.train \subseteq DOMAIN rows /\ x.holdout \subseteq DOMAIN rows
<1> DEFINE all == TemporalSplits(rows) \cup TaskSplits(rows) \cup {HoldoutSplit(rows, I)}
<1>1. I \subseteq DOMAIN rows
  BY DEF Holdouts, InGroups
<1>2. \A y \in all : y.train \subseteq DOMAIN rows /\ y.holdout \subseteq DOMAIN rows
  BY <1>1 DEF TemporalSplits, TaskSplits, HoldoutSplit, Earlier, Having
<1>3. CASE Grouped(rows)
  <2>1. PICK y \in all : x = Purged(rows, y)
    BY <1>3 DEF Splits
  <2>2. y = [kind |-> y.kind, train |-> y.train, holdout |-> y.holdout, final |-> y.final]
    BY DEF TemporalSplits, TaskSplits, HoldoutSplit
  <2>3. x.train \subseteq y.train /\ x.holdout = y.holdout
    BY <2>1, <2>2 DEF Purged
  <2> QED BY <1>2, <2>3
<1>4. CASE ~Grouped(rows)
  BY <1>2, <1>4 DEF Splits
<1> QED BY <1>3, <1>4

(* _purge_shared_groups: with groups, no split trains on a group it holds out. *)
LEMMA SplitsSeparateGroups ==
  ASSUME NEW rows, NEW I \in Holdouts(rows), NEW x \in Splits(rows, I), Grouped(rows)
  PROVE  \A i \in x.train, j \in x.holdout : rows[i].group # rows[j].group
<1> DEFINE all == TemporalSplits(rows) \cup TaskSplits(rows) \cup {HoldoutSplit(rows, I)}
<1>1. PICK y \in all : x = Purged(rows, y)
  BY DEF Splits
<1>2. y = [kind |-> y.kind, train |-> y.train, holdout |-> y.holdout, final |-> y.final]
  BY DEF TemporalSplits, TaskSplits, HoldoutSplit
<1>3. /\ x.holdout = y.holdout
      /\ x.train = {i \in y.train : \A j \in y.holdout : rows[i].group # rows[j].group}
  BY <1>1, <1>2 DEF Purged
<1> QED BY <1>3

(* A temporal split holds out one window and trains on earlier ones. *)
LEMMA TemporalSplitsLookBack ==
  ASSUME NEW rows, NEW I \in Holdouts(rows), NEW x \in Splits(rows, I), x.kind = "temporal"
  PROVE  \E w \in KnownWindows(rows) :
           /\ \E v \in KnownWindows(rows) : v < w
           /\ x.train \subseteq Earlier(rows, w)
           /\ x.holdout = Having(rows, "window", w)
           /\ ~Grouped(rows) => x.train = Earlier(rows, w)
<1> DEFINE all == TemporalSplits(rows) \cup TaskSplits(rows) \cup {HoldoutSplit(rows, I)}
<1>1. \A y \in all : y.kind = "temporal" => y \in TemporalSplits(rows)
  BY DEF TaskSplits, HoldoutSplit
<1>2. \A y \in all :
        y = [kind |-> y.kind, train |-> y.train, holdout |-> y.holdout, final |-> y.final]
  BY DEF TemporalSplits, TaskSplits, HoldoutSplit
<1>3. PICK y \in all : /\ y.kind = x.kind /\ y.holdout = x.holdout
                       /\ x.train \subseteq y.train
                       /\ ~Grouped(rows) => x = y
  <2>1. CASE Grouped(rows)
    BY <1>2, <2>1 DEF Splits, Purged
  <2>2. CASE ~Grouped(rows)
    BY <2>2 DEF Splits
  <2> QED BY <2>1, <2>2
<1>4. y \in TemporalSplits(rows)
  BY <1>1, <1>3
<1> QED BY <1>3, <1>4 DEF TemporalSplits

-----------------------------------------------------------------------------
(* A history has a corpus for each preflight so far. *)
Histories == [1..runs -> AcceptedCorpora]

Written(f, file, hist) ==
  file.run # 0 => file.run \in DOMAIN hist /\ file.content = Content(f, hist[file.run])

WorkAgrees(o, hist) ==
  /\ stage[o] = "idle" => work[o] = NoWork
  /\ stage[o] \in Outputs =>
       /\ work[o].run \in DOMAIN hist
       /\ work[o].corpus = hist[work[o].run]
  /\ stage[o] = "read-manifest" =>
       /\ work[o] = [model |-> work[o].model, manifest |-> NoFile]
       /\ work[o].model.run # 0 /\ Written("model", work[o].model, hist)
  /\ stage[o] = "evaluate" =>
       /\ work[o].model.run # 0 /\ Written("model", work[o].model, hist)
       /\ work[o].manifest.run # 0 /\ Written("manifest", work[o].manifest, hist)

BaselineAgrees(hist) ==
  baseline.status # "none" =>
    /\ baseline.model.run # 0 /\ Written("model", baseline.model, hist)
    /\ baseline.manifest.run # 0 /\ Written("manifest", baseline.manifest, hist)
    /\ \E I \in Holdouts(baseline.manifest.content) :
         baseline.splits = Splits(baseline.manifest.content, I)
    /\ baseline.status = Status(baseline.model.content, baseline.splits)

Agrees(hist) ==
  /\ \A f \in Outputs : Written(f, files[f], hist)
  /\ \A o \in Operators : WorkAgrees(o, hist)
  /\ BaselineAgrees(hist)

IInv ==
  /\ runs \in Nat
  /\ DOMAIN files = Outputs /\ files = [f \in Outputs |-> files[f]]
  /\ stage \in [Operators -> Outputs \cup {"idle", "read-manifest", "evaluate"}]
  /\ DOMAIN work = Operators /\ work = [o \in Operators |-> work[o]]
  /\ \E hist \in Histories : Agrees(hist)

LEMMA InitIInv == Init => IInv
<1> SUFFICES ASSUME Init PROVE IInv
  OBVIOUS
<1> DEFINE hist == [n \in 1..0 |-> CHOOSE c \in AcceptedCorpora : TRUE]
<1>1. runs = 0 /\ files = [f \in Outputs |-> NoFile]
      /\ stage = [o \in Operators |-> "idle"] /\ work = [o \in Operators |-> NoWork]
      /\ baseline = NoReport
  BY DEF Init
<1>2. hist \in Histories
  BY <1>1 DEF Histories
<1>3. Agrees(hist)
  <2>1. \A f \in Outputs : Written(f, files[f], hist)
    BY <1>1 DEF Written, NoFile
  <2>2. \A o \in Operators : WorkAgrees(o, hist)
    BY <1>1 DEF WorkAgrees, Outputs
  <2>3. BaselineAgrees(hist)
    BY <1>1 DEF BaselineAgrees, NoReport
  <2> QED BY <2>1, <2>2, <2>3 DEF Agrees
<1> QED BY <1>1, <1>2, <1>3 DEF IInv

(* What agreed with a history agrees with a longer one. *)
LEMMA Extension ==
  ASSUME IInv, NEW hist \in Histories, Agrees(hist), NEW c \in AcceptedCorpora
  PROVE  \E longer \in [1..(runs + 1) -> AcceptedCorpora] :
           Agrees(longer) /\ longer[runs + 1] = c
<1> DEFINE longer == [n \in 1..(runs + 1) |-> IF n = runs + 1 THEN c ELSE hist[n]]
<1>1. /\ longer \in [1..(runs + 1) -> AcceptedCorpora] /\ longer[runs + 1] = c
      /\ DOMAIN hist \subseteq DOMAIN longer
      /\ \A n \in DOMAIN hist : longer[n] = hist[n]
  BY DEF IInv, Histories
<1> HIDE DEF longer
<1>2. \A f, file : Written(f, file, hist) => Written(f, file, longer)
  BY <1>1 DEF Written
<1>3. \A o \in Operators : WorkAgrees(o, longer)
  <2> SUFFICES ASSUME NEW o \in Operators PROVE WorkAgrees(o, longer)
    OBVIOUS
  <2>1. WorkAgrees(o, hist)
    BY DEF Agrees
  <2> QED BY <1>1, <1>2, <2>1 DEF WorkAgrees
<1>4. BaselineAgrees(longer)
  BY <1>2 DEF Agrees, BaselineAgrees
<1> QED BY <1>1, <1>2, <1>3, <1>4 DEF Agrees

(* What a command of o that leaves the history alone has to keep. *)
LEMMA Framed ==
  ASSUME IInv, NEW hist \in Histories, Agrees(hist), NEW o \in Operators,
         UNCHANGED runs,
         \A f \in Outputs : Written(f, files'[f], hist),
         \A q \in Operators \ {o} : stage'[q] = stage[q] /\ work'[q] = work[q],
         WorkAgrees(o, hist)', BaselineAgrees(hist)'
  PROVE  Agrees(hist)'
<1>1. \A f \in Outputs : Written(f, files[f], hist)'
  BY DEF Written
<1>2. \A q \in Operators : WorkAgrees(q, hist)'
  <2> SUFFICES ASSUME NEW q \in Operators PROVE WorkAgrees(q, hist)'
    OBVIOUS
  <2>1. CASE q = o
    BY <2>1
  <2>2. CASE q # o
    <3>1. WorkAgrees(q, hist)
      BY DEF Agrees
    <3> QED BY <2>2, <3>1 DEF WorkAgrees, Written
  <2> QED BY <2>1, <2>2
<1> QED BY <1>1, <1>2 DEF Agrees

LEMMA PrepareIInv ==
  ASSUME IInv, NEW o \in Operators, runs < MaxRuns,
         NEW c \in Corpora[runs + 1], Prepare(o, c)
  PROVE  IInv'
<1>1. PICK old \in Histories : Agrees(old)
  BY DEF IInv
<1>2. c \in AcceptedCorpora
  BY CorpusAssumption DEF IInv, Prepare, AcceptedCorpora
<1>3. PICK hist \in [1..(runs + 1) -> AcceptedCorpora] : Agrees(hist) /\ hist[runs + 1] = c
  BY <1>1, <1>2, Extension
<1>4. /\ runs' = runs + 1 /\ UNCHANGED <<files, baseline>>
      /\ stage' = [stage EXCEPT ![o] = "model"]
      /\ work' = [work EXCEPT ![o] = [corpus |-> c, run |-> runs + 1]]
  BY DEF Prepare, GoTo
<1>5. hist \in Histories'
  BY <1>3, <1>4 DEF Histories
<1>6. \A q \in Operators : WorkAgrees(q, hist)'
  <2> SUFFICES ASSUME NEW q \in Operators PROVE WorkAgrees(q, hist)'
    OBVIOUS
  <2>1. CASE q = o
    <3>1. stage'[q] = "model" /\ work'[q] = [corpus |-> c, run |-> runs + 1]
      BY <1>4, <2>1 DEF IInv
    <3> QED BY <3>1, <1>3 DEF IInv, WorkAgrees, Outputs
  <2>2. CASE q # o
    <3>1. stage'[q] = stage[q] /\ work'[q] = work[q]
      BY <1>4, <2>2 DEF IInv
    <3>2. WorkAgrees(q, hist)
      BY <1>3 DEF Agrees
    <3> QED BY <3>1, <3>2 DEF WorkAgrees, Written
  <2> QED BY <2>1, <2>2
<1>7. (\A f \in Outputs : Written(f, files[f], hist))' /\ BaselineAgrees(hist)'
  BY <1>3, <1>4 DEF Agrees, Written, BaselineAgrees
<1>8. Agrees(hist)'
  BY <1>6, <1>7 DEF Agrees
<1>9. runs' \in Nat /\ DOMAIN files' = Outputs /\ files' = [f \in Outputs |-> files'[f]]
      /\ stage' \in [Operators -> Outputs \cup {"idle", "read-manifest", "evaluate"}]
      /\ DOMAIN work' = Operators /\ work' = [q \in Operators |-> work'[q]]
  <2>1. "model" \in Outputs
    BY DEF Outputs
  <2>2. stage' \in [Operators -> Outputs \cup {"idle", "read-manifest", "evaluate"}]
    BY <1>4, <2>1 DEF IInv
  <2>3. DOMAIN work' = Operators /\ work' = [q \in Operators |-> work'[q]]
    BY <1>4 DEF IInv
  <2>4. runs' \in Nat /\ DOMAIN files' = Outputs /\ files' = [f \in Outputs |-> files'[f]]
    BY <1>4 DEF IInv
  <2> QED BY <2>2, <2>3, <2>4
<1> QED BY <1>5, <1>8, <1>9 DEF IInv

LEMMA WriteIInv ==
  ASSUME IInv, NEW o \in Operators, Write(o)
  PROVE  IInv'
<1>1. PICK hist \in Histories : Agrees(hist)
  BY DEF IInv
<1> DEFINE f == stage[o]
<1>2. f \in Outputs /\ UNCHANGED <<baseline, runs>>
      /\ files' = [files EXCEPT ![f] = [content |-> Content(f, work[o].corpus),
                                         run |-> work[o].run]]
      /\ stage' = [stage EXCEPT ![o] = After(f)]
      /\ work' = [work EXCEPT ![o] = IF After(f) = "idle" THEN NoWork ELSE work[o]]
  BY DEF Write, GoTo
<1>3. After(f) \in Outputs \cup {"idle"}
  BY <1>2 DEF After, Outputs
<1>4. work[o].run \in DOMAIN hist /\ work[o].corpus = hist[work[o].run]
  BY <1>1, <1>2 DEF Agrees, WorkAgrees
<1>5. \A h \in Outputs : Written(h, files'[h], hist)
  BY <1>1, <1>2, <1>4 DEF IInv, Agrees, Written
<1>6. \A q \in Operators \ {o} : stage'[q] = stage[q] /\ work'[q] = work[q]
  BY <1>2 DEF IInv
<1>7. WorkAgrees(o, hist)'
  <2>1. stage'[o] = After(f) /\ work'[o] = IF After(f) = "idle" THEN NoWork ELSE work[o]
    BY <1>2 DEF IInv
  <2> QED BY <1>3, <1>4, <2>1 DEF WorkAgrees, Outputs
<1>8. BaselineAgrees(hist)'
  BY <1>1, <1>2 DEF Agrees, BaselineAgrees, Written
<1>9. Agrees(hist)'
  BY <1>1, <1>2, <1>5, <1>6, <1>7, <1>8, Framed
<1>10. runs' \in Nat /\ DOMAIN files' = Outputs /\ files' = [h \in Outputs |-> files'[h]]
       /\ stage' \in [Operators -> Outputs \cup {"idle", "read-manifest", "evaluate"}]
       /\ DOMAIN work' = Operators /\ work' = [q \in Operators |-> work'[q]]
  BY <1>2, <1>3 DEF IInv
<1>11. hist \in Histories'
  BY <1>1, <1>2 DEF Histories
<1> QED BY <1>9, <1>10, <1>11 DEF IInv

LEMMA ReadModelIInv ==
  ASSUME IInv, NEW o \in Operators, ReadModel(o)
  PROVE  IInv'
<1>1. PICK hist \in Histories : Agrees(hist)
  BY DEF IInv
<1>2. /\ stage[o] = "idle" /\ files["model"].run # 0 /\ UNCHANGED <<files, baseline, runs>>
      /\ stage' = [stage EXCEPT ![o] = "read-manifest"]
      /\ work' = [work EXCEPT ![o].model = files["model"]]
  BY DEF ReadModel, GoTo
<1>3. work[o] = NoWork
  BY <1>1, <1>2 DEF Agrees, WorkAgrees
<1>4. stage'[o] = "read-manifest" /\ work'[o] = [model |-> files["model"], manifest |-> NoFile]
  BY <1>2, <1>3 DEF IInv, NoWork
<1>5. Written("model", files["model"], hist)
  BY <1>1 DEF Agrees, Outputs
<1>6. WorkAgrees(o, hist)'
  BY <1>2, <1>4, <1>5 DEF WorkAgrees, Outputs, Written
<1>7. \A q \in Operators \ {o} : stage'[q] = stage[q] /\ work'[q] = work[q]
  BY <1>2 DEF IInv
<1>8. (\A f \in Outputs : Written(f, files'[f], hist)) /\ BaselineAgrees(hist)'
  BY <1>1, <1>2 DEF Agrees, BaselineAgrees, Written
<1>9. Agrees(hist)'
  BY <1>1, <1>2, <1>6, <1>7, <1>8, Framed
<1>10. runs' \in Nat /\ DOMAIN files' = Outputs /\ files' = [h \in Outputs |-> files'[h]]
       /\ stage' \in [Operators -> Outputs \cup {"idle", "read-manifest", "evaluate"}]
       /\ DOMAIN work' = Operators /\ work' = [q \in Operators |-> work'[q]]
  BY <1>2 DEF IInv
<1>11. hist \in Histories'
  BY <1>1, <1>2 DEF Histories
<1> QED BY <1>9, <1>10, <1>11 DEF IInv

LEMMA ReadManifestIInv ==
  ASSUME IInv, NEW o \in Operators, ReadManifest(o)
  PROVE  IInv'
<1>1. PICK hist \in Histories : Agrees(hist)
  BY DEF IInv
<1>2. /\ stage[o] = "read-manifest" /\ files["manifest"].run # 0
      /\ UNCHANGED <<files, baseline, runs>>
      /\ stage' = [stage EXCEPT ![o] = "evaluate"]
      /\ work' = [work EXCEPT ![o].manifest = files["manifest"]]
  BY DEF ReadManifest, GoTo
<1>3. /\ work[o] = [model |-> work[o].model, manifest |-> NoFile]
      /\ work[o].model.run # 0 /\ Written("model", work[o].model, hist)
  BY <1>1, <1>2 DEF Agrees, WorkAgrees
<1>4. stage'[o] = "evaluate"
      /\ work'[o] = [model |-> work[o].model, manifest |-> files["manifest"]]
  <2>1. work'[o] = [work[o] EXCEPT !.manifest = files["manifest"]] /\ stage'[o] = "evaluate"
    BY <1>2 DEF IInv
  <2> QED BY <1>3, <2>1
<1>5. Written("manifest", files["manifest"], hist)
  BY <1>1 DEF Agrees, Outputs
<1>6. WorkAgrees(o, hist)'
  BY <1>2, <1>3, <1>4, <1>5 DEF WorkAgrees, Outputs, Written
<1>7. \A q \in Operators \ {o} : stage'[q] = stage[q] /\ work'[q] = work[q]
  BY <1>2 DEF IInv
<1>8. (\A f \in Outputs : Written(f, files'[f], hist)) /\ BaselineAgrees(hist)'
  BY <1>1, <1>2 DEF Agrees, BaselineAgrees, Written
<1>9. Agrees(hist)'
  BY <1>1, <1>2, <1>6, <1>7, <1>8, Framed
<1>10. runs' \in Nat /\ DOMAIN files' = Outputs /\ files' = [h \in Outputs |-> files'[h]]
       /\ stage' \in [Operators -> Outputs \cup {"idle", "read-manifest", "evaluate"}]
       /\ DOMAIN work' = Operators /\ work' = [q \in Operators |-> work'[q]]
  BY <1>2 DEF IInv
<1>11. hist \in Histories'
  BY <1>1, <1>2 DEF Histories
<1> QED BY <1>9, <1>10, <1>11 DEF IInv

(* Evaluate and Fail: the command of o is over, with a report or without. *)
LEMMA EndIInv ==
  ASSUME IInv, NEW o \in Operators, Evaluate(o) \/ Fail(o)
  PROVE  IInv'
<1>1. PICK hist \in Histories : Agrees(hist)
  BY DEF IInv
<1>2. /\ UNCHANGED <<files, runs>>
      /\ stage' = [stage EXCEPT ![o] = "idle"]
      /\ work' = [work EXCEPT ![o] = NoWork]
  BY DEF Evaluate, Fail, GoTo
<1>3. WorkAgrees(o, hist)'
  <2>1. stage'[o] = "idle" /\ work'[o] = NoWork
    BY <1>2 DEF IInv
  <2> QED BY <2>1 DEF WorkAgrees, Outputs
<1>4. BaselineAgrees(hist)'
  <2>1. CASE Fail(o)
    BY <1>1, <2>1 DEF Fail, Agrees, BaselineAgrees, Written
  <2>2. CASE Evaluate(o)
    <3> DEFINE rows == work[o].manifest.content
    <3>1. stage[o] = "evaluate"
      BY <2>2 DEF Evaluate
    <3>2. PICK I \in Holdouts(rows) :
            baseline' = [status |-> Status(work[o].model.content, Splits(rows, I)),
                         splits |-> Splits(rows, I),
                         model |-> work[o].model, manifest |-> work[o].manifest]
      BY <2>2 DEF Evaluate
    <3>3. /\ work[o].model.run # 0 /\ Written("model", work[o].model, hist)
          /\ work[o].manifest.run # 0 /\ Written("manifest", work[o].manifest, hist)
      BY <1>1, <3>1 DEF Agrees, WorkAgrees, Outputs
    <3>4. /\ baseline'.model = work[o].model /\ baseline'.manifest = work[o].manifest
          /\ baseline'.splits = Splits(rows, I)
          /\ baseline'.status = Status(work[o].model.content, Splits(rows, I))
      BY <3>2
    <3> HIDE DEF rows
    <3>5. \E J \in Holdouts(baseline'.manifest.content) :
            baseline'.splits = Splits(baseline'.manifest.content, J)
      BY <3>4 DEF rows
    <3>6. /\ baseline'.model.run # 0 /\ Written("model", baseline'.model, hist)
          /\ baseline'.manifest.run # 0 /\ Written("manifest", baseline'.manifest, hist)
      BY <3>3, <3>4
    <3>7. baseline'.status = Status(baseline'.model.content, baseline'.splits)
      BY <3>4
    <3> QED BY <3>5, <3>6, <3>7 DEF BaselineAgrees, Written, Status, Scored, TwoClasses
  <2> QED BY <2>1, <2>2
<1>5. \A q \in Operators \ {o} : stage'[q] = stage[q] /\ work'[q] = work[q]
  BY <1>2 DEF IInv
<1>6. \A f \in Outputs : Written(f, files'[f], hist)
  BY <1>1, <1>2 DEF Agrees
<1>7. Agrees(hist)'
  BY <1>1, <1>2, <1>3, <1>4, <1>5, <1>6, Framed
<1>8. runs' \in Nat /\ DOMAIN files' = Outputs /\ files' = [h \in Outputs |-> files'[h]]
      /\ stage' \in [Operators -> Outputs \cup {"idle", "read-manifest", "evaluate"}]
      /\ DOMAIN work' = Operators /\ work' = [q \in Operators |-> work'[q]]
  BY <1>2 DEF IInv
<1>9. hist \in Histories'
  BY <1>1, <1>2 DEF Histories
<1> QED BY <1>7, <1>8, <1>9 DEF IInv

LEMMA StutterIInv == IInv /\ UNCHANGED vars => IInv'
<1> SUFFICES ASSUME IInv, UNCHANGED vars PROVE IInv'
  OBVIOUS
<1>1. UNCHANGED <<files, baseline, stage, work, runs>>
  BY DEF vars
<1>2. PICK hist \in Histories : Agrees(hist)
  BY DEF IInv
<1>3. hist \in Histories' /\ Agrees(hist)'
  BY <1>1, <1>2 DEF Histories, Agrees, Written, WorkAgrees, BaselineAgrees
<1> QED BY <1>1, <1>3 DEF IInv

LEMMA StepIInv == IInv /\ [Next]_vars => IInv'
<1> SUFFICES ASSUME IInv, [Next]_vars PROVE IInv'
  OBVIOUS
<1>1. CASE Next
  <2>1. PICK o \in Operators :
          \/ runs < MaxRuns /\ \E c \in Corpora[runs + 1] : Prepare(o, c)
          \/ Write(o) \/ ReadModel(o) \/ ReadManifest(o) \/ Evaluate(o) \/ Fail(o)
    BY <1>1 DEF Next
  <2>2. CASE runs < MaxRuns /\ \E c \in Corpora[runs + 1] : Prepare(o, c)
    BY <2>2, PrepareIInv
  <2>3. CASE Write(o)
    BY <2>3, WriteIInv
  <2>4. CASE ReadModel(o)
    BY <2>4, ReadModelIInv
  <2>5. CASE ReadManifest(o)
    BY <2>5, ReadManifestIInv
  <2>6. CASE Evaluate(o) \/ Fail(o)
    BY <2>6, EndIInv
  <2> QED BY <2>1, <2>2, <2>3, <2>4, <2>5, <2>6
<1>2. CASE UNCHANGED vars
  BY <1>2, StutterIInv
<1> QED BY <1>1, <1>2

LEMMA Invariance == Spec => []IInv
BY InitIInv, StepIInv, PTL DEF Spec

-----------------------------------------------------------------------------
(* The table and the manifest of a report of one preflight are those of one
   accepted corpus. *)
LEMMA OfOneCorpus ==
  ASSUME IInv, OfOnePreflight
  PROVE  \E c \in AcceptedCorpora :
           /\ baseline.model.content = ModelRows(c)
           /\ baseline.manifest.content = SplitRows(c)
           /\ \E I \in Holdouts(SplitRows(c)) : baseline.splits = Splits(SplitRows(c), I)
<1>1. PICK hist \in Histories : BaselineAgrees(hist)
  BY DEF IInv, Agrees
<1>2. /\ baseline.model.run \in DOMAIN hist
      /\ baseline.model.content = Content("model", hist[baseline.model.run])
      /\ baseline.manifest.content = Content("manifest", hist[baseline.model.run])
      /\ \E I \in Holdouts(baseline.manifest.content) :
           baseline.splits = Splits(baseline.manifest.content, I)
  BY <1>1 DEF OfOnePreflight, BaselineAgrees, Written
<1>3. hist[baseline.model.run] \in AcceptedCorpora
  BY <1>2 DEF Histories
<1> QED BY <1>2, <1>3 DEF Content

(* The columns of the two files, row by row. *)
LEMMA Columns ==
  ASSUME NEW c \in AcceptedCorpora
  PROVE  /\ DOMAIN ModelRows(c) = DOMAIN c.sessions /\ DOMAIN SplitRows(c) = DOMAIN c.sessions
         /\ \A i \in DOMAIN c.sessions :
              /\ c.sessions[i].automated \in BOOLEAN /\ c.sessions[i].window \in Windows
              /\ ModelRows(c)[i].automated = c.sessions[i].automated
              /\ ModelRows(c)[i].person = c.sessions[i].person
              /\ SplitRows(c)[i].task = c.sessions[i].task
              /\ SplitRows(c)[i].window = (IF c.windows THEN c.sessions[i].window ELSE Unknown)
              /\ SplitRows(c)[i].group = (IF c.groups THEN c.sessions[i].person ELSE Unknown)
<1>1. c.sessions \in Seq(Session)
  BY DEF AcceptedCorpora, Corpus
<1>2. \A i \in DOMAIN c.sessions : c.sessions[i] \in Session
  BY <1>1
<1>3. \A i \in DOMAIN c.sessions :
        c.sessions[i].automated \in BOOLEAN /\ c.sessions[i].window \in Windows
  BY <1>2 DEF Session
<1> QED BY <1>3 DEF ModelRows, SplitRows

(* A task holdout holds out the sessions of one task. *)
LEMMA TaskSplitsHoldATaskOut ==
  ASSUME NEW rows, NEW I \in Holdouts(rows), NEW x \in Splits(rows, I),
         ~Grouped(rows), x.kind = "unseen_task"
  PROVE  \E t \in Values(rows, "task") :
           /\ x.train = DOMAIN rows \ Having(rows, "task", t)
           /\ x.holdout = Having(rows, "task", t)
<1>1. x \in TaskSplits(rows)
  BY DEF Splits, TemporalSplits, HoldoutSplit
<1> QED BY <1>1 DEF TaskSplits

(* More rows of a table whose rows have one class or the other. *)
LEMMA TwoClassesGrow ==
  ASSUME NEW rows, NEW I, NEW J, I \subseteq J, TwoClasses(rows, I),
         \A i \in J : rows[i].automated \in BOOLEAN
  PROVE  TwoClasses(rows, J)
BY DEF TwoClasses

(* A task with enough sessions of either class has both. *)
LEMMA CoveredHasTwoClasses ==
  ASSUME NEW rows, NEW I, Covered(rows, I), \A i \in I : rows[i].automated \in BOOLEAN
  PROVE  TwoClasses(rows, I)
<1>1. \A class \in BOOLEAN : {i \in I : rows[i].automated = class} # {}
  <2> SUFFICES ASSUME NEW class \in BOOLEAN, {i \in I : rows[i].automated = class} = {}
               PROVE  FALSE
    OBVIOUS
  <2>1. Cardinality({i \in I : rows[i].automated = class}) = 0
    BY FS_EmptySet
  <2> QED BY <2>1, CorpusAssumption DEF Covered
<1> QED BY <1>1 DEF TwoClasses

-----------------------------------------------------------------------------
(***************************************************************************)
(* A report made of the table and the manifest of one preflight trains no   *)
(* split on a group it holds out, if groups were given, and scores a window  *)
(* only with a model of earlier ones: build_pf2_splits with                *)
(* _purge_shared_groups (baseline.py:182-278).                             *)
(***************************************************************************)
THEOREM OnePreflightSeparates == Spec => []OnePreflightSeparatesPeople
<1>1. IInv => OnePreflightSeparatesPeople
  <2> SUFFICES ASSUME IInv, OfOnePreflight, NEW x \in baseline.splits
               PROVE  /\ Grouped(baseline.manifest.content) => ~TrainsOnWhomItScores(x)
                      /\ x.kind = "temporal" => \A i \in x.train, j \in x.holdout :
                           baseline.manifest.content[i].window
                             < baseline.manifest.content[j].window
    BY DEF OnePreflightSeparatesPeople
  <2>1. PICK c \in AcceptedCorpora :
          /\ baseline.model.content = ModelRows(c)
          /\ baseline.manifest.content = SplitRows(c)
          /\ \E I \in Holdouts(SplitRows(c)) : baseline.splits = Splits(SplitRows(c), I)
    BY OfOneCorpus
  <2> DEFINE rows == SplitRows(c)
  <2>2. PICK I \in Holdouts(rows) : x \in Splits(rows, I)
    BY <2>1
  <2>3. x.train \subseteq DOMAIN rows /\ x.holdout \subseteq DOMAIN rows
    BY <2>2, SplitsAreOfRows
  <2>4. ASSUME Grouped(rows), NEW i \in x.train, NEW j \in x.holdout
        PROVE  Person(i) # Person(j)
    <3>1. rows[i].group # rows[j].group /\ rows[i].group # Unknown
      BY <2>2, <2>3, <2>4, SplitsSeparateGroups DEF Grouped
    <3>2. Person(i) = ModelRows(c)[i].person /\ Person(j) = ModelRows(c)[j].person
      BY <2>1 DEF Person
    <3> QED BY <2>3, <3>1, <3>2, Columns
  <2>5. ASSUME x.kind = "temporal", NEW i \in x.train, NEW j \in x.holdout
        PROVE  rows[i].window < rows[j].window
    <3>1. PICK w : x.train \subseteq Earlier(rows, w) /\ x.holdout = Having(rows, "window", w)
      BY <2>2, <2>5, TemporalSplitsLookBack
    <3> QED BY <3>1 DEF Earlier, Having
  <2> QED BY <2>1, <2>4, <2>5 DEF TrainsOnWhomItScores
<1> QED BY <1>1, Invariance, PTL

(***************************************************************************)
(* Without groups, what the preflight let through has both classes on both   *)
(* sides of every temporal and every proper task split of its report: the    *)
(* gates of prepare_pf2_dataset (protocol.py:298-320) are enough for the     *)
(* checks of _evaluate_split.                                              *)
(***************************************************************************)
THEOREM GatesSupport == Spec => []GatesSupportHoldouts
<1>1. IInv => GatesSupportHoldouts
  <2> SUFFICES ASSUME IInv, OfOnePreflight, ~Grouped(baseline.manifest.content),
                      NEW x \in baseline.splits,
                      \/ x.kind = "temporal"
                      \/ x.kind = "unseen_task" /\ x.train # {}
               PROVE  Scored(baseline.model.content, x)
    BY DEF GatesSupportHoldouts
  <2>1. PICK c \in AcceptedCorpora :
          /\ baseline.model.content = ModelRows(c)
          /\ baseline.manifest.content = SplitRows(c)
          /\ \E I \in Holdouts(SplitRows(c)) : baseline.splits = Splits(SplitRows(c), I)
    BY OfOneCorpus
  <2> DEFINE rows == SplitRows(c)
             table == c.sessions
  <2>2. PICK I \in Holdouts(rows) : x \in Splits(rows, I)
    BY <2>1
  <2>3. ~Grouped(rows)
    BY <2>1
  <2>4. x.train \subseteq DOMAIN table /\ x.holdout \subseteq DOMAIN table
    BY <2>2, SplitsAreOfRows, Columns
  <2>5. TwoClasses(table, x.train) /\ TwoClasses(table, x.holdout)
    <3>1. CASE x.kind = "temporal"
      <4>1. PICK w \in KnownWindows(rows), v \in KnownWindows(rows) :
              v < w /\ x.train = Earlier(rows, w) /\ x.holdout = Having(rows, "window", w)
        BY <2>2, <2>3, <3>1, TemporalSplitsLookBack
      <4>2. c.windows /\ \A i \in DOMAIN table : rows[i].window = table[i].window
        BY <4>1, Columns DEF KnownWindows, Values
      <4>3. /\ v \in Values(table, "window") /\ w \in Values(table, "window")
            /\ Having(table, "window", w) = x.holdout
            /\ Having(table, "window", v) \subseteq x.train
        <5>1. Values(rows, "window") = Values(table, "window")
          BY <4>2, Columns DEF Values
        <5>2. Having(table, "window", w) = x.holdout
          BY <4>1, <4>2, Columns DEF Having
        <5>3. Having(table, "window", v) \subseteq x.train
          BY <4>1, <4>2, Columns DEF Having, Earlier, KnownWindows
        <5> QED BY <4>1, <5>1, <5>2, <5>3 DEF KnownWindows
      <4>4. TwoClasses(table, x.holdout) /\ TwoClasses(table, Having(table, "window", v))
        BY <4>2, <4>3 DEF Accepts, AcceptedCorpora
      <4> QED BY <2>4, <4>3, <4>4, TwoClassesGrow, Columns
    <3>2. CASE x.kind = "unseen_task" /\ x.train # {}
      <4>1. PICK t \in Values(rows, "task") :
              x.train = DOMAIN rows \ Having(rows, "task", t)
              /\ x.holdout = Having(rows, "task", t)
        BY <2>2, <2>3, <3>2, TaskSplitsHoldATaskOut
      <4>2. PICK i \in x.train : TRUE
        BY <3>2
      <4>3. \A k \in DOMAIN table : rows[k].task = table[k].task
        BY Columns
      <4> DEFINE u == table[i].task
      <4>4. /\ t \in Values(table, "task") /\ u \in Values(table, "task")
            /\ Having(table, "task", t) = x.holdout
            /\ Having(table, "task", u) \subseteq x.train
        <5>1. t \in Values(table, "task") /\ u \in Values(table, "task")
          BY <2>4, <4>1, <4>3, Columns DEF Values
        <5>2. Having(table, "task", t) = x.holdout
          BY <4>1, <4>3, Columns DEF Having
        <5>3. u # t
          BY <2>4, <4>1, <4>2, <4>3, Columns DEF Having
        <5>4. Having(table, "task", u) \subseteq x.train
          BY <4>1, <4>3, <5>3, Columns DEF Having
        <5> QED BY <5>1, <5>2, <5>4
      <4>5. Covered(table, Having(table, "task", t)) /\ Covered(table, Having(table, "task", u))
        BY <4>4 DEF Accepts, AcceptedCorpora
      <4>6. TwoClasses(table, x.holdout) /\ TwoClasses(table, Having(table, "task", u))
        BY <2>4, <4>4, <4>5, CoveredHasTwoClasses, Columns
      <4> QED BY <2>4, <4>4, <4>6, TwoClassesGrow, Columns
    <3> QED BY <3>1, <3>2
  <2>6. \A J : J \subseteq DOMAIN table /\ TwoClasses(table, J) => TwoClasses(ModelRows(c), J)
    BY Columns DEF TwoClasses
  <2> QED BY <2>1, <2>4, <2>5, <2>6 DEF Scored
<1> QED BY <1>1, Invariance, PTL

-----------------------------------------------------------------------------
(* The values of a column of a corpus are finitely many. *)
LEMMA TwoValues ==
  ASSUME NEW c \in AcceptedCorpora, NEW field,
         NEW u \in Values(c.sessions, field), NEW v \in Values(c.sessions, field), u # v
  PROVE  ~(Cardinality(Values(c.sessions, field)) < 2)
<1> DEFINE n == Len(c.sessions)
           V == Values(c.sessions, field)
<1>1. c.sessions \in Seq(Session)
  BY DEF AcceptedCorpora, Corpus
<1>2. n \in Nat /\ DOMAIN c.sessions = 1..n
  BY <1>1
<1>3. IsFiniteSet(1..n)
  BY <1>2, FS_Interval
<1>4. V = {c.sessions[i][field] : i \in 1..n}
  BY <1>2 DEF Values
<1>5. IsFiniteSet(V) /\ Cardinality(V) \in Nat
  <2> DEFINE column == [i \in 1..n |-> c.sessions[i][field]]
  <2>1. column \in Surjection(1..n, V)
    BY <1>4 DEF Surjection
  <2> QED BY <1>3, <2>1, FS_Surjection, FS_CardinalityType
<1>6. Cardinality({u, v}) = 2
  <2>1. IsFiniteSet({u}) /\ Cardinality({u}) = 1
    BY FS_Singleton
  <2>2. Cardinality({u} \cup {v}) = Cardinality({u}) + 1
    BY <2>1, FS_AddElement
  <2>3. {u} \cup {v} = {u, v}
    OBVIOUS
  <2> QED BY <2>1, <2>2, <2>3
<1>7. Cardinality({u, v}) <= Cardinality(V)
  <2>1. {u, v} \subseteq V
    OBVIOUS
  <2> QED BY <1>5, <2>1, FS_Subset
<1> QED BY <1>5, <1>6, <1>7

(* Whatever a purge leaves, a task split does not train on the task it holds out,
   and there is one for each task. *)
LEMMA TaskSplitOf ==
  ASSUME NEW rows, NEW I, NEW t \in Values(rows, "task")
  PROVE  \E x \in Splits(rows, I) : x.train \subseteq DOMAIN rows \ Having(rows, "task", t)
<1> DEFINE y == [kind |-> "unseen_task", train |-> DOMAIN rows \ Having(rows, "task", t),
                 holdout |-> Having(rows, "task", t), final |-> FALSE]
<1>1. y \in TaskSplits(rows)
  BY DEF TaskSplits
<1>2. CASE Grouped(rows)
  <2>1. Purged(rows, y) \in Splits(rows, I)
    BY <1>1, <1>2 DEF Splits
  <2>2. Purged(rows, y).train \subseteq y.train
    BY DEF Purged
  <2> QED BY <2>1, <2>2
<1>3. CASE ~Grouped(rows)
  BY <1>1, <1>3 DEF Splits
<1> QED BY <1>2, <1>3

(* Only a temporal split is the final one. *)
LEMMA FinalSplitIsTemporal ==
  ASSUME NEW rows, NEW I, NEW x \in Splits(rows, I), x.final
  PROVE  \E v, w \in KnownWindows(rows) : v < w
<1> DEFINE all == TemporalSplits(rows) \cup TaskSplits(rows) \cup {HoldoutSplit(rows, I)}
<1>1. \A y \in all : y.final => y \in TemporalSplits(rows)
  BY DEF TaskSplits, HoldoutSplit
<1>2. \A y \in all :
        y = [kind |-> y.kind, train |-> y.train, holdout |-> y.holdout, final |-> y.final]
  BY DEF TemporalSplits, TaskSplits, HoldoutSplit
<1>3. PICK y \in all : y.final
  <2>1. CASE Grouped(rows)
    BY <1>2, <2>1 DEF Splits, Purged
  <2>2. CASE ~Grouped(rows)
    BY <2>2 DEF Splits
  <2> QED BY <2>1, <2>2
<1>4. y \in TemporalSplits(rows)
  BY <1>1, <1>3
<1> QED BY <1>4 DEF TemporalSplits

(***************************************************************************)
(* A corpus whose baseline is "evaluated" has two tasks and two windows, so   *)
(* the report of its preflight, if it is still there, blames the features at *)
(* most: the statuses of protocol.py:344-352 and baseline.py:657-663 agree.  *)
(***************************************************************************)
THEOREM EvaluatedPassed == Spec => []EvaluatedCorporaPassedTheGates
<1>1. IInv => EvaluatedCorporaPassedTheGates
  <2> SUFFICES ASSUME IInv, OfOnePreflight, baseline.status = "evaluated",
                      files["report"].run # 0, files["report"].run = baseline.model.run
               PROVE  files["report"].content
                        \in {"ready-for-baseline", "blocked-no-feature-variation"}
    BY DEF EvaluatedCorporaPassedTheGates
  <2>1. PICK hist \in Histories : Agrees(hist)
    BY DEF IInv
  <2> DEFINE c == hist[baseline.model.run]
             rows == SplitRows(c)
             splits == baseline.splits
  <2>2. /\ c \in AcceptedCorpora
        /\ baseline.model.content = Content("model", c)
        /\ baseline.manifest.content = Content("manifest", c)
        /\ \E I \in Holdouts(baseline.manifest.content) :
             splits = Splits(baseline.manifest.content, I)
        /\ baseline.status = Status(baseline.model.content, splits)
    BY <2>1 DEF OfOnePreflight, Agrees, BaselineAgrees, Written, Histories
  <2>3. files["report"].content = Content("report", c)
    BY <2>1 DEF Agrees, Written, Outputs
  <2>4. baseline.manifest.content = rows /\ files["report"].content = Report(c)
    BY <2>2, <2>3 DEF Content
  <2> HIDE DEF c
  <2>5. PICK I : splits = Splits(rows, I)
    BY <2>2, <2>4
  <2>6. /\ \A x \in splits : Scored(baseline.model.content, x)
        /\ \E x \in splits : x.final
    BY <2>2 DEF Status
  <2>7. c.windows /\ ~(Cardinality(Values(c.sessions, "window")) < 2)
    <3>1. PICK x \in Splits(rows, I) : x.final
      BY <2>5, <2>6
    <3>2. PICK v, w \in KnownWindows(rows) : v < w
      BY <3>1, FinalSplitIsTemporal
    <3>3. c.windows
      BY <2>2, <3>2, Columns DEF KnownWindows, Values
    <3>4. v \in Values(c.sessions, "window") /\ w \in Values(c.sessions, "window")
      BY <2>2, <3>2, <3>3, Columns DEF KnownWindows, Values
    <3>5. v # w
      <4>1. v \in Windows /\ w \in Windows
        BY <2>2, <3>4, Columns DEF Values
      <4>2. v \in Nat /\ w \in Nat
        BY <4>1, CorpusAssumption
      <4> QED BY <3>2, <4>2
    <3> QED BY <2>2, <3>3, <3>4, <3>5, TwoValues
  <2>8. ~(Cardinality(Values(c.sessions, "task")) < 2)
    <3>1. PICK x \in Splits(rows, I) : x.final
      BY <2>5, <2>6
    <3>2. PICK w \in KnownWindows(rows) : TRUE
      BY <3>1, FinalSplitIsTemporal
    <3>3. PICK i \in DOMAIN rows : TRUE
      BY <3>2 DEF KnownWindows, Values
    <3> DEFINE t == rows[i].task
    <3>4. t \in Values(rows, "task")
      BY <3>3 DEF Values
    <3>5. PICK y \in Splits(rows, I) : y.train \subseteq DOMAIN rows \ Having(rows, "task", t)
      BY <3>4, TaskSplitOf
    <3>6. y.train # {}
      BY <2>5, <2>6, <3>5 DEF Scored, TwoClasses
    <3>7. PICK j \in DOMAIN rows : rows[j].task # t
      BY <3>5, <3>6 DEF Having
    <3>8. rows[j].task \in Values(c.sessions, "task") /\ t \in Values(c.sessions, "task")
      BY <2>2, <3>3, <3>7, Columns DEF Values
    <3> QED BY <2>2, <3>7, <3>8, TwoValues
  <2> QED BY <2>4, <2>7, <2>8 DEF Report
<1> QED BY <1>1, Invariance, PTL

-----------------------------------------------------------------------------
(* With one operator, what it has in memory is of the latest preflight, and so is
   every output it has got to. *)
Ordered ==
  /\ \A f \in Outputs : files[f].run \in 0..runs
  /\ ReportFollowsItsRows
  /\ \A o \in Operators :
       /\ stage[o] \in Outputs => work[o].run = runs
       /\ stage[o] \in {"manifest", "report"} => files["model"].run = runs
       /\ stage[o] = "report" => files["manifest"].run = runs

LEMMA OrderedWrite ==
  ASSUME IInv, Ordered, NEW o \in Operators, \A q \in Operators : q = o, Write(o)
  PROVE  Ordered'
<1> DEFINE f == stage[o]
<1>1. /\ f \in Outputs /\ runs' = runs /\ runs \in Nat
      /\ files' = [files EXCEPT ![f] = [content |-> Content(f, work[o].corpus),
                                         run |-> work[o].run]]
      /\ stage' = [stage EXCEPT ![o] = After(f)]
      /\ work' = [work EXCEPT ![o] = IF After(f) = "idle" THEN NoWork ELSE work[o]]
  BY DEF Write, GoTo, IInv
<1>2. /\ stage'[o] = After(f) /\ work'[o] = IF After(f) = "idle" THEN NoWork ELSE work[o]
      /\ work[o].run = runs
  BY <1>1 DEF IInv, Ordered
<1>3. \A h \in Outputs : files'[h].run = IF h = f THEN runs ELSE files[h].run
  BY <1>1, <1>2 DEF IInv
<1>4. "model" \in Outputs /\ "manifest" \in Outputs /\ "report" \in Outputs
  BY DEF Outputs
<1>5. \A h \in Outputs : files'[h].run \in 0..runs'
  BY <1>1, <1>3 DEF Ordered
<1>6. ReportFollowsItsRows'
  BY <1>1, <1>3, <1>4 DEF Ordered, ReportFollowsItsRows, Outputs
<1>7. /\ stage'[o] \in Outputs => work'[o].run = runs'
      /\ stage'[o] \in {"manifest", "report"} => files'["model"].run = runs'
      /\ stage'[o] = "report" => files'["manifest"].run = runs'
  BY <1>1, <1>2, <1>3, <1>4 DEF Ordered, After, Outputs
<1> QED BY <1>5, <1>6, <1>7 DEF Ordered

(* Every other step leaves the files alone. *)
LEMMA OrderedStep ==
  ASSUME IInv, Ordered, \A o, q \in Operators : q = o, [Next]_vars
  PROVE  Ordered'
<1>1. ASSUME NEW o \in Operators, NEW c, runs < MaxRuns, Prepare(o, c)
      PROVE  Ordered'
  <2>1. /\ runs' = runs + 1 /\ UNCHANGED files /\ runs \in Nat
        /\ stage'[o] = "model" /\ work'[o].run = runs'
    BY <1>1 DEF Prepare, GoTo, IInv
  <2> QED BY <2>1 DEF Ordered, ReportFollowsItsRows
<1>2. ASSUME NEW o \in Operators, Write(o)
      PROVE  Ordered'
  BY <1>2, OrderedWrite
<1>3. ASSUME NEW o \in Operators, ReadModel(o) \/ ReadManifest(o) \/ Evaluate(o) \/ Fail(o)
      PROVE  Ordered'
  <2>1. UNCHANGED <<files, runs>> /\ stage'[o] \in {"idle", "read-manifest", "evaluate"}
    BY <1>3 DEF ReadModel, ReadManifest, Evaluate, Fail, GoTo, IInv
  <2> QED BY <2>1 DEF Ordered, ReportFollowsItsRows, Outputs
<1>4. CASE UNCHANGED vars
  BY <1>4 DEF vars, Ordered, ReportFollowsItsRows
<1> QED BY <1>1, <1>2, <1>3, <1>4 DEF Next

(***************************************************************************)
(* One operator at a time: whatever fails between the replacements, a report *)
(* is never of a later preflight than the manifest, nor the manifest than    *)
(* the table, because they are replaced in that order (cli.py:1106-1108).    *)
(***************************************************************************)
THEOREM ReportFollows ==
  ASSUME \A o, q \in Operators : q = o
  PROVE  Spec => []ReportFollowsItsRows
<1>1. Init => Ordered
  BY DEF Init, Ordered, ReportFollowsItsRows, NoFile, Outputs
<1>2. IInv /\ IInv' /\ Ordered /\ [Next]_vars => Ordered'
  BY OrderedStep
<1>3. Ordered => ReportFollowsItsRows
  BY DEF Ordered
<1> QED BY <1>1, <1>2, <1>3, Invariance, PTL DEF Spec

-----------------------------------------------------------------------------
(* A new report is of a table and a manifest, of the corpora c and d, that fit. *)
ReportOf(c, d, I) ==
  /\ Len(c.sessions) = Len(d.sessions)
  /\ baseline'.model.content = ModelRows(c)
  /\ baseline'.manifest.content = SplitRows(d)
  /\ baseline'.splits = Splits(SplitRows(d), I)
  /\ baseline'.status = Status(ModelRows(c), Splits(SplitRows(d), I))

LEMMA Rows ==
  ASSUME NEW c \in AcceptedCorpora
  PROVE  /\ Len(c.sessions) \in Nat /\ DOMAIN c.sessions = 1..Len(c.sessions)
         /\ DOMAIN ModelRows(c) = 1..Len(c.sessions) /\ Len(ModelRows(c)) = Len(c.sessions)
         /\ DOMAIN SplitRows(c) = 1..Len(c.sessions) /\ Len(SplitRows(c)) = Len(c.sessions)
<1>1. c.sessions \in Seq(Session)
  BY DEF AcceptedCorpora, Corpus
<1>2. Len(c.sessions) \in Nat /\ DOMAIN c.sessions = 1..Len(c.sessions)
  BY <1>1
<1>3. DOMAIN ModelRows(c) = 1..Len(c.sessions) /\ DOMAIN SplitRows(c) = 1..Len(c.sessions)
  BY <1>2 DEF ModelRows, SplitRows
<1> QED BY <1>2, <1>3

LEMMA NewReportFiles ==
  ASSUME IInv, [Next]_vars, baseline' # baseline
  PROVE  \E c \in AcceptedCorpora, d \in AcceptedCorpora :
           \E I \in Holdouts(SplitRows(d)) : ReportOf(c, d, I)
<1>1. PICK o \in Operators : Evaluate(o)
  <2>1. \A o \in Operators : \A c : Prepare(o, c) => baseline' = baseline
    BY DEF Prepare
  <2>2. \A o \in Operators :
          Write(o) \/ ReadModel(o) \/ ReadManifest(o) \/ Fail(o) => baseline' = baseline
    BY DEF Write, ReadModel, ReadManifest, Fail
  <2>3. UNCHANGED vars => baseline' = baseline
    BY DEF vars
  <2> QED BY <2>1, <2>2, <2>3 DEF Next
<1> DEFINE table == work[o].model.content
           rows == work[o].manifest.content
<1>2. Len(table) = Len(rows) /\ stage[o] = "evaluate"
  BY <1>1 DEF Evaluate
<1>3. PICK I \in Holdouts(rows) :
        baseline' = [status |-> Status(table, Splits(rows, I)), splits |-> Splits(rows, I),
                     model |-> work[o].model, manifest |-> work[o].manifest]
  BY <1>1 DEF Evaluate
<1>4. PICK hist \in Histories : Agrees(hist)
  BY DEF IInv
<1>5. PICK c \in AcceptedCorpora : table = ModelRows(c)
  <2>1. work[o].model.run \in DOMAIN hist /\ table = Content("model", hist[work[o].model.run])
    BY <1>2, <1>4 DEF Agrees, WorkAgrees, Written
  <2> QED BY <2>1 DEF Histories, Content
<1>6. PICK d \in AcceptedCorpora : rows = SplitRows(d)
  <2>1. /\ work[o].manifest.run \in DOMAIN hist
        /\ rows = Content("manifest", hist[work[o].manifest.run])
    BY <1>2, <1>4 DEF Agrees, WorkAgrees, Written
  <2> QED BY <2>1 DEF Histories, Content
<1>7. Len(c.sessions) = Len(d.sessions)
  BY <1>2, <1>5, <1>6, Rows
<1>8. /\ baseline'.model.content = table /\ baseline'.manifest.content = rows
      /\ baseline'.splits = Splits(rows, I)
      /\ baseline'.status = Status(table, Splits(rows, I))
  BY <1>3
<1> HIDE DEF table, rows
<1>9. ReportOf(c, d, I)
  BY <1>5, <1>6, <1>7, <1>8 DEF ReportOf
<1> QED BY <1>3, <1>6, <1>9

LEMMA SameRows ==
  ASSUME NEW c \in AcceptedCorpora, NEW d \in AcceptedCorpora,
         Len(c.sessions) = Len(d.sessions)
  PROVE  /\ DOMAIN SplitRows(d) = DOMAIN ModelRows(c)
         /\ DOMAIN ModelRows(c) = DOMAIN c.sessions
         /\ IsFiniteSet(DOMAIN SplitRows(d))
<1>1. IsFiniteSet(1..Len(d.sessions))
  BY Rows, FS_Interval
<1> QED BY <1>1, Rows

(* round(n / 4), but at least 1: every split has a row to score. *)
LEMMA HoldoutsAreNotEmpty ==
  ASSUME NEW rows, Len(rows) \in Nat, NEW I \in Holdouts(rows)
  PROVE  I # {}
<1>1. TargetSize(rows) \in Nat /\ TargetSize(rows) >= 1
  BY DEF TargetSize
<1>2. Cardinality(I) >= TargetSize(rows)
  BY <1>1 DEF Holdouts
<1> QED BY <1>1, <1>2, FS_EmptySet

LEMMA SplitsScoreRows ==
  ASSUME NEW rows, Len(rows) \in Nat, NEW I \in Holdouts(rows), NEW x \in Splits(rows, I)
  PROVE  x.holdout # {}
<1> DEFINE all == TemporalSplits(rows) \cup TaskSplits(rows) \cup {HoldoutSplit(rows, I)}
<1>1. I # {}
  BY HoldoutsAreNotEmpty
<1>2. \A y \in all : y.holdout # {}
  BY <1>1 DEF TemporalSplits, TaskSplits, HoldoutSplit, Having, Values, KnownWindows
<1>3. \A y \in all : Purged(rows, y).holdout = y.holdout
  <2> SUFFICES ASSUME NEW y \in all PROVE Purged(rows, y).holdout = y.holdout
    OBVIOUS
  <2>1. y = [kind |-> y.kind, train |-> y.train, holdout |-> y.holdout, final |-> y.final]
    BY DEF TemporalSplits, TaskSplits, HoldoutSplit
  <2> QED BY <2>1 DEF Purged
<1> HIDE DEF all
<1> QED BY <1>2, <1>3 DEF Splits, all

(* What TypeOK says of one report. *)
ReportTyped ==
  /\ baseline.status \in Statuses \cup {"none"}
  /\ \A x \in baseline.splits :
       /\ x.train \cup x.holdout \subseteq DOMAIN baseline.model.content
       /\ x.holdout # {}

LEMMA NewReportTyped ==
  ASSUME IInv, [Next]_vars, baseline' # baseline
  PROVE  ReportTyped'
<1>0. PICK c \in AcceptedCorpora, d \in AcceptedCorpora :
        \E I \in Holdouts(SplitRows(d)) : ReportOf(c, d, I)
  BY NewReportFiles
<1>1. PICK I \in Holdouts(SplitRows(d)) : ReportOf(c, d, I)
  BY <1>0
<1> DEFINE rows == SplitRows(d)
<1>2. DOMAIN rows = DOMAIN baseline'.model.content /\ Len(rows) \in Nat
  BY <1>1, SameRows, Rows DEF ReportOf
<1>3. \A x \in Splits(rows, I) :
        x.train \subseteq DOMAIN rows /\ x.holdout \subseteq DOMAIN rows /\ x.holdout # {}
  BY <1>2, SplitsAreOfRows, SplitsScoreRows
<1>4. baseline'.status \in Statuses /\ baseline'.splits = Splits(rows, I)
  BY <1>1 DEF ReportOf, Status, Statuses
<1> HIDE DEF rows
<1> QED BY <1>2, <1>3, <1>4 DEF ReportTyped

LEMMA TypeStep == TypeOK /\ IInv /\ [Next]_vars => TypeOK'
<1> SUFFICES ASSUME TypeOK, IInv, [Next]_vars PROVE TypeOK'
  OBVIOUS
<1>1. IInv'
  BY StepIInv
<1>2. ReportTyped'
  <2>1. CASE baseline' = baseline
    BY <2>1 DEF TypeOK, ReportTyped, Statuses
  <2>2. CASE baseline' # baseline
    BY <2>2, NewReportTyped
  <2> QED BY <2>1, <2>2
<1>3. runs' \in 0..MaxRuns /\ \A f \in Outputs : files'[f].run \in 0..runs'
  <2>1. MaxRuns \in Nat
    BY CorpusAssumption
  <2>2. PICK hist \in Histories : Agrees(hist)
    BY DEF IInv
  <2>3. ASSUME NEW o \in Operators, NEW c, runs < MaxRuns, Prepare(o, c)
        PROVE  runs' \in 0..MaxRuns /\ \A f \in Outputs : files'[f].run \in 0..runs'
    BY <2>1, <2>3 DEF Prepare, TypeOK
  <2>4. ASSUME NEW o \in Operators, Write(o)
        PROVE  runs' \in 0..MaxRuns /\ \A f \in Outputs : files'[f].run \in 0..runs'
    <3>1. work[o].run \in 1..runs
      BY <2>2, <2>4 DEF Agrees, WorkAgrees, Write, Histories
    <3>2. /\ runs' = runs /\ stage[o] \in Outputs
          /\ files' = [files EXCEPT ![stage[o]] =
                         [content |-> Content(stage[o], work[o].corpus), run |-> work[o].run]]
      BY <2>4 DEF Write
    <3> QED BY <2>1, <3>1, <3>2 DEF TypeOK
  <2>5. ASSUME UNCHANGED <<files, runs>>
        PROVE  runs' \in 0..MaxRuns /\ \A f \in Outputs : files'[f].run \in 0..runs'
    BY <2>5 DEF TypeOK
  <2>6. \A o \in Operators :
          ReadModel(o) \/ ReadManifest(o) \/ Evaluate(o) \/ Fail(o) => UNCHANGED <<files, runs>>
    BY DEF ReadModel, ReadManifest, Evaluate, Fail
  <2> QED BY <2>3, <2>4, <2>5, <2>6 DEF Next, vars
<1> QED BY <1>1, <1>2, <1>3 DEF IInv, TypeOK, ReportTyped

(***************************************************************************)
(* The type invariant, for any corpora, operators and number of preflights:  *)
(* every split of a baseline report divides rows of the table it was made    *)
(* of, though table and manifest may be of two preflights, and scores some.  *)
(***************************************************************************)
THEOREM CorpusTypeCorrect == Spec => []TypeOK
<1>1. Init => TypeOK
  BY CorpusAssumption DEF Init, TypeOK, NoFile, NoReport, Statuses
<1> QED BY <1>1, TypeStep, Invariance, PTL DEF Spec

-----------------------------------------------------------------------------
LEMMA Lowest ==
  ASSUME NEW T \in SUBSET Nat, T # {}
  PROVE  \E c \in T : \A d \in T : c <= d
<1>1. PICK c \in T : \A d \in T : ~(<<d, c>> \in OpToRel(<, Nat))
  BY NatLessThanWellFounded, WFMin
<1>2. \A d \in T : ~(d < c)
  BY <1>1 DEF OpToRel
<1> QED BY <1>2

(* What the threshold is: the lowest candidate kept, or above every score. *)
LEMMA ThresholdIsLowest ==
  ASSUME NEW table, NEW I, NEW scores \in [I -> 0..One], NEW rate
  PROVE  LET c == Threshold(table, scores, rate)
             kept == Kept(table, scores, rate)
         IN /\ kept \subseteq 0..One
            /\ c \in Nat
            /\ kept = {} => c = One + 1
            /\ kept # {} => c \in kept /\ \A d \in kept : c <= d
<1> DEFINE kept == Kept(table, scores, rate)
           c == Threshold(table, scores, rate)
<1>1. One \in Nat /\ 0 \in 0..One /\ One \in 0..One
  BY LadderAssumption
<1>2. kept \subseteq Candidates(scores)
  BY DEF Kept
<1>3. Candidates(scores) \subseteq 0..One
  BY <1>1 DEF Candidates
<1>4. kept \subseteq 0..One /\ kept \in SUBSET Nat
  BY <1>1, <1>2, <1>3
<1>5. CASE kept = {}
  BY <1>1, <1>4, <1>5 DEF Threshold
<1>6. CASE kept # {}
  <2>1. c = CHOOSE e \in kept : \A d \in kept : e <= d
    BY <1>6 DEF Threshold
  <2>2. \E e \in kept : \A d \in kept : e <= d
    BY <1>4, <1>6, Lowest
  <2> HIDE DEF kept
  <2>3. c \in kept /\ \A d \in kept : c <= d
    BY <2>1, <2>2
  <2> QED BY <1>4, <1>6, <2>3 DEF kept
<1> QED BY <1>5, <1>6

(* The rows the choice of a threshold counts are those its use flags. *)
LEMMA CountedAreFlagged ==
  ASSUME NEW table, NEW scores, NEW t
  PROVE  {i \in Negatives(table, scores) : scores[i] >= t} = FalsePositives(table, scores, t)
BY DEF FalsePositives, Flagged, Negatives

LEMMA NegativesAreCounted ==
  ASSUME NEW table, NEW I, IsFiniteSet(I), NEW scores \in [I -> 0..One], NEW t
  PROVE  /\ IsFiniteSet(Negatives(table, scores))
         /\ Cardinality(Negatives(table, scores)) \in Nat
         /\ Cardinality(FalsePositives(table, scores, t)) \in Nat
<1>1. Negatives(table, scores) \subseteq I
  BY DEF Negatives
<1>2. IsFiniteSet(Negatives(table, scores))
  BY <1>1, FS_Subset
<1>3. FalsePositives(table, scores, t) \subseteq I
  BY <1>1 DEF FalsePositives
<1>4. IsFiniteSet(FalsePositives(table, scores, t))
  BY <1>3, FS_Subset
<1> QED BY <1>2, <1>4, FS_CardinalityType

(***************************************************************************)
(* _threshold_for_target_false_positive_rate: for any rows and scores the    *)
(* threshold keeps to the rate, and no other score flags more and does.      *)
(***************************************************************************)
THEOREM ThresholdIsTightest ==
  ASSUME NEW table, NEW I, IsFiniteSet(I), NEW scores \in [I -> 0..One],
         NEW rate \in 0..One
  PROVE  IsTightest(table, scores, rate, Threshold(table, scores, rate))
<1> DEFINE c == Threshold(table, scores, rate)
           kept == Kept(table, scores, rate)
           fails(t) == Cardinality(FalsePositives(table, scores, t))
           all == Cardinality(Negatives(table, scores))
<1>1. /\ kept \subseteq 0..One /\ c \in Nat
      /\ kept = {} => c = One + 1
      /\ kept # {} => c \in kept /\ \A d \in kept : c <= d
  BY ThresholdIsLowest
<1>2. all \in Nat /\ \A t : fails(t) \in Nat
  BY NegativesAreCounted
<1>3. One \in Nat /\ rate \in Nat
  BY LadderAssumption
<1>4. \A t \in Candidates(scores) : t \in kept <=> One * fails(t) <= rate * all
  BY CountedAreFlagged DEF Kept, Within
<1>5. \A i \in I : scores[i] \in 0..One
  OBVIOUS
<1> HIDE DEF c, kept, fails, all
<1>6. One * fails(c) <= rate * all
  <2>1. CASE kept = {}
    <3>1. c = One + 1
      BY <1>1, <2>1
    <3>2. Flagged(scores, c) = {}
      BY <1>3, <1>5, <3>1 DEF Flagged
    <3>3. FalsePositives(table, scores, c) = {}
      BY <3>2 DEF FalsePositives
    <3>4. fails(c) = 0
      BY <3>3, FS_EmptySet DEF fails
    <3>5. rate * all \in Nat
      BY <1>2, <1>3
    <3> QED BY <1>3, <3>4, <3>5
  <2>2. CASE kept # {}
    <3>1. c \in kept /\ kept \subseteq Candidates(scores)
      BY <1>1, <2>2 DEF Kept, kept
    <3> QED BY <1>4, <3>1
  <2> QED BY <2>1, <2>2
<1>7. ASSUME NEW i \in I
      PROVE  \/ Flagged(scores, scores[i]) \subseteq Flagged(scores, c)
             \/ One * fails(scores[i]) > rate * all
  <2>1. scores[i] \in Candidates(scores)
    BY DEF Candidates
  <2>2. CASE scores[i] \in kept
    <3>1. c <= scores[i]
      BY <1>1, <2>2
    <3> QED BY <1>1, <1>3, <1>5, <3>1 DEF Flagged
  <2>3. CASE scores[i] \notin kept
    <3>1. ~(One * fails(scores[i]) <= rate * all)
      BY <1>4, <2>1, <2>3
    <3>2. One * fails(scores[i]) \in Nat /\ rate * all \in Nat
      BY <1>2, <1>3
    <3> QED BY <3>1, <3>2
  <2> QED BY <2>2, <2>3
<1>8. \A t \in {scores[i] : i \in DOMAIN scores} :
        Flagged(scores, t) \subseteq Flagged(scores, c) \/ One * fails(t) > rate * all
  BY <1>7
<1> QED BY <1>6, <1>8 DEF IsTightest, c, fails, all

-----------------------------------------------------------------------------
LEMMA SmallerRate ==
  ASSUME NEW a \in Nat, NEW b \in Nat, a < b, NEW n \in Nat \ {0}
  PROVE  a * n < b * n
OBVIOUS

(* The constant rung, trained on rows with somebody who is not automated. *)
LEMMA ConstantRung ==
  ASSUME NEW table, NEW x, IsFiniteSet(x.train), NEW i \in x.train, ~table[i].automated,
         NEW prevalence \in Prevalences, NEW rate \in 0..One
  PROVE  FlagsAllOrNone(table, x, rate, prevalence)
<1> DEFINE scores == Constant(prevalence, x.train)
           c == Threshold(table, scores, rate)
           kept == Kept(table, scores, rate)
           negatives == Negatives(table, scores)
           all == Cardinality(negatives)
<1>1. One \in Nat /\ rate \in Nat /\ prevalence \in Nat /\ 0 < prevalence /\ prevalence < One
  BY LadderAssumption DEF Prevalences
<1>2. scores \in [x.train -> 0..One] /\ \A j \in x.train : scores[j] = prevalence
  BY <1>1 DEF Constant
<1>3. Candidates(scores) = {prevalence, 0, One}
  BY <1>2 DEF Candidates
<1>4. all \in Nat \ {0} /\ negatives \subseteq x.train
  <2>1. i \in negatives /\ negatives \subseteq x.train
    BY <1>2 DEF Negatives
  <2>2. IsFiniteSet(negatives) /\ all \in Nat
    BY <1>2, NegativesAreCounted
  <2> QED BY <2>1, <2>2, FS_EmptySet
<1> HIDE DEF scores, negatives
<1>5. /\ {j \in negatives : scores[j] >= 0} = negatives
      /\ {j \in negatives : scores[j] >= prevalence} = negatives
      /\ {j \in negatives : scores[j] >= One} = {}
  BY <1>1, <1>2, <1>4
<1>6. /\ 0 \in kept <=> One * all <= rate * all
      /\ prevalence \in kept <=> One * all <= rate * all
      /\ One \in kept <=> One * Cardinality({}) <= rate * all
  BY <1>3, <1>5 DEF Kept, Within, negatives
<1>7. kept \subseteq {prevalence, 0, One}
  BY <1>3 DEF Kept
<1>8. /\ kept = {} => c = One + 1
      /\ kept # {} => c \in kept /\ \A d \in kept : c <= d
  BY <1>2, ThresholdIsLowest
<1> HIDE DEF kept, c, all
<1>9. CASE rate = One
  <2>1. One * all <= rate * all
    BY <1>1, <1>4, <1>9
  <2>2. c = 0
    <3>1. 0 \in kept
      BY <1>6, <2>1
    <3>2. c \in {prevalence, 0, One} /\ c <= 0
      BY <1>7, <1>8, <3>1
    <3> QED BY <1>1, <3>2
  <2>3. Flagged(Constant(prevalence, x.holdout), c) = x.holdout
    BY <1>1, <2>2 DEF Flagged, Constant
  <2> QED BY <1>9, <2>3 DEF FlagsAllOrNone, c, scores
<1>10. CASE rate # One
  <2>1. rate < One
    BY <1>1, <1>10
  <2>2. rate * all < One * all
    BY <1>1, <1>4, <2>1, SmallerRate
  <2>3. One * all \in Nat /\ rate * all \in Nat
    BY <1>1, <1>4
  <2>4. One \in kept
    BY <1>1, <1>6, <2>3, FS_EmptySet
  <2>5. 0 \notin kept /\ prevalence \notin kept
    BY <1>6, <2>2, <2>3
  <2>6. c = One
    BY <1>7, <1>8, <2>4, <2>5
  <2>7. Flagged(Constant(prevalence, x.holdout), c) = {}
    BY <1>1, <2>6 DEF Flagged, Constant
  <2> QED BY <1>10, <2>7 DEF FlagsAllOrNone, c, scores
<1> QED BY <1>9, <1>10

-----------------------------------------------------------------------------
(* What a new report has been made of. *)
LEMMA NewReport ==
  ASSUME IInv, [Next]_vars, baseline' # baseline, NEW x \in FinalSplits(baseline')
  PROVE  LET table == baseline'.model.content
         IN /\ IsFiniteSet(x.train)
            /\ \A i \in x.train : table[i].shape \in Shapes
            /\ \E i \in x.train : ~table[i].automated
<1>0. PICK c \in AcceptedCorpora, d \in AcceptedCorpora :
        \E I \in Holdouts(SplitRows(d)) : ReportOf(c, d, I)
  BY NewReportFiles
<1>1. PICK I \in Holdouts(SplitRows(d)) : ReportOf(c, d, I)
  BY <1>0
<1> DEFINE table == ModelRows(c)
           rows == SplitRows(d)
<1>2. /\ baseline'.model.content = table /\ baseline'.splits = Splits(rows, I)
      /\ baseline'.status = Status(table, Splits(rows, I))
  BY <1>1 DEF ReportOf
<1>3. c.sessions \in Seq(Session)
  BY DEF AcceptedCorpora, Corpus
<1>4. DOMAIN rows = DOMAIN table /\ DOMAIN table = DOMAIN c.sessions /\ IsFiniteSet(DOMAIN rows)
  BY <1>1, SameRows DEF ReportOf
<1>5. x \in Splits(rows, I) /\ Status(table, Splits(rows, I)) = "evaluated"
  BY <1>2 DEF FinalSplits
<1>6. x.train \subseteq DOMAIN rows
  BY <1>5, SplitsAreOfRows
<1>7. Scored(table, x)
  BY <1>5 DEF Status
<1>8. PICK i \in x.train : table[i].automated = FALSE
  BY <1>7 DEF Scored, TwoClasses
<1>9. \A j \in x.train : table[j].shape \in Shapes
  <2> SUFFICES ASSUME NEW j \in x.train PROVE table[j].shape \in Shapes
    OBVIOUS
  <2>1. j \in DOMAIN c.sessions
    <3> HIDE DEF table, rows
    <3> QED BY <1>4, <1>6
  <2>2. c.sessions[j] \in Session
    BY <1>3, <2>1
  <2>3. table[j].shape = c.sessions[j].shape
    BY <2>1 DEF ModelRows
  <2> QED BY <2>2, <2>3 DEF Session
<1>10. IsFiniteSet(x.train)
  BY <1>4, <1>6, FS_Subset
<1> QED BY <1>2, <1>8, <1>9, <1>10

(***************************************************************************)
(* For any corpora, people and failures, and any models and rates: every     *)
(* threshold of the final temporal holdout is chosen right.                 *)
(***************************************************************************)
THEOREM ThresholdsTight ==
  Spec => ThresholdsAreTight
<1> DEFINE Right(x, rate) ==
             LET table == baseline'.model.content
             IN /\ \A fitted \in Fitted :
                     LET scores == Predict(table, fitted, x.train)
                     IN IsTightest(table, scores, rate, Threshold(table, scores, rate))
                /\ \A prevalence \in Prevalences :
                     FlagsAllOrNone(table, x, rate, prevalence)
<1>1. IInv /\ [Next]_vars =>
        (baseline' # baseline => \A x \in FinalSplits(baseline'), rate \in Rates : Right(x, rate))
  <2> SUFFICES ASSUME IInv, [Next]_vars, baseline' # baseline,
                      NEW x \in FinalSplits(baseline'), NEW rate \in Rates
               PROVE  Right(x, rate)
    OBVIOUS
  <2> DEFINE table == baseline'.model.content
  <2>1. /\ IsFiniteSet(x.train)
        /\ \A i \in x.train : table[i].shape \in Shapes
        /\ \E i \in x.train : ~table[i].automated
    BY NewReport
  <2>2. rate \in 0..One /\ Levels \subseteq 0..One
    BY LadderAssumption
  <2>3. \A prevalence \in Prevalences : FlagsAllOrNone(table, x, rate, prevalence)
    BY <2>1, <2>2, ConstantRung
  <2>4. ASSUME NEW fitted \in Fitted
        PROVE  LET scores == Predict(table, fitted, x.train)
               IN IsTightest(table, scores, rate, Threshold(table, scores, rate))
    <3>1. Predict(table, fitted, x.train) \in [x.train -> 0..One]
      BY <2>1, <2>2 DEF Predict, Fitted
    <3> QED BY <2>1, <2>2, <3>1, ThresholdIsTightest
  <2> QED BY <2>3, <2>4
<1> QED BY <1>1, Invariance, PTL DEF Spec, ThresholdsAreTight
=============================================================================
