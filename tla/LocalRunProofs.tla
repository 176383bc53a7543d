---------------------------- MODULE LocalRunProofs ----------------------------
(***************************************************************************)
(* What holds of the directories of ati run and ati pf2-export-bigquery,    *)
(* for any commands, logs, files of labels, errors and kills.               *)
(*                                                                         *)
(* The invariant says what a command has in its staging directory when it   *)
(* comes to its next file. It is in constants' terms (OwnOK, DirOK), so that *)
(* a step of one command says nothing of another's.                         *)
(***************************************************************************)
EXTENDS StratifiedRun, FiniteSetTheorems, SequenceTheorems, WellFoundedInduction, TLAPS

-----------------------------------------------------------------------------
(* A file of labels has finitely many ids. *)
LEMMA RowIdsFinite ==
  ASSUME NEW file \in LabelFile
  PROVE  IsFiniteSet(RowIds(file.rows))
<1>1. PICK S \in SUBSET (1..MaxLines) : file.rows \in [S -> Label]
  BY DEF LabelFile
<1>2. IsFiniteSet(S)
  <2>1. MaxLines \in Nat
    BY RunAssumption
  <2>2. IsFiniteSet(1..MaxLines)
    BY <2>1, FS_Interval
  <2> QED BY <2>2, FS_Subset
<1> DEFINE f == [i \in S |-> file.rows[i].id]
<1>3. f \in Surjection(S, RowIds(file.rows))
  BY <1>1 DEF Surjection, RowIds
<1> QED BY <1>2, <1>3, FS_Surjection

(* Any part of the numbers of a sequence is finite. *)
LEMMA PartsFinite ==
  ASSUME NEW S, NEW s \in Seq(S), NEW T \in SUBSET DOMAIN s
  PROVE  IsFiniteSet(T) /\ Cardinality(T) \in Nat
<1>1. DOMAIN s = 1..Len(s) /\ Len(s) \in Nat
  OBVIOUS
<1>2. IsFiniteSet(DOMAIN s)
  BY <1>1, FS_Interval
<1>3. IsFiniteSet(T)
  BY <1>2, FS_Subset
<1> QED BY <1>3, FS_CardinalityType

LEMMA DisjointUnion ==
  ASSUME NEW S, NEW T, IsFiniteSet(S), IsFiniteSet(T), S \cap T = {}
  PROVE  /\ IsFiniteSet(S \cup T)
         /\ Cardinality(S \cup T) = Cardinality(S) + Cardinality(T)
<1>1. Cardinality(S \cap T) = 0
  BY FS_EmptySet
<1>2. Cardinality(S) \in Nat /\ Cardinality(T) \in Nat
  BY FS_CardinalityType
<1>3. /\ IsFiniteSet(S \cup T)
      /\ Cardinality(S \cup T) = Cardinality(S) + Cardinality(T) - Cardinality(S \cap T)
  BY FS_Union
<1> QED BY <1>1, <1>2, <1>3

(* evaluate_automation_scores counts: every count is a number. *)
LEMMA EvaluationCounts ==
  ASSUME NEW detections \in Seq(Detection), NEW file \in LabelFile
  PROVE  Evaluation(detections, file.rows) \in Counts
<1> DEFINE rows == file.rows
           In == {i \in DOMAIN detections : detections[i].id \in RowIds(rows)}
           Out == {i \in DOMAIN detections : detections[i].id \notin RowIds(rows)}
           C(p, a) == {i \in DOMAIN detections :
             /\ detections[i].id \in RowIds(rows)
             /\ detections[i].predicted = p /\ IsAutomated(rows, detections[i].id) = a}
<1>1. Cardinality(In) \in Nat /\ Cardinality(Out) \in Nat
  BY PartsFinite
<1>2. \A p, a : Cardinality(C(p, a)) \in Nat
  BY PartsFinite
<1>3. Cardinality(RowIds(rows) \ RowIds(detections)) \in Nat
  <2>1. IsFiniteSet(RowIds(rows) \ RowIds(detections))
    BY RowIdsFinite, FS_Subset
  <2> QED BY <2>1, FS_CardinalityType
<1>4. \A p, a : Counted(detections, rows, p, a) \in Nat
  BY <1>2 DEF Counted
<1> QED BY <1>1, <1>3, <1>4 DEF Evaluation, Counts

(* _quality_status: ready means that detections and labels cover each other, and that
   the four counts are of all detections. *)
LEMMA ReadyCovers ==
  ASSUME NEW detections \in Seq(Detection), NEW file \in LabelFile, NEW files,
         files["detections"] = detections,
         files["evaluation"] = Evaluation(detections, file.rows),
         Quality(files["evaluation"]) = "ready"
  PROVE  IsCovered(files, file.rows)
<1> DEFINE rows == file.rows
           e == Evaluation(detections, rows)
           In == {i \in DOMAIN detections : detections[i].id \in RowIds(rows)}
           Out == {i \in DOMAIN detections : detections[i].id \notin RowIds(rows)}
           C(p, a) == {i \in DOMAIN detections :
             /\ detections[i].id \in RowIds(rows)
             /\ detections[i].predicted = p /\ IsAutomated(rows, detections[i].id) = a}
<1>1. e.evaluated = Cardinality(In) /\ e.unlabeled = Cardinality(Out)
      /\ e.unmatched = Cardinality(RowIds(rows) \ RowIds(detections))
  BY DEF Evaluation
<1>2. e.evaluated > 0 /\ e.unlabeled = 0 /\ e.unmatched = 0
  BY DEF Quality
<1>3. IsFiniteSet(Out) /\ IsFiniteSet(In)
  BY PartsFinite
<1>4. Out = {} /\ In # {}
  <2>1. Cardinality(Out) = 0 /\ Cardinality(In) > 0
    BY <1>1, <1>2
  <2> HIDE DEF In, Out
  <2>2. Cardinality({}) = 0 /\ \A S : IsFiniteSet(S) => (Cardinality(S) = 0 <=> S = {})
    BY FS_EmptySet
  <2> QED BY <1>3, <2>1, <2>2
<1>5. RowIds(rows) \ RowIds(detections) = {}
  <2>1. IsFiniteSet(RowIds(rows) \ RowIds(detections))
    BY RowIdsFinite, FS_Subset
  <2> HIDE DEF e
  <2> QED BY <1>1, <1>2, <2>1, FS_EmptySet
<1>6. RowIds(detections) = RowIds(rows)
  <2>1. \A i \in DOMAIN detections : detections[i].id \in RowIds(rows)
    BY <1>4
  <2>2. RowIds(detections) \subseteq RowIds(rows)
    BY <2>1 DEF RowIds
  <2> QED BY <1>5, <2>2
<1>7. detections # <<>>
  BY <1>4
<1>8. e.truePositive + e.falsePositive + e.trueNegative + e.falseNegative = Len(detections)
  <2>1. /\ IsFiniteSet(C(TRUE, TRUE)) /\ Cardinality(C(TRUE, TRUE)) \in Nat
        /\ IsFiniteSet(C(TRUE, FALSE)) /\ Cardinality(C(TRUE, FALSE)) \in Nat
        /\ IsFiniteSet(C(FALSE, FALSE)) /\ Cardinality(C(FALSE, FALSE)) \in Nat
        /\ IsFiniteSet(C(FALSE, TRUE)) /\ Cardinality(C(FALSE, TRUE)) \in Nat
    BY PartsFinite
  <2>2. DOMAIN detections =
          (C(TRUE, TRUE) \cup C(TRUE, FALSE)) \cup (C(FALSE, FALSE) \cup C(FALSE, TRUE))
    <3>1. ASSUME NEW i \in DOMAIN detections
          PROVE  /\ detections[i].predicted \in BOOLEAN
                 /\ IsAutomated(rows, detections[i].id) \in BOOLEAN
                 /\ detections[i].id \in RowIds(rows)
      <4>1. detections[i] \in Detection
        OBVIOUS
      <4>2. detections[i].predicted \in BOOLEAN
        BY <4>1 DEF Detection
      <4>3. IsAutomated(rows, detections[i].id) \in BOOLEAN
        BY Zenon DEF IsAutomated
      <4> QED BY <1>4, <4>2, <4>3
    <3> QED BY <3>1
  <2>3. /\ C(TRUE, TRUE) \cap C(TRUE, FALSE) = {}
        /\ C(FALSE, FALSE) \cap C(FALSE, TRUE) = {}
        /\ (C(TRUE, TRUE) \cup C(TRUE, FALSE)) \cap (C(FALSE, FALSE) \cup C(FALSE, TRUE)) = {}
    OBVIOUS
  <2>4. /\ e.truePositive = Cardinality(C(TRUE, TRUE))
        /\ e.falsePositive = Cardinality(C(TRUE, FALSE))
        /\ e.trueNegative = Cardinality(C(FALSE, FALSE))
        /\ e.falseNegative = Cardinality(C(FALSE, TRUE))
    BY DEF Evaluation, Counted
  <2>5. Cardinality(DOMAIN detections) = Len(detections)
    <3>1. DOMAIN detections = 1..Len(detections) /\ Len(detections) \in Nat
      OBVIOUS
    <3> QED BY <3>1, FS_Interval
  <2> HIDE DEF C, e
  <2>6. /\ Cardinality(C(TRUE, TRUE) \cup C(TRUE, FALSE)) =
             Cardinality(C(TRUE, TRUE)) + Cardinality(C(TRUE, FALSE))
        /\ IsFiniteSet(C(TRUE, TRUE) \cup C(TRUE, FALSE))
    BY <2>1, <2>3, DisjointUnion
  <2>7. /\ Cardinality(C(FALSE, FALSE) \cup C(FALSE, TRUE)) =
             Cardinality(C(FALSE, FALSE)) + Cardinality(C(FALSE, TRUE))
        /\ IsFiniteSet(C(FALSE, FALSE) \cup C(FALSE, TRUE))
    BY <2>1, <2>3, DisjointUnion
  <2>8. Cardinality(DOMAIN detections) =
          Cardinality(C(TRUE, TRUE) \cup C(TRUE, FALSE))
            + Cardinality(C(FALSE, FALSE) \cup C(FALSE, TRUE))
    BY <2>2, <2>3, <2>6, <2>7, DisjointUnion
  <2> DEFINE tp == Cardinality(C(TRUE, TRUE))
             fp == Cardinality(C(TRUE, FALSE))
             tn == Cardinality(C(FALSE, FALSE))
             fn == Cardinality(C(FALSE, TRUE))
  <2>9. tp + fp + tn + fn = Len(detections)
    <3>1. tp \in Nat /\ fp \in Nat /\ tn \in Nat /\ fn \in Nat
      BY <2>1
    <3>2. Len(detections) = (tp + fp) + (tn + fn)
      BY <2>5, <2>6, <2>7, <2>8
    <3> HIDE DEF tp, fp, tn, fn
    <3> QED BY <3>1, <3>2
  <2> QED BY <2>4, <2>9
<1> HIDE DEF e
<1>9. e.truePositive + e.falsePositive + e.trueNegative + e.falseNegative = Len(detections)
  BY <1>8
<1> QED BY <1>6, <1>7, <1>9 DEF IsCovered, e

-----------------------------------------------------------------------------
Rows == UNION {[S -> Label] : S \in SUBSET (1..MaxLines)}

RunStages == {"detections", "evaluation", "run", "summary"}
ExportStages == {"tables", "ddl", "index"}
Stages == RunStages \cup ExportStages \cup {"idle", "labels", "publish"}

OutputJobs == [kind : {"run", "export"}, dir : Dirs, corpus : Corpora, number : Nat,
               labels : LabelFile]
LabelJobs == [kind : {"labels"}, file : LabelFile]
Jobs == {NoJob} \cup OutputJobs \cup LabelJobs

(* The stage s of a command and its arguments j fit together. *)
JobOK(s, j) ==
  /\ s \in Stages
  /\ s = "idle" <=> j = NoJob
  /\ s = "idle" \/ s = "labels" \/ j \in OutputJobs
  /\ s = "labels" => j \in LabelJobs
  /\ s \in RunStages => j.kind = "run"
  /\ s \in ExportStages => j.kind = "export"

(* What a command with arguments j has written. *)
ContentOK(j, f, lines) ==
  /\ RunFilesOK(f)
  /\ "detections" \in DOMAIN f => IsFirstPart(f["detections"], lines)
  /\ "evaluation" \in DOMAIN f =>
       /\ f["evaluation"] = Evaluation(f["detections"], j.labels.rows)
       /\ DOMAIN j.labels.rows # {} => j.labels.corpus = j.corpus
  /\ "run" \in DOMAIN f => f["run"] = j.corpus
  /\ "summary" \in DOMAIN f => f["summary"] = Quality(f["evaluation"])
  /\ \A x \in Artifacts("export") \cap DOMAIN f : f[x] = j.number

OwnOK(s, j, f, lines) ==
  /\ JobOK(s, j)
  /\ DOMAIN f = IF s = "publish" THEN Artifacts(j.kind) ELSE Written(s)
  /\ ContentOK(j, f, lines)

DirOK(dir, lines) ==
  /\ dir.kind \in {"absent", "empty", "file", "link", "run", "export"}
  /\ dir.kind \in {"run", "export"} => DOMAIN dir.files = Artifacts(dir.kind)
  /\ dir.kind = "run" =>
       RunFilesOK(dir.files) /\ dir.labels \in LabelFile /\ IsWholeRun(dir.files, dir.labels, lines)
  /\ dir.kind = "export" =>
       \A f, g \in Artifacts("export") : dir.files[f] = dir.files[g]

InputsOK ==
  /\ log \in Seq(Line) /\ Len(log) <= MaxLines
  /\ torn \in BOOLEAN /\ (torn => Len(log) < MaxLines)
  /\ labels \in LabelFile

CountsOK ==
  /\ commands \in 0..MaxCommands

Inv ==
  /\ InputsOK /\ CountsOK
  /\ DOMAIN stage = Operators /\ DOMAIN job = Operators /\ DOMAIN staging = Operators
  /\ DOMAIN dirs = Dirs
  /\ \A o \in Operators : OwnOK(stage[o], job[o], staging[o], log)
  /\ \A d \in Dirs : DirOK(dirs[d], log)

-----------------------------------------------------------------------------
(* What _analyze writes is of the whole log as it is. *)
LEMMA DetectionsOfLines ==
  ASSUME NEW lines \in Seq(Line)
  PROVE  Detections(lines) \in Seq(Detection) /\ IsFirstPart(Detections(lines), lines)
<1>1. \A i \in DOMAIN lines : lines[i].id \in Ids /\ lines[i].predicted \in BOOLEAN
  <2>1. \A i \in DOMAIN lines : lines[i] \in Line
    OBVIOUS
  <2> QED BY <2>1 DEF Line
<1>2. DOMAIN lines = 1..Len(lines) /\ Len(lines) \in Nat
  OBVIOUS
<1>3. Detections(lines) \in [1..Len(lines) -> Detection]
  BY <1>1, <1>2 DEF Detections, Detection
<1>4. SubSeq(lines, 1, Len(lines)) = lines
  OBVIOUS
<1>5. Detections(lines) \in Seq(Detection)
  BY <1>2, <1>3, SeqDef
<1>6. Len(lines) \in 0..Len(lines)
  BY <1>2
<1> QED BY <1>4, <1>5, <1>6 DEF IsFirstPart

(* A first part of a log is one of the longer log. *)
LEMMA FirstPartsStay ==
  ASSUME NEW lines \in Seq(Line), NEW l \in Line, NEW detections, IsFirstPart(detections, lines)
  PROVE  IsFirstPart(detections, Append(lines, l))
<1>1. PICK n \in 0..Len(lines) : detections = Detections(SubSeq(lines, 1, n))
  BY DEF IsFirstPart
<1>2. SubSeq(Append(lines, l), 1, n) = SubSeq(lines, 1, n)
  OBVIOUS
<1>3. n \in 0..Len(Append(lines, l))
  OBVIOUS
<1> QED BY <1>1, <1>2, <1>3 DEF IsFirstPart

(* ati campaign labels writes a file of labels. *)
LEMMA CampaignLabelsType ==
  ASSUME NEW lines \in Seq(Line), Len(lines) <= MaxLines
  PROVE  CampaignLabels(lines) \in Rows
<1> DEFINE S == {j \in DOMAIN lines : lines[j].marked}
<1>1. S \in SUBSET (1..MaxLines)
  BY RunAssumption
<1>2. \A i \in S : lines[i].id \in Ids
  <2>1. \A i \in DOMAIN lines : lines[i] \in Line
    OBVIOUS
  <2> QED BY <2>1 DEF Line
<1>3. CampaignLabels(lines) \in [S -> Label]
  BY <1>2 DEF CampaignLabels, Label
<1> QED BY <1>1, <1>3 DEF Rows

LEMMA NoLabelsType ==
  ASSUME NEW corpus \in Corpora
  PROVE  NoLabels(corpus) \in LabelFile
<1>1. {} \in SUBSET (1..MaxLines) /\ << >> \in [{} -> Label]
  OBVIOUS
<1>2. << >> \in Rows
  BY <1>1 DEF Rows
<1> QED BY <1>2 DEF NoLabels, LabelFile, Rows

LEMMA InitInv ==
  Init => Inv
<1> SUFFICES ASSUME Init PROVE Inv
  OBVIOUS
<1>1. InputsOK /\ CountsOK
  <2>1. /\ MaxLines \in Nat /\ MaxCommands \in Nat
        /\ labels \in LabelFile
    BY RunAssumption DEF Init
  <2>2. log = <<>> /\ torn = FALSE /\ commands = 0
    BY DEF Init
  <2>3. InputsOK
    <3>1. log \in Seq(Line) /\ Len(log) <= MaxLines
      BY <2>1, <2>2
    <3>2. torn \in BOOLEAN /\ (torn => Len(log) < MaxLines)
      BY <2>2, Zenon
    <3> QED BY <2>1, <3>1, <3>2, Zenon DEF InputsOK
  <2>4. CountsOK
    BY <2>1, <2>2 DEF CountsOK
  <2> QED BY <2>3, <2>4
<1>2. ASSUME NEW o \in Operators PROVE OwnOK(stage[o], job[o], staging[o], log)
  <2>1. stage[o] = "idle" /\ job[o] = NoJob /\ staging[o] = NoFiles /\ DOMAIN NoFiles = {}
    BY DEF Init, NoFiles
  <2> QED BY <2>1 DEF OwnOK, JobOK, ContentOK, RunFilesOK, Stages, Written, NoJob,
                      RunStages, ExportStages
<1>3. ASSUME NEW d \in Dirs PROVE DirOK(dirs[d], log)
  BY DEF Init, DirOK, Nothing
<1> QED BY <1>1, <1>2, <1>3 DEF Init, Inv

-----------------------------------------------------------------------------
(* A step of one command: what is left to show. *)
LEMMA OneCommand ==
  ASSUME Inv, NEW o \in Operators,
         \A p \in Operators \ {o} :
           stage'[p] = stage[p] /\ job'[p] = job[p] /\ staging'[p] = staging[p],
         DOMAIN stage' = Operators, DOMAIN job' = Operators, DOMAIN staging' = Operators,
         DOMAIN dirs' = Dirs, log' = log, InputsOK', CountsOK',
         OwnOK(stage'[o], job'[o], staging'[o], log),
         \A d \in Dirs : DirOK(dirs'[d], log)
  PROVE  Inv'
<1>1. ASSUME NEW p \in Operators PROVE OwnOK(stage'[p], job'[p], staging'[p], log')
  <2>1. CASE p = o
    BY <2>1
  <2>2. CASE p # o
    BY <2>2 DEF Inv
  <2> QED BY <2>1, <2>2
<1>2. \A d \in Dirs : DirOK(dirs'[d], log')
  OBVIOUS
<1> QED BY <1>1, <1>2 DEF Inv

(* A step that writes one file to a staging directory. *)
LEMMA OneFile ==
  ASSUME Inv, NEW o \in Operators, NEW file, NEW content, Stage(o, file, content),
         DOMAIN job' = Operators,
         \A p \in Operators \ {o} : job'[p] = job[p],
         \A g : /\ DOMAIN g = DOMAIN staging[o] \cup {file}
                /\ g[file] = content
                /\ \A x \in DOMAIN staging[o] \ {file} : g[x] = staging[o][x]
                => OwnOK(After(file), job'[o], g, log)
  PROVE  Inv'
<1>1. /\ stage' = [stage EXCEPT ![o] = After(file)]
      /\ staging' = [staging EXCEPT ![o] = [f \in DOMAIN staging[o] \cup {file} |->
                                             IF f = file THEN content ELSE staging[o][f]]]
      /\ log' = log /\ torn' = torn /\ labels' = labels /\ dirs' = dirs
      /\ commands' = commands
  BY DEF Stage, GoTo, inputVars
<1>2. DOMAIN stage = Operators /\ DOMAIN staging = Operators
  BY DEF Inv
<1>3. /\ DOMAIN stage' = Operators /\ DOMAIN staging' = Operators
      /\ \A p \in Operators \ {o} : stage'[p] = stage[p] /\ staging'[p] = staging[p]
  BY <1>1, <1>2
<1>4. /\ stage'[o] = After(file)
      /\ staging'[o] = [f \in DOMAIN staging[o] \cup {file} |->
                         IF f = file THEN content ELSE staging[o][f]]
  BY <1>1, <1>2
<1>5. OwnOK(stage'[o], job'[o], staging'[o], log)
  BY <1>4
<1>6. InputsOK' /\ CountsOK'
  BY <1>1 DEF Inv, InputsOK, CountsOK
<1>7. DOMAIN dirs' = Dirs /\ \A d \in Dirs : DirOK(dirs'[d], log)
  BY <1>1 DEF Inv
<1> QED BY <1>1, <1>3, <1>5, <1>6, <1>7, OneCommand

LEMMA BeginStep ==
  ASSUME Inv, NEW o \in Operators, NEW kind \in {"run", "export"}, NEW d \in Dirs,
         NEW corpus \in Corpora, Begin(o, kind, d, corpus)
  PROVE  Inv'
<1> DEFINE j == [kind |-> kind, dir |-> d, corpus |-> corpus, number |-> commands + 1,
                 labels |-> NoLabels(corpus)]
           s == IF kind = "run" THEN "detections" ELSE "tables"
<1>1. /\ stage[o] = "idle" /\ commands < MaxCommands /\ commands' = commands + 1
      /\ job' = [job EXCEPT ![o] = j] /\ stage' = [stage EXCEPT ![o] = s]
      /\ log' = log /\ torn' = torn /\ labels' = labels /\ dirs' = dirs
      /\ staging' = staging
  BY DEF Begin, GoTo, inputVars
<1>2. /\ DOMAIN stage = Operators /\ DOMAIN job = Operators /\ DOMAIN staging = Operators
      /\ commands \in 0..MaxCommands /\ MaxCommands \in Nat
      /\ OwnOK(stage[o], job[o], staging[o], log)
  BY RunAssumption DEF Inv, CountsOK
<1>3. j \in OutputJobs
  BY <1>2, NoLabelsType DEF OutputJobs
<1>4. DOMAIN staging[o] = {}
  BY <1>1, <1>2 DEF OwnOK, Written
<1>5. JobOK(s, j)
  BY <1>3 DEF JobOK, Stages, RunStages, ExportStages, NoJob
<1>6. OwnOK(s, j, staging[o], log)
  BY <1>4, <1>5 DEF OwnOK, ContentOK, RunFilesOK, Written
<1>7. InputsOK' /\ CountsOK'
  BY <1>1, <1>2 DEF Inv, InputsOK, CountsOK
<1>8. DOMAIN dirs' = Dirs /\ \A e \in Dirs : DirOK(dirs'[e], log)
  BY <1>1 DEF Inv
<1>9. stage'[o] = s /\ job'[o] = j /\ staging'[o] = staging[o]
  BY <1>1, <1>2
<1>10. \A p \in Operators \ {o} :
         stage'[p] = stage[p] /\ job'[p] = job[p] /\ staging'[p] = staging[p]
  BY <1>1, <1>2
<1>11. DOMAIN stage' = Operators /\ DOMAIN job' = Operators /\ DOMAIN staging' = Operators
  BY <1>1, <1>2
<1> HIDE DEF j, s
<1> QED BY <1>1, <1>6, <1>7, <1>8, <1>9, <1>10, <1>11, OneCommand

LEMMA AnalyzeStep ==
  ASSUME Inv, NEW o \in Operators, Analyze(o)
  PROVE  Inv'
<1>1. Stage(o, "detections", Detections(log)) /\ job' = job /\ stage[o] = "detections"
  BY DEF Analyze, Stage
<1>2. /\ OwnOK(stage[o], job[o], staging[o], log) /\ DOMAIN job = Operators
      /\ log \in Seq(Line)
  BY DEF Inv, InputsOK
<1>3. DOMAIN staging[o] = {}
  BY <1>1, <1>2 DEF OwnOK, Written
<1>4. ASSUME NEW g, DOMAIN g = {"detections"}, g["detections"] = Detections(log)
      PROVE  OwnOK("evaluation", job[o], g, log)
  <2>1. JobOK("evaluation", job[o])
    BY <1>1, <1>2 DEF OwnOK, JobOK, Stages, RunStages, ExportStages
  <2>2. ContentOK(job[o], g, log)
    BY <1>2, <1>4, DetectionsOfLines DEF ContentOK, RunFilesOK, Artifacts
  <2> QED BY <1>4, <2>1, <2>2 DEF OwnOK, Written
<1>5. After("detections") = "evaluation"
  BY DEF After
<1> QED BY <1>1, <1>2, <1>3, <1>4, <1>5, OneFile

LEMMA EvaluateStep ==
  ASSUME Inv, NEW o \in Operators, Evaluate(o)
  PROVE  Inv'
<1> DEFINE detections == staging[o]["detections"]
           j == [job[o] EXCEPT !.labels = labels]
<1>1. /\ Stage(o, "evaluation", Evaluation(detections, labels.rows))
      /\ job' = [job EXCEPT ![o] = j] /\ stage[o] = "evaluation"
      /\ DOMAIN labels.rows # {} => labels.corpus = job[o].corpus
  BY DEF Evaluate, CanEvaluate
<1>2. /\ OwnOK(stage[o], job[o], staging[o], log) /\ DOMAIN job = Operators
      /\ labels \in LabelFile
  BY DEF Inv, InputsOK
<1>3. DOMAIN staging[o] = {"detections"}
  BY <1>1, <1>2 DEF OwnOK, Written
<1>4. JobOK("evaluation", job[o]) /\ ContentOK(job[o], staging[o], log)
  BY <1>1, <1>2 DEF OwnOK
<1>5. job[o] \in OutputJobs /\ job[o].kind = "run"
  BY <1>4 DEF JobOK, RunStages
<1>6. /\ j \in OutputJobs /\ j.kind = "run" /\ j.labels = labels /\ j.corpus = job[o].corpus
      /\ j.number = job[o].number
  BY <1>2, <1>5 DEF OutputJobs
<1>7. detections \in Seq(Detection) /\ IsFirstPart(detections, log)
  BY <1>3, <1>4 DEF ContentOK, RunFilesOK
<1>8. ASSUME NEW g, DOMAIN g = {"detections", "evaluation"},
             g["evaluation"] = Evaluation(detections, labels.rows), g["detections"] = detections
      PROVE  OwnOK("run", j, g, log)
  <2> HIDE DEF detections, j
  <2>1. JobOK("run", j)
    BY <1>6 DEF JobOK, Stages, RunStages, ExportStages, NoJob
  <2>2. Evaluation(detections, labels.rows) \in Counts
    BY <1>2, <1>7, EvaluationCounts
  <2>3. ContentOK(j, g, log)
    BY <1>1, <1>6, <1>7, <1>8, <2>2 DEF ContentOK, RunFilesOK, Artifacts
  <2> QED BY <1>8, <2>1, <2>3 DEF OwnOK, Written
<1>9. After("evaluation") = "run"
  BY DEF After
<1>10. job'[o] = j /\ DOMAIN job' = Operators /\ \A p \in Operators \ {o} : job'[p] = job[p]
  BY <1>1, <1>2
<1> HIDE DEF j
<1> QED BY <1>1, <1>3, <1>8, <1>9, <1>10, OneFile

LEMMA WriteRunStep ==
  ASSUME Inv, NEW o \in Operators, WriteRun(o)
  PROVE  Inv'
<1> DEFINE f == staging[o]
<1>1. Stage(o, "run", job[o].corpus) /\ job' = job /\ stage[o] = "run"
  BY DEF WriteRun
<1>2. OwnOK(stage[o], job[o], f, log) /\ DOMAIN job = Operators
  BY DEF Inv
<1>3. DOMAIN f = {"detections", "evaluation"}
  BY <1>1, <1>2 DEF OwnOK, Written
<1>4. JobOK("run", job[o]) /\ ContentOK(job[o], f, log)
  BY <1>1, <1>2 DEF OwnOK
<1>5. ASSUME NEW g, DOMAIN g = DOMAIN f \cup {"run"}, g["run"] = job[o].corpus,
             \A x \in DOMAIN f : g[x] = f[x]
      PROVE  OwnOK("summary", job[o], g, log)
  <2>1. JobOK("summary", job[o])
    BY <1>4 DEF JobOK, Stages, RunStages, ExportStages
  <2>2. job[o].corpus \in Corpora
    BY <1>4 DEF JobOK, OutputJobs
  <2> HIDE DEF f
  <2>3. g["detections"] = f["detections"] /\ g["evaluation"] = f["evaluation"]
    BY <1>3, <1>5
  <2>4. ContentOK(job[o], g, log)
    BY <1>3, <1>4, <1>5, <2>2, <2>3 DEF ContentOK, RunFilesOK, Artifacts
  <2> QED BY <1>3, <1>5, <2>1, <2>4 DEF OwnOK, Written
<1>6. After("run") = "summary"
  BY DEF After
<1> QED BY <1>1, <1>2, <1>3, <1>5, <1>6, OneFile

LEMMA WriteSummaryStep ==
  ASSUME Inv, NEW o \in Operators, WriteSummary(o)
  PROVE  Inv'
<1> DEFINE f == staging[o]
<1>1. Stage(o, "summary", Quality(f["evaluation"])) /\ job' = job /\ stage[o] = "summary"
  BY DEF WriteSummary
<1>2. OwnOK(stage[o], job[o], f, log) /\ DOMAIN job = Operators
  BY DEF Inv
<1>3. DOMAIN f = {"detections", "evaluation", "run"}
  BY <1>1, <1>2 DEF OwnOK, Written
<1>4. JobOK("summary", job[o]) /\ ContentOK(job[o], f, log)
  BY <1>1, <1>2 DEF OwnOK
<1>5. ASSUME NEW g, DOMAIN g = DOMAIN f \cup {"summary"},
             g["summary"] = Quality(f["evaluation"]), \A x \in DOMAIN f : g[x] = f[x]
      PROVE  OwnOK("publish", job[o], g, log)
  <2>1. JobOK("publish", job[o]) /\ job[o].kind = "run"
    BY <1>4 DEF JobOK, Stages, RunStages, ExportStages, NoJob, OutputJobs
  <2> HIDE DEF f
  <2>2. /\ g["detections"] = f["detections"] /\ g["evaluation"] = f["evaluation"]
        /\ g["run"] = f["run"]
    BY <1>3, <1>5
  <2>3. Quality(f["evaluation"]) \in {"ready", "review-required"}
    BY DEF Quality
  <2>4. ContentOK(job[o], g, log)
    BY <1>3, <1>4, <1>5, <2>2, <2>3 DEF ContentOK, RunFilesOK, Artifacts
  <2> QED BY <1>3, <1>5, <2>1, <2>4 DEF OwnOK, Artifacts
<1>6. After("summary") = "publish"
  BY DEF After
<1> QED BY <1>1, <1>2, <1>3, <1>5, <1>6, OneFile

LEMMA WriteExportStep ==
  ASSUME Inv, NEW o \in Operators, WriteExport(o)
  PROVE  Inv'
<1> DEFINE f == staging[o]
<1>1. PICK file \in ExportStages : Stage(o, file, job[o].number) /\ job' = job /\ stage[o] = file
  BY DEF WriteExport, Artifacts, ExportStages, Stage
<1>2. OwnOK(file, job[o], f, log) /\ DOMAIN job = Operators
  BY <1>1 DEF Inv
<1>3. /\ file = "tables" => DOMAIN f = {} /\ After(file) = "ddl"
      /\ file = "ddl" => DOMAIN f = {"tables"} /\ After(file) = "index"
      /\ file = "index" => DOMAIN f = {"tables", "ddl"} /\ After(file) = "publish"
  BY <1>2 DEF OwnOK, Written, After
<1>4. JobOK(file, job[o]) /\ ContentOK(job[o], f, log)
  BY <1>2 DEF OwnOK
<1>5. ASSUME NEW g, DOMAIN g = DOMAIN f \cup {file}, g[file] = job[o].number,
             \A x \in DOMAIN f \ {file} : g[x] = f[x]
      PROVE  OwnOK(After(file), job[o], g, log)
  <2>1. job[o] \in OutputJobs /\ job[o].kind = "export"
    BY <1>4 DEF JobOK, RunStages, ExportStages
  <2> HIDE DEF f
  <2>2. DOMAIN f \subseteq ExportStages
    BY <1>3 DEF ExportStages
  <2>3. JobOK(After(file), job[o])
    BY <1>3, <2>1 DEF JobOK, Stages, RunStages, ExportStages, NoJob
  <2>4. \A x \in DOMAIN g : x \in ExportStages /\ g[x] = job[o].number
    BY <1>4, <1>5, <2>2 DEF ContentOK, Artifacts, ExportStages
  <2>5. ContentOK(job[o], g, log)
    BY <2>4 DEF ContentOK, RunFilesOK, Artifacts, ExportStages
  <2>6. DOMAIN g = IF After(file) = "publish" THEN Artifacts(job[o].kind) ELSE Written(After(file))
    <3>1. CASE file = "tables"
      BY <1>3, <1>5, <3>1 DEF Written
    <3>2. CASE file = "ddl"
      BY <1>3, <1>5, <3>2 DEF Written
    <3>3. CASE file = "index"
      BY <1>3, <1>5, <2>1, <3>3 DEF Artifacts
    <3> QED BY <3>1, <3>2, <3>3 DEF ExportStages
  <2> QED BY <2>3, <2>5, <2>6 DEF OwnOK
<1> HIDE DEF f
<1>6. DOMAIN job' = Operators /\ \A p \in Operators \ {o} : job'[p] = job[p]
  BY <1>1, <1>2
<1> QED BY <1>1, <1>5, <1>6, OneFile DEF f

-----------------------------------------------------------------------------
(* A step with which the command of o is over; its staging directory is gone, or its
   files are no longer its own. *)
LEMMA OneEnd ==
  ASSUME Inv, NEW o \in Operators, End(o),
         \/ staging' = [staging EXCEPT ![o] = NoFiles]
         \/ staging' = staging /\ DOMAIN staging[o] = {},
         log' = log, InputsOK', CountsOK',
         DOMAIN dirs' = Dirs, \A d \in Dirs : DirOK(dirs'[d], log)
  PROVE  Inv'
<1>1. stage' = [stage EXCEPT ![o] = "idle"] /\ job' = [job EXCEPT ![o] = NoJob]
  BY DEF End, GoTo
<1>2. DOMAIN stage = Operators /\ DOMAIN job = Operators /\ DOMAIN staging = Operators
  BY DEF Inv
<1>3. stage'[o] = "idle" /\ job'[o] = NoJob /\ DOMAIN staging'[o] = {}
  BY <1>1, <1>2 DEF NoFiles
<1>4. OwnOK(stage'[o], job'[o], staging'[o], log)
  <2>1. JobOK("idle", NoJob)
    BY DEF JobOK, Stages, RunStages, ExportStages
  <2> QED BY <1>3, <2>1 DEF OwnOK, ContentOK, RunFilesOK, Written
<1>5. DOMAIN stage' = Operators /\ DOMAIN job' = Operators /\ DOMAIN staging' = Operators
  BY <1>1, <1>2
<1>6. \A p \in Operators \ {o} :
        stage'[p] = stage[p] /\ job'[p] = job[p] /\ staging'[p] = staging[p]
  BY <1>1, <1>2
<1> QED BY <1>4, <1>5, <1>6, OneCommand

LEMMA PublishStep ==
  ASSUME Inv, NEW o \in Operators, Publish(o)
  PROVE  Inv'
<1> DEFINE dir == [kind |-> job[o].kind, files |-> staging[o], labels |-> job[o].labels]
<1>1. /\ stage[o] = "publish" /\ End(o) /\ dirs' = [dirs EXCEPT ![job[o].dir] = dir]
      /\ staging' = [staging EXCEPT ![o] = NoFiles]
      /\ log' = log /\ torn' = torn /\ labels' = labels
      /\ commands' = commands
  BY DEF Publish, inputVars
<1>2. OwnOK("publish", job[o], staging[o], log) /\ DOMAIN dirs = Dirs
  BY <1>1 DEF Inv
<1>3. job[o] \in OutputJobs /\ DOMAIN staging[o] = Artifacts(job[o].kind)
  BY <1>2 DEF OwnOK, JobOK
<1>4. /\ job[o].kind \in {"run", "export"} /\ job[o].dir \in Dirs
      /\ job[o].labels \in LabelFile
  BY <1>3 DEF OutputJobs
<1>5. DirOK(dir, log)
  <2>1. dir.kind = job[o].kind /\ dir.files = staging[o] /\ dir.labels = job[o].labels
    OBVIOUS
  <2>2. ContentOK(job[o], staging[o], log)
    BY <1>2 DEF OwnOK
  <2> HIDE DEF dir
  <2>3. CASE job[o].kind = "run"
    BY <1>3, <1>4, <2>1, <2>2, <2>3 DEF DirOK, ContentOK, IsWholeRun, Artifacts
  <2>4. CASE job[o].kind = "export"
    BY <1>3, <1>4, <2>1, <2>2, <2>4 DEF DirOK, ContentOK, Artifacts
  <2> QED BY <1>4, <2>3, <2>4
<1>6. InputsOK' /\ CountsOK'
  BY <1>1 DEF Inv, InputsOK, CountsOK
<1> HIDE DEF dir
<1>7. DOMAIN dirs' = Dirs /\ \A d \in Dirs : DirOK(dirs'[d], log)
  BY <1>1, <1>2, <1>5 DEF Inv
<1> QED BY <1>1, <1>6, <1>7, OneEnd

LEMMA ReadLogStep ==
  ASSUME Inv, NEW o \in Operators, NEW corpus \in Corpora, ReadLog(o, corpus)
  PROVE  Inv'
<1> DEFINE j == [kind |-> "labels", file |-> [corpus |-> corpus, rows |-> CampaignLabels(log)]]
<1>1. /\ stage[o] = "idle" /\ commands < MaxCommands /\ commands' = commands + 1
      /\ job' = [job EXCEPT ![o] = j] /\ stage' = [stage EXCEPT ![o] = "labels"]
      /\ log' = log /\ torn' = torn /\ labels' = labels /\ dirs' = dirs
      /\ staging' = staging
  BY DEF ReadLog, GoTo, inputVars
<1>2. /\ DOMAIN stage = Operators /\ DOMAIN job = Operators /\ DOMAIN staging = Operators
      /\ commands \in 0..MaxCommands /\ MaxCommands \in Nat
      /\ OwnOK(stage[o], job[o], staging[o], log)
  BY RunAssumption DEF Inv, CountsOK
<1>3. j \in LabelJobs
  BY CampaignLabelsType DEF LabelJobs, LabelFile, Rows, Inv, InputsOK
<1>4. DOMAIN staging[o] = {}
  BY <1>1, <1>2 DEF OwnOK, Written
<1>5. JobOK("labels", j)
  BY <1>3 DEF JobOK, Stages, RunStages, ExportStages, NoJob, LabelJobs
<1>6. OwnOK("labels", j, staging[o], log)
  BY <1>4, <1>5 DEF OwnOK, ContentOK, RunFilesOK, Written
<1>7. InputsOK' /\ CountsOK'
  BY <1>1, <1>2 DEF Inv, InputsOK, CountsOK
<1>8. DOMAIN dirs' = Dirs /\ \A d \in Dirs : DirOK(dirs'[d], log)
  BY <1>1 DEF Inv
<1> HIDE DEF j
<1>9. stage'[o] = "labels" /\ job'[o] = j /\ staging'[o] = staging[o]
  BY <1>1, <1>2
<1>10. \A p \in Operators \ {o} :
         stage'[p] = stage[p] /\ job'[p] = job[p] /\ staging'[p] = staging[p]
  BY <1>1, <1>2
<1>11. DOMAIN stage' = Operators /\ DOMAIN job' = Operators /\ DOMAIN staging' = Operators
  BY <1>1, <1>2
<1> QED BY <1>1, <1>6, <1>7, <1>8, <1>9, <1>10, <1>11, OneCommand

LEMMA WriteLabelsStep ==
  ASSUME Inv, NEW o \in Operators, WriteLabels(o)
  PROVE  Inv'
<1>1. /\ stage[o] = "labels" /\ labels' = job[o].file /\ End(o)
      /\ log' = log /\ torn' = torn /\ dirs' = dirs /\ staging' = staging
      /\ commands' = commands
  BY DEF WriteLabels
<1>2. OwnOK("labels", job[o], staging[o], log)
  BY <1>1 DEF Inv
<1>3. job[o].file \in LabelFile /\ DOMAIN staging[o] = {}
  BY <1>2 DEF OwnOK, JobOK, LabelJobs, Written
<1>4. InputsOK' /\ CountsOK'
  BY <1>1, <1>3 DEF Inv, InputsOK, CountsOK
<1>5. DOMAIN dirs' = Dirs /\ \A d \in Dirs : DirOK(dirs'[d], log)
  BY <1>1 DEF Inv
<1> QED BY <1>1, <1>3, <1>4, <1>5, OneEnd

LEMMA FailStep ==
  ASSUME Inv, NEW o \in Operators, Fail(o)
  PROVE  Inv'
<1>1. /\ End(o) /\ staging' = [staging EXCEPT ![o] = NoFiles]
      /\ log' = log /\ torn' = torn /\ labels' = labels /\ dirs' = dirs
      /\ commands' = commands
  BY DEF Fail, inputVars
<1>2. InputsOK' /\ CountsOK'
  BY <1>1 DEF Inv, InputsOK, CountsOK
<1>3. DOMAIN dirs' = Dirs /\ \A d \in Dirs : DirOK(dirs'[d], log)
  BY <1>1 DEF Inv
<1> QED BY <1>1, <1>2, <1>3, OneEnd

-----------------------------------------------------------------------------
(* The log grows, and what was a first part of it still is. *)
LEMMA LineSteps ==
  ASSUME Inv, BeginLine \/ \E l \in Line : EndLine(l)
  PROVE  Inv'
<1>1. CASE BeginLine
  <2>1. /\ ~torn /\ Len(log) < MaxLines /\ torn' = TRUE
        /\ log' = log /\ labels' = labels /\ dirs' = dirs /\ stage' = stage /\ job' = job
        /\ staging' = staging /\ commands' = commands
    BY <1>1 DEF BeginLine
  <2>2. InputsOK'
    BY <2>1, Zenon DEF Inv, InputsOK
  <2> QED BY <2>1, <2>2 DEF Inv, CountsOK
<1>2. ASSUME NEW l \in Line, EndLine(l) PROVE Inv'
  <2>1. /\ torn /\ torn' = FALSE /\ log' = Append(log, l)
        /\ labels' = labels /\ dirs' = dirs /\ stage' = stage /\ job' = job
        /\ staging' = staging /\ commands' = commands
    BY <1>2 DEF EndLine
  <2>2. log \in Seq(Line) /\ Len(log) < MaxLines /\ MaxLines \in Nat
    BY <2>1, RunAssumption DEF Inv, InputsOK
  <2>3. Append(log, l) \in Seq(Line) /\ Len(Append(log, l)) <= MaxLines
    BY <2>2
  <2>4. InputsOK'
    BY <2>1, <2>3, Zenon DEF Inv, InputsOK
  <2>5. \A x : IsFirstPart(x, log) => IsFirstPart(x, Append(log, l))
    BY <2>2, FirstPartsStay
  <2>6. \A s, j, f : OwnOK(s, j, f, log) => OwnOK(s, j, f, Append(log, l))
    <3>1. ASSUME NEW j, NEW f, ContentOK(j, f, log) PROVE ContentOK(j, f, Append(log, l))
      BY <2>5, <3>1, Zenon DEF ContentOK
    <3> QED BY <3>1, Zenon DEF OwnOK
  <2>7. \A e : DirOK(e, log) => DirOK(e, Append(log, l))
    BY <2>5, Zenon DEF DirOK, IsWholeRun
  <2> QED BY <2>1, <2>4, <2>6, <2>7 DEF Inv, CountsOK
<1> QED BY <1>1, <1>2

LEMMA OccupyStep ==
  ASSUME Inv, NEW d \in Dirs, NEW kind \in {"empty", "file", "link"}, Occupy(d, kind)
  PROVE  Inv'
<1>1. /\ dirs' = [dirs EXCEPT ![d] = [kind |-> kind]]
      /\ log' = log /\ torn' = torn /\ labels' = labels /\ stage' = stage /\ job' = job
      /\ staging' = staging /\ commands' = commands
  BY DEF Occupy, inputVars
<1>2. DirOK([kind |-> kind], log)
  BY DEF DirOK
<1>3. DOMAIN dirs' = Dirs /\ \A e \in Dirs : DirOK(dirs'[e], log)
  BY <1>1, <1>2 DEF Inv
<1>4. InputsOK' /\ CountsOK'
  BY <1>1 DEF Inv, InputsOK, CountsOK
<1> QED BY <1>1, <1>3, <1>4 DEF Inv

LEMMA StepInv ==
  Inv /\ [Next]_vars => Inv'
<1> SUFFICES ASSUME Inv, [Next]_vars PROVE Inv'
  OBVIOUS
<1>1. ASSUME NEW o \in Operators,
             \/ \E kind \in {"run", "export"}, d \in Dirs, corpus \in Corpora :
                  Begin(o, kind, d, corpus)
             \/ Analyze(o) \/ Evaluate(o) \/ WriteRun(o) \/ WriteSummary(o) \/ WriteExport(o)
             \/ Publish(o)
             \/ \E corpus \in Corpora : ReadLog(o, corpus)
             \/ WriteLabels(o) \/ Fail(o)
      PROVE  Inv'
  <2>1. CASE \E kind \in {"run", "export"}, d \in Dirs, corpus \in Corpora :
               Begin(o, kind, d, corpus)
    BY <2>1, BeginStep
  <2>2. CASE Analyze(o) \/ Evaluate(o)
    BY <2>2, AnalyzeStep, EvaluateStep
  <2>3. CASE WriteRun(o) \/ WriteSummary(o) \/ WriteExport(o)
    BY <2>3, WriteRunStep, WriteSummaryStep, WriteExportStep
  <2>4. CASE Publish(o)
    BY <2>4, PublishStep
  <2>5. CASE \E corpus \in Corpora : ReadLog(o, corpus)
    BY <2>5, ReadLogStep
  <2>6. CASE WriteLabels(o) \/ Fail(o)
    BY <2>6, WriteLabelsStep, FailStep
  <2> QED BY <1>1, <2>1, <2>2, <2>3, <2>4, <2>5, <2>6
<1>2. CASE BeginLine \/ \E l \in Line : EndLine(l)
  BY <1>2, LineSteps
<1>3. CASE \E d \in Dirs, kind \in {"empty", "file", "link"} : Occupy(d, kind)
  BY <1>3, OccupyStep
<1>4. CASE UNCHANGED vars
  BY <1>4 DEF vars, Inv, InputsOK, CountsOK
<1> QED BY <1>1, <1>2, <1>3, <1>4 DEF Next

LEMMA InvHolds ==
  Spec => []Inv
BY InitInv, StepInv, PTL DEF Spec

-----------------------------------------------------------------------------
(* Types, and what a command has written when it comes to its next file. *)
THEOREM TypeCorrect ==
  Spec => []TypeOK
<1>1. Inv => TypeOK
  <2> SUFFICES ASSUME Inv PROVE TypeOK
    OBVIOUS
  <2>1. \A d \in Dirs :
          /\ dirs[d].kind \in {"absent", "empty", "file", "link", "run", "export"}
          /\ dirs[d].kind = "run" => RunFilesOK(dirs[d].files)
    BY DEF Inv, DirOK
  <2>2. \A o \in Operators :
          /\ stage[o] = "idle" <=> job[o] = NoJob
          /\ DOMAIN staging[o] = IF stage[o] = "publish" THEN Artifacts(job[o].kind)
                                                         ELSE Written(stage[o])
          /\ RunFilesOK(staging[o])
    BY DEF Inv, OwnOK, JobOK, ContentOK
  <2> QED BY <2>1, <2>2 DEF TypeOK, Inv, InputsOK, CountsOK
<1> QED BY <1>1, InvHolds, PTL

(* Whatever overlaps, fails or is killed, a directory with the name of a run or an
   export is complete, and a run's files are of each other. *)
THEOREM RunsWhole ==
  Spec => []PublishedRunsAreWhole
<1>1. Inv => PublishedRunsAreWhole
  BY DEF Inv, DirOK, PublishedRunsAreWhole
<1> QED BY <1>1, InvHolds, PTL

(* A run that says ready left out no detection and no label. *)
THEOREM ReadyCovered ==
  Spec => []ReadyRunsAreCovered
<1>1. Inv => ReadyRunsAreCovered
  <2> SUFFICES ASSUME Inv, NEW d \in Dirs, dirs[d].kind = "run",
                      dirs[d].files["summary"] = "ready"
               PROVE  IsCovered(dirs[d].files, dirs[d].labels.rows)
    BY DEF ReadyRunsAreCovered
  <2>1. DirOK(dirs[d], log)
    BY DEF Inv
  <2>2. /\ dirs[d].labels \in LabelFile /\ RunFilesOK(dirs[d].files)
        /\ IsWholeRun(dirs[d].files, dirs[d].labels, log)
        /\ DOMAIN dirs[d].files = Artifacts("run")
    BY <2>1 DEF DirOK
  <2>3. dirs[d].files["detections"] \in Seq(Detection)
    BY <2>2 DEF RunFilesOK, Artifacts
  <2> QED BY <2>2, <2>3, ReadyCovers DEF IsWholeRun
<1> QED BY <1>1, InvHolds, PTL

(* What is at the path of an output stays, unless it is an empty directory. *)
THEOREM RunsStay ==
  Spec => PublishedRunsStay
<1>1. Inv /\ [Next]_vars =>
        \A d \in Dirs : dirs[d].kind \notin {"absent", "empty"} => dirs'[d] = dirs[d]
  <2> SUFFICES ASSUME Inv, [Next]_vars, NEW d \in Dirs, dirs[d].kind \notin {"absent", "empty"}
               PROVE  dirs'[d] = dirs[d]
    OBVIOUS
  <2>1. ASSUME NEW o \in Operators, Publish(o) PROVE dirs'[d] = dirs[d]
    BY <2>1 DEF Publish, Replaces, Inv
  <2>2. ASSUME NEW e \in Dirs, NEW kind, Occupy(e, kind) PROVE dirs'[d] = dirs[d]
    BY <2>2 DEF Occupy, Nothing, Inv
  <2>3. CASE dirs' = dirs
    BY <2>3
  <2>4. \A o, kind, e, corpus : Begin(o, kind, e, corpus) => dirs' = dirs
    BY DEF Begin
  <2>5. \A o, corpus : ReadLog(o, corpus) => dirs' = dirs
    BY DEF ReadLog
  <2>6. \A o \in Operators :
          Analyze(o) \/ Evaluate(o) \/ WriteRun(o) \/ WriteSummary(o) \/ WriteExport(o)
            => dirs' = dirs
    BY DEF Analyze, Evaluate, WriteRun, WriteSummary, WriteExport, Stage
  <2>7. \A o \in Operators : WriteLabels(o) \/ Fail(o) => dirs' = dirs
    BY DEF WriteLabels, Fail
  <2>8. BeginLine \/ (\E l \in Line : EndLine(l)) => dirs' = dirs
    BY DEF BeginLine, EndLine
  <2>9. UNCHANGED vars => dirs' = dirs
    BY DEF vars
  <2> QED BY <2>1, <2>2, <2>3, <2>4, <2>5, <2>6, <2>7, <2>8, <2>9 DEF Next
<1> QED BY <1>1, InvHolds, PTL DEF Spec, PublishedRunsStay

-----------------------------------------------------------------------------
(***************************************************************************)
(* ati evaluate-stratified only looks: with it, what is proved above of runs *)
(* and exports still holds, its report agrees with the run it is about, and  *)
(* the strata of the report add up: a sum over strata is the number of rows  *)
(* in them, by induction over the sets of strata.                           *)
(***************************************************************************)

(* A behaviour with stratified reports is one of the commands of LocalRun: all its
   theorems hold of it (_evaluate_stratified changes nothing but its output). *)
THEOREM StratifiedRunsAreRuns ==
  StratifiedSpec => Spec
<1>1. StratifiedInit => Init
  BY DEF StratifiedInit
<1>2. [StratifiedNext]_stratifiedVars => [Next]_vars
  <2> SUFFICES ASSUME [StratifiedNext]_stratifiedVars PROVE [Next]_vars
    OBVIOUS
  <2>1. CASE Next
    BY <2>1
  <2>2. ASSUME NEW d \in Dirs, NEW corpus, NEW m, Stratify(d, corpus, m) PROVE UNCHANGED vars
    BY <2>2 DEF Stratify
  <2>3. CASE UNCHANGED stratifiedVars
    BY <2>3 DEF stratifiedVars
  <2> QED BY <2>1, <2>2, <2>3 DEF StratifiedNext
<1> QED BY <1>1, <1>2, PTL DEF StratifiedSpec, Spec

(* The report is about detections of a run that is still there. *)
ReportInv ==
  report # NoReport =>
    /\ report.dir \in Dirs
    /\ dirs[report.dir].kind = "run"
    /\ report.detections = dirs[report.dir].files["detections"]
    /\ report.result.overall = Evaluation(report.detections, report.labels.rows)

(* The overall counts of a report. *)
LEMMA OverallIsEvaluation ==
  ASSUME NEW detections, NEW rows, NEW m
  PROVE  Stratified(detections, rows, m).overall = Evaluation(detections, rows)
BY Zenon DEF Stratified

LEMMA ReportStep ==
  ASSUME ReportInv, [StratifiedNext]_stratifiedVars,
         \A d \in Dirs : dirs[d].kind \notin {"absent", "empty"} => dirs'[d] = dirs[d]
  PROVE  ReportInv'
<1>1. CASE UNCHANGED report
  BY <1>1 DEF ReportInv, NoReport
<1>2. ASSUME NEW d \in Dirs, NEW corpus, NEW m, Stratify(d, corpus, m) PROVE ReportInv'
  <2>1. /\ report'.dir = d
        /\ report'.detections = dirs[d].files["detections"]
        /\ report'.result = Stratified(dirs[d].files["detections"], labels.rows, m)
        /\ report'.labels = labels
    BY <1>2 DEF Stratify
  <2>2. dirs' = dirs /\ dirs[d].kind = "run"
    BY <1>2 DEF Stratify, vars
  <2>3. report'.result.overall = Evaluation(dirs[d].files["detections"], labels.rows)
    BY <2>1, OverallIsEvaluation
  <2> QED BY <2>1, <2>2, <2>3 DEF ReportInv
<1> QED BY <1>1, <1>2 DEF StratifiedNext, stratifiedVars

(* What a stratified report says of all requests is what the run said, as long as the
   labels are those of the run: for any log, labels, metadata and commands beside. *)
THEOREM ReportsAgree ==
  StratifiedSpec => []AgreesWithRun
<1>1. StratifiedInit => ReportInv
  BY DEF StratifiedInit, ReportInv
<1>2. ReportInv /\ Inv /\ [StratifiedNext]_stratifiedVars
        /\ [\A d \in Dirs : dirs[d].kind \notin {"absent", "empty"} => dirs'[d] = dirs[d]]_vars
      => ReportInv'
  <2> SUFFICES ASSUME ReportInv, [StratifiedNext]_stratifiedVars,
         [\A d \in Dirs : dirs[d].kind \notin {"absent", "empty"} => dirs'[d] = dirs[d]]_vars
      PROVE ReportInv'
    OBVIOUS
  <2>1. \A d \in Dirs : dirs[d].kind \notin {"absent", "empty"} => dirs'[d] = dirs[d]
    BY DEF vars
  <2> QED BY <2>1, ReportStep
<1>3. ReportInv /\ PublishedRunsAreWhole => AgreesWithRun
  BY DEF ReportInv, PublishedRunsAreWhole, IsWholeRun, AgreesWithRun
<1>4. Spec => [][\A d \in Dirs : dirs[d].kind \notin {"absent", "empty"}
                                   => dirs'[d] = dirs[d]]_vars
  BY RunsStay DEF PublishedRunsStay
<1> QED BY <1>1, <1>2, <1>3, <1>4, StratifiedRunsAreRuns, RunsWhole, InvHolds, PTL
        DEF StratifiedSpec

-----------------------------------------------------------------------------
(* Sums over strata.  A sum is what the fold computes step by step; that it is the
   number of the rows in the strata is shown for the smallest set of strata first. *)
LEMMA Smallest ==
  ASSUME NEW T \in SUBSET Nat, T # {}
  PROVE  \E n \in T : \A k \in T : n <= k
<1>1. PICK n \in T : \A k \in T : ~(<<k, n>> \in OpToRel(<, Nat))
  BY NatLessThanWellFounded, WFMin
<1>2. \A k \in T : ~(k < n)
  BY <1>1 DEF OpToRel
<1> QED BY <1>2

(* f adds up the counts of each of the sets of strata, one after the other. *)
AddsUp(f, strata, count) ==
  f = [s \in SUBSET DOMAIN strata |->
         IF s = {} THEN 0
         ELSE strata[CHOOSE v \in s : TRUE][count] + f[s \ {CHOOSE v \in s : TRUE}]]

(* The rows of J that are in the strata s. *)
RowsIn(J, key, s) == {i \in J : key[i] \in s}

LEMMA RowsAddUp ==
  ASSUME NEW strata, NEW count, NEW J, IsFiniteSet(J), NEW key,
         \A v \in DOMAIN strata : strata[v][count] = Cardinality({i \in J : key[i] = v})
  PROVE  AddsUp([s \in SUBSET DOMAIN strata |-> Cardinality(RowsIn(J, key, s))], strata, count)
<1> DEFINE f == [s \in SUBSET DOMAIN strata |-> Cardinality(RowsIn(J, key, s))]
<1> SUFFICES ASSUME NEW s \in SUBSET DOMAIN strata
             PROVE  f[s] = IF s = {} THEN 0
                           ELSE strata[CHOOSE v \in s : TRUE][count]
                                  + f[s \ {CHOOSE v \in s : TRUE}]
  BY DEF AddsUp
<1>1. CASE s = {}
  <2>1. RowsIn(J, key, s) = {}
    BY <1>1 DEF RowsIn
  <2> QED BY <1>1, <2>1, FS_EmptySet
<1>2. CASE s # {}
  <2> DEFINE v == CHOOSE v \in s : TRUE
             A == {i \in J : key[i] = v}
             B == RowsIn(J, key, s \ {v})
  <2>1. v \in s
    BY <1>2
  <2> HIDE DEF v
  <2>2. RowsIn(J, key, s) = A \cup B /\ A \cap B = {}
    BY <2>1 DEF RowsIn
  <2>3. IsFiniteSet(A) /\ IsFiniteSet(B)
    <3>1. A \subseteq J /\ B \subseteq J
      BY DEF RowsIn
    <3> QED BY <3>1, FS_Subset
  <2>4. Cardinality(RowsIn(J, key, s)) = Cardinality(A) + Cardinality(B)
    BY <2>2, <2>3, DisjointUnion
  <2>5. strata[v][count] = Cardinality(A)
    BY <2>1
  <2>6. f[s \ {v}] = Cardinality(B)
    OBVIOUS
  <2> QED BY <1>2, <2>4, <2>5, <2>6 DEF v
<1> QED BY <1>1, <1>2

(* There is one way to add up. *)
LEMMA AddsUpOneWay ==
  ASSUME NEW strata, IsFiniteSet(DOMAIN strata), NEW count,
         NEW f, AddsUp(f, strata, count), NEW g, AddsUp(g, strata, count)
  PROVE  f[DOMAIN strata] = g[DOMAIN strata]
<1> DEFINE D == DOMAIN strata
           N == {Cardinality(s) : s \in {s \in SUBSET D : f[s] # g[s]}}
<1>1. SUFFICES ASSUME f[D] # g[D] PROVE FALSE
  OBVIOUS
<1>2. \A s \in SUBSET D : IsFiniteSet(s) /\ Cardinality(s) \in Nat
  BY FS_Subset, FS_CardinalityType
<1>3. N \in SUBSET Nat /\ N # {}
  BY <1>1, <1>2
<1>4. PICK n \in N : \A k \in N : n <= k
  BY <1>3, Smallest
<1>5. PICK s \in SUBSET D : f[s] # g[s] /\ n = Cardinality(s)
  BY <1>4
<1> DEFINE v == CHOOSE v \in s : TRUE
<1>6. /\ f[s] = IF s = {} THEN 0 ELSE strata[v][count] + f[s \ {v}]
      /\ g[s] = IF s = {} THEN 0 ELSE strata[v][count] + g[s \ {v}]
  BY DEF AddsUp
<1>7. s # {} /\ v \in s /\ f[s \ {v}] # g[s \ {v}]
  BY <1>5, <1>6
<1> HIDE DEF v
<1>8. Cardinality(s \ {v}) = n - 1 /\ s \ {v} \in SUBSET D
  BY <1>2, <1>5, <1>7, FS_RemoveElement
<1>9. Cardinality(s \ {v}) \in N
  BY <1>7, <1>8
<1> HIDE DEF N
<1> QED BY <1>2, <1>3, <1>4, <1>8, <1>9

(* Total is one of those that add up. *)
LEMMA TotalIsNumberOfRows ==
  ASSUME NEW strata, IsFiniteSet(DOMAIN strata), NEW count, NEW J, IsFiniteSet(J), NEW key,
         \A i \in J : key[i] \in DOMAIN strata,
         \A v \in DOMAIN strata : strata[v][count] = Cardinality({i \in J : key[i] = v})
  PROVE  Total(strata, count) = Cardinality(J)
<1> DEFINE g == [s \in SUBSET DOMAIN strata |-> Cardinality(RowsIn(J, key, s))]
           sum == CHOOSE f : AddsUp(f, strata, count)
<1>1. AddsUp(g, strata, count)
  BY RowsAddUp, ZenonT(30)
<1> HIDE DEF g
<1>2. AddsUp(sum, strata, count)
  BY <1>1
<1>3. Total(strata, count) = sum[DOMAIN strata]
  BY DEF Total, MapThenSumSet, MapThenFoldSet, AddsUp
<1> HIDE DEF sum
<1>4. Total(strata, count) = g[DOMAIN strata]
  BY <1>1, <1>2, <1>3, AddsUpOneWay
<1>5. RowsIn(J, key, DOMAIN strata) = J
  BY DEF RowsIn
<1> QED BY <1>4, <1>5 DEF g

-----------------------------------------------------------------------------
(* A row is predicted p and labelled a, and the field of a report that counts those. *)
Marked(detections, rows, i, p, a) ==
  detections[i].predicted = p /\ IsAutomated(rows, detections[i].id) = a

CountOf(p, a) ==
  IF p THEN IF a THEN "truePositive" ELSE "falsePositive"
       ELSE IF a THEN "falseNegative" ELSE "trueNegative"

(* What is counted in one stratum, of the rows W, by its own labels. *)
LEMMA StratumCounts ==
  ASSUME NEW detections, NEW rows, NEW W \in SUBSET Labelled(detections, rows), NEW e,
         e = Evaluation(RowsOf(detections, W), LabelsOf(rows, detections, W))
  PROVE  /\ e.evaluated = Cardinality(W) /\ e.unlabeled = 0 /\ e.unmatched = 0
         /\ \A p, a \in BOOLEAN :
              e[CountOf(p, a)] = Cardinality({i \in W : Marked(detections, rows, i, p, a)})
<1> DEFINE own == RowsOf(detections, W)
           mine == LabelsOf(rows, detections, W)
<1>1. DOMAIN own = W /\ \A i \in W : own[i] = detections[i]
  BY DEF RowsOf
<1>2. /\ DOMAIN mine = {j \in DOMAIN rows : \E i \in W : detections[i].id = rows[j].id}
      /\ \A j \in DOMAIN mine : mine[j] = rows[j]
  BY DEF LabelsOf
<1> HIDE DEF own, mine
<1>3. \A i \in W : \E j \in DOMAIN rows : rows[j].id = detections[i].id
  BY DEF Labelled, RowIds
<1>4. RowIds(mine) = {detections[i].id : i \in W} /\ RowIds(own) = {detections[i].id : i \in W}
  BY <1>1, <1>2, <1>3 DEF RowIds
<1>5. \A i \in W : IsAutomated(mine, own[i].id) <=> IsAutomated(rows, detections[i].id)
  BY <1>1, <1>2 DEF IsAutomated
<1>6. {i \in DOMAIN own : own[i].id \in RowIds(mine)} = W
      /\ {i \in DOMAIN own : own[i].id \notin RowIds(mine)} = {}
      /\ RowIds(mine) \ RowIds(own) = {}
  BY <1>1, <1>4
<1>7. ASSUME NEW p \in BOOLEAN, NEW a \in BOOLEAN
      PROVE  Counted(own, mine, p, a) =
               Cardinality({i \in W : Marked(detections, rows, i, p, a)})
  <2>1. {i \in DOMAIN own : /\ own[i].id \in RowIds(mine)
                            /\ own[i].predicted = p /\ IsAutomated(mine, own[i].id) = a}
          = {i \in W : Marked(detections, rows, i, p, a)}
    <3>1. ASSUME NEW i \in W
          PROVE  (/\ own[i].id \in RowIds(mine)
                  /\ own[i].predicted = p /\ IsAutomated(mine, own[i].id) = a)
                    <=> Marked(detections, rows, i, p, a)
      <4>1. own[i].id \in RowIds(mine) /\ own[i] = detections[i]
        BY <1>1, <1>4
      <4>2. (IsAutomated(mine, own[i].id) = a) <=> (IsAutomated(rows, detections[i].id) = a)
        <5>1. IsAutomated(mine, own[i].id) \in BOOLEAN
              /\ IsAutomated(rows, detections[i].id) \in BOOLEAN
          BY Zenon DEF IsAutomated
        <5> QED BY <1>5, <5>1
      <4> QED BY <4>1, <4>2 DEF Marked
    <3> QED BY <1>1, <3>1
  <2> QED BY <2>1 DEF Counted
<1>8. /\ e.evaluated = Cardinality(W) /\ e.unlabeled = Cardinality({})
      /\ e.unmatched = Cardinality({})
  BY <1>6 DEF Evaluation, own, mine
<1>9. /\ e.truePositive = Counted(own, mine, TRUE, TRUE)
      /\ e.falsePositive = Counted(own, mine, TRUE, FALSE)
      /\ e.trueNegative = Counted(own, mine, FALSE, FALSE)
      /\ e.falseNegative = Counted(own, mine, FALSE, TRUE)
  BY DEF Evaluation, own, mine
<1>10. ASSUME NEW p \in BOOLEAN, NEW a \in BOOLEAN
       PROVE  e[CountOf(p, a)] = Cardinality({i \in W : Marked(detections, rows, i, p, a)})
  <2>1. CASE p = TRUE /\ a = TRUE
    BY <1>7, <1>9, <2>1 DEF CountOf
  <2>2. CASE p = TRUE /\ a = FALSE
    BY <1>7, <1>9, <2>2 DEF CountOf
  <2>3. CASE p = FALSE /\ a = FALSE
    BY <1>7, <1>9, <2>3 DEF CountOf
  <2>4. CASE p = FALSE /\ a = TRUE
    BY <1>7, <1>9, <2>4 DEF CountOf
  <2> QED BY <2>1, <2>2, <2>3, <2>4
<1> QED BY <1>8, <1>10, FS_EmptySet

(* A finite set has no more images than elements. *)
LEMMA ImageIsNoLarger ==
  ASSUME NEW I, IsFiniteSet(I), NEW key
  PROVE  LET image == {key[i] : i \in I}
         IN IsFiniteSet(image) /\ Cardinality(image) <= Cardinality(I)
              /\ (Cardinality(image) = 0 <=> I = {})
<1> DEFINE image == {key[i] : i \in I}
           f == [i \in I |-> key[i]]
<1>1. f \in Surjection(I, image)
  BY DEF Surjection
<1>2. IsFiniteSet(image) /\ Cardinality(image) <= Cardinality(I)
  BY <1>1, FS_Surjection
<1>3. image = {} <=> I = {}
  OBVIOUS
<1> HIDE DEF image
<1>4. Cardinality(image) = 0 <=> image = {}
  BY <1>2, FS_EmptySet
<1> QED BY <1>2, <1>3, <1>4 DEF image

(* The strata of one holdout: a count over them is that of the rows it is of. *)
LEMMA StrataOfField ==
  ASSUME NEW detections, IsFiniteSet(DOMAIN detections), NEW rows, NEW m, NEW field \in Fields
  PROVE  LET I == Selected(detections, rows, m)
             strata == Strata(detections, rows, m, field)
         IN /\ Total(strata, "evaluated") = Cardinality(I)
            /\ \A p, a \in BOOLEAN :
                 Total(strata, CountOf(p, a)) =
                   Cardinality({i \in I : Marked(detections, rows, i, p, a)})
            /\ \A v \in DOMAIN strata : strata[v].unlabeled = 0 /\ strata[v].unmatched = 0
            /\ DOMAIN strata = {} <=> I = {}
<1> DEFINE I == Selected(detections, rows, m)
           strata == Strata(detections, rows, m, field)
           key == [i \in I |-> m[detections[i].id][field]]
           Within(v) == {i \in I : key[i] = v}
<1>1. I \subseteq Labelled(detections, rows) /\ I \subseteq DOMAIN detections
  BY DEF Selected, Described, Labelled
<1>2. IsFiniteSet(I)
  BY <1>1, FS_Subset
<1>3. /\ DOMAIN strata = {key[i] : i \in I}
      /\ \A v \in DOMAIN strata : strata[v] =
           Evaluation(RowsOf(detections, Within(v)), LabelsOf(rows, detections, Within(v)))
  <2>1. \A v : Within(v) = {i \in I : m[detections[i].id][field] = v}
    OBVIOUS
  <2>2. {key[i] : i \in I} = {m[detections[i].id][field] : i \in I}
    OBVIOUS
  <2> HIDE DEF Within, key
  <2> QED BY <2>1, <2>2 DEF Strata
<1>4. IsFiniteSet(DOMAIN strata) /\ (DOMAIN strata = {} <=> I = {})
  <2> HIDE DEF I, strata, key
  <2>1. IsFiniteSet({key[i] : i \in I})
    BY <1>2, ImageIsNoLarger
  <2> QED BY <1>3, <2>1
<1>5. \A i \in I : key[i] \in DOMAIN strata
  BY <1>3
<1>6. ASSUME NEW v \in DOMAIN strata
      PROVE  /\ strata[v].evaluated = Cardinality(Within(v))
             /\ strata[v].unlabeled = 0 /\ strata[v].unmatched = 0
             /\ \A p, a \in BOOLEAN : strata[v][CountOf(p, a)] =
                  Cardinality({i \in Within(v) : Marked(detections, rows, i, p, a)})
  <2>1. strata[v] = Evaluation(RowsOf(detections, Within(v)),
                               LabelsOf(rows, detections, Within(v)))
    BY <1>3
  <2>2. Within(v) \in SUBSET Labelled(detections, rows)
    BY <1>1
  <2> HIDE DEF strata, Within
  <2>3. /\ strata[v].evaluated = Cardinality(Within(v))
        /\ strata[v].unlabeled = 0 /\ strata[v].unmatched = 0
    BY <2>1, <2>2, StratumCounts
  <2>4. ASSUME NEW p \in BOOLEAN, NEW a \in BOOLEAN
        PROVE  strata[v][CountOf(p, a)] =
                 Cardinality({i \in Within(v) : Marked(detections, rows, i, p, a)})
    <3> DEFINE W == Within(v)
               e == strata[v]
    <3>1. e = Evaluation(RowsOf(detections, W), LabelsOf(rows, detections, W))
          /\ W \in SUBSET Labelled(detections, rows)
      BY <2>1, <2>2
    <3> HIDE DEF W, e
    <3>2. e[CountOf(p, a)] = Cardinality({i \in W : Marked(detections, rows, i, p, a)})
      BY <3>1, StratumCounts
    <3> QED BY <3>2 DEF W, e
  <2> QED BY <2>3, <2>4
<1> HIDE DEF I, strata, key
<1>7. Total(strata, "evaluated") = Cardinality(I)
  <2>1. \A v \in DOMAIN strata : strata[v]["evaluated"] = Cardinality({i \in I : key[i] = v})
    BY <1>6
  <2> QED BY <1>2, <1>4, <1>5, <2>1, TotalIsNumberOfRows
<1>8. ASSUME NEW p \in BOOLEAN, NEW a \in BOOLEAN
      PROVE  Total(strata, CountOf(p, a)) =
               Cardinality({i \in I : Marked(detections, rows, i, p, a)})
  <2> DEFINE J == {i \in I : Marked(detections, rows, i, p, a)}
  <2>1. IsFiniteSet(J)
    BY <1>2, FS_Subset
  <2>2. \A v \in DOMAIN strata :
          strata[v][CountOf(p, a)] = Cardinality({i \in J : key[i] = v})
    <3> SUFFICES ASSUME NEW v \in DOMAIN strata
                 PROVE  strata[v][CountOf(p, a)] = Cardinality({i \in J : key[i] = v})
      OBVIOUS
    <3>1. {i \in J : key[i] = v} = {i \in Within(v) : Marked(detections, rows, i, p, a)}
      OBVIOUS
    <3>2. strata[v][CountOf(p, a)] =
            Cardinality({i \in Within(v) : Marked(detections, rows, i, p, a)})
      BY <1>6, Zenon
    <3> QED BY <3>1, <3>2
  <2>3. \A i \in J : key[i] \in DOMAIN strata
    BY <1>5
  <2> HIDE DEF J
  <2>4. Total(strata, CountOf(p, a)) = Cardinality(J)
    BY <1>4, <2>1, <2>2, <2>3, TotalIsNumberOfRows
  <2> QED BY <2>4 DEF J
<1>9. \A v \in DOMAIN strata : strata[v].unlabeled = 0 /\ strata[v].unmatched = 0
  BY <1>6
<1> QED BY <1>4, <1>7, <1>8, <1>9 DEF I, strata

(* evaluate_stratified_automation_scores: for any detections, labels and metadata the
   requests that are left out and those of the strata of each holdout are the labelled
   ones, and the counts of the three holdouts are those of the same requests. *)
THEOREM HoldoutsCutTheSameRequests ==
  ASSUME NEW detections, IsFiniteSet(DOMAIN detections), NEW rows, NEW m
  PROVE  HoldoutsAddUp(Stratified(detections, rows, m))
<1> DEFINE r == Stratified(detections, rows, m)
           L == Labelled(detections, rows)
           K == Described(detections, rows, m)
           I == Selected(detections, rows, m)
           N == {i \in K : m[detections[i].id].session = NoSession}
           key == [i \in I |-> m[detections[i].id].session]
<1>1. IsFiniteSet(L) /\ IsFiniteSet(L \ K) /\ IsFiniteSet(N) /\ IsFiniteSet(I)
  <2>1. /\ L \subseteq DOMAIN detections /\ L \ K \subseteq DOMAIN detections
        /\ N \subseteq DOMAIN detections /\ I \subseteq DOMAIN detections
    BY DEF Labelled, Described, Selected
  <2> QED BY <2>1, FS_Subset
<1>2. /\ Cardinality(L \ K) \in Nat /\ Cardinality(N) \in Nat /\ Cardinality(I) \in Nat
  BY <1>1, FS_CardinalityType
<1>3. Cardinality(L) = Cardinality(L \ K) + Cardinality(N) + Cardinality(I)
  <2>1. L = ((L \ K) \cup N) \cup I
    BY DEF Labelled, Described, Selected
  <2>2. (L \ K) \cap N = {} /\ ((L \ K) \cup N) \cap I = {}
    BY DEF Labelled, Described, Selected
  <2> HIDE DEF L, K, N, I
  <2>3. /\ IsFiniteSet((L \ K) \cup N)
        /\ Cardinality((L \ K) \cup N) = Cardinality(L \ K) + Cardinality(N)
    BY <1>1, <2>2, DisjointUnion
  <2> QED BY <1>1, <2>1, <2>2, <2>3, DisjointUnion
<1>4. /\ r.overall.evaluated = Cardinality(L) /\ r.missing = Cardinality(L \ K)
      /\ r.sessionless = Cardinality(N)
  BY DEF Stratified, Evaluation, Labelled
<1>5. /\ r.sessions = Cardinality({key[i] : i \in I})
      /\ \A field \in Fields : r.strata[field] = Strata(detections, rows, m, field)
  <2>1. {key[i] : i \in I} = {m[detections[i].id].session : i \in I}
    OBVIOUS
  <2> HIDE DEF key
  <2> QED BY <2>1 DEF Stratified
<1> HIDE DEF r, L, K, N, I
<1>6. r.sessions <= Cardinality(I) /\ (r.sessions = 0 <=> I = {})
  <2> HIDE DEF key
  <2> QED BY <1>1, <1>5, ImageIsNoLarger
<1> SUFFICES ASSUME NEW field \in Fields
    PROVE  LET strata == r.strata[field]
           IN /\ r.overall.evaluated = r.missing + r.sessionless + Total(strata, "evaluated")
              /\ \A other \in Fields, count \in Judged :
                   Total(strata, count) = Total(r.strata[other], count)
              /\ \A v \in DOMAIN strata : strata[v].unlabeled = 0 /\ strata[v].unmatched = 0
              /\ r.sessions <= Total(strata, "evaluated")
              /\ r.sessions = 0 <=> DOMAIN strata = {}
  BY DEF HoldoutsAddUp, r
<1> DEFINE strata == Strata(detections, rows, m, field)
<1>7. /\ Total(strata, "evaluated") = Cardinality(I)
      /\ \A v \in DOMAIN strata : strata[v].unlabeled = 0 /\ strata[v].unmatched = 0
      /\ DOMAIN strata = {} <=> I = {}
  BY StrataOfField DEF I
<1>8. ASSUME NEW other \in Fields, NEW count \in Judged
      PROVE  Total(strata, count) = Total(Strata(detections, rows, m, other), count)
  <2>1. PICK p \in BOOLEAN, a \in BOOLEAN : count = CountOf(p, a)
    <3>1. /\ CountOf(TRUE, TRUE) = "truePositive" /\ CountOf(TRUE, FALSE) = "falsePositive"
          /\ CountOf(FALSE, FALSE) = "trueNegative" /\ CountOf(FALSE, TRUE) = "falseNegative"
      BY DEF CountOf
    <3> QED BY <3>1, Zenon DEF Judged
  <2> DEFINE c == Cardinality({i \in I : Marked(detections, rows, i, p, a)})
  <2>2. Total(strata, CountOf(p, a)) = c
    BY StrataOfField DEF I
  <2>3. Total(Strata(detections, rows, m, other), CountOf(p, a)) = c
    BY StrataOfField DEF I
  <2> QED BY <2>1, <2>2, <2>3
<1>9. r.strata[field] = strata
  BY <1>5
<1> HIDE DEF strata
<1>10. \A other \in Fields, count \in Judged :
         Total(strata, count) = Total(r.strata[other], count)
  BY <1>5, <1>8
<1> QED BY <1>2, <1>3, <1>4, <1>6, <1>7, <1>9, <1>10

(* A report is what the stratification of some metadata gives. *)
ReportIsStratified ==
  report # NoReport =>
    /\ IsFiniteSet(DOMAIN report.detections)
    /\ \E m \in MetadataFiles :
         report.result = Stratified(report.detections, report.labels.rows, m)

LEMMA RunDetectionsFinite ==
  ASSUME Inv, NEW d \in Dirs, dirs[d].kind = "run"
  PROVE  IsFiniteSet(DOMAIN dirs[d].files["detections"])
<1> DEFINE detections == dirs[d].files["detections"]
<1>1. detections \in Seq(Detection)
  BY DEF Inv, DirOK, RunFilesOK, Artifacts
<1>2. DOMAIN detections = 1..Len(detections) /\ Len(detections) \in Nat
  BY <1>1
<1> QED BY <1>2, FS_Interval

(***************************************************************************)
(* For any log, labels, metadata and commands beside: the strata of a report *)
(* add up, and a report does not contradict the run it is about.            *)
(***************************************************************************)
THEOREM StrataSum ==
  StratifiedSpec => []StrataAddUp
<1>1. StratifiedInit => ReportIsStratified
  BY DEF StratifiedInit, ReportIsStratified
<1>2. ReportIsStratified /\ Inv /\ [StratifiedNext]_stratifiedVars => ReportIsStratified'
  <2> SUFFICES ASSUME ReportIsStratified, Inv, [StratifiedNext]_stratifiedVars
               PROVE  ReportIsStratified'
    OBVIOUS
  <2>1. CASE UNCHANGED report
    BY <2>1 DEF ReportIsStratified, NoReport
  <2>2. ASSUME NEW d \in Dirs, NEW corpus, NEW m \in MetadataFiles, Stratify(d, corpus, m)
        PROVE  ReportIsStratified'
    <3>1. /\ report'.detections = dirs[d].files["detections"]
          /\ report'.result = Stratified(dirs[d].files["detections"], labels.rows, m)
          /\ report'.labels = labels
          /\ dirs[d].kind = "run"
      BY <2>2 DEF Stratify
    <3>2. IsFiniteSet(DOMAIN report'.detections)
      BY <3>1, RunDetectionsFinite
    <3> QED BY <3>1, <3>2 DEF ReportIsStratified
  <2> QED BY <2>1, <2>2 DEF StratifiedNext, stratifiedVars
<1>3. ReportIsStratified /\ AgreesWithRun => StrataAddUp
  BY HoldoutsCutTheSameRequests DEF ReportIsStratified, StrataAddUp
<1> QED BY <1>1, <1>2, <1>3, StratifiedRunsAreRuns, ReportsAgree, InvHolds, PTL
        DEF StratifiedSpec
=============================================================================
