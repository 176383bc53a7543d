----------------------------- MODULE StratifiedRun -----------------------------
(***************************************************************************)
(* ati evaluate-stratified, beside the commands of LocalRun: the detections *)
(* of a published run are judged again by the file of labels as it is now, *)
(* in groups (strata) by what a file of metadata says of each request      *)
(* (cli.py, evaluation/metrics.py).  It reads each file once, a published  *)
(* run never changes and labels are replaced whole, so it is one step.      *)
(* Its threshold is that of the run.                                        *)
(***************************************************************************)
EXTENDS LocalRun, FiniteSetsExt

CONSTANTS
  Descriptions,   \* what metadata says of a request
  Malformed,      \* a row with an unusable value
  NoSession,      \* session_id null
  MetadataFiles   \* files of metadata that can be loaded

(* The holdouts of a report, by the field whose values are the strata. *)
Fields == {"day", "family", "client"}

ASSUME MetadataAssumption ==
  /\ Malformed \notin Descriptions
  /\ \A x \in Descriptions : DOMAIN x = Fields \cup {"session"}
  /\ \A m \in MetadataFiles :
       DOMAIN m \subseteq Ids /\ \A id \in DOMAIN m : m[id] \in Descriptions \cup {Malformed}

VARIABLE report   \* the last report, with what it was made of

stratifiedVars == <<vars, report>>
NoReport == [dir |-> "none"]

StratifiedInit == Init /\ report = NoReport

-----------------------------------------------------------------------------
(* The detections of the rows I, and the labels they were selected with. *)
RowsOf(detections, I) == [i \in I |-> detections[i]]
LabelsOf(rows, detections, I) ==
  [j \in {j \in DOMAIN rows : \E i \in I : detections[i].id = rows[j].id} |-> rows[j]]

(* The rows that go into the strata; the rest are left out one by one, and counted. *)
Labelled(detections, rows) == {i \in DOMAIN detections : detections[i].id \in RowIds(rows)}
Described(detections, rows, m) ==
  {i \in Labelled(detections, rows) : detections[i].id \in DOMAIN m}

Selected_Sessionless(detections, rows, m) == Described(detections, rows, m)
Selected(detections, rows, m) ==
  {i \in Described(detections, rows, m) : m[detections[i].id].session # NoSession}

(* summarize: every stratum is evaluated with its own labels. *)
Strata(detections, rows, m, field) ==
  LET I == Selected(detections, rows, m)
      Within(v) == {i \in I : m[detections[i].id][field] = v}
  IN [v \in {m[detections[i].id][field] : i \in I} |->
        Evaluation(RowsOf(detections, Within(v)), LabelsOf(rows, detections, Within(v)))]

(* evaluate_stratified_automation_scores *)
Stratified(detections, rows, m) ==
  [overall |-> Evaluation(detections, rows),
   missing |-> Cardinality(Labelled(detections, rows) \ Described(detections, rows, m)),
   sessionless |->
     Cardinality({i \in Described(detections, rows, m) :
                    m[detections[i].id].session = NoSession}),
   sessions |->
     Cardinality({m[detections[i].id].session : i \in Selected(detections, rows, m)}),
   strata |-> [field \in Fields |-> Strata(detections, rows, m, field)]]

(* What it raises an error for: what ati run does, and a row of metadata it needs. *)
CanStratify(detections, file, corpus, m) ==
  /\ CanEvaluate(detections, file, corpus)
  /\ \A i \in Described(detections, file.rows, m) : m[detections[i].id] # Malformed

(* One report is enough to look at: the bound on reports. *)
Stratify(d, corpus, m) ==
  /\ report = NoReport
  /\ dirs[d].kind = "run"
  /\ LET detections == dirs[d].files["detections"]
     IN /\ CanStratify(detections, labels, corpus, m)
        /\ report' = [dir |-> d, labels |-> labels, detections |-> detections,
                      result |-> Stratified(detections, labels.rows, m)]
  /\ UNCHANGED vars

StratifiedNext ==
  \/ Next /\ UNCHANGED report
  \/ \E d \in Dirs, corpus \in Corpora, m \in MetadataFiles : Stratify(d, corpus, m)

StratifiedSpec == StratifiedInit /\ [][StratifiedNext]_stratifiedVars

-----------------------------------------------------------------------------
(* The sum of a count over the strata of a holdout. *)
Total(strata, count) ==
  MapThenSumSet(LAMBDA v : strata[v][count], DOMAIN strata)

Judged == {"truePositive", "falsePositive", "trueNegative", "falseNegative"}

(* The report agrees with the run it is about if the labels are still those the   *)
(* run was evaluated with.                                                 *)
AgreesWithRun ==
  report # NoReport =>
    /\ dirs[report.dir].kind = "run"
    /\ report.labels = dirs[report.dir].labels =>
         report.result.overall = dirs[report.dir].files["evaluation"]

(* The counts of a report fit together. *)
HoldoutsAddUp(r) ==
  \A field \in Fields :
    LET strata == r.strata[field]
    IN /\ r.overall.evaluated = r.missing + r.sessionless + Total(strata, "evaluated")
       /\ \A other \in Fields, count \in Judged :
            Total(strata, count) = Total(r.strata[other], count)
       /\ \A v \in DOMAIN strata : strata[v].unlabeled = 0 /\ strata[v].unmatched = 0
       /\ r.sessions <= Total(strata, "evaluated")
       /\ r.sessions = 0 <=> DOMAIN strata = {}

(***************************************************************************)
(* The three holdouts of a report cut the same requests: none is counted    *)
(* twice or lost between the overall counts, those left out for want of     *)
(* metadata or of a session, and the strata, whatever the log, the labels   *)
(* and the metadata have in common; and a report does not contradict the    *)
(* run it is about (evaluate_stratified_automation_scores).                *)
(***************************************************************************)
StrataAddUp ==
  /\ AgreesWithRun
  /\ report # NoReport => HoldoutsAddUp(report.result)
=============================================================================
