------------------------------- MODULE LocalRun -------------------------------
(***************************************************************************)
(* Local runs: ati run analyses a log, evaluates the detections against a   *)
(* file of labels, and puts the results in a new directory; ati            *)
(* pf2-export-bigquery makes a directory in the same way; ati campaign      *)
(* labels writes a file of labels for a log (cli.py, evaluation/metrics.py).*)
(* Each is a process of its own, while a server may append to the log and   *)
(* anybody may make something at the path of a directory.                  *)
(*                                                                         *)
(* A file in a staging directory is one step; what an export says is left   *)
(* out, and so are the metrics that are fractions of the counts, and what   *)
(* is left of the staging directory of a command that fails.                *)
(***************************************************************************)
EXTENDS Naturals, Sequences, FiniteSets

CONSTANTS
  Operators, Dirs,
  Ids,           \* the request_ids of log records
  Corpora,       \* corpus_ids
  LabelFiles,    \* files of labels that people write
  MaxLines,      \* bound on the log
  MaxCommands    \* bound on the commands begun

(* A record of the log: whether it carries the campaign marker, and whether its
   automation_score will be at least the threshold. *)
Line == [id : Ids, marked : BOOLEAN, predicted : BOOLEAN]
Label == [id : Ids, automated : BOOLEAN]
(* Its rows are numbered by the lines they are on, or are made of. *)
LabelFile == [corpus : Corpora, rows : UNION {[S -> Label] : S \in SUBSET (1..MaxLines)}]

ASSUME RunAssumption ==
  /\ MaxLines \in Nat /\ MaxCommands \in Nat
  /\ LabelFiles \subseteq LabelFile

VARIABLES
  log,       \* its whole lines
  torn,      \* the server is in the middle of a line
  labels,    \* the file of labels
  dirs,      \* what is at the path of each output directory
  stage,     \* what each operator's command does next
  job,       \* its arguments and what it has read
  staging,   \* the files it has in its staging directory
  commands   \* the number of commands so far

inputVars == <<log, torn, labels>>
vars == <<log, torn, labels, dirs, stage, job, staging, commands>>

Nothing == [kind |-> "absent"]
NoFiles == << >>
NoLabels(corpus) == [corpus |-> corpus, rows |-> << >>]
NoJob == [kind |-> "none"]

Init ==
  /\ log = <<>> /\ torn = FALSE /\ labels \in LabelFiles
  /\ dirs = [d \in Dirs |-> Nothing]
  /\ stage = [o \in Operators |-> "idle"]
  /\ job = [o \in Operators |-> NoJob]
  /\ staging = [o \in Operators |-> NoFiles]
  /\ commands = 0

-----------------------------------------------------------------------------
(* The operators with a suffix _Something are slips the code could have    *)
(* made; nothing uses them, and each breaks a property below if it is put   *)
(* in the place of the operator it is named after.                         *)

RowIds(rows) == {rows[i].id : i \in DOMAIN rows}
NoDuplicates(rows) == \A i, j \in DOMAIN rows : rows[i].id = rows[j].id => i = j

(* evaluate_automation_scores *)
IsAutomated(rows, id) == \E i \in DOMAIN rows : rows[i].id = id /\ rows[i].automated
Counted(detections, rows, predicted, automated) ==
  Cardinality({i \in DOMAIN detections :
    /\ detections[i].id \in RowIds(rows)
    /\ detections[i].predicted = predicted /\ IsAutomated(rows, detections[i].id) = automated})

Evaluation(detections, rows) ==
  [evaluated |-> Cardinality({i \in DOMAIN detections : detections[i].id \in RowIds(rows)}),
   unlabeled |-> Cardinality({i \in DOMAIN detections : detections[i].id \notin RowIds(rows)}),
   unmatched |-> Cardinality(RowIds(rows) \ RowIds(detections)),
   truePositive |-> Counted(detections, rows, TRUE, TRUE),
   falsePositive |-> Counted(detections, rows, TRUE, FALSE),
   trueNegative |-> Counted(detections, rows, FALSE, FALSE),
   falseNegative |-> Counted(detections, rows, FALSE, TRUE)]

Quality_OfDetections(e) ==
  IF e.evaluated > 0 /\ e.unlabeled = 0 THEN "ready" ELSE "review-required"
(* _quality_status *)
Quality(e) ==
  IF e.evaluated > 0 /\ e.unlabeled = 0 /\ e.unmatched = 0 THEN "ready" ELSE "review-required"

(* What _evaluate_files raises an error for. *)
CanEvaluate(detections, file, corpus) ==
  /\ NoDuplicates(detections) /\ NoDuplicates(file.rows)
  /\ DOMAIN file.rows # {} => file.corpus = corpus

Detections_Marked(lines) ==
  [i \in DOMAIN lines |->
     [id |-> lines[i].id, marked |-> lines[i].marked, predicted |-> lines[i].predicted]]
(* The privacy-safe part of the log: no marker of a campaign gets through. *)
Detections(lines) == [i \in DOMAIN lines |-> [id |-> lines[i].id, predicted |-> lines[i].predicted]]

CampaignLabels(lines) ==
  [i \in {j \in DOMAIN lines : lines[j].marked} |-> [id |-> lines[i].id, automated |-> TRUE]]

-----------------------------------------------------------------------------
GoTo(o, label) == stage' = [stage EXCEPT ![o] = label]

(* The command of o is over. *)
End(o) ==
  /\ GoTo(o, "idle")
  /\ job' = [job EXCEPT ![o] = NoJob]

(* The file a command writes after this one. *)
After_Early(file) ==
  CASE file = "detections" -> "evaluation" [] file = "evaluation" -> "run"
    [] file = "run" -> "publish"
    [] file = "tables" -> "ddl" [] file = "ddl" -> "index" [] file = "index" -> "publish"
After(file) ==
  CASE file = "detections" -> "evaluation" [] file = "evaluation" -> "run"
    [] file = "run" -> "summary" [] file = "summary" -> "publish"
    [] file = "tables" -> "ddl" [] file = "ddl" -> "index" [] file = "index" -> "publish"

Artifacts(kind) ==
  IF kind = "run" THEN {"detections", "evaluation", "run", "summary"}
                  ELSE {"tables", "ddl", "index"}

Stage(o, file, content) ==
  /\ stage[o] = file
  /\ staging' = [staging EXCEPT ![o] = [f \in DOMAIN @ \cup {file} |->
                                          IF f = file THEN content ELSE @[f]]]
  /\ GoTo(o, After(file))
  /\ UNCHANGED <<inputVars, dirs, commands>>

(* ati run looks for a name, ati pf2-export-bigquery for what the name leads to: a
   dangling link is there for one and not for the other. *)
Refuses(kind, target) ==
  IF kind = "run" THEN target.kind # "absent" ELSE target.kind \notin {"absent", "link"}

Begin(o, kind, d, corpus) ==
  /\ stage[o] = "idle" /\ commands < MaxCommands
  /\ ~Refuses(kind, dirs[d])
  /\ commands' = commands + 1
  /\ job' = [job EXCEPT ![o] = [kind |-> kind, dir |-> d, corpus |-> corpus,
                                number |-> commands + 1, labels |-> NoLabels(corpus)]]
  /\ GoTo(o, IF kind = "run" THEN "detections" ELSE "tables")
  /\ UNCHANGED <<inputVars, dirs, staging>>

(* _analyze reads the log to its end; a line that is not whole is an error. *)
Analyze(o) ==
  /\ ~torn
  /\ Stage(o, "detections", Detections(log))
  /\ UNCHANGED job

(* _evaluate_files reads the labels once and the detections back. *)
Evaluate(o) ==
  /\ stage[o] = "evaluation"
  /\ CanEvaluate(staging[o]["detections"], labels, job[o].corpus)
  /\ Stage(o, "evaluation", Evaluation(staging[o]["detections"], labels.rows))
  /\ job' = [job EXCEPT ![o].labels = labels]

WriteRun(o) ==
  /\ stage[o] = "run"
  /\ Stage(o, "run", job[o].corpus)
  /\ UNCHANGED job
WriteSummary(o) ==
  /\ stage[o] = "summary"
  /\ Stage(o, "summary", Quality(staging[o]["evaluation"]))
  /\ UNCHANGED job
WriteExport(o) ==
  /\ stage[o] \in Artifacts("export")
  /\ \E file \in Artifacts("export") : Stage(o, file, job[o].number)
  /\ UNCHANGED job

Replaces_Anything(target) == TRUE
(* What rename lets a directory replace. *)
Replaces(target) == target.kind \in {"absent", "empty"}

(* The labels a run was evaluated with are not in its directory; they are here for
   the properties. *)
Publish(o) ==
  /\ stage[o] = "publish"
  /\ Replaces(dirs[job[o].dir])
  /\ dirs' = [dirs EXCEPT ![job[o].dir] =
                [kind |-> job[o].kind, files |-> staging[o], labels |-> job[o].labels]]
  /\ staging' = [staging EXCEPT ![o] = NoFiles]
  /\ End(o)
  /\ UNCHANGED <<inputVars, commands>>

(* campaign labels reads the log through two files at once, and stops if one is
   longer than the other. *)
ReadLog(o, corpus) ==
  /\ stage[o] = "idle" /\ commands < MaxCommands
  /\ ~torn
  /\ commands' = commands + 1
  /\ job' = [job EXCEPT ![o] = [kind |-> "labels",
                                file |-> [corpus |-> corpus, rows |-> CampaignLabels(log)]]]
  /\ GoTo(o, "labels")
  /\ UNCHANGED <<inputVars, dirs, staging>>

WriteLabels(o) ==
  /\ stage[o] = "labels"
  /\ labels' = job[o].file
  /\ End(o)
  /\ UNCHANGED <<log, torn, dirs, staging, commands>>

(* An error, an interrupt or a kill at any step; at a rename it is what is at the
   path.  The finally of ati run and the except of ati pf2-export-bigquery try to
   remove the staging directory, which may fail or be interrupted, and never happens
   after a kill: what stays of it is the command's alone, as mkdtemp gives each
   command a name of its own. *)
Fail(o) ==
  /\ stage[o] # "idle"
  /\ staging' = [staging EXCEPT ![o] = NoFiles]
  /\ End(o)
  /\ UNCHANGED <<inputVars, dirs, commands>>

-----------------------------------------------------------------------------
(* The server writes a line in two parts. *)
BeginLine ==
  /\ ~torn /\ Len(log) < MaxLines
  /\ torn' = TRUE
  /\ UNCHANGED <<log, labels, dirs, stage, job, staging, commands>>

EndLine(l) ==
  /\ torn
  /\ torn' = FALSE /\ log' = Append(log, l)
  /\ UNCHANGED <<labels, dirs, stage, job, staging, commands>>

Occupy(d, kind) ==
  /\ dirs[d] = Nothing
  /\ dirs' = [dirs EXCEPT ![d] = [kind |-> kind]]
  /\ UNCHANGED <<inputVars, stage, job, staging, commands>>

Next ==
  \/ \E o \in Operators :
       \/ \E kind \in {"run", "export"}, d \in Dirs, corpus \in Corpora : Begin(o, kind, d, corpus)
       \/ Analyze(o) \/ Evaluate(o) \/ WriteRun(o) \/ WriteSummary(o) \/ WriteExport(o)
       \/ Publish(o)
       \/ \E corpus \in Corpora : ReadLog(o, corpus)
       \/ WriteLabels(o) \/ Fail(o)
  \/ BeginLine
  \/ \E l \in Line : EndLine(l)
  \/ \E d \in Dirs, kind \in {"empty", "file", "link"} : Occupy(d, kind)

Spec == Init /\ [][Next]_vars

-----------------------------------------------------------------------------
Written(file) ==
  CASE file \in {"detections", "tables", "idle", "labels"} -> {}
    [] file = "evaluation" -> {"detections"}
    [] file = "run"        -> {"detections", "evaluation"}
    [] file = "summary"    -> {"detections", "evaluation", "run"}
    [] file = "ddl"        -> {"tables"}
    [] file = "index"      -> {"tables", "ddl"}

Detection == [id : Ids, predicted : BOOLEAN]
Counts == [evaluated : Nat, unlabeled : Nat, unmatched : Nat,
           truePositive : Nat, falsePositive : Nat, trueNegative : Nat, falseNegative : Nat]

RunFilesOK(files) ==
  /\ "detections" \in DOMAIN files => files["detections"] \in Seq(Detection)
  /\ "evaluation" \in DOMAIN files => files["evaluation"] \in Counts
  /\ "run" \in DOMAIN files => files["run"] \in Corpora
  /\ "summary" \in DOMAIN files => files["summary"] \in {"ready", "review-required"}

(* Types, and what each command has written when it comes to its next file: the
   detections have an id and a score and nothing of the record's marker. *)
TypeOK ==
  /\ log \in Seq(Line) /\ torn \in BOOLEAN /\ labels \in LabelFile
  /\ \A d \in Dirs :
       /\ dirs[d].kind \in {"absent", "empty", "file", "link", "run", "export"}
       /\ dirs[d].kind = "run" => RunFilesOK(dirs[d].files)
  /\ \A o \in Operators :
       /\ stage[o] = "idle" <=> job[o] = NoJob
       /\ DOMAIN staging[o] = IF stage[o] = "publish" THEN Artifacts(job[o].kind)
                                                      ELSE Written(stage[o])
       /\ RunFilesOK(staging[o])
  /\ commands \in 0..MaxCommands

IsFirstPart(detections, lines) ==
  \E n \in 0..Len(lines) : detections = Detections(SubSeq(lines, 1, n))

IsWholeRun(files, file, lines) ==
  /\ IsFirstPart(files["detections"], lines)
  /\ files["evaluation"] = Evaluation(files["detections"], file.rows)
  /\ files["summary"] = Quality(files["evaluation"])
  /\ DOMAIN file.rows # {} => file.corpus = files["run"]

(* A directory that has the name of a run or an export is complete, however the
   commands overlapped and whatever failed or was killed: the evaluation is that of
   its own detections against one whole file of labels of its own corpus, the
   detections are those of a first part of the log, without a line in the making,
   and the summary says what the evaluation comes to (_run, _pf2_export_bigquery). *)
PublishedRunsAreWhole ==
  \A d \in Dirs :
    /\ dirs[d].kind \in {"run", "export"} => DOMAIN dirs[d].files = Artifacts(dirs[d].kind)
    /\ dirs[d].kind = "run" => IsWholeRun(dirs[d].files, dirs[d].labels, log)
    /\ dirs[d].kind = "export" =>
         \A f, g \in Artifacts("export") : dirs[d].files[f] = dirs[d].files[g]

IsCovered(files, rows) ==
  LET detections == files["detections"]   e == files["evaluation"]
  IN /\ detections # <<>>
     /\ RowIds(detections) = RowIds(rows)
     /\ e.truePositive + e.falsePositive + e.trueNegative + e.falseNegative = Len(detections)

(* A run whose summary says ready judged every detection by a label and used every
   label: although the log grows and the labels are replaced between the steps of the
   run, nothing was left out on either side and every detection is in one of the four
   counts (_quality_status, evaluate_automation_scores). *)
ReadyRunsAreCovered ==
  \A d \in Dirs :
    dirs[d].kind = "run" /\ Artifacts("run") \subseteq DOMAIN dirs[d].files
      /\ dirs[d].files["summary"] = "ready" => IsCovered(dirs[d].files, dirs[d].labels.rows)

(* What is at the path of an output is never replaced, although the path is looked at
   long before the rename: only an absent name or an empty directory gives way to a run
   or an export (_run, _pf2_export_bigquery). *)
PublishedRunsStay ==
  [][\A d \in Dirs : dirs[d].kind \notin {"absent", "empty"} => dirs'[d] = dirs[d]]_vars
=============================================================================
