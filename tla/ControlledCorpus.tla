---------------------------- MODULE ControlledCorpus ----------------------------
(***************************************************************************)
(* The controlled-corpus protocol: ati pf2-preflight turns a labelled       *)
(* corpus into a model table, a split manifest and a report                 *)
(* (evaluation/pf2/protocol.py), and ati pf2-baseline, in a process of its  *)
(* own, fits and scores models with the table and the manifest it finds     *)
(* (evaluation/pf2/baseline.py).  The files are replaced one by one         *)
(* (cli.py), at the paths their users keep giving.                          *)
(*                                                                         *)
(* A session stands for its records.  Rows are in the order of the          *)
(* sessions' pseudonyms, which says nothing about them, so a corpus is a    *)
(* sequence.  What is fitted, and how well it scores, is left out.          *)
(***************************************************************************)
EXTENDS Naturals, Sequences, FiniteSets

CONSTANTS
  Operators,
  Tasks, People,
  Windows,       \* collection windows; their labels sort as the numbers do
  Unknown,       \* no window, or no group, was given
  Shapes,        \* values of the features of a session
  Corpora,       \* what may have been collected when the n-th preflight runs
  MinSessions,   \* min_sessions_per_task_class
  MaxRuns        \* bound on the preflights that write something

(* person is who or what produced the session. *)
Session == [automated : BOOLEAN, task : Tasks, window : Windows, person : People, shape : Shapes]

(* windows, groups: --collection-windows-by-session and --groups-by-session. *)
Corpus == [sessions : Seq(Session), windows : BOOLEAN, groups : BOOLEAN]

ASSUME CorpusAssumption ==
  /\ Windows \subseteq Nat
  /\ Unknown \notin Windows \cup People
  /\ MinSessions \in Nat \ {0} /\ MaxRuns \in Nat
  /\ \A n \in 1..MaxRuns : Corpora[n] \subseteq Corpus

VARIABLES
  files,     \* the model table, the split manifest and the report, with the
             \* number of the preflight that wrote each (0 if there is none)
  baseline,  \* the last baseline report, with the files it was made of
  stage,     \* what each operator's command is about to do
  work,      \* the corpus, or the files, it has read
  runs       \* how many preflights have got as far as writing

vars == <<files, baseline, stage, work, runs>>

Outputs == {"model", "manifest", "report"}
NoFile == [content |-> <<>>, run |-> 0]
NoReport == [status |-> "none", splits |-> {}, model |-> NoFile, manifest |-> NoFile]
NoWork == [model |-> NoFile, manifest |-> NoFile]

Init ==
  /\ files = [f \in Outputs |-> NoFile]
  /\ baseline = NoReport
  /\ stage = [o \in Operators |-> "idle"]
  /\ work = [o \in Operators |-> NoWork]
  /\ runs = 0

-----------------------------------------------------------------------------
(* The operators with a suffix _Something are slips the code could have    *)
(* made; nothing uses them, and each breaks a property below if it is put   *)
(* in the place of the operator it is named after.                         *)

(* prepare_pf2_dataset.  I is a set of rows. *)
TwoClasses(rows, I) == {rows[i].automated : i \in I} = BOOLEAN
Having(rows, field, v) == {i \in DOMAIN rows : rows[i][field] = v}
Values(rows, field) == {rows[i][field] : i \in DOMAIN rows}

Covered(rows, I) ==
  \A class \in BOOLEAN : Cardinality({i \in I : rows[i].automated = class}) >= MinSessions

Accepts_AnyWindows(c) ==
  /\ TwoClasses(c.sessions, DOMAIN c.sessions)
  /\ \A t \in Values(c.sessions, "task") : Covered(c.sessions, Having(c.sessions, "task", t))
Accepts(c) ==
  /\ TwoClasses(c.sessions, DOMAIN c.sessions)
  /\ \A t \in Values(c.sessions, "task") : Covered(c.sessions, Having(c.sessions, "task", t))
  /\ c.windows => \A w \in Values(c.sessions, "window") :
                     TwoClasses(c.sessions, Having(c.sessions, "window", w))

(* The columns of the model table; whose row it is does not get into it, and is
   here for the properties alone. *)
ModelRows(c) ==
  [i \in DOMAIN c.sessions |->
    [automated |-> c.sessions[i].automated, shape |-> c.sessions[i].shape,
     person |-> c.sessions[i].person]]

SplitRows(c) ==
  [i \in DOMAIN c.sessions |->
    [task |-> c.sessions[i].task,
     window |-> IF c.windows THEN c.sessions[i].window ELSE Unknown,
     group |-> IF c.groups THEN c.sessions[i].person ELSE Unknown]]

Report(c) ==
  IF Cardinality(Values(c.sessions, "shape")) < 2 THEN "blocked-no-feature-variation"
  ELSE IF Cardinality(Values(c.sessions, "task")) < 2 THEN "blocked-no-task-holdout"
  ELSE IF ~c.windows \/ Cardinality(Values(c.sessions, "window")) < 2
    THEN "blocked-no-temporal-holdout"
  ELSE "ready-for-baseline"

Content(f, c) ==
  CASE f = "model" -> ModelRows(c)
    [] f = "manifest" -> SplitRows(c)
    [] f = "report" -> Report(c)

-----------------------------------------------------------------------------
(* build_pf2_splits.  rows are those of a split manifest. *)
KnownWindows(rows) == Values(rows, "window") \ {Unknown}

Earlier(rows, w) == {i \in DOMAIN rows : rows[i].window # Unknown /\ rows[i].window < w}

TemporalSplits(rows) ==
  {[kind |-> "temporal", train |-> Earlier(rows, w), holdout |-> Having(rows, "window", w),
    final |-> \A v \in KnownWindows(rows) : v <= w] :
     w \in {w \in KnownWindows(rows) : \E v \in KnownWindows(rows) : v < w}}

TaskSplits_OfSeveral(rows) ==
  {[kind |-> "unseen_task", train |-> DOMAIN rows \ Having(rows, "task", t),
    holdout |-> Having(rows, "task", t), final |-> FALSE] :
     t \in {t \in Values(rows, "task") : Cardinality(Values(rows, "task")) > 1}}
TaskSplits(rows) ==
  {[kind |-> "unseen_task", train |-> DOMAIN rows \ Having(rows, "task", t),
    holdout |-> Having(rows, "task", t), final |-> FALSE] : t \in Values(rows, "task")}

TargetSize_MaybeNone(rows) == (2 * Len(rows) + 3) \div 8
(* max(1, round(n / 4)), where a half is rounded to the even neighbour. *)
TargetSize(rows) ==
  LET n == Len(rows)
      nearest == IF n % 8 = 2 THEN n \div 4 ELSE (n + 2) \div 4
  IN IF nearest = 0 THEN 1 ELSE nearest

Grouped(rows) == Len(rows) > 0 /\ \A i \in DOMAIN rows : rows[i].group # Unknown
InGroups(rows, G) == {i \in DOMAIN rows : rows[i].group \in G}

(* The rows _grouped_holdout may choose: the shuffle is a seeded one, and any
   order may come of it.  Groups are taken until there are enough rows. *)
Holdouts(rows) ==
  IF Grouped(rows)
    THEN {InGroups(rows, G) : G \in
           {G \in SUBSET Values(rows, "group") :
              /\ Cardinality(InGroups(rows, G)) >= TargetSize(rows)
              /\ \E g \in G : Cardinality(InGroups(rows, G \ {g})) < TargetSize(rows)}}
    ELSE {I \in SUBSET DOMAIN rows : Cardinality(I) = TargetSize(rows)}

HoldoutSplit(rows, I) ==
  [kind |-> "grouped", train |-> DOMAIN rows \ I, holdout |-> I, final |-> FALSE]

Purged_Sessions(rows, x) == [x EXCEPT !.train = @ \ x.holdout]
(* _purge_shared_groups *)
Purged(rows, x) ==
  [x EXCEPT !.train = {i \in @ : \A j \in x.holdout : rows[i].group # rows[j].group}]

Splits(rows, I) ==
  LET all == TemporalSplits(rows) \cup TaskSplits(rows) \cup {HoldoutSplit(rows, I)}
  IN IF Grouped(rows) THEN {Purged(rows, x) : x \in all} ELSE all

(* _evaluate_split: one without both classes on both sides is not scored. *)
Scored(model, x) == TwoClasses(model, x.train) /\ TwoClasses(model, x.holdout)

Status(model, splits) ==
  IF \E x \in splits : ~Scored(model, x) THEN "blocked-single-class-split"
  ELSE IF ~\E x \in splits : x.final THEN "blocked-no-temporal-holdout"
  ELSE "evaluated"

-----------------------------------------------------------------------------
GoTo(o, label) == stage' = [stage EXCEPT ![o] = label]

(* pf2-preflight reads and checks everything before it writes anything. *)
Prepare(o, c) ==
  /\ stage[o] = "idle"
  /\ Accepts(c)
  /\ GoTo(o, "model")
  /\ work' = [work EXCEPT ![o] = [corpus |-> c, run |-> runs + 1]]
  /\ runs' = runs + 1
  /\ UNCHANGED <<files, baseline>>

After_ReportFirst(f) ==
  CASE f = "model" -> "report" [] f = "report" -> "manifest" [] f = "manifest" -> "idle"
(* The order in which it replaces its outputs. *)
After(f) ==
  CASE f = "model" -> "manifest" [] f = "manifest" -> "report" [] f = "report" -> "idle"

(* _atomic_output replaces one of them. *)
Write(o) ==
  /\ stage[o] \in Outputs
  /\ LET f == stage[o]
     IN /\ files' = [files EXCEPT ![f] =
                       [content |-> Content(f, work[o].corpus), run |-> work[o].run]]
        /\ GoTo(o, After(f))
        /\ work' = [work EXCEPT ![o] = IF After(f) = "idle" THEN NoWork ELSE @]
  /\ UNCHANGED <<baseline, runs>>

(* pf2-baseline *)
ReadModel(o) ==
  /\ stage[o] = "idle"
  /\ files["model"].run # 0
  /\ work' = [work EXCEPT ![o].model = files["model"]]
  /\ GoTo(o, "read-manifest")
  /\ UNCHANGED <<files, baseline, runs>>

ReadManifest(o) ==
  /\ stage[o] = "read-manifest"
  /\ files["manifest"].run # 0
  /\ work' = [work EXCEPT ![o].manifest = files["manifest"]]
  /\ GoTo(o, "evaluate")
  /\ UNCHANGED <<files, baseline, runs>>

(* evaluate_pf2_baseline, and the replacement of its report. *)
Evaluate(o) ==
  /\ stage[o] = "evaluate"
  /\ LET model == work[o].model.content
         rows == work[o].manifest.content
     IN /\ Len(model) = Len(rows)
        /\ TwoClasses(model, DOMAIN model)
        /\ \E I \in Holdouts(rows) :
             /\ \A x \in Splits(rows, I) : x.train \cap x.holdout = {}
             /\ baseline' =
                  [status |-> Status(model, Splits(rows, I)), splits |-> Splits(rows, I),
                   model |-> work[o].model, manifest |-> work[o].manifest]
  /\ work' = [work EXCEPT ![o] = NoWork]
  /\ GoTo(o, "idle")
  /\ UNCHANGED <<files, runs>>

(* An error at any step, or a kill: the outputs so far stay. *)
Fail(o) ==
  /\ stage[o] # "idle"
  /\ work' = [work EXCEPT ![o] = NoWork]
  /\ GoTo(o, "idle")
  /\ UNCHANGED <<files, baseline, runs>>

Next ==
  \E o \in Operators :
    \/ runs < MaxRuns /\ \E c \in Corpora[runs + 1] : Prepare(o, c)
    \/ Write(o) \/ ReadModel(o) \/ ReadManifest(o) \/ Evaluate(o) \/ Fail(o)

Spec == Init /\ [][Next]_vars

-----------------------------------------------------------------------------
Statuses == {"evaluated", "blocked-single-class-split", "blocked-no-temporal-holdout"}

(* The type invariant: every split of a report divides rows of its table, and
   has some to score. *)
TypeOK ==
  /\ DOMAIN files = Outputs
  /\ stage \in [Operators -> Outputs \cup {"idle", "read-manifest", "evaluate"}]
  /\ runs \in 0..MaxRuns
  /\ \A f \in Outputs : files[f].run \in 0..runs
  /\ baseline.status \in Statuses \cup {"none"}
  /\ \A x \in baseline.splits :
       /\ x.train \cup x.holdout \subseteq DOMAIN baseline.model.content
       /\ x.holdout # {}

(* The table and the manifest of the last baseline report were written by one
   preflight. *)
OfOnePreflight == baseline.status # "none" /\ baseline.model.run = baseline.manifest.run

Person(i) == baseline.model.content[i].person
TrainsOnWhomItScores(x) == \E i \in x.train, j \in x.holdout : Person(i) = Person(j)

(***************************************************************************)
(* README.md:326: with groups given, "a model is never scored on a person   *)
(* it was trained on".  It says so of every report; only the manifests are  *)
(* asked for their groups here.                                            *)
(***************************************************************************)
NobodyIsScoredByOwnModel ==
  Grouped(baseline.manifest.content) =>
    ~\E x \in baseline.splits : Scored(baseline.model.content, x) /\ TrainsOnWhomItScores(x)

(***************************************************************************)
(* The same of the reports for which the table and the manifest come from   *)
(* one preflight, and of every split, scored or not; and a split that        *)
(* scores a window trained on earlier ones.                                 *)
(***************************************************************************)
OnePreflightSeparatesPeople ==
  OfOnePreflight => \A x \in baseline.splits :
    /\ Grouped(baseline.manifest.content) => ~TrainsOnWhomItScores(x)
    /\ x.kind = "temporal" => \A i \in x.train, j \in x.holdout :
         baseline.manifest.content[i].window < baseline.manifest.content[j].window

(***************************************************************************)
(* What the preflight's gates are for: without groups, a corpus it accepts   *)
(* has both classes on both sides of every temporal split, and of every      *)
(* task split if it has two tasks; only the random holdout may be blocked.   *)
(* (docs/evaluation.md, "Fail-closed statuses")                             *)
(***************************************************************************)
GatesSupportHoldouts ==
  OfOnePreflight /\ ~Grouped(baseline.manifest.content) =>
    \A x \in baseline.splits :
      /\ x.kind = "temporal" => Scored(baseline.model.content, x)
      /\ x.kind = "unseen_task" /\ x.train # {} => Scored(baseline.model.content, x)

(***************************************************************************)
(* Conversely, the baseline asks again for what the preflight asked: if it   *)
(* reports "evaluated", no gate of the preflight of those files was shut but *)
(* that of the feature variation, which the baseline does not look at.       *)
(***************************************************************************)
EvaluatedCorporaPassedTheGates ==
  (OfOnePreflight /\ baseline.status = "evaluated"
     /\ files["report"].run # 0 /\ files["report"].run = baseline.model.run)
  => files["report"].content \in {"ready-for-baseline", "blocked-no-feature-variation"}

(***************************************************************************)
(* With one operator, whatever fails: the report is never of a later         *)
(* preflight than the table and the manifest beside it, nor the manifest     *)
(* than the table.  A report that is there speaks of files that were there.  *)
(* (cli.py:1106-1108)                                                       *)
(***************************************************************************)
ReportFollowsItsRows ==
  files["report"].run <= files["manifest"].run /\ files["manifest"].run <= files["model"].run
=============================================================================
