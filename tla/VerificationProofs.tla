-------------------------- MODULE VerificationProofs --------------------------
(***************************************************************************)
(* Proofs about the resolver and the manager, for any verifiers, names,    *)
(* answers and number of workers.                                          *)
(***************************************************************************)
EXTENDS VerificationManager, FiniteSetTheorems, TLAPS

IsNeutral(e) == e.outcome \in Neutral

-----------------------------------------------------------------------------
(* The resolver *)

(* Neutral evidence changes no resolution: a verifier that is unavailable,
   stale, undecided or in error might as well not have been asked. *)
LEMMA NeutralEvidenceIgnored ==
  ASSUME NEW c, NEW E, NEW N, \A e \in N : IsNeutral(e)
  PROVE  Resolve(c, E \cup N) = Resolve(c, E)
<1>1. \A e \in N : /\ ~IsAgentPass(c, e) /\ ~IsProviderPass(c, e)
                   /\ ~IsForeignPass(c, e) /\ ~IsApplicableMismatch(c, e)
  BY DEF IsNeutral, Neutral, IsAgentPass, IsProviderPass, IsForeignPass, IsApplicableMismatch
<1>2. /\ AgentPass(c, E \cup N) <=> AgentPass(c, E)
      /\ ProviderPass(c, E \cup N) <=> ProviderPass(c, E)
      /\ ForeignPass(c, E \cup N) <=> ForeignPass(c, E)
      /\ ApplicableMismatch(c, E \cup N) <=> ApplicableMismatch(c, E)
  BY <1>1 DEF AgentPass, ProviderPass, ForeignPass, ApplicableMismatch
<1>3. ProviderPass(c, E \cup N) = ProviderPass(c, E)
  <2>1. ProviderPass(c, E \cup N) \in BOOLEAN /\ ProviderPass(c, E) \in BOOLEAN
    BY DEF ProviderPass
  <2> QED  BY <1>2, <2>1
<1> QED  BY <1>2, <1>3 DEF Resolve, Conflict

LEMMA ResolutionType ==
  ASSUME NEW c, NEW E
  PROVE  Resolve(c, E) \in Resolution
BY DEF Resolve, Resolution, States, ProviderPass

(* Less evidence, without a conflict in the whole, establishes no more. *)
LEMMA LessEvidence ==
  ASSUME NEW c, NEW E, NEW D \in SUBSET E, ~Conflict(c, E)
  PROVE  /\ Resolve(c, D).state \in {Resolve(c, E).state, "CLAIMED"}
         /\ Resolve(c, D).provider_verified => Resolve(c, E).provider_verified
<1>1. /\ AgentPass(c, D) => AgentPass(c, E)
      /\ ProviderPass(c, D) => ProviderPass(c, E)
      /\ ForeignPass(c, D) => ForeignPass(c, E)
      /\ ApplicableMismatch(c, D) => ApplicableMismatch(c, E)
  BY DEF AgentPass, ProviderPass, ForeignPass, ApplicableMismatch
<1>2. AgentPass(c, D) => ProviderPass(c, D)
  BY DEF AgentPass, ProviderPass, IsAgentPass, IsProviderPass, AgentMatches, Strong
<1>3. ~Conflict(c, D)
  BY <1>1 DEF Conflict
<1>4. CASE AgentPass(c, D)
  <2>1. Resolve(c, D) = [state |-> "VERIFIED", provider_verified |-> TRUE, agent_verified |-> TRUE]
    BY <1>3, <1>4 DEF Resolve
  <2>2. Resolve(c, E) = [state |-> "VERIFIED", provider_verified |-> TRUE, agent_verified |-> TRUE]
    BY <1>1, <1>4 DEF Resolve
  <2> QED  BY <2>1, <2>2
<1>5. CASE ~AgentPass(c, D) /\ ApplicableMismatch(c, D)
  <2>1. Resolve(c, D) = [state |-> "FAILED", provider_verified |-> FALSE, agent_verified |-> FALSE]
    BY <1>3, <1>5 DEF Resolve
  <2>2. ~AgentPass(c, E)
    BY <1>1, <1>5 DEF Conflict
  <2>3. Resolve(c, E) = [state |-> "FAILED", provider_verified |-> FALSE, agent_verified |-> FALSE]
    BY <1>1, <1>5, <2>2 DEF Resolve
  <2> QED  BY <2>1, <2>3
<1>6. CASE ~AgentPass(c, D) /\ ~ApplicableMismatch(c, D)
  <2>1. Resolve(c, D) = [state |-> "CLAIMED", provider_verified |-> ProviderPass(c, D),
                         agent_verified |-> FALSE]
    BY <1>3, <1>6 DEF Resolve
  <2>2. ProviderPass(c, D) => Resolve(c, E).provider_verified
    <3> SUFFICES ASSUME ProviderPass(c, D) PROVE Resolve(c, E).provider_verified
      OBVIOUS
    <3>1. ProviderPass(c, E) /\ ~ApplicableMismatch(c, E)
      BY <1>1 DEF Conflict
    <3>2. CASE AgentPass(c, E)
      BY <3>2 DEF Resolve
    <3>3. CASE ~AgentPass(c, E)
      BY <3>1, <3>3 DEF Resolve
    <3> QED  BY <3>2, <3>3
  <2> QED  BY <2>1, <2>2
<1> QED  BY <1>4, <1>5, <1>6

-----------------------------------------------------------------------------
(* The manager *)

(***************************************************************************)
(* The inductive invariant.  The evidence of a verifier is its own answer  *)
(* or neutral; none is put together before wait has returned; a verifier   *)
(* that was in time stays done and has its evidence, one that was not is    *)
(* out of the queue once it has evidence; and what was resolved is the     *)
(* evidence.                                                               *)
(***************************************************************************)
EvidenceOf(v) ==
  evidence[v] # NoAnswer =>
    \/ v \in inTime /\ job[v] = "answered" /\ evidence[v] = truth[v]
    \/ IsNeutral(evidence[v])

JobsAreSound(v) ==
  /\ job[v] = "answered" => truth[v] # NoAnswer
  /\ v \in inTime => job[v] \in {"answered", "raised"} /\ evidence[v] # NoAnswer

Resolved ==
  /\ resolution = Resolve(claim, {evidence[v] : v \in Verifiers})
  /\ \A v \in Verifiers : evidence[v] # NoAnswer /\ job[v] # "queued"

IInv ==
  /\ TypeOK
  /\ \A v \in Verifiers : EvidenceOf(v) /\ JobsAreSound(v)
  /\ caller = "returned" => Resolved
  /\ caller # "returned" => resolution = NoResolution
  /\ caller = "waiting" => inTime = {} /\ \A v \in Verifiers : evidence[v] = NoAnswer

USE ManagerAssumption DEF ManagerAssumption

LEMMA PlaceholderType ==
  ASSUME TypeOK, NEW v \in Verifiers, NEW outcome \in Neutral
  PROVE  /\ Placeholder(v, outcome) \in Evidence
         /\ IsNeutral(Placeholder(v, outcome))
         /\ Placeholder(v, outcome) # NoAnswer
<1>1. claim \in Claims
  <2>1. PICK r \in Requests : r = [claim |-> claim, truth |-> truth]
    BY DEF TypeOK
  <2>2. r \in [claim : Claims, truth : [Verifiers -> Evidence \cup {NoAnswer}]]
    OBVIOUS
  <2> QED  BY <2>1, <2>2
<1>2. claim.provider \in Providers /\ claim.agent \in Agents
  BY <1>1 DEF Claims
<1>3. BindingScope[v] \in {"key", "provider", "agent"}
  BY DEF Scopes
<1>4. Placeholder(v, outcome) \in Evidence
  <2>1. CASE BindingScope[v] = "agent"
    BY <1>2, <2>1 DEF Placeholder, Evidence, Outcomes, Neutral, Scopes
  <2>2. CASE BindingScope[v] = "provider"
    BY <1>2, <2>2 DEF Placeholder, Evidence, Outcomes, Neutral, Scopes
  <2>3. CASE BindingScope[v] = "key"
    BY <1>2, <2>3 DEF Placeholder, Evidence, Outcomes, Neutral, Scopes
  <2> QED  BY <1>3, <2>1, <2>2, <2>3
<1> QED  BY <1>4 DEF Placeholder, IsNeutral

LEMMA TruthType ==
  ASSUME TypeOK
  PROVE  truth \in [Verifiers -> Evidence \cup {NoAnswer}]
<1>1. PICK r \in Requests : r = [claim |-> claim, truth |-> truth]
  BY DEF TypeOK
<1>2. r \in [claim : Claims, truth : [Verifiers -> Evidence \cup {NoAnswer}]]
  OBVIOUS
<1> QED  BY <1>1, <1>2

LEMMA InitIInv == InitManager => IInv
<1> SUFFICES ASSUME InitManager PROVE IInv
  OBVIOUS
<1>1. PICK r \in Requests : claim = r.claim /\ truth = r.truth
  BY DEF InitManager
<1>2. r \in [claim : Claims, truth : [Verifiers -> Evidence \cup {NoAnswer}]]
  OBVIOUS
<1>3. r = [claim |-> claim, truth |-> truth]
  BY <1>1, <1>2
<1> QED  BY <1>3 DEF InitManager, IInv, TypeOK, EvidenceOf, JobsAreSound

(* The worker threads only move their own job along, away from the queue. *)
LEMMA WorkerStepIInv ==
  ASSUME IInv, NEW v \in Verifiers, Start(v) \/ Finish(v)
  PROVE  IInv'
<1>1. /\ UNCHANGED <<claim, truth, resolution, caller, inTime, evidence>>
      /\ \A w \in Verifiers : w # v => job'[w] = job[w]
      /\ job \in [Verifiers -> {"queued", "running", "answered", "raised", "cancelled"}]
  BY DEF Start, Finish, IInv, TypeOK
<1>2. CASE Start(v)
  <2>1. job[v] = "queued" /\ job' = [job EXCEPT ![v] = "running"]
    BY <1>2 DEF Start, NextQueued, Queued
  <2>2. job' \in [Verifiers -> {"queued", "running", "answered", "raised", "cancelled"}]
    BY <1>1, <2>1
  <2>3. job'[v] = "running" /\ caller # "returned" /\ v \notin inTime
    BY <1>1, <2>1 DEF IInv, Resolved, JobsAreSound
  <2> QED
    BY <1>1, <2>1, <2>2, <2>3
    DEF IInv, TypeOK, EvidenceOf, JobsAreSound, Resolved, IsNeutral
<1>3. CASE Finish(v)
  <2>1. /\ job[v] = "running"
        /\ job' = [job EXCEPT ![v] = IF truth[v] = NoAnswer THEN "raised" ELSE "answered"]
    BY <1>3 DEF Finish
  <2>2. /\ job'[v] \in {"raised", "answered"}
        /\ job'[v] = "answered" => truth[v] # NoAnswer
        /\ job' \in [Verifiers -> {"queued", "running", "answered", "raised", "cancelled"}]
    BY <1>1, <2>1
  <2>3. v \notin inTime
    BY <2>1 DEF IInv, JobsAreSound
  <2> QED
    BY <1>1, <2>1, <2>2, <2>3
    DEF IInv, TypeOK, EvidenceOf, JobsAreSound, Resolved, IsNeutral
<1> QED  BY <1>2, <1>3

LEMMA WaitReturnsIInv ==
  ASSUME IInv, NEW timeout \in BOOLEAN, WaitReturns(timeout)
  PROVE  IInv'
<1>1. /\ caller = "waiting" /\ caller' = "collecting" /\ inTime' = Finished
      /\ UNCHANGED <<claim, truth, resolution, job>>
      /\ resolution = NoResolution
  BY DEF WaitReturns, IInv
<1>2. \A v \in Verifiers :
        /\ job[v] = "answered" => evidence'[v] = truth[v]
        /\ job[v] = "raised" => evidence'[v] = Placeholder(v, "error")
        /\ job[v] \notin {"answered", "raised"} => evidence'[v] = NoAnswer
  BY DEF WaitReturns
<1>3. \A v \in Verifiers : Placeholder(v, "error") \in Evidence /\ IsNeutral(Placeholder(v, "error"))
  BY PlaceholderType DEF IInv, Neutral
<1>4. truth \in [Verifiers -> Evidence \cup {NoAnswer}]
  BY TruthType DEF IInv
<1>5. \A v \in Verifiers : evidence'[v] \in Evidence \cup {NoAnswer}
  BY <1>2, <1>3, <1>4
<1>6. evidence' \in [Verifiers -> Evidence \cup {NoAnswer}]
  BY <1>5 DEF WaitReturns
<1>7. \A v \in Verifiers : EvidenceOf(v)' /\ JobsAreSound(v)'
  BY <1>1, <1>2, <1>3 DEF IInv, EvidenceOf, JobsAreSound, Finished, IsNeutral
<1> QED  BY <1>1, <1>6, <1>7 DEF IInv, TypeOK, Finished

LEMMA CollectIInv ==
  ASSUME IInv, NEW v \in Verifiers, Collect(v)
  PROVE  IInv'
<1>1. /\ caller = "collecting" /\ v \notin inTime
      /\ UNCHANGED <<claim, truth, resolution, caller, inTime>>
      /\ job' = [job EXCEPT ![v] = Cancelled(job[v])]
      /\ evidence' = [evidence EXCEPT ![v] = Placeholder(v, "unavailable")]
      /\ job \in [Verifiers -> {"queued", "running", "answered", "raised", "cancelled"}]
      /\ evidence \in [Verifiers -> Evidence \cup {NoAnswer}]
  BY DEF Collect, IInv, TypeOK
<1>2. /\ Placeholder(v, "unavailable") \in Evidence
      /\ IsNeutral(Placeholder(v, "unavailable"))
  BY PlaceholderType DEF IInv, Neutral
<1>3. evidence' \in [Verifiers -> Evidence \cup {NoAnswer}]
  BY <1>1, <1>2
<1>4. job' \in [Verifiers -> {"queued", "running", "answered", "raised", "cancelled"}]
  BY <1>1 DEF Cancelled
<1>5. /\ \A w \in Verifiers : w # v => job'[w] = job[w] /\ evidence'[w] = evidence[w]
      /\ evidence'[v] = Placeholder(v, "unavailable")
      /\ job'[v] = "answered" => job[v] = "answered"
  BY <1>1 DEF Cancelled
<1>6. \A w \in Verifiers : EvidenceOf(w)' /\ JobsAreSound(w)'
  BY <1>1, <1>2, <1>5 DEF IInv, EvidenceOf, JobsAreSound, IsNeutral
<1> QED  BY <1>1, <1>3, <1>4, <1>6 DEF IInv, TypeOK

LEMMA ReturnIInv == ASSUME IInv, Return PROVE IInv'
<1>1. /\ caller = "collecting" /\ caller' = "returned"
      /\ UNCHANGED <<claim, truth, inTime, evidence>>
      /\ job' = [v \in Verifiers |-> Cancelled(job[v])]
      /\ resolution' = Resolve(claim, {evidence[v] : v \in Verifiers})
      /\ \A v \in Verifiers : evidence[v] # NoAnswer
      /\ job \in [Verifiers -> {"queued", "running", "answered", "raised", "cancelled"}]
  BY DEF Return, IInv, TypeOK
<1>2. /\ \A v \in Verifiers : job'[v] # "queued"
      /\ \A v \in Verifiers : job[v] # "queued" => job'[v] = job[v]
      /\ \A v \in Verifiers : job'[v] = "answered" => job[v] = "answered"
      /\ job' \in [Verifiers -> {"queued", "running", "answered", "raised", "cancelled"}]
  BY <1>1 DEF Cancelled
<1>3. resolution' \in Resolution
  BY <1>1, ResolutionType
<1>4. \A w \in Verifiers : EvidenceOf(w)' /\ JobsAreSound(w)'
  BY <1>1, <1>2 DEF IInv, EvidenceOf, JobsAreSound, IsNeutral
<1> QED  BY <1>1, <1>2, <1>3, <1>4 DEF IInv, TypeOK, Resolved

LEMMA StepIInv == IInv /\ [Next]_vars => IInv'
<1> SUFFICES ASSUME IInv, [Next]_vars PROVE IInv'
  OBVIOUS
<1>1. CASE UNCHANGED vars
  BY <1>1 DEF vars, IInv, TypeOK, EvidenceOf, JobsAreSound, Resolved, IsNeutral
<1>2. ASSUME NEW v \in Verifiers, Start(v) \/ Finish(v) PROVE IInv'
  BY <1>2, WorkerStepIInv
<1>3. ASSUME NEW timeout \in BOOLEAN, WaitReturns(timeout) PROVE IInv'
  BY <1>3, WaitReturnsIInv
<1>4. ASSUME NEW v \in Verifiers, Collect(v) PROVE IInv'
  BY <1>4, CollectIInv
<1>5. CASE Return
  BY <1>5, ReturnIInv
<1> QED  BY <1>1, <1>2, <1>3, <1>4, <1>5 DEF Next, CallerStep

LEMMA Invariance == ManagerSpec => []IInv
BY InitIInv, StepIInv, PTL DEF ManagerSpec

(* Every variable keeps the values the code can give it. *)
THEOREM TypeCorrect == ManagerSpec => []TypeOK
BY Invariance, PTL DEF IInv

(***************************************************************************)
(* A late or failed verifier never contributes more than neutral evidence  *)
(* (manager.py:84-95).                                                     *)
(***************************************************************************)
THEOREM LateAnswersNeutral == ManagerSpec => []LateAnswersAreNeutral
<1>1. IInv => LateAnswersAreNeutral
  BY DEF IInv, EvidenceOf, LateAnswersAreNeutral, IsNeutral
<1> QED  BY <1>1, Invariance, PTL

(***************************************************************************)
(* No verifier begins after verify has returned (manager.py:94, 97).       *)
(***************************************************************************)
THEOREM NothingBegins == ManagerSpec => NothingBeginsAfterReturn
<1>1. IInv /\ [Next]_vars => [caller = "returned" => Running' \subseteq Running]_vars
  <2> SUFFICES ASSUME IInv, [Next]_vars, caller = "returned"
               PROVE  Running' \subseteq Running
    OBVIOUS
  <2>1. \A v \in Verifiers : job[v] # "queued"
    BY DEF IInv, Resolved
  <2>2. CASE UNCHANGED vars
    BY <2>2 DEF vars, Running
  <2>3. ASSUME NEW v \in Verifiers, Start(v) PROVE FALSE
    BY <2>1, <2>3 DEF Start, NextQueued, Queued
  <2>4. ASSUME NEW v \in Verifiers, Finish(v) PROVE Running' \subseteq Running
    BY <2>4 DEF Finish, Running
  <2>5. CASE CallerStep
    BY <2>5 DEF CallerStep, WaitReturns, Collect, Return
  <2> QED  BY <2>2, <2>3, <2>4, <2>5 DEF Next
<1> QED  BY <1>1, Invariance, PTL DEF ManagerSpec, NothingBeginsAfterReturn

-----------------------------------------------------------------------------
(* The manager implements VerificationOutcome *)

(* The verifiers whose own answer is in the evidence. *)
Counted == {v \in Verifiers : v \in inTime /\ job[v] = "answered" /\ evidence[v] = truth[v]}

(* What the whole evidence resolves to is what the counted answers do. *)
LEMMA OnlyAnswersCount ==
  ASSUME IInv, \A v \in Verifiers : evidence[v] # NoAnswer
  PROVE  Resolve(claim, {evidence[v] : v \in Verifiers}) = Resolve(claim, Answers(Counted))
<1> DEFINE Rest == {evidence[v] : v \in Verifiers \ Counted}
<1>1. \A e \in Rest : IsNeutral(e)
  BY DEF IInv, EvidenceOf, Counted
<1>2. Answers(Counted) = {evidence[v] : v \in Counted}
  BY DEF Answers, Counted
<1>3. {evidence[v] : v \in Verifiers} = Answers(Counted) \cup Rest
  BY <1>2 DEF Counted
<1>4. \A c, E, N : (\A e \in N : IsNeutral(e)) => Resolve(c, E \cup N) = Resolve(c, E)
  BY NeutralEvidenceIgnored
<1>5. Resolve(claim, Answers(Counted) \cup Rest) = Resolve(claim, Answers(Counted))
  <2> HIDE DEF Rest
  <2> QED  BY <1>1, <1>4
<1> QED  BY <1>3, <1>5

LEMMA StepImplements ==
  IInv /\ [Next]_vars => [Resolves]_<<claim, truth, resolution>>
<1> SUFFICES ASSUME IInv, [Next]_vars PROVE [Resolves]_<<claim, truth, resolution>>
  OBVIOUS
<1>1. CASE UNCHANGED vars
  BY <1>1 DEF vars
<1>2. ASSUME NEW v \in Verifiers, Start(v) \/ Finish(v) PROVE UNCHANGED <<claim, truth, resolution>>
  BY <1>2 DEF Start, Finish
<1>3. ASSUME NEW timeout \in BOOLEAN, WaitReturns(timeout)
      PROVE UNCHANGED <<claim, truth, resolution>>
  BY <1>3 DEF WaitReturns
<1>4. ASSUME NEW v \in Verifiers, Collect(v) PROVE UNCHANGED <<claim, truth, resolution>>
  BY <1>4 DEF Collect
<1>5. CASE Return
  <2>1. resolution = NoResolution
    BY <1>5 DEF Return, IInv
  <2>2. resolution' = Resolve(claim, Answers(Counted))
    BY <1>5, OnlyAnswersCount DEF Return
  <2>3. Counted \in SUBSET Verifiers
    BY DEF Counted
  <2>4. UNCHANGED <<claim, truth>>
    BY <1>5 DEF Return
  <2> QED  BY <2>1, <2>2, <2>3, <2>4 DEF Resolves
<1> QED  BY <1>1, <1>2, <1>3, <1>4, <1>5 DEF Next, CallerStep

(***************************************************************************)
(* A call does what VerificationOutcome says: the answers of some of its   *)
(* verifiers are resolved, once, and threads, timeouts and exceptions      *)
(* leave no other trace (manager.py:56-98, resolver.py:41).                *)
(***************************************************************************)
THEOREM ManagerImplementsOutcome == ManagerSpec => ImplementsOutcome
<1>1. InitManager => Init
  BY DEF InitManager, Init
<1> QED  BY <1>1, StepImplements, Invariance, PTL DEF ManagerSpec, ImplementsOutcome, Spec

(***************************************************************************)
(* Lost answers establish nothing: a call resolves to what all the answers *)
(* resolve to or to CLAIMED, unless the answers are in conflict            *)
(* (manager.py:79-98, resolver.py:41).                                     *)
(***************************************************************************)
THEOREM LostAnswers == ManagerSpec => []LostAnswerEffect
<1>1. IInv => LostAnswerEffect
  <2> SUFFICES ASSUME IInv, resolution # NoResolution,
                      Resolve(claim, Answers(Verifiers)).state # "CONFLICTED"
               PROVE  /\ resolution.state
                           \in {Resolve(claim, Answers(Verifiers)).state, "CLAIMED"}
                      /\ resolution.provider_verified =>
                           Resolve(claim, Answers(Verifiers)).provider_verified
    BY DEF LostAnswerEffect
  <2>1. Resolved
    BY DEF IInv, TypeOK
  <2>2. resolution = Resolve(claim, Answers(Counted))
    BY <2>1, OnlyAnswersCount DEF Resolved
  <2>3. Answers(Counted) \in SUBSET Answers(Verifiers)
    BY DEF Answers, Counted
  <2>4. ~Conflict(claim, Answers(Verifiers))
    BY DEF Resolve
  <2>5. \A c, E : \A D \in SUBSET E : ~Conflict(c, E) =>
          /\ Resolve(c, D).state \in {Resolve(c, E).state, "CLAIMED"}
          /\ Resolve(c, D).provider_verified => Resolve(c, E).provider_verified
    BY LessEvidence
  <2> QED  BY <2>2, <2>3, <2>4, <2>5
<1> QED  BY <1>1, Invariance, PTL

-----------------------------------------------------------------------------
(* What the return of a call rests on, short of the fairness of its caller: the
   caller waits for its timeout at most, and each of its steps leaves fewer. *)

Open == {v \in Verifiers : evidence[v] = NoAnswer}

(* The steps of the caller that are left, at most. *)
StepsLeft ==
  CASE caller = "waiting" -> Cardinality(Verifiers) + 2
    [] caller = "collecting" -> Cardinality(Open) + 1
    [] caller = "returned" -> 0

CallerCanStep ==
  \/ caller = "waiting" /\ WaitIsOver(TRUE)
  \/ caller = "collecting" /\ \E v \in Verifiers : v \notin inTime /\ evidence[v] = NoAnswer
  \/ caller = "collecting" /\ \A v \in Verifiers : evidence[v] # NoAnswer

Returning ==
  [][/\ StepsLeft' \in Nat /\ StepsLeft' <= StepsLeft
     /\ CallerStep => StepsLeft' < StepsLeft]_vars

(***************************************************************************)
(* Until verify returns its caller has a step to take, whatever the        *)
(* verifiers do and whenever the timeout comes: a verifier without evidence *)
(* was not done when wait returned (manager.py:79-98).                     *)
(***************************************************************************)
THEOREM CallerNeverStuck == ManagerSpec => [](caller # "returned" => CallerCanStep)
<1>1. ASSUME IInv, caller # "returned" PROVE CallerCanStep
  <2>1. caller \in {"waiting", "collecting"}
    BY <1>1 DEF IInv, TypeOK
  <2>2. ASSUME NEW v \in Verifiers, caller = "collecting", evidence[v] = NoAnswer
        PROVE  v \notin inTime
    BY <1>1, <2>2, TruthType DEF IInv, EvidenceOf, JobsAreSound, IsNeutral
  <2> QED BY <2>1, <2>2 DEF CallerCanStep, WaitIsOver
<1> QED BY <1>1, Invariance, PTL

LEMMA OpenIsFinite ==
  ASSUME IInv
  PROVE  /\ IsFiniteSet(Verifiers) /\ Cardinality(Verifiers) \in Nat
         /\ IsFiniteSet(Open) /\ Cardinality(Open) \in Nat
         /\ Cardinality(Open) <= Cardinality(Verifiers)
<1>1. IsFiniteSet(Verifiers)
  BY DEF IsFiniteSet
<1>2. Open \in SUBSET Verifiers
  BY DEF Open
<1> QED BY <1>1, <1>2, FS_Subset, FS_CardinalityType

LEMMA StepsLeftIs == IInv => StepsLeft \in Nat
<1> SUFFICES ASSUME IInv PROVE StepsLeft \in Nat
  OBVIOUS
<1>1. caller \in {"waiting", "collecting", "returned"}
  BY DEF IInv, TypeOK
<1> QED BY <1>1, OpenIsFinite DEF StepsLeft

LEMMA CallerStepLeavesLess ==
  ASSUME IInv, IInv', CallerStep
  PROVE  StepsLeft' < StepsLeft
<1>1. CASE \E timeout \in BOOLEAN : WaitReturns(timeout)
  <2>1. caller = "waiting" /\ caller' = "collecting"
    BY <1>1 DEF WaitReturns
  <2>2. Open' \in SUBSET Verifiers
    BY DEF Open
  <2>3. /\ Cardinality(Open') <= Cardinality(Verifiers) /\ Cardinality(Open') \in Nat
        /\ Cardinality(Verifiers) \in Nat
    BY <2>2, OpenIsFinite, FS_Subset, FS_CardinalityType
  <2> QED BY <2>1, <2>3 DEF StepsLeft
<1>2. ASSUME NEW v \in Verifiers, Collect(v) PROVE StepsLeft' < StepsLeft
  <2>1. /\ caller = "collecting" /\ caller' = "collecting" /\ evidence[v] = NoAnswer
        /\ evidence' = [evidence EXCEPT ![v] = Placeholder(v, "unavailable")]
        /\ evidence \in [Verifiers -> Evidence \cup {NoAnswer}]
    BY <1>2 DEF Collect, IInv, TypeOK
  <2>2. Placeholder(v, "unavailable") # NoAnswer
    BY PlaceholderType DEF IInv, Neutral
  <2>3. Open' = Open \ {v} /\ v \in Open
    BY <2>1, <2>2 DEF Open
  <2>4. Cardinality(Open') = Cardinality(Open) - 1 /\ Cardinality(Open) \in Nat
    BY <2>3, OpenIsFinite, FS_RemoveElement
  <2> QED BY <2>1, <2>4 DEF StepsLeft
<1>3. CASE Return
  <2>1. caller = "collecting" /\ caller' = "returned"
    BY <1>3 DEF Return
  <2> QED BY <2>1, OpenIsFinite DEF StepsLeft
<1> QED BY <1>1, <1>2, <1>3 DEF CallerStep

(***************************************************************************)
(* Every step of the caller brings its return closer, and no verifier puts  *)
(* it off: verify returns after as many steps as it has verifiers, and two  *)
(* (manager.py:79-98).                                                     *)
(***************************************************************************)
THEOREM CallerGetsOn == ManagerSpec => Returning
<1>1. IInv /\ IInv' /\ StepsLeft \in Nat /\ (StepsLeft \in Nat)' /\ [Next]_vars =>
        [/\ StepsLeft' \in Nat /\ StepsLeft' <= StepsLeft
         /\ CallerStep => StepsLeft' < StepsLeft]_vars
  <2> SUFFICES ASSUME IInv, IInv', StepsLeft \in Nat, StepsLeft' \in Nat, [Next]_vars
               PROVE  StepsLeft' <= StepsLeft /\ (CallerStep => StepsLeft' < StepsLeft)
    OBVIOUS
  <2>1. CallerStep => StepsLeft' < StepsLeft
    BY CallerStepLeavesLess
  <2>2. ~CallerStep => StepsLeft' = StepsLeft
    <3>1. (\E v \in Verifiers : Start(v) \/ Finish(v)) => StepsLeft' = StepsLeft
      BY DEF Start, Finish, StepsLeft, Open
    <3>2. UNCHANGED vars => StepsLeft' = StepsLeft
      BY DEF vars, StepsLeft, Open
    <3> QED BY <3>1, <3>2 DEF Next
  <2> QED BY <2>1, <2>2
<1> QED BY <1>1, StepsLeftIs, Invariance, StepIInv, PTL DEF ManagerSpec, Returning
=============================================================================
