------------------------- MODULE VerificationManager -------------------------
(***************************************************************************)
(* VerificationManager.verify (identity/manager.py): the verifiers that     *)
(* apply to a request run in a thread pool made for the call; the caller   *)
(* waits for all of them or for a timeout, takes the answers that are      *)
(* there, puts neutral evidence in the place of the others, and resolves.  *)
(* Worker threads go on after the call has returned.                       *)
(*                                                                         *)
(* A verifier may take any time and may never finish (a DNS lookup that    *)
(* hangs), and may raise.  The timeout may come at any moment.             *)
(***************************************************************************)
EXTENDS VerificationOutcome, Naturals, FiniteSets, Sequences

CONSTANTS
  Order,        \* the tuple of verifiers, as submitted
  BindingScope, \* [Verifiers -> Scopes], verifier.binding_scope
  MaxWorkers,   \* VerificationPolicy.max_workers
  Requests      \* the [claim, truth] a call may be made with

ASSUME ManagerAssumption ==
  /\ MaxWorkers \in Nat \ {0}
  /\ BindingScope \in [Verifiers -> Scopes]
  /\ Order \in Seq(Verifiers)
  /\ {Order[i] : i \in DOMAIN Order} = Verifiers
  /\ Requests \subseteq
       [claim : Claims, truth : [Verifiers -> Evidence \cup {NoAnswer}]]
  /\ NoAnswer \notin Evidence
  /\ NoResolution \notin Resolution

VARIABLES
  caller,      \* the calling thread: waiting, collecting, returned
  job,         \* [Verifiers -> future state]
  inTime,      \* wait()'s done set
  evidence     \* [Verifiers -> Evidence \cup {NoAnswer}], what the caller has put together

vars == <<claim, truth, resolution, caller, job, inTime, evidence>>

Running == {v \in Verifiers : job[v] = "running"}
Queued == {v \in Verifiers : job[v] = "queued"}
Finished == {v \in Verifiers : job[v] \in {"answered", "raised"}}

(* The pool serves its queue in the order of submission. *)
NextQueued(v) ==
  \E i \in DOMAIN Order :
    /\ Order[i] = v
    /\ v \in Queued
    /\ \A j \in 1..(i - 1) : Order[j] \notin Queued

(***************************************************************************)
(* The call: every verifier is submitted to a new executor.  Without       *)
(* verifiers the code makes no pool and resolves the empty evidence; here  *)
(* the wait for nobody ends, with the same result.                         *)
(***************************************************************************)
InitManager ==
  /\ \E r \in Requests : claim = r.claim /\ truth = r.truth
  /\ job = [v \in Verifiers |-> "queued"]
  /\ inTime = {}
  /\ evidence = [v \in Verifiers |-> NoAnswer]
  /\ caller = "waiting"
  /\ resolution = NoResolution

-----------------------------------------------------------------------------
(* Worker threads *)
Start(v) ==
  /\ NextQueued(v)
  /\ Cardinality(Running) < MaxWorkers
  /\ job' = [job EXCEPT ![v] = "running"]
  /\ UNCHANGED <<claim, truth, resolution, caller, inTime, evidence>>

Finish(v) ==
  /\ job[v] = "running"
  /\ job' = [job EXCEPT ![v] = IF truth[v] = NoAnswer THEN "raised" ELSE "answered"]
  /\ UNCHANGED <<claim, truth, resolution, caller, inTime, evidence>>

-----------------------------------------------------------------------------
(* The calling thread *)

(* The operators with a suffix _Something are slips the code could have    *)
(* made; nothing uses them, and each breaks a property below if it is put   *)
(* in the place of the operator it is named after.                         *)

Placeholder_Mismatch(v, outcome) ==
  [outcome |-> "mismatch", scope |-> BindingScope[v], authority |-> claim.provider,
   subject |-> NoName]
Placeholder_WholeClaim(v, outcome) ==
  [outcome |-> outcome, scope |-> BindingScope[v], authority |-> claim.provider,
   subject |-> claim]
Placeholder_LateAnswer(v, outcome) ==
  IF job[v] = "answered" THEN truth[v] ELSE Placeholder_Mismatch(v, outcome)

(* Evidence in the place of an answer: _timeout and _execution_error. *)
Placeholder(v, outcome) ==
  [outcome |-> outcome, scope |-> BindingScope[v], authority |-> claim.provider,
   subject |-> CASE BindingScope[v] = "agent" -> claim.agent
                 [] BindingScope[v] = "provider" -> claim.provider
                 [] BindingScope[v] = "key" -> NoName]

WaitIsOver_WithoutTimeout(timeout) == Finished = Verifiers
WaitIsOver(timeout) == timeout \/ Finished = Verifiers

(***************************************************************************)
(* wait() returns: all futures are done, or the timeout has passed.  The   *)
(* done futures are read at once, since they no longer change.             *)
(***************************************************************************)
WaitReturns(timeout) ==
  /\ caller = "waiting"
  /\ WaitIsOver(timeout)
  /\ inTime' = Finished
  /\ evidence' = [v \in Verifiers |->
       CASE job[v] = "answered" -> truth[v]
         [] job[v] = "raised" -> Placeholder(v, "error")
         [] job[v] \notin {"answered", "raised"} -> NoAnswer]
  /\ caller' = "collecting"
  /\ UNCHANGED <<claim, truth, resolution, job>>

(* Future.cancel(), and the cancel_futures of shutdown(). *)
Cancelled_Never(state) == state
Cancelled(state) == IF state = "queued" THEN "cancelled" ELSE state

(***************************************************************************)
(* A future that was not done is cancelled, which has no effect once its   *)
(* verifier runs or has just finished, and counts as a timeout in any case. *)
(***************************************************************************)
Collect(v) ==
  /\ caller = "collecting"
  /\ v \notin inTime
  /\ evidence[v] = NoAnswer
  /\ job' = [job EXCEPT ![v] = Cancelled(@)]
  /\ evidence' = [evidence EXCEPT ![v] = Placeholder(v, "unavailable")]
  /\ UNCHANGED <<claim, truth, resolution, caller, inTime>>

(* executor.shutdown(wait=False, cancel_futures=True); resolve *)
Return ==
  /\ caller = "collecting"
  /\ \A v \in Verifiers : evidence[v] # NoAnswer
  /\ job' = [v \in Verifiers |-> Cancelled(job[v])]
  /\ resolution' = Resolve(claim, {evidence[v] : v \in Verifiers})
  /\ caller' = "returned"
  /\ UNCHANGED <<claim, truth, inTime, evidence>>

CallerStep ==
  \/ \E timeout \in BOOLEAN : WaitReturns(timeout)
  \/ \E v \in Verifiers : Collect(v)
  \/ Return

Next ==
  \/ \E v \in Verifiers : Start(v) \/ Finish(v)
  \/ CallerStep

(***************************************************************************)
(* The caller is scheduled and its timeout passes; nothing is assumed of   *)
(* the verifiers.                                                          *)
(***************************************************************************)
ManagerSpec == InitManager /\ [][Next]_vars /\ WF_vars(CallerStep)

-----------------------------------------------------------------------------
(* The type invariant: every variable keeps the values the code can give it. *)
TypeOK ==
  /\ [claim |-> claim, truth |-> truth] \in Requests
  /\ resolution \in Resolution \cup {NoResolution}
  /\ caller \in {"waiting", "collecting", "returned"}
  /\ job \in [Verifiers -> {"queued", "running", "answered", "raised", "cancelled"}]
  /\ inTime \subseteq Verifiers
  /\ evidence \in [Verifiers -> Evidence \cup {NoAnswer}]

(***************************************************************************)
(* A verifier's answer counts only if it was there when wait returned; an  *)
(* answer that comes while the caller collects the others, and a verifier  *)
(* that raised, are neutral evidence.  (manager.py:84-95)                  *)
(***************************************************************************)
LateAnswersAreNeutral ==
  \A v \in Verifiers :
    evidence[v] # NoAnswer =>
      \/ v \in inTime /\ job[v] = "answered" /\ evidence[v] = truth[v]
      \/ evidence[v].outcome \in Neutral

(***************************************************************************)
(* Once verify has returned, no verifier that had not begun begins: a      *)
(* request that is over looks nothing up.  (manager.py:94, 97)             *)
(***************************************************************************)
NothingBeginsAfterReturn ==
  [][caller = "returned" => Running' \subseteq Running]_vars

(***************************************************************************)
(* What lost answers can do to the resolution, against that of all the     *)
(* answers: they may leave less established, but verify nothing that the   *)
(* whole evidence does not, and fail no claim that it does not fail, unless *)
(* the whole evidence is in conflict.  (resolver.py:41, the docstring)     *)
(***************************************************************************)
LostAnswerEffect ==
  resolution # NoResolution =>
    LET full == Resolve(claim, Answers(Verifiers))
    IN \/ full.state = "CONFLICTED"
       \/ /\ resolution.state \in {full.state, "CLAIMED"}
          /\ resolution.provider_verified => full.provider_verified

(***************************************************************************)
(* The threads, the timeout and the exceptions leave no trace: a call does *)
(* what VerificationOutcome says.  (manager.py:56-98)                      *)
(***************************************************************************)
ImplementsOutcome == Spec

(***************************************************************************)
(* verify returns although a verifier hangs.  (manager.py:79-82)           *)
(***************************************************************************)
VerifyReturns == <>(caller = "returned")
=============================================================================
