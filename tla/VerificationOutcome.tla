------------------------- MODULE VerificationOutcome -------------------------
(***************************************************************************)
(* What verifying one claim promises, without threads or time: some of the *)
(* verifiers count, and the resolution is that of their answers alone.  An *)
(* answer that is late, lost or an exception leaves no trace in it.        *)
(***************************************************************************)
EXTENDS IdentityResolver

CONSTANTS
  Verifiers,    \* the verifiers that apply to the request
  NoAnswer,     \* a verifier that raises instead of answering
  NoResolution  \* verify has not returned

VARIABLES
  claim,        \* the claim of the request
  truth,        \* [Verifiers -> Evidence \cup {NoAnswer}], what each would answer
  resolution

(* The answers of the verifiers in D. *)
Answers(D) == {truth[v] : v \in D} \ {NoAnswer}

Init == resolution = NoResolution

Resolves ==
  /\ resolution = NoResolution
  /\ \E D \in SUBSET Verifiers : resolution' = Resolve(claim, Answers(D))
  /\ UNCHANGED <<claim, truth>>

Spec == Init /\ [][Resolves]_<<claim, truth, resolution>>
=============================================================================
