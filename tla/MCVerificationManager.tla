------------------------ MODULE MCVerificationManager ------------------------
(* VerificationManager for TLC: three verifiers and a claim of provider o,  *)
(* agent a, with every answer that the resolver tells apart.               *)
EXTENDS VerificationManager, TLC
CONSTANTS v1, v2, v3, o, other, a, b, none

Ev(outcome, scope, authority, subject) ==
  [outcome |-> outcome, scope |-> scope, authority |-> authority, subject |-> subject]

AnswerKinds ==
  {Ev("pass", "agent", o, a), Ev("pass", "agent", o, b), Ev("pass", "provider", o, o),
   Ev("pass", "provider", other, other), Ev("pass", "key", none, b),
   Ev("mismatch", "provider", o, o), Ev("mismatch", "agent", o, a),
   Ev("mismatch", "agent", o, b), Ev("stale", "provider", o, o), NoAnswer}

MCOrder == <<v1, v2, v3>>
MCScope == (v1 :> "agent" @@ v2 :> "provider" @@ v3 :> "key")
MCRequests == [claim : {[provider |-> o, agent |-> a]}, truth : [Verifiers -> AnswerKinds]]
=============================================================================
