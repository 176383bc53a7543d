--------------------------- MODULE IdentityResolver ---------------------------
(***************************************************************************)
(* The resolver of identity evidence (identity/resolver.py) as operators   *)
(* on a claim and a set of evidence.  The code works on a tuple sorted by   *)
(* every field that the state depends on, so a set loses nothing.          *)
(*                                                                         *)
(* Provider names are compared after casefold; here they are case-folded   *)
(* already.  None is NoName.                                               *)
(***************************************************************************)
CONSTANTS
  Providers,   \* operators, as claims and evidence name them
  Agents,      \* automated agents, and key thumbprints evidence may name
  NoName       \* None, as an authority or a subject

ASSUME NamesAssumption == NoName \notin Providers \cup Agents

Outcomes == {"pass", "mismatch", "unavailable", "indeterminate", "stale", "error"}
Neutral == {"unavailable", "indeterminate", "stale", "error"}
Scopes == {"key", "provider", "agent"}

Claims == [provider : Providers, agent : Agents]

Evidence ==
  [outcome : Outcomes, scope : Scopes,
   authority : Providers \cup {NoName},
   subject : Agents \cup Providers \cup {NoName}]

States == {"CLAIMED", "VERIFIED", "FAILED", "CONFLICTED"}

ProviderMatches(claim, e) == e.authority = claim.provider
AgentMatches(claim, e) == ProviderMatches(claim, e) /\ e.subject = claim.agent

(* Evidence that says who sent the request, and not just which key did. *)
Strong(e) == e.scope \in {"provider", "agent"}

IsAgentPass(claim, e) ==
  e.outcome = "pass" /\ e.scope = "agent" /\ AgentMatches(claim, e)

IsProviderPass(claim, e) ==
  e.outcome = "pass" /\ Strong(e) /\ ProviderMatches(claim, e)

IsForeignPass(claim, e) ==
  /\ e.outcome = "pass"
  /\ Strong(e)
  /\ \/ ~ProviderMatches(claim, e)
     \/ e.scope = "agent" /\ ~AgentMatches(claim, e)

IsApplicableMismatch(claim, e) ==
  /\ e.outcome = "mismatch"
  /\ Strong(e)
  /\ ProviderMatches(claim, e)
  /\ e.scope = "provider" \/ e.subject \in {NoName, claim.agent}

AgentPass(claim, E) == \E e \in E : IsAgentPass(claim, e)
ProviderPass(claim, E) == \E e \in E : IsProviderPass(claim, e)
ForeignPass(claim, E) == \E e \in E : IsForeignPass(claim, e)
ApplicableMismatch(claim, E) == \E e \in E : IsApplicableMismatch(claim, e)

Conflict(claim, E) ==
  \/ ForeignPass(claim, E)
  \/ ApplicableMismatch(claim, E) /\ (AgentPass(claim, E) \/ ProviderPass(claim, E))

Resolution == [state : States, provider_verified : BOOLEAN, agent_verified : BOOLEAN]

Resolve(claim, E) ==
  IF Conflict(claim, E)
    THEN [state |-> "CONFLICTED", provider_verified |-> FALSE, agent_verified |-> FALSE]
  ELSE IF AgentPass(claim, E)
    THEN [state |-> "VERIFIED", provider_verified |-> TRUE, agent_verified |-> TRUE]
  ELSE IF ApplicableMismatch(claim, E)
    THEN [state |-> "FAILED", provider_verified |-> FALSE, agent_verified |-> FALSE]
  ELSE [state |-> "CLAIMED", provider_verified |-> ProviderPass(claim, E),
        agent_verified |-> FALSE]
=============================================================================
