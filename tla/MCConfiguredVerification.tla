----------------------- MODULE MCConfiguredVerification -----------------------
(* ConfiguredVerification for TLC: provider o has a list of its agent a and a *)
(* strict directory; provider q has a list, DNS names and a compatible        *)
(* directory of its agent b.  At most one source ever changes.  In two other    *)
(* registries the source of agent a is an agent card, which leads to a JWK set  *)
(* that is registered too (dq) or to one that no profile registers (n).         *)
EXTENDS ConfiguredVerification, TLC
CONSTANTS la, lq, da, dq, n, o, q, a, b, x, k, m, j, none, ed, ec, pss

MCDnsScope == q :> "provider"
NoDns == [p \in {} |-> "provider"]

(* k and m are of different types; j is active at first only. *)
MCJwk ==
  k :> [methods |-> {ed}, allows |-> {ed}, sound |-> TRUE, active |-> Times] @@
  m :> [methods |-> {ec}, allows |-> {ec}, sound |-> FALSE, active |-> Times] @@
  j :> [methods |-> {pss}, allows |-> {pss, ed}, sound |-> TRUE, active |-> {0}]

MCProfile ==
  la :> [provider |-> o, scope |-> "agent", subject |-> a, authoritative |-> TRUE,
         discovery |-> "directory", compatible |-> FALSE] @@
  lq :> [provider |-> q, scope |-> "provider", subject |-> none, authoritative |-> TRUE,
         discovery |-> "directory", compatible |-> FALSE] @@
  da :> [provider |-> o, scope |-> "agent", subject |-> a, authoritative |-> FALSE,
         discovery |-> "directory", compatible |-> FALSE] @@
  dq :> [provider |-> q, scope |-> "agent", subject |-> b, authoritative |-> FALSE,
         discovery |-> "directory", compatible |-> TRUE]

Full == la :> {x} @@ lq :> {x} @@ da :> {k} @@ dq :> {j}

(* Every source says the same at all times, or one of them at some only: a     *)
(* list or dq is empty else, and da has another key.  All four are registered   *)
(* if it is da that changes; else the list of the other provider, or of o beside *)
(* dq, is left out.                                                            *)
Registered(c) == Sources \ (IF c = da THEN {} ELSE IF c = la THEN {lq} ELSE {la})

PlainWorlds ==
  {[profile |-> [s \in Registered(c) |-> MCProfile[s]],
    published |-> [s \in Registered(c) |-> [t \in Times |->
      IF s # c \/ t \in on THEN Full[s] ELSE IF s = da THEN {m} ELSE {}]]] :
     c \in Sources, on \in {{0}, {1}, Times}}

CardProfile ==
  da :> [MCProfile[da] EXCEPT !.discovery = "cimd", !.compatible = TRUE] @@
  dq :> [MCProfile[da] EXCEPT !.discovery = "jwks_uri", !.compatible = TRUE]

Always(content) == [t \in Times |-> content]
Once(t, content, other) == [u \in Times |-> IF u = t THEN content ELSE other]

(* The card delegates to e or holds a key, at all times or at first or later; or
   it holds both or nothing.  The JWK set has a key of its own, or that of the card
   at first or later. *)
CardWorlds(prof, e) ==
  {[profile |-> prof, published |-> da :> Always({e}) @@ e :> keys] :
     keys \in {Always({j}), Once(0, {k}, {m}), Once(1, {k}, {m})}}
  \cup
  {[profile |-> prof, published |-> da :> card @@ e :> keys] :
     card \in {Once(0, {k}, {e}), Once(1, {k}, {m}), Always({e, k}), Always({})},
     keys \in {Once(1, {k}, {m})}}

MCWorlds ==
  PlainWorlds \cup CardWorlds(CardProfile, dq)
  \cup CardWorlds([d \in {da} |-> CardProfile[d]], n)

Sig(key, member, fault) ==
  [key |-> key, member |-> member, fault |-> fault, named |-> FALSE,
   method |-> CHOOSE method \in Jwk[key].methods : TRUE]
Named(s) == [s EXCEPT !.named = TRUE]

MCRequests ==
  [at : Times, claim : {[provider |-> o, agent |-> a]}, address : {x}, dns : {"pass"},
   signature : {NoSignature, Sig(k, da, "none"), Sig(j, dq, "none"),
                Sig(j, "none", "none"), Named(Sig(k, da, "none"))}]
  \cup
  [at : Times, claim : {[provider |-> o, agent |-> a]}, address : {NoAddress}, dns : {"pass"},
   signature : {Sig(k, "inline", "none"), Sig(k, da, "window")}]
  \cup
  [at : Times, claim : {[provider |-> q, agent |-> b]}, address : {x}, dns : {"pass"},
   signature : {NoSignature, Sig(j, dq, "none")}]

(* The profile of Google, with two of its five lists, offline.  Each list has  *)
(* an address of its own: the lists are of different crawlers.                 *)
GoogleProfile ==
  [l \in Lists |-> [provider |-> o, scope |-> "provider", subject |-> none,
                    authoritative |-> TRUE, discovery |-> "directory", compatible |-> FALSE]] @@
  da :> [provider |-> o, scope |-> "agent", subject |-> a, authoritative |-> FALSE,
         discovery |-> "directory", compatible |-> TRUE]

GoogleWorlds ==
  {[profile |-> GoogleProfile,
    published |-> [s \in Sources |-> Always(IF s = la THEN {x} ELSE IF s = lq THEN {} ELSE {k})]]}

GoogleRequests ==
  [at : Times, claim : {[provider |-> o, agent |-> a]}, address : {x}, dns : {"unavailable"},
   signature : {NoSignature, Sig(k, da, "none")}]
=============================================================================
