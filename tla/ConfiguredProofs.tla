--------------------------- MODULE ConfiguredProofs ---------------------------
(***************************************************************************)
(* What verification against cached sources establishes, for any registry,  *)
(* sources, snapshots, keys and requests: the properties of                 *)
(* ConfiguredVerification, from the invariant that every snapshot is what   *)
(* its source published once: when it was retrieved, if its 304 answers are *)
(* about the content that is held, and at some time before that if not.     *)
(***************************************************************************)
EXTENDS ConfiguredVerification, TLAPS

(* Every source of the identity of agents says of which agent.  The packaged
   registry does; load_provider_profiles does not ask for it.              *)
AgentsNamed ==
  \A w \in Worlds : \A s \in DOMAIN w.profile :
    w.profile[s].scope = "agent" => w.profile[s].subject # NoName

(* A DNS name says which provider a client belongs to, never which agent.  So do the
   packaged FCrDNS profiles; load_provider_profiles takes any scope.       *)
DnsNamesProviders == \A p \in DnsProviders : DnsScope[p] # "agent"

-----------------------------------------------------------------------------
(* The inductive invariant: a world, snapshots that are of their time, and a  *)
(* resolution that follows from them.                                       *)
InWorld == \E w \in Worlds : profile = w.profile /\ published = w.published

Faithful(u) ==
  cached[u] # NoSnapshot =>
    /\ cached[u] \in Snapshot
    /\ cached[u].retrieved <= now
    /\ u \in Tagged => cached[u].content = published[u][cached[u].retrieved]
    /\ \E t \in 0..cached[u].retrieved : cached[u].content = published[u][t]
    /\ u \in lists => cached[u].expires = cached[u].retrieved + Validity
    /\ u \in keySources /\ profile[u].discovery = "directory" => cached[u].direct
    /\ cached[u].bound \subseteq published[u][cached[u].boundFrom]

Judged ==
  asked # NoRequest =>
    /\ asked \in Requests /\ asked.at <= now
    /\ answered \subseteq Applicable(asked)
    /\ resolution = Resolve(asked.claim, {EvidenceFrom(v, asked) : v \in answered})

Inv ==
  /\ now \in Times
  /\ InWorld
  /\ DOMAIN cached = DOMAIN published
  /\ \A u \in DOMAIN published : Faithful(u)
  /\ Judged

-----------------------------------------------------------------------------
(* What the type of a world says of the one in use. *)
LEMMA WorldFacts ==
  ASSUME InWorld
  PROVE  /\ DOMAIN profile \subseteq Sources
         /\ \A s \in DOMAIN profile : profile[s] \in ProfileType
         /\ DOMAIN published \cap Sources = DOMAIN profile
         /\ DOMAIN published \subseteq Sources \cup KeySets
         /\ \A u \in DOMAIN published, t \in Times :
              /\ published[u][t] \in SUBSET (Addresses \cup Keys \cup KeySources \cup KeySets)
              /\ published[u][t] \cap (KeySources \cup KeySets) \subseteq DOMAIN published
<1>1. PICK w \in Worlds : profile = w.profile /\ published = w.published
  BY DEF InWorld
<1>2. WorldType(w)
  BY ConfiguredAssumption
<1> QED BY <1>1, <1>2 DEF WorldType, RegistryType

LEMMA RequestFacts ==
  ASSUME NEW r \in Requests
  PROVE  /\ r.at \in Times /\ r.claim.provider \in Providers /\ r.claim.agent \in Agents
         /\ r.signature # NoSignature =>
              /\ r.signature \in Signature /\ r.signature.member \in Members
              /\ r.signature.key \in Keys /\ r.signature.fault \in Faults
              /\ r.signature.method \in Methods /\ r.signature.named \in BOOLEAN
BY ConfiguredAssumption DEF RequestType, Claims, Signature

LEMMA Numbers ==
  /\ Validity \in Nat /\ MaxTime \in Nat /\ Never \in Nat
  /\ \A age \in MaxAges : age \in Nat
  /\ \A t \in Times : t \in Nat /\ t \in 0..MaxTime
BY ConfiguredAssumption DEF Never, Times

LEMMA InitInv == Init => Inv
<1> SUFFICES ASSUME Init PROVE Inv
  OBVIOUS
<1>1. now \in Times
  BY Numbers DEF Init, Times
<1>2. InWorld
  BY DEF Init, InWorld
<1> QED BY <1>1, <1>2 DEF Init, Inv, Faithful, Judged

(* Evidence does not change while the snapshots do not. *)
LEMMA JudgedAgain ==
  ASSUME NEW v, NEW r, UNCHANGED <<profile, published, cached>>
  PROVE  EvidenceFrom(v, r)' = EvidenceFrom(v, r)
<1>1. ListEvidence(v, r)' = ListEvidence(v, r)
  BY DEF ListEvidence, ListOutcome, Stale, Listed
<1>2. \A u, type, at : Required(u, type, at)' = Required(u, type, at)
  BY DEF Required, Allows, Stale, keySources
<1>3. \A d : Delegates(d)' = Delegates(d)
  BY DEF Delegates
<1>4. \A d : KeyDocument(d)' = KeyDocument(d)
  <2> SUFFICES ASSUME NEW d PROVE KeyDocument(d)' = KeyDocument(d)
    OBVIOUS
  <2>1. Delegates(d)' = Delegates(d)
    BY <1>3
  <2>2. (CHOOSE e \in Delegates(d) : TRUE)' = (CHOOSE e \in Delegates(d) : TRUE)
    BY <2>1, Zenon
  <2> QED BY <2>1, <2>2 DEF KeyDocument
<1>5. \A d, at : CardMaterial(d, at)' = CardMaterial(d, at)
  BY <1>2, <1>3, <1>4 DEF CardMaterial
<1>6. \A d, at : Material(d, at)' = Material(d, at)
  BY <1>2, <1>5 DEF Material, Stale
<1>7. KeyOutcome(v, r)' = KeyOutcome(v, r)
  BY <1>4, <1>6 DEF KeyOutcome
<1>8. KeepsScope(v, r)' = KeepsScope(v, r)
  BY <1>4 DEF KeepsScope, Bound
<1>9. KeyEvidence(v, r)' = KeyEvidence(v, r)
  BY <1>7, <1>8 DEF KeyEvidence
<1> QED BY <1>1, <1>9 DEF EvidenceFrom

(* A snapshot that is of its time may take the place of another. *)
LEMMA PutFaithful ==
  ASSUME Inv, NEW d \in DOMAIN published, NEW s \in Snapshot,
         DOMAIN cached' = DOMAIN cached, cached'[d] = s,
         \A u \in DOMAIN published \ {d} : cached'[u] = cached[u],
         asked = NoRequest, UNCHANGED <<now, profile, published, asked>>,
         s.retrieved <= now,
         d \in Tagged => s.content = published[d][s.retrieved],
         \E t \in 0..s.retrieved : s.content = published[d][t],
         d \in lists => s.expires = s.retrieved + Validity,
         d \in keySources /\ profile[d].discovery = "directory" => s.direct,
         s.bound \subseteq published[d][s.boundFrom]
  PROVE  Inv'
<1>1. ASSUME NEW u \in DOMAIN published PROVE Faithful(u)'
  <2>1. CASE u = d
    BY <2>1 DEF Faithful, lists, keySources
  <2>2. CASE u # d
    BY <2>2 DEF Inv, Faithful, lists, keySources
  <2> QED BY <2>1, <2>2
<1> QED BY <1>1 DEF Inv, InWorld, Judged

LEMMA StepInv == Inv /\ [Next]_vars => Inv'
<1> SUFFICES ASSUME Inv, [Next]_vars PROVE Inv'
  OBVIOUS
<1>0. /\ DOMAIN cached = DOMAIN published
      /\ InWorld /\ now \in Times /\ now \in Nat /\ now <= MaxTime
      /\ DOMAIN profile \subseteq DOMAIN published /\ lists \subseteq DOMAIN published
      /\ keySources \subseteq DOMAIN published /\ lists \cap keySources = {}
  BY WorldFacts, Numbers, ConfiguredAssumption DEF Inv, lists, keySources, Times
<1>a. now \in 0..now
  BY <1>0
<1>b. \A u \in DOMAIN published :
        published[u][now] \in SUBSET (Addresses \cup Keys \cup KeySources \cup KeySets)
  BY <1>0, WorldFacts
<1>1. CASE Tick
  <2>1. now' \in Times /\ now <= now'
    BY <1>0, <1>1, Numbers DEF Tick, Times
  <2>2. \A u \in DOMAIN published : Faithful(u)'
    <3> SUFFICES ASSUME NEW u \in DOMAIN published, cached[u] # NoSnapshot PROVE Faithful(u)'
      BY <1>1 DEF Tick, Faithful
    <3>1. Faithful(u) /\ cached[u].retrieved \in Nat
      BY Numbers DEF Inv, Faithful, Snapshot
    <3>2. cached[u].retrieved <= now'
      BY <1>0, <2>1, <3>1, Numbers DEF Faithful
    <3> QED BY <1>1, <3>1, <3>2 DEF Tick, Faithful, lists, keySources
  <2> QED BY <1>1, <2>1, <2>2 DEF Tick, Inv, InWorld, Judged
<1>8. ASSUME NEW d \in DOMAIN published, NotModified(d)
      PROVE  /\ Faithful(d) /\ cached[d] \in Snapshot
             /\ d \in Tagged => cached[d].content = published[d][now]
             /\ \E t \in 0..now : cached[d].content = published[d][t]
  <2>1. Faithful(d) /\ cached[d] \in Snapshot /\ cached[d].retrieved <= now
    BY <1>8 DEF Inv, Faithful, NotModified
  <2>2. cached[d].retrieved \in Nat
    BY <2>1, Numbers DEF Snapshot
  <2>3. PICK t \in 0..cached[d].retrieved : cached[d].content = published[d][t]
    BY <1>8, <2>1 DEF Faithful, NotModified
  <2>4. t \in 0..now
    BY <1>0, <2>1, <2>2, <2>3
  <2> QED BY <1>8, <2>1, <2>3, <2>4 DEF NotModified
<1>2. ASSUME NEW l \in lists, RefreshList(l) PROVE Inv'
  <2>1. /\ now + Validity \in Nat /\ now \in Nat
        /\ "ip_ranges" \in DocumentTypes /\ l \notin keySources
    BY <1>0, Numbers DEF DocumentTypes
  <2>2. l \in DOMAIN published
    BY <1>0
  <2> DEFINE s == ListSnapshot(l)
  <2>0. s = Retrieved(l, "ip_ranges", TRUE, now + Validity, {}, now)
    BY DEF ListSnapshot
  <2> HIDE DEF s
  <2>3. /\ s \in Snapshot /\ s.retrieved = now /\ s.content = published[l][now]
        /\ s.expires = now + Validity /\ s.bound = {}
    BY <1>0, <1>b, <2>0, <2>1, <2>2 DEF Retrieved, Snapshot
  <2>4. /\ DOMAIN cached' = DOMAIN cached /\ cached'[l] = s
        /\ \A e \in DOMAIN published \ {l} : cached'[e] = cached[e]
        /\ asked = NoRequest /\ UNCHANGED <<now, profile, published, asked>>
    BY <1>0, <1>2, <2>2 DEF RefreshList, s
  <2> QED BY <1>0, <1>a, <2>1, <2>2, <2>3, <2>4, PutFaithful
<1>9. ASSUME NEW l \in lists, RenewList(l) PROVE Inv'
  <2>1. /\ l \in DOMAIN published /\ l \notin keySources /\ asked = NoRequest
        /\ NotModified(l) /\ UNCHANGED <<now, profile, published, asked>>
        /\ now + Validity \in Nat
    BY <1>0, <1>9, Numbers DEF RenewList
  <2>2. /\ Faithful(l) /\ cached[l] \in Snapshot /\ cached[l] # NoSnapshot
        /\ l \in Tagged => cached[l].content = published[l][now]
        /\ \E t \in 0..now : cached[l].content = published[l][t]
    BY <1>8, <2>1 DEF NotModified
  <2> DEFINE s == [cached[l] EXCEPT !.retrieved = now, !.expires = now + Validity]
  <2>3. /\ DOMAIN cached' = DOMAIN cached /\ cached'[l] = s
        /\ \A e \in DOMAIN published \ {l} : cached'[e] = cached[e]
    BY <1>0, <1>9, <2>1 DEF RenewList
  <2>4. /\ s \in Snapshot /\ s.retrieved = now /\ s.content = cached[l].content
        /\ s.expires = now + Validity /\ s.bound = cached[l].bound
        /\ s.boundFrom = cached[l].boundFrom
    BY <1>0, <2>1, <2>2 DEF Snapshot
  <2> HIDE DEF s
  <2> QED BY <1>0, <2>1, <2>2, <2>3, <2>4, PutFaithful DEF Faithful
<1>3. ASSUME NEW d \in keySources, FetchKeys(d) PROVE Inv'
  <2>1. d \in DOMAIN published /\ d \notin lists
    BY <1>0
  <2>2. PICK expires \in {now + age : age \in MaxAges} \cup {Never},
             bound \in {{}} \cup (IF d \in Signing THEN {published[d][now]} ELSE {}),
             until \in {now} \cup now..MaxTime :
          cached' = [cached EXCEPT ![d] =
                       Retrieved(d, "key_directory", TRUE, expires, bound, until)]
    BY <1>3 DEF FetchKeys
  <2>3. expires \in Nat /\ until \in Nat /\ bound \subseteq published[d][now]
        /\ "key_directory" \in DocumentTypes /\ TRUE \in BOOLEAN
    BY <1>0, <2>2, Numbers DEF DocumentTypes
  <2> DEFINE s == Retrieved(d, "key_directory", TRUE, expires, bound, until)
  <2>0. s = Retrieved(d, "key_directory", TRUE, expires, bound, until)
    OBVIOUS
  <2> HIDE DEF s
  <2>4. /\ s \in Snapshot /\ s.retrieved = now /\ s.content = published[d][now]
        /\ s.direct = TRUE /\ s.bound = bound /\ s.boundFrom = now
    BY <1>0, <1>b, <2>0, <2>1, <2>3 DEF Retrieved, Snapshot
  <2>5. /\ DOMAIN cached' = DOMAIN cached /\ cached'[d] = s
        /\ \A e \in DOMAIN published \ {d} : cached'[e] = cached[e]
        /\ asked = NoRequest /\ UNCHANGED <<now, profile, published, asked>>
    BY <1>0, <1>3, <2>1, <2>2 DEF FetchKeys, s
  <2> QED BY <1>0, <1>a, <2>1, <2>3, <2>4, <2>5, PutFaithful
<1>4. ASSUME NEW d \in keySources, RevalidateKeys(d) PROVE Inv'
  <2>1. d \in DOMAIN published /\ d \notin lists /\ cached[d] # NoSnapshot /\ asked = NoRequest
        /\ NotModified(d)
        /\ UNCHANGED <<now, profile, published, asked>>
    BY <1>0, <1>4 DEF RevalidateKeys, NotModified
  <2>2. /\ Faithful(d) /\ cached[d] \in Snapshot
        /\ d \in Tagged => cached[d].content = published[d][now]
        /\ \E t \in 0..now : cached[d].content = published[d][t]
    BY <1>8, <2>1
  <2>3. PICK expires \in {now + age : age \in MaxAges} \cup {cached[d].expires} :
          cached' = [cached EXCEPT ![d].retrieved = now, ![d].expires = expires,
                                   ![d].type = "key_directory"]
    BY <1>4 DEF RevalidateKeys
  <2>4. expires \in Nat
    BY <1>0, <2>2, <2>3, Numbers DEF Snapshot
  <2> DEFINE s == [cached[d] EXCEPT !.retrieved = now, !.expires = expires,
                                    !.type = "key_directory"]
  <2>5. /\ DOMAIN cached' = DOMAIN cached /\ cached'[d] = s
        /\ \A e \in DOMAIN published \ {d} : cached'[e] = cached[e]
    BY <2>1, <2>3 DEF Inv
  <2>6. /\ s \in Snapshot /\ s.retrieved = now /\ s.content = cached[d].content
        /\ s.direct = cached[d].direct /\ s.bound = cached[d].bound
        /\ s.boundFrom = cached[d].boundFrom
    BY <1>0, <2>2, <2>4 DEF Snapshot, DocumentTypes
  <2> HIDE DEF s
  <2> QED BY <1>0, <2>1, <2>2, <2>5, <2>6, PutFaithful DEF Faithful
<1>5. ASSUME NEW u \in DOMAIN published \ lists,
             u \in KeySources => profile[u].discovery # "directory", Provision(u)
      PROVE  Inv'
  <2>1. PICK expires \in {now + age : age \in MaxAges} \cup {Never}, direct \in BOOLEAN :
          cached' = [cached EXCEPT ![u] =
            Retrieved(u, IF u \in KeySources /\ profile[u].discovery = "cimd"
                           THEN "agent_card" ELSE "jwk_set", direct, expires, {}, now)]
    BY <1>5 DEF Provision
  <2> DEFINE type == IF u \in KeySources /\ profile[u].discovery = "cimd"
                       THEN "agent_card" ELSE "jwk_set"
             s == Retrieved(u, type, direct, expires, {}, now)
  <2>2. expires \in Nat /\ type \in DocumentTypes /\ u \notin lists
    BY <1>0, <2>1, Numbers DEF DocumentTypes
  <2>3. u \in keySources => profile[u].discovery # "directory"
    BY <1>5 DEF keySources
  <2>4. /\ s \in Snapshot /\ s.retrieved = now /\ s.content = published[u][now]
        /\ s.bound = {}
    <3> HIDE DEF type
    <3> QED BY <1>0, <1>b, <2>1, <2>2 DEF Retrieved, Snapshot
  <2>5. /\ DOMAIN cached' = DOMAIN cached /\ cached'[u] = s
        /\ \A e \in DOMAIN published \ {u} : cached'[e] = cached[e]
        /\ asked = NoRequest /\ UNCHANGED <<now, profile, published, asked>>
    BY <1>0, <1>5, <2>1 DEF Provision
  <2> HIDE DEF s, type
  <2> QED BY <1>0, <1>a, <2>2, <2>3, <2>4, <2>5, PutFaithful
<1>6. ASSUME NEW r \in Requests, Verify(r) PROVE Inv'
  <2>1. /\ r.at <= now /\ asked' = r /\ answered' \subseteq Applicable(r)
        /\ resolution' = Resolve(r.claim, {EvidenceFrom(v, r) : v \in answered'})
        /\ UNCHANGED <<now, profile, published, cached>>
    BY <1>6 DEF Verify
  <2>2. \A v : EvidenceFrom(v, r)' = EvidenceFrom(v, r)
    BY <2>1, JudgedAgain
  <2>3. Applicable(r)' = Applicable(r)
    BY <2>1 DEF Applicable, lists, keySources
  <2>4. \A v : EvidenceFrom(v, asked)' = EvidenceFrom(v, r)
    BY <2>1, <2>2
  <2>5. {EvidenceFrom(v, asked) : v \in answered}' = {EvidenceFrom(v, r) : v \in answered'}
    BY <2>4
  <2>6. Judged'
    BY <2>1, <2>3, <2>5 DEF Judged
  <2> QED BY <2>1, <2>6 DEF Inv, InWorld, Faithful, lists, keySources
<1>7. CASE Return \/ UNCHANGED vars
  <2>1. UNCHANGED <<now, profile, published, cached>>
    BY <1>7 DEF Return, vars
  <2>2. Judged'
    <3>1. CASE Return
      BY <3>1 DEF Return, Judged
    <3>2. CASE UNCHANGED vars
      <4>1. \A v : EvidenceFrom(v, asked)' = EvidenceFrom(v, asked)
        BY <2>1, <3>2, JudgedAgain DEF vars
      <4>2. Applicable(asked)' = Applicable(asked)
        BY <3>2 DEF vars, Applicable, lists, keySources
      <4> QED BY <3>2, <4>1, <4>2 DEF vars, Inv, Judged
    <3> QED BY <1>7, <3>1, <3>2
  <2> QED BY <2>1, <2>2 DEF Inv, InWorld, Faithful, lists, keySources
<1> QED BY <1>1, <1>2, <1>3, <1>4, <1>5, <1>6, <1>7, <1>9 DEF Next

LEMMA Invariance == Spec => []Inv
BY InitInv, StepInv, PTL DEF Spec

-----------------------------------------------------------------------------
(* What a source said once. *)
LEMMA ContentFacts ==
  ASSUME Inv, NEW u \in DOMAIN published, cached[u] # NoSnapshot
  PROVE  /\ cached[u].retrieved \in 0..now
         /\ \E t \in 0..cached[u].retrieved : t \in 0..now /\ cached[u].content = published[u][t]
         /\ \E t \in Times : cached[u].content = published[u][t]
<1>1. Faithful(u) /\ now \in Times
  BY DEF Inv
<1>2. /\ cached[u].retrieved \in Nat /\ cached[u].retrieved <= now
      /\ now \in Nat /\ now <= MaxTime
  BY <1>1, Numbers DEF Faithful, Snapshot, Times
<1>3. PICK t \in 0..cached[u].retrieved : cached[u].content = published[u][t]
  BY <1>1 DEF Faithful
<1>4. t \in 0..now /\ t \in Times
  BY <1>2, <1>3, Numbers DEF Times
<1> QED BY <1>2, <1>3, <1>4

(* What the verifiers of a request are, and what a list says of it. *)
LEMMA ListFacts ==
  ASSUME Inv, NEW r \in Requests, r.at <= now, NEW l \in Lists \cap Applicable(r)
  PROVE  /\ l \in lists /\ profile[l] \in ProfileType /\ l \in DOMAIN published
         /\ EvidenceFrom(l, r) = ListEvidence(l, r)
         /\ profile[l].provider = r.claim.provider
         /\ profile[l].subject \in {NoName, r.claim.agent}
         /\ ListOutcome(l, r) = "pass" => ListVouches(l, r)
<1>1. /\ l \notin KeySources /\ l \notin {"fcrdns", "inline"}
  BY ConfiguredAssumption DEF Sources
<1>2. l \in lists /\ profile[l].provider = r.claim.provider
      /\ profile[l].subject \in {NoName, r.claim.agent}
  BY <1>1 DEF Applicable, keySources
<1>3. profile[l] \in ProfileType /\ l \in DOMAIN published
  BY <1>2, WorldFacts DEF Inv, lists
<1>4. EvidenceFrom(l, r) = ListEvidence(l, r)
  BY <1>1 DEF EvidenceFrom
<1>5. ASSUME ListOutcome(l, r) = "pass" PROVE ListVouches(l, r)
  <2>1. cached[l] # NoSnapshot /\ ~Stale(l, r.at) /\ Listed(l, r.address)
    BY <1>5 DEF ListOutcome
  <2>2. Faithful(l) /\ cached[l].retrieved \in Nat
    BY <1>3, <2>1, Numbers DEF Inv, Faithful, Snapshot
  <2>3. /\ cached[l].retrieved \in 0..now
        /\ r.at <= cached[l].retrieved + Validity
        /\ r.address \in cached[l].content
    BY <1>2, <2>1, <2>2, RequestFacts, Numbers DEF Faithful, Stale, Listed, Inv
  <2>4. CASE l \in Tagged
    BY <1>2, <2>1, <2>2, <2>3, <2>4 DEF ListVouches, Faithful
  <2>5. CASE l \notin Tagged
    <3>1. \E t \in 0..now : cached[l].content = published[l][t]
      BY <1>3, <2>1, ContentFacts
    <3> QED BY <1>2, <2>3, <2>5, <3>1 DEF ListVouches
  <2> QED BY <2>4, <2>5
<1> QED BY <1>2, <1>3, <1>4, <1>5

(* A source of keys, and the document that holds them. *)
LEMMA KeyFacts ==
  ASSUME Inv, NEW r \in Requests, NEW d \in KeySources \cap Applicable(r)
  PROVE  /\ d \in keySources /\ profile[d] \in ProfileType /\ d \in DOMAIN published \ lists
         /\ EvidenceFrom(d, r) = KeyEvidence(d, r)
         /\ r.signature # NoSignature
<1>1. d \notin Lists /\ d \notin {"fcrdns", "inline"}
  BY ConfiguredAssumption DEF Sources
<1>2. d \in keySources /\ r.signature # NoSignature
  BY <1>1 DEF Applicable, lists
<1>3. profile[d] \in ProfileType /\ d \in DOMAIN published \ lists
  BY <1>1, <1>2, WorldFacts DEF Inv, keySources, lists
<1>4. EvidenceFrom(d, r) = KeyEvidence(d, r)
  BY <1>1 DEF EvidenceFrom
<1> QED BY <1>2, <1>3, <1>4

(* Whether there are keys, and where they then are. *)
LEMMA MaterialFacts ==
  ASSUME Inv, NEW d \in keySources, NEW at
  PROVE  Material(d, at) \in {"unavailable", "stale", "error", "found"}
<1>1. profile[d].discovery \in Discoveries
  BY WorldFacts DEF Inv, keySources, ProfileType
<1>2. \A u, type : Required(u, type, at) \in {"unavailable", "stale", "error", "found"}
  BY DEF Required
<1>3. CardMaterial(d, at) \in {"unavailable", "stale", "error", "found"}
  BY <1>2 DEF CardMaterial
<1> QED BY <1>1, <1>2, <1>3 DEF Material, Discoveries

LEMMA FoundFacts ==
  ASSUME Inv, NEW d \in keySources, NEW at \in Times, Material(d, at) = "found"
  PROVE  LET e == KeyDocument(d)
         IN /\ cached[d] # NoSnapshot /\ cached[e] # NoSnapshot
            /\ ~Stale(d, at) /\ ~Stale(e, at)
            /\ e \in DOMAIN published \ lists
            /\ e = d \/ (e \in cached[d].content /\ Allows(e))
<1>0. /\ profile[d] \in ProfileType /\ d \in DOMAIN published \ lists
      /\ d \in KeySources
  BY WorldFacts, ConfiguredAssumption DEF Inv, keySources, lists
<1>1. profile[d].discovery \in Discoveries
  BY <1>0 DEF ProfileType
<1>2. CASE Delegates(d) = {}
  <2>1. KeyDocument(d) = d
    BY <1>2 DEF KeyDocument
  <2>2. cached[d] # NoSnapshot /\ ~Stale(d, at)
    BY <1>1 DEF Material, Required, Discoveries
  <2> QED BY <1>0, <2>1, <2>2
<1>3. CASE Delegates(d) # {}
  <2> DEFINE e == KeyDocument(d)
  <2>1. e \in Delegates(d)
    BY <1>3 DEF KeyDocument
  <2>2. /\ profile[d].discovery = "cimd" /\ cached[d] # NoSnapshot
        /\ e \in cached[d].content /\ e \in KeySources \cup KeySets
    BY <2>1 DEF Delegates
  <2>3. Required(d, "agent_card", at) = "found" /\ CardMaterial(d, at) = "found"
    BY <2>2 DEF Material
  <2>4. Required(e, "jwk_set", at) = "found"
    BY <1>3, <2>3 DEF CardMaterial
  <2>5. /\ ~Stale(d, at) /\ ~Stale(e, at) /\ cached[e] # NoSnapshot /\ Allows(e)
    BY <2>3, <2>4 DEF Required
  <2>6. e \in DOMAIN published \ lists
    <3>1. \E t \in Times : cached[d].content = published[d][t]
      BY <1>0, <2>2, ContentFacts
    <3> HIDE DEF e
    <3> QED BY <1>0, <2>2, <3>1, WorldFacts, ConfiguredAssumption DEF Inv, lists, Sources
  <2> QED BY <2>2, <2>5, <2>6
<1> QED BY <1>2, <1>3

(* Verification by RFC 9421 alone, and when its candidates cannot judge a signature. *)
Verifies(keys, s) ==
  /\ Selects(keys, s) /\ s.fault \notin {"window", "forged"}
  /\ s.method \in Jwk[s.key].methods /\ Jwk[s.key].sound

LEMMA RfcFacts ==
  ASSUME NEW keys, NEW s
  PROVE  /\ RfcOutcome(keys, s) \in {"pass", "error", "unavailable", "mismatch"}
         /\ RfcOutcome(keys, s) = "pass" <=> Verifies(keys, s)
<1>1. ASSUME NEW method \in Candidates(keys), Attempt(keys, s, method) = "pass"
      PROVE  Verifies(keys, s)
  BY <1>1 DEF Attempt, Verifies
<1>2. ASSUME Verifies(keys, s)
      PROVE  s.method \in Candidates(keys) /\ Attempt(keys, s, s.method) = "pass"
  BY <1>2 DEF Attempt, Verifies, Selects, Candidates
<1>3. "pass" \in {Attempt(keys, s, method) : method \in Candidates(keys)} <=> Verifies(keys, s)
  BY <1>1, <1>2
<1> QED BY <1>3 DEF RfcOutcome

LEMMA SignatureFacts ==
  ASSUME NEW keys, NEW named, NEW s, NEW at
  PROVE  /\ SignatureOutcome(keys, named, s, at) \in {"pass", "error", "unavailable", "mismatch"}
         /\ SignatureOutcome(keys, named, s, at) = "pass" =>
              Verifies(keys, s) /\ Accepts(s.key, s.method, at) /\ named
         /\ s.member # "malformed" /\ Verifies(keys, s) /\ Accepts(s.key, s.method, at) /\ named =>
              SignatureOutcome(keys, named, s, at) = "pass"
BY RfcFacts DEF SignatureOutcome

(* A signature without a fault, whose key is not among those that could verify it. *)
LEMMA UnverifiedFacts ==
  ASSUME NEW keys, NEW s, s.fault = "none", s.named \in BOOLEAN, ~Verifies(keys, s),
         Selects(keys, s) /\ Jwk[s.key].methods # {} => s.method \in Jwk[s.key].methods
  PROVE  RfcOutcome(keys, s) = "mismatch"
           <=> /\ ~(Selects(keys, s) /\ Jwk[s.key].methods # {})
               /\ \/ Candidates(keys) = {}
                  \/ s.named /\ \E method \in Candidates(keys) : method # s.method
<1> DEFINE known == Selects(keys, s) /\ Jwk[s.key].methods # {}
           tried == {Attempt(keys, s, method) : method \in Candidates(keys)}
<1>1. "pass" \notin tried
  BY RfcFacts DEF Attempt, Verifies
<1>2. CASE known
  <2>1. ~Jwk[s.key].sound
    BY <1>2 DEF Verifies
  <2>2. s.method \in Candidates(keys)
    BY <1>2 DEF Candidates, Selects
  <2>3. Attempt(keys, s, s.method) = "error"
    BY <1>2, <2>1 DEF Attempt
  <2>4. "error" \in tried
    BY <2>2, <2>3
  <2> QED BY <1>1, <1>2, <2>4 DEF RfcOutcome
<1>3. CASE ~known
  <2>1. ASSUME NEW method \in Candidates(keys)
        PROVE  Attempt(keys, s, method)
                 = IF s.named /\ method # s.method THEN "mismatch" ELSE "unavailable"
    BY <1>3 DEF Attempt
  <2>2. "error" \notin tried
    BY <2>1
  <2>3. CASE Candidates(keys) = {}
    <3>1. \A o \in tried : FALSE
      BY <2>3
    <3>2. tried # {"unavailable"}
      BY <3>1
    <3> QED BY <1>1, <1>3, <2>2, <2>3, <3>2 DEF RfcOutcome
  <2>4. CASE Candidates(keys) # {}
    <3>1. CASE s.named /\ \E method \in Candidates(keys) : method # s.method
      <4>1. "mismatch" \in tried
        BY <2>1, <3>1
      <4> QED BY <1>1, <1>3, <2>2, <3>1, <4>1 DEF RfcOutcome
    <3>2. CASE ~(s.named /\ \E method \in Candidates(keys) : method # s.method)
      <4>1. \A method \in Candidates(keys) : Attempt(keys, s, method) = "unavailable"
        BY <2>1, <3>2
      <4>2. tried = {"unavailable"}
        BY <2>4, <4>1
      <4> QED BY <2>4, <3>2, <4>2 DEF RfcOutcome
    <3> QED BY <3>1, <3>2
  <2> QED BY <2>3, <2>4
<1> QED BY <1>2, <1>3

(* What a passing signature took. *)
LEMMA PassFacts ==
  ASSUME Inv, NEW r \in Requests, NEW d \in KeySources \cap Applicable(r),
         KeyOutcome(d, r) = "pass"
  PROVE  /\ Material(d, r.at) = "found"
         /\ r.signature.key \in cached[KeyDocument(d)].content
         /\ r.signature.member \in {d, "none"} /\ Good(r.signature, r.at)
<1>1. Material(d, r.at) = "found"
  BY KeyFacts, MaterialFacts DEF KeyOutcome
<1>2. SignatureOutcome(cached[KeyDocument(d)].content, Names(d, r.signature.member),
                       r.signature, r.at) = "pass"
  BY <1>1 DEF KeyOutcome
<1>3. r.signature.fault \in Faults
  BY KeyFacts, RequestFacts
<1>4. /\ Verifies(cached[KeyDocument(d)].content, r.signature)
      /\ Accepts(r.signature.key, r.signature.method, r.at)
      /\ Names(d, r.signature.member)
  BY <1>2, SignatureFacts
<1> QED BY <1>1, <1>3, <1>4 DEF Verifies, Selects, Names, Good, Accepts, MayBeUsed, Faults

(* A passing signature that keeps its scope was made with a key the source vouches for. *)
LEMMA PassVouches ==
  ASSUME Inv, NEW r \in Requests, r.at <= now, NEW d \in KeySources \cap Applicable(r),
         KeyOutcome(d, r) = "pass", KeepsScope(d, r), profile[d].provider = r.claim.provider
  PROVE  KeysVouch(d, r)
<1> DEFINE e == KeyDocument(d)
           key == r.signature.key
<1>1. d \in keySources /\ d \in DOMAIN published /\ r.signature # NoSignature /\ r.at \in Times
  BY KeyFacts, RequestFacts
<1>2. /\ cached[d] # NoSnapshot /\ cached[e] # NoSnapshot /\ e \in DOMAIN published
      /\ e = d \/ (e \in cached[d].content /\ Allows(e))
  BY <1>1, PassFacts, FoundFacts
<1>3. key \in cached[e].content /\ r.signature.member \in {d, "none"} /\ Good(r.signature, r.at)
  BY PassFacts
<1>4. Faithful(d) /\ Faithful(e)
  BY <1>1, <1>2 DEF Inv
<1> HIDE DEF e, key
<1>5. \E t \in 0..r.at : key \in published[e][t]
  <2>1. CASE cached[e].retrieved <= r.at
    <3>1. PICK t \in 0..cached[e].retrieved : t \in 0..now /\ cached[e].content = published[e][t]
      BY <1>2, ContentFacts
    <3>2. t \in 0..r.at
      BY <1>1, <1>2, <2>1, <3>1, ContentFacts, Numbers
    <3> QED BY <1>3, <3>1, <3>2
  <2>2. CASE Bound(d, key, r.at)
    <3>1. key \in cached[e].bound /\ cached[e].boundFrom <= r.at
      BY <2>2 DEF Bound, e
    <3>2. cached[e].boundFrom \in Nat
      BY <1>2, <1>4, Numbers DEF Faithful, Snapshot
    <3> QED BY <1>1, <1>2, <1>4, <3>1, <3>2, Numbers DEF Faithful
  <2> QED BY <2>1, <2>2 DEF KeepsScope, e, key
<1>6. e = d \/ ((\E t \in 0..now : e \in published[d][t]) /\ Allows(e))
  <2>1. \E t \in 0..now : cached[d].content = published[d][t]
    BY <1>1, <1>2, ContentFacts
  <2> QED BY <1>2, <2>1
<1>7. e \in {d} \cup
        {u \in DOMAIN published \cap UNION {published[d][t] : t \in 0..now} : Allows(u)}
  <2>1. CASE e = d
    BY <2>1
  <2>2. CASE e # d
    <3>1. Allows(e) /\ \E t \in 0..now : e \in published[d][t]
      BY <1>6, <2>2
    <3>2. e \in UNION {published[d][t] : t \in 0..now}
      BY <3>1
    <3> QED BY <1>2, <3>1, <3>2, Zenon
  <2> QED BY <2>1, <2>2
<1> QED BY <1>1, <1>3, <1>5, <1>7 DEF KeysVouch, key

-----------------------------------------------------------------------------
(* What the resolver makes of the evidence.  E is any set of evidence. *)
LEMMA ResolveFacts ==
  ASSUME NEW claim, NEW E
  PROVE  LET res == Resolve(claim, E)
         IN /\ res.provider_verified => ProviderPass(claim, E)
            /\ res.agent_verified => AgentPass(claim, E)
            /\ ForeignPass(claim, E) => res.state = "CONFLICTED"
            /\ ApplicableMismatch(claim, E) => res.state \in {"FAILED", "CONFLICTED"}
            /\ ~ForeignPass(claim, E) /\ ~ApplicableMismatch(claim, E) =>
                 /\ res.state \in {"VERIFIED", "CLAIMED"}
                 /\ ~AgentPass(claim, E) => res.state = "CLAIMED"
            /\ ~ForeignPass(claim, E) /\ ~ProviderPass(claim, E) =>
                 res.state \in {"CLAIMED", "FAILED"}
BY DEF Resolve, Conflict, AgentPass, ProviderPass, IsAgentPass, IsProviderPass, AgentMatches,
  Strong

(* Which verifiers there are. *)
LEMMA VerifierCases ==
  ASSUME NEW r, NEW v \in Applicable(r)
  PROVE  v \in Lists \/ v \in KeySources \/ v = "fcrdns" \/ v = "inline"
BY DEF Applicable, lists, keySources

LEMMA OtherFacts ==
  ASSUME NEW r
  PROVE  /\ EvidenceFrom("fcrdns", r) = DnsEvidence(r)
         /\ EvidenceFrom("inline", r).scope = "key"
<1>1. EvidenceFrom("fcrdns", r) = DnsEvidence(r) /\ EvidenceFrom("inline", r) = InlineEvidence(r)
  BY ConfiguredAssumption DEF EvidenceFrom, Sources
<1>2. InlineEvidence(r).scope = "key"
  BY DEF InlineEvidence
<1> QED BY <1>1, <1>2

LEMMA DnsApplies ==
  ASSUME NEW r, "fcrdns" \in Applicable(r)
  PROVE  r.claim.provider \in DnsProviders
<1>1. "fcrdns" \notin Lists \cup KeySources
  BY ConfiguredAssumption DEF Sources
<1> QED BY <1>1 DEF Applicable, lists, keySources

(* A strong pass comes from a source that vouches for the request. *)
LEMMA StrongPass ==
  ASSUME Inv, NEW r \in Requests, r.at <= now, NEW v \in Applicable(r),
         IsProviderPass(r.claim, EvidenceFrom(v, r))
  PROVE  \/ v \in Lists /\ ListVouches(v, r)
         \/ v \in KeySources /\ KeysVouch(v, r)
         \/ v = "fcrdns" /\ r.dns = "pass"
<1>1. CASE v \in Lists
  BY <1>1, ListFacts DEF IsProviderPass, ListEvidence
<1>2. CASE v \in KeySources
  <2>1. /\ EvidenceFrom(v, r) = KeyEvidence(v, r)
    BY <1>2, KeyFacts
  <2>2. KeyOutcome(v, r) = "pass" /\ profile[v].provider = r.claim.provider
    BY <2>1 DEF IsProviderPass, ProviderMatches, KeyEvidence
  <2>3. KeepsScope(v, r)
    BY <2>1, <2>2 DEF IsProviderPass, Strong, KeyEvidence
  <2> QED BY <1>2, <2>2, <2>3, PassVouches
<1>3. CASE v = "fcrdns"
  <2>1. EvidenceFrom(v, r) = DnsEvidence(r)
    BY <1>3, OtherFacts
  <2> QED BY <1>3, <2>1 DEF IsProviderPass, DnsEvidence
<1>4. CASE v = "inline"
  BY <1>4, OtherFacts DEF IsProviderPass, Strong
<1> QED BY <1>1, <1>2, <1>3, <1>4, VerifierCases

(* What verification establishes was published by a source of the claim in time: a list
   or key of the provider, of the agent if the agent is established.       *)
THEOREM EstablishedPublished ==
  ASSUME AgentsNamed, DnsNamesProviders
  PROVE  Spec => []EstablishedWasPublished
<1>1. Inv => EstablishedWasPublished
  <2> SUFFICES ASSUME Inv, asked # NoRequest PROVE EstablishedWasPublished
    BY DEF EstablishedWasPublished
  <2> DEFINE E == {EvidenceFrom(v, asked) : v \in answered}
  <2>1. /\ asked \in Requests /\ asked.at <= now /\ answered \subseteq Applicable(asked)
        /\ resolution = Resolve(asked.claim, E)
    BY DEF Inv, Judged
  <2>2. ASSUME resolution.provider_verified
        PROVE  \/ \E l \in Lists \cap answered : ListVouches(l, asked)
               \/ \E d \in KeySources \cap answered : KeysVouch(d, asked)
               \/ "fcrdns" \in answered /\ asked.dns = "pass"
    <3>1. PICK v \in answered : IsProviderPass(asked.claim, EvidenceFrom(v, asked))
      BY <2>1, <2>2, ResolveFacts DEF ProviderPass
    <3> QED BY <2>1, <3>1, StrongPass
  <2>3. ASSUME resolution.agent_verified
        PROVE  \E s \in Sources \cap answered :
                 /\ profile[s].scope = "agent" /\ profile[s].subject = asked.claim.agent
                 /\ IF s \in Lists THEN ListVouches(s, asked) ELSE KeysVouch(s, asked)
    <3>1. PICK v \in answered : IsAgentPass(asked.claim, EvidenceFrom(v, asked))
      BY <2>1, <2>3, ResolveFacts DEF AgentPass
    <3>2. /\ IsProviderPass(asked.claim, EvidenceFrom(v, asked))
          /\ EvidenceFrom(v, asked).scope = "agent"
      BY <3>1 DEF IsAgentPass, IsProviderPass, AgentMatches, Strong
    <3>3. \A s \in DOMAIN profile : profile[s].scope = "agent" => profile[s].subject # NoName
      BY AgentsNamed DEF Inv, InWorld, AgentsNamed
    <3>4. CASE v \in Lists
      <4>1. EvidenceFrom(v, asked) = ListEvidence(v, asked) /\ v \in DOMAIN profile
            /\ profile[v].subject \in {NoName, asked.claim.agent}
        BY <2>1, <3>4, ListFacts DEF lists
      <4>2. profile[v].scope = "agent"
        BY <3>2, <4>1 DEF ListEvidence
      <4> QED BY <2>1, <3>2, <3>3, <3>4, <4>1, <4>2, StrongPass, ConfiguredAssumption DEF Sources
    <3>5. CASE v \in KeySources
      <4>1. EvidenceFrom(v, asked) = KeyEvidence(v, asked) /\ v \in DOMAIN profile
        BY <2>1, <3>5, KeyFacts DEF keySources
      <4>2. profile[v].scope = "agent"
        BY <3>2, <4>1 DEF KeyEvidence
      <4>3. profile[v].subject # NoName
        BY <3>3, <4>1, <4>2
      <4>4. EvidenceFrom(v, asked).subject = profile[v].subject
        BY <3>2, <4>1, <4>2, <4>3 DEF KeyEvidence
      <4>5. profile[v].subject = asked.claim.agent
        BY <3>1, <4>4 DEF IsAgentPass, AgentMatches
      <4> QED BY <2>1, <3>2, <3>5, <4>2, <4>5, StrongPass, ConfiguredAssumption DEF Sources
    <3>6. CASE v \in {"fcrdns", "inline"}
      <4>1. v = "fcrdns" => EvidenceFrom(v, asked) = DnsEvidence(asked)
        BY OtherFacts
      <4>2. v = "inline" => EvidenceFrom(v, asked).scope = "key"
        BY OtherFacts
      <4>3. v = "fcrdns" => DnsScope[asked.claim.provider] # "agent"
        BY <2>1, <3>6, DnsApplies DEF DnsNamesProviders
      <4> QED BY <3>2, <3>6, <4>1, <4>2, <4>3 DEF DnsEvidence
    <3> QED BY <2>1, <3>4, <3>5, <3>6, VerifierCases
  <2> QED BY <2>2, <2>3 DEF EstablishedWasPublished
<1> QED BY Invariance, <1>1, PTL

(* A good signature of another provider's directory, on a snapshot that vouches for the
   request, puts the claim in conflict, whatever else is answered.          *)
THEOREM ForeignSigner == Spec => []ForeignSignerConflicts
<1>1. Inv => ForeignSignerConflicts
  <2> SUFFICES ASSUME Inv, asked # NoRequest, asked.signature # NoSignature,
                      NEW d \in KeySources \cap answered,
                      profile[d].provider # asked.claim.provider,
                      profile[d].compatible, profile[d].scope # "key",
                      profile[d].discovery = "directory", cached[d] # NoSnapshot,
                      cached[d].retrieved <= asked.at, asked.at <= cached[d].expires,
                      asked.signature.key \in cached[d].content,
                      Good(asked.signature, asked.at), asked.signature.member \in {d, "none"}
               PROVE  resolution.state = "CONFLICTED"
    BY DEF ForeignSignerConflicts
  <2> DEFINE r == asked
             E == {EvidenceFrom(v, asked) : v \in answered}
  <2>1. /\ r \in Requests /\ r.at <= now /\ answered \subseteq Applicable(r)
        /\ resolution = Resolve(r.claim, E)
    BY DEF Inv, Judged
  <2>2. /\ d \in keySources /\ profile[d] \in ProfileType /\ d \in DOMAIN published
        /\ EvidenceFrom(d, r) = KeyEvidence(d, r)
    BY <2>1, KeyFacts
  <2>3. KeyDocument(d) = d
    BY DEF KeyDocument, Delegates
  <2>4. cached[d].expires \in Nat /\ cached[d].direct /\ r.at \in Nat
    BY <2>1, <2>2, RequestFacts, Numbers DEF Inv, Faithful, Snapshot
  <2>5. Material(d, r.at) = "found"
    BY <2>4 DEF Material, Stale
  <2>6. d # "malformed"
    BY ConfiguredAssumption
  <2>7. SignatureOutcome(cached[d].content, Names(d, r.signature.member), r.signature, r.at)
          = "pass"
    <3>1. Verifies(cached[d].content, r.signature)
      BY DEF Verifies, Selects, Good
    <3>2. Accepts(r.signature.key, r.signature.method, r.at)
      BY DEF Good, Accepts, MayBeUsed
    <3>3. Names(d, r.signature.member) /\ r.signature.member # "malformed"
      BY <2>6 DEF Names
    <3>4. RfcOutcome(cached[d].content, r.signature) = "pass"
      BY <3>1, RfcFacts
    <3> QED BY <3>2, <3>3, <3>4 DEF SignatureOutcome
  <2>8. KeyOutcome(d, r) = "pass" /\ KeepsScope(d, r)
    BY <2>3, <2>4, <2>5, <2>7 DEF KeyOutcome, KeepsScope
  <2>9. /\ EvidenceFrom(d, r).outcome = "pass"
        /\ EvidenceFrom(d, r).scope = profile[d].scope
        /\ EvidenceFrom(d, r).authority = profile[d].provider
    BY <2>2, <2>8 DEF KeyEvidence
  <2>10. profile[d].scope \in Scopes
    BY <2>2 DEF ProfileType
  <2>11. IsForeignPass(r.claim, EvidenceFrom(d, r))
    BY <2>9, <2>10 DEF IsForeignPass, Strong, Scopes, ProviderMatches
  <2>12. ForeignPass(r.claim, E)
    BY <2>11 DEF ForeignPass
  <2> QED BY <2>1, <2>12, ResolveFacts
<1> QED BY Invariance, <1>1, PTL

-----------------------------------------------------------------------------
(* Evidence that neither passes nor speaks against, for what the resolver asks of it. *)
Weak(e) == e.outcome \in Neutral \/ e.scope = "key"

LEMMA WeakEvidence ==
  ASSUME NEW claim, NEW E, \A e \in E : Weak(e)
  PROVE  Resolve(claim, E).state = "CLAIMED" /\ ~Resolve(claim, E).provider_verified
BY ResolveFacts DEF Weak, Neutral, ForeignPass, ApplicableMismatch, ProviderPass, AgentPass,
  IsForeignPass, IsApplicableMismatch, IsProviderPass, IsAgentPass, Strong

(* Neither a list nor an agent card nor the keys it leads to decide anything with a
   snapshot that is too old for the request.                                *)
THEOREM OldSnapshotsNeutral == Spec => []OldSnapshotsDecideNothing
<1>1. Inv => OldSnapshotsDecideNothing
  <2> SUFFICES ASSUME Inv, asked # NoRequest, "fcrdns" \notin answered,
                 \A s \in Sources \cap answered :
                   \E u \in DOMAIN published
                              \cap (IF s \in Lists THEN {s} ELSE {s, KeyDocument(s)}) :
                     cached[u] = NoSnapshot \/ cached[u].expires < asked.at
               PROVE  resolution.state = "CLAIMED" /\ ~resolution.provider_verified
    BY DEF OldSnapshotsDecideNothing
  <2>1. /\ asked \in Requests /\ asked.at <= now /\ answered \subseteq Applicable(asked)
        /\ resolution = Resolve(asked.claim, {EvidenceFrom(v, asked) : v \in answered})
    BY DEF Inv, Judged
  <2>2. ASSUME NEW v \in answered PROVE Weak(EvidenceFrom(v, asked))
    <3>1. CASE v \in Lists
      <4>1. cached[v] = NoSnapshot \/ Stale(v, asked.at)
        BY <3>1 DEF Sources, Stale
      <4>2. EvidenceFrom(v, asked) = ListEvidence(v, asked)
        BY <2>1, <3>1, ListFacts
      <4> QED BY <4>1, <4>2 DEF ListEvidence, ListOutcome, Weak, Neutral
    <3>2. CASE v \in KeySources
      <4>1. v \notin Lists /\ v \in keySources /\ asked.at \in Times
            /\ EvidenceFrom(v, asked) = KeyEvidence(v, asked)
        BY <2>1, <3>2, KeyFacts, RequestFacts, ConfiguredAssumption
      <4>2. \E u \in {v, KeyDocument(v)} : cached[u] = NoSnapshot \/ Stale(u, asked.at)
        BY <3>2, <4>1 DEF Sources, Stale
      <4>3. Material(v, asked.at) # "found"
        BY <4>1, <4>2, FoundFacts
      <4>4. KeyOutcome(v, asked) \in Neutral
        BY <4>1, <4>3, MaterialFacts DEF KeyOutcome, Neutral
      <4>5. EvidenceFrom(v, asked).outcome = KeyOutcome(v, asked)
        BY <4>1 DEF KeyEvidence
      <4> QED BY <4>4, <4>5 DEF Weak
    <3>3. CASE v = "inline"
      BY <3>3, OtherFacts DEF Weak
    <3> QED BY <2>1, <3>1, <3>2, <3>3, VerifierCases
  <2> QED BY <2>1, <2>2, WeakEvidence
<1> QED BY Invariance, <1>1, PTL

(* A key that came with the request identifies nobody: without an address nothing but
   sources that refuse the signature speaks.                               *)
THEOREM InlineIdentifiesNobody == Spec => []InlineKeyIdentifiesNobody
<1>1. Inv => InlineKeyIdentifiesNobody
  <2> SUFFICES ASSUME Inv, asked # NoRequest, asked.address = NoAddress,
                      asked.signature # NoSignature, asked.signature.member = "inline"
               PROVE  resolution.state \in {"CLAIMED", "FAILED"} /\ ~resolution.provider_verified
    BY DEF InlineKeyIdentifiesNobody
  <2> DEFINE E == {EvidenceFrom(v, asked) : v \in answered}
  <2>1. /\ asked \in Requests /\ asked.at <= now /\ answered \subseteq Applicable(asked)
        /\ resolution = Resolve(asked.claim, E)
    BY DEF Inv, Judged
  <2>2. ASSUME NEW v \in answered
        PROVE  EvidenceFrom(v, asked).outcome # "pass" \/ EvidenceFrom(v, asked).scope = "key"
    <3>1. CASE v \in Lists
      <4>1. EvidenceFrom(v, asked) = ListEvidence(v, asked)
        BY <2>1, <3>1, ListFacts
      <4> QED BY <4>1 DEF ListEvidence, ListOutcome
    <3>2. CASE v \in KeySources
      <4>1. EvidenceFrom(v, asked) = KeyEvidence(v, asked) /\ v # "inline"
        BY <2>1, <3>2, KeyFacts, ConfiguredAssumption DEF Sources
      <4>2. KeyOutcome(v, asked) # "pass"
        BY <2>1, <3>2, <4>1, PassFacts
      <4> QED BY <4>1, <4>2 DEF KeyEvidence
    <3>3. CASE v = "fcrdns"
      <4>1. EvidenceFrom(v, asked) = DnsEvidence(asked)
        BY <3>3, OtherFacts
      <4> QED BY <4>1 DEF DnsEvidence
    <3>4. CASE v = "inline"
      BY <3>4, OtherFacts
    <3> QED BY <2>1, <3>1, <3>2, <3>3, <3>4, VerifierCases
  <2>3. ~ForeignPass(asked.claim, E) /\ ~ProviderPass(asked.claim, E)
    BY <2>2 DEF ForeignPass, ProviderPass, IsForeignPass, IsProviderPass, Strong
  <2> QED BY <2>1, <2>3, ResolveFacts
<1> QED BY Invariance, <1>1, PTL

-----------------------------------------------------------------------------
(* Evidence that speaks neither for another nor against the claim. *)
Harmless(claim, e) == ~IsForeignPass(claim, e) /\ ~IsApplicableMismatch(claim, e)

(* A list that holds the address of the request is for it or says nothing. *)
LEMMA HonestList ==
  ASSUME AgentsNamed, Inv, NEW r \in Requests, r.at <= now, Honest(r),
         NEW l \in Lists \cap Applicable(r)
  PROVE  Harmless(r.claim, EvidenceFrom(l, r))
<1>1. /\ l \in lists /\ l \in DOMAIN published
      /\ EvidenceFrom(l, r) = ListEvidence(l, r)
      /\ profile[l].provider = r.claim.provider
      /\ profile[l].subject \in {NoName, r.claim.agent}
  BY ListFacts
<1>2. cached[l] # NoSnapshot => r.address \in cached[l].content
  BY <1>1, ContentFacts DEF Honest
<1>3. ListOutcome(l, r) \in {"unavailable", "stale", "pass"}
  BY <1>2 DEF ListOutcome, Listed
<1>4. profile[l].scope = "agent" => profile[l].subject # NoName
  BY <1>1 DEF AgentsNamed, Inv, InWorld, lists
<1> QED BY <1>1, <1>3, <1>4 DEF ListEvidence, Harmless, IsForeignPass, IsApplicableMismatch,
      ProviderMatches, AgentMatches

(* A source that never had the key of the request does not have it now. *)
LEMMA OtherKeys ==
  ASSUME Inv, NEW r \in Requests, Honest(r), NEW d \in KeySources \cap Applicable(r),
         d # r.signature.member, Material(d, r.at) = "found"
  PROVE  ~Selects(cached[KeyDocument(d)].content, r.signature)
<1> DEFINE e == KeyDocument(d)
<1>1. d \in keySources /\ d \in DOMAIN published /\ r.signature # NoSignature /\ r.at \in Times
  BY KeyFacts, RequestFacts
<1>2. r.signature.key \notin KeysOf(d)
  BY <1>1 DEF Honest
<1>3. /\ cached[d] # NoSnapshot /\ cached[e] # NoSnapshot /\ e \in DOMAIN published \ lists
      /\ e = d \/ e \in cached[d].content
  BY <1>1, FoundFacts
<1> HIDE DEF e
<1>4. /\ \E t \in Times : cached[d].content = published[d][t]
      /\ \E t \in Times : cached[e].content = published[e][t]
  BY <1>1, <1>3, ContentFacts
<1>5. cached[e].content \subseteq KeysOf(d)
  BY <1>3, <1>4 DEF KeysOf
<1> QED BY <1>2, <1>5 DEF Selects, e

(* What the keys of a source make of an honest signature: they pass it for its own
   source, and say no more than that they are of no use else.              *)
LEMMA HonestOutcome ==
  ASSUME Inv, NEW r \in Requests, Honest(r), NEW d \in KeySources \cap Applicable(r),
         Material(d, r.at) = "found"
  PROVE  LET keys == cached[KeyDocument(d)].content
             s == r.signature
         IN /\ KeyOutcome(d, r) = "pass" => d = s.member
            /\ KeyOutcome(d, r) = "mismatch"
                 <=> /\ ~(Selects(keys, s) /\ Jwk[s.key].methods # {})
                     /\ \/ Candidates(keys) = {}
                        \/ s.named /\ \E method \in Candidates(keys) : method # s.method
<1> DEFINE keys == cached[KeyDocument(d)].content
           s == r.signature
<1>1. s # NoSignature /\ s.named \in BOOLEAN
  BY KeyFacts, RequestFacts
<1>2. /\ s.fault = "none" /\ s.member \in keySources /\ Accepts(s.key, s.method, r.at)
      /\ Jwk[s.key].methods # {} => s.method \in Jwk[s.key].methods
  BY <1>1 DEF Honest, MayBeUsed, Accepts
<1>3. s.member # "malformed"
  BY <1>2, ConfiguredAssumption DEF keySources
<1>4. KeyOutcome(d, r) = SignatureOutcome(keys, Names(d, s.member), s, r.at)
  BY DEF KeyOutcome
<1>5. d # s.member => ~Selects(keys, s)
  BY OtherKeys
<1> HIDE DEF keys, s
<1>6. CASE Verifies(keys, s)
  <2>1. d = s.member /\ Selects(keys, s) /\ Jwk[s.key].methods # {}
    BY <1>5, <1>6 DEF Verifies
  <2>2. KeyOutcome(d, r) = "pass"
    BY <1>2, <1>3, <1>4, <1>6, <2>1, SignatureFacts DEF Names
  <2> QED BY <2>1, <2>2 DEF keys, s
<1>7. CASE ~Verifies(keys, s)
  <2>1. KeyOutcome(d, r) = RfcOutcome(keys, s) /\ KeyOutcome(d, r) # "pass"
    BY <1>3, <1>4, <1>7, RfcFacts DEF SignatureOutcome
  <2> QED BY <1>1, <1>2, <1>7, <2>1, UnverifiedFacts DEF keys, s
<1> QED BY <1>6, <1>7

LEMMA HonestKeys ==
  ASSUME Inv, NEW r \in Requests, Honest(r), NEW d \in KeySources \cap Applicable(r)
  PROVE  /\ ~IsForeignPass(r.claim, EvidenceFrom(d, r))
         /\ IsApplicableMismatch(r.claim, EvidenceFrom(d, r)) <=> Unsupported(d, r)
<1>1. /\ EvidenceFrom(d, r) = KeyEvidence(d, r) /\ d \in keySources /\ r.signature # NoSignature
      /\ profile[d] \in ProfileType
  BY KeyFacts
<1>2. EvidenceFrom(d, r).outcome = KeyOutcome(d, r)
  BY <1>1 DEF KeyEvidence
<1>3. r.claim.agent # NoName
  BY RequestFacts, NamesAssumption
<1>4. CASE Material(d, r.at) # "found"
  BY <1>1, <1>2, <1>4, MaterialFacts DEF KeyOutcome, IsForeignPass, IsApplicableMismatch,
     Unsupported
<1>5. CASE Material(d, r.at) = "found"
  <2>1. ASSUME IsForeignPass(r.claim, EvidenceFrom(d, r)) PROVE FALSE
    <3>1. d = r.signature.member
      BY <1>2, <1>5, <2>1, HonestOutcome DEF IsForeignPass
    <3>2. profile[d].provider = r.claim.provider /\ profile[d].subject = r.claim.agent
      BY <1>1, <3>1 DEF Honest
    <3>3. /\ EvidenceFrom(d, r).authority = r.claim.provider
          /\ EvidenceFrom(d, r).scope = "agent" => EvidenceFrom(d, r).subject = r.claim.agent
      BY <1>1, <1>3, <3>2 DEF KeyEvidence
    <3> QED BY <2>1, <3>3 DEF IsForeignPass, ProviderMatches, AgentMatches
  <2>2. KeyOutcome(d, r) # "mismatch" =>
          /\ ~IsApplicableMismatch(r.claim, EvidenceFrom(d, r))
          /\ ~Unsupported(d, r)
    BY <1>2, <1>5, HonestOutcome DEF IsApplicableMismatch, Unsupported
  <2>3. ASSUME KeyOutcome(d, r) = "mismatch"
        PROVE  IsApplicableMismatch(r.claim, EvidenceFrom(d, r)) <=> Unsupported(d, r)
    <3> DEFINE speaks ==
          /\ profile[d].provider = r.claim.provider
          /\ \/ profile[d].scope = "provider"
             \/ profile[d].scope = "agent" /\ profile[d].subject \in {NoName, r.claim.agent}
    <3>1. Unsupported(d, r) <=> speaks
      BY <1>5, <2>3, HonestOutcome DEF Unsupported
    <3>2. /\ EvidenceFrom(d, r).scope = profile[d].scope
          /\ EvidenceFrom(d, r).authority = profile[d].provider
          /\ profile[d].subject # NoName => EvidenceFrom(d, r).subject = profile[d].subject
          /\ profile[d].subject = NoName /\ profile[d].scope = "agent" =>
               EvidenceFrom(d, r).subject = r.claim.agent
      BY <1>1, <2>3 DEF KeyEvidence
    <3>3. IsApplicableMismatch(r.claim, EvidenceFrom(d, r)) <=> speaks
      BY <1>2, <1>3, <2>3, <3>2 DEF IsApplicableMismatch, Strong, ProviderMatches
    <3> QED BY <3>1, <3>3
  <2> QED BY <2>1, <2>2, <2>3
<1> QED BY <1>4, <1>5

(* An honest request is refused by a source whose keys or whose method are not supported
   and by nothing else: not by what is missing, stale, newly rotated, not trusted or late.
   The registry names the agents of its sources, and DNS names providers.  *)
THEOREM HonestRefusals ==
  ASSUME AgentsNamed, DnsNamesProviders
  PROVE  Spec => []HonestIsRefusedIffUnsupported
<1>1. Inv => HonestIsRefusedIffUnsupported
  <2> SUFFICES ASSUME Inv, asked # NoRequest, Honest(asked)
               PROVE  resolution.state \in {"FAILED", "CONFLICTED"}
                        <=> \E d \in KeySources \cap answered : Unsupported(d, asked)
    BY DEF HonestIsRefusedIffUnsupported
  <2> DEFINE E == {EvidenceFrom(v, asked) : v \in answered}
  <2>1. /\ asked \in Requests /\ asked.at <= now /\ answered \subseteq Applicable(asked)
        /\ resolution = Resolve(asked.claim, E)
    BY DEF Inv, Judged
  <2>2. ASSUME NEW v \in answered
        PROVE  /\ ~IsForeignPass(asked.claim, EvidenceFrom(v, asked))
               /\ IsApplicableMismatch(asked.claim, EvidenceFrom(v, asked))
                    <=> v \in KeySources /\ Unsupported(v, asked)
    <3>1. CASE v \in Lists
      BY <2>1, <3>1, HonestList, ConfiguredAssumption DEF Harmless
    <3>2. CASE v \in KeySources
      BY <2>1, <3>2, HonestKeys
    <3>3. CASE v = "fcrdns"
      <4>1. EvidenceFrom(v, asked) = DnsEvidence(asked) /\ v \notin KeySources
        BY <3>3, OtherFacts, ConfiguredAssumption DEF Sources
      <4>2. asked.claim.provider \in DnsProviders
        BY <2>1, <3>3, DnsApplies
      <4>3. asked.dns # "mismatch" /\ DnsScope[asked.claim.provider] # "agent"
        BY <4>2 DEF Honest, DnsNamesProviders
      <4> QED BY <4>1, <4>3 DEF DnsEvidence, IsForeignPass, IsApplicableMismatch, ProviderMatches
    <3>4. CASE v = "inline"
      <4>1. v \notin KeySources
        BY <3>4, ConfiguredAssumption DEF Sources
      <4> QED BY <3>4, <4>1, OtherFacts DEF IsForeignPass, IsApplicableMismatch, Strong
    <3> QED BY <2>1, <3>1, <3>2, <3>3, <3>4, VerifierCases
  <2>3. ~ForeignPass(asked.claim, E)
    BY <2>2 DEF ForeignPass
  <2>4. ApplicableMismatch(asked.claim, E)
          <=> \E d \in KeySources \cap answered : Unsupported(d, asked)
    BY <2>2 DEF ApplicableMismatch
  <2> QED BY <2>1, <2>3, <2>4, ResolveFacts
<1> QED BY Invariance, <1>1, PTL
=============================================================================
