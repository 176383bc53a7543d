------------------------ MODULE ConfiguredVerification ------------------------
(***************************************************************************)
(* Verification of requests against the cached sources of the provider     *)
(* profiles (identity/configured.py, with identity/network/verifier.py,    *)
(* identity/network/fcrdns.py, identity/crypto/web_bot_auth.py and         *)
(* identity/crypto/cached_discovery.py), and what fills the cache in       *)
(* between: the refreshes (identity/source_service.py), and programs that  *)
(* put JWK sets and agent cards there, which a refresh cannot.  Requests   *)
(* come from logs: a request may be older than the snapshot that judges    *)
(* it.                                                                     *)
(*                                                                         *)
(* VerificationManager decides which verifiers' answers count; by          *)
(* VerificationOutcome that is some set of them, and the others leave no   *)
(* trace.                                                                  *)
(***************************************************************************)
EXTENDS IdentityResolver, Naturals

CONSTANTS
  Lists,         \* published address ranges
  KeySources,    \* registered sources of signing keys: signature_agents
  KeySets,       \* JWK sets no profile registers; agent cards may name them
  Trusted,       \* those of them that the trust policy allows
  Signing,       \* the directories whose responses are signed
  Tagged,        \* the sources whose 304 answers are about the content ATI holds
  DnsScope,      \* the scope of each FCrDNS profile, when the mode is not offline
  Addresses,
  Keys,
  Methods,       \* signature algorithms, the ones ATI does not know included
  Jwk,           \* what the JWK of each key says, see JwkType
  NoAddress,     \* no source address, or one of untrusted provenance
  NoSignature,   \* a request without signature headers
  NoSnapshot, NoRequest, NoResolution,
  Worlds,        \* registries and what their sources publish, see WorldType
  Requests,      \* the requests in the logs
  Validity,      \* RANGE_SNAPSHOT_VALIDITY
  MaxAges,       \* max-age values a directory is served with
  MaxTime        \* bound on the clock

Sources == Lists \cup KeySources
DnsProviders == DOMAIN DnsScope
Verifiers == Sources \cup {"fcrdns", "inline"}
Times == 0..MaxTime
Never == 2 * MaxTime + Validity + 1   \* expires_at is None

(* How the keys of a source are found: in the directory it is, in the JWK set
   it is, or through the agent card it is. *)
Discoveries == {"directory", "jwks_uri", "cimd"}
DocumentTypes == {"ip_ranges", "key_directory", "jwk_set", "agent_card"}

ProfileType ==
  [provider : Providers, scope : Scopes, subject : Agents \cup {NoName},
   authoritative : BOOLEAN,  \* a list: authoritative_negative, not positive_only
   discovery : Discoveries,  \* of a key source
   compatible : BOOLEAN]     \* a key source: deployed_compatible, not strict_current

(* The provider profiles, as load_provider_profiles accepts them. *)
RegistryType(p) == DOMAIN p \subseteq Sources /\ p \in [DOMAIN p -> ProfileType]

(* A registry, and what its sources and some key sets publish at each time: a
   list addresses, a directory or JWK set keys, an agent card keys or the URI of
   a JWK set. *)
WorldType(w) ==
  /\ RegistryType(w.profile)
  /\ DOMAIN w.published \cap Sources = DOMAIN w.profile
  /\ DOMAIN w.published \subseteq Sources \cup KeySets
  /\ w.published \in
       [DOMAIN w.published -> [Times -> SUBSET (Addresses \cup Keys \cup KeySources \cup KeySets)]]
  /\ \A u \in DOMAIN w.published, t \in Times :
       w.published[u][t] \cap (KeySources \cup KeySets) \subseteq DOMAIN w.published

(* A JWK.  Verification tries the methods of its kty and crv, none for a type that
   is not supported; its alg may allow fewer or others; key material that is not
   sound raises an error; nbf and exp say when the key is active. *)
JwkType ==
  [methods : SUBSET Methods, allows : SUBSET Methods, sound : BOOLEAN, active : SUBSET Times]

(* The Signature-Agent member a signature covers: a registered source of keys, an
   inline data: directory, or none. *)
Members == KeySources \cup {"none", "inline", "malformed"}
(* What verification has against it: a time the library refuses, or that it is
   forged or does not sign what the policy asks for, which takes the key to see. *)
Faults == {"none", "window", "forged"}
(* A signature may name its method. *)
Signature == [key : Keys, member : Members, fault : Faults, method : Methods, named : BOOLEAN]

RequestType ==
  [at : Times, claim : Claims, address : Addresses \cup {NoAddress},
   dns : {"pass", "mismatch", "unavailable"},
   signature : Signature \cup {NoSignature}]

ASSUME ConfiguredAssumption ==
  /\ Signing \subseteq KeySources /\ Trusted \subseteq KeySets /\ Tagged \subseteq Sources
  /\ DnsProviders \subseteq Providers /\ DnsScope \in [DnsProviders -> Scopes]
  /\ Jwk \in [Keys -> JwkType]
  /\ \A w \in Worlds : WorldType(w)
  /\ Requests \subseteq RequestType
  /\ Validity \in Nat /\ MaxTime \in Nat /\ MaxAges \subseteq 0..MaxTime
  /\ NoAddress \notin Addresses
  /\ NoSignature \notin Signature
  /\ Lists \cap KeySources = {} /\ Sources \cap {"fcrdns", "inline"} = {}
  /\ KeySources \cap {"none", "malformed"} = {} /\ Lists \cap KeySets = {}
  /\ KeySets \cap Sources = {} /\ Keys \cap (KeySets \cup KeySources) = {}

VARIABLES
  now,
  profile,     \* the registry in use
  published,   \* what each source says at each time
  cached,      \* the cached snapshot of each source
  asked,       \* the request verified last
  answered,    \* the verifiers whose answer was in time for it
  resolution

vars == <<now, profile, published, cached, asked, answered, resolution>>

Snapshot ==
  [content : SUBSET (Addresses \cup Keys \cup KeySources \cup KeySets),
   type : DocumentTypes, direct : BOOLEAN,   \* acquisition is direct_https
   retrieved : Times, expires : Nat,
   bound : SUBSET (Addresses \cup Keys \cup KeySources \cup KeySets),
   boundFrom : Times, boundUntil : Nat]

lists == Lists \cap DOMAIN profile
keySources == KeySources \cap DOMAIN profile

-----------------------------------------------------------------------------
(* Evidence.  The operators with a suffix _Something are slips the code    *)
(* could have made; nothing uses them, and each breaks a property below if  *)
(* it is put in the place of the operator it is named after.                *)

Stale_Never(s, at) == FALSE
(* A snapshot that no longer vouches at the time of the request. *)
Stale(s, at) == cached[s].expires < at

Listed(l, address) == address \in cached[l].content

(* A list speaks about a trusted address only.  A miss is evidence against the
   claim if the profile says so. *)
ListOutcome(l, r) ==
  IF cached[l] = NoSnapshot THEN "unavailable"
  ELSE IF Stale(l, r.at) THEN "stale"
  ELSE IF r.address = NoAddress THEN "unavailable"
  ELSE IF Listed(l, r.address) THEN "pass"
  ELSE IF profile[l].authoritative THEN "mismatch"
  ELSE "indeterminate"

ListEvidence(l, r) ==
  [outcome |-> ListOutcome(l, r), scope |-> profile[l].scope, authority |-> r.claim.provider,
   subject |-> IF profile[l].subject = NoName THEN r.claim.provider ELSE profile[l].subject]

DnsEvidence(r) ==
  [outcome |-> IF r.address = NoAddress THEN "unavailable" ELSE r.dns,
   scope |-> DnsScope[r.claim.provider], authority |-> r.claim.provider,
   subject |-> r.claim.provider]

(* The signature leaves the Signature-Agent out, or it names this directory. *)
Names(d, member) == member \in {d, "none"}

(* The key a signature names is among these, by its own identifier or by its
   thumbprint. *)
Selects(keys, s) == s.key \in keys

Attempt_KeyCounts(keys, s, method) ==
  IF s.fault = "window" \/ (s.named /\ method # s.method) \/ ~Selects(keys, s) THEN "mismatch"
  ELSE IF Jwk[s.key].methods = {} THEN "unavailable"
  ELSE IF ~Jwk[s.key].sound THEN "error"
  ELSE IF s.fault = "forged" \/ method # s.method \/ method \notin Jwk[s.key].methods
    THEN "mismatch"
  ELSE "pass"
(* Rfc9421Verifier.verify with one method.  The library refuses a method other than
   the one a signature names, and its times, before it asks for the key; a key the
   directory does not hold, or of a type that is not supported, is unavailable. *)
Attempt(keys, s, method) ==
  IF s.fault = "window" \/ (s.named /\ method # s.method) THEN "mismatch"
  ELSE IF ~Selects(keys, s) \/ Jwk[s.key].methods = {} THEN "unavailable"
  ELSE IF ~Jwk[s.key].sound THEN "error"
  ELSE IF s.fault = "forged" \/ method # s.method \/ method \notin Jwk[s.key].methods
    THEN "mismatch"
  ELSE "pass"

(* The methods to try are those of all keys of the directory, whichever is selected. *)
Candidates(keys) == UNION {Jwk[key].methods : key \in keys}

(* No candidate is a mismatch, and so is one that counts beside one that does not. *)
RfcOutcome(keys, s) ==
  LET tried == {Attempt(keys, s, method) : method \in Candidates(keys)}
  IN IF "pass" \in tried THEN "pass"
     ELSE IF "error" \in tried THEN "error"
     ELSE IF tried = {"unavailable"} THEN "unavailable"
     ELSE "mismatch"

Accepts_AnyTime(key, method, at) == method \in Jwk[key].allows
(* The key is active at the time of the request and its alg allows the method. *)
Accepts(key, method, at) == at \in Jwk[key].active /\ method \in Jwk[key].allows

(* WebBotAuthVerifier with the keys of a directory; named says that the signature
   is meant for it. *)
SignatureOutcome(keys, named, s, at) ==
  IF s.member = "malformed" THEN "mismatch"
  ELSE IF RfcOutcome(keys, s) # "pass" THEN RfcOutcome(keys, s)
  ELSE IF Accepts(s.key, s.method, at) /\ named THEN "pass"
  ELSE "mismatch"

Required_Untrusted(u, type, at) ==
  IF cached[u] = NoSnapshot THEN "unavailable"
  ELSE IF cached[u].type # type THEN "error"
  ELSE IF Stale(u, at) THEN "stale"
  ELSE "found"
(* SourceTrustPolicy: the sources of the registry, and what is added to them. *)
Allows(u) == u \in keySources \cup Trusted

(* _require_cached_document: that a document is cached does not make it trusted. *)
Required(u, type, at) ==
  IF ~Allows(u) \/ cached[u] = NoSnapshot THEN "unavailable"
  ELSE IF cached[u].type # type THEN "error"
  ELSE IF Stale(u, at) THEN "stale"
  ELSE "found"

(* The JWK set an agent card delegates to; the card may hold the keys instead. *)
Delegates(d) ==
  IF profile[d].discovery = "cimd" /\ cached[d] # NoSnapshot
    THEN cached[d].content \cap (KeySources \cup KeySets) ELSE {}

(* The document that holds the keys of a source. *)
KeyDocument(d) == IF Delegates(d) = {} THEN d ELSE CHOOSE e \in Delegates(d) : TRUE

CardMaterial(d, at) ==
  LET inline == cached[d].content \cap Keys
  IN IF Delegates(d) # {} /\ inline # {} THEN "error"
     ELSE IF Delegates(d) # {} THEN Required(KeyDocument(d), "jwk_set", at)
     ELSE IF inline # {} THEN "found"
     ELSE "unavailable"

(* resolve_cached_signature_agent: are there keys to judge a request with? *)
Material(d, at) ==
  CASE profile[d].discovery = "directory" ->
         IF cached[d] = NoSnapshot THEN "unavailable"
         ELSE IF Stale(d, at) THEN "stale" ELSE "found"
    [] profile[d].discovery = "jwks_uri" -> Required(d, "jwk_set", at)
    [] profile[d].discovery = "cimd" ->
         LET card == Required(d, "agent_card", at)
         IN IF card = "found" THEN CardMaterial(d, at) ELSE card

KeyOutcome(d, r) ==
  IF Material(d, r.at) # "found" THEN Material(d, r.at)
  ELSE SignatureOutcome(cached[KeyDocument(d)].content,
                        Names(d, r.signature.member), r.signature, r.at)

(* A current binding of the key to the authority of its source.  Only key
   directories have any. *)
Bound(d, key, at) ==
  LET document == cached[KeyDocument(d)]
  IN key \in document.bound /\ document.boundFrom <= at /\ at <= document.boundUntil

KeepsScope_OnlyBound(d, r) == Bound(d, r.signature.key, r.at)
KeepsScope_IgnoresRetrieval(d, r) ==
  profile[d].compatible \/ Bound(d, r.signature.key, r.at)
(* apply_cached_crypto_binding leaves a passing signature its scope.  It looks at
   the document of the keys; the card that led to it may be of any time. *)
KeepsScope(d, r) ==
  \/ /\ profile[d].compatible
     /\ cached[KeyDocument(d)].direct
     /\ cached[KeyDocument(d)].retrieved <= r.at
  \/ Bound(d, r.signature.key, r.at)

KeyEvidence(d, r) ==
  LET outcome == KeyOutcome(d, r)
      subject == IF profile[d].subject # NoName THEN profile[d].subject
                 ELSE IF profile[d].scope = "agent" THEN r.claim.agent
                 ELSE IF profile[d].scope = "provider" THEN r.claim.provider
                 ELSE NoName
  IN IF outcome = "pass" /\ profile[d].scope # "key" /\ ~KeepsScope(d, r)
       THEN [outcome |-> outcome, scope |-> "key", authority |-> profile[d].provider,
             subject |-> NoName]
       ELSE [outcome |-> outcome, scope |-> profile[d].scope,
             authority |-> profile[d].provider, subject |-> subject]

InlineEvidence_AsClaimed(r) ==
  [outcome |-> SignatureOutcome({r.signature.key}, TRUE, r.signature, r.at),
   scope |-> "agent", authority |-> r.claim.provider, subject |-> r.claim.agent]
(* The key comes with the request itself: it identifies nobody. *)
InlineEvidence(r) ==
  [outcome |-> SignatureOutcome({r.signature.key}, TRUE, r.signature, r.at),
   scope |-> "key", authority |-> NoName, subject |-> NoName]

-----------------------------------------------------------------------------
(* The verifiers of a request: the claimed provider's lists that are not
   another agent's, its DNS names, and every source of keys. *)
Applicable(r) ==
  {l \in lists : /\ profile[l].provider = r.claim.provider
                 /\ profile[l].subject \in {NoName, r.claim.agent}}
  \cup (IF r.claim.provider \in DnsProviders THEN {"fcrdns"} ELSE {})
  \cup (IF r.signature = NoSignature THEN {} ELSE keySources)
  \cup (IF r.signature # NoSignature /\ r.signature.member = "inline"
          THEN {"inline"} ELSE {})

EvidenceFrom(v, r) ==
  CASE v \in Lists -> ListEvidence(v, r)
    [] v \in KeySources -> KeyEvidence(v, r)
    [] v = "fcrdns" -> DnsEvidence(r)
    [] v = "inline" -> InlineEvidence(r)

Init ==
  /\ now = 0
  /\ \E w \in Worlds : profile = w.profile /\ published = w.published
  /\ cached = [s \in DOMAIN published |-> NoSnapshot]
  /\ asked = NoRequest
  /\ answered = {}
  /\ resolution = NoResolution

Tick ==
  /\ asked = NoRequest
  /\ now < MaxTime
  /\ now' = now + 1
  /\ UNCHANGED <<profile, published, cached, asked, answered, resolution>>

Retrieved(u, type, direct, expires, bound, until) ==
  [content |-> published[u][now], type |-> type, direct |-> direct,
   retrieved |-> now, expires |-> expires,
   bound |-> bound, boundFrom |-> now, boundUntil |-> until]

ListSnapshot(l) == Retrieved(l, "ip_ranges", TRUE, now + Validity, {}, now)

(* A list fetched anew: what it says now. *)
RefreshList(l) ==
  /\ asked = NoRequest
  /\ cached' = [cached EXCEPT ![l] = ListSnapshot(l)]
  /\ UNCHANGED <<now, profile, published, asked, answered, resolution>>

(* A 304 may be about what ATI holds or, without an identifying tag, about a date or
   the tag of another server: then the source may say something else by now. *)
NotModified(u) ==
  /\ cached[u] # NoSnapshot
  /\ u \in Tagged => cached[u].content = published[u][now]

(* A list answered with 304: what was held vouches anew. *)
RenewList(l) ==
  /\ asked = NoRequest
  /\ NotModified(l)
  /\ cached' = [cached EXCEPT ![l].retrieved = now, ![l].expires = now + Validity]
  /\ UNCHANGED <<now, profile, published, asked, answered, resolution>>

(* A source of keys fetched anew, perhaps with a response signature that binds
   its keys to its authority for a while.  A refresh takes every one for a key
   directory: the keys of a JWK set may pass for one, an agent card never does. *)
FetchKeys(d) ==
  /\ asked = NoRequest
  /\ profile[d].discovery # "cimd"
  /\ \E expires \in {now + age : age \in MaxAges} \cup {Never} :
     \E bound \in {{}} \cup (IF d \in Signing THEN {published[d][now]} ELSE {}) :
     \E until \in IF bound = {} THEN {now} ELSE now..MaxTime :
       cached' = [cached EXCEPT ![d] =
                    Retrieved(d, "key_directory", TRUE, expires, bound, until)]
  /\ UNCHANGED <<now, profile, published, asked, answered, resolution>>

(* One answered with 304: it is fresh again if the answer has a max-age, its binding
   stays as old as it was, and it is now a key directory whatever it was before. *)
RevalidateKeys(d) ==
  /\ asked = NoRequest
  /\ NotModified(d)
  /\ \E expires \in {now + age : age \in MaxAges} \cup {cached[d].expires} :
       cached' = [cached EXCEPT ![d].retrieved = now, ![d].expires = expires,
                                ![d].type = "key_directory"]
  /\ UNCHANGED <<now, profile, published, asked, answered, resolution>>

(* A program puts the document a JWK set or agent card is served as in the cache,
   as the only way to get one there. *)
Provision(u) ==
  /\ asked = NoRequest
  /\ \E expires \in {now + age : age \in MaxAges} \cup {Never}, direct \in BOOLEAN :
       cached' = [cached EXCEPT ![u] =
         Retrieved(u, IF u \in KeySources /\ profile[u].discovery = "cimd"
                        THEN "agent_card" ELSE "jwk_set", direct, expires, {}, now)]
  /\ UNCHANGED <<now, profile, published, asked, answered, resolution>>

(* ProviderAwareVerificationManager.verify, of a request from the log *)
Verify(r) ==
  /\ asked = NoRequest
  /\ r.at <= now
  /\ asked' = r
  /\ answered' \in SUBSET Applicable(r)
  /\ resolution' = Resolve(r.claim, {EvidenceFrom(v, r) : v \in answered'})
  /\ UNCHANGED <<now, profile, published, cached>>

(* The caller has the resolution. *)
Return ==
  /\ asked # NoRequest
  /\ asked' = NoRequest
  /\ answered' = {}
  /\ resolution' = NoResolution
  /\ UNCHANGED <<now, profile, published, cached>>

Next ==
  \/ Tick
  \/ \E l \in lists : RefreshList(l) \/ RenewList(l)
  \/ \E d \in keySources : FetchKeys(d) \/ RevalidateKeys(d)
  \/ \E u \in DOMAIN published \ lists :
       (u \in KeySources => profile[u].discovery # "directory") /\ Provision(u)
  \/ \E r \in Requests : Verify(r)
  \/ Return

Spec == Init /\ [][Next]_vars

-----------------------------------------------------------------------------
(* The list said so, and at a time that vouches for the time of the request if its
   304 answers are about the content that is held. *)
ListVouches(l, r) ==
  /\ profile[l].provider = r.claim.provider
  /\ \E t \in 0..now :
       /\ r.address \in published[l][t]
       /\ l \in Tagged => r.at <= t + Validity

(* What its owner says a key may be used for, and when. *)
MayBeUsed(key, method, at) == method \in Jwk[key].allows /\ at \in Jwk[key].active

(* A good signature, by a key that may be used so at the time. *)
Good(s, at) ==
  /\ s.fault = "none" /\ s.method \in Jwk[s.key].methods
  /\ Jwk[s.key].sound /\ MayBeUsed(s.key, s.method, at)

(* The source held the key, at the time of the request or before, or its card named
   a trusted JWK set that did; and the signature is good and meant for the source. *)
KeysVouch(d, r) ==
  /\ r.signature # NoSignature
  /\ profile[d].provider = r.claim.provider
  /\ Good(r.signature, r.at) /\ r.signature.member \in {d, "none"}
  /\ \E e \in {d} \cup
         {u \in DOMAIN published \cap UNION {published[d][t] : t \in 0..now} : Allows(u)} :
       \E t \in 0..r.at : r.signature.key \in published[e][t]

(***************************************************************************)
(* What verification establishes about a request, the claimed provider     *)
(* published: a list no longer than the validity period before the         *)
(* request, if its 304 answers confirm what ATI holds, and at some time if *)
(* they do not; a signing key not after the request, which was active at   *)
(* its time; or its DNS confirms it.  The agent is established by a source *)
(* of that agent only.  (configured.py:142-164, 298-300,                   *)
(* source_service.py:282-305, web_bot_auth.py:228-242, resolver.py:97-112) *)
(***************************************************************************)
EstablishedWasPublished ==
  asked # NoRequest =>
    /\ resolution.provider_verified =>
         \/ \E l \in Lists \cap answered : ListVouches(l, asked)
         \/ \E d \in KeySources \cap answered : KeysVouch(d, asked)
         \/ "fcrdns" \in answered /\ asked.dns = "pass"
    /\ resolution.agent_verified =>
         \E s \in Sources \cap answered :
           /\ profile[s].scope = "agent" /\ profile[s].subject = asked.claim.agent
           /\ IF s \in Lists THEN ListVouches(s, asked) ELSE KeysVouch(s, asked)

(***************************************************************************)
(* A request with the good signature of another provider's agent is never  *)
(* taken for the claimed one: when that provider's directory answers, with *)
(* a snapshot that vouches for the request, the claim is in conflict.      *)
(* (configured.py:538-540, 592-601, resolver.py:63-75)                     *)
(***************************************************************************)
ForeignSignerConflicts ==
  asked # NoRequest /\ asked.signature # NoSignature =>
    \A d \in KeySources \cap answered :
      /\ profile[d].provider # asked.claim.provider
      /\ profile[d].compatible /\ profile[d].scope # "key"
      /\ profile[d].discovery = "directory"
      /\ cached[d] # NoSnapshot
      /\ cached[d].retrieved <= asked.at /\ asked.at <= cached[d].expires
      /\ asked.signature.key \in cached[d].content
      /\ Good(asked.signature, asked.at) /\ asked.signature.member \in {d, "none"}
      => resolution.state = "CONFLICTED"

(* The keys of a source at some time, its own and those its card leads to. *)
KeysOf(d) ==
  LET own == UNION {published[d][t] : t \in Times}
  IN own \cup UNION {published[e][t] : e \in own \cap DOMAIN published, t \in Times}

(* The request is what it claims to be: the address is on every list about the
   claim, and it is not signed or signed, for its own agent's source, with a key
   that is nobody else's, as that key may be used then. *)
Honest(r) ==
  /\ \A l \in lists \cap Applicable(r) : \A t \in Times : r.address \in published[l][t]
  /\ r.claim.provider \in DnsProviders => r.dns # "mismatch"
  /\ r.signature # NoSignature =>
       /\ r.signature.fault = "none" /\ r.signature.member \in keySources
       /\ MayBeUsed(r.signature.key, r.signature.method, r.at)
       /\ Jwk[r.signature.key].methods # {} => r.signature.method \in Jwk[r.signature.key].methods
       /\ \A e \in keySources \ {r.signature.member} : r.signature.key \notin KeysOf(e)
       /\ profile[r.signature.member].provider = r.claim.provider
       /\ profile[r.signature.member].subject = r.claim.agent

(* A source of the claim has current keys, the signer's among them or not, and ATI
   cannot verify the signature with any: there is no method to try, or the signature
   names its method and one of another key is tried too. *)
Unsupported(d, r) ==
  LET keys == cached[KeyDocument(d)].content
  IN /\ profile[d].provider = r.claim.provider
     /\ \/ profile[d].scope = "provider"
        \/ profile[d].scope = "agent" /\ profile[d].subject \in {NoName, r.claim.agent}
     /\ Material(d, r.at) = "found"
     /\ ~(Selects(keys, r.signature) /\ Jwk[r.signature.key].methods # {})
     /\ \/ Candidates(keys) = {}
        \/ r.signature.named /\ \E method \in Candidates(keys) : method # r.signature.method

(***************************************************************************)
(* Whatever is missing, stale, newly rotated, not trusted or late, an      *)
(* honest request is not refused: its claim neither fails nor is in        *)
(* conflict.  The one exception is a signature whose key or method is not  *)
(* supported, for which the code does refuse it, although                  *)
(* docs/identity-verification.md:26 says that unsupported methods do not   *)
(* become identity failures.  (configured.py:288-300, 370-398,             *)
(* web_bot_auth.py:322-347)                                                *)
(***************************************************************************)
HonestIsRefusedIffUnsupported ==
  asked # NoRequest /\ Honest(asked) =>
    (resolution.state \in {"FAILED", "CONFLICTED"}
       <=> \E d \in KeySources \cap answered : Unsupported(d, asked))

(***************************************************************************)
(* A key that came with the request identifies nobody: without an address  *)
(* such a request verifies nothing and is in conflict with nothing.        *)
(* (configured.py:209-266, web_bot_auth.py:244-265)                        *)
(***************************************************************************)
InlineKeyIdentifiesNobody ==
  /\ asked # NoRequest
  /\ asked.address = NoAddress
  /\ asked.signature # NoSignature
  /\ asked.signature.member = "inline"
  => resolution.state \in {"CLAIMED", "FAILED"} /\ ~resolution.provider_verified

(***************************************************************************)
(* Sources whose snapshot does not cover the time of the request decide    *)
(* nothing, for or against, and neither does a current agent card if the   *)
(* keys it leads to are too old.  (ADR 0009:35, configured.py:298, 381,    *)
(* cached_discovery.py:77-80)                                              *)
(***************************************************************************)
OldSnapshotsDecideNothing ==
  /\ asked # NoRequest
  /\ "fcrdns" \notin answered
  /\ \A s \in Sources \cap answered :
       \E u \in DOMAIN published \cap (IF s \in Lists THEN {s} ELSE {s, KeyDocument(s)}) :
         cached[u] = NoSnapshot \/ cached[u].expires < asked.at
  => resolution.state = "CLAIMED" /\ ~resolution.provider_verified

(***************************************************************************)
(* An address that one of the claimed provider's current lists holds       *)
(* proves the provider.  (docs/provider-verification.md:8)                 *)
(***************************************************************************)
ListedAddressProvesProvider ==
  /\ asked # NoRequest
  /\ answered = Applicable(asked)
  /\ asked.signature = NoSignature
  /\ \E l \in Lists \cap answered :
       /\ cached[l] # NoSnapshot /\ asked.at <= cached[l].expires
       /\ asked.address \in cached[l].content
  => resolution.provider_verified
=============================================================================
