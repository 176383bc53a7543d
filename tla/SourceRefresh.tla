---------------------------- MODULE SourceRefresh ----------------------------
(***************************************************************************)
(* ati sources refresh (identity/source_service.py): for each configured    *)
(* source in turn, read the cached document, ask the origin for it with    *)
(* the cached validator, and store what comes of the answer.  The first    *)
(* exception ends the run.  Every read and write of the cache is made of   *)
(* the steps of SourceCache, so other refreshes come between them.         *)
(*                                                                         *)
(* The fetches go through SafeFetcher, which also holds the web they meet.  *)
(* Time is counted in units that make a request and its answer             *)
(* instantaneous; everything else may take any time.                       *)
(***************************************************************************)
EXTENDS Integers, Sequences

CONSTANTS
  Uris, Contents, Metadata, Procs, Writers,
  NoEntry, Stored, Raised, NoAnswer, NoCall, MaxKills,
  Directories,    \* the key directories among the URIs; the rest are IP ranges
  Selections,     \* the sequences of URIs a run may visit: all, or a provider's;
                  \* a provider without one is refused before the run begins
  Places, Host, Offers, Etag, Modified, NoValidator, NoTrip, MaxRedirects,
  Validity,       \* RANGE_SNAPSHOT_VALIDITY
  MaxAges,        \* the max-ages directories are served with; NoExpiry is none
  NoExpiry,       \* expires_at of a document that has no freshness limit
  Unsigned,       \* no key-authority binding
  MaxTime         \* bound on the clock

ASSUME RefreshAssumption ==
  /\ Writers \subseteq Procs
  /\ Directories \subseteq Uris
  /\ Selections \subseteq Seq(Uris) \ {<<>>}
  /\ Uris \subseteq Places
  /\ Validity \in Nat /\ MaxTime \in Nat
  /\ MaxAges \subseteq Nat \cup {NoExpiry}
  /\ NoExpiry \notin Nat
  /\ Unsigned \notin [sha256 : Contents, verified_at : Nat]
  /\ Contents \cap Places = {}
  /\ \A q \in Places : Offers[q] # {} /\ Offers[q] \subseteq Contents \cup Places
  /\ \A q \in Places, c \in Contents :
       Etag[q][c] \notin Nat /\ Modified[q][c] \in Nat \cup {NoValidator}
  /\ NoValidator \notin Nat /\ MaxRedirects \in Nat

VARIABLES
  blobs, manifest, temp, orphans, pc, call, loaded, answer, kills,
  stage,       \* where each refresh is in the loop body
  plan,        \* the sources the run visits
  done,        \* how many of them it has finished with
  started,     \* when the run began
  draft,       \* the document about to be stored
  trip,        \* the fetches that are going on
  now,         \* the clock
  origin,      \* [Places -> Contents \cup Places], what each place answers now
  lastServed,  \* [Places -> [Contents -> time]], until when it was published
  lastSigned   \* [Uris -> [Contents -> time]], of its last verified signature

Cache == INSTANCE SourceCache
Fetcher == INSTANCE SafeFetcher WITH Clients <- Writers

cacheVars == <<blobs, manifest, temp, orphans, pc, call, loaded, answer, kills>>
runVars == <<stage, plan, done, started, draft>>
fetchVars == <<trip, origin>>
historyVars == <<lastServed, lastSigned>>
vars == <<cacheVars, runVars, fetchVars, historyVars, now>>

Never == -1
Entry(u) == manifest.entries[u]

(* The operators with a suffix _Something are slips the code could have    *)
(* made; nothing uses them, and each breaks a property below if it is put   *)
(* in the place of the operator it is named after.                         *)

(* The source a run is working on, and the document it had for it. *)
Current(p) == plan[p][done[p] + 1]
Previous(p) == answer[p]

Init ==
  /\ Cache!Init
  /\ stage = [p \in Writers |-> "off"]
  /\ plan = [p \in Writers |-> <<>>]
  /\ done = [p \in Writers |-> 0]
  /\ started = [p \in Writers |-> 0]
  /\ draft = [p \in Writers |-> NoEntry]
  /\ now = 0
  /\ Fetcher!Init
  /\ lastServed = [q \in Places |->
                     [c \in Contents |-> IF c = origin[q] THEN 0 ELSE Never]]
  /\ lastSigned = [u \in Uris |-> [c \in Contents |-> Never]]

-----------------------------------------------------------------------------
GoTo(p, label) == stage' = [stage EXCEPT ![p] = label]

(* The run is over: all sources done, an exception, or a kill. *)
Leave(p) ==
  /\ GoTo(p, "off")
  /\ plan' = [plan EXCEPT ![p] = <<>>]
  /\ done' = [done EXCEPT ![p] = 0]
  /\ started' = [started EXCEPT ![p] = 0]

Begin(p) ==
  /\ stage[p] = "off"
  /\ \E s \in Selections : plan' = [plan EXCEPT ![p] = s]
  /\ started' = [started EXCEPT ![p] = now]
  /\ GoTo(p, "look")
  /\ UNCHANGED <<cacheVars, fetchVars, historyVars, done, draft, now>>

(* previous = cache.get(spec.uri) *)
Look(p) ==
  /\ stage[p] = "look"
  /\ Cache!GetMiss(p, Current(p)) \/ Cache!GetEntry(p, Current(p))
  /\ GoTo(p, "found")
  /\ UNCHANGED <<fetchVars, historyVars, plan, done, started, draft, now>>

(* client.fetch with the validators of the previous document *)
Validators(doc) ==
  IF doc = NoEntry THEN Fetcher!NoHeaders
                   ELSE [etag |-> doc.etag, modified |-> doc.modified]

(* follow_redirects=not is_directory *)
Follows_Always(u) == TRUE
Follows(u) == u \notin Directories

Ask(p) ==
  /\ stage[p] = "found"
  /\ pc[p] = "idle"
  /\ Previous(p) # Raised
  /\ Fetcher!Fetch(p, Current(p), Validators(Previous(p)), Follows(Current(p)))
  /\ GoTo(p, "fetch")
  /\ UNCHANGED <<cacheVars, historyVars, plan, done, started, draft, now>>

FollowRedirect(p) ==
  /\ Fetcher!Redirected(p)
  /\ UNCHANGED <<cacheVars, runVars, historyVars, now>>

(***************************************************************************)
(* _expires_at: a range list vouches for Validity after its retrieval,     *)
(* whatever its headers say; a directory for the max-age it is served      *)
(* with, or without limit when there is none.                              *)
(***************************************************************************)
Expiries_NoLimit(u) == {NoExpiry}
Expiries(u) ==
  IF u \in Directories
    THEN {IF a = NoExpiry THEN NoExpiry ELSE now + a : a \in MaxAges}
    ELSE {now + Validity}

(* The bindings a verified signed response yields; only directories have them. *)
Bindings(u, c) ==
  {Unsigned} \cup (IF u \in Directories
                     THEN {[sha256 |-> c, verified_at |-> now]} ELSE {})

(* A 200 answer whose body parses: _document_from_result. *)
FetchNew(p) ==
  LET u == Current(p)
      q == trip[p].at
  IN \E c \in Contents :
     /\ Fetcher!Receives(p, c)
     /\ \E e \in Expiries(u), b \in Bindings(u, c) :
          /\ draft' = [draft EXCEPT ![p] =
               [sha256 |-> c, retrieved_at |-> now, expires_at |-> e,
                etag |-> Etag[q][c], modified |-> Modified[q][c], binding |-> b]]
          /\ lastSigned' = IF b = Unsigned THEN lastSigned
                             ELSE [lastSigned EXCEPT ![u][c] = now]
     /\ Fetcher!End(p)
     /\ GoTo(p, "store")
     /\ UNCHANGED <<cacheVars, plan, done, started, now, lastServed>>

(***************************************************************************)
(* _revalidated_document: content and binding of the previous document,    *)
(* the new retrieval time, and the new expiry e and the validators v of    *)
(* the answer where it gives them.                                         *)
(***************************************************************************)
Given(new, old) == IF new = NoValidator THEN old ELSE new

Stamped(doc, time, e, v) ==
  [doc EXCEPT !.retrieved_at = time,
              !.expires_at = IF e = NoExpiry THEN doc.expires_at ELSE e,
              !.etag = Given(v.etag, doc.etag),
              !.modified = Given(v.modified, doc.modified)]
Revalidated_OldTime(p, e, v) == Stamped(Previous(p), Previous(p).retrieved_at, e, v)
Revalidated_ReadAgain(p, e, v) == Stamped(Entry(Current(p)), now, e, v)
Revalidated_NewBinding(p, e, v) ==
  [Stamped(Previous(p), now, e, v) EXCEPT
     !.binding = [sha256 |-> Previous(p).sha256, verified_at |-> now]]
Revalidated(p, e, v) == Stamped(Previous(p), now, e, v)

(***************************************************************************)
(* A 304 answer.  It repeats the entity tag of the content the place        *)
(* publishes, and its date or not.  Servers answer 304 only to a condition, *)
(* so there is a previous document.                                        *)
(***************************************************************************)
FetchNotModified(p) ==
  LET q == trip[p].at
  IN \E c \in Contents :
     /\ Fetcher!NotModified(p, c)
     /\ \E e \in Expiries(Current(p)), d \in {Modified[q][c], NoValidator} :
          draft' = [draft EXCEPT ![p] =
                      Revalidated(p, e, [etag |-> Etag[q][c], modified |-> d])]
     /\ Fetcher!End(p)
     /\ GoTo(p, "store")
     /\ UNCHANGED <<cacheVars, historyVars, plan, done, started, now>>

(***************************************************************************)
(* The fetch or the check of its answer raises: an address that is not     *)
(* public, no connection, a redirect too many, of a directory, or to a URI *)
(* that is not acceptable, a status, size or media type that is not, a     *)
(* body that does not parse.                                               *)
(***************************************************************************)
FetchFails(p) ==
  /\ Fetcher!Fetching(p)
  /\ Fetcher!End(p)
  /\ Leave(p)
  /\ UNCHANGED <<cacheVars, historyVars, draft, now>>

(* cache.put(document) begins *)
Store(p) ==
  /\ stage[p] = "store"
  /\ Cache!PutKnown(p, Current(p), draft[p]) \/ Cache!PutNew(p, Current(p), draft[p])
  /\ draft' = [draft EXCEPT ![p] = NoEntry]
  /\ GoTo(p, "storing")
  /\ UNCHANGED <<fetchVars, historyVars, plan, done, started, now>>

(* The loop has no source left. *)
IsLast(p) == done[p] + 1 = Len(plan[p])

(* cache.put has returned: on to the next source, or out of the loop. *)
Advance(p) ==
  /\ stage[p] = "storing"
  /\ pc[p] = "idle"
  /\ answer[p] = Stored
  /\ IF IsLast(p)
       THEN Leave(p)
       ELSE /\ done' = [done EXCEPT ![p] = @ + 1]
            /\ GoTo(p, "look")
            /\ UNCHANGED <<plan, started>>
  /\ UNCHANGED <<cacheVars, fetchVars, historyVars, draft, now>>

(* cache.get or cache.put has raised, and so does the run. *)
Failure(p) ==
  /\ stage[p] \in {"found", "storing"}
  /\ pc[p] = "idle"
  /\ answer[p] = Raised

GiveUp_TryAgain(p) == GoTo(p, "look") /\ UNCHANGED <<plan, done, started>>
GiveUp(p) == Leave(p)

Abort(p) ==
  /\ Failure(p)
  /\ GiveUp(p)
  /\ UNCHANGED <<cacheVars, fetchVars, historyVars, draft, now>>

(* The steps of a get or put in progress. *)
CacheStep(p) ==
  /\ \/ Cache!FillTemp(p)
     \/ Cache!PublishBlob(p)
     \/ Cache!LoadManifest(p)
     \/ Cache!PublishManifest(p)
     \/ Cache!PutFails(p)
     \/ Cache!ReadBlob(p)
  /\ UNCHANGED <<runVars, fetchVars, historyVars, now>>

Kill(p) ==
  /\ Cache!Kill(p)
  /\ Leave(p)
  /\ draft' = [draft EXCEPT ![p] = NoEntry]
  /\ UNCHANGED <<fetchVars, historyVars, now>>

-----------------------------------------------------------------------------
(* The world outside: time passes and places publish something else. *)
Served(q, a, time) ==
  IF a \in Contents THEN [lastServed[q] EXCEPT ![a] = time] ELSE lastServed[q]

Tick ==
  /\ now < MaxTime
  /\ now' = now + 1
  /\ lastServed' = [q \in Places |-> Served(q, origin[q], now + 1)]
  /\ UNCHANGED <<cacheVars, runVars, fetchVars, lastSigned>>

OriginChanges(q, a) ==
  /\ Fetcher!Publishes(q, a)
  /\ lastServed' = [lastServed EXCEPT ![q] = Served(q, a, now)]
  /\ UNCHANGED <<cacheVars, runVars, lastSigned, now>>

RunStep(p) ==
  \/ Look(p) \/ Ask(p)
  \/ FollowRedirect(p) \/ FetchNew(p) \/ FetchNotModified(p) \/ FetchFails(p)
  \/ Store(p) \/ Advance(p) \/ Abort(p)
  \/ CacheStep(p)

Next ==
  \/ \E p \in Writers : Begin(p) \/ RunStep(p) \/ Kill(p)
  \/ Tick
  \/ \E q \in Places, a \in Contents \cup Places : OriginChanges(q, a)

(* The operating system runs a started refresh to its end unless it is killed. *)
Spec == Init /\ [][Next]_vars /\ \A p \in Writers : WF_vars(RunStep(p))

-----------------------------------------------------------------------------
(* Where source u may come from: a directory from its own place only, a list *)
(* from the places of its host; through redirects also from other hosts.     *)
Home(u) ==
  IF u \in Directories THEN {u} ELSE {q \in Places : Host[q] = Host[u]}

(* Content c can have come to source u from its home only: no place elsewhere  *)
(* that has it is one that redirects lead to.                              *)
Local(u, c) ==
  \/ u \in Directories
  \/ \A q \in Places \ Home(u) : c \in Offers[q] => \A r \in Places : q \notin Offers[r]

PublishedAt(u, c, time) == \E q \in Home(u) : lastServed[q][c] >= time

(***************************************************************************)
(* An entry claims a retrieval time at which its source really published   *)
(* its content: no overlap of refreshes, 304 answer, kill or redirect      *)
(* stamps an old content with a time after the source dropped it.  A       *)
(* directory never comes from another place; a list that has moved to      *)
(* another host, whose entity tags mean other contents, is left out.       *)
(***************************************************************************)
RetrievalIsBacked ==
  \A u \in Uris : Entry(u) # NoEntry /\ Local(u, Entry(u).sha256) =>
    PublishedAt(u, Entry(u).sha256, Entry(u).retrieved_at)

(***************************************************************************)
(* ADR 0009: a cached range list vouches for no request later than         *)
(* Validity after its provider last published it.                          *)
(***************************************************************************)
VouchesOnlyNearPublication ==
  \A u \in Uris \ Directories : Entry(u) # NoEntry /\ Local(u, Entry(u).sha256) =>
    /\ Entry(u).expires_at # NoExpiry
    /\ PublishedAt(u, Entry(u).sha256, Entry(u).expires_at - Validity)

(***************************************************************************)
(* What ADR 0009 says of a 304 answer: it renews the period, "because the  *)
(* provider has confirmed the list is unchanged".  The place that answers  *)
(* publishes the very content that is renewed.                             *)
(***************************************************************************)
RenewalIsConfirmed ==
  [][\A p \in Writers :
       FetchNotModified(p) => origin[trip[p].at] = Previous(p).sha256]_vars

(***************************************************************************)
(* A cached key-authority binding is for the very content it is cached     *)
(* with, and a signed answer with that content was verified at or after    *)
(* the time it states: a 304 keeps a binding and does not renew it.        *)
(***************************************************************************)
BindingsAreEndorsed ==
  \A u \in Uris : Entry(u) # NoEntry /\ Entry(u).binding # Unsigned =>
    /\ Entry(u).binding.sha256 = Entry(u).sha256
    /\ Entry(u).binding.verified_at <= lastSigned[u][Entry(u).sha256]

(***************************************************************************)
(* With one refresh at a time: every source a run has been through is      *)
(* cached with a retrieval not older than the run, up to the last one,     *)
(* where the run returns, or the one it raises at.                         *)
(***************************************************************************)
Visited(p) ==
  {plan[p][i] : i \in 1..done[p]} \cup
  (IF stage[p] = "storing" /\ answer[p] = Stored THEN {Current(p)} ELSE {})

VisitedSourcesAreFresh ==
  \A p \in Writers : \A u \in Visited(p) :
    Entry(u) # NoEntry /\ Entry(u).retrieved_at >= started[p]

(***************************************************************************)
(* With one refresh at a time the cache never goes back to an earlier      *)
(* retrieval, and never drops an entry.                                    *)
(***************************************************************************)
CacheNeverGoesBack ==
  [][\A u \in Uris : Entry(u) # NoEntry =>
       /\ Entry(u)' # NoEntry
       /\ Entry(u)'.retrieved_at >= Entry(u).retrieved_at]_vars

(* A run that has begun ends: it returns, raises, or is killed. *)
RunsEnd == \A p \in Writers : stage[p] # "off" ~> stage[p] = "off"

(* With one refresh at a time the commands see the map of SourceStore. *)
ImplementsStore == Cache!ImplementsStore
=============================================================================
