------------------------- MODULE SourceRefreshProofs -------------------------
(***************************************************************************)
(* What a cache that any number of refreshes share may claim, for any       *)
(* sources, places, redirects, contents and times: the retrieval times of   *)
(* its entries are backed by their sources, its lists vouch for no time     *)
(* long after, and its key-authority bindings were verified.  And what a    *)
(* cache that one refresh at a time uses is: an atomic map, whose entries   *)
(* never get older.                                                        *)
(***************************************************************************)
EXTENDS SourceRefresh, TLAPS

(* An entity tag tells the contents of one server apart, and every answer has one.
   (A server that sends dates only may renew what it no longer publishes, when it
   goes back to an older content.)                                         *)
TagsIdentify ==
  \A q, r \in Places : Host[q] = Host[r] =>
    \A c \in Offers[q] \cap Contents, d \in Offers[r] \cap Contents :
      /\ Etag[q][c] # NoValidator
      /\ Etag[q][c] = Etag[r][d] => c = d

-----------------------------------------------------------------------------
(* The documents a refresh can have in hand. *)
Validator ==
  {NoValidator} \cup {Etag[q][c] : q \in Places, c \in Contents}
    \cup {Modified[q][c] : q \in Places, c \in Contents}
Headers == [etag : Validator, modified : Validator]
Binding == [sha256 : Contents, verified_at : Nat]
Document ==
  [sha256 : Contents, retrieved_at : Nat, expires_at : Nat \cup {NoExpiry},
   etag : Validator, modified : Validator, binding : Binding \cup {Unsigned}]

(* What is known of a document of source u, whatever the histories of what places *)
(* served and sources signed: both only grow, so it stays known.            *)
Endorsed(signed, u, d) ==
  d.binding # Unsigned =>
    /\ d.binding.sha256 = d.sha256
    /\ d.binding.verified_at <= signed[u][d.sha256]

Backed(served, u, d) ==
  \E q \in Home(u) :
    /\ d.sha256 \in Offers[q]
    /\ d.etag = Etag[q][d.sha256]
    /\ d.retrieved_at <= served[q][d.sha256]

Sound(served, signed, u, d) ==
  /\ d \in Document
  /\ u \notin Directories => d.expires_at = d.retrieved_at + Validity
  /\ Endorsed(signed, u, d)
  /\ TagsIdentify /\ Local(u, d.sha256) => Backed(served, u, d)

ServedTimes == [Places -> [Contents -> Int]]
SignedTimes == [Uris -> [Contents -> Int]]

-----------------------------------------------------------------------------
(* The inductive invariant: the types, what the histories say of now, and, for   *)
(* each place of a refresh in its loop, the documents it has in hand.        *)
Trip ==
  [at : Places, redirects : Nat, headers : Headers, follow : BOOLEAN]

Types ==
  /\ manifest.entries \in [Uris -> Document \cup {NoEntry}]
  /\ pc \in [Procs -> {"idle", "blob", "load", "manifest", "read"}]
  /\ call \in [Procs -> [uri : Uris, meta : Document] \cup {NoCall}]
  /\ loaded \in [Procs -> [Uris -> Document \cup {NoEntry}]]
  /\ answer \in [Procs -> Document \cup {NoEntry, Stored, Raised, NoAnswer}]
  /\ stage \in [Writers -> {"off", "look", "found", "fetch", "store", "storing"}]
  /\ plan \in [Writers -> Seq(Uris)]
  /\ done \in [Writers -> Nat]
  /\ draft \in [Writers -> Document \cup {NoEntry}]
  /\ trip \in [Writers -> Trip \cup {NoTrip}]

Histories ==
  /\ now \in Nat
  /\ origin \in [Places -> Contents \cup Places]
  /\ \A q \in Places : origin[q] \in Offers[q]
  /\ lastServed \in ServedTimes
  /\ lastSigned \in SignedTimes
  /\ \A q \in Places, c \in Contents : lastServed[q][c] <= now
  /\ \A u \in Uris, c \in Contents : lastSigned[u][c] <= now
  /\ \A q \in Places : origin[q] \in Contents => lastServed[q][origin[q]] = now

(* Where a fetch for source u with the document prev has got to. *)
Reached(u, q) == q = u \/ \E r \in Places : q \in Offers[r]

OnTheWay(p) ==
  trip[p] # NoTrip =>
    /\ stage[p] = "fetch"
    /\ trip[p].headers # Fetcher!NoHeaders =>
         /\ Host[trip[p].at] = Host[Current(p)]
         /\ trip[p].headers = Validators(Previous(p))
    /\ Reached(Current(p), trip[p].at)
    /\ Current(p) \in Directories => trip[p].at = Current(p) /\ ~trip[p].follow

InHand(p) ==
  /\ stage[p] = "off" => done[p] = 0
  /\ stage[p] # "off" => done[p] < Len(plan[p])
  /\ stage[p] \notin {"found", "storing"} => pc[p] = "idle"
  /\ stage[p] = "found" =>
       \/ pc[p] = "read" /\ call[p].uri = Current(p)
       \/ /\ pc[p] = "idle"
          /\ answer[p] \notin {Raised, NoEntry} =>
               Sound(lastServed, lastSigned, Current(p), answer[p])
  /\ stage[p] = "fetch" /\ answer[p] # NoEntry =>
       Sound(lastServed, lastSigned, Current(p), answer[p])
  /\ stage[p] = "store" => Sound(lastServed, lastSigned, Current(p), draft[p])
  /\ pc[p] # "idle" =>
       /\ call[p].uri \in Uris
       /\ Sound(lastServed, lastSigned, call[p].uri, call[p].meta)
  /\ \A u \in Uris : loaded[p][u] # NoEntry =>
       Sound(lastServed, lastSigned, u, loaded[p][u])

EntriesSound ==
  \A u \in Uris : manifest.entries[u] # NoEntry =>
    Sound(lastServed, lastSigned, u, manifest.entries[u])

Inv ==
  /\ Types
  /\ Histories
  /\ EntriesSound
  /\ \A p \in Writers : OnTheWay(p) /\ InHand(p)

-----------------------------------------------------------------------------
(* Documents. *)

(* What is known of a document stays known. *)
LEMMA SoundStays ==
  ASSUME NEW served \in ServedTimes, NEW served2 \in ServedTimes,
         NEW signed \in SignedTimes, NEW signed2 \in SignedTimes,
         \A q \in Places, c \in Contents : served[q][c] <= served2[q][c],
         \A u \in Uris, c \in Contents : signed[u][c] <= signed2[u][c],
         NEW u \in Uris, NEW d, Sound(served, signed, u, d)
  PROVE  Sound(served2, signed2, u, d)
<1> USE RefreshAssumption
<1>1. d \in Document /\ (u \notin Directories => d.expires_at = d.retrieved_at + Validity)
  BY DEF Sound
<1>2. Endorsed(signed2, u, d)
  <2>1. Endorsed(signed, u, d)
    BY DEF Sound
  <2> QED BY <1>1, <2>1 DEF Endorsed, Document, Binding, SignedTimes
<1>3. ASSUME TagsIdentify, Local(u, d.sha256) PROVE Backed(served2, u, d)
  <2>1. PICK q \in Home(u) : /\ d.sha256 \in Offers[q]
                             /\ d.etag = Etag[q][d.sha256]
                             /\ d.retrieved_at <= served[q][d.sha256]
    BY <1>3 DEF Sound, Backed
  <2>2. q \in Places
    BY DEF Home
  <2>3. /\ served[q][d.sha256] \in Int /\ served2[q][d.sha256] \in Int
        /\ d.retrieved_at \in Int
        /\ served[q][d.sha256] <= served2[q][d.sha256]
    BY <1>1, <2>2 DEF Document, ServedTimes
  <2>4. d.retrieved_at <= served2[q][d.sha256]
    BY <2>1, <2>3
  <2> QED BY <2>1, <2>4 DEF Backed
<1> QED BY <1>1, <1>2, <1>3 DEF Sound

(* A place that redirects lead to and that has a local content is at home. *)
LEMMA LocalIsHome ==
  ASSUME NEW u \in Uris, NEW q \in Places, NEW c \in Contents,
         c \in Offers[q], Reached(u, q), u \in Directories => q = u,
         Local(u, c)
  PROVE  q \in Home(u)
<1> USE RefreshAssumption
<1>1. CASE q = u
  BY <1>1 DEF Home
<1>2. CASE q # u
  <2>1. PICK r \in Places : q \in Offers[r]
    BY <1>2 DEF Reached
  <2> QED BY <1>2, <2>1 DEF Local
<1> QED BY <1>1, <1>2

(* A 200 answer gives a sound document. *)
LEMMA NewIsSound ==
  ASSUME Histories, NEW u \in Uris, NEW q \in Places, NEW c \in Contents, origin[q] = c,
         Reached(u, q), u \in Directories => q = u,
         NEW e \in Expiries(u), NEW b \in Bindings(u, c),
         NEW signed \in SignedTimes, b # Unsigned => signed[u][c] = now
  PROVE  Sound(lastServed, signed, u,
           [sha256 |-> c, retrieved_at |-> now, expires_at |-> e,
            etag |-> Etag[q][c], modified |-> Modified[q][c], binding |-> b])
<1> USE RefreshAssumption
<1> DEFINE d == [sha256 |-> c, retrieved_at |-> now, expires_at |-> e,
                 etag |-> Etag[q][c], modified |-> Modified[q][c], binding |-> b]
<1>1. now \in Nat /\ c \in Offers[q] /\ lastServed[q][c] = now
  BY DEF Histories
<1>2. e \in Nat \cup {NoExpiry} /\ (u \notin Directories => e = now + Validity)
  BY <1>1 DEF Expiries
<1>3. b \in Binding \cup {Unsigned} /\ (b # Unsigned => b.sha256 = c /\ b.verified_at = now)
  BY <1>1 DEF Bindings, Binding
<1>4. Etag[q][c] \in Validator /\ Modified[q][c] \in Validator
  BY DEF Validator
<1>5. d \in Document
  BY <1>1, <1>2, <1>3, <1>4 DEF Document
<1>6. Endorsed(signed, u, d)
  BY <1>1, <1>3 DEF Endorsed
<1>7. ASSUME Local(u, c) PROVE Backed(lastServed, u, d)
  <2>1. q \in Home(u)
    BY <1>1, <1>7, LocalIsHome
  <2> QED BY <1>1, <2>1 DEF Backed
<1> QED BY <1>2, <1>5, <1>6, <1>7 DEF Sound

(***************************************************************************)
(* A 304 answer to the validators of a sound document gives a sound        *)
(* document: if its content is local, its tag is that of a server the      *)
(* request has not left, and there it means the same content.              *)
(***************************************************************************)
LEMMA RenewedIsSound ==
  ASSUME Histories, NEW u \in Uris, NEW q \in Places, NEW c \in Contents, origin[q] = c,
         Reached(u, q), u \in Directories => q = u, Host[q] = Host[u],
         NEW d, d # NoEntry, Sound(lastServed, lastSigned, u, d),
         d.etag # NoValidator => d.etag = Etag[q][c],
         NEW e \in Expiries(u), NEW m \in {Modified[q][c], NoValidator}
  PROVE  Sound(lastServed, lastSigned, u,
               Stamped(d, now, e, [etag |-> Etag[q][c], modified |-> m]))
<1> USE RefreshAssumption
<1> DEFINE v == [etag |-> Etag[q][c], modified |-> m]
           n == Stamped(d, now, e, v)
<1>1. now \in Nat /\ c \in Offers[q] /\ lastServed[q][c] = now
  BY DEF Histories
<1>2. e \in Nat \cup {NoExpiry} /\ (u \notin Directories => e = now + Validity)
  BY <1>1 DEF Expiries
<1>3. d \in Document
  BY DEF Sound
<1>4. Given(v.etag, d.etag) \in Validator /\ Given(v.modified, d.modified) \in Validator
  BY <1>3 DEF Given, Validator, Document
<1>5. /\ n.sha256 = d.sha256 /\ n.retrieved_at = now /\ n.binding = d.binding
      /\ n.expires_at = IF e = NoExpiry THEN d.expires_at ELSE e
      /\ n.etag = Given(v.etag, d.etag)
      /\ n \in Document
  <2> HIDE DEF v
  <2> QED BY <1>1, <1>2, <1>3, <1>4 DEF Stamped, Document
<1>6. u \notin Directories => n.expires_at = n.retrieved_at + Validity
  BY <1>1, <1>2, <1>5
<1>7. Endorsed(lastSigned, u, n)
  BY <1>5 DEF Sound, Endorsed
<1>8. ASSUME TagsIdentify, Local(u, d.sha256) PROVE Backed(lastServed, u, n)
  <2>1. PICK r \in Home(u) : d.sha256 \in Offers[r] /\ d.etag = Etag[r][d.sha256]
    BY <1>8 DEF Sound, Backed
  <2>2. r \in Places /\ Host[r] = Host[u]
    BY DEF Home
  <2>3. d.sha256 \in Contents
    BY <1>3 DEF Document
  <2>4. d.etag # NoValidator
    BY <1>8, <2>1, <2>2, <2>3 DEF TagsIdentify
  <2>5. d.sha256 = c /\ Etag[q][c] # NoValidator
    BY <1>1, <1>8, <2>1, <2>2, <2>3, <2>4 DEF TagsIdentify
  <2>6. q \in Home(u)
    BY <1>1, <1>8, <2>5, LocalIsHome
  <2>7. n.etag = Etag[q][c]
    BY <1>5, <2>5 DEF Given
  <2> QED BY <1>1, <1>5, <2>5, <2>6, <2>7 DEF Backed
<1>9. Sound(lastServed, lastSigned, u, n)
  <2> HIDE DEF n
  <2> QED BY <1>5, <1>6, <1>7, <1>8 DEF Sound
<1> QED BY <1>9

-----------------------------------------------------------------------------
(* Steps.  What one does to the histories, and to the process that takes it.  *)
Grows ==
  /\ \A q \in Places, c \in Contents : lastServed[q][c] <= lastServed'[q][c]
  /\ \A u \in Uris, c \in Contents : lastSigned[u][c] <= lastSigned'[u][c]

Same(p) ==
  /\ stage'[p] = stage[p] /\ plan'[p] = plan[p] /\ done'[p] = done[p]
  /\ draft'[p] = draft[p] /\ trip'[p] = trip[p]
  /\ pc'[p] = pc[p] /\ call'[p] = call[p] /\ loaded'[p] = loaded[p]
  /\ answer'[p] = answer[p]

Keeps(p) ==
  /\ Types'
  /\ OnTheWay(p)'
  /\ InHand(p)'
  /\ \A q \in Writers \ {p} : Same(q)

LEMMA InitInv == Init => Inv
<1> USE RefreshAssumption
<1> SUFFICES ASSUME Init PROVE Inv
  OBVIOUS
<1>1. Types
  BY DEF Init, Types, Cache!Init, Cache!NoEntries, Fetcher!Init
<1>2. Histories
  BY DEF Init, Histories, Fetcher!Init, ServedTimes, SignedTimes, Never
<1>3. EntriesSound
  BY DEF Init, EntriesSound, Cache!Init, Cache!NoEntries
<1>4. ASSUME NEW p \in Writers PROVE OnTheWay(p) /\ InHand(p)
  BY DEF Init, OnTheWay, InHand, Cache!Init, Cache!NoEntries, Fetcher!Init
<1> QED BY <1>1, <1>2, <1>3, <1>4 DEF Inv

LEMMA CurrentIsSource ==
  ASSUME Types, NEW p \in Writers, InHand(p), stage[p] # "off"
  PROVE  Current(p) \in Uris
<1>1. plan[p] \in Seq(Uris) /\ done[p] \in Nat /\ done[p] < Len(plan[p])
  BY DEF Types, InHand
<1>2. done[p] + 1 \in 1..Len(plan[p])
  BY <1>1
<1> QED BY <1>1, <1>2 DEF Current

(* The histories only grow. *)
LEMMA HistoryStep ==
  ASSUME Histories, [Next]_vars
  PROVE  Histories' /\ Grows
<1>0. /\ now \in Int /\ now + 1 \in Nat /\ now \in Nat /\ now <= now + 1
      /\ \A q \in Places : origin[q] \in Contents \cup Places /\ origin[q] \in Offers[q]
      /\ \A q \in Places : lastServed[q] \in [Contents -> Int]
      /\ \A q \in Places, c \in Contents : lastServed[q][c] \in Int /\ lastServed[q][c] <= now
      /\ \A u \in Uris : lastSigned[u] \in [Contents -> Int]
      /\ \A u \in Uris, c \in Contents : lastSigned[u][c] \in Int /\ lastSigned[u][c] <= now
      /\ \A q \in Places : origin[q] \in Contents => lastServed[q][origin[q]] = now
      /\ Contents \cap Places = {}
  BY RefreshAssumption DEF Histories, ServedTimes, SignedTimes
<1>1. CASE Tick
  <2>1. /\ now' = now + 1 /\ origin' = origin /\ lastSigned' = lastSigned
        /\ lastServed' = [q \in Places |-> Served(q, origin[q], now + 1)]
    BY <1>1 DEF Tick, fetchVars
  <2>2. ASSUME NEW q \in Places
        PROVE  /\ Served(q, origin[q], now + 1) \in [Contents -> Int]
               /\ \A c \in Contents : Served(q, origin[q], now + 1)[c] =
                    IF c = origin[q] THEN now + 1 ELSE lastServed[q][c]
    <3>1. CASE origin[q] \in Contents
      BY <1>0, <3>1 DEF Served
    <3>2. CASE origin[q] \notin Contents
      BY <1>0, <3>2 DEF Served
    <3> QED BY <3>1, <3>2
  <2>3. \A q \in Places :
          /\ lastServed'[q] \in [Contents -> Int]
          /\ \A c \in Contents :
               lastServed'[q][c] = IF c = origin[q] THEN now + 1 ELSE lastServed[q][c]
    BY <2>1, <2>2
  <2>4. lastServed' \in ServedTimes
    BY <2>1, <2>2 DEF ServedTimes
  <2>5. /\ \A q \in Places, c \in Contents :
             lastServed'[q][c] <= now' /\ lastServed[q][c] <= lastServed'[q][c]
        /\ \A q \in Places : origin'[q] \in Contents => lastServed'[q][origin'[q]] = now'
    BY <1>0, <2>1, <2>3
  <2>6. \A u \in Uris, c \in Contents :
          lastSigned'[u][c] <= now' /\ lastSigned[u][c] <= lastSigned'[u][c]
    BY <1>0, <2>1
  <2> QED BY <1>0, <2>1, <2>4, <2>5, <2>6 DEF Histories, Grows
<1>2. ASSUME NEW q \in Places, NEW a \in Contents \cup Places, OriginChanges(q, a)
      PROVE  Histories' /\ Grows
  <2>1. /\ now' = now /\ lastSigned' = lastSigned
        /\ a \in Offers[q] /\ origin' = [origin EXCEPT ![q] = a]
        /\ lastServed' = [lastServed EXCEPT ![q] = Served(q, a, now)]
    BY <1>2 DEF OriginChanges, Fetcher!Publishes
  <2>2. /\ Served(q, a, now) \in [Contents -> Int]
        /\ \A c \in Contents :
             Served(q, a, now)[c] = IF c = a THEN now ELSE lastServed[q][c]
    <3>1. CASE a \in Contents
      BY <1>0, <3>1 DEF Served
    <3>2. CASE a \notin Contents
      BY <1>0, <3>2 DEF Served
    <3> QED BY <3>1, <3>2
  <2>3. lastServed \in ServedTimes /\ origin \in [Places -> Contents \cup Places]
    BY DEF Histories
  <2>4. lastServed' \in ServedTimes
    BY <2>1, <2>2, <2>3 DEF ServedTimes
  <2>5. \A r \in Places : lastServed'[r] = IF r = q THEN Served(q, a, now) ELSE lastServed[r]
    BY <2>1, <2>3 DEF ServedTimes
  <2>6. \A r \in Places, c \in Contents :
          lastServed'[r][c] = IF r = q /\ c = a THEN now ELSE lastServed[r][c]
    BY <2>2, <2>5
  <2>7. \A r \in Places : origin'[r] = IF r = q THEN a ELSE origin[r]
    BY <2>1, <2>3
  <2>8. origin' \in [Places -> Contents \cup Places]
    BY <2>1, <2>3
  <2>9. /\ \A r \in Places, c \in Contents :
             lastServed'[r][c] <= now' /\ lastServed[r][c] <= lastServed'[r][c]
        /\ \A r \in Places : origin'[r] \in Contents => lastServed'[r][origin'[r]] = now'
        /\ \A r \in Places : origin'[r] \in Offers[r]
    <3> HIDE <1>2
    <3> QED BY <1>0, <2>1, <2>6, <2>7
  <2>10. \A u \in Uris, c \in Contents :
          lastSigned'[u][c] <= now' /\ lastSigned[u][c] <= lastSigned'[u][c]
    BY <1>0, <2>1
  <2> QED BY <1>0, <2>1, <2>4, <2>8, <2>9, <2>10 DEF Histories, Grows
<1>3. CASE UNCHANGED <<now, origin, lastServed, lastSigned>>
  BY <1>0, <1>3 DEF Histories, Grows
<1>4. ASSUME NEW p \in Writers, FetchNew(p) PROVE Histories' /\ Grows
  <2>1. now' = now /\ lastServed' = lastServed /\ origin' = origin
    BY <1>4 DEF FetchNew, Fetcher!End
  <2>2. \/ lastSigned' = lastSigned
        \/ \E u : \E c \in Contents : lastSigned' = [lastSigned EXCEPT ![u][c] = now]
    BY <1>4 DEF FetchNew
  <2>3. CASE lastSigned' = lastSigned
    BY <1>3, <2>1, <2>3
  <2>4. ASSUME NEW u, NEW c \in Contents, lastSigned' = [lastSigned EXCEPT ![u][c] = now]
        PROVE  Histories' /\ Grows
    <3>1. lastSigned \in SignedTimes
      BY DEF Histories
    <3>2. \A v \in Uris : lastSigned'[v] =
            IF v = u THEN [lastSigned[v] EXCEPT ![c] = now] ELSE lastSigned[v]
      BY <2>4, <3>1 DEF SignedTimes
    <3>3. ASSUME NEW v \in Uris, NEW f \in [Contents -> Int], f = lastSigned[v]
          PROVE  /\ lastSigned'[v] \in [Contents -> Int]
                 /\ \A d \in Contents : lastSigned'[v][d] =
                      IF v = u /\ d = c THEN now ELSE lastSigned[v][d]
      <4>1. CASE v = u
        <5>1. lastSigned'[v] = [f EXCEPT ![c] = now]
          BY <3>2, <3>3, <4>1
        <5> QED BY <1>0, <3>3, <4>1, <5>1
      <4>2. CASE v # u
        BY <3>2, <3>3, <4>2
      <4> QED BY <4>1, <4>2
    <3>4. \A v \in Uris : /\ lastSigned'[v] \in [Contents -> Int]
                          /\ \A d \in Contents : lastSigned'[v][d] =
                               IF v = u /\ d = c THEN now ELSE lastSigned[v][d]
      BY <1>0, <3>3
    <3>5. lastSigned' \in SignedTimes
      <4>1. lastSigned' = [v \in Uris |-> lastSigned'[v]]
        BY <2>4, <3>1 DEF SignedTimes
      <4> QED BY <3>4, <4>1 DEF SignedTimes
    <3>6. \A v \in Uris, d \in Contents :
            lastSigned'[v][d] <= now' /\ lastSigned[v][d] <= lastSigned'[v][d]
      BY <1>0, <2>1, <3>4
    <3> QED BY <2>1, <3>5, <3>6, <1>0 DEF Histories, Grows
  <2> QED BY <2>2, <2>3, <2>4
<1>5. ASSUME NEW p \in Writers,
             \/ Begin(p) \/ Look(p) \/ Ask(p) \/ FollowRedirect(p) \/ FetchNotModified(p)
             \/ FetchFails(p) \/ Store(p) \/ Advance(p) \/ Abort(p) \/ CacheStep(p) \/ Kill(p)
      PROVE  UNCHANGED <<now, origin, lastServed, lastSigned>>
  BY <1>5 DEF Begin, Look, Ask, FollowRedirect, FetchNotModified, FetchFails, Store, Advance,
    Abort, CacheStep, Kill, Fetcher!Fetch, Fetcher!Redirected, Fetcher!End, fetchVars, historyVars
<1>6. CASE UNCHANGED vars
  BY <1>3, <1>6 DEF vars, fetchVars, historyVars
<1> QED BY <1>1, <1>2, <1>3, <1>4, <1>5, <1>6 DEF Next, RunStep

LEMMA SoundGrows ==
  ASSUME Histories, Histories', Grows, NEW u \in Uris, NEW d,
         Sound(lastServed, lastSigned, u, d)
  PROVE  Sound(lastServed', lastSigned', u, d)
BY SoundStays DEF Histories, Grows

(* A process that does nothing stays where it is, and what it has stays sound. *)
LEMMA OthersStay ==
  ASSUME Inv, Histories', Grows, NEW p \in Writers, Same(p)
  PROVE  OnTheWay(p)' /\ InHand(p)'
<1>1. Types /\ OnTheWay(p) /\ InHand(p) /\ Histories
  BY DEF Inv
<1>2. OnTheWay(p)'
  BY <1>1 DEF OnTheWay, Same, Current, Previous
<1>3. \A u \in Uris : \A d : Sound(lastServed, lastSigned, u, d) =>
                             Sound(lastServed', lastSigned', u, d)
  BY <1>1, SoundGrows
<1>4. stage[p] # "off" => Current(p) \in Uris
  BY <1>1, CurrentIsSource
<1>5. pc[p] # "idle" => call[p].uri \in Uris
  BY <1>1 DEF InHand
<1>6. Current(p)' = Current(p)
  BY DEF Same, Current
<1> QED BY <1>1, <1>2, <1>3, <1>4, <1>5, <1>6 DEF InHand, Same

-----------------------------------------------------------------------------
(* The steps of the loop. *)
LEMMA LoopStep ==
  ASSUME Inv, NEW p \in Writers,
         Begin(p) \/ Look(p) \/ Ask(p) \/ Store(p) \/ Advance(p) \/ Abort(p)
  PROVE  Keeps(p) /\ UNCHANGED manifest
<1> USE RefreshAssumption
<1>1. Types /\ OnTheWay(p) /\ InHand(p) /\ Histories /\ EntriesSound
  BY DEF Inv
<1>2. stage[p] # "fetch" => trip[p] = NoTrip
  BY <1>1 DEF OnTheWay
<1>3. stage[p] # "off" => Current(p) \in Uris
  BY <1>1, CurrentIsSource
<1>4. CASE Begin(p)
  <2>1. PICK s \in Selections : plan' = [plan EXCEPT ![p] = s]
    BY <1>4 DEF Begin
  <2>2. /\ stage[p] = "off" /\ stage' = [stage EXCEPT ![p] = "look"]
        /\ UNCHANGED <<manifest, pc, call, loaded, answer, done, draft, trip,
                       lastServed, lastSigned>>
    BY <1>4 DEF Begin, GoTo, cacheVars, fetchVars, historyVars
  <2>3. s \in Seq(Uris) /\ 0 < Len(s)
    BY RefreshAssumption
  <2>4. Types'
    BY <1>1, <2>1, <2>2, <2>3 DEF Types
  <2>5. OnTheWay(p)'
    BY <1>1, <1>2, <2>2 DEF OnTheWay
  <2>6. InHand(p)'
    BY <1>1, <2>1, <2>2, <2>3 DEF InHand, Types
  <2>7. \A q \in Writers \ {p} : Same(q)
    BY <1>1, <2>1, <2>2 DEF Same, Types
  <2> QED BY <2>2, <2>4, <2>5, <2>6, <2>7 DEF Keeps
<1>5. CASE Look(p)
  <2>1. /\ stage[p] = "look" /\ stage' = [stage EXCEPT ![p] = "found"]
        /\ UNCHANGED <<manifest, loaded, plan, done, draft, trip, lastServed, lastSigned>>
        /\ pc[p] = "idle"
        /\ \/ /\ answer' = [answer EXCEPT ![p] = NoEntry] \/ answer' = [answer EXCEPT ![p] = Raised]
              /\ UNCHANGED <<pc, call>>
           \/ /\ manifest.entries[Current(p)] # NoEntry
              /\ pc' = [pc EXCEPT ![p] = "read"]
              /\ call' = [call EXCEPT ![p] = [uri |-> Current(p),
                                              meta |-> manifest.entries[Current(p)]]]
              /\ answer' = [answer EXCEPT ![p] = NoAnswer]
    BY <1>5 DEF Look, GoTo, Cache!GetMiss, Cache!GetEntry, Cache!GoTo, Cache!files,
      fetchVars, historyVars
  <2>2. manifest.entries[Current(p)] # NoEntry =>
          /\ manifest.entries[Current(p)] \in Document
          /\ Sound(lastServed, lastSigned, Current(p), manifest.entries[Current(p)])
    BY <1>1, <1>3, <2>1 DEF EntriesSound, Types
  <2>3. Current(p)' = Current(p)
    BY <2>1 DEF Current
  <2>4. Types'
    <3>1. /\ answer' \in [Procs -> Document \cup {NoEntry, Stored, Raised, NoAnswer}]
          /\ pc' \in [Procs -> {"idle", "blob", "load", "manifest", "read"}]
          /\ stage' \in [Writers -> {"off", "look", "found", "fetch", "store", "storing"}]
      BY <1>1, <2>1 DEF Types
    <3>2. call' \in [Procs -> [uri : Uris, meta : Document] \cup {NoCall}]
      <4>1. call \in [Procs -> [uri : Uris, meta : Document] \cup {NoCall}]
        BY <1>1 DEF Types
      <4>2. CASE manifest.entries[Current(p)] # NoEntry
        <5> DEFINE k == [uri |-> Current(p), meta |-> manifest.entries[Current(p)]]
        <5>1. k \in [uri : Uris, meta : Document]
          BY <1>3, <2>1, <2>2, <4>2
        <5>2. call' = call \/ call' = [call EXCEPT ![p] = k]
          BY <2>1
        <5> HIDE DEF k
        <5> QED BY <4>1, <5>1, <5>2
      <4> QED BY <2>1, <4>1, <4>2
    <3> QED BY <1>1, <2>1, <3>1, <3>2 DEF Types
  <2>5. OnTheWay(p)'
    BY <1>1, <1>2, <2>1 DEF OnTheWay
  <2>6. InHand(p)'
    <3>1. stage'[p] = "found" /\ done'[p] < Len(plan'[p])
      BY <1>1, <2>1 DEF InHand, Types
    <3>2. \A u \in Uris : loaded'[p][u] # NoEntry =>
            Sound(lastServed', lastSigned', u, loaded'[p][u])
      BY <1>1, <2>1 DEF InHand
    <3>3. CASE UNCHANGED <<pc, call>>
      <4>1. pc'[p] = "idle" /\ answer'[p] \in {Raised, NoEntry}
        BY <1>1, <2>1, <3>3 DEF Types
      <4> QED BY <3>1, <3>2, <4>1 DEF InHand
    <3>4. CASE ~UNCHANGED <<pc, call>>
      <4> DEFINE k == [uri |-> Current(p), meta |-> manifest.entries[Current(p)]]
      <4>1. pc'[p] = "read" /\ call'[p] = k /\ manifest.entries[Current(p)] # NoEntry
        BY <1>1, <2>1, <3>4 DEF Types
      <4> QED BY <1>3, <2>1, <2>2, <2>3, <3>1, <3>2, <4>1 DEF InHand
    <3> QED BY <3>3, <3>4
  <2>7. \A q \in Writers \ {p} : Same(q)
    BY <1>1, <2>1 DEF Same, Types
  <2> QED BY <2>1, <2>4, <2>5, <2>6, <2>7 DEF Keeps
<1>6. CASE Ask(p)
  <2> DEFINE t == [at |-> Current(p), redirects |-> 0,
                   headers |-> Validators(Previous(p)), follow |-> Follows(Current(p))]
  <2>1. /\ stage[p] = "found" /\ stage' = [stage EXCEPT ![p] = "fetch"]
        /\ pc[p] = "idle" /\ answer[p] # Raised
        /\ trip' = [trip EXCEPT ![p] = t]
        /\ UNCHANGED <<manifest, pc, call, loaded, answer, plan, done, draft,
                       lastServed, lastSigned>>
    BY <1>6 DEF Ask, GoTo, Previous, Fetcher!Fetch, cacheVars, historyVars
  <2>2. answer[p] # NoEntry => Sound(lastServed, lastSigned, Current(p), answer[p])
    BY <1>1, <2>1 DEF InHand
  <2>3. Validators(Previous(p)) \in Headers
    <3>1. answer[p] # NoEntry => answer[p] \in Document
      BY <2>2 DEF Sound
    <3> QED BY <3>1 DEF Validators, Previous, Document, Headers, Fetcher!NoHeaders, Validator
  <2>4. t \in Trip
    BY <1>3, <2>1, <2>3 DEF Trip, Follows
  <2>5. Current(p)' = Current(p) /\ Previous(p)' = Previous(p)
    BY <2>1 DEF Current, Previous
  <2>6. Types'
    BY <1>1, <2>1, <2>4 DEF Types
  <2>7. OnTheWay(p)'
    <3>1. /\ trip'[p] = t /\ stage'[p] = "fetch"
      BY <1>1, <2>1 DEF Types
    <3>2. t.at = Current(p) /\ t.headers = Validators(Previous(p))
          /\ t.follow = Follows(Current(p))
      OBVIOUS
    <3> QED BY <2>5, <3>1, <3>2 DEF OnTheWay, Reached, Follows
  <2>8. InHand(p)'
    BY <1>1, <2>1, <2>2, <2>5 DEF InHand, Types
  <2>9. \A q \in Writers \ {p} : Same(q)
    BY <1>1, <2>1 DEF Same, Types
  <2> QED BY <2>1, <2>6, <2>7, <2>8, <2>9 DEF Keeps
<1>7. CASE Store(p)
  <2>1. /\ stage[p] = "store" /\ stage' = [stage EXCEPT ![p] = "storing"]
        /\ UNCHANGED <<manifest, loaded, plan, done, trip, lastServed, lastSigned>>
        /\ pc' = [pc EXCEPT ![p] = "load"] \/ pc' = [pc EXCEPT ![p] = "blob"]
        /\ call' = [call EXCEPT ![p] = [uri |-> Current(p), meta |-> draft[p]]]
        /\ answer' = [answer EXCEPT ![p] = NoAnswer]
        /\ draft' = [draft EXCEPT ![p] = NoEntry]
    BY <1>7 DEF Store, GoTo, Cache!PutKnown, Cache!PutNew, Cache!GoTo, Cache!files,
      fetchVars, historyVars
  <2>2. Sound(lastServed, lastSigned, Current(p), draft[p]) /\ draft[p] \in Document
    BY <1>1, <2>1 DEF InHand, Sound
  <2>3. Types'
    BY <1>1, <1>3, <2>1, <2>2 DEF Types
  <2>4. OnTheWay(p)'
    BY <1>1, <1>2, <2>1 DEF OnTheWay
  <2>5. InHand(p)'
    <3>1. stage'[p] = "storing" /\ done'[p] < Len(plan'[p])
      BY <1>1, <2>1 DEF InHand, Types
    <3>2. \A u \in Uris : loaded'[p][u] # NoEntry =>
            Sound(lastServed', lastSigned', u, loaded'[p][u])
      BY <1>1, <2>1 DEF InHand
    <3>3. call'[p] = [uri |-> Current(p), meta |-> draft[p]]
      BY <1>1, <2>1 DEF Types
    <3>4. Sound(lastServed', lastSigned', call'[p].uri, call'[p].meta)
      BY <2>1, <2>2, <3>3
    <3>5. call'[p].uri \in Uris
      BY <1>3, <2>1, <3>3
    <3> QED BY <3>1, <3>2, <3>4, <3>5 DEF InHand
  <2>6. \A q \in Writers \ {p} : Same(q)
    BY <1>1, <2>1 DEF Same, Types
  <2> QED BY <2>1, <2>3, <2>4, <2>5, <2>6 DEF Keeps
<1>8. CASE Advance(p) \/ Abort(p)
  <2>1. /\ stage[p] \in {"found", "storing"} /\ pc[p] = "idle"
        /\ UNCHANGED <<manifest, pc, call, loaded, answer, trip, draft, lastServed, lastSigned>>
    BY <1>8 DEF Advance, Abort, Failure, cacheVars, fetchVars, historyVars
  <2>2. \/ /\ stage' = [stage EXCEPT ![p] = "off"]
           /\ plan' = [plan EXCEPT ![p] = <<>>]
           /\ done' = [done EXCEPT ![p] = 0]
        \/ /\ stage' = [stage EXCEPT ![p] = "look"]
           /\ plan' = plan
           /\ done' = [done EXCEPT ![p] = @ + 1]
           /\ done[p] + 1 # Len(plan[p])
    BY <1>8 DEF Advance, Abort, GiveUp, Leave, IsLast, GoTo
  <2>3. plan[p] \in Seq(Uris) /\ done[p] \in Nat /\ done[p] < Len(plan[p]) /\ Len(plan[p]) \in Nat
    BY <1>1, <2>1 DEF Types, InHand
  <2>4. Types'
    <3>1. <<>> \in Seq(Uris)
      OBVIOUS
    <3>2. stage' \in [Writers -> {"off", "look", "found", "fetch", "store", "storing"}]
      BY <1>1, <2>2 DEF Types
    <3>3. plan' \in [Writers -> Seq(Uris)]
      <4>1. plan \in [Writers -> Seq(Uris)]
        BY <1>1 DEF Types
      <4>2. plan' = plan \/ plan' = [plan EXCEPT ![p] = <<>>]
        BY <2>2
      <4> QED BY <3>1, <4>1, <4>2
    <3>4. done' \in [Writers -> Nat]
      <4>1. done \in [Writers -> Nat] /\ 0 \in Nat /\ done[p] + 1 \in Nat
        BY <1>1, <2>3 DEF Types
      <4>2. done' = [done EXCEPT ![p] = 0] \/ done' = [done EXCEPT ![p] = done[p] + 1]
        BY <2>2
      <4> QED BY <4>1, <4>2
    <3> QED BY <1>1, <2>1, <3>2, <3>3, <3>4 DEF Types
  <2>5. OnTheWay(p)'
    BY <1>1, <1>2, <2>1 DEF OnTheWay
  <2>6. InHand(p)'
    <3>1. stage'[p] = "off" => done'[p] = 0
      BY <1>1, <2>2 DEF Types
    <3>2. stage'[p] # "off" => done'[p] < Len(plan'[p])
      BY <1>1, <2>2, <2>3 DEF Types
    <3>3. stage'[p] \in {"off", "look"}
      BY <1>1, <2>2 DEF Types
    <3> QED BY <1>1, <2>1, <3>1, <3>2, <3>3 DEF InHand
  <2>7. \A q \in Writers \ {p} : Same(q)
    BY <1>1, <2>1, <2>2 DEF Same, Types
  <2> QED BY <2>1, <2>4, <2>5, <2>6, <2>7 DEF Keeps
<1> QED BY <1>4, <1>5, <1>6, <1>7, <1>8

-----------------------------------------------------------------------------
(* The steps of a fetch. *)
LEMMA FetchStep ==
  ASSUME Inv, Histories', Grows, NEW p \in Writers,
         FollowRedirect(p) \/ FetchNew(p) \/ FetchNotModified(p) \/ FetchFails(p)
  PROVE  Keeps(p) /\ UNCHANGED manifest
<1> USE RefreshAssumption
<1> DEFINE u == Current(p)
           q == trip[p].at
<1>1. Types /\ OnTheWay(p) /\ InHand(p) /\ Histories
  BY DEF Inv
<1>2. trip[p] # NoTrip
  BY DEF FollowRedirect, FetchNew, FetchNotModified, FetchFails, Fetcher!Redirected,
    Fetcher!NotModified, Fetcher!Receives, Fetcher!Fetching
<1>3. /\ stage[p] = "fetch" /\ pc[p] = "idle" /\ trip[p] \in Trip /\ q \in Places
      /\ Reached(u, q) /\ (u \in Directories => q = u /\ ~trip[p].follow)
      /\ trip[p].headers # Fetcher!NoHeaders =>
           Host[q] = Host[u] /\ trip[p].headers = Validators(Previous(p))
  BY <1>1, <1>2 DEF OnTheWay, InHand, Types, Trip
<1>4. u \in Uris
  BY <1>1, <1>3, CurrentIsSource
<1> HIDE DEF u, q
<1>5. CASE FollowRedirect(p)
  <2> DEFINE r == origin[q]
             t == [at |-> r, redirects |-> trip[p].redirects + 1,
                   headers |-> Fetcher!Onward(p, r), follow |-> TRUE]
  <2>1. /\ r \in Places /\ trip[p].follow
        /\ trip' = [trip EXCEPT ![p] = t]
        /\ UNCHANGED <<manifest, pc, call, loaded, answer, stage, plan, done, draft,
                       lastServed, lastSigned>>
    BY <1>1, <1>5 DEF FollowRedirect, Fetcher!Redirected, Fetcher!Count, cacheVars, runVars,
      historyVars, q, Types
  <2>2. Fetcher!Onward(p, r) = IF Host[r] = Host[q] THEN trip[p].headers ELSE Fetcher!NoHeaders
    BY DEF Fetcher!Onward, q
  <2>3. Fetcher!NoHeaders \in Headers
    BY DEF Fetcher!NoHeaders, Headers, Validator
  <2>4. t \in Trip /\ t.at = r /\ t.headers = Fetcher!Onward(p, r) /\ t.follow
    <3>1. Fetcher!Onward(p, r) \in Headers
      BY <1>3, <2>2, <2>3 DEF Trip
    <3>2. trip[p].redirects + 1 \in Nat
      BY <1>3 DEF Trip
    <3> HIDE DEF r
    <3> QED BY <2>1, <3>1, <3>2 DEF Trip
  <2>5. Types'
    BY <1>1, <2>1, <2>4 DEF Types
  <2>6. Current(p)' = u /\ Previous(p)' = Previous(p)
    BY <2>1 DEF Current, Previous, u
  <2>7. OnTheWay(p)'
    <3>1. trip'[p] = t /\ stage'[p] = "fetch"
      BY <1>1, <1>3, <2>1 DEF Types
    <3>2. Reached(u, r)
      BY <1>1, <1>3, <2>1 DEF Reached, Histories
    <3>3. u \notin Directories
      BY <1>3, <2>1
    <3>4. t.headers # Fetcher!NoHeaders =>
            Host[r] = Host[u] /\ t.headers = Validators(Previous(p))
      BY <1>3, <2>2, <2>4
    <3> HIDE DEF t
    <3> QED BY <2>4, <2>6, <3>1, <3>2, <3>3, <3>4 DEF OnTheWay
  <2>8. InHand(p)'
    BY <1>1, <2>1, <2>6 DEF InHand, u
  <2>9. \A w \in Writers \ {p} : Same(w)
    BY <1>1, <2>1 DEF Same, Types
  <2> QED BY <2>1, <2>5, <2>7, <2>8, <2>9 DEF Keeps
<1>6. ASSUME NEW d, Sound(lastServed', lastSigned', u, d),
             /\ draft' = [draft EXCEPT ![p] = d]
             /\ stage' = [stage EXCEPT ![p] = "store"]
             /\ trip' = [trip EXCEPT ![p] = NoTrip]
             /\ UNCHANGED <<manifest, pc, call, loaded, answer, plan, done>>
      PROVE  Keeps(p)
  <2>1. d \in Document
    BY <1>6 DEF Sound
  <2>2. Types'
    BY <1>1, <1>6, <2>1 DEF Types
  <2>3. OnTheWay(p)'
    BY <1>1, <1>6 DEF OnTheWay, Types
  <2>4. Current(p)' = u
    BY <1>6 DEF Current, u
  <2>5. \A v \in Uris : loaded[p][v] # NoEntry =>
          Sound(lastServed', lastSigned', v, loaded[p][v])
    BY <1>1, SoundGrows DEF InHand
  <2>6. /\ stage'[p] = "store" /\ draft'[p] = d /\ pc'[p] = "idle" /\ done'[p] < Len(plan'[p])
        /\ loaded'[p] = loaded[p]
    BY <1>1, <1>3, <1>6 DEF Types, InHand
  <2>7. InHand(p)'
    BY <1>6, <2>4, <2>5, <2>6 DEF InHand
  <2>8. \A w \in Writers \ {p} : Same(w)
    BY <1>1, <1>6 DEF Same, Types
  <2> QED BY <2>2, <2>3, <2>7, <2>8 DEF Keeps
<1>7. CASE FetchNew(p)
  <2>1. PICK c \in Contents :
          /\ Fetcher!Receives(p, c)
          /\ \E e \in Expiries(u), b \in Bindings(u, c) :
               /\ draft' = [draft EXCEPT ![p] =
                    [sha256 |-> c, retrieved_at |-> now, expires_at |-> e,
                     etag |-> Etag[q][c], modified |-> Modified[q][c], binding |-> b]]
               /\ lastSigned' = IF b = Unsigned THEN lastSigned
                                  ELSE [lastSigned EXCEPT ![u][c] = now]
    BY <1>7 DEF FetchNew, u, q
  <2>2. PICK e \in Expiries(u), b \in Bindings(u, c) :
          /\ draft' = [draft EXCEPT ![p] =
               [sha256 |-> c, retrieved_at |-> now, expires_at |-> e,
                etag |-> Etag[q][c], modified |-> Modified[q][c], binding |-> b]]
          /\ lastSigned' = IF b = Unsigned THEN lastSigned
                             ELSE [lastSigned EXCEPT ![u][c] = now]
    BY <2>1
  <2>3. origin[q] = c
    BY <2>1 DEF Fetcher!Receives, q
  <2>4. lastSigned' \in SignedTimes
    BY DEF Histories
  <2>5. b # Unsigned => lastSigned'[u][c] = now
    BY <1>1, <1>4, <2>2 DEF Histories, SignedTimes
  <2>6. lastServed' = lastServed
    BY <1>7 DEF FetchNew
  <2> DEFINE d == [sha256 |-> c, retrieved_at |-> now, expires_at |-> e,
                   etag |-> Etag[q][c], modified |-> Modified[q][c], binding |-> b]
  <2>7. Sound(lastServed, lastSigned', u, d)
    BY <1>1, <1>3, <1>4, <2>3, <2>4, <2>5, NewIsSound
  <2>8. /\ stage' = [stage EXCEPT ![p] = "store"]
        /\ trip' = [trip EXCEPT ![p] = NoTrip]
        /\ UNCHANGED <<manifest, pc, call, loaded, answer, plan, done>>
    BY <1>7 DEF FetchNew, GoTo, Fetcher!End, cacheVars
  <2> HIDE DEF d
  <2>9. draft' = [draft EXCEPT ![p] = d]
    BY <2>2 DEF d
  <2> QED BY <1>6, <2>6, <2>7, <2>8, <2>9
<1>8. CASE FetchNotModified(p)
  <2>1. PICK c \in Contents :
          /\ Fetcher!NotModified(p, c)
          /\ \E e \in Expiries(u), m \in {Modified[q][c], NoValidator} :
               draft' = [draft EXCEPT ![p] =
                           Stamped(Previous(p), now, e, [etag |-> Etag[q][c], modified |-> m])]
    BY <1>8 DEF FetchNotModified, Revalidated, u, q
  <2>2. PICK e \in Expiries(u), m \in {Modified[q][c], NoValidator} :
          draft' = [draft EXCEPT ![p] =
                      Stamped(Previous(p), now, e, [etag |-> Etag[q][c], modified |-> m])]
    BY <2>1
  <2>3. /\ origin[q] = c
        /\ trip[p].headers.etag # NoValidator => trip[p].headers.etag = Etag[q][c]
        /\ trip[p].headers # Fetcher!NoHeaders
    BY <2>1 DEF Fetcher!NotModified, Fetcher!Receives, Fetcher!NoHeaders, q
  <2>4. Host[q] = Host[u] /\ trip[p].headers = Validators(Previous(p))
    BY <1>3, <2>3
  <2>5. Previous(p) # NoEntry
    BY <2>3, <2>4 DEF Validators
  <2>6. Sound(lastServed, lastSigned, u, Previous(p))
    BY <1>1, <1>3, <2>5 DEF InHand, Previous, u
  <2>7. Previous(p).etag # NoValidator => Previous(p).etag = Etag[q][c]
    BY <2>3, <2>4, <2>5 DEF Validators
  <2> DEFINE d == Stamped(Previous(p), now, e, [etag |-> Etag[q][c], modified |-> m])
  <2>8. Sound(lastServed, lastSigned, u, d)
    BY <1>1, <1>3, <1>4, <2>3, <2>4, <2>5, <2>6, <2>7, RenewedIsSound
  <2>9. /\ stage' = [stage EXCEPT ![p] = "store"]
        /\ trip' = [trip EXCEPT ![p] = NoTrip]
        /\ UNCHANGED <<manifest, pc, call, loaded, answer, plan, done, lastServed, lastSigned>>
    BY <1>8 DEF FetchNotModified, GoTo, Fetcher!End, cacheVars, historyVars
  <2> HIDE DEF d
  <2>10. draft' = [draft EXCEPT ![p] = d]
    BY <2>2 DEF d
  <2> QED BY <1>6, <2>8, <2>9, <2>10
<1>9. CASE FetchFails(p)
  <2>1. /\ stage' = [stage EXCEPT ![p] = "off"]
        /\ plan' = [plan EXCEPT ![p] = <<>>]
        /\ done' = [done EXCEPT ![p] = 0]
        /\ trip' = [trip EXCEPT ![p] = NoTrip]
        /\ UNCHANGED <<manifest, pc, call, loaded, answer, draft, lastServed, lastSigned>>
    BY <1>9 DEF FetchFails, Leave, GoTo, Fetcher!End, cacheVars, historyVars
  <2>2. Types'
    BY <1>1, <2>1 DEF Types
  <2>3. OnTheWay(p)'
    BY <1>1, <2>1 DEF OnTheWay, Types
  <2>4. InHand(p)'
    BY <1>1, <1>3, <2>1 DEF InHand, Types
  <2>5. \A w \in Writers \ {p} : Same(w)
    BY <1>1, <2>1 DEF Same, Types
  <2> QED BY <2>1, <2>2, <2>3, <2>4, <2>5 DEF Keeps
<1>10. CASE FetchNew(p) \/ FetchNotModified(p)
  BY <1>7, <1>8, <1>10 DEF FetchNew, FetchNotModified, cacheVars
<1> QED BY <1>5, <1>9, <1>10

-----------------------------------------------------------------------------
(* The steps of the cache in the middle of a get or put, and the kill that ends it. *)
LEMMA CallStep ==
  ASSUME Inv, NEW p \in Writers, CacheStep(p) \/ Kill(p)
  PROVE  Keeps(p) /\ EntriesSound' /\ UNCHANGED <<lastServed, lastSigned>>
<1> USE RefreshAssumption
<1>1. Types /\ OnTheWay(p) /\ InHand(p) /\ EntriesSound
  BY DEF Inv
<1>2. UNCHANGED <<trip, lastServed, lastSigned>>
  BY DEF CacheStep, Kill, fetchVars, historyVars
<1>3. CASE CacheStep(p)
  <2>1. UNCHANGED <<stage, plan, done, draft>>
    BY <1>3 DEF CacheStep, runVars
  <2>2. Current(p)' = Current(p) /\ Previous(p)' = answer'[p]
    BY <2>1 DEF Current, Previous
  <2>3. CASE Cache!FillTemp(p)
    <3>1. UNCHANGED <<manifest, pc, call, loaded, answer>>
      BY <2>3 DEF Cache!FillTemp
    <3>2. Types' /\ EntriesSound'
      BY <1>1, <1>2, <2>1, <3>1 DEF Types, EntriesSound
    <3>3. OnTheWay(p)'
      BY <1>1, <1>2, <2>1, <2>2, <3>1 DEF OnTheWay, Previous
    <3>4. InHand(p)'
      BY <1>1, <1>2, <2>1, <2>2, <3>1 DEF InHand
    <3> QED BY <1>2, <2>1, <3>1, <3>2, <3>3, <3>4 DEF Keeps, Same
  <2>4. CASE ~Cache!FillTemp(p)
    <3>1. pc[p] # "idle" /\ stage[p] \in {"found", "storing"} /\ trip[p] = NoTrip
      <4>1. pc[p] # "idle"
        BY <1>3, <2>4 DEF CacheStep, Cache!PublishBlob, Cache!LoadManifest, Cache!PublishManifest,
          Cache!PutFails, Cache!ReadBlob, Cache!Synced
      <4> QED BY <1>1, <4>1 DEF InHand, OnTheWay
    <3>2. OnTheWay(p)'
      BY <1>2, <3>1 DEF OnTheWay
    <3>3. call[p].uri \in Uris /\ call[p].meta \in Document
      BY <1>1, <3>1 DEF InHand, Sound
    <3>4. /\ stage[p] = "found" => pc[p] = "read" /\ call[p].uri = Current(p)
          /\ Sound(lastServed, lastSigned, call[p].uri, call[p].meta)
      BY <1>1, <3>1 DEF InHand
    <3>5. CASE Cache!PublishBlob(p)
      <4>1. /\ pc[p] = "blob" /\ pc' = [pc EXCEPT ![p] = "load"]
            /\ UNCHANGED <<manifest, call, loaded, answer>>
        BY <3>5 DEF Cache!PublishBlob, Cache!GoTo
      <4>2. Types' /\ EntriesSound'
        BY <1>1, <1>2, <2>1, <4>1 DEF Types, EntriesSound
      <4>3. InHand(p)'
        BY <1>1, <1>2, <2>1, <3>1, <3>4, <4>1 DEF InHand, Types
      <4> QED BY <1>1, <1>2, <2>1, <3>2, <4>1, <4>2, <4>3 DEF Keeps, Same, Types
    <3>6. CASE Cache!LoadManifest(p)
      <4>1. /\ pc[p] = "load" /\ UNCHANGED manifest
            /\ \/ /\ loaded' = [loaded EXCEPT ![p] = manifest.entries]
                  /\ pc' = [pc EXCEPT ![p] = "manifest"]
                  /\ UNCHANGED <<call, answer>>
               \/ Cache!Return(p, Raised)
        BY <3>6 DEF Cache!LoadManifest, Cache!GoTo
      <4>2. Types' /\ EntriesSound'
        <5>1. EntriesSound'
          BY <1>1, <1>2, <4>1 DEF EntriesSound
        <5>2. UNCHANGED manifest
          BY <4>1
        <5>3. CASE Cache!Return(p, Raised)
          BY <1>1, <1>2, <2>1, <5>1, <5>2, <5>3 DEF Types, Cache!Return, Cache!NoEntries
        <5>4. CASE ~Cache!Return(p, Raised)
          <6>1. /\ loaded' = [loaded EXCEPT ![p] = manifest.entries]
                /\ pc' = [pc EXCEPT ![p] = "manifest"]
                /\ UNCHANGED <<call, answer>>
            BY <4>1, <5>4
          <6> QED BY <1>1, <1>2, <2>1, <5>1, <5>2, <6>1 DEF Types
        <5> QED BY <5>1, <5>3, <5>4
      <4>3. InHand(p)'
        BY <1>1, <1>2, <2>1, <3>1, <3>4, <4>1 DEF InHand, Types, EntriesSound, Cache!Return,
          Cache!NoEntries
      <4> QED BY <1>1, <1>2, <2>1, <3>2, <4>1, <4>2, <4>3 DEF Keeps, Same, Types, Cache!Return
    <3>7. CASE Cache!PublishManifest(p)
      <4>1. /\ pc[p] = "manifest" /\ Cache!Return(p, Stored)
            /\ manifest'.entries = [loaded[p] EXCEPT ![call[p].uri] = call[p].meta]
        BY <3>7 DEF Cache!PublishManifest, Cache!Updated, Cache!Synced
      <4>2. \A u \in Uris : loaded[p][u] # NoEntry =>
              Sound(lastServed, lastSigned, u, loaded[p][u])
        BY <1>1 DEF InHand
      <4>3. EntriesSound'
        BY <1>1, <1>2, <3>3, <3>4, <4>1, <4>2 DEF EntriesSound, Types
      <4>4. Types'
        BY <1>1, <1>2, <2>1, <3>3, <4>1 DEF Types, Cache!Return, Cache!NoEntries
      <4>5. InHand(p)'
        BY <1>1, <1>2, <2>1, <3>1, <3>4, <4>1 DEF InHand, Types, Cache!Return, Cache!NoEntries
      <4> QED BY <1>1, <1>2, <2>1, <3>2, <4>1, <4>3, <4>4, <4>5 DEF Keeps, Same, Types, Cache!Return
    <3>8. CASE Cache!PutFails(p)
      <4>1. pc[p] # "read" /\ Cache!Return(p, Raised) /\ UNCHANGED manifest
        BY <3>8 DEF Cache!PutFails
      <4>2. Types' /\ EntriesSound'
        BY <1>1, <1>2, <2>1, <4>1 DEF Types, EntriesSound, Cache!Return, Cache!NoEntries
      <4>3. InHand(p)'
        BY <1>1, <1>2, <2>1, <3>1, <3>4, <4>1 DEF InHand, Types, Cache!Return, Cache!NoEntries
      <4> QED BY <1>1, <1>2, <2>1, <3>2, <4>1, <4>2, <4>3 DEF Keeps, Same, Types, Cache!Return
    <3>9. CASE Cache!ReadBlob(p)
      <4>1. /\ pc[p] = "read" /\ UNCHANGED manifest
            /\ Cache!Return(p, call[p].meta) \/ Cache!Return(p, Raised)
        BY <3>9 DEF Cache!ReadBlob, Cache!files
      <4>2. Types' /\ EntriesSound'
        <5>1. EntriesSound'
          BY <1>1, <1>2, <4>1 DEF EntriesSound
        <5>2. PICK r \in Document \cup {Raised} : Cache!Return(p, r)
          BY <3>3, <4>1
        <5>3. Types'
          BY <1>1, <1>2, <2>1, <4>1, <5>2 DEF Types, Cache!Return, Cache!NoEntries
        <5> QED BY <5>1, <5>3
      <4>3. InHand(p)'
        BY <1>1, <1>2, <2>1, <2>2, <3>1, <3>4, <4>1 DEF InHand, Types, Cache!Return, Cache!NoEntries
      <4> QED BY <1>1, <1>2, <2>1, <3>2, <4>1, <4>2, <4>3 DEF Keeps, Same, Types, Cache!Return
    <3> QED BY <1>2, <1>3, <2>4, <3>5, <3>6, <3>7, <3>8, <3>9 DEF CacheStep
  <2> QED BY <2>3, <2>4
<1>4. CASE Kill(p)
  <2>1. /\ pc[p] # "idle" /\ Cache!Return(p, NoAnswer) /\ UNCHANGED manifest
        /\ stage' = [stage EXCEPT ![p] = "off"]
        /\ plan' = [plan EXCEPT ![p] = <<>>]
        /\ done' = [done EXCEPT ![p] = 0]
        /\ draft' = [draft EXCEPT ![p] = NoEntry]
    BY <1>4 DEF Kill, Leave, GoTo, Cache!Kill
  <2>2. trip[p] = NoTrip
    BY <1>1, <2>1 DEF InHand, OnTheWay
  <2>3. Types' /\ EntriesSound'
    BY <1>1, <1>2, <2>1 DEF Types, EntriesSound, Cache!Return, Cache!NoEntries
  <2>4. OnTheWay(p)'
    BY <1>2, <2>2 DEF OnTheWay
  <2>5. InHand(p)'
    BY <1>1, <1>2, <2>1 DEF InHand, Types, Cache!Return, Cache!NoEntries
  <2> QED BY <1>1, <1>2, <2>1, <2>3, <2>4, <2>5 DEF Keeps, Same, Types, Cache!Return
<1> QED BY <1>3, <1>4

-----------------------------------------------------------------------------
LEMMA StepInv == Inv /\ [Next]_vars => Inv'
<1> SUFFICES ASSUME Inv, [Next]_vars PROVE Inv'
  OBVIOUS
<1>1. Histories' /\ Grows
  BY HistoryStep DEF Inv
<1>2. UNCHANGED manifest => EntriesSound'
  BY <1>1, SoundGrows DEF Inv, EntriesSound
<1>3. ASSUME NEW p \in Writers, Keeps(p), EntriesSound' PROVE Inv'
  <2>1. \A q \in Writers : OnTheWay(q)' /\ InHand(q)'
    BY <1>1, <1>3, OthersStay DEF Keeps
  <2> QED BY <1>1, <1>3, <2>1 DEF Inv, Keeps
<1>4. ASSUME NEW p \in Writers, Begin(p) \/ RunStep(p) \/ Kill(p) PROVE Inv'
  <2>1. CASE Begin(p) \/ Look(p) \/ Ask(p) \/ Store(p) \/ Advance(p) \/ Abort(p)
    BY <1>2, <1>3, <2>1, LoopStep
  <2>2. CASE FollowRedirect(p) \/ FetchNew(p) \/ FetchNotModified(p) \/ FetchFails(p)
    BY <1>1, <1>2, <1>3, <2>2, FetchStep
  <2>3. CASE CacheStep(p) \/ Kill(p)
    BY <1>3, <2>3, CallStep
  <2> QED BY <1>4, <2>1, <2>2, <2>3 DEF RunStep
<1>5. CASE Tick \/ (\E q \in Places, a \in Contents \cup Places : OriginChanges(q, a))
           \/ UNCHANGED vars
  <2>1. UNCHANGED <<manifest, pc, call, loaded, answer, stage, plan, done, draft, trip>>
    BY <1>5 DEF Tick, OriginChanges, Fetcher!Publishes, vars, cacheVars, runVars, fetchVars
  <2>2. Types'
    BY <2>1 DEF Inv, Types
  <2>3. \A q \in Writers : OnTheWay(q)' /\ InHand(q)'
    BY <1>1, <2>1, OthersStay DEF Same
  <2> QED BY <1>1, <1>2, <2>1, <2>2, <2>3 DEF Inv
<1> QED BY <1>4, <1>5 DEF Next

LEMMA Invariance == Spec => []Inv
BY InitInv, StepInv, PTL DEF Spec

(* However many refreshes overlap, a key-authority binding in the cache is for the
   content it is cached with, and no newer than a signature of it that was verified. *)
THEOREM BindingsEndorsed == Spec => []BindingsAreEndorsed
<1>1. Inv => BindingsAreEndorsed
  BY DEF Inv, EntriesSound, Sound, Endorsed, BindingsAreEndorsed, Entry
<1> QED BY Invariance, <1>1, PTL

(* However many refreshes overlap and whatever redirects, fails or is killed: if tags
   identify the contents of a server, no entry claims a retrieval time after its source
   has dropped its content (_revalidated_document, SafeFetcher.fetch).    *)
THEOREM RetrievalsBacked ==
  ASSUME TagsIdentify
  PROVE  Spec => []RetrievalIsBacked
<1>1. Inv => RetrievalIsBacked
  <2> SUFFICES ASSUME Inv, NEW u \in Uris, Entry(u) # NoEntry, Local(u, Entry(u).sha256)
               PROVE  PublishedAt(u, Entry(u).sha256, Entry(u).retrieved_at)
    BY DEF RetrievalIsBacked
  <2>1. Sound(lastServed, lastSigned, u, Entry(u))
    BY DEF Inv, EntriesSound, Entry
  <2>2. Backed(lastServed, u, Entry(u)) /\ Entry(u) \in Document
    BY <2>1, TagsIdentify DEF Sound
  <2>3. PICK q \in Home(u) : Entry(u).retrieved_at <= lastServed[q][Entry(u).sha256]
    BY <2>2 DEF Backed
  <2>4. lastServed[q][Entry(u).sha256] \in Int /\ Entry(u).retrieved_at \in Int
    BY <2>2, RefreshAssumption DEF Inv, Histories, ServedTimes, Document, Home
  <2> QED BY <2>3, <2>4 DEF PublishedAt
<1> QED BY Invariance, <1>1, PTL

(* If tags identify the contents of a server, a cached list vouches for nothing later
   than its validity after its source last published it (_expires_at).    *)
THEOREM ListsVouchNearPublication ==
  ASSUME TagsIdentify
  PROVE  Spec => []VouchesOnlyNearPublication
<1>1. Inv => VouchesOnlyNearPublication
  <2> SUFFICES ASSUME Inv, NEW u \in Uris \ Directories, Entry(u) # NoEntry,
                      Local(u, Entry(u).sha256)
               PROVE  /\ Entry(u).expires_at # NoExpiry
                      /\ PublishedAt(u, Entry(u).sha256, Entry(u).expires_at - Validity)
    BY DEF VouchesOnlyNearPublication
  <2>1. Sound(lastServed, lastSigned, u, Entry(u))
    BY DEF Inv, EntriesSound, Entry
  <2>2. Backed(lastServed, u, Entry(u)) /\ Entry(u) \in Document
        /\ Entry(u).expires_at = Entry(u).retrieved_at + Validity
    BY <2>1, TagsIdentify DEF Sound
  <2>3. Entry(u).retrieved_at \in Nat /\ Validity \in Nat /\ NoExpiry \notin Nat
    BY <2>2, RefreshAssumption DEF Document
  <2>4. Entry(u).expires_at \in Nat /\ Entry(u).expires_at - Validity = Entry(u).retrieved_at
    BY <2>2, <2>3
  <2>5. PICK q \in Home(u) : Entry(u).retrieved_at <= lastServed[q][Entry(u).sha256]
    BY <2>2 DEF Backed
  <2>6. lastServed[q][Entry(u).sha256] \in Int
    BY <2>2, RefreshAssumption DEF Inv, Histories, ServedTimes, Document, Home
  <2>7. lastServed[q][Entry(u).sha256] >= Entry(u).expires_at - Validity
    BY <2>3, <2>4, <2>5, <2>6
  <2> QED BY <2>3, <2>4, <2>7 DEF PublishedAt
<1> QED BY Invariance, <1>1, PTL

-----------------------------------------------------------------------------
(* What is known of SourceCache holds of the cache here. *)
Known == INSTANCE SourceCacheProofs

(* The two names under which the cache is used here mean the same. *)
LEMMA KnownStore == Known!ImplementsStore => ImplementsStore
<1>1. Known!AtomicStore!Init => Cache!AtomicStore!Init
  BY DEF Known!AtomicStore!Init, Cache!AtomicStore!Init
<1>2. [Known!AtomicStore!Next]_(Known!AtomicStore!storeVars)
        => [Cache!AtomicStore!Next]_(Cache!AtomicStore!storeVars)
  BY DEF Known!AtomicStore!Next, Cache!AtomicStore!Next,
    Known!AtomicStore!storeVars, Cache!AtomicStore!storeVars,
    Known!AtomicStore!Put, Cache!AtomicStore!Put, Known!AtomicStore!Get, Cache!AtomicStore!Get,
    Known!AtomicStore!PutFails, Cache!AtomicStore!PutFails,
    Known!AtomicStore!Forget, Cache!AtomicStore!Forget
<1> QED BY <1>1, <1>2, PTL DEF Known!ImplementsStore, ImplementsStore, Cache!ImplementsStore,
    Known!AtomicStore!Spec, Cache!AtomicStore!Spec

(* A refresh does nothing to the cache but its gets and puts. *)
LEMMA CacheStepsOnly ==
  ASSUME Document \subseteq Metadata, Inv, [Next]_vars
  PROVE  [Known!Next]_(Known!vars)
<1>1. ASSUME NEW p \in Writers, Look(p) PROVE Known!Next
  <2>1. Current(p) \in Uris
    BY <1>1, CurrentIsSource DEF Inv, Look
  <2>2. \E u \in Uris : Known!GetMiss(p, u) \/ Known!GetEntry(p, u)
    BY <1>1, <2>1 DEF Look, Cache!GetMiss, Cache!GetEntry, Known!GetMiss, Known!GetEntry,
      Cache!GoTo, Known!GoTo, Cache!files, Known!files, Cache!Readable, Known!Readable
  <2> QED BY <2>2, RefreshAssumption DEF Known!Next, Known!ReaderStep
<1>2. ASSUME NEW p \in Writers, Store(p) PROVE Known!Next
  <2>1. Current(p) \in Uris /\ draft[p] \in Metadata
    BY <1>2, CurrentIsSource DEF Inv, InHand, Store, Sound
  <2>2. \E u \in Uris, m \in Metadata : Known!PutKnown(p, u, m) \/ Known!PutNew(p, u, m)
    BY <1>2, <2>1 DEF Store, Cache!PutKnown, Cache!PutNew, Known!PutKnown, Known!PutNew,
      Cache!GoTo, Known!GoTo, Cache!files, Known!files
  <2> QED BY <2>2 DEF Known!Next, Known!WriterStep
<1>3. ASSUME NEW p \in Writers, CacheStep(p) PROVE Known!Next
  <2>1. Cache!FillTemp(p) => Known!FillTemp(p)
    BY DEF Cache!FillTemp, Known!FillTemp
  <2>2. Cache!PublishBlob(p) => Known!PublishBlob(p)
    BY DEF Cache!PublishBlob, Known!PublishBlob, Cache!Synced, Known!Synced, Cache!GoTo, Known!GoTo
  <2>3. Cache!LoadManifest(p) => Known!LoadManifest(p)
    BY DEF Cache!LoadManifest, Known!LoadManifest, Cache!GoTo, Known!GoTo, Cache!Return,
      Known!Return, Cache!Readable, Known!Readable, Cache!NoEntries, Known!NoEntries
  <2>4. Cache!PublishManifest(p) => Known!PublishManifest(p)
    BY DEF Cache!PublishManifest, Known!PublishManifest, Cache!Synced, Known!Synced,
      Cache!Updated, Known!Updated, Cache!Return, Known!Return, Cache!NoEntries, Known!NoEntries
  <2>5. Cache!PutFails(p) => Known!PutFails(p)
    BY DEF Cache!PutFails, Known!PutFails, Cache!Unlink, Known!Unlink, Cache!Return,
      Known!Return, Cache!NoEntries, Known!NoEntries
  <2>6. Cache!ReadBlob(p) => Known!ReadBlob(p)
    BY DEF Cache!ReadBlob, Known!ReadBlob, Cache!Return, Known!Return, Cache!NoEntries,
      Known!NoEntries, Cache!files, Known!files
  <2> QED BY <1>3, <2>1, <2>2, <2>3, <2>4, <2>5, <2>6, RefreshAssumption
        DEF CacheStep, Known!Next, Known!WriterStep, Known!ReaderStep
<1>4. ASSUME NEW p \in Writers, Kill(p) PROVE Known!Next
  <2>1. Known!Kill(p)
    BY <1>4 DEF Kill, Cache!Kill, Known!Kill, Cache!Return, Known!Return, Cache!NoEntries,
      Known!NoEntries
  <2> QED BY <2>1, RefreshAssumption DEF Known!Next
<1>5. ASSUME NEW p \in Writers,
             \/ Begin(p) \/ Ask(p) \/ FollowRedirect(p) \/ FetchNew(p) \/ FetchNotModified(p)
             \/ FetchFails(p) \/ Advance(p) \/ Abort(p)
      PROVE  UNCHANGED Known!vars
  BY <1>5 DEF Begin, Ask, FollowRedirect, FetchNew, FetchNotModified, FetchFails, Advance, Abort,
    cacheVars, Known!vars
<1>6. CASE Tick \/ (\E q \in Places, a \in Contents \cup Places : OriginChanges(q, a))
           \/ UNCHANGED vars
  BY <1>6 DEF Tick, OriginChanges, vars, cacheVars, Known!vars
<1> QED BY <1>1, <1>2, <1>3, <1>4, <1>5, <1>6 DEF Next, RunStep

(***************************************************************************)
(* One refresh at a time, whatever it fetches: the cache it leaves is the   *)
(* atomic map of SourceStore (refresh_sources, SourceCache).                *)
(***************************************************************************)
THEOREM RefreshImplementsStore ==
  ASSUME Cache!CacheAssumption, Document \subseteq Metadata, \A p, q \in Writers : p = q
  PROVE  Spec => ImplementsStore
<1>1. Known!Spec => Known!ImplementsStore
  BY Known!OneWriterImplementsStore DEF Known!CacheAssumption, Cache!CacheAssumption,
    Cache!Results, Known!Results, Known!OneWriter
<1>2. Init => Known!Init
  BY DEF Init, Cache!Init, Known!Init, Cache!NoEntries, Known!NoEntries
<1>3. Inv /\ [Next]_vars => [Known!Next]_(Known!vars)
  BY CacheStepsOnly
<1>4. Spec => Known!Spec
  BY <1>2, <1>3, Invariance, PTL DEF Spec, Known!Spec
<1> QED BY <1>1, <1>4, KnownStore

-----------------------------------------------------------------------------
(***************************************************************************)
(* One refresh at a time: what it has fetched is newer than all that is     *)
(* cached, and what it has loaded is what is cached, so a put replaces one   *)
(* entry by a newer one.                                                   *)
(***************************************************************************)
OneRefresh == \A p, q \in Writers : p = q

Fresh(p, u) == Entry(u) # NoEntry /\ Entry(u).retrieved_at >= started[p]

Newest(p, d) ==
  /\ d \in Document
  /\ started[p] <= d.retrieved_at /\ d.retrieved_at <= now
  /\ \A u \in Uris : Entry(u) # NoEntry => Entry(u).retrieved_at <= d.retrieved_at

Progress(p) ==
  /\ stage[p] # "off" => started[p] <= now
  /\ stage[p] = "store" => Newest(p, draft[p])
  /\ pc[p] \in {"blob", "load", "manifest"} =>
       /\ stage[p] = "storing" /\ call[p].uri = Current(p)
       /\ Newest(p, call[p].meta)
  /\ pc[p] = "manifest" => loaded[p] = manifest.entries
  /\ pc[p] = "read" => stage[p] = "found"
  /\ pc[p] # "idle" => answer[p] = NoAnswer
  /\ \A i \in 1..done[p] : Fresh(p, plan[p][i])
  /\ stage[p] = "storing" /\ answer[p] = Stored => Fresh(p, Current(p))

FreshInv ==
  /\ started \in [Writers -> Nat]
  /\ \A u \in Uris : Entry(u) # NoEntry => Entry(u).retrieved_at <= now
  /\ \A p \in Writers : Progress(p)

(* What the assumptions on constants are needed for: no document is a result. *)
LEMMA ResultsApart ==
  ASSUME Cache!CacheAssumption, Document \subseteq Metadata
  PROVE  NoEntry \notin Document /\ Stored # NoAnswer /\ Stored # Raised
BY DEF Cache!CacheAssumption

LEMMA RenewsDocument ==
  ASSUME Inv, NEW p \in Writers, FetchNotModified(p)
  PROVE  Previous(p) \in Document
<1>1. PICK c \in Contents : Fetcher!NotModified(p, c)
  BY DEF FetchNotModified
<1>2. trip[p] # NoTrip /\ trip[p].headers # Fetcher!NoHeaders
  BY <1>1 DEF Fetcher!NotModified, Fetcher!Receives, Fetcher!Fetching, Fetcher!NoHeaders
<1>3. trip[p].headers = Validators(Previous(p)) /\ stage[p] = "fetch"
  BY <1>2 DEF Inv, OnTheWay
<1>4. Previous(p) # NoEntry
  BY <1>2, <1>3 DEF Validators
<1> QED BY <1>3, <1>4 DEF Inv, InHand, Previous, Sound

(* The entry of the document put is the only one that changes, for a newer one. *)
LEMMA PutsNewer ==
  ASSUME OneRefresh, Cache!CacheAssumption, Document \subseteq Metadata,
         Inv, FreshInv, [Next]_vars
  PROVE  \A u \in Uris : Entry(u) # NoEntry =>
           Entry(u)' # NoEntry /\ Entry(u)'.retrieved_at >= Entry(u).retrieved_at
<1>1. Types
  BY DEF Inv
<1>2. \A u \in Uris : Entry(u) # NoEntry => Entry(u).retrieved_at \in Nat
  BY <1>1 DEF Types, Entry, Document
<1>3. CASE UNCHANGED manifest
  BY <1>2, <1>3 DEF Entry
<1>4. ASSUME NEW p \in Writers, Cache!PublishManifest(p)
      PROVE  \A u \in Uris : Entry(u) # NoEntry =>
               Entry(u)' # NoEntry /\ Entry(u)'.retrieved_at >= Entry(u).retrieved_at
  <2>1. /\ pc[p] = "manifest"
        /\ manifest'.entries = [manifest.entries EXCEPT ![call[p].uri] = call[p].meta]
        /\ Newest(p, call[p].meta)
    BY <1>4 DEF Cache!PublishManifest, Cache!Updated, FreshInv, Progress
  <2>2. call[p].meta # NoEntry
    BY <2>1, ResultsApart DEF Newest
  <2>3. manifest.entries \in [Uris -> Document \cup {NoEntry}]
    BY <1>1 DEF Types
  <2>4. \A u \in Uris : Entry(u)' = IF u = call[p].uri THEN call[p].meta ELSE Entry(u)
    BY <2>1, <2>3 DEF Entry
  <2>5. \A u \in Uris : Entry(u) # NoEntry => Entry(u).retrieved_at <= call[p].meta.retrieved_at
    BY <2>1 DEF Newest
  <2>6. call[p].meta.retrieved_at \in Nat
    BY <2>1 DEF Newest, Document
  <2> QED BY <1>2, <2>2, <2>4, <2>5, <2>6
<1>5. UNCHANGED manifest \/ \E p \in Writers : Cache!PublishManifest(p)
  BY ZenonT(60) DEF Next, RunStep, Begin, Look, Ask, FollowRedirect, FetchNew, FetchNotModified,
    FetchFails, Store, Advance, Abort, CacheStep, Kill, Tick, OriginChanges, vars, cacheVars, Cache!files,
    Cache!GetMiss, Cache!GetEntry, Cache!PutKnown, Cache!PutNew, Cache!FillTemp,
    Cache!PublishBlob, Cache!LoadManifest, Cache!PutFails, Cache!ReadBlob, Cache!Kill
<1> QED BY <1>3, <1>4, <1>5

LEMMA InitFresh == Init => FreshInv
BY RefreshAssumption DEF Init, FreshInv, Progress, Entry, Cache!Init, Cache!NoEntries

LEMMA FreshStep ==
  ASSUME OneRefresh, Cache!CacheAssumption, Document \subseteq Metadata,
         Inv, Inv', FreshInv, [Next]_vars
  PROVE  FreshInv'
<1> USE RefreshAssumption
<1>0. /\ Types /\ now \in Nat /\ now' \in Nat /\ started \in [Writers -> Nat]
      /\ \A u \in Uris : Entry(u) # NoEntry =>
           Entry(u).retrieved_at \in Nat /\ Entry(u).retrieved_at <= now
      /\ NoEntry \notin Document /\ Stored # NoAnswer /\ Stored # Raised
  BY ResultsApart DEF Inv, Histories, FreshInv, Types, Entry, Document
<1>1. ASSUME NEW p \in Writers, Progress(p)',
             /\ started' = started \/ \E t \in Nat : started' = [started EXCEPT ![p] = t]
             /\ UNCHANGED <<manifest, now>>
      PROVE  FreshInv'
  <2>1. started' \in [Writers -> Nat]
    BY <1>0, <1>1
  <2>2. \A q \in Writers : q = p
    BY DEF OneRefresh
  <2> QED BY <1>0, <1>1, <2>1, <2>2 DEF FreshInv, Entry
<1>2. ASSUME NEW p \in Writers PROVE Progress(p) /\ InHand(p)
  BY DEF Inv, FreshInv
<1>3. ASSUME NEW p \in Writers, Begin(p) PROVE FreshInv'
  <2>1. /\ stage[p] = "off" /\ stage' = [stage EXCEPT ![p] = "look"]
        /\ started' = [started EXCEPT ![p] = now]
        /\ UNCHANGED <<manifest, pc, call, loaded, answer, done, draft, now>>
    BY <1>3 DEF Begin, GoTo, cacheVars
  <2>2. pc[p] = "idle" /\ done[p] = 0
    BY <1>2, <2>1 DEF InHand
  <2>3. stage'[p] = "look" /\ started'[p] = now
    BY <1>0, <2>1 DEF Types
  <2>4. Progress(p)'
    BY <1>0, <2>1, <2>2, <2>3 DEF Progress
  <2> QED BY <1>0, <1>1, <2>1, <2>4
<1>4. ASSUME NEW p \in Writers, Leave(p), UNCHANGED <<manifest, now>>,
             pc'[p] = "idle"
      PROVE  FreshInv'
  <2>1. /\ stage' = [stage EXCEPT ![p] = "off"] /\ done' = [done EXCEPT ![p] = 0]
        /\ started' = [started EXCEPT ![p] = 0]
    BY <1>4 DEF Leave, GoTo
  <2>2. stage'[p] = "off" /\ done'[p] = 0
    BY <1>0, <2>1 DEF Types
  <2>3. Progress(p)'
    BY <1>4, <2>2 DEF Progress
  <2> QED BY <1>0, <1>1, <1>4, <2>1, <2>3
<1>5. ASSUME NEW p \in Writers, UNCHANGED <<manifest, now, plan, done, started>>,
             stage'[p] # "store", stage[p] # "off", stage'[p] # "storing",
             \/ pc'[p] = "idle"
             \/ pc'[p] = "read" /\ stage'[p] = "found" /\ answer'[p] = NoAnswer
      PROVE  FreshInv'
  <2>1. Progress(p)'
    BY <1>0, <1>2, <1>5 DEF Progress, Fresh, Entry
  <2> QED BY <1>1, <1>5, <2>1
<1>6. ASSUME NEW p \in Writers, UNCHANGED <<manifest, now, plan, done, started>>,
             stage[p] # "off", stage'[p] = "store", pc'[p] = "idle",
             draft'[p] \in Document, draft'[p].retrieved_at = now
      PROVE  FreshInv'
  <2>1. started[p] <= now
    BY <1>2, <1>6 DEF Progress
  <2>2. \A u \in Uris : Entry(u)' = Entry(u)
    BY <1>6 DEF Entry
  <2>3. Newest(p, draft[p])'
    BY <1>0, <1>6, <2>1, <2>2 DEF Newest
  <2>4. Progress(p)'
    BY <1>2, <1>6, <2>1, <2>3 DEF Progress, Fresh, Entry
  <2> QED BY <1>1, <1>6, <2>4
<1>7. ASSUME NEW p \in Writers, Look(p) PROVE FreshInv'
  <2>1. /\ stage[p] = "look" /\ stage'[p] = "found" /\ pc[p] = "idle"
        /\ UNCHANGED <<manifest, now, plan, done, started>>
    BY <1>0, <1>2, <1>7 DEF Look, GoTo, Types, InHand, Cache!GetMiss, Cache!GetEntry, Cache!files
  <2>2. pc'[p] = "idle" \/ (pc'[p] = "read" /\ answer'[p] = NoAnswer)
    BY <1>0, <1>7, <2>1 DEF Look, Types, Cache!GetMiss, Cache!GetEntry, Cache!GoTo
  <2> QED BY <1>5, <2>1, <2>2
<1>8. ASSUME NEW p \in Writers, Ask(p) \/ FollowRedirect(p) PROVE FreshInv'
  <2>1. /\ stage[p] \in {"found", "fetch"} /\ stage'[p] = "fetch" /\ pc'[p] = "idle"
        /\ UNCHANGED <<manifest, now, plan, done, started>>
    BY <1>0, <1>2, <1>8 DEF Ask, FollowRedirect, GoTo, Types, InHand, Inv, OnTheWay, cacheVars,
      runVars, Fetcher!Redirected, Fetcher!Fetching
  <2> QED BY <1>5, <2>1
<1>9. ASSUME NEW p \in Writers, FetchNew(p) \/ FetchNotModified(p) PROVE FreshInv'
  <2>0. trip[p] # NoTrip /\ GoTo(p, "store") /\ UNCHANGED <<cacheVars, now, plan, done, started>>
    <3>1. CASE FetchNew(p)
      BY <3>1 DEF FetchNew, Fetcher!Receives, Fetcher!Fetching
    <3>2. CASE FetchNotModified(p)
      BY <3>2 DEF FetchNotModified, Fetcher!Receives, Fetcher!NotModified, Fetcher!Fetching
    <3> QED BY <1>9, <3>1, <3>2
  <2>1. /\ stage[p] = "fetch" /\ stage'[p] = "store" /\ pc'[p] = "idle"
        /\ UNCHANGED <<manifest, now, plan, done, started>>
    BY <1>0, <1>2, <2>0 DEF GoTo, Types, InHand, Inv, OnTheWay, cacheVars
  <2>2. draft'[p] \in Document
    BY <2>1 DEF Inv, InHand, Sound
  <2>3. draft'[p].retrieved_at = now
    <3>1. CASE FetchNew(p)
      BY <1>0, <3>1 DEF FetchNew, Types
    <3>2. CASE FetchNotModified(p)
      <4>1. Previous(p) \in Document
        BY <3>2, RenewsDocument
      <4> QED BY <1>0, <3>2, <4>1 DEF FetchNotModified, Revalidated, Stamped, Types, Document
    <3> QED BY <1>9, <3>1, <3>2
  <2> QED BY <1>6, <2>1, <2>2, <2>3
<1>10. ASSUME NEW p \in Writers, FetchFails(p) \/ Abort(p) \/ Kill(p) PROVE FreshInv'
  <2>1. Leave(p) /\ UNCHANGED <<manifest, now>>
    BY <1>10 DEF FetchFails, Abort, GiveUp, Kill, cacheVars, Cache!Kill
  <2>2. pc'[p] = "idle"
    BY <1>0, <1>2, <1>10 DEF FetchFails, Abort, Failure, Kill, cacheVars, Cache!Kill,
      Cache!Return, Fetcher!Fetching, Inv, OnTheWay, InHand, Types
  <2> QED BY <1>4, <2>1, <2>2
<1>11. ASSUME NEW p \in Writers, Store(p) PROVE FreshInv'
  <2>1. /\ stage[p] = "store" /\ stage'[p] = "storing"
        /\ call'[p] = [uri |-> Current(p), meta |-> draft[p]]
        /\ pc'[p] \in {"load", "blob"} /\ answer'[p] = NoAnswer
        /\ UNCHANGED <<manifest, now, plan, done, started>>
    BY <1>0, <1>11 DEF Store, GoTo, Types, Cache!PutKnown, Cache!PutNew, Cache!GoTo, Cache!files
  <2>2. Newest(p, call[p].meta)' /\ call'[p].uri = Current(p)'
    BY <1>2, <2>1 DEF Progress, Newest, Entry, Current
  <2>3. Progress(p)'
    BY <1>0, <1>2, <2>1, <2>2 DEF Progress, Fresh, Entry
  <2> QED BY <1>1, <2>1, <2>3
<1>12. ASSUME NEW p \in Writers, Advance(p) PROVE FreshInv'
  <2>1. /\ stage[p] = "storing" /\ pc'[p] = "idle" /\ answer[p] = Stored
        /\ UNCHANGED <<manifest, now, pc, answer, call>>
    BY <1>12 DEF Advance, cacheVars
  <2>2. CASE IsLast(p)
    BY <1>4, <1>12, <2>1, <2>2 DEF Advance
  <2>3. CASE ~IsLast(p)
    <3>1. /\ stage'[p] = "look" /\ done'[p] = done[p] + 1 /\ done[p] \in Nat
          /\ UNCHANGED <<plan, started>>
      BY <1>0, <1>12, <2>3 DEF Advance, GoTo, Types
    <3>2. \A i \in 1..done[p] : Fresh(p, plan[p][i])
      BY <1>2 DEF Progress
    <3>3. Fresh(p, plan[p][done[p] + 1])
      BY <1>2, <2>1 DEF Progress, Current
    <3>4. \A i \in 1..done'[p] : Fresh(p, plan[p][i])
      BY <3>1, <3>2, <3>3
    <3>5. Progress(p)'
      BY <1>2, <2>1, <3>1, <3>4 DEF Progress, Fresh, Entry
    <3> QED BY <1>1, <2>1, <3>1, <3>5
  <2> QED BY <2>2, <2>3
<1>13. ASSUME NEW p \in Writers, CacheStep(p) PROVE FreshInv'
  <2>0. UNCHANGED <<stage, plan, done, started, draft, now>> /\ p \in Procs
    BY <1>13 DEF CacheStep, runVars
  <2>1. CASE Cache!FillTemp(p)
    <3>1. Progress(p)'
      BY <1>2, <2>0, <2>1 DEF Cache!FillTemp, Progress, Newest, Fresh, Entry, Current
    <3> QED BY <1>1, <2>0, <2>1, <3>1 DEF Cache!FillTemp
  <2>2. CASE Cache!PublishBlob(p)
    <3>1. pc[p] = "blob" /\ pc'[p] = "load" /\ UNCHANGED <<manifest, call, loaded, answer>>
      BY <1>0, <2>2 DEF Cache!PublishBlob, Cache!GoTo, Types
    <3>2. Progress(p)'
      BY <1>2, <2>0, <3>1 DEF Progress, Newest, Fresh, Entry, Current
    <3> QED BY <1>1, <2>0, <3>1, <3>2
  <2>3. ASSUME pc[p] # "idle", pc'[p] = "idle", UNCHANGED manifest,
               stage[p] = "found" \/ answer'[p] = Raised
        PROVE  FreshInv'
    <3>1. stage[p] # "store"
      BY <1>2, <2>3 DEF InHand
    <3>2. Progress(p)'
      BY <1>0, <1>2, <2>0, <2>3, <3>1 DEF Progress, Fresh, Entry
    <3> QED BY <1>1, <2>0, <2>3, <3>2
  <2>4. CASE Cache!LoadManifest(p)
    <3>1. pc[p] = "load" /\ UNCHANGED manifest
      BY <2>4 DEF Cache!LoadManifest
    <3>2. CASE Cache!Readable
      <4>1. /\ pc'[p] = "manifest" /\ loaded'[p] = manifest.entries
            /\ UNCHANGED <<call, answer>>
        BY <1>0, <2>0, <2>4, <3>2 DEF Cache!LoadManifest, Cache!GoTo, Types
      <4>2. Progress(p)'
        BY <1>2, <2>0, <3>1, <4>1 DEF Progress, Newest, Fresh, Entry, Current
      <4> QED BY <1>1, <2>0, <3>1, <4>2
    <3>3. CASE ~Cache!Readable
      <4>1. pc'[p] = "idle" /\ answer'[p] = Raised
        BY <1>0, <2>0, <2>4, <3>3 DEF Cache!LoadManifest, Cache!Return, Types
      <4> QED BY <2>3, <3>1, <4>1
    <3> QED BY <3>2, <3>3
  <2>5. CASE Cache!PutFails(p)
    <3>1. /\ pc[p] # "idle" /\ pc'[p] = "idle" /\ answer'[p] = Raised
          /\ UNCHANGED manifest
      BY <1>0, <2>0, <2>5 DEF Cache!PutFails, Cache!Return, Types
    <3> QED BY <2>3, <3>1
  <2>6. CASE Cache!ReadBlob(p)
    <3>1. pc[p] = "read" /\ pc'[p] = "idle" /\ UNCHANGED manifest
      BY <1>0, <2>0, <2>6 DEF Cache!ReadBlob, Cache!Return, Cache!files, Types
    <3>2. stage[p] = "found"
      BY <1>2, <3>1 DEF Progress
    <3> QED BY <2>3, <3>1, <3>2
  <2>7. CASE Cache!PublishManifest(p)
    <3>1. /\ pc[p] = "manifest" /\ pc'[p] = "idle"
          /\ manifest'.entries = [manifest.entries EXCEPT ![call[p].uri] = call[p].meta]
      BY <1>0, <1>2, <2>0, <2>7 DEF Cache!PublishManifest, Cache!Updated, Cache!Return, Types,
        Progress
    <3>2. /\ stage[p] = "storing" /\ call[p].uri = Current(p)
          /\ Newest(p, call[p].meta) /\ call[p].uri \in Uris
      BY <1>2, <3>1 DEF Progress, InHand
    <3>3. /\ manifest.entries \in [Uris -> Document \cup {NoEntry}]
          /\ call[p].meta \in Document /\ call[p].meta.retrieved_at \in Nat
      BY <1>0, <3>2 DEF Types, Newest, Document
    <3>4. \A u \in Uris : Entry(u)' = IF u = Current(p) THEN call[p].meta ELSE Entry(u)
      BY <3>1, <3>2, <3>3 DEF Entry
    <3>5. Fresh(p, Current(p))'
      BY <1>0, <2>0, <3>2, <3>3, <3>4 DEF Fresh, Newest, Current
    <3>6. \A u \in Uris : Entry(u)' # NoEntry => Entry(u)'.retrieved_at <= now'
      BY <1>0, <2>0, <3>2, <3>4 DEF Newest
    <3>7. \A u \in Uris : Fresh(p, u) => Fresh(p, u)'
      BY <1>0, <2>0, <3>2, <3>3, <3>4 DEF Fresh, Newest
    <3>8. \A i \in 1..done[p] : plan[p][i] \in Uris
      <4>1. plan[p] \in Seq(Uris) /\ done[p] \in Nat /\ done[p] < Len(plan[p])
        BY <1>0, <1>2, <3>2 DEF Types, InHand
      <4> QED BY <4>1
    <3>9. Progress(p)'
      BY <1>2, <2>0, <3>1, <3>2, <3>5, <3>7, <3>8 DEF Progress
    <3>10. \A q \in Writers : q = p
      BY DEF OneRefresh
    <3> QED BY <1>0, <2>0, <3>6, <3>9, <3>10 DEF FreshInv
  <2> QED BY <1>13, <2>1, <2>2, <2>4, <2>5, <2>6, <2>7 DEF CacheStep
<1>14. CASE \/ Tick \/ UNCHANGED vars
            \/ \E q \in Places, a \in Contents \cup Places : OriginChanges(q, a)
  <2>1. /\ UNCHANGED <<manifest, pc, call, loaded, answer, stage, plan, done, started, draft>>
        /\ now <= now'
    BY <1>0, <1>14 DEF Tick, OriginChanges, vars, cacheVars, runVars
  <2>2. \A u \in Uris : Entry(u)' = Entry(u)
    BY <2>1 DEF Entry
  <2>3. \A u \in Uris : Entry(u)' # NoEntry => Entry(u)'.retrieved_at <= now'
    BY <1>0, <2>1, <2>2
  <2>4. ASSUME NEW p \in Writers PROVE Progress(p)'
    <3>1. started[p] \in Nat
      BY <1>0
    <3>2. Newest(p, draft[p]) => Newest(p, draft[p])'
      BY <1>0, <2>1, <2>2 DEF Newest, Document
    <3>3. Newest(p, call[p].meta) => Newest(p, call[p].meta)'
      BY <1>0, <2>1, <2>2 DEF Newest, Document
    <3>4. \A u : Fresh(p, u) => Fresh(p, u)'
      BY <2>1 DEF Fresh, Entry
    <3>5. stage[p] # "off" => started'[p] <= now'
      BY <1>0, <1>2, <2>1, <3>1 DEF Progress
    <3>6. Current(p)' = Current(p)
      BY <2>1 DEF Current
    <3> QED BY <1>2, <2>1, <3>2, <3>3, <3>4, <3>5, <3>6 DEF Progress
  <2> QED BY <1>0, <2>1, <2>3, <2>4 DEF FreshInv
<1> QED BY <1>3, <1>7, <1>8, <1>9, <1>10, <1>11, <1>12, <1>13, <1>14 DEF Next, RunStep

(* One refresh at a time: a source it has been through is cached with a retrieval no
   older than the run (refresh_sources).                                    *)
THEOREM VisitedFresh ==
  ASSUME OneRefresh, Cache!CacheAssumption, Document \subseteq Metadata
  PROVE  Spec => []VisitedSourcesAreFresh
<1>1. Inv /\ Inv' /\ FreshInv /\ [Next]_vars => FreshInv'
  BY FreshStep
<1>2. FreshInv => VisitedSourcesAreFresh
  BY ZenonT(30) DEF FreshInv, Progress, Fresh, VisitedSourcesAreFresh, Visited
<1> QED BY <1>1, <1>2, InitFresh, Invariance, PTL DEF Spec

(* One refresh at a time: the cache never goes back to an earlier retrieval of a source
   and never drops an entry (refresh_sources, SourceCache.put).               *)
THEOREM NeverGoesBack ==
  ASSUME OneRefresh, Cache!CacheAssumption, Document \subseteq Metadata
  PROVE  Spec => CacheNeverGoesBack
<1>1. Inv /\ Inv' /\ FreshInv /\ [Next]_vars => FreshInv'
  BY FreshStep
<1>2. Inv /\ FreshInv /\ [Next]_vars =>
        [\A u \in Uris : Entry(u) # NoEntry =>
           /\ Entry(u)' # NoEntry
           /\ Entry(u)'.retrieved_at >= Entry(u).retrieved_at]_vars
  BY PutsNewer
<1> QED BY <1>1, <1>2, InitFresh, Invariance, PTL DEF Spec, CacheNeverGoesBack

-----------------------------------------------------------------------------
(* What the end of a run rests on, short of the fairness of its process: a run
   in its loop has a step to take, and each step brings the next source closer,
   whatever other refreshes do to the cache and places to their redirects.   *)

(* The steps that are left of a put, and for the current source, at most. *)
PutAhead(p) ==
  LET unwritten == IF temp[p] = "partial" THEN 1 ELSE 0
  IN CASE pc[p] = "blob" -> 4 + unwritten
       [] pc[p] = "load" -> 3
       [] pc[p] = "manifest" -> 1 + unwritten
       [] pc[p] \in {"idle", "read"} -> 0

Ahead(p) ==
  CASE stage[p] = "look" -> MaxRedirects + 10
    [] stage[p] = "found" -> MaxRedirects + (IF pc[p] = "read" THEN 9 ELSE 8)
    [] stage[p] = "fetch" ->
         IF trip[p] = NoTrip THEN 0 ELSE MaxRedirects - trip[p].redirects + 7
    [] stage[p] = "store" -> 6
    [] stage[p] = "storing" -> PutAhead(p)
    [] stage[p] = "off" -> 0

GetsOn(p) ==
  /\ plan'[p] = plan[p] /\ done'[p] < Len(plan[p])
  /\ \/ done'[p] = done[p] + 1
     \/ /\ done'[p] = done[p]
        /\ Ahead(p)' \in Nat /\ Ahead(p)' <= Ahead(p)
        /\ RunStep(p) => Ahead(p)' < Ahead(p)

RunsGetOn ==
  [][\A p \in Writers : stage[p] # "off" /\ stage'[p] # "off" => GetsOn(p)]_vars

(* A run has all that its next step waits for. *)
MayStep(p) ==
  \/ stage[p] \in {"look", "store"} /\ pc[p] = "idle"
  \/ /\ stage[p] = "found"
     /\ \/ pc[p] = "read"
        \/ pc[p] = "idle" /\ (answer[p] = Raised \/ trip[p] = NoTrip)
  \/ stage[p] = "fetch" /\ trip[p] # NoTrip
  \/ /\ stage[p] = "storing"
     /\ \/ pc[p] \in {"blob", "manifest"} /\ temp[p] \in {"partial", "whole"}
        \/ pc[p] = "load"
        \/ pc[p] = "idle" /\ answer[p] \in {Stored, Raised}

(* Besides the invariant: how far a redirect chain can be, which call of the
   cache each place of the loop is in, and what has become of it.            *)
Calling(p) ==
  /\ pc[p] = "read" => stage[p] = "found"
  /\ pc[p] \in {"blob", "load", "manifest"} => stage[p] = "storing"
  /\ temp[p] # "absent" <=> pc[p] \in {"blob", "manifest"}
  /\ stage[p] = "storing" /\ pc[p] = "idle" => answer[p] \in {Stored, Raised}

Travelling(p) ==
  /\ trip[p] # NoTrip => trip[p].redirects <= MaxRedirects
  /\ NoTrip \notin Trip /\ stage[p] = "fetch" => trip[p] # NoTrip

RunInv ==
  /\ temp \in [Procs -> {"absent", "partial", "whole"}]
  /\ \A p \in Writers : Calling(p) /\ Travelling(p)

LEMMA InitRun == Init => RunInv
BY RefreshAssumption DEF Init, RunInv, Calling, Travelling, Cache!Init, Fetcher!Init

LEMMA AheadIs ==
  ASSUME Types, RunInv, NEW p \in Writers
  PROVE  Ahead(p) \in Nat
<1> USE RefreshAssumption
<1>1. /\ stage[p] \in {"off", "look", "found", "fetch", "store", "storing"}
      /\ pc[p] \in {"idle", "blob", "load", "manifest", "read"}
      /\ trip[p] \in Trip \cup {NoTrip}
  BY DEF Types
<1>2. trip[p] # NoTrip => trip[p].redirects \in Nat /\ trip[p].redirects <= MaxRedirects
  BY <1>1 DEF RunInv, Travelling, Trip
<1>3. PutAhead(p) \in Nat
  BY <1>1 DEF PutAhead
<1>4. CASE stage[p] = "storing"
  BY <1>3, <1>4 DEF Ahead
<1>5. CASE stage[p] = "fetch"
  BY <1>1, <1>2, <1>5 DEF Ahead
<1>6. CASE stage[p] \in {"off", "look", "found", "store"}
  BY <1>6 DEF Ahead
<1> QED BY <1>1, <1>4, <1>5, <1>6

(* A step of the loop, outside a call of the cache. *)
LEMMA LoopGetsOn ==
  ASSUME Inv, Inv', RunInv, NEW p \in Writers,
         Begin(p) \/ Look(p) \/ Ask(p) \/ Store(p) \/ Advance(p) \/ Abort(p)
  PROVE  /\ RunInv'
         /\ stage[p] # "off" /\ stage'[p] # "off" =>
              /\ plan'[p] = plan[p]
              /\ done'[p] = done[p] + 1 \/ (done'[p] = done[p] /\ Ahead(p)' < Ahead(p))
<1> USE RefreshAssumption
<1>1. /\ Types /\ OnTheWay(p) /\ InHand(p) /\ Calling(p) /\ Travelling(p)
      /\ temp \in [Procs -> {"absent", "partial", "whole"}]
      /\ \A q \in Writers : Calling(q) /\ Travelling(q)
  BY DEF Inv, RunInv
<1>2. \A q \in Writers \ {p} : Same(q)
  BY LoopStep DEF Keeps
<1>3. ASSUME \/ temp' = temp
             \/ \E f \in {"absent", "partial", "whole"} : temp' = [temp EXCEPT ![p] = f],
             Calling(p)', Travelling(p)'
      PROVE  RunInv'
  <2>1. /\ temp' \in [Procs -> {"absent", "partial", "whole"}]
        /\ \A q \in Writers \ {p} : temp'[q] = temp[q]
    BY <1>1, <1>3
  <2>2. ASSUME NEW q \in Writers \ {p} PROVE Calling(q)' /\ Travelling(q)'
    BY <1>1, <1>2, <2>1 DEF Calling, Travelling, Same
  <2> QED BY <1>3, <2>1, <2>2 DEF RunInv
<1>4. CASE Begin(p)
  <2>1. /\ stage[p] = "off" /\ stage'[p] = "look"
        /\ UNCHANGED <<temp, pc, answer, trip>>
    BY <1>1, <1>4 DEF Begin, GoTo, cacheVars, fetchVars, Types
  <2>2. pc[p] = "idle"
    BY <1>1, <2>1 DEF InHand
  <2>3. Calling(p)' /\ Travelling(p)'
    BY <1>1, <2>1, <2>2 DEF Calling, Travelling
  <2> QED BY <1>3, <2>1, <2>3
<1>5. CASE Look(p)
  <2>1. /\ stage[p] = "look" /\ stage'[p] = "found" /\ pc'[p] \in {"idle", "read"} /\ pc[p] = "idle"
        /\ UNCHANGED <<temp, trip, plan, done>>
    BY <1>1, <1>5 DEF Look, GoTo, Types, Cache!GetMiss, Cache!GetEntry, Cache!GoTo, Cache!files,
      fetchVars
  <2>2. Calling(p)' /\ Travelling(p)'
    BY <1>1, <2>1 DEF Calling, Travelling
  <2>3. Ahead(p)' < Ahead(p)
    BY <2>1 DEF Ahead
  <2> QED BY <1>3, <2>1, <2>2, <2>3
<1>6. CASE Ask(p)
  <2> DEFINE h == Validators(Previous(p))
             t == [at |-> Current(p), redirects |-> 0, headers |-> h,
                   follow |-> Follows(Current(p))]
  <2>1. /\ stage[p] = "found" /\ stage'[p] = "fetch" /\ pc[p] = "idle" /\ Previous(p) # Raised
        /\ trip' = [trip EXCEPT ![p] = t] /\ trip'[p] = t
        /\ UNCHANGED <<temp, pc, answer, plan, done>>
    BY <1>1, <1>6 DEF Ask, GoTo, Types, Fetcher!Fetch, cacheVars
  <2>2. t \in Trip /\ t.redirects = 0
    <3>1. Current(p) \in Places /\ Follows(Current(p)) \in BOOLEAN
      BY <1>1, <2>1, CurrentIsSource DEF Follows
    <3>2. h \in Headers
      <4>1. Previous(p) # NoEntry => Previous(p) \in Document
        BY <1>1, <2>1 DEF InHand, Previous, Sound
      <4> QED BY <4>1 DEF Validators, Fetcher!NoHeaders, Headers, Document, Validator
    <3> HIDE DEF h
    <3> QED BY <3>1, <3>2 DEF Trip
  <2> HIDE DEF t
  <2>3. Calling(p)' /\ Travelling(p)'
    BY <1>1, <2>1, <2>2 DEF Calling, Travelling
  <2>4. Ahead(p)' < Ahead(p)
    BY <2>1, <2>2 DEF Ahead
  <2> QED BY <1>3, <2>1, <2>3, <2>4
<1>7. CASE Store(p)
  <2>1. /\ stage[p] = "store" /\ stage'[p] = "storing" /\ pc[p] = "idle"
        /\ UNCHANGED <<trip, plan, done>>
        /\ \/ pc'[p] = "load" /\ temp' = temp
           \/ pc'[p] = "blob" /\ temp' = [temp EXCEPT ![p] = "partial"]
    BY <1>1, <1>7 DEF Store, GoTo, Types, Cache!PutKnown, Cache!PutNew, Cache!GoTo, Cache!files,
      fetchVars
  <2>2. temp'[p] = IF pc'[p] = "blob" THEN "partial" ELSE "absent"
    BY <1>1, <2>1 DEF Calling
  <2>3. Calling(p)' /\ Travelling(p)'
    BY <1>1, <2>1, <2>2 DEF Calling, Travelling
  <2>4. Ahead(p)' < Ahead(p)
    BY <2>1, <2>2 DEF Ahead, PutAhead
  <2> QED BY <1>3, <2>1, <2>3, <2>4
<1>8. CASE Advance(p) \/ Abort(p)
  <2>1. /\ UNCHANGED <<temp, pc, answer, trip>> /\ pc[p] = "idle"
        /\ \/ stage'[p] = "off"
           \/ stage'[p] = "look" /\ plan' = plan /\ done'[p] = done[p] + 1
    BY <1>1, <1>8 DEF Advance, Abort, Failure, GiveUp, Leave, GoTo, Types, cacheVars, fetchVars
  <2>2. Calling(p)' /\ Travelling(p)'
    BY <1>1, <2>1 DEF Calling, Travelling
  <2>3. RunInv'
    BY <1>3, <2>1, <2>2
  <2> QED BY <2>1, <2>3
<1> QED BY <1>4, <1>5, <1>6, <1>7, <1>8

(* A step of a fetch. *)
LEMMA FetchGetsOn ==
  ASSUME Inv, Inv', Grows, RunInv, NEW p \in Writers,
         FollowRedirect(p) \/ FetchNew(p) \/ FetchNotModified(p) \/ FetchFails(p)
  PROVE  /\ RunInv'
         /\ stage'[p] # "off" =>
              plan'[p] = plan[p] /\ done'[p] = done[p] /\ Ahead(p)' < Ahead(p)
<1> USE RefreshAssumption
<1>1. /\ Types /\ OnTheWay(p) /\ InHand(p) /\ Calling(p) /\ Travelling(p)
      /\ temp \in [Procs -> {"absent", "partial", "whole"}]
      /\ \A q \in Writers : Calling(q) /\ Travelling(q)
  BY DEF Inv, RunInv
<1>2. \A q \in Writers \ {p} : Same(q)
  BY FetchStep DEF Keeps, Inv
<1>3. trip[p] # NoTrip /\ UNCHANGED <<temp, pc, answer>>
  BY DEF FollowRedirect, FetchNew, FetchNotModified, FetchFails, Fetcher!Redirected,
    Fetcher!NotModified, Fetcher!Receives, Fetcher!Fetching, cacheVars
<1>4. /\ stage[p] = "fetch" /\ pc[p] = "idle" /\ trip[p] \in Trip
      /\ trip[p].redirects \in Nat /\ trip[p].redirects <= MaxRedirects
  BY <1>1, <1>3 DEF OnTheWay, InHand, Types, Trip, Travelling
<1>5. ASSUME Calling(p)', Travelling(p)' PROVE RunInv'
  <2>1. ASSUME NEW q \in Writers \ {p} PROVE Calling(q)' /\ Travelling(q)'
    BY <1>1, <1>2, <1>3 DEF Calling, Travelling, Same
  <2> QED BY <1>1, <1>3, <1>5, <2>1 DEF RunInv
<1>6. CASE FollowRedirect(p)
  <2> DEFINE r == origin[trip[p].at]
             t == [at |-> r, redirects |-> trip[p].redirects + 1,
                   headers |-> Fetcher!Onward(p, r), follow |-> TRUE]
  <2>1. /\ r \in Places /\ trip[p].redirects < MaxRedirects
        /\ trip' = [trip EXCEPT ![p] = t] /\ trip'[p] = t
        /\ UNCHANGED <<stage, plan, done>>
    BY <1>1, <1>6 DEF FollowRedirect, Fetcher!Redirected, Fetcher!Count, runVars, Types
  <2>2. t \in Trip /\ t.redirects = trip[p].redirects + 1
    <3>1. Fetcher!Onward(p, r) \in Headers
      BY <1>4 DEF Fetcher!Onward, Fetcher!NoHeaders, Headers, Validator, Trip
    <3> HIDE DEF r
    <3> QED BY <1>4, <2>1, <3>1 DEF Trip
  <2> HIDE DEF t, r
  <2>3. Calling(p)' /\ Travelling(p)'
    BY <1>1, <1>3, <1>4, <2>1, <2>2 DEF Calling, Travelling
  <2>4. Ahead(p)' < Ahead(p)
    <3>1. Ahead(p) = MaxRedirects - trip[p].redirects + 7
      BY <1>3, <1>4 DEF Ahead
    <3>2. Ahead(p)' \in {0, MaxRedirects - (trip[p].redirects + 1) + 7}
      BY <1>4, <2>1, <2>2 DEF Ahead
    <3> QED BY <1>4, <2>1, <3>1, <3>2
  <2> QED BY <1>5, <2>1, <2>3, <2>4
<1>7. CASE FetchNew(p) \/ FetchNotModified(p) \/ FetchFails(p)
  <2>1. /\ trip' = [trip EXCEPT ![p] = NoTrip] /\ trip'[p] = NoTrip
        /\ \/ stage'[p] = "off"
           \/ stage'[p] = "store" /\ plan' = plan /\ done' = done
    BY <1>1, <1>7 DEF FetchNew, FetchNotModified, FetchFails, Fetcher!End, Leave, GoTo, Types
  <2>2. Calling(p)' /\ Travelling(p)'
    BY <1>1, <1>3, <1>4, <2>1 DEF Calling, Travelling
  <2>3. stage'[p] = "store" => Ahead(p)' < Ahead(p)
    BY <1>3, <1>4 DEF Ahead
  <2> QED BY <1>5, <2>1, <2>2, <2>3
<1> QED BY <1>6, <1>7

(* A step of a call of the cache, or a kill in the middle of it. *)
LEMMA CallGetsOn ==
  ASSUME Inv, Inv', RunInv, NEW p \in Writers, CacheStep(p) \/ Kill(p)
  PROVE  /\ RunInv'
         /\ stage'[p] # "off" =>
              plan'[p] = plan[p] /\ done'[p] = done[p] /\ Ahead(p)' < Ahead(p)
<1> USE RefreshAssumption
<1>1. /\ Types /\ OnTheWay(p) /\ InHand(p) /\ Calling(p) /\ Travelling(p)
      /\ temp \in [Procs -> {"absent", "partial", "whole"}]
      /\ \A q \in Writers : Calling(q) /\ Travelling(q)
  BY DEF Inv, RunInv
<1>2. (\A q \in Writers \ {p} : Same(q)) /\ trip' = trip
  BY CallStep DEF Keeps, CacheStep, Kill, fetchVars
<1>3. ASSUME \/ temp' = temp
             \/ \E f \in {"absent", "partial", "whole"} : temp' = [temp EXCEPT ![p] = f],
             Calling(p)', Travelling(p)'
      PROVE  RunInv'
  <2>1. /\ temp' \in [Procs -> {"absent", "partial", "whole"}]
        /\ \A q \in Writers \ {p} : temp'[q] = temp[q]
    BY <1>1, <1>3
  <2>2. ASSUME NEW q \in Writers \ {p} PROVE Calling(q)' /\ Travelling(q)'
    BY <1>1, <1>2, <2>1 DEF Calling, Travelling, Same
  <2> QED BY <1>3, <2>1, <2>2 DEF RunInv
<1>4. CASE CacheStep(p)
  <2>1. UNCHANGED <<stage, plan, done>>
    BY <1>4 DEF CacheStep, runVars
  <2>2. Travelling(p)'
    BY <1>1, <1>2, <2>1 DEF Travelling
  <2>3. CASE Cache!FillTemp(p)
    <3>1. /\ temp[p] = "partial" /\ temp' = [temp EXCEPT ![p] = "whole"] /\ temp'[p] = "whole"
          /\ UNCHANGED <<pc, answer>>
      BY <1>1, <2>3 DEF Cache!FillTemp
    <3>2. pc[p] \in {"blob", "manifest"} /\ stage[p] = "storing"
      BY <1>1, <3>1 DEF Calling
    <3>3. Calling(p)' /\ Ahead(p)' < Ahead(p)
      BY <1>1, <2>1, <3>1, <3>2 DEF Calling, Ahead, PutAhead
    <3> QED BY <1>3, <2>1, <2>2, <3>1, <3>3
  <2>4. CASE Cache!PublishBlob(p)
    <3>1. /\ pc[p] = "blob" /\ pc'[p] = "load" /\ stage[p] = "storing" /\ temp[p] = "whole"
          /\ temp' = [temp EXCEPT ![p] = "absent"] /\ temp'[p] = "absent"
      BY <1>1, <2>4 DEF Cache!PublishBlob, Cache!Synced, Cache!GoTo, Types, Calling
    <3>2. Calling(p)' /\ Ahead(p)' < Ahead(p)
      BY <2>1, <3>1 DEF Calling, Ahead, PutAhead
    <3> QED BY <1>3, <2>1, <2>2, <3>1, <3>2
  <2>5. CASE Cache!LoadManifest(p)
    <3>1. /\ pc[p] = "load" /\ stage[p] = "storing" /\ temp[p] = "absent"
          /\ \/ /\ temp' = [temp EXCEPT ![p] = "partial"] /\ temp'[p] = "partial"
                /\ pc'[p] = "manifest"
             \/ temp' = temp /\ pc'[p] = "idle" /\ answer'[p] = Raised
      BY <1>1, <2>5 DEF Cache!LoadManifest, Cache!GoTo, Cache!Return, Types, Calling
    <3>2. Calling(p)' /\ Ahead(p)' < Ahead(p)
      BY <2>1, <3>1 DEF Calling, Ahead, PutAhead
    <3> QED BY <1>3, <2>1, <2>2, <3>1, <3>2
  <2>6. CASE Cache!PublishManifest(p)
    <3>1. /\ pc[p] = "manifest" /\ stage[p] = "storing" /\ temp[p] = "whole"
          /\ temp' = [temp EXCEPT ![p] = "absent"] /\ temp'[p] = "absent"
          /\ pc'[p] = "idle" /\ answer'[p] = Stored
      BY <1>1, <2>6 DEF Cache!PublishManifest, Cache!Synced, Cache!Return, Types, Calling
    <3>2. Calling(p)' /\ Ahead(p)' < Ahead(p)
      BY <2>1, <3>1 DEF Calling, Ahead, PutAhead
    <3> QED BY <1>3, <2>1, <2>2, <3>1, <3>2
  <2>7. CASE Cache!PutFails(p)
    <3>1. /\ pc[p] \in {"blob", "load", "manifest"} /\ stage[p] = "storing"
          /\ temp' = [temp EXCEPT ![p] = "absent"] /\ temp'[p] = "absent"
          /\ pc'[p] = "idle" /\ answer'[p] = Raised
      BY <1>1, <2>7 DEF Cache!PutFails, Cache!Unlink, Cache!Return, Types, Calling
    <3>2. Calling(p)' /\ Ahead(p)' < Ahead(p)
      BY <2>1, <3>1 DEF Calling, Ahead, PutAhead
    <3> QED BY <1>3, <2>1, <2>2, <3>1, <3>2
  <2>8. CASE Cache!ReadBlob(p)
    <3>1. /\ pc[p] = "read" /\ stage[p] = "found" /\ pc'[p] = "idle"
          /\ temp' = temp /\ temp[p] = "absent"
      BY <1>1, <2>8 DEF Cache!ReadBlob, Cache!Return, Cache!files, Types, Calling
    <3>2. Calling(p)' /\ Ahead(p)' < Ahead(p)
      BY <2>1, <3>1 DEF Calling, Ahead, PutAhead
    <3> QED BY <1>3, <2>1, <2>2, <3>1, <3>2
  <2> QED BY <1>4, <2>3, <2>4, <2>5, <2>6, <2>7, <2>8 DEF CacheStep
<1>5. CASE Kill(p)
  <2>1. /\ stage'[p] = "off" /\ pc'[p] = "idle"
        /\ temp' = [temp EXCEPT ![p] = "absent"] /\ temp'[p] = "absent"
    BY <1>1, <1>5 DEF Kill, Cache!Kill, Cache!Return, Leave, GoTo, Types
  <2>2. Calling(p)' /\ Travelling(p)'
    BY <1>1, <1>2, <2>1 DEF Calling, Travelling
  <2> QED BY <1>3, <2>1, <2>2
<1> QED BY <1>4, <1>5

LEMMA RunStepGetsOn ==
  ASSUME Inv, Inv', Grows, RunInv, NEW p \in Writers, Begin(p) \/ RunStep(p) \/ Kill(p)
  PROVE  /\ RunInv'
         /\ stage[p] # "off" /\ stage'[p] # "off" =>
              /\ plan'[p] = plan[p]
              /\ done'[p] = done[p] + 1 \/ (done'[p] = done[p] /\ Ahead(p)' < Ahead(p))
<1>1. CASE Begin(p) \/ Look(p) \/ Ask(p) \/ Store(p) \/ Advance(p) \/ Abort(p)
  BY <1>1, LoopGetsOn
<1>2. CASE FollowRedirect(p) \/ FetchNew(p) \/ FetchNotModified(p) \/ FetchFails(p)
  BY <1>2, FetchGetsOn
<1>3. CASE CacheStep(p) \/ Kill(p)
  BY <1>3, CallGetsOn
<1> QED BY <1>1, <1>2, <1>3 DEF RunStep

(* A step of the world outside, or of nobody. *)
LEMMA NobodySteps ==
  ASSUME Inv, [Next]_vars, ~\E p \in Writers : Begin(p) \/ RunStep(p) \/ Kill(p)
  PROVE  UNCHANGED <<pc, answer, temp, stage, plan, done, trip>>
<1>1. CASE Tick \/ UNCHANGED vars
  BY <1>1 DEF Tick, vars, cacheVars, runVars, fetchVars
<1>2. CASE \E q \in Places, a \in Contents \cup Places : OriginChanges(q, a)
  BY <1>2 DEF OriginChanges, Fetcher!Publishes, cacheVars, runVars
<1> QED BY <1>1, <1>2 DEF Next

(* A process writes no temporary file but its own. *)
LEMMA OwnTemp ==
  ASSUME RunInv, NEW p \in Writers, NEW q \in Writers, q # p,
         Begin(q) \/ RunStep(q) \/ Kill(q)
  PROVE  temp'[p] = temp[p]
<1>1. p \in DOMAIN temp
  BY RefreshAssumption DEF RunInv
<1>2. CASE Begin(q) \/ Look(q) \/ Ask(q) \/ Advance(q) \/ Abort(q)
  BY <1>2 DEF Begin, Look, Ask, Advance, Abort, cacheVars, Cache!files, Cache!GetMiss,
    Cache!GetEntry
<1>3. CASE Store(q)
  BY <1>1, <1>3 DEF Store, Cache!files, Cache!PutKnown, Cache!PutNew
<1>4. CASE FollowRedirect(q) \/ FetchNew(q) \/ FetchNotModified(q) \/ FetchFails(q)
  BY <1>4 DEF FollowRedirect, FetchNew, FetchNotModified, FetchFails, cacheVars
<1>5. CASE CacheStep(q)
  BY <1>1, <1>5 DEF CacheStep, Cache!files, Cache!FillTemp, Cache!PublishBlob,
    Cache!LoadManifest, Cache!PublishManifest, Cache!PutFails, Cache!Unlink, Cache!ReadBlob
<1>6. CASE Kill(q)
  BY <1>1, <1>6 DEF Kill, Cache!Kill
<1> QED BY <1>2, <1>3, <1>4, <1>5, <1>6 DEF RunStep

LEMMA RunInvStep ==
  ASSUME Inv, Inv', RunInv, [Next]_vars
  PROVE  RunInv'
<1>1. Grows
  BY HistoryStep DEF Inv
<1>2. CASE \E p \in Writers : Begin(p) \/ RunStep(p) \/ Kill(p)
  BY <1>1, <1>2, RunStepGetsOn
<1>3. CASE ~\E p \in Writers : Begin(p) \/ RunStep(p) \/ Kill(p)
  <2>1. UNCHANGED <<pc, answer, temp, stage, plan, done, trip>>
    BY <1>3, NobodySteps
  <2> QED BY <2>1 DEF RunInv, Calling, Travelling
<1> QED BY <1>2, <1>3

(***************************************************************************)
(* A run that has begun always has a step to take: it is never left waiting *)
(* for an answer that has come, nor in the middle of a put without its      *)
(* temporary file (source_service.py:134-155, cache.py).  NoTrip, which     *)
(* says that no fetch is going on, is taken to be none.                    *)
(***************************************************************************)
THEOREM RunsNeverStuck ==
  ASSUME NoTrip \notin Trip
  PROVE  Spec => [](\A p \in Writers : stage[p] # "off" => MayStep(p))
<1>1. ASSUME Inv, RunInv, NEW p \in Writers, stage[p] # "off" PROVE MayStep(p)
  <2>1. /\ stage[p] \in {"look", "found", "fetch", "store", "storing"}
        /\ pc[p] \in {"idle", "blob", "load", "manifest", "read"}
        /\ temp[p] \in {"absent", "partial", "whole"}
    BY <1>1, RefreshAssumption DEF Inv, Types, RunInv
  <2>2. InHand(p) /\ OnTheWay(p) /\ Calling(p) /\ Travelling(p)
    BY <1>1 DEF Inv, RunInv
  <2> QED BY <2>1, <2>2 DEF MayStep, InHand, OnTheWay, Calling, Travelling
<1>2. Inv /\ RunInv => \A p \in Writers : stage[p] # "off" => MayStep(p)
  BY <1>1
<1>3. Inv /\ Inv' /\ RunInv /\ [Next]_vars => RunInv'
  BY RunInvStep
<1> QED BY <1>2, <1>3, InitRun, Invariance, PTL DEF Spec

(***************************************************************************)
(* Every step of a run leaves less of it: it goes on to the next source of  *)
(* its plan, or comes closer to that, however the places redirect it, and   *)
(* no other refresh sets it back (source_service.py:134-155,               *)
(* fetcher.py:181-211).                                                    *)
(***************************************************************************)
THEOREM RefreshesGetOn == Spec => RunsGetOn
<1> DEFINE Good(p) == stage[p] # "off" /\ stage'[p] # "off" => GetsOn(p)
<1>1. ASSUME Inv, Inv', RunInv, RunInv', [Next]_vars, NEW p \in Writers,
             stage[p] # "off", stage'[p] # "off", Ahead(p)' \in Nat
      PROVE  GetsOn(p)
  <2>1. Grows /\ Types /\ Ahead(p) \in Nat /\ done[p] \in Nat
    BY <1>1, HistoryStep, AheadIs DEF Inv, Types
  <2>2. InHand(p)'
    BY <1>1 DEF Inv
  <2>3. done'[p] < Len(plan'[p])
    BY <1>1, <2>2 DEF InHand
  <2>4. CASE Begin(p) \/ RunStep(p) \/ Kill(p)
    <3>1. /\ plan'[p] = plan[p]
          /\ done'[p] = done[p] + 1 \/ (done'[p] = done[p] /\ Ahead(p)' < Ahead(p))
      BY <1>1, <2>1, <2>4, RunStepGetsOn
    <3> QED BY <1>1, <2>1, <2>3, <3>1 DEF GetsOn
  <2>5. CASE ~(Begin(p) \/ RunStep(p) \/ Kill(p))
    <3>1. /\ stage'[p] = stage[p] /\ pc'[p] = pc[p] /\ temp'[p] = temp[p] /\ trip'[p] = trip[p]
          /\ plan'[p] = plan[p] /\ done'[p] = done[p]
      <4>1. CASE \E q \in Writers : Begin(q) \/ RunStep(q) \/ Kill(q)
        <5>1. PICK q \in Writers : Begin(q) \/ RunStep(q) \/ Kill(q)
          BY <4>1
        <5>2. q # p
          BY <2>5, <5>1
        <5>3. Same(p)
          BY <1>1, <2>1, <5>1, <5>2, LoopStep, FetchStep, CallStep DEF Keeps, RunStep, Inv
        <5>4. temp'[p] = temp[p]
          BY <1>1, <5>1, <5>2, OwnTemp
        <5> QED BY <5>3, <5>4 DEF Same
      <4>2. CASE ~\E q \in Writers : Begin(q) \/ RunStep(q) \/ Kill(q)
        BY <1>1, <4>2, NobodySteps
      <4> QED BY <4>1, <4>2
    <3>2. Ahead(p)' = Ahead(p)
      BY <3>1 DEF Ahead, PutAhead
    <3> QED BY <1>1, <2>1, <2>3, <2>5, <3>1, <3>2 DEF GetsOn
  <2> QED BY <2>4, <2>5
<1> DEFINE Counts == \A p \in Writers : Ahead(p) \in Nat
<1>2. Inv /\ Inv' /\ RunInv /\ RunInv' /\ Counts' /\ [Next]_vars => \A p \in Writers : Good(p)
  BY <1>1
<1>3. Inv /\ RunInv => Counts
  BY AheadIs DEF Inv
<1>4. Inv /\ Inv' /\ RunInv /\ [Next]_vars => RunInv'
  BY RunInvStep
<1>5. (\A p \in Writers : Good(p)) <=>
        \A p \in Writers : stage[p] # "off" /\ stage'[p] # "off" => GetsOn(p)
  OBVIOUS
<1> HIDE DEF Good, Counts
<1> QED BY <1>2, <1>3, <1>4, <1>5, InitRun, Invariance, PTL DEF Spec, RunsGetOn
=============================================================================
