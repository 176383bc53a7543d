----------------------------- MODULE SafeFetcher -----------------------------
(***************************************************************************)
(* SafeFetcher.fetch (identity/sources/fetcher.py): one conditional GET of  *)
(* an identity source, with the redirects it follows.  Each request and its *)
(* answer take no time; between a redirect and the next request anything   *)
(* may happen.                                                             *)
(*                                                                         *)
(* The web is outside the program.  A place (a URI) answers with a content  *)
(* or redirects to another place, and may change between the two.  Servers  *)
(* keep to RFC 9110: a 304 answers a condition the request has, an entity   *)
(* tag is compared before a date, and a date holds for everything that was  *)
(* last modified no later.                                                 *)
(***************************************************************************)
EXTENDS Naturals

CONSTANTS
  Clients,      \* the processes that fetch
  Places,       \* URIs a request may be sent to
  Contents,     \* bodies
  Host,         \* [Places -> hosts], scheme and network location of a URI
  Offers,       \* [Places -> SUBSET (Contents \cup Places)], its possible answers
  Etag,         \* [Places -> [Contents -> ETag]], NoValidator where there is none
  Modified,     \* [Places -> [Contents -> Last-Modified]], or NoValidator
  NoValidator,
  NoTrip,       \* no fetch is going on
  MaxRedirects

VARIABLES
  trip,         \* [Clients -> where each fetch has got to]
  origin        \* [Places -> Contents \cup Places], what each place answers now

NoHeaders == [etag |-> NoValidator, modified |-> NoValidator]

Init ==
  /\ trip = [p \in Clients |-> NoTrip]
  /\ origin \in {o \in [Places -> Contents \cup Places] :
                   \A q \in Places : o[q] \in Offers[q]}

(* fetch(u, etag, last_modified, follow_redirects) begins. *)
Fetch(p, u, headers, follow) ==
  /\ trip[p] = NoTrip
  /\ trip' = [trip EXCEPT ![p] =
       [at |-> u, redirects |-> 0, headers |-> headers, follow |-> follow]]
  /\ UNCHANGED origin

(* The fetch of p has returned or raised. *)
End(p) == trip' = [trip EXCEPT ![p] = NoTrip] /\ UNCHANGED origin

Fetching(p) == trip[p] # NoTrip

(***************************************************************************)
(* A redirect: the conditions go on to the same scheme and host only, and  *)
(* once dropped they are not sent for the rest of the chain.               *)
(***************************************************************************)
Onward_KeepsHeaders(p, q) == trip[p].headers
Onward(p, q) == IF Host[q] = Host[trip[p].at] THEN trip[p].headers ELSE NoHeaders

(* redirects += 1 *)
Count_Forgotten(p) == trip[p].redirects
Count(p) == trip[p].redirects + 1

Redirected(p) ==
  LET q == origin[trip[p].at]
  IN /\ Fetching(p)
     /\ q \in Places
     /\ trip[p].follow
     /\ trip[p].redirects < MaxRedirects
     /\ trip' = [trip EXCEPT ![p] =
          [at |-> q, redirects |-> Count(p), headers |-> Onward(p, q), follow |-> TRUE]]
     /\ UNCHANGED origin

(* The place reached answers 200 with content c. *)
Receives(p, c) ==
  /\ Fetching(p)
  /\ c = origin[trip[p].at]
  /\ c \in Contents

(* The place reached answers 304, and its answer has the validators of c. *)
NotModified(p, c) ==
  LET q == trip[p].at
      h == trip[p].headers
  IN /\ Receives(p, c)
     /\ IF h.etag # NoValidator
          THEN h.etag = Etag[q][c]
          ELSE /\ h.modified # NoValidator
               /\ Modified[q][c] # NoValidator
               /\ Modified[q][c] <= h.modified

(* Place q goes over to answer a. *)
Publishes(q, a) ==
  /\ a \in Offers[q] \ {origin[q]}
  /\ origin' = [origin EXCEPT ![q] = a]
  /\ UNCHANGED trip
=============================================================================
