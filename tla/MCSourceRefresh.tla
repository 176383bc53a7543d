--------------------------- MODULE MCSourceRefresh ---------------------------
(* Small instances of SourceRefresh for TLC. *)
EXTENDS SourceRefresh, TLC

CONSTANTS rangeList, keyDirectory, mirror, v1, v2, keys

(* Everything _document_from_result and _revalidated_document record within the *)
(* bounds: a directory without max-age, a list for its period, each with a      *)
(* validator some place gives, and a binding for its own content.              *)
AllMetadata ==
  {m \in [sha256 : Contents, retrieved_at : 0..MaxTime,
          expires_at : Validity..(MaxTime + Validity) \cup {NoExpiry},
          etag : {Etag[q][c] : q \in Places, c \in Contents},
          modified : {Modified[q][c] : q \in Places, c \in Contents},
          binding : [sha256 : Contents, verified_at : 0..MaxTime] \cup {Unsigned}] :
     /\ m.expires_at \in {NoExpiry, m.retrieved_at + Validity}
     /\ m.binding # Unsigned =>
          /\ m.expires_at = NoExpiry
          /\ m.binding.sha256 = m.sha256
          /\ m.binding.verified_at <= m.retrieved_at}

(* Every source publishes every content itself, with a tag of its own and no date. *)
HostPerPlace == [q \in Places |-> q]
EveryContent == [q \in Places |-> Contents]
TagPerContent == [q \in Places |-> [c \in Contents |-> c]]
NoValidators == [q \in Places |-> [c \in Contents |-> NoValidator]]

(* The list moves to another host and back, or the two redirect to each other; *)
(* the mirror gives its content the tag the list has for another.              *)
WithMirror ==
  [q \in Places |-> CASE q = rangeList -> {v1, mirror}
                       [] q = mirror -> {v2, rangeList}
                       [] q = keyDirectory -> {keys, mirror}]
SameTags == [q \in Places |-> [c \in Contents |-> v1]]

(* The list and the mirror date their contents; the mirror has the newer one. *)
Moving == [q \in Places |-> IF q = rangeList THEN {v1, mirror} ELSE {v2}]
Dates == [q \in Places |-> [c \in Contents |-> IF c = v1 THEN 1 ELSE 2]]

BothSources == {<<rangeList, keyDirectory>>}
OneOfEach == {<<rangeList>>, <<keyDirectory>>}

OneList == {<<rangeList>>}

(* The other source as it was at first. *)
Untouched(u) ==
  /\ \A p \in Writers : u \notin {plan[p][i] : i \in DOMAIN plan[p]}
  /\ Entry(u) = NoEntry
  /\ origin[u] = v1 /\ lastServed[u][v2] = Never

(* Overlapping refreshes matter to each other at one source: all of them visit *)
(* the list, up to time 2, or all of them the directory, up to time 1.         *)
OneSourceAtATime ==
  \/ Untouched(keyDirectory)
  \/ Untouched(rangeList) /\ now <= 1

WriterSymmetry == Permutations(Writers)
=============================================================================
