-------------------------- MODULE SessionFeatureState --------------------------
(***************************************************************************)
(* The per-client histories behind the behavioural features                *)
(* (features/session.py), as a data type: what a new state is and what     *)
(* update makes of one.  Events come in the order of the log, which is not *)
(* the order of their timestamps.                                          *)
(*                                                                         *)
(* An event is named by its position in the log.  A history is a deque     *)
(* sorted by timestamp, and by arrival among equals, so the set of its     *)
(* events determines it, and with it the features taken from it.           *)
(***************************************************************************)
EXTENDS Naturals, FiniteSets, SequencesExt

CONSTANTS
  Clients,
  Times,       \* the timestamps events may have
  MaxEvents,   \* max_events_per_client
  MaxClients,
  Window       \* window_seconds

ASSUME SessionAssumption ==
  /\ Times \subseteq Nat
  /\ MaxEvents \in Nat /\ MaxEvents >= 2
  /\ MaxClients \in Nat \ {0}
  /\ Window \in Nat \ {0}

Event == [client : Clients, at : Times]

(***************************************************************************)
(* log        the events so far                                            *)
(* clients    the keys of _histories, the least recently updated first     *)
(* histories  the history of each client, empty unless it is a key         *)
(* evicted    _evicted_clients                                             *)
(***************************************************************************)
SessionState ==
  [log : Seq(Event), clients : Seq(Clients),
   histories : [Clients -> SUBSET Nat], evicted : Nat]

NewSession ==
  [log |-> <<>>, clients |-> <<>>, histories |-> [c \in Clients |-> {}], evicted |-> 0]

Elements(s) == {s[i] : i \in DOMAIN s}

Before(events, i, j) ==
  \/ events[i].at < events[j].at
  \/ events[i].at = events[j].at /\ i < j

(* The operators with a suffix _Something are slips the code could have    *)
(* made; nothing uses them, and each breaks a property of AnalysisService  *)
(* if it is put in the place of the operator it is named after.            *)

Recent_SinceNewest(events, E) ==
  {i \in E : events[i].at + Window >= events[Len(events)].at}
(* The events of E within the window before its latest timestamp. *)
Recent(events, E) ==
  {i \in E : \A j \in E : events[i].at + Window >= events[j].at}

(* deque(maxlen): the MaxEvents events of E that come last. *)
Latest(events, E) ==
  {i \in E : Cardinality({j \in E : Before(events, i, j)}) < MaxEvents}

Evicts_Late(s, c) == c \notin Elements(s.clients) /\ Len(s.clients) > MaxClients
(* A new client takes the place of the least recently updated one. *)
Evicts(s, c) == c \notin Elements(s.clients) /\ Len(s.clients) >= MaxClients

Kept_InPlace(s, c) ==
  IF Evicts(s, c) THEN Tail(s.clients)
  ELSE IF s.clients # <<>> /\ Head(s.clients) = c THEN s.clients
  ELSE RemoveFirst(s.clients, c)
(* The clients that keep their place when c moves to the end. *)
Kept(s, c) ==
  IF Evicts(s, c) THEN Tail(s.clients) ELSE RemoveFirst(s.clients, c)

(* update(event) *)
Update(s, e) ==
  LET events == Append(s.log, e)
      kept == Kept(s, e.client)
  IN [log |-> events,
      clients |-> Append(kept, e.client),
      histories |-> [d \in Clients |->
        IF d = e.client
          THEN Latest(events, Recent(events, s.histories[d] \cup {Len(events)}))
          ELSE IF d \in Elements(kept) THEN s.histories[d] ELSE {}],
      evicted |-> IF Evicts(s, e.client) THEN s.evicted + 1 ELSE s.evicted]

-----------------------------------------------------------------------------
(* What the histories should be, from the log alone. *)
EventsOf(log, c) == {i \in DOMAIN log : log[i].client = c}

(* The clients of the events strictly between two. *)
Between(log, first, last) == {log[m].client : m \in (first + 1)..(last - 1)}

(* Between event i of client c and the next one at k, or the end, so many other
   clients came that c lost its place. *)
LosesPlace(log, c, i, k) ==
  c \notin Between(log, i, k) /\ Cardinality(Between(log, i, k)) >= MaxClients

(* The events of c since it was last a new client. *)
SessionOf(log, c) ==
  {i \in EventsOf(log, c) :
     ~\E j \in EventsOf(log, c), k \in EventsOf(log, c) \cup {Len(log) + 1} :
        i <= j /\ j < k /\ LosesPlace(log, c, j, k)}

(* The last MaxEvents events of the window before the latest timestamp. *)
RecentWindow(log, c) ==
  LET session == SessionOf(log, c)
      window == {i \in session : \A j \in session : log[i].at + Window >= log[j].at}
  IN {i \in window : Cardinality({j \in window : Before(log, i, j)}) < MaxEvents}

(* Event i is the first of a session of its client. *)
StartsSession(log, i) ==
  \A j \in EventsOf(log, log[i].client) :
    j < i /\ log[i].client \notin Between(log, j, i)
      => LosesPlace(log, log[i].client, j, i)
=============================================================================
