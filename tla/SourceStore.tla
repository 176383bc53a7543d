----------------------------- MODULE SourceStore -----------------------------
(***************************************************************************)
(* What the source cache promises to the commands that use it: a map from  *)
(* the URI of an identity source to the metadata of the document held for  *)
(* it.  A put takes effect at one instant or not at all, whatever fails or  *)
(* is killed on the way; a get returns the document held at one instant of  *)
(* the call, and never an error.                                           *)
(***************************************************************************)
CONSTANTS
  Uris,       \* canonical URIs of the configured sources
  Metadata,   \* what the manifest records of a document
  Procs,      \* the processes (ati commands) sharing one cache directory
  Writers,    \* those of them that put: ati sources refresh
  NoEntry,    \* get's None
  Stored,     \* put returned
  Raised,     \* the call raised an exception
  NoAnswer    \* no call of the process has returned since its last one began

VARIABLES
  store,      \* [Uris -> Metadata \cup {NoEntry}]
  reply       \* [Procs -> ...], what the last call of each process returned

storeVars == <<store, reply>>

Init ==
  /\ store = [u \in Uris |-> NoEntry]
  /\ reply = [p \in Procs |-> NoAnswer]

(* A call begins, or the process is killed and forgets it. *)
Forget(p) ==
  /\ reply' = [reply EXCEPT ![p] = NoAnswer]
  /\ UNCHANGED store

Put(p, u, m) ==
  /\ store' = [store EXCEPT ![u] = m]
  /\ reply' = [reply EXCEPT ![p] = Stored]

PutFails(p) ==
  /\ reply' = [reply EXCEPT ![p] = Raised]
  /\ UNCHANGED store

Get(p, u) ==
  /\ reply' = [reply EXCEPT ![p] = store[u]]
  /\ UNCHANGED store

Next ==
  \/ \E p \in Procs : Forget(p)
  \/ \E p \in Writers, u \in Uris, m \in Metadata : Put(p, u, m)
  \/ \E p \in Writers : PutFails(p)
  \/ \E p \in Procs, u \in Uris : Get(p, u)

Spec == Init /\ [][Next]_storeVars
=============================================================================
