-------------------------- MODULE SourceCacheProofs --------------------------
(***************************************************************************)
(* Proofs about SourceCache, for any set of URIs, contents, processes and   *)
(* writers, and any number of kills.                                       *)
(***************************************************************************)
EXTENDS SourceCache, TLAPS

(***************************************************************************)
(* The inductive invariant behind ManifestNamesWholeBlobs.  A put only     *)
(* reaches the manifest after its blob is whole, and no step removes or     *)
(* truncates a blob; so what a writer has loaded, however old it is by the *)
(* time it is written back, still names only whole blobs.                  *)
(***************************************************************************)
Inv ==
  /\ TypeOK
  /\ ManifestNamesWholeBlobs
  /\ \A c \in Contents : blobs[c] # "partial"
  /\ \A p \in Procs :
       /\ AllHeld(loaded[p])
       /\ pc[p] \in {"load", "manifest", "read"} =>
            blobs[call[p].meta.sha256] = "whole"
       /\ temp[p] # "absent" => pc[p] \in {"blob", "manifest"}
       /\ pc[p] = "idle" => call[p] = NoCall
  /\ orphans <= kills
  /\ GetsNeverRaise
  /\ \A p \in Procs \ Writers : pc[p] \in {"idle", "read"}

LEMMA InitInv == Init => Inv
BY CacheAssumption DEF Init, Inv, TypeOK, ManifestNamesWholeBlobs, AllHeld,
  Readable, FileState, Entries, NoEntries, Results, GetsNeverRaise

LEMMA StepInv == Inv /\ [Next]_vars => Inv'
<1> SUFFICES ASSUME Inv, [Next]_vars PROVE Inv'
  OBVIOUS
<1> USE CacheAssumption DEF Inv, TypeOK, FileState, Entries, Results, Readable
<1>1. ASSUME NEW p \in Writers, NEW u \in Uris, NEW m \in Metadata, PutKnown(p, u, m)
      PROVE  Inv'
  BY <1>1 DEF PutKnown, GoTo, files, ManifestNamesWholeBlobs, AllHeld, GetsNeverRaise
<1>2. ASSUME NEW p \in Writers, NEW u \in Uris, NEW m \in Metadata, PutNew(p, u, m)
      PROVE  Inv'
  BY <1>2 DEF PutNew, GoTo, files, ManifestNamesWholeBlobs, AllHeld, GetsNeverRaise
<1>3. ASSUME NEW p \in Writers, FillTemp(p) PROVE Inv'
  BY <1>3 DEF FillTemp, ManifestNamesWholeBlobs, AllHeld, GetsNeverRaise
<1>4. ASSUME NEW p \in Writers, PublishBlob(p) PROVE Inv'
  BY <1>4 DEF PublishBlob, Synced, GoTo, ManifestNamesWholeBlobs, AllHeld, GetsNeverRaise
<1>5. ASSUME NEW p \in Writers, LoadManifest(p) PROVE Inv'
  <2>1. /\ pc[p] = "load"
        /\ loaded' = [loaded EXCEPT ![p] = manifest.entries]
        /\ temp' = [temp EXCEPT ![p] = "partial"]
        /\ pc' = [pc EXCEPT ![p] = "manifest"]
        /\ UNCHANGED <<blobs, manifest, orphans, call, answer, kills>>
    BY <1>5 DEF LoadManifest, GoTo, ManifestNamesWholeBlobs
  <2>2. TypeOK'
    BY <2>1
  <2>3. ManifestNamesWholeBlobs' /\ GetsNeverRaise'
    BY <2>1 DEF ManifestNamesWholeBlobs, AllHeld, GetsNeverRaise
  <2>4. \A q \in Procs : AllHeld(loaded[q])'
    BY <2>1 DEF ManifestNamesWholeBlobs, AllHeld
  <2>5. QED
    BY <2>1, <2>2, <2>3, <2>4
<1>6. ASSUME NEW p \in Writers, PublishManifest(p) PROVE Inv'
  BY <1>6 DEF PublishManifest, Synced, Updated, Return, ManifestNamesWholeBlobs, AllHeld, GetsNeverRaise, NoEntries
<1>7. ASSUME NEW p \in Writers, PutFails(p) PROVE Inv'
  BY <1>7 DEF PutFails, Unlink, Return, ManifestNamesWholeBlobs, AllHeld, GetsNeverRaise, NoEntries
<1>8. ASSUME NEW p \in Procs, NEW u \in Uris, GetMiss(p, u) PROVE Inv'
  BY <1>8 DEF GetMiss, files, ManifestNamesWholeBlobs, AllHeld, GetsNeverRaise
<1>9. ASSUME NEW p \in Procs, NEW u \in Uris, GetEntry(p, u) PROVE Inv'
  BY <1>9 DEF GetEntry, GoTo, files, ManifestNamesWholeBlobs, AllHeld, GetsNeverRaise
<1>10. ASSUME NEW p \in Procs, ReadBlob(p) PROVE Inv'
  BY <1>10 DEF ReadBlob, Return, files, ManifestNamesWholeBlobs, AllHeld, GetsNeverRaise, NoEntries
<1>11. ASSUME NEW p \in Procs, Kill(p) PROVE Inv'
  BY <1>11 DEF Kill, Return, ManifestNamesWholeBlobs, AllHeld, GetsNeverRaise, NoEntries
<1>12. CASE UNCHANGED vars
  BY <1>12 DEF vars, ManifestNamesWholeBlobs, AllHeld, GetsNeverRaise
<1>13. QED
  BY <1>1, <1>2, <1>3, <1>4, <1>5, <1>6, <1>7, <1>8, <1>9, <1>10, <1>11, <1>12
     DEF Next, WriterStep, ReaderStep

LEMMA Invariance == Spec => []Inv
BY InitInv, StepInv, PTL DEF Spec

(* Every reachable state has the shape TypeOK gives it. *)
THEOREM TypeCorrect == Spec => []TypeOK
BY Invariance, PTL DEF Inv

(* The manifest is whole and names only whole blobs, with any number of    *)
(* writers overwriting each other, write errors and kills.                 *)
THEOREM WholeBlobs == Spec => []ManifestNamesWholeBlobs
BY Invariance, PTL DEF Inv

(* A command that only reads the cache never gets an exception from it. *)
THEOREM ReadersSafe == Spec => []GetsNeverRaise
BY Invariance, PTL DEF Inv

(* Temporary files are left behind by kills only. *)
THEOREM TempFilesRemoved == Spec => []OnlyKillsLeaveTempFiles
<1>1. Inv => OnlyKillsLeaveTempFiles
  BY DEF Inv, OnlyKillsLeaveTempFiles
<1>2. QED
  BY Invariance, <1>1, PTL

-----------------------------------------------------------------------------
(***************************************************************************)
(* The refinement.  With a single writer nobody replaces the manifest      *)
(* between the writer's load and its own replacement, so what it writes    *)
(* back differs from what is there in its own entry only.                  *)
(***************************************************************************)
OneWriter == \A p, q \in Writers : p = q

LoadedIsCurrent ==
  \A p \in Procs : pc[p] = "manifest" => loaded[p] = manifest.entries

LEMMA StepLoadedIsCurrent ==
  ASSUME OneWriter, Inv, LoadedIsCurrent, [Next]_vars
  PROVE  LoadedIsCurrent'
<1> USE CacheAssumption DEF OneWriter, Inv, TypeOK, LoadedIsCurrent
<1>1. ASSUME NEW p \in Writers, WriterStep(p) PROVE LoadedIsCurrent'
  <2>1. \A q \in Procs : q # p => pc[q] # "manifest" /\ pc'[q] # "manifest"
    BY <1>1 DEF WriterStep, PutKnown, PutNew, FillTemp, PublishBlob, Synced, LoadManifest,
      PublishManifest, Updated, PutFails, Unlink, Return, GoTo
  <2>2. pc'[p] = "manifest" => loaded'[p] = manifest'.entries
    BY <1>1 DEF WriterStep, PutKnown, PutNew, FillTemp, PublishBlob, Synced, LoadManifest,
      PublishManifest, Updated, PutFails, Unlink, Return, GoTo, files
  <2>3. QED
    BY <2>1, <2>2
<1>2. ASSUME NEW p \in Procs, ReaderStep(p) \/ Kill(p) PROVE LoadedIsCurrent'
  BY <1>2 DEF ReaderStep, GetMiss, GetEntry, ReadBlob, Kill, Return, GoTo, files
<1>3. CASE UNCHANGED vars
  BY <1>3 DEF vars
<1>4. QED
  BY <1>1, <1>2, <1>3 DEF Next

LEMMA StepImplementsStore ==
  ASSUME Inv, Inv', LoadedIsCurrent, [Next]_vars
  PROVE  [AtomicStore!Next]_(AtomicStore!storeVars)
<1> USE CacheAssumption
<1>t. /\ call \in [Procs -> [uri : Uris, meta : Metadata] \cup {NoCall}]
      /\ pc \in [Procs -> {"idle", "blob", "load", "manifest", "read"}]
      /\ answer \in [Procs -> Metadata \cup Results]
      /\ manifest \in [state : FileState, entries : Entries]
      /\ loaded \in [Procs -> Entries]
  BY DEF Inv, TypeOK
<1>1. ASSUME NEW p \in Writers, NEW u \in Uris, NEW m \in Metadata,
             PutKnown(p, u, m) \/ PutNew(p, u, m)
      PROVE  AtomicStore!Forget(p)
  <2>1. pc[p] = "idle" /\ pc'[p] \notin {"idle", "read"}
    BY <1>1, <1>t DEF PutKnown, PutNew, GoTo
  <2>2. /\ manifest' = manifest
        /\ answer' = [answer EXCEPT ![p] = NoAnswer]
        /\ \A q \in Procs : q # p => pc'[q] = pc[q] /\ call'[q] = call[q]
    BY <1>1, <1>t DEF PutKnown, PutNew, GoTo, files
  <2>3. QED
    BY <2>1, <2>2, <1>t DEF AtomicStore!Forget
<1>2. ASSUME NEW p \in Writers, FillTemp(p) \/ PublishBlob(p)
      PROVE  UNCHANGED AtomicStore!storeVars
  BY <1>2, <1>t DEF FillTemp, PublishBlob, Synced, GoTo, AtomicStore!storeVars
<1>3. ASSUME NEW p \in Writers, LoadManifest(p)
      PROVE  UNCHANGED AtomicStore!storeVars
  BY <1>3, <1>t DEF LoadManifest, GoTo, Inv, ManifestNamesWholeBlobs,
    AtomicStore!storeVars
<1>4. ASSUME NEW p \in Writers, PublishManifest(p)
      PROVE  AtomicStore!Put(p, call[p].uri, call[p].meta)
  BY <1>4, <1>t DEF PublishManifest, Synced, Updated, Return, LoadedIsCurrent, AtomicStore!Put
<1>5. ASSUME NEW p \in Writers, PutFails(p)
      PROVE  AtomicStore!PutFails(p)
  BY <1>5, <1>t DEF PutFails, Unlink, Return, AtomicStore!PutFails
<1>6. ASSUME NEW p \in Procs, NEW u \in Uris, GetMiss(p, u) \/ GetEntry(p, u)
      PROVE  AtomicStore!Get(p, u)
  <2>1. CASE GetMiss(p, u)
    <3>1. /\ pc[p] = "idle" /\ manifest.entries[u] = NoEntry
          /\ answer' = [answer EXCEPT ![p] = NoEntry]
          /\ UNCHANGED <<manifest, pc, call>>
      BY <2>1 DEF GetMiss, files, Inv, ManifestNamesWholeBlobs
    <3>2. QED
      BY <3>1, <1>t DEF AtomicStore!Get
  <2>2. CASE GetEntry(p, u)
    BY <2>2, <1>t DEF GetEntry, GoTo, files, AtomicStore!Get
  <2>3. QED
    BY <1>6, <2>1, <2>2
<1>7. ASSUME NEW p \in Procs, ReadBlob(p)
      PROVE  UNCHANGED AtomicStore!storeVars
  BY <1>7, <1>t DEF ReadBlob, Return, files, Inv, AtomicStore!storeVars
<1>8. ASSUME NEW p \in Procs, Kill(p)
      PROVE  AtomicStore!Forget(p)
  BY <1>8, <1>t DEF Kill, Return, AtomicStore!Forget
<1>9. CASE UNCHANGED vars
  BY <1>9 DEF vars, AtomicStore!storeVars
<1>10. ASSUME NEW p \in Writers, PublishManifest(p)
       PROVE  call[p].uri \in Uris /\ call[p].meta \in Metadata
  BY <1>10 DEF PublishManifest, Synced, Updated, Inv, TypeOK
<1>11. ASSUME NEW p \in Writers, WriterStep(p)
       PROVE  [AtomicStore!Next]_(AtomicStore!storeVars)
  <2>1. p \in Procs
    OBVIOUS
  <2>2. CASE \E u \in Uris, m \in Metadata : PutKnown(p, u, m) \/ PutNew(p, u, m)
    BY <2>1, <2>2, <1>1 DEF AtomicStore!Next
  <2>3. CASE FillTemp(p) \/ PublishBlob(p) \/ LoadManifest(p)
    BY <2>3, <1>2, <1>3
  <2>4. CASE PublishManifest(p)
    <3>1. PICK u \in Uris, m \in Metadata : u = call[p].uri /\ m = call[p].meta
      BY <2>4, <1>10
    <3>2. AtomicStore!Put(p, u, m)
      BY <2>4, <3>1, <1>4 DEF AtomicStore!Put
    <3>3. QED
      BY <3>2 DEF AtomicStore!Next
  <2>5. CASE PutFails(p)
    BY <2>5, <1>5 DEF AtomicStore!Next
  <2>6. QED
    BY <1>11, <2>2, <2>3, <2>4, <2>5 DEF WriterStep
<1>12. ASSUME NEW p \in Procs, ReaderStep(p) \/ Kill(p)
       PROVE  [AtomicStore!Next]_(AtomicStore!storeVars)
  BY <1>12, <1>6, <1>7, <1>8 DEF ReaderStep, AtomicStore!Next
<1>13. QED
  BY <1>9, <1>11, <1>12 DEF Next

(***************************************************************************)
(* One process refreshing, any number reading: the cache directory is an   *)
(* atomic map, kills and write errors included.                            *)
(***************************************************************************)
THEOREM OneWriterImplementsStore ==
  ASSUME OneWriter
  PROVE  Spec => ImplementsStore
<1>1. Init => LoadedIsCurrent
  BY DEF Init, LoadedIsCurrent
<1>2. Init => AtomicStore!Init
  BY DEF Init, AtomicStore!Init, NoEntries
<1>3. Inv /\ LoadedIsCurrent /\ [Next]_vars => LoadedIsCurrent'
  BY OneWriter, StepLoadedIsCurrent
<1>4. Inv /\ Inv' /\ LoadedIsCurrent /\ [Next]_vars
        => [AtomicStore!Next]_(AtomicStore!storeVars)
  BY StepImplementsStore
<1>5. QED
  BY Invariance, <1>1, <1>2, <1>3, <1>4, PTL DEF Spec, ImplementsStore, AtomicStore!Spec
=============================================================================
