----------------------------- MODULE SourceCache -----------------------------
(***************************************************************************)
(* The cache of identity sources (identity/sources/cache.py, manifest.py): *)
(* a directory with one file per document, named by the SHA-256 of its     *)
(* content, and a manifest.json from URI to metadata.  Every process that   *)
(* opens the directory (ati sources refresh, ati verify, ati analyze) works *)
(* on the same files, without a lock.                                      *)
(*                                                                         *)
(* A put writes the blob unless its path exists, then loads the manifest,  *)
(* sets one entry and writes the whole manifest back.  Each file is written *)
(* to a temporary name, synced, and renamed over the final one.  A get      *)
(* loads the manifest and then reads the blob the entry names.  The steps  *)
(* below are the ones another process, a failing write or a kill can come  *)
(* between.                                                                 *)
(*                                                                         *)
(* A content stands for its digest (SHA-256 has no collisions here).       *)
(***************************************************************************)
EXTENDS Naturals

CONSTANTS
  Uris,       \* canonical URIs of the configured sources
  Contents,   \* document bodies, each identified with its SHA-256
  Metadata,   \* what the manifest records of a document; has a field sha256
  Procs,      \* the processes sharing one cache directory
  Writers,    \* those of them that put: ati sources refresh
  NoEntry, Stored, Raised, NoAnswer, NoCall,
  MaxKills    \* bound: processes killed in the middle of a call

Results == {NoEntry, Stored, Raised, NoAnswer}

ASSUME CacheAssumption ==
  /\ Writers \subseteq Procs
  /\ \A m \in Metadata : m.sha256 \in Contents
  /\ Metadata \cap {NoEntry, Stored, Raised, NoAnswer} = {}
  /\ NoEntry \notin {Stored, Raised, NoAnswer}
  /\ Stored \notin {Raised, NoAnswer}
  /\ Raised # NoAnswer
  /\ NoCall \notin [uri : Uris, meta : Metadata]
  /\ MaxKills \in Nat

VARIABLES
  blobs,      \* [Contents -> FileState], the file at the path of each digest
  manifest,   \* manifest.json: how much of it is there, and its entries
  temp,       \* [Procs -> FileState], the temporary file a process is writing
  orphans,    \* temporary files left behind for good
  pc,         \* where each process is in its put or get
  call,       \* the arguments of the put, or the metadata the get has found
  loaded,     \* the entries a put has loaded and will write back
  answer,     \* what the last call of each process returned
  kills

files == <<blobs, manifest, temp, orphans>>
vars == <<blobs, manifest, temp, orphans, pc, call, loaded, answer, kills>>

FileState == {"absent", "partial", "whole"}
Entries == [Uris -> Metadata \cup {NoEntry}]
NoEntries == [u \in Uris |-> NoEntry]

(* The operators with a suffix _Something are slips the code could have    *)
(* made; nothing uses them, and each breaks a property below if it is put   *)
(* in the place of the operator it is named after.                         *)

(***************************************************************************)
(* A missing manifest reads as one without entries; one that is not a      *)
(* whole JSON document makes load_manifest raise.                          *)
(***************************************************************************)
Readable == manifest.state # "partial"

Init ==
  /\ blobs = [c \in Contents |-> "absent"]
  /\ manifest = [state |-> "absent", entries |-> NoEntries]
  /\ temp = [p \in Procs |-> "absent"]
  /\ orphans = 0
  /\ pc = [p \in Procs |-> "idle"]
  /\ call = [p \in Procs |-> NoCall]
  /\ loaded = [p \in Procs |-> NoEntries]
  /\ answer = [p \in Procs |-> NoAnswer]
  /\ kills = 0

(* The call of p ends with result r. *)
Return(p, r) ==
  /\ pc' = [pc EXCEPT ![p] = "idle"]
  /\ call' = [call EXCEPT ![p] = NoCall]
  /\ loaded' = [loaded EXCEPT ![p] = NoEntries]
  /\ answer' = [answer EXCEPT ![p] = r]

(* The call of p goes on at label. *)
GoTo(p, label) == pc' = [pc EXCEPT ![p] = label]

-----------------------------------------------------------------------------
(* put, when blob_path.exists(): the file is taken as it is. *)
PutKnown(p, u, m) ==
  /\ pc[p] = "idle"
  /\ blobs[m.sha256] # "absent"
  /\ GoTo(p, "load")
  /\ call' = [call EXCEPT ![p] = [uri |-> u, meta |-> m]]
  /\ answer' = [answer EXCEPT ![p] = NoAnswer]
  /\ UNCHANGED <<files, loaded, kills>>

(* put, when the content is new: mkstemp next to the blob. *)
PutNew(p, u, m) ==
  /\ pc[p] = "idle"
  /\ blobs[m.sha256] = "absent"
  /\ GoTo(p, "blob")
  /\ temp' = [temp EXCEPT ![p] = "partial"]
  /\ call' = [call EXCEPT ![p] = [uri |-> u, meta |-> m]]
  /\ answer' = [answer EXCEPT ![p] = NoAnswer]
  /\ UNCHANGED <<blobs, manifest, orphans, loaded, kills>>

(* write, flush and fsync of the temporary file *)
FillTemp(p) ==
  /\ temp[p] = "partial"
  /\ temp' = [temp EXCEPT ![p] = "whole"]
  /\ UNCHANGED <<blobs, manifest, orphans, pc, call, loaded, answer, kills>>

(* os.replace comes after the write, the flush and the fsync. *)
Synced_TooEarly(p) == temp[p] # "absent"
Synced(p) == temp[p] = "whole"

(* os.replace(temp_name, blob_path) *)
PublishBlob(p) ==
  /\ pc[p] = "blob"
  /\ Synced(p)
  /\ blobs' = [blobs EXCEPT ![call[p].meta.sha256] = temp[p]]
  /\ temp' = [temp EXCEPT ![p] = "absent"]
  /\ GoTo(p, "load")
  /\ UNCHANGED <<manifest, orphans, call, loaded, answer, kills>>

(* load_manifest, then mkstemp for its replacement *)
LoadManifest(p) ==
  /\ pc[p] = "load"
  /\ IF Readable
       THEN /\ loaded' = [loaded EXCEPT ![p] = manifest.entries]
            /\ temp' = [temp EXCEPT ![p] = "partial"]
            /\ GoTo(p, "manifest")
            /\ UNCHANGED <<call, answer>>
       ELSE Return(p, Raised) /\ UNCHANGED temp
  /\ UNCHANGED <<blobs, manifest, orphans, kills>>

(* entries[canonical_uri] = metadata *)
Updated_FromNothing(p) == [NoEntries EXCEPT ![call[p].uri] = call[p].meta]
Updated_DigestOnly(p) == [loaded[p] EXCEPT ![call[p].uri] = call[p].meta.sha256]
Updated(p) == [loaded[p] EXCEPT ![call[p].uri] = call[p].meta]

(* os.replace(temp_name, path) *)
PublishManifest(p) ==
  /\ pc[p] = "manifest"
  /\ Synced(p)
  /\ manifest' = [state |-> temp[p], entries |-> Updated(p)]
  /\ temp' = [temp EXCEPT ![p] = "absent"]
  /\ Return(p, Stored)
  /\ UNCHANGED <<blobs, orphans, kills>>

(* except: temp_path.unlink(missing_ok=True) *)
Unlink_Forgotten(p) == UNCHANGED temp
Unlink(p) == temp' = [temp EXCEPT ![p] = "absent"]

(***************************************************************************)
(* A full disk, an I/O error or Ctrl-C in the middle of a put: the except  *)
(* clause unlinks the temporary file, if there is one, and the exception   *)
(* goes on to the caller.                                                  *)
(***************************************************************************)
PutFails(p) ==
  /\ pc[p] \in {"blob", "load", "manifest"}
  /\ Unlink(p)
  /\ Return(p, Raised)
  /\ UNCHANGED <<blobs, manifest, orphans, kills>>

-----------------------------------------------------------------------------
(* get, first half: the manifest cannot be parsed or has no entry. *)
GetMiss(p, u) ==
  /\ pc[p] = "idle"
  /\ Readable => manifest.entries[u] = NoEntry
  /\ answer' = [answer EXCEPT ![p] = IF Readable THEN NoEntry ELSE Raised]
  /\ UNCHANGED <<files, pc, call, loaded, kills>>

(* get, first half: the entry is found; the blob is still to be read. *)
GetEntry(p, u) ==
  /\ pc[p] = "idle"
  /\ Readable
  /\ manifest.entries[u] # NoEntry
  /\ GoTo(p, "read")
  /\ call' = [call EXCEPT ![p] = [uri |-> u, meta |-> manifest.entries[u]]]
  /\ answer' = [answer EXCEPT ![p] = NoAnswer]
  /\ UNCHANGED <<files, loaded, kills>>

(***************************************************************************)
(* get, second half: a missing file raises in read_bytes, a truncated one  *)
(* in SourceDocument, which compares the digest of what was read.          *)
(***************************************************************************)
ReadBlob(p) ==
  /\ pc[p] = "read"
  /\ Return(p, IF blobs[call[p].meta.sha256] = "whole"
                 THEN call[p].meta ELSE Raised)
  /\ UNCHANGED <<files, kills>>

(***************************************************************************)
(* kill -9 or a lost machine: nothing runs, not even the except clauses.   *)
(* The process is started again with no memory; the files stay.            *)
(***************************************************************************)
Kill(p) ==
  /\ pc[p] # "idle"
  /\ kills < MaxKills
  /\ kills' = kills + 1
  /\ orphans' = IF temp[p] = "absent" THEN orphans ELSE orphans + 1
  /\ temp' = [temp EXCEPT ![p] = "absent"]
  /\ Return(p, NoAnswer)
  /\ UNCHANGED <<blobs, manifest>>

-----------------------------------------------------------------------------
WriterStep(p) ==
  \/ \E u \in Uris, m \in Metadata : PutKnown(p, u, m) \/ PutNew(p, u, m)
  \/ FillTemp(p)
  \/ PublishBlob(p)
  \/ LoadManifest(p)
  \/ PublishManifest(p)
  \/ PutFails(p)

ReaderStep(p) ==
  \/ \E u \in Uris : GetMiss(p, u) \/ GetEntry(p, u)
  \/ ReadBlob(p)

Next ==
  \/ \E p \in Writers : WriterStep(p)
  \/ \E p \in Procs : ReaderStep(p) \/ Kill(p)

Spec == Init /\ [][Next]_vars

-----------------------------------------------------------------------------
(* Every variable has values of the shape the code gives it. *)
TypeOK ==
  /\ blobs \in [Contents -> FileState]
  /\ manifest \in [state : FileState, entries : Entries]
  /\ temp \in [Procs -> FileState]
  /\ orphans \in Nat
  /\ pc \in [Procs -> {"idle", "blob", "load", "manifest", "read"}]
  /\ call \in [Procs -> [uri : Uris, meta : Metadata] \cup {NoCall}]
  /\ \A p \in Procs : pc[p] # "idle" => call[p] # NoCall
  /\ loaded \in [Procs -> Entries]
  /\ answer \in [Procs -> Metadata \cup Results]
  /\ kills \in 0..MaxKills

(* Every document a set of entries names has its whole file. *)
AllHeld(entries) ==
  \A u \in Uris : entries[u] # NoEntry => blobs[entries[u].sha256] = "whole"

(***************************************************************************)
(* Whatever writers run together, fail or are killed, and even when one    *)
(* overwrites the other's update, manifest.json is a whole document and    *)
(* every entry in it names a blob that is completely there.                *)
(***************************************************************************)
ManifestNamesWholeBlobs ==
  /\ Readable
  /\ AllHeld(manifest.entries)

(***************************************************************************)
(* A get that found its entry finds its blob: a command that only reads    *)
(* never sees FileNotFoundError or a digest mismatch, although the         *)
(* manifest may have been replaced between its two reads.                  *)
(***************************************************************************)
GetsNeverRaise == \A p \in Procs \ Writers : answer[p] # Raised

(***************************************************************************)
(* Only a kill leaves a temporary file behind; every other way out of a    *)
(* put, including a write error, removes it.                               *)
(***************************************************************************)
OnlyKillsLeaveTempFiles ==
  /\ orphans <= kills
  /\ \A p \in Procs : temp[p] # "absent" => pc[p] \in {"blob", "manifest"}

(***************************************************************************)
(* What the class comment promises of the manifest ("an atomic URI-to-     *)
(* metadata manifest", cache.py:19): storing the document of one URI       *)
(* leaves the entries of the others alone.                                 *)
(***************************************************************************)
PutChangesOneEntry ==
  [][\A p \in Writers : pc[p] = "manifest" /\ answer'[p] = Stored =>
       \A u \in Uris \ {call[p].uri} :
          manifest'.entries[u] = manifest.entries[u]]_vars

(***************************************************************************)
(* With one writer at a time, and any number of readers, the directory is  *)
(* the map of SourceStore: a put takes effect when the manifest is         *)
(* replaced, a get when the manifest is read.                              *)
(***************************************************************************)
AtomicStore ==
  INSTANCE SourceStore WITH
    store <- manifest.entries,
    reply <- [p \in Procs |-> IF pc[p] = "read" THEN call[p].meta ELSE answer[p]]

ImplementsStore == AtomicStore!Spec
=============================================================================
