----------------------------- MODULE CacheServer -----------------------------
(***************************************************************************)
(* The cache server (cache/mod.rs, cache/store.rs, cache/snapshot.rs,      *)
(* data/fingerprint.rs): one thread per connection, a CacheStore behind a  *)
(* mutex, and a directory of snapshot files that outlives the process.     *)
(*                                                                         *)
(* The mutex is held for single look-ups and insertions only.  Between     *)
(* them a thread reads the dataset and writes the snapshot with no lock,   *)
(* so each of its steps on a file is an action here.                       *)
(*                                                                         *)
(* A dataset is known by its version, which the program does not see; it   *)
(* sees the stamp of the file, its size and its mtime in seconds.          *)
(***************************************************************************)
EXTENDS Integers, FiniteSets, Functions

CONSTANTS
  Connections,   (* every connection that may ever be accepted              *)
  Paths,         (* datasets                                                *)
  MaxVersion,    (* bound: how often a dataset is written                   *)
  Length,        (* bytes of the archive of each version                    *)
  FineStamps,    (* whether every rewrite changes size or second            *)
  MaxCrashes     (* bound: how often the server is killed                   *)

ASSUME CacheAssumption ==
  /\ MaxVersion \in Nat \ {0} /\ MaxCrashes \in Nat
  /\ Length \in [1 .. MaxVersion -> Nat \ {0}]
  /\ FineStamps \in BOOLEAN

VARIABLES
  dataset,          (* the Parquet file of each path: version and stamp     *)
  up,               (* whether the server process runs                      *)
  crashes,          (* how often it was killed                              *)
  entries,          (* CacheStore.entries: key -> handle                    *)
  next_generation,  (* CacheStore.next_generation                           *)
  thread,           (* the thread of each connection                        *)
  snapshot,         (* key -> content of the .rkyv file, where there is one *)
  metadata          (* key -> "torn" or "whole", where there is a .meta.json*)

envVars == <<dataset, up, crashes>>
storeVars == <<entries, next_generation>>
fileVars == <<snapshot, metadata>>
serverVars == <<envVars, storeVars, thread, fileVars>>

Versions == 1 .. MaxVersion

(* DatasetFingerprint::key().  Stamp 0 is that of no file.                  *)
Keys == [path : Paths, stamp : 0 .. MaxVersion]

(* Mutant: the key is the path alone.                                       *)
KeyOfPath(p, stamp) == [path |-> p, stamp |-> IF stamp = 0 THEN 0 ELSE 1]

KeyOf(p, stamp) == [path |-> p, stamp |-> stamp]

(* SharedSnapshotHandle: what changes from one handle of a key to another.  *)
Handle(gen, len) == [gen |-> gen, len |-> len]
Handles == [gen : Nat \ {0}, len : Nat]
NoHandle == Handle(0, 0)

(* A snapshot file holds the archive of one version, or nothing that can be *)
(* read: version 0, an empty file or bytes of two archives.                 *)
Truncated == [version |-> 0, len |-> 0]
Complete(k) == snapshot[k].version # 0

(* std::fs::File opened for writing at offset 0 by another thread too: the  *)
(* bytes written cover what is there, as far as they reach.                 *)
Written(file, v) ==
  IF file.len <= Length[v] THEN [version |-> v, len |-> Length[v]]
                           ELSE [version |-> 0, len |-> file.len]

Thread(pc, p) ==
  [pc |-> pc, key |-> KeyOf(p, 0), version |-> 0, handle |-> NoHandle,
   closed |-> FALSE]

NoThread == [pc |-> "none"]

Ended == {"none", "replied", "refused"}
Live(t) == thread[t].pc \notin Ended
At(t, pc) == thread[t].pc = pc

-----------------------------------------------------------------------------
(* Steps of handle_connection.                                              *)

Goto(t, pc) == thread' = [thread EXCEPT ![t].pc = pc]

(* The answer is written to the stream; nobody reads it once the client has *)
(* closed its end.                                                          *)
Answer(t, pc, k, h) ==
  thread' = [thread EXCEPT ![t] =
              IF @.closed THEN NoThread
              ELSE [@ EXCEPT !.pc = pc, !.key = k, !.handle = h]]

Reply(t, k, h) == Answer(t, "replied", k, h)
Refuse(t) == Answer(t, "refused", thread[t].key, NoHandle)

(* The first steps of process_ensure_request: the stamp, taken from the     *)
(* file; then the look-up, under the lock.                                  *)
FingerprintDataset(t) ==
  /\ At(t, "fingerprint")
  /\ LET p == thread[t].key.path
     IN  thread' = [thread EXCEPT ![t].pc = "lookup",
                                  ![t].key = KeyOf(p, dataset[p].stamp)]
  /\ UNCHANGED <<envVars, storeVars, fileVars>>

LookupByKey(t) ==
  /\ At(t, "lookup")
  /\ LET k == thread[t].key
     IN  IF k \in DOMAIN entries THEN Reply(t, k, entries[k])
                                 ELSE Goto(t, "check")
  /\ UNCHANGED <<envVars, storeVars, fileVars>>

(* snapshot_path.exists() and read_snapshot_metadata.  A file never goes    *)
(* away, so that the first holds when the second is reached.                *)
CheckSnapshot(t) ==
  /\ At(t, "check")
  /\ LET k == thread[t].key
     IN  \/ k \notin DOMAIN snapshot /\ Goto(t, "load")
         \/ /\ k \in DOMAIN snapshot /\ k \notin DOMAIN metadata
            /\ Goto(t, "restore")
         \/ /\ k \in DOMAIN snapshot /\ k \in DOMAIN metadata
            /\ IF metadata[k] = "whole" THEN Goto(t, "handle") ELSE Refuse(t)
  /\ UNCHANGED <<envVars, storeVars, fileVars>>

(* Mutant: the snapshot is not read.                                        *)
RestoreUnread(t) ==
  /\ At(t, "restore")
  /\ Goto(t, "metacreate")
  /\ UNCHANGED <<envVars, storeVars, fileVars>>

(* load_market_data_snapshot, for the counts in the metadata.               *)
RestoreSnapshot(t) ==
  /\ At(t, "restore")
  /\ IF Complete(thread[t].key) THEN Goto(t, "metacreate") ELSE Refuse(t)
  /\ UNCHANGED <<envVars, storeVars, fileVars>>

(* DataLoader::load_parquet: what the dataset is now, not when the stamp    *)
(* was taken.                                                               *)
LoadParquet(t) ==
  /\ At(t, "load")
  /\ thread' = [thread EXCEPT ![t].pc = "create",
                  ![t].version = dataset[thread[t].key.path].version]
  /\ UNCHANGED <<envVars, storeVars, fileVars>>

With(f, k, x) == [j \in DOMAIN f \cup {k} |-> IF j = k THEN x ELSE f[j]]

WriteTo(k, file) == snapshot' = With(snapshot, k, file)
WriteMetadataTo(k, state) == metadata' = With(metadata, k, state)

(* write_market_data_snapshot: File::create truncates, write_all writes.    *)
CreateSnapshot(t) ==
  /\ At(t, "create")
  /\ WriteTo(thread[t].key, Truncated)
  /\ Goto(t, "write")
  /\ UNCHANGED <<envVars, storeVars, metadata>>

(* Mutant: the bytes stay in a buffer.                                      *)
WriteUnflushed(t) ==
  /\ At(t, "write")
  /\ Goto(t, "handle")
  /\ UNCHANGED <<envVars, storeVars, fileVars>>

WriteSnapshot(t) ==
  /\ At(t, "write")
  /\ LET k == thread[t].key
     IN  WriteTo(k, Written(snapshot[k], thread[t].version))
  /\ Goto(t, "handle")
  /\ UNCHANGED <<envVars, storeVars, metadata>>

(* Whether this thread made the snapshot, or found it.                      *)
Cold(t) == thread[t].version # 0

(* reserve_generation, then build_shared_snapshot_handle on the file as it  *)
(* is.  The metadata of a snapshot that was found is already written.       *)
BuildHandle(t) ==
  /\ At(t, "handle")
  /\ thread' = [thread EXCEPT
                 ![t].pc = IF Cold(t) THEN "metacreate" ELSE "insert",
                 ![t].handle = Handle(next_generation,
                                      snapshot[thread[t].key].len)]
  /\ next_generation' = next_generation + 1
  /\ UNCHANGED <<envVars, entries, fileVars>>

(* write_snapshot_metadata: std::fs::write creates, then writes.            *)
CreateMetadata(t) ==
  /\ At(t, "metacreate")
  /\ WriteMetadataTo(thread[t].key, "torn")
  /\ Goto(t, "metawrite")
  /\ UNCHANGED <<envVars, storeVars, snapshot>>

(* Mutant: the file stays empty.                                            *)
WriteNoMetadata(t) ==
  /\ At(t, "metawrite")
  /\ Goto(t, IF Cold(t) THEN "insert" ELSE "handle")
  /\ UNCHANGED <<envVars, storeVars, fileVars>>

WriteMetadata(t) ==
  /\ At(t, "metawrite")
  /\ WriteMetadataTo(thread[t].key, "whole")
  /\ Goto(t, IF Cold(t) THEN "insert" ELSE "handle")
  /\ UNCHANGED <<envVars, storeVars, snapshot>>

(* Mutant: the last thread wins.                                            *)
InsertOver(t) ==
  /\ At(t, "insert")
  /\ LET k == thread[t].key
     IN  /\ Reply(t, k, thread[t].handle)
         /\ entries' = With(entries, k, thread[t].handle)
  /\ UNCHANGED <<envVars, next_generation, fileVars>>

(* insert_prepared_entry, under the lock: an entry that is there stays.     *)
InsertPreparedEntry(t) ==
  /\ At(t, "insert")
  /\ LET k == thread[t].key
     IN  IF k \in DOMAIN entries
         THEN Reply(t, k, entries[k]) /\ UNCHANGED entries
         ELSE /\ Reply(t, k, thread[t].handle)
              /\ entries' = With(entries, k, thread[t].handle)
  /\ UNCHANGED <<envVars, next_generation, fileVars>>

(* EVICT: every entry of the path goes, the files stay.                     *)
EntriesOf(p) == {k \in DOMAIN entries : k.path = p}

Evict(t) ==
  /\ At(t, "evict")
  /\ entries' = Restrict(entries,
                         DOMAIN entries \ EntriesOf(thread[t].key.path))
  /\ Reply(t, thread[t].key, NoHandle)
  /\ UNCHANGED <<envVars, next_generation, fileVars>>

(* STATUS lists the entries by key, and resolve_cached_entry_for_query      *)
(* takes the first one of its path.  Keys are ordered as strings, size      *)
(* before mtime: any of them may be the first.                              *)
Status(t) ==
  /\ At(t, "status")
  /\ LET candidates == EntriesOf(thread[t].key.path)
     IN  IF candidates = {} THEN Refuse(t)
         ELSE \E k \in candidates : Reply(t, k, entries[k])
  /\ UNCHANGED <<envVars, storeVars, fileVars>>

EnsureStep(t) ==
  \/ FingerprintDataset(t) \/ LookupByKey(t) \/ CheckSnapshot(t)
  \/ RestoreSnapshot(t) \/ LoadParquet(t) \/ CreateSnapshot(t)
  \/ WriteSnapshot(t) \/ BuildHandle(t) \/ CreateMetadata(t)
  \/ WriteMetadata(t) \/ InsertPreparedEntry(t)

ThreadStep(t) == EnsureStep(t) \/ Evict(t) \/ Status(t)

-----------------------------------------------------------------------------
(* What happens to the server and to the datasets.                          *)

(* The process is killed: its memory and its threads are gone, files and    *)
(* answers already sent are not.                                            *)
Crash ==
  /\ up /\ crashes < MaxCrashes
  /\ up' = FALSE
  /\ crashes' = crashes + 1
  /\ entries' = << >>
  /\ next_generation' = 1
  /\ thread' = [t \in Connections |-> IF Live(t) THEN NoThread ELSE thread[t]]
  /\ UNCHANGED <<dataset, fileVars>>

Restart ==
  /\ ~up
  /\ up' = TRUE
  /\ UNCHANGED <<dataset, crashes, storeVars, thread, fileVars>>

(* Somebody replaces the Parquet file.                                      *)
RewriteDataset(p) ==
  LET v == dataset[p].version + 1
  IN  /\ v <= MaxVersion
      /\ \E s \in IF FineStamps THEN {v} ELSE {dataset[p].stamp, v} :
           dataset' = [dataset EXCEPT ![p] = [version |-> v, stamp |-> s]]
      /\ UNCHANGED <<up, crashes, storeVars, thread, fileVars>>

ServerInit ==
  /\ dataset = [p \in Paths |-> [version |-> 1, stamp |-> 1]]
  /\ up = TRUE
  /\ crashes = 0
  /\ entries = << >>
  /\ next_generation = 1
  /\ thread = [t \in Connections |-> NoThread]
  /\ snapshot = << >>
  /\ metadata = << >>
=============================================================================
