----------------------------- MODULE CacheProofs -----------------------------
(***************************************************************************)
(* What holds of the cache for every number of clients, retries, rewrites  *)
(* and crashes: types, and the refinement of CacheRegistry.                *)
(***************************************************************************)
EXTENDS CacheRefinement, TLAPS

ThreadPcs ==
  {"fingerprint", "lookup", "check", "restore", "load", "create", "write",
   "handle", "metacreate", "metawrite", "insert", "evict", "status",
   "replied", "refused"}

ThreadsOK == thread \in [Connections -> ThreadRecords \cup {NoThread}]

(* A thread at one of these steps has found or created its snapshot.        *)
FilePcs == {"restore", "write", "handle", "metacreate", "metawrite", "insert"}

(* What a thread has at each of its steps.                                  *)
OnItsWay(t) ==
  /\ thread[t].pc \in FilePcs => thread[t].key \in DOMAIN snapshot
  /\ thread[t].pc \in {"fingerprint", "lookup", "check", "restore"}
       => thread[t].version = 0
  /\ thread[t].pc \in {"create", "write"} => thread[t].version # 0
  /\ Holds(t) => thread[t].handle \in Handles

FilesThere ==
  /\ DOMAIN entries \subseteq DOMAIN snapshot
  /\ \A c \in Clients :
       client[c].pc \in {"validate", "map", "load"}
         => client[c].key \in DOMAIN snapshot

(* An answer that is not that of an EVICT names a file.                     *)
Answered(c) ==
  client[c].pc = "wait" /\ client[c].command # "evict" =>
    /\ thread[Conn(c)].pc # "evict"
    /\ thread[Conn(c)].pc = "replied"
         => thread[Conn(c)].key \in DOMAIN snapshot

(* How many requests a client can have sent by the time of a command.       *)
Turn == [none |-> 0, ensure |-> 0, status |-> 0, evict |-> 1, again |-> 2]

Counted(c) ==
  /\ client[c].sends <= Turn[client[c].command] * (Retries + 1)
                          + client[c].attempt
  /\ client[c].pc = "send" =>
       client[c].attempt <= Retries /\ client[c].command # "none"
  /\ client[c].pc = "wait" =>
       client[c].sends >= 1 /\ client[c].command # "none"
  /\ client[c].pc = "idle" => client[c].sends = 0 /\ client[c].attempt = 0

TypeInv ==
  /\ CacheTypeOK /\ FilesThere
  /\ \A t \in Connections : OnItsWay(t)
  /\ \A c \in Clients : Answered(c) /\ Counted(c)

-----------------------------------------------------------------------------
(* What one step does to the thread it is a step of.                        *)

LEMMA StartedThread ==
  ASSUME ThreadsOK, NEW t \in Connections, thread[t].pc # "none"
  PROVE  thread[t] \in ThreadRecords
  BY DEF ThreadsOK, NoThread

LEMMA GotoEffect ==
  ASSUME ThreadsOK, NEW t \in Connections, thread[t].pc # "none",
         NEW pc \in ThreadPcs, Goto(t, pc)
  PROVE  /\ ThreadsOK'
         /\ \A u \in Connections \ {t} : thread'[u] = thread[u]
         /\ thread'[t].pc = pc
         /\ thread'[t].key = thread[t].key
         /\ thread'[t].version = thread[t].version
         /\ thread'[t].handle = thread[t].handle
<1>1. thread[t] \in ThreadRecords
  BY StartedThread
<1>2. thread' = [thread EXCEPT ![t] = [thread[t] EXCEPT !.pc = pc]]
  BY DEF Goto
<1>3. [thread[t] EXCEPT !.pc = pc] \in ThreadRecords
  BY <1>1 DEF ThreadRecords, ThreadPcs
<1>. QED
  BY <1>1, <1>2, <1>3 DEF ThreadsOK, ThreadRecords

LEMMA AnswerEffect ==
  ASSUME ThreadsOK, NEW t \in Connections, thread[t].pc # "none",
         NEW pc \in {"replied", "refused"}, NEW k \in Keys,
         NEW h \in Handles \cup {NoHandle}, Answer(t, pc, k, h)
  PROVE  /\ ThreadsOK'
         /\ \A u \in Connections \ {t} : thread'[u] = thread[u]
         /\ \/ thread'[t] = NoThread
            \/ /\ thread'[t].pc = pc /\ thread'[t].key = k
               /\ thread'[t].handle = h
<1>1. thread[t] \in ThreadRecords
  BY StartedThread
<1>. DEFINE r == [thread[t] EXCEPT !.pc = pc, !.key = k, !.handle = h]
<1>2. r \in ThreadRecords /\ r.pc = pc /\ r.key = k /\ r.handle = h
  BY <1>1 DEF ThreadRecords
<1>3. thread' = [thread EXCEPT ![t] = IF thread[t].closed THEN NoThread ELSE r]
  BY DEF Answer
<1>. HIDE DEF r
<1>. QED
  BY <1>2, <1>3 DEF ThreadsOK

LEMMA ConnInConnections ==
  ASSUME CacheTypeOK, NEW c \in Clients, Counted(c), client[c].pc = "wait"
  PROVE  Conn(c) \in Connections
<1>1. client[c].sends \in 1 .. MaxRequests
  BY DEF CacheTypeOK, Counted, ClientRecords
<1>. QED
  BY <1>1, ClientAssumption DEF Conn

(* A step of one thread, which the clients do not see.                      *)
LEMMA OneThreadMoves ==
  ASSUME TypeInv, NEW t \in Connections, UNCHANGED client,
         \A u \in Connections \ {t} : thread'[u] = thread[u],
         DOMAIN entries' \subseteq DOMAIN snapshot',
         DOMAIN snapshot \subseteq DOMAIN snapshot',
         OnItsWay(t)',
         thread'[t].pc # "evict",
         thread'[t].pc = "replied" /\ thread[t].pc # "evict"
           => thread'[t].key \in DOMAIN snapshot'
  PROVE  /\ FilesThere'
         /\ \A u \in Connections : OnItsWay(u)'
         /\ \A c \in Clients : Answered(c)' /\ Counted(c)'
<1>1. FilesThere'
  BY DEF TypeInv, FilesThere
<1>4. ASSUME NEW u \in Connections PROVE OnItsWay(u)'
  <2>1. CASE u # t
    BY <2>1 DEF TypeInv, OnItsWay, Holds, Cold, At
  <2>. QED
    BY <2>1
<1>2. ASSUME NEW c \in Clients PROVE Answered(c)'
  <2>. SUFFICES ASSUME client[c].pc = "wait", client[c].command # "evict"
                PROVE  /\ thread'[Conn(c)].pc # "evict"
                       /\ thread'[Conn(c)].pc = "replied"
                            => thread'[Conn(c)].key \in DOMAIN snapshot'
    BY DEF Answered, Conn
  <2>1. Conn(c) \in Connections
    BY ConnInConnections DEF TypeInv
  <2>2. /\ thread[Conn(c)].pc # "evict"
        /\ thread[Conn(c)].pc = "replied"
             => thread[Conn(c)].key \in DOMAIN snapshot
    BY DEF TypeInv, Answered
  <2>. QED
    BY <2>1, <2>2
<1>3. ASSUME NEW c \in Clients PROVE Counted(c)'
  BY DEF TypeInv, Counted
<1>. QED
  BY <1>1, <1>2, <1>3, <1>4

LEMMA KeyFacts ==
  ASSUME CacheTypeOK, NEW p \in Paths
  PROVE  /\ KeyOf(p, 0) \in Keys
         /\ KeyOf(p, dataset[p].stamp) \in Keys
         /\ dataset[p].version \in Versions /\ dataset[p].stamp \in Versions
  BY CacheAssumption DEF CacheTypeOK, KeyOf, Keys, Versions

LEMMA HandleFacts ==
  /\ NoHandle \in Handles \cup {NoHandle}
  /\ NoHandle \notin Handles
  BY DEF NoHandle, Handles, Handle

LEMMA WithFacts ==
  ASSUME NEW f, NEW k, NEW x
  PROVE  /\ DOMAIN With(f, k, x) = DOMAIN f \cup {k}
         /\ With(f, k, x)[k] = x
         /\ \A j \in DOMAIN f \ {k} : With(f, k, x)[j] = f[j]
  BY DEF With

(* Steps that touch no file and no entry.                                   *)
LEMMA LookupStepType ==
  ASSUME TypeInv, NEW t \in Connections, UNCHANGED client,
         \/ FingerprintDataset(t) \/ LookupByKey(t) \/ CheckSnapshot(t)
         \/ RestoreSnapshot(t) \/ LoadParquet(t)
  PROVE  TypeInv'
<1>. USE DEF At
<1>0. /\ CacheTypeOK /\ ThreadsOK /\ thread[t].pc # "none"
      /\ UNCHANGED <<envVars, storeVars, fileVars>>
  BY DEF TypeInv, CacheTypeOK, ThreadsOK, FingerprintDataset, LookupByKey,
         CheckSnapshot, RestoreSnapshot, LoadParquet
<1>1. thread[t] \in ThreadRecords
  BY <1>0, StartedThread
<1>2. thread[t].key \in Keys /\ thread[t].key.path \in Paths
  BY <1>1 DEF ThreadRecords, Keys
<1>5. OnItsWay(t) /\ UNCHANGED snapshot
  BY <1>0 DEF TypeInv, fileVars
<1>3. /\ ThreadsOK'
      /\ \A u \in Connections \ {t} : thread'[u] = thread[u]
      /\ OnItsWay(t)'
      /\ thread'[t].pc # "evict"
      /\ thread'[t].pc = "replied" => thread'[t].key \in DOMAIN snapshot
  <2>1. CASE FingerprintDataset(t)
    <3>. DEFINE k == KeyOf(thread[t].key.path,
                           dataset[thread[t].key.path].stamp)
                r == [thread[t] EXCEPT !.pc = "lookup", !.key = k]
    <3>1. k \in Keys
      BY <1>0, <1>2, KeyFacts
    <3>2. thread' = [thread EXCEPT ![t] = r]
      BY <2>1 DEF FingerprintDataset
    <3>. HIDE DEF k
    <3>3. r \in ThreadRecords /\ r.pc = "lookup" /\ r.version = 0
      BY <1>1, <1>5, <2>1, <3>1
         DEF ThreadRecords, OnItsWay, FingerprintDataset
    <3>. HIDE DEF r
    <3>. QED
      BY <1>0, <3>2, <3>3 DEF ThreadsOK, OnItsWay, FilePcs, Holds
  <2>2. CASE LookupByKey(t)
    <3>1. CASE thread[t].key \in DOMAIN entries
      <4>1. entries[thread[t].key] \in Handles \cup {NoHandle}
        BY <1>0, <3>1 DEF CacheTypeOK
      <4>2. Answer(t, "replied", thread[t].key, entries[thread[t].key])
        BY <2>2, <3>1 DEF LookupByKey, Reply
      <4>3. thread[t].key \in DOMAIN snapshot
        BY <3>1 DEF TypeInv, FilesThere
      <4>. QED
        BY <1>0, <1>2, <4>1, <4>2, <4>3, AnswerEffect
         DEF NoThread, OnItsWay, FilePcs, Holds
    <3>2. CASE thread[t].key \notin DOMAIN entries
      <4>1. Goto(t, "check")
        BY <2>2, <3>2 DEF LookupByKey
      <4>. QED
        BY <1>0, <1>5, <2>2, <4>1, GotoEffect
           DEF LookupByKey, ThreadPcs, OnItsWay, FilePcs, Holds
    <3>. QED
      BY <3>1, <3>2
  <2>3. CASE CheckSnapshot(t)
    <3>1. CASE Goto(t, "load")
      BY <1>0, <3>1, GotoEffect
         DEF ThreadPcs, OnItsWay, FilePcs, Holds
    <3>2. CASE /\ thread[t].key \in DOMAIN snapshot
               /\ Goto(t, "restore") \/ Goto(t, "handle")
      BY <1>0, <1>5, <2>3, <3>2, GotoEffect
         DEF CheckSnapshot, ThreadPcs, OnItsWay, FilePcs, Holds
    <3>3. CASE Answer(t, "refused", thread[t].key, NoHandle)
      BY <1>0, <1>2, <3>3, HandleFacts, AnswerEffect
         DEF NoThread, OnItsWay, FilePcs, Holds
    <3>. QED
      BY <2>3, <3>1, <3>2, <3>3 DEF CheckSnapshot, Refuse
  <2>4. CASE RestoreSnapshot(t)
    <3>1. thread[t].key \in DOMAIN snapshot
      BY <2>4 DEF TypeInv, OnItsWay, RestoreSnapshot, FilePcs
    <3>2. CASE Goto(t, "metacreate")
      BY <1>0, <1>5, <2>4, <3>1, <3>2, GotoEffect
         DEF RestoreSnapshot, ThreadPcs, OnItsWay, FilePcs, Holds, Cold
    <3>3. CASE Answer(t, "refused", thread[t].key, NoHandle)
      BY <1>0, <1>2, <3>3, HandleFacts, AnswerEffect
         DEF NoThread, OnItsWay, FilePcs, Holds
    <3>. QED
      BY <2>4, <3>2, <3>3 DEF RestoreSnapshot, Refuse
  <2>5. CASE LoadParquet(t)
    <3>. DEFINE v == dataset[thread[t].key.path].version
                r == [thread[t] EXCEPT !.pc = "create", !.version = v]
    <3>1. v \in 0 .. MaxVersion /\ v # 0
      BY <1>0, <1>2, KeyFacts, CacheAssumption DEF Versions
    <3>2. thread' = [thread EXCEPT ![t] = r]
      BY <2>5 DEF LoadParquet
    <3>. HIDE DEF v
    <3>3. r \in ThreadRecords /\ r.pc = "create" /\ r.version # 0
      BY <1>1, <3>1 DEF ThreadRecords
    <3>. HIDE DEF r
    <3>. QED
      BY <1>0, <3>2, <3>3 DEF ThreadsOK, OnItsWay, FilePcs, Holds
  <2>. QED
    BY <2>1, <2>2, <2>3, <2>4, <2>5
<1>4. CacheTypeOK'
  BY <1>0, <1>3 DEF CacheTypeOK, ThreadsOK, envVars, storeVars, fileVars
<1>6. DOMAIN entries' \subseteq DOMAIN snapshot'
  BY <1>0 DEF TypeInv, FilesThere, storeVars, fileVars
<1>. QED
  BY <1>0, <1>3, <1>4, <1>5, <1>6, OneThreadMoves DEF TypeInv, fileVars

LEMMA WrittenType ==
  ASSUME NEW file \in Files, NEW v \in Versions
  PROVE  Written(file, v) \in Files
  BY CacheAssumption DEF Written, Files, Versions

(* Steps that write the files of a key.                                     *)
LEMMA FileStepType ==
  ASSUME TypeInv, NEW t \in Connections, UNCHANGED client,
         \/ CreateSnapshot(t) \/ WriteSnapshot(t)
         \/ CreateMetadata(t) \/ WriteMetadata(t)
  PROVE  TypeInv'
<1>. USE DEF At
<1>0. /\ CacheTypeOK /\ ThreadsOK /\ thread[t].pc # "none"
      /\ UNCHANGED <<envVars, storeVars>>
  BY DEF TypeInv, CacheTypeOK, ThreadsOK, CreateSnapshot, WriteSnapshot,
         CreateMetadata, WriteMetadata
<1>1. thread[t] \in ThreadRecords
  BY <1>0, StartedThread
<1>2. thread[t].key \in Keys
  BY <1>1 DEF ThreadRecords
<1>3. PICK pc \in {"write", "handle", "metawrite", "insert"} :
        /\ Goto(t, pc)
        /\ pc = "write" => thread[t].pc = "create"
        /\ pc = "metawrite" => thread[t].pc = "metacreate"
        /\ pc = "insert" => thread[t].pc = "metawrite" /\ Cold(t)
  BY DEF CreateSnapshot, WriteSnapshot, CreateMetadata, WriteMetadata
<1>4. /\ ThreadsOK'
      /\ \A u \in Connections \ {t} : thread'[u] = thread[u]
      /\ thread'[t].pc = pc /\ thread'[t].key = thread[t].key
      /\ thread'[t].version = thread[t].version
      /\ thread'[t].handle = thread[t].handle
  BY <1>0, <1>3, GotoEffect DEF ThreadPcs
<1>5. \/ /\ UNCHANGED metadata
         /\ \E file \in Files : WriteTo(thread[t].key, file)
      \/ /\ UNCHANGED snapshot /\ thread[t].key \in DOMAIN snapshot
         /\ \E s \in {"torn", "whole"} : WriteMetadataTo(thread[t].key, s)
  <2>1. CASE CreateSnapshot(t)
    <3>1. Truncated \in Files
      BY CacheAssumption DEF Truncated, Files
    <3>. QED
      BY <2>1, <3>1 DEF CreateSnapshot
  <2>2. CASE WriteSnapshot(t)
    <3>1. thread[t].key \in DOMAIN snapshot
      BY <2>2 DEF TypeInv, OnItsWay, Holds, WriteSnapshot, FilePcs
    <3>. DEFINE v == thread[t].version
                k == thread[t].key
    <3>2. CASE v \in Versions
      <4>1. Written(snapshot[k], v) \in Files
        BY <1>0, <3>1, <3>2, WrittenType DEF CacheTypeOK
      <4>. QED
        BY <2>2, <4>1 DEF WriteSnapshot
    <3>3. v \in Versions
      BY <1>1, <2>2
         DEF TypeInv, OnItsWay, WriteSnapshot, ThreadRecords, Versions
    <3>. QED
      BY <3>2, <3>3
  <2>3. CASE CreateMetadata(t) \/ WriteMetadata(t)
    <3>1. thread[t].key \in DOMAIN snapshot
      BY <2>3 DEF TypeInv, OnItsWay, CreateMetadata, WriteMetadata, FilePcs
    <3>. QED
      BY <2>3, <3>1 DEF CreateMetadata, WriteMetadata
  <2>. QED
    BY <2>1, <2>2, <2>3
<1>6. /\ DOMAIN snapshot' \subseteq Keys
      /\ \A k \in DOMAIN snapshot' : snapshot'[k] \in Files
      /\ DOMAIN metadata' \subseteq DOMAIN snapshot'
      /\ \A k \in DOMAIN metadata' : metadata'[k] \in {"torn", "whole"}
      /\ DOMAIN snapshot \subseteq DOMAIN snapshot'
      /\ thread[t].key \in DOMAIN snapshot'
  <2>1. CASE /\ UNCHANGED metadata
             /\ \E file \in Files : WriteTo(thread[t].key, file)
    <3>1. PICK file \in Files : snapshot' = With(snapshot, thread[t].key, file)
      BY <2>1 DEF WriteTo
    <3>. QED
      BY <1>0, <1>2, <2>1, <3>1 DEF CacheTypeOK, With
  <2>2. CASE /\ UNCHANGED snapshot /\ thread[t].key \in DOMAIN snapshot
             /\ \E s \in {"torn", "whole"} : WriteMetadataTo(thread[t].key, s)
    <3>1. PICK s \in {"torn", "whole"} :
            metadata' = With(metadata, thread[t].key, s)
      BY <2>2 DEF WriteMetadataTo
    <3>. QED
      BY <1>0, <1>2, <2>2, <3>1 DEF CacheTypeOK, With
  <2>. QED
    BY <1>5, <2>1, <2>2
<1>7. CacheTypeOK'
  BY <1>0, <1>4, <1>6 DEF CacheTypeOK, ThreadsOK, envVars, storeVars
<1>8. DOMAIN entries' \subseteq DOMAIN snapshot'
  BY <1>0, <1>6 DEF TypeInv, FilesThere, storeVars
<1>9. OnItsWay(t)'
  BY <1>3, <1>4, <1>6 DEF TypeInv, OnItsWay, FilePcs, Holds, Cold
<1>. QED
  BY <1>4, <1>6, <1>7, <1>8, <1>9, OneThreadMoves DEF TypeInv

(* Steps on the store.                                                      *)
LEMMA StoreStepType ==
  ASSUME TypeInv, NEW t \in Connections, UNCHANGED client,
         \/ BuildHandle(t) \/ InsertPreparedEntry(t)
         \/ Evict(t) \/ Status(t)
  PROVE  TypeInv'
<1>. USE DEF At
<1>0. /\ CacheTypeOK /\ ThreadsOK /\ thread[t].pc # "none"
      /\ UNCHANGED <<envVars, fileVars>>
  BY DEF TypeInv, CacheTypeOK, ThreadsOK, BuildHandle, InsertPreparedEntry,
         Evict, Status
<1>1. thread[t] \in ThreadRecords
  BY <1>0, StartedThread
<1>2. thread[t].key \in Keys
  BY <1>1 DEF ThreadRecords
<1>3. /\ ThreadsOK'
      /\ \A u \in Connections \ {t} : thread'[u] = thread[u]
      /\ OnItsWay(t)'
      /\ thread'[t].pc # "evict"
      /\ thread'[t].pc = "replied" /\ thread[t].pc # "evict"
           => thread'[t].key \in DOMAIN snapshot
      /\ next_generation' \in Nat \ {0}
      /\ DOMAIN entries' \subseteq DOMAIN snapshot
      /\ \A k \in DOMAIN entries' : entries'[k] \in Handles
  <2>1. CASE BuildHandle(t)
    <3>1. thread[t].key \in DOMAIN snapshot
      BY <2>1 DEF TypeInv, OnItsWay, Holds, BuildHandle, FilePcs
    <3>. DEFINE h == Handle(next_generation, snapshot[thread[t].key].len)
                pc == IF Cold(t) THEN "metacreate" ELSE "insert"
                r == [thread[t] EXCEPT !.pc = pc, !.handle = h]
    <3>2. h \in Handles
      BY <1>0, <3>1 DEF CacheTypeOK, Handles, Handle, Files
    <3>3. thread' = [thread EXCEPT ![t] = r]
      BY <2>1 DEF BuildHandle
    <3>4. pc \in {"metacreate", "insert"}
      OBVIOUS
    <3>. HIDE DEF h, pc
    <3>5. r \in ThreadRecords /\ r.pc = pc /\ r.key = thread[t].key
         /\ r.handle = h
      BY <1>1, <3>2, <3>4 DEF ThreadRecords
    <3>. HIDE DEF r
    <3>6. next_generation' \in Nat \ {0} /\ UNCHANGED entries
      BY <1>0, <2>1 DEF CacheTypeOK, BuildHandle
    <3>. QED
      BY <1>0, <3>1, <3>2, <3>3, <3>4, <3>5, <3>6
         DEF ThreadsOK, CacheTypeOK, TypeInv, FilesThere, OnItsWay, fileVars
  <2>2. CASE InsertPreparedEntry(t)
    <3>. DEFINE k == thread[t].key
    <3>1. k \in DOMAIN snapshot /\ thread[t].handle \in Handles
      BY <2>2 DEF TypeInv, OnItsWay, Holds, InsertPreparedEntry, FilePcs
    <3>2. CASE k \in DOMAIN entries
      <4>1. Answer(t, "replied", k, entries[k]) /\ UNCHANGED storeVars
        BY <2>2, <3>2 DEF InsertPreparedEntry, Reply, storeVars
      <4>2. entries[k] \in Handles
        BY <1>0, <3>2 DEF CacheTypeOK
      <4>. QED
        BY <1>0, <1>2, <3>1, <4>1, <4>2, AnswerEffect
           DEF NoThread, OnItsWay, FilePcs, Holds, CacheTypeOK, TypeInv, FilesThere, storeVars
    <3>3. CASE k \notin DOMAIN entries
      <4>1. /\ Answer(t, "replied", k, thread[t].handle)
            /\ entries' = With(entries, k, thread[t].handle)
            /\ UNCHANGED next_generation
        BY <2>2, <3>3 DEF InsertPreparedEntry, Reply
      <4>2. /\ DOMAIN entries' \subseteq DOMAIN snapshot
            /\ \A j \in DOMAIN entries' : entries'[j] \in Handles
        BY <1>0, <3>1, <4>1 DEF CacheTypeOK, TypeInv, FilesThere, With
      <4>. QED
        BY <1>0, <1>2, <3>1, <4>1, <4>2, AnswerEffect
           DEF NoThread, OnItsWay, FilePcs, Holds, CacheTypeOK
    <3>. QED
      BY <3>2, <3>3
  <2>3. CASE Evict(t)
    <3>1. Answer(t, "replied", thread[t].key, NoHandle)
      BY <2>3 DEF Evict, Reply
    <3>2. /\ DOMAIN entries' \subseteq DOMAIN snapshot
          /\ \A j \in DOMAIN entries' : entries'[j] \in Handles
      BY <1>0, <2>3 DEF Evict, Restrict, CacheTypeOK, TypeInv, FilesThere
    <3>3. UNCHANGED next_generation /\ thread[t].pc = "evict"
      BY <2>3 DEF Evict
    <3>. QED
      BY <1>0, <1>2, <3>1, <3>2, <3>3, HandleFacts, AnswerEffect
         DEF NoThread, OnItsWay, FilePcs, Holds, CacheTypeOK
  <2>4. CASE Status(t)
    <3>1. UNCHANGED storeVars
      BY <2>4 DEF Status
    <3>2. CASE Answer(t, "refused", thread[t].key, NoHandle)
      BY <1>0, <1>2, <3>1, <3>2, HandleFacts, AnswerEffect
         DEF NoThread, OnItsWay, FilePcs, Holds, CacheTypeOK, TypeInv, FilesThere, storeVars
    <3>3. CASE \E k \in DOMAIN entries : Answer(t, "replied", k, entries[k])
      <4>1. PICK k \in DOMAIN entries : Answer(t, "replied", k, entries[k])
        BY <3>3
      <4>2. k \in Keys /\ entries[k] \in Handles /\ k \in DOMAIN snapshot
        BY <1>0 DEF CacheTypeOK, TypeInv, FilesThere
      <4>. QED
        BY <1>0, <3>1, <4>1, <4>2, AnswerEffect
           DEF NoThread, OnItsWay, FilePcs, Holds, CacheTypeOK, TypeInv, FilesThere, storeVars
    <3>. QED
      BY <2>4, <3>2, <3>3 DEF Status, Reply, Refuse, EntriesOf
  <2>. QED
    BY <2>1, <2>2, <2>3, <2>4
<1>4. CacheTypeOK'
  BY <1>0, <1>3 DEF CacheTypeOK, ThreadsOK, envVars, fileVars
<1>. QED
  BY <1>0, <1>3, <1>4, OneThreadMoves DEF TypeInv, fileVars

LEMMA EmptyDomain == DOMAIN << >> = {}
  BY SMT

(* Steps of the environment.                                                *)
LEMMA EnvironmentStepType ==
  ASSUME TypeInv, UNCHANGED client,
         Crash \/ Restart \/ \E p \in Paths : RewriteDataset(p)
  PROVE  TypeInv'
<1>1. CASE Crash
  <2>1. /\ thread' \in [Connections -> ThreadRecords \cup {NoThread}]
        /\ \A t \in Connections :
             \/ thread'[t] = NoThread
             \/ thread'[t] = thread[t] /\ thread[t].pc \in Ended
    BY <1>1 DEF Crash, Live, TypeInv, CacheTypeOK
  <2>5. entries' = << >> /\ next_generation' = 1
    BY <1>1 DEF Crash
  <2>6. DOMAIN entries' = {} /\ next_generation' \in Nat \ {0}
    BY <2>5, EmptyDomain
  <2>7. crashes' \in 0 .. MaxCrashes /\ up' \in BOOLEAN
    <3>1. crashes < MaxCrashes /\ crashes' = crashes + 1 /\ up' = FALSE
      BY <1>1 DEF Crash
    <3>2. crashes \in 0 .. MaxCrashes
      BY DEF TypeInv, CacheTypeOK
    <3>3. crashes' \in 0 .. MaxCrashes
      BY <3>1, <3>2, CacheAssumption
    <3>. QED
      BY <3>1, <3>3
  <2>8. UNCHANGED <<dataset, snapshot, metadata>>
    BY <1>1 DEF Crash, fileVars
  <2>2. CacheTypeOK'
    BY <2>1, <2>6, <2>7, <2>8 DEF TypeInv, CacheTypeOK
  <2>3. FilesThere'
    BY <2>6, <2>8 DEF TypeInv, FilesThere
  <2>4. ASSUME NEW t \in Connections PROVE OnItsWay(t)'
    BY <2>1 DEF OnItsWay, FilePcs, Holds, At, NoThread, Ended
  <2>9. ASSUME NEW c \in Clients PROVE Answered(c)' /\ Counted(c)'
    <3>1. Counted(c)'
      BY DEF TypeInv, Counted
    <3>2. ASSUME client[c].pc = "wait" PROVE Conn(c) \in Connections
      BY <3>2, ConnInConnections DEF TypeInv
    <3>3. Answered(c)'
      BY <1>1, <2>1, <3>2
         DEF Crash, TypeInv, Answered, Conn, NoThread, fileVars
    <3>. QED
      BY <3>1, <3>3
  <2>. QED
    BY <2>2, <2>3, <2>4, <2>9 DEF TypeInv
<1>2. ASSUME UNCHANGED <<storeVars, thread, fileVars>>, CacheTypeOK'
      PROVE  TypeInv'
  BY <1>2 DEF TypeInv, FilesThere, OnItsWay, Holds, Cold, At, Answered, Conn,
              Counted, storeVars, fileVars
<1>3. CASE Restart
  <2>1. CacheTypeOK'
    BY <1>3 DEF Restart, TypeInv, CacheTypeOK, storeVars, fileVars
  <2>. QED
    BY <1>2, <1>3, <2>1 DEF Restart
<1>4. ASSUME NEW p \in Paths, RewriteDataset(p) PROVE TypeInv'
  <2>. DEFINE v == dataset[p].version + 1
  <2>1. dataset[p].version \in Versions /\ dataset[p].stamp \in Versions
    BY KeyFacts DEF TypeInv
  <2>2. v \in Versions
    BY <1>4, <2>1, CacheAssumption DEF RewriteDataset, Versions
  <2>3. PICK s \in Versions :
          dataset' = [dataset EXCEPT ![p] = [version |-> v, stamp |-> s]]
    BY <1>4, <2>1, <2>2 DEF RewriteDataset
  <2>. HIDE DEF v
  <2>4. CacheTypeOK'
    BY <1>4, <2>2, <2>3
       DEF RewriteDataset, TypeInv, CacheTypeOK, storeVars, fileVars
  <2>. QED
    BY <1>2, <1>4, <2>4 DEF RewriteDataset
<1>. QED
  BY <1>1, <1>3, <1>4

-----------------------------------------------------------------------------
(* What one step does to the client it is a step of.                        *)
ClientsOK == client \in [Clients -> ClientRecords]

ClientPcs == Finished \cup {"idle", "send", "wait", "validate", "map", "load"}

LEMMA FinishEffect ==
  ASSUME ClientsOK, NEW c \in Clients, NEW pc \in ClientPcs, Finish(c, pc)
  PROVE  /\ ClientsOK'
         /\ \A d \in Clients \ {c} : client'[d] = client[d]
         /\ client'[c] = [client[c] EXCEPT !.pc = pc]
<1>. DEFINE r == [client[c] EXCEPT !.pc = pc]
<1>0. client[c] \in ClientRecords
  BY DEF ClientsOK
<1>1. r \in ClientRecords
  BY <1>0 DEF ClientRecords, ClientPcs
<1>2. client' = [client EXCEPT ![c] = r]
  BY DEF Finish
<1>3. r = [client[c] EXCEPT !.pc = pc]
  OBVIOUS
<1>. HIDE DEF r
<1>. QED
  BY <1>1, <1>2, <1>3 DEF ClientsOK

LEMMA CommandEffect ==
  ASSUME ClientsOK, NEW c \in Clients, NEW command \in {"evict", "again"},
         Command(c, command)
  PROVE  /\ ClientsOK'
         /\ \A d \in Clients \ {c} : client'[d] = client[d]
         /\ client'[c] = [client[c] EXCEPT !.pc = "send", !.command = command,
                                          !.attempt = 0]
<1>. DEFINE r == [client[c] EXCEPT !.pc = "send", !.command = command,
                                   !.attempt = 0]
<1>0. client[c] \in ClientRecords /\ 0 \in 0 .. Retries + 1
  BY ClientAssumption DEF ClientsOK
<1>1. r \in ClientRecords
  BY <1>0 DEF ClientRecords
<1>2. client' = [client EXCEPT ![c] = r]
  BY DEF Command
<1>3. r = [client[c] EXCEPT !.pc = "send", !.command = command, !.attempt = 0]
  OBVIOUS
<1>. HIDE DEF r
<1>. QED
  BY <1>1, <1>2, <1>3 DEF ClientsOK

(* The numbers of a client.                                                 *)
LEMMA CountedClient ==
  ASSUME TypeInv, NEW c \in Clients
  PROVE  /\ client[c] \in ClientRecords /\ Counted(c)
         /\ client[c].sends \in Nat /\ client[c].attempt \in 0 .. Retries + 1
         /\ Retries \in Nat
         /\ client[c].command \in DOMAIN Turn
         /\ Turn[client[c].command] \in 0 .. 2
<1>1. client[c] \in ClientRecords /\ Counted(c) /\ Retries \in Nat
  BY ClientAssumption DEF TypeInv, CacheTypeOK
<1>. QED
  BY <1>1 DEF ClientRecords, Turn

(* A client is done with a command: it ends or goes on to the next.         *)
Ends(c) ==
  /\ ClientsOK'
  /\ \A d \in Clients \ {c} : client'[d] = client[d]
  /\ Counted(c)'
  /\ client'[c].pc \in Finished \cup {"send"}

LEMMA CommandCounted ==
  ASSUME TypeInv, NEW c \in Clients, NEW command \in {"evict", "again"},
         Command(c, command),
         client[c].command = IF command = "evict" THEN "ensure" ELSE "evict"
  PROVE  Ends(c)
<1>1. /\ ClientsOK'
      /\ \A d \in Clients \ {c} : client'[d] = client[d]
      /\ client'[c] = [client[c] EXCEPT !.pc = "send", !.command = command,
                                       !.attempt = 0]
  BY CommandEffect DEF TypeInv, CacheTypeOK, ClientsOK
<1>2. /\ client'[c].pc = "send" /\ client'[c].command = command
      /\ client'[c].attempt = 0 /\ client'[c].sends = client[c].sends
  BY <1>1, CountedClient DEF ClientRecords
<1>3. client'[c].sends <= Turn[client'[c].command] * (Retries + 1)
                           + client'[c].attempt
  <2>1. CASE command = "evict"
    <3>1. Turn[client[c].command] = 0 /\ Turn[client'[c].command] = 1
      BY <1>2, <2>1 DEF Turn
    <3>. QED
      BY <1>2, <3>1, CountedClient DEF Counted
  <2>2. CASE command = "again"
    <3>1. Turn[client[c].command] = 1 /\ Turn[client'[c].command] = 2
      BY <1>2, <2>2 DEF Turn
    <3>. QED
      BY <1>2, <3>1, CountedClient DEF Counted
  <2>. QED
    BY <2>1, <2>2
<1>. QED
  BY <1>1, <1>2, <1>3, CountedClient DEF Ends, Counted

LEMMA FinishCounted ==
  ASSUME TypeInv, NEW c \in Clients, NEW pc \in Finished \cup {"send"},
         Finish(c, pc),
         pc = "send" => client[c].pc = "wait" /\ client[c].attempt <= Retries
  PROVE  Ends(c)
<1>1. /\ ClientsOK'
      /\ \A d \in Clients \ {c} : client'[d] = client[d]
      /\ client'[c] = [client[c] EXCEPT !.pc = pc]
  BY FinishEffect DEF TypeInv, CacheTypeOK, ClientsOK, ClientPcs
<1>2. /\ client'[c].pc = pc /\ client'[c].command = client[c].command
      /\ client'[c].attempt = client[c].attempt
      /\ client'[c].sends = client[c].sends
  BY <1>1, CountedClient DEF ClientRecords
<1>. QED
  BY <1>1, <1>2, CountedClient DEF Ends, Counted, Finished

LEMMA CommandFailsCounted ==
  ASSUME TypeInv, NEW c \in Clients, NEW pc \in Finished, CommandFails(c, pc)
  PROVE  Ends(c)
<1>1. CASE client[c].command = "evict" /\ Command(c, "again")
  BY <1>1, CommandCounted
<1>2. CASE Finish(c, pc)
  BY <1>2, FinishCounted DEF Finished
<1>. QED
  BY <1>1, <1>2 DEF CommandFails

LEMMA TryAgainCounted ==
  ASSUME TypeInv, NEW c \in Clients, client[c].pc = "wait", TryAgain(c)
  PROVE  Ends(c)
<1>1. CASE client[c].attempt <= Retries /\ Finish(c, "send")
  BY <1>1, FinishCounted
<1>2. CASE CommandFails(c, "unreachable")
  BY <1>2, CommandFailsCounted DEF Finished
<1>. QED
  BY <1>1, <1>2 DEF TryAgain

(* A step of one client, which touches no thread but one of its own.        *)
LEMMA OneClientMoves ==
  ASSUME TypeInv, NEW c \in Clients,
         UNCHANGED <<envVars, storeVars, fileVars>>,
         ClientsOK', ThreadsOK',
         \A d \in Clients \ {c} : client'[d] = client[d],
         \A u \in Connections : OnItsWay(u)',
         \A u \in Connections : (\A n \in Nat : u # <<c, n>>)
                                   => thread'[u] = thread[u],
         Answered(c)', Counted(c)',
         client'[c].pc \in {"validate", "map", "load"}
           => client'[c].key \in DOMAIN snapshot
  PROVE  TypeInv'
<1>1. CacheTypeOK'
  BY DEF TypeInv, CacheTypeOK, ClientsOK, ThreadsOK, envVars, storeVars,
         fileVars
<1>2. FilesThere'
  BY DEF TypeInv, FilesThere, storeVars, fileVars
<1>3. ASSUME NEW d \in Clients PROVE Answered(d)' /\ Counted(d)'
  <2>1. CASE d # c
    <3>1. client'[d] = client[d] /\ Counted(d)'
      BY <2>1 DEF TypeInv, Counted
    <3>2. ASSUME client[d].pc = "wait"
          PROVE  thread'[Conn(d)] = thread[Conn(d)]
      BY <2>1, <3>2, ConnInConnections DEF TypeInv, Conn
    <3>. QED
      BY <3>1, <3>2 DEF TypeInv, Answered, Conn, fileVars
  <2>. QED
    BY <2>1
<1>. QED
  BY <1>1, <1>2, <1>3 DEF TypeInv

(* The same, when no thread moves.                                          *)
LEMMA ClientAloneMoves ==
  ASSUME TypeInv, NEW c \in Clients, UNCHANGED serverVars,
         ClientsOK',
         \A d \in Clients \ {c} : client'[d] = client[d],
         Counted(c)', client'[c].pc # "wait",
         client'[c].pc \in {"validate", "map", "load"}
           => client'[c].key \in DOMAIN snapshot
  PROVE  TypeInv'
<1>1. UNCHANGED <<envVars, storeVars, fileVars>> /\ UNCHANGED thread
  BY DEF serverVars
<1>2. ThreadsOK' /\ \A u \in Connections : OnItsWay(u)'
  BY <1>1 DEF TypeInv, CacheTypeOK, ThreadsOK, OnItsWay, Holds, Cold, At,
              fileVars
<1>3. Answered(c)'
  BY DEF Answered
<1>. QED
  BY <1>1, <1>2, <1>3, OneClientMoves

LEMMA ConsumeEffect ==
  ASSUME TypeInv, NEW c \in Clients, client[c].pc = "wait", Consume(c)
  PROVE  /\ UNCHANGED <<envVars, storeVars, fileVars>>
         /\ ThreadsOK'
         /\ \A u \in Connections : OnItsWay(u)'
         /\ \A u \in Connections : (\A n \in Nat : u # <<c, n>>)
                                     => thread'[u] = thread[u]
<1>1. /\ UNCHANGED <<envVars, storeVars, fileVars>>
      /\ thread' = [thread EXCEPT ![Conn(c)] = NoThread]
  BY DEF Consume
<1>2. Conn(c) \in Connections /\ \E n \in Nat : Conn(c) = <<c, n>>
  BY ConnInConnections, CountedClient DEF TypeInv, Conn
<1>3. ThreadsOK /\ ThreadsOK'
  BY <1>1, <1>2 DEF TypeInv, CacheTypeOK, ThreadsOK
<1>4. ASSUME NEW u \in Connections
      PROVE  thread'[u] = IF u = Conn(c) THEN NoThread ELSE thread[u]
  BY <1>1, <1>3 DEF ThreadsOK
<1>5. ASSUME NEW u \in Connections PROVE OnItsWay(u)'
  <2>1. CASE u = Conn(c)
    BY <1>4, <2>1 DEF OnItsWay, FilePcs, Holds, At, NoThread
  <2>2. CASE u # Conn(c)
    BY <1>1, <1>4, <2>2 DEF TypeInv, OnItsWay, Holds, Cold, At, fileVars
  <2>. QED
    BY <2>1, <2>2
<1>. QED
  BY <1>1, <1>2, <1>3, <1>4, <1>5

(* Requests.                                                                *)
LEMMA NextConnection ==
  ASSUME TypeInv, NEW c \in Clients, client[c].pc = "send"
  PROVE  /\ client[c].sends + 1 \in 0 .. MaxRequests
         /\ client[c].sends + 1 \in 1 .. MaxRequests
         /\ <<c, client[c].sends + 1>> \in Connections
<1>1. client[c].attempt <= Retries
  BY CountedClient DEF Counted
<1>2. Turn[client[c].command] * (Retries + 1) <= 2 * (Retries + 1)
  BY CountedClient
<1>3. /\ client[c].sends + 1 \in 0 .. MaxRequests
      /\ client[c].sends + 1 \in 1 .. MaxRequests
  BY <1>1, <1>2, CountedClient DEF Counted, MaxRequests
<1>. QED
  BY <1>3, ClientAssumption

LEMMA ConnectType ==
  ASSUME TypeInv, NEW c \in Clients, Connect(c)
  PROVE  TypeInv'
<1>. DEFINE n == client[c].sends + 1
            r == [client[c] EXCEPT !.pc = "wait", !.sends = n,
                                   !.attempt = client[c].attempt + 1]
            first == Entry[client[c].command]
            new == Thread(first, DataOf[c])
<1>1. /\ client[c].pc = "send" /\ client[c].attempt <= Retries
      /\ client[c].command \in {"ensure", "again", "status", "evict"}
      /\ UNCHANGED <<envVars, storeVars, fileVars>>
  BY CountedClient DEF Connect, Counted, ClientRecords
<1>2. /\ n \in 1 .. MaxRequests /\ n \in 0 .. MaxRequests
      /\ client[c].attempt + 1 \in 0 .. Retries + 1
  <2>1. n \in 1 .. MaxRequests /\ n \in 0 .. MaxRequests
    BY <1>1, NextConnection
  <2>2. client[c].attempt + 1 \in 0 .. Retries + 1
    BY <1>1, CountedClient
  <2>. QED
    BY <2>1, <2>2
<1>3. n <= Turn[client[c].command] * (Retries + 1) + (client[c].attempt + 1)
  BY CountedClient DEF Counted
<1>4. /\ client' = [client EXCEPT ![c] = r]
      /\ thread' = [thread EXCEPT ![<<c, n>>] = new]
  BY DEF Connect
<1>5. <<c, n>> \in Connections
  BY <1>1, NextConnection
<1>6. /\ first \in {"fingerprint", "status", "evict"}
      /\ client[c].command # "evict" => first # "evict"
  BY <1>1 DEF Entry
<1>7. /\ new \in ThreadRecords /\ new.pc = first /\ new.version = 0
  <2>1. KeyOf(DataOf[c], 0) \in Keys /\ 0 \in 0 .. MaxVersion
    BY ClientAssumption, KeyFacts, CacheAssumption DEF TypeInv
  <2>2. NoHandle \in Handles \cup {NoHandle}
    OBVIOUS
  <2>. HIDE DEF first
  <2>. QED
    BY <1>6, <2>1, <2>2 DEF Thread, ThreadRecords
<1>. HIDE DEF n, first, new
<1>8. /\ r \in ClientRecords /\ r.pc = "wait" /\ r.sends = n
      /\ r.command = client[c].command
      /\ r.attempt = client[c].attempt + 1
  <2>1. client[c] \in ClientRecords
    BY CountedClient
  <2>2. "wait" \in Finished \cup {"idle", "send", "wait", "validate", "map", "load"}
    OBVIOUS
  <2>. QED
    BY <1>2, <2>1, <2>2 DEF ClientRecords
<1>. HIDE DEF r
<1>9. ThreadsOK /\ ClientsOK
  BY DEF TypeInv, CacheTypeOK, ThreadsOK, ClientsOK
<1>10. /\ ClientsOK' /\ client'[c] = r
       /\ \A d \in Clients \ {c} : client'[d] = client[d]
  BY <1>4, <1>8, <1>9 DEF ClientsOK
<1>11. /\ ThreadsOK' /\ thread'[<<c, n>>] = new
       /\ \A u \in Connections \ {<<c, n>>} : thread'[u] = thread[u]
  BY <1>4, <1>5, <1>7, <1>9 DEF ThreadsOK
<1>12. ASSUME NEW u \in Connections PROVE OnItsWay(u)'
  <2>1. CASE u = <<c, n>>
    BY <1>6, <1>7, <1>11, <2>1 DEF OnItsWay, FilePcs, Holds, At
  <2>2. CASE u # <<c, n>>
    BY <1>1, <1>11, <2>2 DEF TypeInv, OnItsWay, Holds, Cold, At, fileVars
  <2>. QED
    BY <2>1, <2>2
<1>13. Answered(c)'
  BY <1>6, <1>7, <1>8, <1>10, <1>11 DEF Answered, Conn
<1>14. Counted(c)'
  BY <1>1, <1>2, <1>3, <1>8, <1>10 DEF Counted
<1>15. n \in Nat
  BY <1>2
<1>. QED
  BY <1>1, <1>8, <1>10, <1>11, <1>12, <1>13, <1>14, <1>15, OneClientMoves

LEMMA UnansweredType ==
  ASSUME TypeInv, NEW c \in Clients,
         ConnectionRefused(c) \/ EmptyResponse(c)
  PROVE  TypeInv'
<1>1. UNCHANGED serverVars
  BY DEF ConnectionRefused, EmptyResponse
<1>2. CASE Ends(c)
  BY <1>1, <1>2, ClientAloneMoves DEF Ends, Finished
<1>3. CASE EmptyResponse(c)
  BY <1>2, <1>3, TryAgainCounted DEF EmptyResponse
<1>4. CASE ConnectionRefused(c) /\ client[c].attempt < Retries
  <2>. DEFINE r == [client[c] EXCEPT !.attempt = client[c].attempt + 1]
  <2>1. client' = [client EXCEPT ![c] = r] /\ client[c].pc = "send"
    BY <1>4 DEF ConnectionRefused
  <2>2. /\ r \in ClientRecords /\ r.pc = "send" /\ r.sends = client[c].sends
        /\ r.command = client[c].command
        /\ r.attempt = client[c].attempt + 1
    <3>1. client[c].attempt + 1 \in 0 .. Retries + 1
      BY <1>4, CountedClient
    <3>. QED
      BY <2>1, <3>1, CountedClient DEF ClientRecords
  <2>. HIDE DEF r
  <2>3. Ends(c)
    <3>1. ClientsOK
      BY DEF TypeInv, CacheTypeOK, ClientsOK
    <3>2. /\ ClientsOK' /\ client'[c] = r
          /\ \A d \in Clients \ {c} : client'[d] = client[d]
      BY <2>1, <2>2, <3>1 DEF ClientsOK
    <3>3. Counted(c)'
      BY <1>4, <2>1, <2>2, <3>2, CountedClient DEF Counted
    <3>. QED
      BY <2>2, <3>2, <3>3 DEF Ends
  <2>. QED
    BY <1>2, <2>3
<1>5. CASE CommandFails(c, "unreachable")
  BY <1>2, <1>5, CommandFailsCounted DEF Finished
<1>. QED
  BY <1>3, <1>4, <1>5 DEF ConnectionRefused

LEMMA ReadTimesOutType ==
  ASSUME TypeInv, NEW c \in Clients, ReadTimesOut(c)
  PROVE  TypeInv'
<1>. DEFINE t == Conn(c)
            r == [thread[t] EXCEPT !.closed = TRUE]
<1>1. /\ client[c].pc = "wait" /\ thread[t].pc # "none"
      /\ thread' = [thread EXCEPT ![t] = r]
      /\ UNCHANGED <<envVars, storeVars, fileVars>>
  BY DEF ReadTimesOut, Live, Ended
<1>2. Ends(c)
  BY <1>1, TryAgainCounted DEF ReadTimesOut
<1>3. t \in Connections /\ \E n \in Nat : t = <<c, n>>
  BY <1>1, ConnInConnections, CountedClient DEF TypeInv, Conn
<1>4. ThreadsOK
  BY DEF TypeInv, CacheTypeOK, ThreadsOK
<1>5. /\ r \in ThreadRecords /\ r.pc = thread[t].pc
      /\ r.key = thread[t].key /\ r.version = thread[t].version
      /\ r.handle = thread[t].handle
  <2>1. thread[t] \in ThreadRecords
    BY <1>1, <1>3, <1>4, StartedThread
  <2>. QED
    BY <2>1 DEF ThreadRecords
<1>. HIDE DEF r, t
<1>6. /\ ThreadsOK' /\ thread'[t] = r
      /\ \A u \in Connections \ {t} : thread'[u] = thread[u]
  BY <1>1, <1>3, <1>4, <1>5 DEF ThreadsOK
<1>7. ASSUME NEW u \in Connections PROVE OnItsWay(u)'
  <2>1. CASE u = t
    BY <1>1, <1>5, <1>6, <2>1
       DEF TypeInv, OnItsWay, Holds, Cold, At, fileVars
  <2>2. CASE u # t
    BY <1>1, <1>6, <2>2 DEF TypeInv, OnItsWay, Holds, Cold, At, fileVars
  <2>. QED
    BY <2>1, <2>2
<1>8. Answered(c)'
  BY <1>2 DEF Ends, Answered, Finished
<1>. QED
  BY <1>1, <1>2, <1>3, <1>6, <1>7, <1>8, OneClientMoves DEF Ends, Finished

LEMMA AnswerReceivedType ==
  ASSUME TypeInv, NEW c \in Clients, ReceiveReply(c) \/ ReceiveError(c)
  PROVE  TypeInv'
<1>1. client[c].pc = "wait" /\ Consume(c)
  BY DEF ReceiveReply, ReceiveError
<1>2. /\ UNCHANGED <<envVars, storeVars, fileVars>>
      /\ ThreadsOK'
      /\ \A u \in Connections : OnItsWay(u)'
      /\ \A u \in Connections : (\A n \in Nat : u # <<c, n>>)
                                  => thread'[u] = thread[u]
  BY <1>1, ConsumeEffect
<1>3. CASE Ends(c)
  <2>1. Answered(c)'
    BY <1>3 DEF Ends, Answered, Finished
  <2>. QED
    BY <1>2, <1>3, <2>1, OneClientMoves DEF Ends, Finished
<1>4. CASE CommandFails(c, "refused")
  BY <1>3, <1>4, CommandFailsCounted DEF Finished
<1>5. CASE Finish(c, "done")
  BY <1>3, <1>5, FinishCounted DEF Finished
<1>6. CASE client[c].command = "evict" /\ Command(c, "again")
  BY <1>3, <1>6, CommandCounted
<1>7. ASSUME ReceiveReply(c), client[c].command # "evict"
      PROVE  TypeInv'
  <2>. DEFINE t == thread[Conn(c)]
              pc == IF Kind[c] = "runner" THEN "load" ELSE "validate"
              r == [client[c] EXCEPT !.pc = pc, !.key = t.key,
                                     !.len = t.handle.len]
  <2>1. t.pc = "replied" /\ client' = [client EXCEPT ![c] = r]
    BY <1>7 DEF ReceiveReply, AfterReply
  <2>2. t \in ThreadRecords
    BY <1>1, <2>1, ConnInConnections, StartedThread
       DEF TypeInv, CacheTypeOK, ThreadsOK
  <2>3. t.key \in Keys /\ t.key \in DOMAIN snapshot
    BY <1>1, <1>7, <2>1, <2>2 DEF TypeInv, Answered, ThreadRecords
  <2>4. t.handle.len \in Nat
    BY <2>2 DEF ThreadRecords, Handles, Handle, NoHandle
  <2>5. pc \in {"load", "validate"}
    OBVIOUS
  <2>. HIDE DEF t, pc
  <2>6. /\ r \in ClientRecords /\ r.pc = pc /\ r.key = t.key
        /\ r.sends = client[c].sends /\ r.attempt = client[c].attempt
        /\ r.command = client[c].command
    BY <2>3, <2>4, <2>5, CountedClient DEF ClientRecords
  <2>. HIDE DEF r
  <2>7. ClientsOK
    BY DEF TypeInv, CacheTypeOK, ClientsOK
  <2>8. /\ ClientsOK' /\ client'[c] = r
        /\ \A d \in Clients \ {c} : client'[d] = client[d]
    BY <2>1, <2>6, <2>7 DEF ClientsOK
  <2>9. Answered(c)' /\ Counted(c)'
    BY <2>5, <2>6, <2>8, CountedClient DEF Answered, Counted
  <2>. QED
    BY <1>2, <2>3, <2>6, <2>8, <2>9, OneClientMoves
<1>. QED
  BY <1>4, <1>5, <1>6, <1>7 DEF ReceiveReply, ReceiveError, AfterReply

(* Begin, and what a client does with its file.                             *)
LEMMA ClientAloneType ==
  ASSUME TypeInv, NEW c \in Clients,
         Begin(c) \/ ValidateHandle(c) \/ MapSnapshot(c) \/ LoadSnapshot(c)
  PROVE  TypeInv'
<1>0. ClientsOK /\ UNCHANGED serverVars
  BY DEF TypeInv, CacheTypeOK, ClientsOK, Begin, ValidateHandle, MapSnapshot,
         LoadSnapshot
<1>1. client[c] \in ClientRecords
  BY CountedClient
<1>2. CASE Ends(c)
  BY <1>0, <1>2, ClientAloneMoves DEF Ends, Finished
<1>3. CASE Begin(c)
  <2>. DEFINE first == FirstCommand[Kind[c]]
              v == dataset[DataOf[c]].version
              r == [client[c] EXCEPT !.pc = "send", !.command = first,
                                     !.asked = v]
  <2>1. first \in {"ensure", "status", "evict"}
    BY ClientAssumption DEF FirstCommand, Kinds
  <2>2. v \in 0 .. MaxVersion
    BY KeyFacts, ClientAssumption, CacheAssumption DEF TypeInv, Versions
  <2>3. client[c].pc = "idle" /\ client' = [client EXCEPT ![c] = r]
    BY <1>3 DEF Begin
  <2>. HIDE DEF first, v
  <2>4. /\ r \in ClientRecords /\ r.pc = "send" /\ r.command = first
        /\ r.sends = 0 /\ r.attempt = 0
    BY <1>1, <2>1, <2>2, <2>3, CountedClient DEF ClientRecords, Counted
  <2>. HIDE DEF r
  <2>5. /\ ClientsOK' /\ client'[c] = r
        /\ \A d \in Clients \ {c} : client'[d] = client[d]
    BY <1>0, <2>3, <2>4 DEF ClientsOK
  <2>6. Turn[first] \in {0, 1} /\ 0 <= Turn[first] * (Retries + 1) + 0
    BY <2>1, CountedClient DEF Turn
  <2>7. Counted(c)'
    BY <2>1, <2>4, <2>5, <2>6, CountedClient DEF Counted
  <2>. QED
    BY <1>2, <2>4, <2>5, <2>7 DEF Ends
<1>4. CASE ValidateHandle(c)
  <2>1. CASE Finish(c, "unusable")
    BY <1>2, <2>1, FinishCounted DEF Finished
  <2>2. CASE Finish(c, "map")
    <3>1. /\ ClientsOK' /\ client'[c] = [client[c] EXCEPT !.pc = "map"]
          /\ \A d \in Clients \ {c} : client'[d] = client[d]
      BY <1>0, <2>2, FinishEffect DEF ClientPcs
    <3>2. /\ client'[c].pc = "map" /\ client'[c].key = client[c].key
          /\ client'[c].command = client[c].command
          /\ client'[c].attempt = client[c].attempt
          /\ client'[c].sends = client[c].sends
      BY <1>1, <3>1 DEF ClientRecords
    <3>3. Counted(c)' /\ client[c].key \in DOMAIN snapshot
      BY <1>4, <3>2, CountedClient
         DEF ValidateHandle, Counted, TypeInv, FilesThere
    <3>. QED
      BY <1>0, <3>1, <3>2, <3>3, ClientAloneMoves
  <2>. QED
    BY <1>4, <2>1, <2>2 DEF ValidateHandle
<1>5. ASSUME NEW v \in 0 .. MaxVersion, Use(c, v) PROVE Ends(c)
  <2>. DEFINE r == [client[c] EXCEPT !.pc = "done", !.version = v]
  <2>1. client' = [client EXCEPT ![c] = r]
    BY <1>5 DEF Use
  <2>2. /\ r \in ClientRecords /\ r.pc = "done"
        /\ r.command = client[c].command
        /\ r.sends = client[c].sends /\ r.attempt = client[c].attempt
    BY <1>1 DEF ClientRecords, Finished
  <2>. HIDE DEF r
  <2>3. /\ ClientsOK' /\ client'[c] = r
        /\ \A d \in Clients \ {c} : client'[d] = client[d]
    BY <1>0, <2>1, <2>2 DEF ClientsOK
  <2>. QED
    BY <2>2, <2>3, CountedClient DEF Ends, Counted, Finished
<1>6. ASSUME client[c].pc \in {"map", "load"}
      PROVE  snapshot[client[c].key].version \in 0 .. MaxVersion
  BY <1>6 DEF TypeInv, FilesThere, CacheTypeOK, Files
<1>7. CASE MapSnapshot(c)
  BY <1>2, <1>5, <1>6, <1>7 DEF MapSnapshot
<1>8. CASE LoadSnapshot(c)
  <2>1. CASE Use(c, snapshot[client[c].key].version)
    BY <1>2, <1>5, <1>6, <1>8, <2>1 DEF LoadSnapshot
  <2>2. CASE client[c].command = "ensure" /\ Command(c, "evict")
    BY <1>2, <2>2, CommandCounted
  <2>3. CASE Use(c, dataset[DataOf[c]].version)
    <3>1. dataset[DataOf[c]].version \in 0 .. MaxVersion
      BY KeyFacts, ClientAssumption, CacheAssumption DEF TypeInv, Versions
    <3>. QED
      BY <1>2, <1>5, <2>3, <3>1
  <2>. QED
    BY <1>8, <2>1, <2>2, <2>3 DEF LoadSnapshot
<1>. QED
  BY <1>3, <1>4, <1>7, <1>8

-----------------------------------------------------------------------------
LEMMA InitTypeInv == Init => TypeInv
<1>. SUFFICES ASSUME Init PROVE TypeInv
  OBVIOUS
<1>1. \A c \in Clients : KeyOf(DataOf[c], 0) \in Keys
  BY ClientAssumption, CacheAssumption DEF KeyOf, Keys
<1>2. client \in [Clients -> ClientRecords]
  BY <1>1, ClientAssumption, CacheAssumption
     DEF Init, ClientRecords, MaxRequests
<1>3. DOMAIN entries = {} /\ DOMAIN snapshot = {} /\ DOMAIN metadata = {}
  BY EmptyDomain DEF Init, ServerInit
<1>4. dataset \in [Paths -> [version : Versions, stamp : Versions]]
  BY CacheAssumption DEF Init, ServerInit, Versions
<1>5. thread \in [Connections -> ThreadRecords \cup {NoThread}]
  BY DEF Init, ServerInit
<1>6. up \in BOOLEAN /\ crashes \in 0 .. MaxCrashes
      /\ next_generation \in Nat \ {0}
  BY CacheAssumption DEF Init, ServerInit
<1>7. CacheTypeOK
  BY <1>2, <1>3, <1>4, <1>5, <1>6 DEF CacheTypeOK
<1>8. FilesThere
  BY <1>3 DEF Init, FilesThere
<1>9. \A t \in Connections : OnItsWay(t)
  BY DEF Init, ServerInit, OnItsWay, FilePcs, Holds, At, NoThread
<1>10. \A c \in Clients : Answered(c) /\ Counted(c)
  BY ClientAssumption DEF Init, Answered, Counted, Turn
<1>. QED
  BY <1>7, <1>8, <1>9, <1>10 DEF TypeInv

LEMMA TypeInvStep == TypeInv /\ [Next]_vars => TypeInv'
<1>. SUFFICES ASSUME TypeInv, [Next]_vars PROVE TypeInv'
  OBVIOUS
<1>1. CASE UNCHANGED vars
  BY <1>1 DEF TypeInv, CacheTypeOK, FilesThere, OnItsWay, Holds, Cold, At,
              Answered, Conn, Counted, vars, serverVars, envVars, storeVars,
              fileVars
<1>2. ASSUME NEW c \in Clients, Begin(c) \/ ClientStep(c) \/ ReadTimesOut(c)
      PROVE  TypeInv'
  BY <1>2, ConnectType, UnansweredType, ReadTimesOutType, AnswerReceivedType,
     ClientAloneType DEF ClientStep
<1>3. CASE ServerStep
  <2>1. ASSUME NEW t \in Connections, ThreadStep(t) PROVE TypeInv'
    <3>1. UNCHANGED client
      BY <1>3 DEF ServerStep
    <3>. QED
      BY <2>1, <3>1, LookupStepType, FileStepType, StoreStepType
         DEF ThreadStep, EnsureStep
  <2>. QED
    BY <1>3, <2>1, EnvironmentStepType DEF ServerStep
<1>. QED
  BY <1>1, <1>2, <1>3 DEF Next, AllFinished

(* Types of thread, files, entries and clients, and that no client sends    *)
(* more requests than its retries allow, for any number of clients.         *)
THEOREM CacheTypeCorrect == Spec => []CacheTypeOK
<1>1. TypeInv => CacheTypeOK
  BY DEF TypeInv
<1>. QED
  BY <1>1, InitTypeInv, TypeInvStep, PTL DEF Spec

-----------------------------------------------------------------------------
(* The registry.                                                            *)

Gen(t) == thread[t].handle.gen
Used == (1 .. next_generation - 1) \ Held

(* reserve_generation gave every handle that is on its way to the store a   *)
(* generation of its own, of this life of the server.                       *)
GensOwn ==
  /\ \A t \in Holders : Gen(t) \in 1 .. next_generation - 1
  /\ \A t, u \in Holders : Gen(t) = Gen(u) => t = u

RegInv == TypeInv /\ GensOwn

(* What a step can do to the handles on their way.                          *)
Keeps(t) == (Holds(t)' <=> Holds(t)) /\ (Holds(t) => Gen(t)' = Gen(t))

LEMMA AllKeep ==
  ASSUME GensOwn, UNCHANGED next_generation, \A t \in Connections : Keeps(t)
  PROVE  GensOwn' /\ UNCHANGED Used
<1>1. Holders' = Holders /\ \A t \in Holders : Gen(t)' = Gen(t)
  BY DEF Holders, Keeps
<1>2. Held' = Held
  BY <1>1 DEF Held, Gen
<1>. QED
  BY <1>1, <1>2 DEF GensOwn, Used

LEMMA OneLetsGo ==
  ASSUME RegInv, UNCHANGED next_generation, NEW t \in Connections,
         Holds(t), ~Holds(t)', \A u \in Connections \ {t} : Keeps(u)
  PROVE  GensOwn' /\ Gen(t) \notin Used /\ Used' = Used \cup {Gen(t)}
<1>1. Holders' = Holders \ {t} /\ t \in Holders
      /\ \A u \in Holders \ {t} : Gen(u)' = Gen(u)
  BY DEF Holders, Keeps
<1>2. Held = {Gen(u) : u \in Holders} /\ Held' = {Gen(u)' : u \in Holders'}
  BY DEF Held, Gen
<1>3. Held' = Held \ {Gen(t)} /\ Gen(t) \in Held
  BY <1>1, <1>2 DEF RegInv, GensOwn
<1>4. Gen(t) \in 1 .. next_generation - 1
  BY <1>1 DEF RegInv, GensOwn
<1>5. GensOwn'
  BY <1>1 DEF RegInv, GensOwn
<1>. QED
  BY <1>3, <1>4, <1>5 DEF Used

LEMMA GivenUp ==
  ASSUME UNCHANGED entries, NEW g, g \notin Used, Used' = Used \cup {g}
  PROVE  Registry!GiveUp
  BY DEF Registry!GiveUp, Used

LEMMA RegistrySame ==
  ASSUME UNCHANGED entries, UNCHANGED Used
  PROVE  UNCHANGED Registry!vars
  BY DEF Registry!vars, Used

(* A thread that does not move keeps what it has; one that has no handle    *)
(* before and after a step keeps it too.                                    *)
LEMMA UnmovedKeeps ==
  ASSUME NEW t, thread'[t] = thread[t]
  PROVE  Keeps(t)
  BY DEF Keeps, Holds, At, Cold, Gen

LEMMA LookupStepKeeps ==
  ASSUME TypeInv, NEW t \in Connections,
         \/ FingerprintDataset(t) \/ LookupByKey(t) \/ CheckSnapshot(t)
         \/ RestoreSnapshot(t) \/ LoadParquet(t)
         \/ CreateSnapshot(t) \/ WriteSnapshot(t)
         \/ CreateMetadata(t) \/ WriteMetadata(t)
         \/ Status(t)
  PROVE  UNCHANGED storeVars /\ \A u \in Connections : Keeps(u)
<1>. USE DEF At
<1>1. ThreadsOK /\ thread[t].pc # "none" /\ UNCHANGED storeVars
  BY DEF TypeInv, CacheTypeOK, ThreadsOK, FingerprintDataset, LookupByKey,
     CheckSnapshot, RestoreSnapshot, LoadParquet, CreateSnapshot,
     WriteSnapshot, CreateMetadata, WriteMetadata, Status
<1>2. thread[t] \in ThreadRecords
  BY <1>1, StartedThread
<1>3. ASSUME \A u \in Connections \ {t} : thread'[u] = thread[u], Keeps(t)
      PROVE  \A u \in Connections : Keeps(u)
  BY <1>3, UnmovedKeeps
<1>4. ASSUME NEW pc \in ThreadPcs, Goto(t, pc), Holds(t), Cold(t),
             pc \in {"metacreate", "metawrite", "insert"}
      PROVE  \A u \in Connections : Keeps(u)
  BY <1>1, <1>3, <1>4, GotoEffect DEF Keeps, Holds, Gen, Cold
<1>5. ASSUME NEW pc \in ThreadPcs, Goto(t, pc), ~Holds(t), pc # "insert",
             pc \in {"metacreate", "metawrite"} => ~Cold(t)
      PROVE  \A u \in Connections : Keeps(u)
  BY <1>1, <1>3, <1>5, GotoEffect DEF Keeps, Holds, Gen, Cold
<1>6. ASSUME NEW pc \in {"replied", "refused"}, NEW k \in Keys,
             NEW h \in Handles \cup {NoHandle}, Answer(t, pc, k, h), ~Holds(t)
      PROVE  \A u \in Connections : Keeps(u)
  BY <1>1, <1>3, <1>6, AnswerEffect DEF Keeps, Holds, Gen, NoThread
<1>0. ASSUME Refuse(t), ~Holds(t)
      PROVE  \A u \in Connections : Keeps(u)
  <2>1. Answer(t, "refused", thread[t].key, NoHandle)
    BY <1>0 DEF Refuse
  <2>2. thread[t].key \in Keys /\ NoHandle \in Handles \cup {NoHandle}
    BY <1>2 DEF ThreadRecords
  <2>. QED
    BY <1>0, <1>6, <2>1, <2>2
<1>7. CASE FingerprintDataset(t) \/ LoadParquet(t)
  <2>1. /\ \A u \in Connections \ {t} : thread'[u] = thread[u]
        /\ thread'[t].pc \in {"lookup", "create"}
    BY <1>1, <1>2, <1>7 DEF FingerprintDataset, LoadParquet, ThreadsOK, ThreadRecords
  <2>. QED
    BY <1>3, <1>7, <2>1 DEF Keeps, Holds, FingerprintDataset, LoadParquet
<1>8. CASE LookupByKey(t)
  <2>1. CASE thread[t].key \in DOMAIN entries
    BY <1>2, <1>6, <1>8, <2>1
       DEF LookupByKey, Reply, Holds, TypeInv, CacheTypeOK, ThreadRecords
  <2>2. CASE thread[t].key \notin DOMAIN entries
    BY <1>5, <1>8, <2>2 DEF LookupByKey, Holds, ThreadPcs
  <2>. QED
    BY <2>1, <2>2
<1>9. CASE CheckSnapshot(t) \/ RestoreSnapshot(t)
  <2>1. ~Holds(t) /\ (thread[t].pc = "restore" => ~Cold(t))
    BY <1>9 DEF CheckSnapshot, RestoreSnapshot, Holds, TypeInv, OnItsWay, Cold
  <2>2. CASE Refuse(t)
    BY <1>0, <1>1, <2>1, <2>2
  <2>3. CASE \E pc \in {"load", "restore", "handle"} : Goto(t, pc)
    <3>1. PICK pc \in {"load", "restore", "handle"} : Goto(t, pc)
      BY <2>3
    <3>2. pc \in ThreadPcs /\ pc \notin {"insert", "metacreate", "metawrite"}
      BY DEF ThreadPcs
    <3>. QED
      BY <1>1, <1>5, <2>1, <3>1, <3>2
  <2>4. CASE RestoreSnapshot(t) /\ Goto(t, "metacreate")
    BY <1>5, <2>1, <2>4 DEF RestoreSnapshot, ThreadPcs
  <2>. QED
    BY <1>9, <2>2, <2>3, <2>4 DEF CheckSnapshot, RestoreSnapshot
<1>10. CASE CreateSnapshot(t) \/ WriteSnapshot(t)
  BY <1>5, <1>10 DEF CreateSnapshot, WriteSnapshot, Holds, ThreadPcs
<1>11. CASE CreateMetadata(t) \/ WriteMetadata(t)
  <2>1. CASE Cold(t)
    BY <1>4, <1>11, <2>1 DEF CreateMetadata, WriteMetadata, Holds, ThreadPcs
  <2>2. CASE ~Cold(t)
    BY <1>5, <1>11, <2>2 DEF CreateMetadata, WriteMetadata, Holds, ThreadPcs
  <2>. QED
    BY <2>1, <2>2
<1>12. CASE Status(t)
  <2>1. ~Holds(t)
    BY <1>12 DEF Status, Holds
  <2>2. CASE Refuse(t)
    BY <1>0, <1>1, <2>1, <2>2
  <2>3. ASSUME NEW k \in EntriesOf(thread[t].key.path), Reply(t, k, entries[k])
        PROVE  \A u \in Connections : Keeps(u)
    <3>1. k \in Keys /\ entries[k] \in Handles
      BY DEF EntriesOf, TypeInv, CacheTypeOK
    <3>2. Answer(t, "replied", k, entries[k])
      BY <2>3 DEF Reply
    <3>. QED
      BY <1>6, <2>1, <3>1, <3>2
  <2>. QED
    BY <1>12, <2>2, <2>3 DEF Status
<1>. QED
  BY <1>1, <1>7, <1>8, <1>9, <1>10, <1>11, <1>12

(* reserve_generation: the abstract registry does not see it.               *)
LEMMA BuildHandleOwn ==
  ASSUME RegInv, NEW t \in Connections, BuildHandle(t)
  PROVE  GensOwn' /\ UNCHANGED Used /\ UNCHANGED entries
<1>. USE DEF At
<1>1. ThreadsOK /\ thread[t].pc = "handle" /\ next_generation \in Nat \ {0}
  BY DEF RegInv, TypeInv, CacheTypeOK, ThreadsOK, BuildHandle
<1>2. thread[t] \in ThreadRecords
  BY <1>1, StartedThread
<1>3. /\ next_generation' = next_generation + 1 /\ UNCHANGED entries
      /\ \A u \in Connections \ {t} : thread'[u] = thread[u]
      /\ Holds(t)' /\ ~Holds(t) /\ Gen(t)' = next_generation
  BY <1>1, <1>2 DEF BuildHandle, ThreadsOK, ThreadRecords, Holds, Cold, Gen, Handle
<1>4. \A u \in Connections \ {t} : Keeps(u)
  BY <1>3, UnmovedKeeps
<1>5. Holders' = Holders \cup {t} /\ t \notin Holders
      /\ \A u \in Holders : Gen(u)' = Gen(u)
  BY <1>3, <1>4 DEF Holders, Keeps
<1>6. Held = {Gen(u) : u \in Holders} /\ Held' = {Gen(u)' : u \in Holders'}
  BY DEF Held, Gen
<1>7. Held' = Held \cup {next_generation}
  BY <1>3, <1>5, <1>6
<1>8. \A u \in Holders : Gen(u) \in 1 .. next_generation - 1
  BY DEF RegInv, GensOwn
<1>9. GensOwn'
  BY <1>1, <1>3, <1>5, <1>8 DEF RegInv, GensOwn
<1>10. 1 .. next_generation' - 1 = (1 .. next_generation - 1) \cup {next_generation}
  BY <1>1, <1>3
<1>11. next_generation \notin 1 .. next_generation - 1
  BY <1>1
<1>. QED
  BY <1>3, <1>7, <1>9, <1>10, <1>11 DEF Used

(* insert_prepared_entry registers the handle, or gives its generation up.  *)
LEMMA InsertRegisters ==
  ASSUME RegInv, NEW t \in Connections, InsertPreparedEntry(t)
  PROVE  GensOwn' /\ Registry!Next
<1>. USE DEF At
<1>. DEFINE k == thread[t].key
<1>1. ThreadsOK /\ thread[t].pc = "insert" /\ UNCHANGED next_generation
  BY DEF RegInv, TypeInv, CacheTypeOK, ThreadsOK, InsertPreparedEntry
<1>2. thread[t] \in ThreadRecords /\ k \in Keys
  BY <1>1, StartedThread DEF ThreadRecords
<1>3. Holds(t) /\ thread[t].handle \in Handles
  BY <1>1 DEF Holds, RegInv, TypeInv, OnItsWay
<1>4. PICK h \in Handles : Answer(t, "replied", k, h)
  BY <1>3 DEF InsertPreparedEntry, Reply, RegInv, TypeInv, CacheTypeOK
<1>5. ~Holds(t)' /\ \A u \in Connections \ {t} : Keeps(u)
  BY <1>1, <1>2, <1>4, AnswerEffect, UnmovedKeeps DEF Holds, NoThread
<1>6. GensOwn' /\ Gen(t) \notin Used /\ Used' = Used \cup {Gen(t)}
  BY <1>1, <1>3, <1>5, OneLetsGo
<1>7. CASE k \in DOMAIN entries
  <2>1. UNCHANGED entries
    BY <1>7 DEF InsertPreparedEntry
  <2>. QED
    BY <1>6, <2>1, GivenUp DEF Registry!Next
<1>8. CASE k \notin DOMAIN entries
  <2>1. entries' = With(entries, k, thread[t].handle)
    BY <1>8 DEF InsertPreparedEntry
  <2>. HIDE DEF k
  <2>4. DOMAIN entries' = DOMAIN entries \cup {k} /\ entries'[k] = thread[t].handle
    BY <2>1 DEF With
  <2>5. \A j \in DOMAIN entries \ {k} : entries'[j] = entries[j]
    BY <2>1 DEF With
  <2>2. /\ DOMAIN entries' = DOMAIN entries \cup {k}
        /\ \A j \in DOMAIN entries : entries'[j] = entries[j]
        /\ entries'[k].gen = Gen(t)
    BY <1>8, <2>4, <2>5 DEF Gen
  <2>3. Registry!Register(k)
    BY <1>6, <1>8, <2>2 DEF Registry!Register, Used
  <2>. QED
    BY <1>2, <1>6, <2>3 DEF Registry!Next
<1>. QED
  BY <1>7, <1>8

LEMMA EvictRemoves ==
  ASSUME RegInv, NEW t \in Connections, Evict(t)
  PROVE  GensOwn' /\ Registry!Next
<1>. USE DEF At
<1>1. ThreadsOK /\ thread[t].pc = "evict" /\ UNCHANGED next_generation
  BY DEF RegInv, TypeInv, CacheTypeOK, ThreadsOK, Evict
<1>2. thread[t] \in ThreadRecords /\ thread[t].key \in Keys
  BY <1>1, StartedThread DEF ThreadRecords
<1>3. Answer(t, "replied", thread[t].key, NoHandle)
  BY DEF Evict, Reply
<1>4. ~Holds(t) /\ ~Holds(t)' /\ \A u \in Connections \ {t} : Keeps(u)
  BY <1>1, <1>2, <1>3, AnswerEffect, UnmovedKeeps DEF Holds, NoThread
<1>5. GensOwn' /\ UNCHANGED Used
  BY <1>1, <1>4, AllKeep DEF RegInv, Keeps
<1>6. EntriesOf(thread[t].key.path) \in SUBSET Keys
  BY DEF EntriesOf, RegInv, TypeInv, CacheTypeOK
<1>7. Registry!Remove(EntriesOf(thread[t].key.path))
  BY <1>5 DEF Evict, Registry!Remove, Used, Restrict, Registry!Restrict
<1>. QED
  BY <1>5, <1>6, <1>7 DEF Registry!Next

LEMMA ClientKeepsRegistry ==
  ASSUME RegInv, NEW c \in Clients, Begin(c) \/ ClientStep(c) \/ ReadTimesOut(c)
  PROVE  GensOwn' /\ [Registry!Next]_(Registry!vars)
<1>. USE DEF At
<1>0. UNCHANGED storeVars
  BY DEF Begin, ClientStep, ReadTimesOut, Connect, ConnectionRefused,
     EmptyResponse, ReceiveReply, ReceiveError, ValidateHandle, MapSnapshot,
     LoadSnapshot, Consume, serverVars
<1>1. UNCHANGED entries /\ UNCHANGED next_generation
  BY <1>0 DEF storeVars
<1>2. CASE \A t \in Connections : Keeps(t)
  BY <1>1, <1>2, AllKeep, RegistrySame DEF RegInv
<1>3. ASSUME NEW t \in Connections, ~Holds(t)', \A u \in Connections \ {t} : Keeps(u)
      PROVE  GensOwn' /\ [Registry!Next]_(Registry!vars)
  <2>1. CASE Holds(t)
    BY <1>1, <1>3, <2>1, OneLetsGo, GivenUp DEF Registry!Next
  <2>2. CASE ~Holds(t)
    BY <1>2, <1>3, <2>2 DEF Keeps
  <2>. QED
    BY <2>1, <2>2
<1>4. CASE UNCHANGED thread
  BY <1>2, <1>4, UnmovedKeeps
<1>5. ThreadsOK
  BY DEF RegInv, TypeInv, CacheTypeOK, ThreadsOK
<1>6. CASE Connect(c)
  <2>. DEFINE t == <<c, client[c].sends + 1>>
              new == Thread(Entry[client[c].command], DataOf[c])
  <2>1. t \in Connections /\ client[c].command \in {"ensure", "again", "status", "evict"}
    BY <1>6, NextConnection, CountedClient DEF RegInv, Connect, Counted, ClientRecords
  <2>2. thread' = [thread EXCEPT ![t] = new]
    BY <1>6 DEF Connect
  <2>3. new.pc \in {"fingerprint", "status", "evict"}
    BY <2>1 DEF Thread, Entry
  <2>. HIDE DEF t, new
  <2>4. thread'[t] = new /\ \A u \in Connections \ {t} : thread'[u] = thread[u]
    BY <1>5, <2>1, <2>2 DEF ThreadsOK
  <2>. QED
    BY <1>3, <2>1, <2>3, <2>4, UnmovedKeeps DEF Holds
<1>7. CASE ReadTimesOut(c)
  <2>. PICK t \in Connections : t = Conn(c)
    BY <1>7, ConnInConnections DEF ReadTimesOut, RegInv, TypeInv
  <2>. DEFINE r == [thread[t] EXCEPT !.closed = TRUE]
  <2>1. /\ t \in Connections /\ thread[t].pc # "none"
        /\ thread' = [thread EXCEPT ![t] = r]
    BY <1>7 DEF ReadTimesOut, Live, Ended
  <2>2. thread[t] \in ThreadRecords
    BY <1>5, <2>1, StartedThread
  <2>3. r.pc = thread[t].pc /\ r.version = thread[t].version /\ r.handle = thread[t].handle
    BY <2>2 DEF ThreadRecords
  <2>. HIDE DEF r
  <2>4. thread'[t] = r /\ \A u \in Connections \ {t} : thread'[u] = thread[u]
    BY <1>5, <2>1 DEF ThreadsOK
  <2>5. Keeps(t)
    BY <2>3, <2>4 DEF Keeps, Holds, Cold, Gen
  <2>. QED
    BY <1>2, <2>4, <2>5, UnmovedKeeps
<1>8. CASE ReceiveReply(c) \/ ReceiveError(c)
  <2>. DEFINE t == Conn(c)
  <2>1. t \in Connections /\ thread' = [thread EXCEPT ![t] = NoThread]
    BY <1>8, ConnInConnections DEF ReceiveReply, ReceiveError, Consume, RegInv, TypeInv
  <2>. HIDE DEF t
  <2>2. thread'[t] = NoThread /\ \A u \in Connections \ {t} : thread'[u] = thread[u]
    BY <1>5, <2>1 DEF ThreadsOK
  <2>. QED
    BY <1>3, <2>1, <2>2, UnmovedKeeps DEF Holds, NoThread
<1>. QED
  BY <1>4, <1>6, <1>7, <1>8 DEF Begin, ClientStep, ConnectionRefused, EmptyResponse,
     ValidateHandle, MapSnapshot, LoadSnapshot, serverVars

LEMMA CrashForgets ==
  ASSUME RegInv, Crash
  PROVE  GensOwn' /\ Registry!Next
<1>1. \A t \in Connections : ~Holds(t)'
  BY DEF Crash, Live, Ended, Holds, At, NoThread
<1>2. Holders' = {} /\ next_generation' = 1 /\ entries' = << >>
  BY <1>1 DEF Holders, Crash
<1>3. Used' = {}
  BY <1>2 DEF Used
<1>4. GensOwn'
  BY <1>2 DEF GensOwn
<1>. QED
  BY <1>2, <1>3, <1>4 DEF Registry!Next, Registry!Forget, Used

(* An entry of the store never changes under a client: it is registered     *)
(* once, with a generation that no other handle of this server had, and     *)
(* stays until it is evicted or the server dies, whatever threads race for  *)
(* its key (reserve_generation and insert_prepared_entry of CacheStore).    *)
THEOREM CacheKeepsRegistry == Spec => ImplementsRegistry
<1>1. Init => RegInv /\ Registry!Init
  <2>. SUFFICES ASSUME Init PROVE RegInv /\ Registry!Init
    OBVIOUS
  <2>1. TypeInv
    BY InitTypeInv
  <2>2. Holders = {}
    BY DEF Init, ServerInit, Holders, Holds, At, NoThread
  <2>3. next_generation = 1 /\ entries = << >>
    BY DEF Init, ServerInit
  <2>. QED
    BY <2>1, <2>2, <2>3 DEF RegInv, GensOwn, Registry!Init
<1>2. RegInv /\ [Next]_vars => RegInv' /\ [Registry!Next]_(Registry!vars)
  <2>. SUFFICES ASSUME RegInv, [Next]_vars
                PROVE  GensOwn' /\ [Registry!Next]_(Registry!vars)
    BY TypeInvStep DEF RegInv
  <2>1. CASE UNCHANGED <<storeVars, thread>>
    BY <2>1, UnmovedKeeps, AllKeep, RegistrySame DEF RegInv, storeVars
  <2>2. ASSUME NEW t \in Connections, ThreadStep(t)
        PROVE  GensOwn' /\ [Registry!Next]_(Registry!vars)
    <3>1. CASE BuildHandle(t)
      BY <3>1, BuildHandleOwn, RegistrySame
    <3>2. CASE InsertPreparedEntry(t) \/ Evict(t)
      BY <3>2, InsertRegisters, EvictRemoves
    <3>3. CASE ~(BuildHandle(t) \/ InsertPreparedEntry(t) \/ Evict(t))
      <4>1. UNCHANGED storeVars /\ \A u \in Connections : Keeps(u)
        BY <2>2, <3>3, LookupStepKeeps DEF ThreadStep, EnsureStep, RegInv
      <4>. QED
        BY <4>1, AllKeep, RegistrySame DEF RegInv, storeVars
    <3>. QED
      BY <3>1, <3>2, <3>3
  <2>3. CASE Crash
    BY <2>3, CrashForgets
  <2>4. CASE Restart \/ (\E p \in Paths : RewriteDataset(p)) \/ UNCHANGED vars
    BY <2>1, <2>4 DEF Restart, RewriteDataset, vars, serverVars
  <2>. QED
    BY <2>2, <2>3, <2>4, ClientKeepsRegistry DEF Next, ServerStep, AllFinished
<1>. QED
  BY <1>1, <1>2, PTL DEF Spec, ImplementsRegistry, Registry!Spec

-----------------------------------------------------------------------------
(***************************************************************************)
(* What a program reads through the cache.  It is never older than the     *)
(* dataset was when the program started, for every number of clients,      *)
(* retries and crashes; and programs that ask for data one after the       *)
(* other, with no read that times out, never read from a file that is not  *)
(* whole, whatever is rewritten, evicted and killed between their steps.   *)
(***************************************************************************)
-----------------------------------------------------------------------------
(* Fresh data.  A stamp tells the version, if every rewrite changes it.     *)
StampsTell == \A p \in Paths : dataset[p].stamp = dataset[p].version

(* A thread looks for a key that is not ahead of the dataset, and writes    *)
(* what is not behind the key.                                              *)
FreshThread(t) ==
  /\ thread[t].pc \in {"lookup", "check", "load"}
       => thread[t].key.stamp <= dataset[thread[t].key.path].version
  /\ thread[t].pc \in {"create", "write"}
       => thread[t].version >= thread[t].key.stamp

FreshFiles ==
  \A k \in DOMAIN snapshot :
    Complete(k) => snapshot[k].version >= k.stamp

(* A thread that works for a client which asked for version v of p.         *)
WorksFor(t, p, v) ==
  /\ thread[t].pc \notin {"evict", "status"}
  /\ thread[t].pc \notin {"none", "refused"} => thread[t].key.path = p
  /\ thread[t].pc \notin {"none", "refused", "fingerprint"}
       => thread[t].key.stamp >= v

FreshClient(c) ==
  /\ client[c].asked <= dataset[DataOf[c]].version
  /\ Kind[c] \in {"run", "runner"} => client[c].command # "status"
  /\ client[c].pc = "wait" /\ client[c].command \in {"ensure", "again"}
       => WorksFor(Conn(c), DataOf[c], client[c].asked)
  /\ client[c].pc \in {"validate", "map", "load"}
       /\ Kind[c] \in {"run", "runner"}
       => client[c].key.stamp >= client[c].asked
  /\ client[c].pc # "done" => client[c].version = 0
  /\ client[c].pc = "done" /\ Kind[c] \in {"run", "runner"}
       => client[c].version = 0 \/ client[c].version >= client[c].asked

FreshInv ==
  /\ StampsTell /\ FreshFiles
  /\ \A t \in Connections : FreshThread(t)
  /\ \A c \in Clients : FreshClient(c)
-----------------------------------------------------------------------------
(* A thread that goes on with the key it has.                               *)
LEMMA GotoFresh ==
  ASSUME TypeInv, NEW t \in Connections, FreshThread(t),
         thread[t].pc \notin {"none", "refused", "fingerprint"},
         NEW pc \in ThreadPcs \ {"lookup", "create", "evict", "status"},
         pc \in {"check", "load"} => thread[t].pc \in {"lookup", "check"},
         pc = "write" => thread[t].pc = "create",
         Goto(t, pc), UNCHANGED dataset
  PROVE  /\ FreshThread(t)'
         /\ \A u \in Connections \ {t} : thread'[u] = thread[u]
         /\ \A p, v : WorksFor(t, p, v) => WorksFor(t, p, v)'
<1>1. ThreadsOK
  BY DEF TypeInv, CacheTypeOK, ThreadsOK
<1>2. /\ \A u \in Connections \ {t} : thread'[u] = thread[u]
      /\ thread'[t].pc = pc
      /\ thread'[t].key = thread[t].key
      /\ thread'[t].version = thread[t].version
  BY <1>1, GotoEffect
<1>. QED
  BY <1>2 DEF FreshThread, WorksFor

(* A thread that answers a client with the key it has.                      *)
LEMMA AnswerFresh ==
  ASSUME TypeInv, NEW t \in Connections,
         thread[t].pc \notin {"none", "refused", "fingerprint"},
         NEW pc \in {"replied", "refused"}, NEW k \in Keys,
         NEW h \in Handles \cup {NoHandle}, Answer(t, pc, k, h),
         k = thread[t].key \/ thread[t].pc = "status"
  PROVE  /\ FreshThread(t)'
         /\ \A u \in Connections \ {t} : thread'[u] = thread[u]
         /\ \A p, v : WorksFor(t, p, v) => WorksFor(t, p, v)'
<1>1. ThreadsOK
  BY DEF TypeInv, CacheTypeOK, ThreadsOK
<1>2. /\ \A u \in Connections \ {t} : thread'[u] = thread[u]
      /\ \/ thread'[t] = NoThread
         \/ thread'[t].pc = pc /\ thread'[t].key = k
  BY <1>1, AnswerEffect
<1>. QED
  BY <1>2 DEF FreshThread, WorksFor, NoThread

(* The two kinds of steps of a thread that leave its data alone.            *)
GoesOn(t) ==
  \E pc \in ThreadPcs \ {"lookup", "create", "evict", "status"} :
    /\ thread[t].pc \notin {"none", "refused", "fingerprint"}
    /\ pc \in {"check", "load"} => thread[t].pc \in {"lookup", "check"}
    /\ pc = "write" => thread[t].pc = "create"
    /\ Goto(t, pc)

Answers(t) ==
  \E pc \in {"replied", "refused"}, k \in Keys,
     h \in Handles \cup {NoHandle} :
    /\ thread[t].pc \notin {"none", "refused", "fingerprint"}
    /\ Answer(t, pc, k, h)
    /\ k = thread[t].key \/ thread[t].pc = "status"

(* What a step of a thread does to its key, its data and the files.         *)
LEMMA ThreadStepFresh ==
  ASSUME TypeInv, StampsTell, FreshFiles,
         NEW t \in Connections, FreshThread(t), ThreadStep(t)
  PROVE  /\ UNCHANGED dataset
         /\ FreshFiles'
         /\ FreshThread(t)'
         /\ \A u \in Connections \ {t} : thread'[u] = thread[u]
         /\ \A p \in Paths : \A v \in 0 .. MaxVersion :
              v <= dataset[p].version /\ WorksFor(t, p, v)
                => WorksFor(t, p, v)'
<1>. USE DEF At
<1>0. UNCHANGED dataset /\ thread[t].pc # "none"
  BY DEF ThreadStep, EnsureStep, FingerprintDataset, LookupByKey,
         CheckSnapshot, RestoreSnapshot, LoadParquet, CreateSnapshot,
         WriteSnapshot, BuildHandle, CreateMetadata, WriteMetadata,
         InsertPreparedEntry, Evict, Status, envVars
<1>1. ThreadsOK /\ CacheTypeOK
  BY DEF TypeInv, CacheTypeOK, ThreadsOK
<1>2. thread[t] \in ThreadRecords
  BY <1>0, <1>1, StartedThread
<1>3. thread[t].key \in Keys /\ thread[t].key.path \in Paths
  BY <1>2 DEF ThreadRecords, Keys
<1>4. CASE FingerprintDataset(t)
  <2>. DEFINE q == thread[t].key.path
              r == [thread[t] EXCEPT !.pc = "lookup",
                                     !.key = KeyOf(q, dataset[q].stamp)]
  <2>1. /\ thread[t].pc = "fingerprint" /\ UNCHANGED snapshot
        /\ thread' = [thread EXCEPT ![t] = r]
    BY <1>4 DEF FingerprintDataset, fileVars
  <2>2. /\ r.pc = "lookup" /\ r.key.path = q
        /\ r.key.stamp = dataset[q].version
        /\ dataset[q].version \in Versions
    BY <1>1, <1>2, <1>3, KeyFacts DEF ThreadRecords, KeyOf, StampsTell
  <2>3. q = thread[t].key.path
    OBVIOUS
  <2>. HIDE DEF r, q
  <2>4. thread'[t] = r
        /\ \A u \in Connections \ {t} : thread'[u] = thread[u]
    BY <1>1, <2>1 DEF ThreadsOK
  <2>5. FreshThread(t)' /\ FreshFiles'
    BY <1>0, <2>1, <2>2, <2>4
       DEF FreshThread, FreshFiles, Complete, Versions
  <2>6. ASSUME NEW p \in Paths, NEW v \in 0 .. MaxVersion,
               v <= dataset[p].version, WorksFor(t, p, v)
        PROVE  WorksFor(t, p, v)'
    BY <2>1, <2>2, <2>3, <2>4, <2>6 DEF WorksFor
  <2>. QED
    BY <1>0, <2>4, <2>5, <2>6
<1>5. CASE LoadParquet(t)
  <2>. DEFINE q == thread[t].key.path
              r == [thread[t] EXCEPT !.pc = "create",
                                     !.version = dataset[q].version]
  <2>1. /\ thread[t].pc = "load" /\ UNCHANGED snapshot
        /\ thread' = [thread EXCEPT ![t] = r]
    BY <1>5 DEF LoadParquet, fileVars
  <2>2. /\ r.pc = "create" /\ r.key = thread[t].key
        /\ r.version = dataset[q].version
    BY <1>2 DEF ThreadRecords
  <2>3. thread[t].key.stamp <= dataset[q].version
        /\ dataset[q].version \in Versions /\ thread[t].key.stamp \in Nat
    BY <1>1, <1>3, <2>1, KeyFacts, CacheAssumption DEF FreshThread, Keys
  <2>. HIDE DEF r, q
  <2>4. thread'[t] = r
        /\ \A u \in Connections \ {t} : thread'[u] = thread[u]
    BY <1>1, <2>1 DEF ThreadsOK
  <2>5. FreshThread(t)' /\ FreshFiles'
    BY <1>0, <2>1, <2>2, <2>3, <2>4
       DEF FreshThread, FreshFiles, Complete, Versions
  <2>6. ASSUME NEW p, NEW v, WorksFor(t, p, v) PROVE WorksFor(t, p, v)'
    BY <2>1, <2>2, <2>4, <2>6 DEF WorksFor
  <2>. QED
    BY <1>0, <2>4, <2>5, <2>6
<1>6. CASE BuildHandle(t)
  <2>. DEFINE pc == IF Cold(t) THEN "metacreate" ELSE "insert"
              h == Handle(next_generation, snapshot[thread[t].key].len)
              r == [thread[t] EXCEPT !.pc = pc, !.handle = h]
  <2>1. /\ thread[t].pc = "handle" /\ UNCHANGED snapshot
        /\ thread' = [thread EXCEPT ![t] = r]
    BY <1>6 DEF BuildHandle, fileVars
  <2>2. pc \in {"metacreate", "insert"}
    OBVIOUS
  <2>. HIDE DEF pc, h
  <2>3. r.pc = pc /\ r.key = thread[t].key
    BY <1>2 DEF ThreadRecords
  <2>. HIDE DEF r
  <2>4. thread'[t] = r
        /\ \A u \in Connections \ {t} : thread'[u] = thread[u]
    BY <1>1, <2>1 DEF ThreadsOK
  <2>5. FreshThread(t)' /\ FreshFiles'
    BY <2>1, <2>2, <2>3, <2>4 DEF FreshThread, FreshFiles, Complete
  <2>6. ASSUME NEW p, NEW v, WorksFor(t, p, v) PROVE WorksFor(t, p, v)'
    BY <2>1, <2>2, <2>3, <2>4, <2>6 DEF WorksFor
  <2>. QED
    BY <1>0, <2>4, <2>5, <2>6
<1>7. CASE \/ LookupByKey(t) \/ CheckSnapshot(t) \/ RestoreSnapshot(t)
           \/ CreateMetadata(t) \/ WriteMetadata(t)
           \/ CreateSnapshot(t) \/ WriteSnapshot(t)
           \/ InsertPreparedEntry(t) \/ Evict(t) \/ Status(t)
  <2>1. FreshFiles'
    <3>1. CASE UNCHANGED snapshot
      BY <3>1 DEF FreshFiles, Complete
    <3>2. CASE CreateSnapshot(t)
      BY <3>2 DEF CreateSnapshot, WriteTo, With, Truncated, FreshFiles,
                  Complete
    <3>3. CASE WriteSnapshot(t)
      <4>1. thread[t].version >= thread[t].key.stamp
        BY <3>3 DEF WriteSnapshot, FreshThread
      <4>. DEFINE k == thread[t].key
                  file == Written(snapshot[k], thread[t].version)
      <4>2. file.version \in {0, thread[t].version}
        BY DEF Written
      <4>3. snapshot' = With(snapshot, k, file)
        BY <3>3 DEF WriteSnapshot, WriteTo
      <4>. HIDE DEF file
      <4>. QED
        BY <4>1, <4>2, <4>3 DEF With, FreshFiles, Complete
    <3>. QED
      BY <1>7, <3>1, <3>2, <3>3
         DEF LookupByKey, CheckSnapshot, RestoreSnapshot, CreateMetadata,
             WriteMetadata, InsertPreparedEntry, Evict, Status, fileVars
  <2>2. CASE GoesOn(t)
    BY <1>0, <2>1, <2>2, GotoFresh DEF GoesOn
  <2>3. CASE Answers(t)
    BY <1>0, <2>1, <2>3, AnswerFresh DEF Answers
  <2>4. ASSUME Refuse(t), thread[t].pc \notin {"refused", "fingerprint"}
        PROVE  Answers(t)
    BY <1>0, <1>3, <2>4, HandleFacts DEF Refuse, Answers
  <2>5. ASSUME NEW h \in Handles \cup {NoHandle},
               Reply(t, thread[t].key, h),
               thread[t].pc \notin {"refused", "fingerprint"}
        PROVE  Answers(t)
    BY <1>0, <1>3, <2>5 DEF Reply, Answers
  <2>6. \A k \in DOMAIN entries : k \in Keys /\ entries[k] \in Handles
    BY <1>1 DEF CacheTypeOK
  <2>7. CASE LookupByKey(t)
    BY <2>2, <2>3, <2>5, <2>6, <2>7 DEF LookupByKey, GoesOn, ThreadPcs
  <2>8. CASE CheckSnapshot(t) \/ RestoreSnapshot(t)
    BY <2>2, <2>3, <2>4, <2>8
       DEF CheckSnapshot, RestoreSnapshot, GoesOn, ThreadPcs
  <2>9. CASE \/ CreateMetadata(t) \/ WriteMetadata(t)
             \/ CreateSnapshot(t) \/ WriteSnapshot(t)
    BY <2>2, <2>9
       DEF CreateMetadata, WriteMetadata, CreateSnapshot, WriteSnapshot,
           GoesOn, ThreadPcs
  <2>10. CASE InsertPreparedEntry(t)
    <3>1. thread[t].handle \in Handles
      BY <2>10 DEF InsertPreparedEntry, TypeInv, OnItsWay, Holds
    <3>. QED
      BY <2>3, <2>5, <2>6, <2>10, <3>1 DEF InsertPreparedEntry
  <2>11. CASE Evict(t)
    BY <2>3, <2>5, <2>11, HandleFacts DEF Evict
  <2>12. CASE Status(t)
    <3>1. CASE Refuse(t)
      BY <2>3, <2>4, <2>12, <3>1 DEF Status
    <3>2. CASE \E k \in EntriesOf(thread[t].key.path) :
                 Reply(t, k, entries[k])
      BY <1>0, <2>3, <2>6, <2>12, <3>2 DEF Status, EntriesOf, Reply, Answers
    <3>. QED
      BY <2>12, <3>1, <3>2 DEF Status
  <2>. QED
    BY <1>7, <2>7, <2>8, <2>9, <2>10, <2>11, <2>12
<1>. QED
  BY <1>4, <1>5, <1>6, <1>7 DEF ThreadStep, EnsureStep

LEMMA ServerStepFresh ==
  ASSUME TypeInv, FreshInv, FineStamps, ServerStep
  PROVE  FreshInv'
<1>0. UNCHANGED client
  BY DEF ServerStep
<1>1. \A c \in Clients : client[c].pc = "wait" => Conn(c) \in Connections
  BY ConnInConnections DEF TypeInv
<1>2. \A c \in Clients :
        DataOf[c] \in Paths /\ client[c].asked \in 0 .. MaxVersion
  BY ClientAssumption, CountedClient DEF ClientRecords
<1>3. ASSUME NEW t \in Connections, ThreadStep(t) PROVE FreshInv'
  <2>1. /\ UNCHANGED dataset
        /\ FreshFiles'
        /\ FreshThread(t)'
        /\ \A u \in Connections \ {t} : thread'[u] = thread[u]
        /\ \A p \in Paths : \A v \in 0 .. MaxVersion :
             v <= dataset[p].version /\ WorksFor(t, p, v)
               => WorksFor(t, p, v)'
    BY <1>3, ThreadStepFresh DEF FreshInv
  <2>2. ASSUME NEW u \in Connections PROVE FreshThread(u)'
    <3>1. CASE u # t
      BY <2>1, <3>1 DEF FreshInv, FreshThread
    <3>. QED
      BY <2>1, <3>1
  <2>3. ASSUME NEW c \in Clients PROVE FreshClient(c)'
    <3>1. ASSUME client[c].pc = "wait", client[c].command \in {"ensure", "again"}
          PROVE  WorksFor(Conn(c), DataOf[c], client[c].asked)'
      <4>1. /\ WorksFor(Conn(c), DataOf[c], client[c].asked)
            /\ client[c].asked <= dataset[DataOf[c]].version
            /\ Conn(c)' = Conn(c)
        BY <1>0, <3>1 DEF FreshInv, FreshClient, Conn
      <4>2. CASE Conn(c) = t
        BY <1>0, <1>2, <2>1, <4>1, <4>2 DEF WorksFor
      <4>3. CASE Conn(c) # t
        <5>1. thread'[Conn(c)] = thread[Conn(c)]
          BY <1>1, <2>1, <3>1, <4>3
        <5>. QED
          BY <1>0, <4>1, <5>1 DEF WorksFor
      <4>. QED
        BY <4>2, <4>3
    <3>. QED
      BY <1>0, <2>1, <3>1 DEF FreshInv, FreshClient
  <2>. QED
    BY <2>1, <2>2, <2>3 DEF FreshInv, StampsTell
<1>4. CASE Crash
  <2>1. /\ UNCHANGED <<dataset, snapshot>>
        /\ thread' = [t \in Connections |->
                        IF Live(t) THEN NoThread ELSE thread[t]]
    BY <1>4 DEF Crash, fileVars
  <2>2. ASSUME NEW t \in Connections
        PROVE  thread'[t] = NoThread \/ thread'[t] = thread[t]
    BY <2>1
  <2>3. ASSUME NEW t \in Connections PROVE FreshThread(t)'
    BY <2>1, <2>2 DEF FreshInv, FreshThread, NoThread
  <2>4. ASSUME NEW c \in Clients PROVE FreshClient(c)'
    <3>1. ASSUME client[c].pc = "wait", client[c].command \in {"ensure", "again"}
          PROVE  WorksFor(Conn(c), DataOf[c], client[c].asked)'
      <4>1. WorksFor(Conn(c), DataOf[c], client[c].asked)
            /\ Conn(c)' = Conn(c)
        BY <1>0, <3>1 DEF FreshInv, FreshClient, Conn
      <4>2. thread'[Conn(c)] = NoThread \/ thread'[Conn(c)] = thread[Conn(c)]
        BY <1>1, <2>2, <3>1
      <4>. QED
        BY <1>0, <4>1, <4>2 DEF WorksFor, NoThread
    <3>. QED
      BY <1>0, <2>1, <3>1 DEF FreshInv, FreshClient
  <2>. QED
    BY <2>1, <2>3, <2>4 DEF FreshInv, StampsTell, FreshFiles, Complete
<1>5. ASSUME UNCHANGED <<thread, snapshot>>, StampsTell',
             \A p \in Paths : /\ dataset[p].version \in Nat
                              /\ dataset'[p].version \in Nat
                              /\ dataset'[p].version >= dataset[p].version
      PROVE  FreshInv'
  <2>1. ASSUME NEW t \in Connections PROVE FreshThread(t)'
    <3>1. CASE thread[t].pc \in {"lookup", "check", "load"}
      <4>1. thread[t] \in ThreadRecords
        BY <3>1, StartedThread DEF TypeInv, CacheTypeOK, ThreadsOK
      <4>2. thread[t].key.path \in Paths /\ thread[t].key.stamp \in Nat
        BY <4>1, CacheAssumption DEF ThreadRecords, Keys
      <4>3. thread[t].key.stamp <= dataset[thread[t].key.path].version
        BY <3>1 DEF FreshInv, FreshThread
      <4>. QED
        BY <1>5, <3>1, <4>2, <4>3 DEF FreshThread
    <3>2. CASE thread[t].pc \notin {"lookup", "check", "load"}
      BY <1>5, <3>2 DEF FreshInv, FreshThread
    <3>. QED
      BY <3>1, <3>2
  <2>2. ASSUME NEW c \in Clients PROVE FreshClient(c)'
    <3>1. client[c].asked <= dataset'[DataOf[c]].version
      BY <1>2, <1>5 DEF FreshInv, FreshClient
    <3>. QED
      BY <1>0, <1>5, <3>1 DEF FreshInv, FreshClient, WorksFor, Conn
  <2>. QED
    BY <1>5, <2>1, <2>2 DEF FreshInv, FreshFiles, Complete
<1>6. CASE Restart
  <2>1. UNCHANGED <<dataset, thread, snapshot>>
    BY <1>6 DEF Restart, fileVars
  <2>2. ASSUME NEW p \in Paths PROVE dataset[p].version \in Nat
    BY KeyFacts DEF TypeInv, Versions
  <2>. QED
    BY <1>5, <2>1, <2>2 DEF FreshInv, StampsTell
<1>7. ASSUME NEW p \in Paths, RewriteDataset(p) PROVE FreshInv'
  <2>1. UNCHANGED <<thread, snapshot>>
    BY <1>7 DEF RewriteDataset, fileVars
  <2>. DEFINE v == dataset[p].version + 1
  <2>2. dataset' = [dataset EXCEPT ![p] = [version |-> v, stamp |-> v]]
    BY <1>7 DEF RewriteDataset
  <2>3. dataset \in [Paths -> [version : Versions, stamp : Versions]]
    BY DEF TypeInv, CacheTypeOK
  <2>4. \A q \in Paths : dataset[q].version \in Nat
    BY <2>3 DEF Versions
  <2>. HIDE DEF v
  <2>5. ASSUME NEW q \in Paths
        PROVE  dataset'[q] = IF q = p THEN [version |-> v, stamp |-> v]
                                      ELSE dataset[q]
    BY <2>2, <2>3
  <2>6. StampsTell'
    BY <2>5 DEF FreshInv, StampsTell
  <2>7. v = dataset[p].version + 1
    BY DEF v
  <2>8. ASSUME NEW q \in Paths
        PROVE  /\ dataset'[q].version \in Nat
               /\ dataset'[q].version >= dataset[q].version
    BY <2>4, <2>5, <2>7
  <2>. QED
    BY <1>5, <2>1, <2>4, <2>6, <2>8
<1>. QED
  BY <1>3, <1>4, <1>6, <1>7 DEF ServerStep

-----------------------------------------------------------------------------
(* A step of one client, which touches no thread but one of its own.        *)
LEMMA OneClientFresh ==
  ASSUME TypeInv, FreshInv, NEW c \in Clients,
         UNCHANGED <<dataset, snapshot>>,
         \A d \in Clients \ {c} : client'[d] = client[d],
         \A u \in Connections : FreshThread(u)',
         \A u \in Connections : (\A n \in Nat : u # <<c, n>>)
                                  => thread'[u] = thread[u],
         FreshClient(c)'
  PROVE  FreshInv'
<1>1. ASSUME NEW d \in Clients, d # c PROVE FreshClient(d)'
  <2>1. client'[d] = client[d] /\ Conn(d)' = Conn(d)
    BY <1>1 DEF Conn
  <2>2. ASSUME client[d].pc = "wait"
        PROVE  thread'[Conn(d)] = thread[Conn(d)]
    BY <1>1, <2>2, ConnInConnections DEF TypeInv, Conn
  <2>. QED
    BY <2>1, <2>2 DEF FreshInv, FreshClient, WorksFor
<1>. QED
  BY <1>1 DEF FreshInv, StampsTell, FreshFiles, Complete

LEMMA FinishFresh ==
  ASSUME TypeInv, FreshInv, NEW c \in Clients, client[c].pc # "done",
         UNCHANGED dataset,
         NEW pc \in Finished \cup {"send"}, Finish(c, pc)
  PROVE  /\ FreshClient(c)'
         /\ \A d \in Clients \ {c} : client'[d] = client[d]
<1>1. /\ client'[c] = [client[c] EXCEPT !.pc = pc]
      /\ \A d \in Clients \ {c} : client'[d] = client[d]
  BY FinishEffect DEF TypeInv, CacheTypeOK, ClientsOK, ClientPcs
<1>2. /\ client'[c].pc = pc /\ client'[c].asked = client[c].asked
      /\ client'[c].command = client[c].command
      /\ client'[c].version = client[c].version
  BY <1>1, CountedClient DEF ClientRecords
<1>. QED
  BY <1>1, <1>2 DEF FreshInv, FreshClient, Finished

LEMMA CommandFresh ==
  ASSUME TypeInv, FreshInv, NEW c \in Clients, client[c].pc # "done",
         UNCHANGED dataset,
         NEW command \in {"evict", "again"}, Command(c, command)
  PROVE  /\ FreshClient(c)'
         /\ \A d \in Clients \ {c} : client'[d] = client[d]
<1>1. /\ client'[c] = [client[c] EXCEPT !.pc = "send", !.command = command,
                                       !.attempt = 0]
      /\ \A d \in Clients \ {c} : client'[d] = client[d]
  BY CommandEffect DEF TypeInv, CacheTypeOK, ClientsOK
<1>2. /\ client'[c].pc = "send" /\ client'[c].asked = client[c].asked
      /\ client'[c].command = command
      /\ client'[c].version = client[c].version
  BY <1>1, CountedClient DEF ClientRecords
<1>. QED
  BY <1>1, <1>2 DEF FreshInv, FreshClient

LEMMA CommandFailsFresh ==
  ASSUME TypeInv, FreshInv, NEW c \in Clients, client[c].pc # "done",
         UNCHANGED dataset, NEW pc \in Finished, CommandFails(c, pc)
  PROVE  /\ FreshClient(c)'
         /\ \A d \in Clients \ {c} : client'[d] = client[d]
  BY FinishFresh, CommandFresh DEF CommandFails

LEMMA TryAgainFresh ==
  ASSUME TypeInv, FreshInv, NEW c \in Clients, client[c].pc # "done",
         UNCHANGED dataset, TryAgain(c)
  PROVE  /\ FreshClient(c)'
         /\ \A d \in Clients \ {c} : client'[d] = client[d]
  BY FinishFresh, CommandFailsFresh DEF TryAgain, Finished

LEMMA ConnectFresh ==
  ASSUME TypeInv, FreshInv, NEW c \in Clients, Connect(c)
  PROVE  FreshInv'
<1>. DEFINE n == client[c].sends + 1
            r == [client[c] EXCEPT !.pc = "wait", !.sends = n,
                                   !.attempt = client[c].attempt + 1]
            first == Entry[client[c].command]
            new == Thread(first, DataOf[c])
<1>1. /\ UNCHANGED <<dataset, snapshot>>
      /\ client[c].pc = "send"
      /\ client' = [client EXCEPT ![c] = r]
      /\ thread' = [thread EXCEPT ![<<c, n>>] = new]
  BY DEF Connect, envVars, fileVars
<1>2. /\ client[c] \in ClientRecords /\ n \in Nat
      /\ client[c].command \in {"ensure", "again", "status", "evict"}
  BY <1>1, CountedClient DEF ClientRecords, Counted
<1>3. /\ new.pc = first /\ new.key.path = DataOf[c]
      /\ first \in {"fingerprint", "status", "evict"}
      /\ client[c].command \in {"ensure", "again"} => first = "fingerprint"
  BY <1>2 DEF Thread, KeyOf, Entry
<1>. HIDE DEF n, first, new
<1>4. /\ r.pc = "wait" /\ r.sends = n /\ r.asked = client[c].asked
      /\ r.command = client[c].command /\ r.version = client[c].version
  BY <1>2 DEF ClientRecords
<1>. HIDE DEF r
<1>5. /\ client'[c] = r
      /\ \A d \in Clients \ {c} : client'[d] = client[d]
  BY <1>1 DEF TypeInv, CacheTypeOK
<1>6. ASSUME NEW u \in Connections
      PROVE  thread'[u] = IF u = <<c, n>> THEN new ELSE thread[u]
  BY <1>1 DEF TypeInv, CacheTypeOK
<1>7. ASSUME NEW u \in Connections PROVE FreshThread(u)'
  <2>1. CASE u = <<c, n>>
    BY <1>3, <1>6, <2>1 DEF FreshThread
  <2>2. CASE u # <<c, n>>
    BY <1>1, <1>6, <2>2 DEF FreshInv, FreshThread
  <2>. QED
    BY <2>1, <2>2
<1>8. thread'[<<c, n>>] = new
  BY <1>1, <1>6, NextConnection DEF n
<1>9. FreshClient(c)'
  <2>1. Conn(c)' = <<c, n>>
    BY <1>4, <1>5 DEF Conn
  <2>. QED
    BY <1>1, <1>3, <1>4, <1>5, <1>8, <2>1 DEF FreshInv, FreshClient, WorksFor
<1>. QED
  BY <1>1, <1>2, <1>5, <1>6, <1>7, <1>9, OneClientFresh

(* Steps that leave the threads alone.                                      *)
LEMMA ClientAloneFresh ==
  ASSUME TypeInv, FreshInv, NEW c \in Clients,
         \/ Begin(c) \/ ConnectionRefused(c) \/ EmptyResponse(c)
         \/ ValidateHandle(c) \/ MapSnapshot(c) \/ LoadSnapshot(c)
  PROVE  FreshInv'
<1>1. /\ UNCHANGED <<dataset, thread, snapshot>>
      /\ client[c].pc # "done" /\ client[c] \in ClientRecords
  BY CountedClient
     DEF Begin, ConnectionRefused, EmptyResponse, ValidateHandle, MapSnapshot,
         LoadSnapshot, serverVars, envVars, fileVars
<1>2. \A u \in Connections : FreshThread(u)'
  BY <1>1 DEF FreshInv, FreshThread
<1>3. CASE FreshClient(c)' /\ \A d \in Clients \ {c} : client'[d] = client[d]
  BY <1>1, <1>2, <1>3, OneClientFresh
<1>4. CASE Begin(c)
  <2>. DEFINE first == FirstCommand[Kind[c]]
              v == dataset[DataOf[c]].version
              r == [client[c] EXCEPT !.pc = "send", !.command = first,
                                     !.asked = v]
  <2>1. Kind[c] \in {"run", "runner"} => first # "status"
    BY DEF FirstCommand
  <2>2. v \in Versions
    BY KeyFacts, ClientAssumption DEF TypeInv
  <2>3. client' = [client EXCEPT ![c] = r]
    BY <1>4 DEF Begin
  <2>4. v = dataset[DataOf[c]].version
    OBVIOUS
  <2>. HIDE DEF first, v
  <2>5. /\ r.pc = "send" /\ r.command = first /\ r.asked = v
        /\ r.version = client[c].version
    BY <1>1 DEF ClientRecords
  <2>. HIDE DEF r
  <2>6. client'[c] = r /\ \A d \in Clients \ {c} : client'[d] = client[d]
    BY <2>3 DEF TypeInv, CacheTypeOK
  <2>7. FreshClient(c)'
    BY <1>1, <2>1, <2>2, <2>4, <2>5, <2>6
       DEF FreshInv, FreshClient, Versions
  <2>. QED
    BY <1>3, <2>6, <2>7
<1>5. CASE ConnectionRefused(c)
  <2>1. CASE CommandFails(c, "unreachable")
    BY <1>1, <1>3, <2>1, CommandFailsFresh DEF Finished
  <2>2. CASE client' = [client EXCEPT ![c].attempt = @ + 1]
    <3>. DEFINE r == [client[c] EXCEPT !.attempt = client[c].attempt + 1]
    <3>1. client' = [client EXCEPT ![c] = r] /\ client[c].pc = "send"
      BY <1>5, <2>2 DEF ConnectionRefused
    <3>2. /\ r.pc = client[c].pc /\ r.command = client[c].command
          /\ r.asked = client[c].asked /\ r.version = client[c].version
      BY <1>1 DEF ClientRecords
    <3>. HIDE DEF r
    <3>3. client'[c] = r /\ \A d \in Clients \ {c} : client'[d] = client[d]
      BY <3>1 DEF TypeInv, CacheTypeOK
    <3>4. FreshClient(c)'
      BY <1>1, <3>1, <3>2, <3>3 DEF FreshInv, FreshClient
    <3>. QED
      BY <1>3, <3>3, <3>4
  <2>. QED
    BY <1>5, <2>1, <2>2 DEF ConnectionRefused
<1>6. CASE EmptyResponse(c)
  BY <1>1, <1>3, <1>6, TryAgainFresh DEF EmptyResponse
<1>7. CASE ValidateHandle(c)
  <2>1. CASE Finish(c, "unusable")
    BY <1>1, <1>3, <2>1, FinishFresh DEF Finished
  <2>2. CASE Finish(c, "map")
    <3>1. /\ client'[c] = [client[c] EXCEPT !.pc = "map"]
          /\ \A d \in Clients \ {c} : client'[d] = client[d]
      BY <2>2, FinishEffect DEF TypeInv, CacheTypeOK, ClientsOK, ClientPcs
    <3>2. /\ client'[c].pc = "map" /\ client'[c].asked = client[c].asked
          /\ client'[c].command = client[c].command
          /\ client'[c].version = client[c].version
          /\ client'[c].key = client[c].key
      BY <1>1, <3>1 DEF ClientRecords
    <3>3. FreshClient(c)'
      BY <1>1, <1>7, <3>2 DEF ValidateHandle, FreshInv, FreshClient
    <3>. QED
      BY <1>3, <3>1, <3>3
  <2>. QED
    BY <1>7, <2>1, <2>2 DEF ValidateHandle
<1>8. ASSUME NEW v \in 0 .. MaxVersion, Use(c, v),
             Kind[c] \in {"run", "runner"} => v = 0 \/ v >= client[c].asked
      PROVE  FreshInv'
  <2>. DEFINE r == [client[c] EXCEPT !.pc = "done", !.version = v]
  <2>1. client' = [client EXCEPT ![c] = r]
    BY <1>8 DEF Use
  <2>2. /\ r.pc = "done" /\ r.version = v /\ r.asked = client[c].asked
        /\ r.command = client[c].command
    BY <1>1 DEF ClientRecords
  <2>. HIDE DEF r
  <2>3. client'[c] = r /\ \A d \in Clients \ {c} : client'[d] = client[d]
    BY <2>1 DEF TypeInv, CacheTypeOK
  <2>4. FreshClient(c)'
    BY <1>1, <1>8, <2>2, <2>3 DEF FreshInv, FreshClient
  <2>. QED
    BY <1>3, <2>3, <2>4
<1>9. ASSUME client[c].pc \in {"map", "load"}
      PROVE  LET v == snapshot[client[c].key].version
             IN  /\ v \in 0 .. MaxVersion
                 /\ Kind[c] \in {"run", "runner"}
                      => v = 0 \/ v >= client[c].asked
  <2>1. client[c].key \in DOMAIN snapshot
    BY <1>9 DEF TypeInv, FilesThere
  <2>2. snapshot[client[c].key].version \in 0 .. MaxVersion
    BY <2>1 DEF TypeInv, CacheTypeOK, Files
  <2>3. client[c].key.stamp \in Nat /\ client[c].asked \in Nat
    BY <1>1, CacheAssumption DEF ClientRecords, Keys
  <2>4. Kind[c] \in {"run", "runner"} => client[c].key.stamp >= client[c].asked
    BY <1>9 DEF FreshInv, FreshClient
  <2>5. \/ snapshot[client[c].key].version = 0
        \/ snapshot[client[c].key].version >= client[c].key.stamp
    BY <2>1 DEF FreshInv, FreshFiles, Complete
  <2>. QED
    BY <2>2, <2>3, <2>4, <2>5, CacheAssumption
<1>10. CASE MapSnapshot(c)
  BY <1>8, <1>9, <1>10 DEF MapSnapshot
<1>11. CASE LoadSnapshot(c)
  <2>1. CASE Use(c, snapshot[client[c].key].version)
    BY <1>8, <1>9, <1>11, <2>1 DEF LoadSnapshot
  <2>2. CASE Command(c, "evict")
    BY <1>1, <1>3, <2>2, CommandFresh
  <2>3. CASE Use(c, dataset[DataOf[c]].version)
    <3>1. dataset[DataOf[c]].version \in 0 .. MaxVersion
      BY KeyFacts, ClientAssumption, CacheAssumption DEF TypeInv, Versions
    <3>2. dataset[DataOf[c]].version >= client[c].asked
      BY <1>1, <3>1, CacheAssumption DEF FreshInv, FreshClient, ClientRecords
    <3>. QED
      BY <1>8, <2>3, <3>1, <3>2
  <2>. QED
    BY <1>11, <2>1, <2>2, <2>3 DEF LoadSnapshot
<1>. QED
  BY <1>4, <1>5, <1>6, <1>7, <1>10, <1>11

(* Steps that end the request a client waits for.                           *)
LEMMA RequestEndsFresh ==
  ASSUME TypeInv, FreshInv, NEW c \in Clients,
         ReadTimesOut(c) \/ ReceiveReply(c) \/ ReceiveError(c)
  PROVE  FreshInv'
<1>0. PICK t : t = Conn(c)
  OBVIOUS
<1>1. client[c].pc = "wait" /\ UNCHANGED <<dataset, snapshot>>
  BY DEF ReadTimesOut, ReceiveReply, ReceiveError, Consume, envVars, fileVars
<1>2. t \in Connections /\ \E n \in Nat : t = <<c, n>>
  BY <1>0, <1>1, ConnInConnections, CountedClient DEF TypeInv, Conn
<1>3. client[c] \in ClientRecords
  BY CountedClient
<1>4. \/ thread' = [thread EXCEPT ![t] = NoThread]
      \/ /\ thread[t].pc # "none"
         /\ thread' = [thread EXCEPT ![t] = [thread[t] EXCEPT !.closed = TRUE]]
  BY <1>0 DEF ReadTimesOut, Live, Ended, ReceiveReply, ReceiveError, Consume
<1>5. /\ \A u \in Connections \ {t} : thread'[u] = thread[u]
      /\ FreshThread(t)'
  <2>1. CASE thread' = [thread EXCEPT ![t] = NoThread]
    BY <1>2, <2>1 DEF TypeInv, CacheTypeOK, FreshThread, NoThread
  <2>2. CASE /\ thread[t].pc # "none"
             /\ thread' = [thread EXCEPT
                            ![t] = [thread[t] EXCEPT !.closed = TRUE]]
    <3>. DEFINE r == [thread[t] EXCEPT !.closed = TRUE]
    <3>1. thread[t] \in ThreadRecords
      BY <1>2, <2>2, StartedThread DEF TypeInv, CacheTypeOK, ThreadsOK
    <3>2. /\ r.pc = thread[t].pc /\ r.key = thread[t].key
          /\ r.version = thread[t].version
      BY <3>1 DEF ThreadRecords
    <3>3. thread' = [thread EXCEPT ![t] = r]
      BY <2>2
    <3>. HIDE DEF r
    <3>4. thread'[t] = r /\ \A u \in Connections \ {t} : thread'[u] = thread[u]
      BY <1>2, <3>3 DEF TypeInv, CacheTypeOK
    <3>. QED
      BY <1>1, <1>2, <3>2, <3>4 DEF FreshInv, FreshThread
  <2>. QED
    BY <1>4, <2>1, <2>2
<1>6. \A u \in Connections : FreshThread(u)'
  BY <1>1, <1>5 DEF FreshInv, FreshThread
<1>7. CASE FreshClient(c)' /\ \A d \in Clients \ {c} : client'[d] = client[d]
  BY <1>1, <1>2, <1>5, <1>6, <1>7, OneClientFresh
<1>8. CASE ReadTimesOut(c)
  BY <1>1, <1>7, <1>8, TryAgainFresh DEF ReadTimesOut
<1>9. CASE ReceiveError(c)
  BY <1>1, <1>7, <1>9, CommandFailsFresh DEF ReceiveError, Finished
<1>10. CASE Command(c, "again")
  BY <1>1, <1>7, <1>10, CommandFresh
<1>11. CASE Finish(c, "done")
  BY <1>1, <1>7, <1>11, FinishFresh DEF Finished
<1>12. ASSUME ReceiveReply(c), client[c].command # "evict"
       PROVE  FreshInv'
  <2>. DEFINE a == thread[t]
              pc == IF Kind[c] = "runner" THEN "load" ELSE "validate"
              r == [client[c] EXCEPT !.pc = pc, !.key = a.key,
                                     !.len = a.handle.len]
  <2>1. a.pc = "replied" /\ client' = [client EXCEPT ![c] = r]
    BY <1>0, <1>12 DEF ReceiveReply, AfterReply
  <2>2. Kind[c] \in {"run", "runner"} => a.key.stamp >= client[c].asked
    <3>1. client[c].command \in {"ensure", "again", "status"}
      BY <1>1, <1>3, <1>12, CountedClient DEF ClientRecords, Counted
    <3>2. Kind[c] \in {"run", "runner"}
            => client[c].command \in {"ensure", "again"}
      BY <3>1 DEF FreshInv, FreshClient
    <3>. QED
      BY <1>0, <1>1, <2>1, <3>2 DEF FreshInv, FreshClient, WorksFor
  <2>3. pc \in {"load", "validate"}
    OBVIOUS
  <2>. HIDE DEF a, pc
  <2>4. /\ r.pc = pc /\ r.key = a.key /\ r.asked = client[c].asked
        /\ r.command = client[c].command /\ r.version = client[c].version
    BY <1>3 DEF ClientRecords
  <2>. HIDE DEF r
  <2>5. client'[c] = r /\ \A d \in Clients \ {c} : client'[d] = client[d]
    BY <2>1 DEF TypeInv, CacheTypeOK
  <2>6. FreshClient(c)'
    BY <1>1, <2>2, <2>3, <2>4, <2>5 DEF FreshInv, FreshClient
  <2>. QED
    BY <1>7, <2>5, <2>6
<1>. QED
  BY <1>8, <1>9, <1>10, <1>11, <1>12 DEF ReceiveReply, AfterReply

-----------------------------------------------------------------------------
LEMMA InitFreshInv == Init => FreshInv
<1>. SUFFICES ASSUME Init PROVE FreshInv
  OBVIOUS
<1>1. DOMAIN snapshot = {}
  BY EmptyDomain DEF Init, ServerInit
<1>2. \A c \in Clients : DataOf[c] \in Paths
  BY ClientAssumption
<1>3. \A c \in Clients : FreshClient(c)
  BY <1>2 DEF Init, ServerInit, FreshClient
<1>. QED
  BY <1>1, <1>3 DEF Init, ServerInit, FreshInv, StampsTell, FreshFiles,
                    FreshThread, NoThread

LEMMA FreshInvStep ==
  ASSUME FineStamps
  PROVE  TypeInv /\ FreshInv /\ [Next]_vars => FreshInv'
<1>. SUFFICES ASSUME TypeInv, FreshInv, [Next]_vars PROVE FreshInv'
  OBVIOUS
<1>1. CASE UNCHANGED vars
  BY <1>1 DEF FreshInv, StampsTell, FreshFiles, Complete, FreshThread,
              FreshClient, WorksFor, Conn, vars, serverVars, envVars, fileVars
<1>2. ASSUME NEW c \in Clients, Begin(c) \/ ClientStep(c) \/ ReadTimesOut(c)
      PROVE  FreshInv'
  BY <1>2, ConnectFresh, ClientAloneFresh, RequestEndsFresh DEF ClientStep
<1>. QED
  BY <1>1, <1>2, ServerStepFresh DEF Next, AllFinished

(* FR-024, as far as stamps tell one version of a dataset from another: a   *)
(* program never reads data older than the dataset was when it started,     *)
(* whatever the number of clients, retries, evictions and crashes.          *)
THEOREM DataFresh ==
  ASSUME FineStamps
  PROVE  Spec => []FreshData
<1>1. FreshInv => FreshData
  BY DEF FreshInv, FreshClient, FreshData
<1>2. TypeInv /\ FreshInv /\ [Next]_vars => FreshInv'
  BY FreshInvStep
<1>. QED
  BY <1>1, <1>2, InitTypeInv, TypeInvStep, InitFreshInv, PTL DEF Spec

-----------------------------------------------------------------------------
(* Programs one after the other.                                            *)

(* A file that is whole, and as long as somebody was told.                  *)
Usable(k, len) ==
  k \in DOMAIN snapshot /\ Complete(k) /\ snapshot[k].len = len

(* One program works at a time, and no thread works but for a program that  *)
(* waits for it.                                                            *)
OneAtATime ==
  /\ \A c, d \in Clients : Working(c) /\ Working(d) => c = d
  /\ \A t \in Connections :
       Live(t) => \E c \in Clients : client[c].pc = "wait" /\ t = Conn(c)

(* Metadata vouches for the file, an entry for its length too.              *)
FilesWhole ==
  /\ \A k \in DOMAIN entries : Usable(k, entries[k].len)
  /\ \A k \in DOMAIN metadata : metadata[k] = "whole" => Complete(k)

WholeThread(t) ==
  /\ thread[t].pc \in {"load", "create"} => thread[t].key \notin DOMAIN snapshot
  /\ thread[t].pc = "write" =>
       /\ snapshot[thread[t].key] = Truncated
       /\ thread[t].key \notin DOMAIN metadata
  /\ thread[t].pc \in {"handle", "metacreate", "metawrite", "insert"}
       => Complete(thread[t].key)
  /\ Holds(t) => Usable(thread[t].key, thread[t].handle.len)

WholeClient(c) ==
  /\ client[c].command = "evict" => Kind[c] \in {"evict", "runner"}
  /\ client[c].pc = "wait" /\ client[c].command # "evict"
       /\ thread[Conn(c)].pc = "replied"
       => Usable(thread[Conn(c)].key, thread[Conn(c)].handle.len)
  /\ client[c].pc \in {"validate", "map", "load"}
       => Usable(client[c].key, client[c].len)
  /\ client[c].pc = "done" /\ Kind[c] # "evict" => client[c].version # 0

WholeInv ==
  /\ OneAtATime /\ FilesWhole
  /\ \A t \in Connections : WholeThread(t)
  /\ \A c \in Clients : WholeClient(c)

(* While the server was never killed, a file is whole or being written, and *)
(* so is its metadata, and no ENSURE was refused.                           *)
NothingTorn ==
  /\ \A k \in DOMAIN snapshot :
       Complete(k) \/ \E t \in Connections : At(t, "write") /\ thread[t].key = k
  /\ \A k \in DOMAIN metadata :
       metadata[k] = "whole"
       \/ \E t \in Connections : At(t, "metawrite") /\ thread[t].key = k

NotRefused(c) ==
  /\ Kind[c] \in {"run", "runner"} =>
       client[c].command # "status" /\ client[c].pc # "refused"
  /\ client[c].pc = "wait" /\ client[c].command \in {"ensure", "again"}
       => thread[Conn(c)].pc \notin {"evict", "status", "refused"}

ServedInv ==
  crashes = 0 => NothingTorn /\ \A c \in Clients : NotRefused(c)

-----------------------------------------------------------------------------
(* Who works.                                                               *)

LEMMA OneLive ==
  ASSUME OneAtATime, NEW t \in Connections, Live(t)
  PROVE  \A u \in Connections : Live(u) => u = t
<1>1. PICK c \in Clients : client[c].pc = "wait" /\ t = Conn(c)
  BY DEF OneAtATime
<1>2. ASSUME NEW u \in Connections, Live(u) PROVE u = t
  <2>1. PICK d \in Clients : client[d].pc = "wait" /\ u = Conn(d)
    BY <1>2 DEF OneAtATime
  <2>2. Working(c) /\ Working(d)
    BY <1>1, <2>1 DEF Working, Finished
  <2>. QED
    BY <1>1, <2>1, <2>2 DEF OneAtATime
<1>. QED
  BY <1>2

(* Nothing runs for a program that does not wait, or waits in vain.         *)
LEMMA NoneLive ==
  ASSUME OneAtATime, NEW c \in Clients, Working(c),
         client[c].pc = "wait" => ~Live(Conn(c))
  PROVE  \A t \in Connections : ~Live(t)
<1>1. ASSUME NEW t \in Connections, Live(t) PROVE FALSE
  <2>1. PICK d \in Clients : client[d].pc = "wait" /\ t = Conn(d)
    BY <1>1 DEF OneAtATime
  <2>2. d = c
    BY <2>1 DEF OneAtATime, Working, Finished
  <2>. QED
    BY <1>1, <2>1, <2>2
<1>. QED
  BY <1>1

LEMMA EndedIsWhole ==
  ASSUME NEW t, ~Live(t)
  PROVE  WholeThread(t)
  BY DEF WholeThread, Live, Ended, Holds, At

(* A step of the one thread that works.                                     *)
LEMMA WholeThreadMoves ==
  ASSUME TypeInv, WholeInv, NEW t \in Connections, Live(t), UNCHANGED client,
         \A u \in Connections \ {t} : thread'[u] = thread[u],
         FilesWhole', WholeThread(t)',
         \A k, len : Usable(k, len) => Usable(k, len)',
         thread[t].pc # "evict" /\ thread'[t].pc = "replied"
           => Usable(thread[t].key, thread[t].handle.len)'
  PROVE  WholeInv'
<1>1. \A u \in Connections \ {t} : ~Live(u) /\ ~Live(u)'
  BY OneLive DEF WholeInv, Live
<1>2. OneAtATime'
  <2>1. PICK c \in Clients : client[c].pc = "wait" /\ t = Conn(c)
    BY DEF WholeInv, OneAtATime
  <2>2. \A u \in Connections : Live(u)' => u = t
    BY <1>1
  <2>3. \A d \in Clients : Working(d)' = Working(d) /\ Conn(d)' = Conn(d)
    BY DEF Working, Conn
  <2>. QED
    BY <2>1, <2>2, <2>3 DEF WholeInv, OneAtATime
<1>3. \A u \in Connections : WholeThread(u)'
  <2>1. ASSUME NEW u \in Connections, u # t PROVE WholeThread(u)'
    BY <1>1, <2>1 DEF WholeThread, Live, Ended, Holds, At
  <2>. QED
    BY <2>1
<1>4. ASSUME NEW c \in Clients PROVE WholeClient(c)'
  <2>2. Conn(c)' = Conn(c)
    BY DEF Conn
  <2>1. ASSUME client[c].pc = "wait", client[c].command # "evict",
               thread'[Conn(c)].pc = "replied"
        PROVE  Usable(thread[Conn(c)].key, thread[Conn(c)].handle.len)'
    <3>1. Conn(c) \in Connections /\ thread[Conn(c)].pc # "evict"
      BY <2>1, ConnInConnections DEF TypeInv, Answered
    <3>2. CASE Conn(c) = t
      BY <2>1, <2>2, <3>1, <3>2
    <3>3. CASE Conn(c) # t
      <4>1. thread'[Conn(c)] = thread[Conn(c)]
        BY <3>1, <3>3
      <4>2. Usable(thread[Conn(c)].key, thread[Conn(c)].handle.len)
        BY <2>1, <4>1 DEF WholeInv, WholeClient
      <4>. QED
        BY <2>2, <4>1, <4>2
    <3>. QED
      BY <3>2, <3>3
  <2>. QED
    BY <2>1, <2>2 DEF WholeInv, WholeClient
<1>. QED
  BY <1>2, <1>3, <1>4 DEF WholeInv

LEMMA SameFiles ==
  ASSUME UNCHANGED snapshot
  PROVE  \A k, len : Usable(k, len)' <=> Usable(k, len)
  BY DEF Usable, Complete

(* It goes on with the key it has, and touches no file.                     *)
LEMMA WholeGoto ==
  ASSUME TypeInv, WholeInv, NEW t \in Connections, Live(t), UNCHANGED client,
         UNCHANGED <<entries, snapshot, metadata>>,
         NEW pc \in ThreadPcs \ {"replied", "refused"}, Goto(t, pc),
         pc \in {"load", "create"} => thread[t].key \notin DOMAIN snapshot,
         pc # "write",
         pc \in {"handle", "metacreate", "metawrite", "insert"}
           => Complete(thread[t].key),
         pc = "insert" \/ (pc \in {"metacreate", "metawrite"} /\ Cold(t))
           => Usable(thread[t].key, thread[t].handle.len)
  PROVE  WholeInv'
<1>1. ThreadsOK /\ thread[t].pc # "none"
  BY DEF TypeInv, CacheTypeOK, ThreadsOK, Live, Ended
<1>2. /\ \A u \in Connections \ {t} : thread'[u] = thread[u]
      /\ thread'[t].pc = pc
      /\ thread'[t].key = thread[t].key
      /\ thread'[t].version = thread[t].version
      /\ thread'[t].handle = thread[t].handle
  BY <1>1, GotoEffect
<1>3. FilesWhole'
  BY SameFiles DEF WholeInv, FilesWhole, Complete
<1>4. WholeThread(t)'
  BY <1>2 DEF WholeThread, Holds, At, Cold, Complete, Usable
<1>. QED
  BY <1>2, <1>3, <1>4, SameFiles, WholeThreadMoves

(* It answers.                                                              *)
LEMMA WholeAnswer ==
  ASSUME TypeInv, WholeInv, NEW t \in Connections, Live(t), UNCHANGED client,
         UNCHANGED <<snapshot, metadata>>,
         NEW pc \in {"replied", "refused"}, NEW k \in Keys,
         NEW h \in Handles \cup {NoHandle}, Answer(t, pc, k, h),
         pc = "replied" /\ thread[t].pc # "evict" => Usable(k, h.len),
         \A j \in DOMAIN entries' : Usable(j, entries'[j].len)
  PROVE  WholeInv'
<1>1. ThreadsOK /\ thread[t].pc # "none"
  BY DEF TypeInv, CacheTypeOK, ThreadsOK, Live, Ended
<1>2. /\ \A u \in Connections \ {t} : thread'[u] = thread[u]
      /\ \/ thread'[t] = NoThread
         \/ thread'[t].pc = pc /\ thread'[t].key = k /\ thread'[t].handle = h
  BY <1>1, AnswerEffect
<1>3. FilesWhole'
  BY DEF WholeInv, FilesWhole, Complete, Usable
<1>4. ~Live(t)'
  BY <1>2 DEF Live, Ended, NoThread
<1>5. WholeThread(t)'
  BY <1>4 DEF WholeThread, Live, Ended, Holds, At
<1>6. thread[t].pc # "evict" /\ thread'[t].pc = "replied"
        => Usable(thread[t].key, thread[t].handle.len)'
  BY <1>2 DEF Usable, Complete, NoThread
<1>. QED
  BY <1>2, <1>3, <1>5, <1>6, SameFiles, WholeThreadMoves

(* A look-up finds nothing, or what an entry or the metadata vouches for.   *)
LEMMA LookupStepWhole ==
  ASSUME TypeInv, WholeInv, NEW t \in Connections, UNCHANGED client,
         \/ FingerprintDataset(t) \/ LookupByKey(t) \/ CheckSnapshot(t)
         \/ RestoreSnapshot(t) \/ LoadParquet(t) \/ Status(t)
  PROVE  WholeInv'
<1>. USE DEF At
<1>1. /\ ThreadsOK /\ Live(t) /\ thread[t].pc # "none"
      /\ UNCHANGED <<entries, snapshot, metadata>>
  BY DEF TypeInv, CacheTypeOK, ThreadsOK, Live, Ended, FingerprintDataset,
         LookupByKey, CheckSnapshot, RestoreSnapshot, LoadParquet, Status,
         storeVars, fileVars
<1>2. thread[t] \in ThreadRecords
  BY <1>1, StartedThread
<1>3. thread[t].key \in Keys /\ NoHandle \in Handles \cup {NoHandle}
  BY <1>2 DEF ThreadRecords
<1>4. \A k \in DOMAIN entries :
        /\ k \in Keys /\ entries[k] \in Handles \cup {NoHandle}
        /\ Usable(k, entries[k].len) /\ Usable(k, entries'[k].len)
  BY <1>1 DEF TypeInv, CacheTypeOK, WholeInv, FilesWhole
<1>5. CASE Refuse(t)
  BY <1>1, <1>3, <1>4, <1>5, WholeAnswer DEF Refuse
<1>6. ASSUME NEW k \in DOMAIN entries, Reply(t, k, entries[k])
      PROVE  WholeInv'
  <2>1. Answer(t, "replied", k, entries[k])
    BY <1>6 DEF Reply
  <2>. QED
    BY <1>1, <1>4, <2>1, WholeAnswer
<1>7. CASE FingerprintDataset(t) \/ LoadParquet(t)
  <2>1. \A u \in Connections \ {t} : thread'[u] = thread[u]
    BY <1>1, <1>7 DEF FingerprintDataset, LoadParquet, ThreadsOK
  <2>2. thread'[t].pc = "lookup"
        \/ /\ thread'[t].pc = "create" /\ thread[t].pc = "load"
           /\ thread'[t].key = thread[t].key
    BY <1>1, <1>2, <1>7
       DEF FingerprintDataset, LoadParquet, ThreadsOK, ThreadRecords
  <2>3. WholeThread(t)'
    BY <1>1, <2>2 DEF WholeInv, WholeThread, Holds
  <2>4. FilesWhole'
    BY <1>1, SameFiles DEF WholeInv, FilesWhole, Complete
  <2>. QED
    BY <1>1, <2>1, <2>2, <2>3, <2>4, SameFiles, WholeThreadMoves
<1>8. CASE LookupByKey(t)
  <2>1. CASE Goto(t, "check")
    BY <1>1, <2>1, WholeGoto DEF ThreadPcs
  <2>. QED
    BY <1>6, <1>8, <2>1 DEF LookupByKey
<1>9. CASE CheckSnapshot(t)
  <2>1. CASE thread[t].key \notin DOMAIN snapshot /\ Goto(t, "load")
    BY <1>1, <2>1, WholeGoto DEF ThreadPcs
  <2>2. CASE Goto(t, "restore")
    BY <1>1, <2>2, WholeGoto DEF ThreadPcs
  <2>3. CASE /\ thread[t].key \in DOMAIN metadata
             /\ metadata[thread[t].key] = "whole" /\ Goto(t, "handle")
    <3>1. Complete(thread[t].key)
      BY <2>3 DEF WholeInv, FilesWhole
    <3>. QED
      BY <1>1, <2>3, <3>1, WholeGoto DEF ThreadPcs
  <2>. QED
    BY <1>5, <1>9, <2>1, <2>2, <2>3 DEF CheckSnapshot
<1>10. CASE RestoreSnapshot(t)
  <2>1. CASE Complete(thread[t].key) /\ Goto(t, "metacreate")
    <3>1. ~Cold(t)
      BY <1>10 DEF RestoreSnapshot, TypeInv, OnItsWay, Cold
    <3>. QED
      BY <1>1, <2>1, <3>1, WholeGoto DEF ThreadPcs
  <2>. QED
    BY <1>5, <1>10, <2>1 DEF RestoreSnapshot
<1>11. CASE Status(t)
  BY <1>5, <1>6, <1>11 DEF Status, EntriesOf
<1>. QED
  BY <1>7, <1>8, <1>9, <1>10, <1>11

(* The snapshot is written by the one thread that found none.               *)
LEMMA SnapshotStepWhole ==
  ASSUME TypeInv, WholeInv, NEW t \in Connections, UNCHANGED client,
         CreateSnapshot(t) \/ WriteSnapshot(t)
  PROVE  WholeInv'
<1>. USE DEF At
<1>. DEFINE k == thread[t].key
<1>1. /\ ThreadsOK /\ Live(t) /\ thread[t].pc \in {"create", "write"}
      /\ UNCHANGED <<entries, metadata>>
  BY DEF TypeInv, CacheTypeOK, ThreadsOK, Live, Ended, CreateSnapshot,
         WriteSnapshot, storeVars
<1>2. thread[t] \in ThreadRecords /\ OnItsWay(t) /\ WholeThread(t)
  BY <1>1, StartedThread DEF TypeInv, WholeInv
<1>3. thread[t].version \in 1 .. MaxVersion
  BY <1>1, <1>2, CacheAssumption DEF ThreadRecords, OnItsWay
<1>4. /\ \A j \in DOMAIN entries : Usable(j, entries[j].len)
      /\ \A j \in DOMAIN metadata : metadata[j] = "whole" => Complete(j)
      /\ DOMAIN metadata \subseteq DOMAIN snapshot
  BY DEF WholeInv, FilesWhole, TypeInv, CacheTypeOK
<1>5. k \notin DOMAIN metadata /\ \A len : ~Usable(k, len)
  BY <1>1, <1>2, <1>4 DEF WholeThread, Usable, Complete, Truncated
<1>6. PICK file :
        /\ snapshot' = With(snapshot, k, file)
        /\ thread[t].pc = "create" => file = Truncated /\ Goto(t, "write")
        /\ thread[t].pc = "write" => file.version # 0 /\ Goto(t, "handle")
  <2>1. CASE CreateSnapshot(t)
    BY <2>1 DEF CreateSnapshot, WriteTo
  <2>2. CASE WriteSnapshot(t)
    <3>. DEFINE file == Written(snapshot[k], thread[t].version)
    <3>1. snapshot[k].len = 0 /\ thread[t].pc = "write"
      BY <1>2, <2>2 DEF WriteSnapshot, WholeThread, Truncated
    <3>2. Length[thread[t].version] \in Nat \ {0}
      BY <1>3, CacheAssumption
    <3>3. file.version = thread[t].version
      BY <3>1, <3>2 DEF Written
    <3>4. snapshot' = With(snapshot, k, file) /\ Goto(t, "handle")
      BY <2>2 DEF WriteSnapshot, WriteTo
    <3>. HIDE DEF file
    <3>. QED
      BY <1>3, <3>1, <3>3, <3>4
  <2>. QED
    BY <2>1, <2>2
<1>7. ThreadPcs \cap {"write", "handle"} = {"write", "handle"}
  BY DEF ThreadPcs
<1>8. /\ \A u \in Connections \ {t} : thread'[u] = thread[u]
      /\ thread'[t].key = k
      /\ thread[t].pc = "create" => thread'[t].pc = "write"
      /\ thread[t].pc = "write" => thread'[t].pc = "handle"
  <2>1. PICK pc \in {"write", "handle"} :
          /\ Goto(t, pc)
          /\ thread[t].pc = "create" => pc = "write"
          /\ thread[t].pc = "write" => pc = "handle"
    BY <1>1, <1>6
  <2>. QED
    BY <1>1, <1>7, <2>1, GotoEffect
<1>. HIDE DEF k
<1>9. /\ k \in DOMAIN snapshot' /\ snapshot'[k] = file
      /\ \A j \in DOMAIN snapshot \ {k} :
           j \in DOMAIN snapshot' /\ snapshot'[j] = snapshot[j]
  BY <1>6 DEF With
<1>10. \A j, len : Usable(j, len) => Usable(j, len)'
  BY <1>5, <1>9 DEF Usable, Complete
<1>11. FilesWhole'
  <2>1. \A j \in DOMAIN entries' : Usable(j, entries[j].len)'
    BY <1>1, <1>4, <1>10 DEF Usable, Complete
  <2>2. ASSUME NEW j \in DOMAIN metadata, metadata[j] = "whole"
        PROVE  Complete(j)'
    BY <1>4, <1>5, <1>9, <2>2 DEF Complete
  <2>. QED
    BY <1>1, <2>1, <2>2 DEF FilesWhole
<1>12. WholeThread(t)'
  BY <1>1, <1>5, <1>6, <1>8, <1>9 DEF WholeThread, Complete, Holds
<1>. QED
  BY <1>1, <1>8, <1>10, <1>11, <1>12, WholeThreadMoves

(* Handle and metadata describe the file as it is.                          *)
LEMMA DescriptionStepWhole ==
  ASSUME TypeInv, WholeInv, NEW t \in Connections, UNCHANGED client,
         BuildHandle(t) \/ CreateMetadata(t) \/ WriteMetadata(t)
  PROVE  WholeInv'
<1>. USE DEF At
<1>. DEFINE k == thread[t].key
<1>1. /\ ThreadsOK /\ Live(t) /\ thread[t].pc # "none"
      /\ UNCHANGED <<entries, snapshot>>
      /\ thread[t].pc \in {"handle", "metacreate", "metawrite"}
  BY DEF TypeInv, CacheTypeOK, ThreadsOK, Live, Ended, BuildHandle,
         CreateMetadata, WriteMetadata, storeVars, fileVars
<1>2. thread[t] \in ThreadRecords /\ OnItsWay(t) /\ WholeThread(t)
  BY <1>1, StartedThread DEF TypeInv, WholeInv
<1>3. Complete(k) /\ k \in DOMAIN snapshot
  BY <1>1, <1>2 DEF WholeThread, OnItsWay, FilePcs
<1>. DEFINE Moved ==
              /\ \A u \in Connections \ {t} : thread'[u] = thread[u]
              /\ thread'[t].pc \in {"handle", "metacreate", "metawrite", "insert"}
              /\ thread'[t].key = k /\ thread'[t].version = thread[t].version
              /\ Holds(t)' => Usable(k, thread'[t].handle.len)
<1>4. Moved
  <2>1. CASE BuildHandle(t)
    BY <1>1, <1>2, <1>3, <2>1
       DEF BuildHandle, ThreadsOK, ThreadRecords, Handle, Usable
  <2>2. ASSUME NEW pc \in {"handle", "metawrite", "insert"}, Goto(t, pc),
               pc # "handle" /\ (pc = "insert" \/ Cold(t)) => Holds(t)
        PROVE  Moved
    <3>1. pc \in ThreadPcs
      BY DEF ThreadPcs
    <3>2. /\ \A u \in Connections \ {t} : thread'[u] = thread[u]
          /\ thread'[t].pc = pc /\ thread'[t].key = k
          /\ thread'[t].version = thread[t].version
          /\ thread'[t].handle = thread[t].handle
      BY <1>1, <2>2, <3>1, GotoEffect
    <3>. QED
      BY <1>2, <2>2, <3>2 DEF WholeThread, Holds, Cold
  <2>3. CASE CreateMetadata(t)
    BY <2>2, <2>3 DEF CreateMetadata, Holds
  <2>4. CASE WriteMetadata(t)
    BY <2>2, <2>4 DEF WriteMetadata, Holds
  <2>. QED
    BY <2>1, <2>3, <2>4
<1>5. \/ UNCHANGED metadata
      \/ \E state : metadata' = With(metadata, k, state)
  BY DEF BuildHandle, CreateMetadata, WriteMetadata, WriteMetadataTo, fileVars
<1>6. ASSUME NEW j \in DOMAIN metadata', metadata'[j] = "whole"
      PROVE  Complete(j)
  BY <1>3, <1>5, <1>6 DEF With, WholeInv, FilesWhole
<1>7. FilesWhole'
  BY <1>1, <1>6, SameFiles DEF WholeInv, FilesWhole, Complete
<1>8. WholeThread(t)'
  BY <1>1, <1>3, <1>4 DEF WholeThread, Complete, Usable
<1>9. thread'[t].pc # "replied"
  BY <1>4
<1>. HIDE DEF k
<1>. QED
  BY <1>1, <1>4, <1>7, <1>8, <1>9, SameFiles, WholeThreadMoves

(* What is answered, and what stays in the store.                           *)
LEMMA StoreStepWhole ==
  ASSUME TypeInv, WholeInv, NEW t \in Connections, UNCHANGED client,
         InsertPreparedEntry(t) \/ Evict(t)
  PROVE  WholeInv'
<1>. USE DEF At
<1>. DEFINE k == thread[t].key
<1>1. /\ ThreadsOK /\ Live(t) /\ thread[t].pc # "none"
      /\ UNCHANGED <<snapshot, metadata>>
  BY DEF TypeInv, CacheTypeOK, ThreadsOK, Live, Ended, InsertPreparedEntry,
         Evict, fileVars
<1>2. k \in Keys /\ NoHandle \in Handles \cup {NoHandle}
  BY <1>1, StartedThread DEF ThreadRecords
<1>3. \A j \in DOMAIN entries :
        Usable(j, entries[j].len) /\ entries[j] \in Handles
  BY DEF WholeInv, FilesWhole, TypeInv, CacheTypeOK
<1>4. CASE InsertPreparedEntry(t)
  <2>1. thread[t].handle \in Handles /\ Usable(k, thread[t].handle.len)
    BY <1>4 DEF InsertPreparedEntry, TypeInv, WholeInv, WholeThread, OnItsWay,
                Holds
  <2>2. PICK h \in Handles : Answer(t, "replied", k, h) /\ Usable(k, h.len)
    BY <1>3, <1>4, <2>1 DEF InsertPreparedEntry, Reply
  <2>3. entries' = entries \/ entries' = With(entries, k, thread[t].handle)
    BY <1>4 DEF InsertPreparedEntry
  <2>. HIDE DEF k
  <2>4. \A j \in DOMAIN entries' : Usable(j, entries'[j].len)
    BY <1>3, <2>1, <2>3 DEF With
  <2>. QED
    BY <1>1, <1>2, <2>2, <2>4, WholeAnswer
<1>5. CASE Evict(t)
  <2>1. Answer(t, "replied", k, NoHandle)
    BY <1>5 DEF Evict, Reply
  <2>2. \A j \in DOMAIN entries' : Usable(j, entries'[j].len)
    BY <1>3, <1>5 DEF Evict, Restrict
  <2>3. thread[t].pc = "evict"
    BY <1>5 DEF Evict
  <2>. HIDE DEF k
  <2>. QED
    BY <1>1, <1>2, <2>1, <2>2, <2>3, WholeAnswer
<1>. QED
  BY <1>4, <1>5

LEMMA WholeSame ==
  ASSUME WholeInv, UNCHANGED <<entries, snapshot, metadata, thread, client>>
  PROVE  WholeInv'
<1>1. OneAtATime'
  BY DEF WholeInv, OneAtATime, Working, Live, Conn
<1>2. FilesWhole'
  BY DEF WholeInv, FilesWhole, Complete, Usable
<1>3. \A t \in Connections : WholeThread(t)'
  BY DEF WholeInv, WholeThread, Holds, At, Cold, Complete, Usable
<1>4. \A c \in Clients : WholeClient(c)'
  BY DEF WholeInv, WholeClient, Conn, Complete, Usable
<1>. QED
  BY <1>1, <1>2, <1>3, <1>4 DEF WholeInv

(* A crash leaves files that are not whole: but nobody vouches for them.    *)
LEMMA CrashWhole ==
  ASSUME TypeInv, WholeInv, UNCHANGED client, Crash
  PROVE  WholeInv'
<1>1. /\ UNCHANGED <<snapshot, metadata>> /\ entries' = << >>
      /\ thread' = [t \in Connections |->
                      IF Live(t) THEN NoThread ELSE thread[t]]
  BY DEF Crash, fileVars
<1>2. \A t \in Connections : thread'[t] = NoThread \/ thread'[t] = thread[t]
  BY <1>1
<1>3. \A t \in Connections : ~Live(t)'
  BY <1>1 DEF Live, Ended, NoThread
<1>4. OneAtATime'
  BY <1>3 DEF WholeInv, OneAtATime, Working
<1>5. FilesWhole'
  BY <1>1, EmptyDomain DEF WholeInv, FilesWhole, Complete
<1>6. \A t \in Connections : WholeThread(t)'
  BY <1>3 DEF WholeThread, Live, Ended, Holds, At
<1>7. ASSUME NEW c \in Clients PROVE WholeClient(c)'
  <2>1. Conn(c)' = Conn(c) /\ (client[c].pc = "wait" => Conn(c) \in Connections)
    BY ConnInConnections DEF TypeInv, Conn
  <2>2. client[c].pc = "wait"
          => thread'[Conn(c)] = NoThread \/ thread'[Conn(c)] = thread[Conn(c)]
    BY <1>2, <2>1
  <2>. QED
    BY <1>1, <2>1, <2>2 DEF WholeInv, WholeClient, NoThread, Usable, Complete
<1>. QED
  BY <1>4, <1>5, <1>6, <1>7 DEF WholeInv

LEMMA ServerStepWhole ==
  ASSUME TypeInv, WholeInv, ServerStep
  PROVE  WholeInv'
<1>1. UNCHANGED client
  BY DEF ServerStep
<1>2. CASE Restart \/ \E p \in Paths : RewriteDataset(p)
  BY <1>1, <1>2, WholeSame DEF Restart, RewriteDataset, storeVars, fileVars
<1>. QED
  BY <1>1, <1>2, LookupStepWhole, SnapshotStepWhole, DescriptionStepWhole,
     StoreStepWhole, CrashWhole DEF ServerStep, ThreadStep, EnsureStep

-----------------------------------------------------------------------------
(* A step of the one program that works, but for that which starts a        *)
(* thread.                                                                  *)
LEMMA OneClientWhole ==
  ASSUME TypeInv, WholeInv, NEW c \in Clients, Working(c),
         client[c].pc = "wait" => ~Live(Conn(c)),
         UNCHANGED <<entries, snapshot, metadata>>,
         \A d \in Clients \ {c} : client'[d] = client[d],
         \A t \in Connections : thread'[t] \in {thread[t], NoThread},
         client'[c].pc # "wait",
         client'[c].command = "evict" => Kind[c] \in {"evict", "runner"},
         client'[c].pc \in {"validate", "map", "load"}
           => Usable(client[c].key, client[c].len)',
         client'[c].pc = "done" /\ Kind[c] # "evict" => client'[c].version # 0
  PROVE  WholeInv'
<1>1. \A t \in Connections : ~Live(t)'
  BY NoneLive DEF WholeInv, Live, Ended, NoThread
<1>2. OneAtATime'
  BY <1>1 DEF WholeInv, OneAtATime, Working
<1>3. FilesWhole'
  BY SameFiles DEF WholeInv, FilesWhole, Complete
<1>4. \A t \in Connections : WholeThread(t)'
  BY <1>1 DEF WholeThread, Live, Ended, Holds, At
<1>5. ASSUME NEW d \in Clients, d # c PROVE WholeClient(d)'
  <2>1. ~Working(d) /\ client'[d] = client[d]
    BY <1>5 DEF WholeInv, OneAtATime
  <2>. QED
    BY <2>1 DEF WholeInv, WholeClient, Working, Finished
<1>6. WholeClient(c)'
  BY DEF WholeClient
<1>. QED
  BY <1>2, <1>3, <1>4, <1>5, <1>6 DEF WholeInv

LEMMA BeginWhole ==
  ASSUME ~Overlap, TypeInv, WholeInv, NEW c \in Clients, Begin(c)
  PROVE  WholeInv'
<1>1. /\ \A d \in Clients : ~Working(d)
      /\ \A t \in Connections : ~Live(t)
      /\ UNCHANGED <<thread, entries, snapshot, metadata>>
  BY DEF Begin, serverVars, storeVars, fileVars
<1>. DEFINE first == FirstCommand[Kind[c]]
            r == [client[c] EXCEPT !.pc = "send", !.command = first,
                                   !.asked = dataset[DataOf[c]].version]
<1>2. client' = [client EXCEPT ![c] = r]
  BY DEF Begin
<1>3. r.pc = "send" /\ r.command = first
  BY CountedClient DEF ClientRecords
<1>4. first = "evict" => Kind[c] = "evict"
  BY ClientAssumption DEF Kinds, FirstCommand
<1>. HIDE DEF r, first
<1>5. client'[c] = r /\ \A d \in Clients \ {c} : client'[d] = client[d]
  BY <1>2 DEF TypeInv, CacheTypeOK
<1>6. OneAtATime'
  BY <1>1, <1>5 DEF OneAtATime, Working, Live
<1>7. FilesWhole'
  BY <1>1, SameFiles DEF WholeInv, FilesWhole, Complete
<1>8. \A t \in Connections : WholeThread(t)'
  BY <1>1 DEF WholeThread, Live, Ended, Holds, At
<1>9. ASSUME NEW d \in Clients, d # c PROVE WholeClient(d)'
  <2>1. ~Working(d) /\ client'[d] = client[d]
    BY <1>1, <1>5, <1>9
  <2>. QED
    BY <2>1 DEF WholeInv, WholeClient, Working, Finished
<1>10. WholeClient(c)'
  BY <1>3, <1>4, <1>5 DEF WholeClient
<1>. QED
  BY <1>6, <1>7, <1>8, <1>9, <1>10 DEF WholeInv

LEMMA ConnectWhole ==
  ASSUME TypeInv, WholeInv, NEW c \in Clients, Connect(c)
  PROVE  WholeInv'
<1>. DEFINE n == client[c].sends + 1
            r == [client[c] EXCEPT !.pc = "wait", !.sends = n,
                                   !.attempt = client[c].attempt + 1]
            first == Entry[client[c].command]
            new == Thread(first, DataOf[c])
<1>1. /\ UNCHANGED <<entries, snapshot, metadata>>
      /\ client[c].pc = "send"
      /\ client' = [client EXCEPT ![c] = r]
      /\ thread' = [thread EXCEPT ![<<c, n>>] = new]
  BY DEF Connect, storeVars, fileVars
<1>2. /\ client[c] \in ClientRecords
      /\ client[c].command \in {"ensure", "again", "status", "evict"}
  BY <1>1, CountedClient DEF ClientRecords, Counted
<1>3. new.pc \in {"fingerprint", "status", "evict"}
  BY <1>2 DEF Thread, Entry
<1>4. <<c, n>> \in Connections
  BY <1>1, NextConnection
<1>. HIDE DEF n, first, new
<1>5. /\ r.pc = "wait" /\ r.sends = n /\ r.command = client[c].command
  BY <1>2 DEF ClientRecords
<1>. HIDE DEF r
<1>6. client'[c] = r /\ \A d \in Clients \ {c} : client'[d] = client[d]
  BY <1>1 DEF TypeInv, CacheTypeOK
<1>7. /\ thread'[<<c, n>>] = new
      /\ \A t \in Connections : t # <<c, n>> => thread'[t] = thread[t]
  BY <1>1, <1>4 DEF TypeInv, CacheTypeOK
<1>8. Working(c) /\ \A t \in Connections : ~Live(t)
  BY <1>1, NoneLive DEF WholeInv, Working, Finished
<1>9. Conn(c)' = <<c, n>>
  BY <1>5, <1>6 DEF Conn
<1>10. \A t \in Connections : Live(t)' => t = <<c, n>>
  BY <1>7, <1>8 DEF Live
<1>11. OneAtATime'
  <2>1. \A d \in Clients : Working(d)' => Working(d)
    BY <1>6, <1>8 DEF Working
  <2>2. client'[c].pc = "wait"
    BY <1>5, <1>6
  <2>. QED
    BY <1>9, <1>10, <2>1, <2>2 DEF WholeInv, OneAtATime
<1>12. FilesWhole'
  BY <1>1, SameFiles DEF WholeInv, FilesWhole, Complete
<1>13. ASSUME NEW t \in Connections PROVE WholeThread(t)'
  <2>1. CASE t = <<c, n>>
    BY <1>3, <1>7, <2>1 DEF WholeThread, Holds, At
  <2>2. CASE t # <<c, n>>
    BY <1>7, <1>8, <2>2 DEF WholeThread, Live, Ended, Holds, At
  <2>. QED
    BY <2>1, <2>2
<1>14. ASSUME NEW d \in Clients, d # c PROVE WholeClient(d)'
  <2>1. ~Working(d) /\ client'[d] = client[d]
    BY <1>6, <1>8, <1>14 DEF WholeInv, OneAtATime
  <2>. QED
    BY <2>1 DEF WholeInv, WholeClient, Working, Finished
<1>15. WholeClient(c)'
  BY <1>3, <1>5, <1>6, <1>7, <1>9 DEF WholeInv, WholeClient
<1>. QED
  BY <1>11, <1>12, <1>13, <1>14, <1>15 DEF WholeInv

(* How a command ends without an answer that can be used.                   *)
LEMMA FinishWhole ==
  ASSUME TypeInv, WholeInv, NEW c \in Clients, Working(c),
         client[c].pc = "wait" => ~Live(Conn(c)),
         UNCHANGED <<entries, snapshot, metadata>>,
         \A t \in Connections : thread'[t] \in {thread[t], NoThread},
         NEW pc \in Finished \cup {"send"}, Finish(c, pc),
         pc = "done" => Kind[c] = "evict"
  PROVE  WholeInv'
<1>1. /\ client'[c] = [client[c] EXCEPT !.pc = pc]
      /\ \A d \in Clients \ {c} : client'[d] = client[d]
  BY FinishEffect DEF TypeInv, CacheTypeOK, ClientsOK, ClientPcs
<1>2. client'[c].pc = pc /\ client'[c].command = client[c].command
  BY <1>1, CountedClient DEF ClientRecords
<1>3. client'[c].command = "evict" => Kind[c] \in {"evict", "runner"}
  BY <1>2 DEF WholeInv, WholeClient
<1>. QED
  BY <1>1, <1>2, <1>3, OneClientWhole DEF Finished

LEMMA CommandWhole ==
  ASSUME TypeInv, WholeInv, NEW c \in Clients, Working(c),
         client[c].pc = "wait" => ~Live(Conn(c)),
         UNCHANGED <<entries, snapshot, metadata>>,
         \A t \in Connections : thread'[t] \in {thread[t], NoThread},
         NEW command \in {"evict", "again"}, Command(c, command),
         Kind[c] = "runner"
  PROVE  WholeInv'
<1>1. /\ client'[c] = [client[c] EXCEPT !.pc = "send", !.command = command,
                                       !.attempt = 0]
      /\ \A d \in Clients \ {c} : client'[d] = client[d]
  BY CommandEffect DEF TypeInv, CacheTypeOK, ClientsOK
<1>2. client'[c].pc = "send"
  BY <1>1, CountedClient DEF ClientRecords
<1>. QED
  BY <1>1, <1>2, OneClientWhole

LEMMA CommandFailsWhole ==
  ASSUME TypeInv, WholeInv, NEW c \in Clients, Working(c),
         client[c].pc = "wait" => ~Live(Conn(c)),
         UNCHANGED <<entries, snapshot, metadata>>,
         \A t \in Connections : thread'[t] \in {thread[t], NoThread},
         NEW pc \in Finished \ {"done"}, CommandFails(c, pc)
  PROVE  WholeInv'
  BY FinishWhole, CommandWhole DEF CommandFails

(* A program that waits reads what its thread left.                         *)
LEMMA RequestEndsWhole ==
  ASSUME TypeInv, WholeInv, NEW c \in Clients,
         EmptyResponse(c) \/ ReceiveReply(c) \/ ReceiveError(c)
  PROVE  WholeInv'
<1>1. /\ client[c].pc = "wait" /\ Working(c) /\ ~Live(Conn(c))
      /\ UNCHANGED <<entries, snapshot, metadata>>
  BY DEF EmptyResponse, ReceiveReply, ReceiveError, Consume, serverVars,
         storeVars, fileVars, Working, Finished, Live, Ended
<1>2. ASSUME NEW t \in Connections PROVE thread'[t] \in {thread[t], NoThread}
  BY DEF EmptyResponse, ReceiveReply, ReceiveError, Consume, serverVars,
         TypeInv, CacheTypeOK
<1>3. CASE EmptyResponse(c)
  <2>1. Finish(c, "send") \/ CommandFails(c, "unreachable")
    BY <1>3 DEF EmptyResponse, TryAgain
  <2>. QED
    BY <1>1, <1>2, <2>1, FinishWhole, CommandFailsWhole DEF Finished
<1>4. CASE ReceiveError(c)
  <2>1. CommandFails(c, "refused")
    BY <1>4 DEF ReceiveError
  <2>. QED
    BY <1>1, <1>2, <2>1, CommandFailsWhole DEF Finished
<1>5. CASE ReceiveReply(c) /\ client[c].command = "evict"
  <2>1. CASE Kind[c] = "runner"
    <3>1. Command(c, "again")
      BY <1>5, <2>1 DEF ReceiveReply, AfterReply
    <3>. QED
      BY <1>1, <1>2, <2>1, <3>1, CommandWhole
  <2>2. CASE Kind[c] # "runner"
    <3>1. Finish(c, "done") /\ Kind[c] = "evict"
      BY <1>5, <2>2 DEF ReceiveReply, AfterReply, WholeInv, WholeClient
    <3>. QED
      BY <1>1, <1>2, <3>1, FinishWhole DEF Finished
  <2>. QED
    BY <2>1, <2>2
<1>6. CASE ReceiveReply(c) /\ client[c].command # "evict"
  <2>. DEFINE a == thread[Conn(c)]
              pc == IF Kind[c] = "runner" THEN "load" ELSE "validate"
              r == [client[c] EXCEPT !.pc = pc, !.key = a.key,
                                     !.len = a.handle.len]
  <2>1. a.pc = "replied" /\ client' = [client EXCEPT ![c] = r]
    BY <1>6 DEF ReceiveReply, AfterReply
  <2>2. Usable(a.key, a.handle.len)
    BY <1>1, <1>6, <2>1 DEF WholeInv, WholeClient
  <2>3. pc \in {"load", "validate"}
    OBVIOUS
  <2>. HIDE DEF a, pc
  <2>4. /\ r.pc = pc /\ r.key = a.key /\ r.len = a.handle.len
        /\ r.command = client[c].command
    BY CountedClient DEF ClientRecords
  <2>. HIDE DEF r
  <2>5. client'[c] = r /\ \A d \in Clients \ {c} : client'[d] = client[d]
    BY <2>1 DEF TypeInv, CacheTypeOK
  <2>6. Usable(client[c].key, client[c].len)'
    BY <1>1, <2>2, <2>4, <2>5 DEF Usable, Complete
  <2>. QED
    BY <1>1, <1>2, <1>6, <2>3, <2>4, <2>5, <2>6, OneClientWhole
<1>. QED
  BY <1>3, <1>4, <1>5, <1>6

(* A program that reads the file by itself.                                 *)
LEMMA ReadsWhole ==
  ASSUME TypeInv, WholeInv, NEW c \in Clients,
         \/ ConnectionRefused(c)
         \/ ValidateHandle(c) \/ MapSnapshot(c) \/ LoadSnapshot(c)
  PROVE  WholeInv'
<1>1. /\ client[c].pc \in {"send", "validate", "map", "load"} /\ Working(c)
      /\ client[c] \in ClientRecords
      /\ UNCHANGED <<thread, entries, snapshot, metadata>>
  BY CountedClient
     DEF ConnectionRefused, ValidateHandle, MapSnapshot, LoadSnapshot,
         serverVars, storeVars, fileVars, Working, Finished
<1>2. /\ client[c].command = "evict" => Kind[c] \in {"evict", "runner"}
      /\ client[c].pc \in {"validate", "map", "load"}
           => Usable(client[c].key, client[c].len)
  BY DEF WholeInv, WholeClient
<1>3. ASSUME NEW v, Use(c, v), v # 0
      PROVE  WholeInv'
  <2>. DEFINE r == [client[c] EXCEPT !.pc = "done", !.version = v]
  <2>1. client' = [client EXCEPT ![c] = r]
    BY <1>3 DEF Use
  <2>2. r.pc = "done" /\ r.version = v /\ r.command = client[c].command
    BY <1>1 DEF ClientRecords
  <2>. HIDE DEF r
  <2>3. client'[c] = r /\ \A d \in Clients \ {c} : client'[d] = client[d]
    BY <2>1 DEF TypeInv, CacheTypeOK
  <2>. QED
    BY <1>1, <1>2, <1>3, <2>2, <2>3, OneClientWhole
<1>4. CASE ConnectionRefused(c)
  <2>1. CASE CommandFails(c, "unreachable")
    BY <1>1, <1>4, <2>1, CommandFailsWhole DEF ConnectionRefused, Finished
  <2>2. CASE client' = [client EXCEPT ![c].attempt = @ + 1]
    <3>. DEFINE r == [client[c] EXCEPT !.attempt = client[c].attempt + 1]
    <3>1. client' = [client EXCEPT ![c] = r] /\ client[c].pc = "send"
      BY <1>4, <2>2 DEF ConnectionRefused
    <3>2. r.pc = client[c].pc /\ r.command = client[c].command
      BY <1>1 DEF ClientRecords
    <3>. HIDE DEF r
    <3>3. client'[c] = r /\ \A d \in Clients \ {c} : client'[d] = client[d]
      BY <3>1 DEF TypeInv, CacheTypeOK
    <3>. QED
      BY <1>1, <1>2, <3>1, <3>2, <3>3, OneClientWhole
  <2>. QED
    BY <1>4, <2>1, <2>2 DEF ConnectionRefused
<1>5. CASE ValidateHandle(c)
  <2>1. Finish(c, "map")
    BY <1>2, <1>5 DEF ValidateHandle, Usable
  <2>2. /\ client'[c] = [client[c] EXCEPT !.pc = "map"]
        /\ \A d \in Clients \ {c} : client'[d] = client[d]
    BY <2>1, FinishEffect DEF TypeInv, CacheTypeOK, ClientsOK, ClientPcs
  <2>3. /\ client'[c].pc = "map" /\ client'[c].command = client[c].command
        /\ client'[c].key = client[c].key /\ client'[c].len = client[c].len
    BY <1>1, <2>2 DEF ClientRecords
  <2>4. Usable(client[c].key, client[c].len)'
    BY <1>1, <1>2, <1>5, <2>3 DEF ValidateHandle, Usable, Complete
  <2>. QED
    BY <1>1, <1>2, <1>5, <2>2, <2>3, <2>4, OneClientWhole DEF ValidateHandle
<1>6. CASE MapSnapshot(c)
  BY <1>2, <1>3, <1>6 DEF MapSnapshot, Usable, Complete
<1>7. CASE LoadSnapshot(c)
  BY <1>2, <1>3, <1>7 DEF LoadSnapshot, Usable, Complete
<1>. QED
  BY <1>4, <1>5, <1>6, <1>7

LEMMA InitWhole == Init => WholeInv
<1>. SUFFICES ASSUME Init PROVE WholeInv
  OBVIOUS
<1>1. /\ \A t \in Connections : thread[t].pc = "none"
      /\ DOMAIN entries = {} /\ DOMAIN metadata = {}
  BY EmptyDomain DEF Init, ServerInit, NoThread
<1>2. \A c \in Clients : client[c].pc = "idle" /\ client[c].command = "none"
  BY DEF Init
<1>. QED
  BY <1>1, <1>2
     DEF WholeInv, OneAtATime, FilesWhole, WholeThread, WholeClient, Live,
         Ended, Working, Holds, At

LEMMA WholeInvStep ==
  ASSUME ~Overlap, ~TimesOut
  PROVE  TypeInv /\ WholeInv /\ [Next]_vars => WholeInv'
<1>. SUFFICES ASSUME TypeInv, WholeInv, [Next]_vars PROVE WholeInv'
  OBVIOUS
<1>1. CASE UNCHANGED vars
  BY <1>1, WholeSame DEF vars, serverVars, storeVars, fileVars
<1>2. ASSUME NEW c \in Clients, Begin(c) \/ ClientStep(c) \/ ReadTimesOut(c)
      PROVE  WholeInv'
  BY <1>2, BeginWhole, ConnectWhole, RequestEndsWhole, ReadsWhole
     DEF ClientStep, ReadTimesOut
<1>. QED
  BY <1>1, <1>2, ServerStepWhole DEF Next, AllFinished

(* While no two programs ask at once and no read times out, an entry of the *)
(* store describes its file as it is, after any crash, eviction or rewrite. *)
THEOREM EntriesUsable ==
  ASSUME ~Overlap, ~TimesOut
  PROVE  Spec => []EntryUsable
<1>1. WholeInv => EntryUsable
  BY DEF WholeInv, FilesWhole, EntryUsable, Usable
<1>2. TypeInv /\ WholeInv /\ [Next]_vars => WholeInv'
  BY WholeInvStep
<1>. QED
  BY <1>1, <1>2, InitTypeInv, TypeInvStep, InitWhole, PTL DEF Spec

(* Then the trusted map never lands in a file that is not an archive: what  *)
(* validate_shared_snapshot_handle does not look at is as it should be.     *)
THEOREM MappedDataWhole ==
  ASSUME ~Overlap, ~TimesOut
  PROVE  Spec => []DataIsWhole
<1>1. WholeInv => DataIsWhole
  BY DEF WholeInv, WholeClient, DataIsWhole
<1>2. TypeInv /\ WholeInv /\ [Next]_vars => WholeInv'
  BY WholeInvStep
<1>. QED
  BY <1>1, <1>2, InitTypeInv, TypeInvStep, InitWhole, PTL DEF Spec

-----------------------------------------------------------------------------
(* Who is refused.                                                          *)

(* Where the one thread that works is not writing, nothing is torn.         *)
LEMMA TornWhereItWrites ==
  ASSUME WholeInv, NothingTorn, NEW t \in Connections, Live(t)
  PROVE  /\ \A k \in DOMAIN snapshot :
              Complete(k) \/ (At(t, "write") /\ thread[t].key = k)
         /\ \A k \in DOMAIN metadata :
              metadata[k] = "whole" \/ (At(t, "metawrite") /\ thread[t].key = k)
<1>1. \A u \in Connections : At(u, "write") \/ At(u, "metawrite") => u = t
  BY OneLive DEF WholeInv, Live, Ended, At
<1>. QED
  BY <1>1 DEF NothingTorn

LEMMA NothingTornAtRest ==
  ASSUME NothingTorn, \A t \in Connections : ~Live(t)
  PROVE  /\ \A k \in DOMAIN snapshot : Complete(k)
         /\ \A k \in DOMAIN metadata : metadata[k] = "whole"
  BY DEF NothingTorn, Live, Ended, At

LEMMA ServedThreadMoves ==
  ASSUME TypeInv, WholeInv, ServedInv, crashes = 0, NEW t \in Connections,
         UNCHANGED <<client, crashes>>,
         \A u \in Connections \ {t} : thread'[u] = thread[u],
         NothingTorn',
         thread[t].pc \notin {"evict", "status", "refused"}
           => thread'[t].pc \notin {"evict", "status", "refused"}
  PROVE  ServedInv'
<1>1. ASSUME NEW c \in Clients PROVE NotRefused(c)'
  <2>1. Conn(c)' = Conn(c) /\ (client[c].pc = "wait" => Conn(c) \in Connections)
    BY ConnInConnections DEF TypeInv, Conn
  <2>2. ASSUME client[c].pc = "wait", client[c].command \in {"ensure", "again"}
        PROVE  thread'[Conn(c)].pc \notin {"evict", "status", "refused"}
    <3>1. thread[Conn(c)].pc \notin {"evict", "status", "refused"}
      BY <2>2 DEF ServedInv, NotRefused
    <3>. QED
      BY <2>1, <2>2, <3>1
  <2>. QED
    BY <2>1, <2>2 DEF ServedInv, NotRefused
<1>. QED
  BY <1>1 DEF ServedInv

LEMMA ThreadStepServed ==
  ASSUME TypeInv, WholeInv, ServedInv, NEW t \in Connections,
         UNCHANGED client, ThreadStep(t)
  PROVE  ServedInv'
<1>. USE DEF At
<1>0. UNCHANGED crashes
  BY DEF ThreadStep, EnsureStep, FingerprintDataset, LookupByKey,
         CheckSnapshot, RestoreSnapshot, LoadParquet, CreateSnapshot,
         WriteSnapshot, BuildHandle, CreateMetadata, WriteMetadata,
         InsertPreparedEntry, Evict, Status, envVars
<1>. SUFFICES ASSUME crashes = 0 PROVE ServedInv'
  BY <1>0 DEF ServedInv
<1>1. ThreadsOK /\ Live(t) /\ thread[t].pc # "none"
  BY DEF TypeInv, CacheTypeOK, ThreadsOK, Live, Ended, ThreadStep, EnsureStep,
         FingerprintDataset, LookupByKey, CheckSnapshot, RestoreSnapshot,
         LoadParquet, CreateSnapshot, WriteSnapshot, BuildHandle,
         CreateMetadata, WriteMetadata, InsertPreparedEntry, Evict, Status
<1>2. /\ thread[t] \in ThreadRecords /\ thread[t].key \in Keys
      /\ NoHandle \in Handles \cup {NoHandle}
  BY <1>1, StartedThread DEF ThreadRecords
<1>3. /\ \A k \in DOMAIN snapshot :
           Complete(k) \/ (At(t, "write") /\ thread[t].key = k)
      /\ \A k \in DOMAIN metadata :
           metadata[k] = "whole" \/ (At(t, "metawrite") /\ thread[t].key = k)
  BY <1>1, TornWhereItWrites DEF ServedInv
<1>4. \A k \in DOMAIN entries : k \in Keys /\ entries[k] \in Handles
  BY DEF TypeInv, CacheTypeOK
<1>5. CASE ~(\/ CreateSnapshot(t) \/ WriteSnapshot(t)
             \/ CreateMetadata(t) \/ WriteMetadata(t))
  <2>0. /\ UNCHANGED <<snapshot, metadata>>
        /\ thread[t].pc \notin {"write", "metawrite"}
    BY <1>5 DEF ThreadStep, EnsureStep, FingerprintDataset, LookupByKey,
         CheckSnapshot, RestoreSnapshot, LoadParquet, BuildHandle,
         InsertPreparedEntry, Evict, Status, fileVars
  <2>1. NothingTorn'
    BY <1>3, <2>0 DEF NothingTorn, Complete
  <2>2. CASE /\ \A u \in Connections \ {t} : thread'[u] = thread[u]
             /\ thread'[t].pc \notin {"evict", "status", "refused"}
    BY <1>0, <2>1, <2>2, ServedThreadMoves
  <2>3. ASSUME NEW k \in Keys, NEW h \in Handles \cup {NoHandle}, Reply(t, k, h)
        PROVE  ServedInv'
    <3>1. Answer(t, "replied", k, h)
      BY <2>3 DEF Reply
    <3>. QED
      BY <1>1, <2>2, <3>1, AnswerEffect DEF NoThread
  <2>4. ASSUME NEW pc \in ThreadPcs \ {"evict", "status", "refused"}, Goto(t, pc)
        PROVE  ServedInv'
    BY <1>1, <2>2, <2>4, GotoEffect
  <2>5. CASE FingerprintDataset(t) \/ LoadParquet(t) \/ BuildHandle(t)
    BY <1>1, <1>2, <2>2, <2>5
       DEF FingerprintDataset, LoadParquet, BuildHandle, ThreadsOK,
           ThreadRecords
  <2>6. CASE LookupByKey(t)
    BY <1>2, <1>4, <2>3, <2>4, <2>6 DEF LookupByKey, ThreadPcs
  <2>7. CASE CheckSnapshot(t)
    BY <1>3, <2>0, <2>4, <2>7 DEF CheckSnapshot, ThreadPcs
  <2>8. CASE RestoreSnapshot(t)
    <3>1. Complete(thread[t].key)
      BY <1>3, <2>0, <2>8 DEF RestoreSnapshot, TypeInv, OnItsWay, FilePcs
    <3>. QED
      BY <2>4, <2>8, <3>1 DEF RestoreSnapshot, ThreadPcs
  <2>9. CASE InsertPreparedEntry(t)
    <3>1. thread[t].handle \in Handles
      BY <2>9 DEF InsertPreparedEntry, TypeInv, OnItsWay, Holds
    <3>. QED
      BY <1>2, <1>4, <2>3, <2>9, <3>1 DEF InsertPreparedEntry
  <2>10. CASE Evict(t)
    BY <1>2, <2>3, <2>10 DEF Evict
  <2>11. CASE Status(t)
    <3>1. CASE \E k \in DOMAIN entries : Reply(t, k, entries[k])
      BY <1>4, <2>3, <3>1
    <3>2. CASE Refuse(t)
      <4>1. \A u \in Connections \ {t} : thread'[u] = thread[u]
        BY <1>1, <1>2, <3>2, AnswerEffect DEF Refuse
      <4>2. thread[t].pc = "status"
        BY <2>11 DEF Status
      <4>. QED
        BY <1>0, <2>1, <4>1, <4>2, ServedThreadMoves
    <3>. QED
      BY <2>11, <3>1, <3>2 DEF Status, EntriesOf
  <2>. QED
    BY <1>5, <2>5, <2>6, <2>7, <2>8, <2>9, <2>10, <2>11
       DEF ThreadStep, EnsureStep
<1>6. CASE CreateSnapshot(t) \/ WriteSnapshot(t)
  <2>0. PICK k \in Keys : k = thread[t].key
    BY <1>2
  <2>1. PICK pc \in {"write", "handle"} :
          /\ Goto(t, pc) /\ UNCHANGED metadata
          /\ thread[t].pc \in {"create", "write"}
          /\ \E file : snapshot' = With(snapshot, k, file)
          /\ pc = "handle" <=> thread[t].pc = "write"
    BY <1>6, <2>0 DEF CreateSnapshot, WriteSnapshot, WriteTo
  <2>2. pc \in ThreadPcs
    BY DEF ThreadPcs
  <2>3. /\ \A u \in Connections \ {t} : thread'[u] = thread[u]
        /\ thread'[t].pc = pc /\ thread'[t].key = k
    BY <1>1, <2>0, <2>1, <2>2, GotoEffect
  <2>4. thread[t].pc = "write" => Complete(k)'
    <3>1. WholeInv'
      BY <1>6, SnapshotStepWhole
    <3>. QED
      BY <2>1, <2>3, <3>1 DEF WholeInv, WholeThread, Complete
  <2>6. ASSUME NEW j \in DOMAIN snapshot'
        PROVE  Complete(j)' \/ (thread'[t].pc = "write" /\ thread'[t].key = j)
    <3>1. CASE j = k
      BY <2>1, <2>3, <2>4, <3>1 DEF Complete
    <3>2. CASE j # k
      BY <1>3, <2>0, <2>1, <3>2 DEF With, Complete
    <3>. QED
      BY <3>1, <3>2
  <2>7. \A j \in DOMAIN metadata : metadata[j] = "whole"
    BY <1>3, <2>1
  <2>8. NothingTorn'
    BY <2>1, <2>6, <2>7 DEF NothingTorn
  <2>. QED
    BY <1>0, <2>3, <2>8, ServedThreadMoves
<1>7. CASE CreateMetadata(t) \/ WriteMetadata(t)
  <2>0. PICK k \in Keys : k = thread[t].key
    BY <1>2
  <2>1. PICK pc \in {"metawrite", "insert", "handle"} :
          /\ Goto(t, pc) /\ UNCHANGED snapshot
          /\ thread[t].pc \in {"metacreate", "metawrite"}
          /\ \E state : /\ metadata' = With(metadata, k, state)
                        /\ state = "whole" \/ pc = "metawrite"
    BY <1>7, <2>0 DEF CreateMetadata, WriteMetadata, WriteMetadataTo
  <2>2. pc \in ThreadPcs
    BY DEF ThreadPcs
  <2>3. /\ \A u \in Connections \ {t} : thread'[u] = thread[u]
        /\ thread'[t].pc = pc /\ thread'[t].key = k
    BY <1>1, <2>0, <2>1, <2>2, GotoEffect
  <2>5. ASSUME NEW j \in DOMAIN metadata'
        PROVE  metadata'[j] = "whole"
               \/ (thread'[t].pc = "metawrite" /\ thread'[t].key = j)
    <3>1. CASE j = k
      BY <2>1, <2>3, <3>1 DEF With
    <3>2. CASE j # k
      BY <1>3, <2>0, <2>1, <3>2 DEF With
    <3>. QED
      BY <3>1, <3>2
  <2>6. \A j \in DOMAIN snapshot : Complete(j)
    BY <1>3, <2>1
  <2>7. NothingTorn'
    BY <2>1, <2>5, <2>6 DEF NothingTorn, Complete
  <2>. QED
    BY <1>0, <2>3, <2>7, ServedThreadMoves
<1>. QED
  BY <1>5, <1>6, <1>7

LEMMA ServerStepServed ==
  ASSUME TypeInv, WholeInv, ServedInv, ServerStep
  PROVE  ServedInv'
<1>1. UNCHANGED client
  BY DEF ServerStep
<1>2. CASE Restart \/ \E p \in Paths : RewriteDataset(p)
  BY <1>1, <1>2
     DEF Restart, RewriteDataset, fileVars, ServedInv, NothingTorn, Complete,
         NotRefused, Conn, At
<1>3. CASE Crash
  <2>1. crashes' # 0
    BY <1>3, CacheAssumption DEF Crash, TypeInv, CacheTypeOK
  <2>. QED
    BY <2>1 DEF ServedInv
<1>. QED
  BY <1>1, <1>2, <1>3, ThreadStepServed DEF ServerStep

-----------------------------------------------------------------------------
(* A step of the one program that works.                                    *)
LEMMA OneClientServed ==
  ASSUME ServedInv, NEW c \in Clients,
         \A d \in Clients \ {c} : ~Working(d) /\ client'[d] = client[d],
         \A t \in Connections : ~Live(t),
         UNCHANGED <<crashes, snapshot, metadata>>,
         crashes = 0 => NotRefused(c)'
  PROVE  ServedInv'
<1>. SUFFICES ASSUME crashes = 0
              PROVE  NothingTorn' /\ \A d \in Clients : NotRefused(d)'
  BY DEF ServedInv
<1>1. NothingTorn'
  BY NothingTornAtRest DEF ServedInv, NothingTorn, Complete
<1>2. ASSUME NEW d \in Clients, d # c PROVE NotRefused(d)'
  BY <1>2 DEF ServedInv, NotRefused, Working, Finished
<1>. QED
  BY <1>1, <1>2

(* It goes on, or ends otherwise than refused.                              *)
LEMMA GoesOnServed ==
  ASSUME WholeInv, ServedInv, NEW c \in Clients, Working(c),
         client[c].pc = "wait" => ~Live(Conn(c)),
         UNCHANGED <<crashes, snapshot, metadata>>,
         \A d \in Clients \ {c} : client'[d] = client[d],
         client'[c].pc \notin {"wait", "refused"},
         client'[c].command \in {client[c].command, "evict", "again"}
  PROVE  ServedInv'
<1>1. \A t \in Connections : ~Live(t)
  BY NoneLive DEF WholeInv
<1>2. \A d \in Clients \ {c} : ~Working(d) /\ client'[d] = client[d]
  BY DEF WholeInv, OneAtATime
<1>3. crashes = 0 => NotRefused(c)'
  BY DEF ServedInv, NotRefused
<1>. QED
  BY <1>1, <1>2, <1>3, OneClientServed

LEMMA FinishServed ==
  ASSUME TypeInv, WholeInv, ServedInv, NEW c \in Clients, Working(c),
         client[c].pc = "wait" => ~Live(Conn(c)),
         UNCHANGED <<crashes, snapshot, metadata>>,
         NEW pc \in ClientPcs \ {"wait", "refused"}, Finish(c, pc)
  PROVE  ServedInv'
<1>1. /\ client'[c] = [client[c] EXCEPT !.pc = pc]
      /\ \A d \in Clients \ {c} : client'[d] = client[d]
  BY FinishEffect DEF TypeInv, CacheTypeOK, ClientsOK
<1>2. client'[c].pc = pc /\ client'[c].command = client[c].command
  BY <1>1, CountedClient DEF ClientRecords
<1>. QED
  BY <1>1, <1>2, GoesOnServed

LEMMA CommandServed ==
  ASSUME TypeInv, WholeInv, ServedInv, NEW c \in Clients, Working(c),
         client[c].pc = "wait" => ~Live(Conn(c)),
         UNCHANGED <<crashes, snapshot, metadata>>,
         NEW command \in {"evict", "again"}, Command(c, command)
  PROVE  ServedInv'
<1>1. /\ client'[c] = [client[c] EXCEPT !.pc = "send", !.command = command,
                                       !.attempt = 0]
      /\ \A d \in Clients \ {c} : client'[d] = client[d]
  BY CommandEffect DEF TypeInv, CacheTypeOK, ClientsOK
<1>2. client'[c].pc = "send" /\ client'[c].command = command
  BY <1>1, CountedClient DEF ClientRecords
<1>. QED
  BY <1>1, <1>2, GoesOnServed

(* An ERR ends a query; a runner does not mind that of its EVICT; and an    *)
(* ENSURE gets none.                                                        *)
LEMMA ReceiveErrorServed ==
  ASSUME TypeInv, WholeInv, ServedInv, NEW c \in Clients, ReceiveError(c)
  PROVE  ServedInv'
<1>1. /\ client[c].pc = "wait" /\ thread[Conn(c)].pc = "refused"
      /\ Working(c) /\ ~Live(Conn(c))
      /\ UNCHANGED <<crashes, snapshot, metadata>>
  BY DEF ReceiveError, Consume, envVars, fileVars, Working, Finished, Live,
         Ended
<1>2. /\ client[c].command \in {"ensure", "again", "status", "evict"}
      /\ client[c].command = "evict" => Kind[c] \in {"evict", "runner"}
  BY <1>1, CountedClient
     DEF Counted, ClientRecords, WholeInv, WholeClient
<1>3. CASE Kind[c] = "runner" /\ client[c].command = "evict"
  <2>1. Command(c, "again")
    BY <1>3 DEF ReceiveError, CommandFails
  <2>. QED
    BY <1>1, <2>1, CommandServed
<1>4. CASE ~(Kind[c] = "runner" /\ client[c].command = "evict")
  <2>1. Finish(c, "refused")
    BY <1>4 DEF ReceiveError, CommandFails
  <2>2. /\ client'[c] = [client[c] EXCEPT !.pc = "refused"]
        /\ \A d \in Clients \ {c} : client'[d] = client[d]
    BY <2>1, FinishEffect
       DEF TypeInv, CacheTypeOK, ClientsOK, ClientPcs, Finished
  <2>3. client'[c].pc = "refused"
    BY <2>2, CountedClient DEF ClientRecords
  <2>4. crashes = 0 => Kind[c] \notin {"run", "runner"}
    BY <1>1, <1>2, <1>4 DEF ServedInv, NotRefused
  <2>5. \A t \in Connections : ~Live(t)
    BY <1>1, NoneLive DEF WholeInv
  <2>6. \A d \in Clients \ {c} : ~Working(d) /\ client'[d] = client[d]
    BY <1>1, <2>2 DEF WholeInv, OneAtATime
  <2>7. crashes = 0 => NotRefused(c)'
    BY <2>3, <2>4 DEF NotRefused
  <2>. QED
    BY <1>1, <2>5, <2>6, <2>7, OneClientServed
<1>. QED
  BY <1>3, <1>4

LEMMA BeginServed ==
  ASSUME ~Overlap, TypeInv, WholeInv, ServedInv, NEW c \in Clients, Begin(c)
  PROVE  ServedInv'
<1>. DEFINE first == FirstCommand[Kind[c]]
            r == [client[c] EXCEPT !.pc = "send", !.command = first,
                                   !.asked = dataset[DataOf[c]].version]
<1>1. client' = [client EXCEPT ![c] = r]
  BY DEF Begin
<1>2. r.pc = "send" /\ r.command = first
  BY CountedClient DEF ClientRecords
<1>3. Kind[c] \in {"run", "runner"} => first # "status"
  BY DEF FirstCommand
<1>. HIDE DEF r, first
<1>4. client'[c] = r /\ \A d \in Clients \ {c} : client'[d] = client[d]
  BY <1>1 DEF TypeInv, CacheTypeOK
<1>5. NotRefused(c)'
  BY <1>2, <1>3, <1>4 DEF NotRefused
<1>. QED
  BY <1>4, <1>5, OneClientServed DEF Begin, serverVars, envVars, fileVars

(* An ENSURE starts with the stamp, not with a look at the entries.         *)
LEMMA ConnectServed ==
  ASSUME TypeInv, WholeInv, ServedInv, NEW c \in Clients, Connect(c)
  PROVE  ServedInv'
<1>. DEFINE n == client[c].sends + 1
            r == [client[c] EXCEPT !.pc = "wait", !.sends = n,
                                   !.attempt = client[c].attempt + 1]
            new == Thread(Entry[client[c].command], DataOf[c])
<1>1. /\ UNCHANGED <<crashes, snapshot, metadata>>
      /\ client[c].pc = "send"
      /\ client' = [client EXCEPT ![c] = r]
      /\ thread' = [thread EXCEPT ![<<c, n>>] = new]
  BY DEF Connect, envVars, fileVars
<1>2. client[c].command \in {"ensure", "again"} => new.pc = "fingerprint"
  BY DEF Thread, Entry
<1>3. <<c, n>> \in Connections
  BY <1>1, NextConnection
<1>. HIDE DEF n, new
<1>4. r.pc = "wait" /\ r.sends = n /\ r.command = client[c].command
  BY CountedClient DEF ClientRecords
<1>. HIDE DEF r
<1>5. client'[c] = r /\ \A d \in Clients \ {c} : client'[d] = client[d]
  BY <1>1 DEF TypeInv, CacheTypeOK
<1>6. thread'[<<c, n>>] = new
  BY <1>1, <1>3 DEF TypeInv, CacheTypeOK
<1>7. Working(c) /\ \A t \in Connections : ~Live(t)
  BY <1>1, NoneLive DEF WholeInv, Working, Finished
<1>8. \A d \in Clients \ {c} : ~Working(d) /\ client'[d] = client[d]
  BY <1>5, <1>7 DEF WholeInv, OneAtATime
<1>9. Conn(c)' = <<c, n>>
  BY <1>4, <1>5 DEF Conn
<1>10. crashes = 0 => NotRefused(c)'
  BY <1>2, <1>4, <1>5, <1>6, <1>9 DEF ServedInv, NotRefused
<1>. QED
  BY <1>1, <1>7, <1>8, <1>10, OneClientServed

LEMMA ClientStepServed ==
  ASSUME TypeInv, WholeInv, ServedInv, NEW c \in Clients,
         \/ ConnectionRefused(c) \/ EmptyResponse(c) \/ ReceiveReply(c)
         \/ ValidateHandle(c) \/ MapSnapshot(c) \/ LoadSnapshot(c)
  PROVE  ServedInv'
<1>1. /\ Working(c) /\ (client[c].pc = "wait" => ~Live(Conn(c)))
      /\ UNCHANGED <<crashes, snapshot, metadata>>
  BY DEF ConnectionRefused, EmptyResponse, ReceiveReply, Consume,
         ValidateHandle, MapSnapshot, LoadSnapshot, serverVars, envVars,
         fileVars, Working, Finished, Live, Ended
<1>2. client[c] \in ClientRecords
  BY CountedClient
<1>3. ASSUME NEW pc \in ClientPcs \ {"wait", "refused"}, Finish(c, pc)
      PROVE  ServedInv'
  BY <1>1, <1>3, FinishServed
<1>4. ASSUME NEW command \in {"evict", "again"}, Command(c, command)
      PROVE  ServedInv'
  BY <1>1, <1>4, CommandServed
<1>5. ASSUME NEW r, client' = [client EXCEPT ![c] = r],
             r.pc \notin {"wait", "refused"}, r.command = client[c].command
      PROVE  ServedInv'
  <2>1. client'[c] = r /\ \A d \in Clients \ {c} : client'[d] = client[d]
    BY <1>5 DEF TypeInv, CacheTypeOK
  <2>. QED
    BY <1>1, <1>5, <2>1, GoesOnServed
<1>6. {"send", "map", "unusable", "unreachable", "done"}
        \subseteq ClientPcs \ {"wait", "refused"}
  BY DEF ClientPcs, Finished
<1>7. CASE CommandFails(c, "unreachable")
  BY <1>3, <1>4, <1>6, <1>7 DEF CommandFails
<1>8. ASSUME NEW v, Use(c, v) PROVE ServedInv'
  <2>. DEFINE r == [client[c] EXCEPT !.pc = "done", !.version = v]
  <2>1. r.pc = "done" /\ r.command = client[c].command
    BY <1>2 DEF ClientRecords
  <2>2. client' = [client EXCEPT ![c] = r]
    BY <1>8 DEF Use
  <2>. HIDE DEF r
  <2>. QED
    BY <1>5, <2>1, <2>2
<1>9. CASE ConnectionRefused(c)
  <2>1. CASE client' = [client EXCEPT ![c].attempt = @ + 1]
    <3>. DEFINE r == [client[c] EXCEPT !.attempt = client[c].attempt + 1]
    <3>1. r.pc = client[c].pc /\ r.command = client[c].command
      BY <1>2 DEF ClientRecords
    <3>2. client' = [client EXCEPT ![c] = r] /\ client[c].pc = "send"
      BY <1>9, <2>1 DEF ConnectionRefused
    <3>. HIDE DEF r
    <3>. QED
      BY <1>5, <3>1, <3>2
  <2>. QED
    BY <1>7, <1>9, <2>1 DEF ConnectionRefused
<1>10. CASE EmptyResponse(c)
  BY <1>3, <1>6, <1>7, <1>10 DEF EmptyResponse, TryAgain
<1>11. CASE ReceiveReply(c)
  <2>1. CASE Command(c, "again")
    BY <1>4, <2>1
  <2>2. CASE Finish(c, "done")
    BY <1>3, <1>6, <2>2
  <2>3. CASE client[c].command # "evict"
    <3>. DEFINE a == thread[Conn(c)]
                pc == IF Kind[c] = "runner" THEN "load" ELSE "validate"
                r == [client[c] EXCEPT !.pc = pc, !.key = a.key,
                                       !.len = a.handle.len]
    <3>1. client' = [client EXCEPT ![c] = r]
      BY <1>11, <2>3 DEF ReceiveReply, AfterReply
    <3>2. r.pc \notin {"wait", "refused"} /\ r.command = client[c].command
      BY <1>2 DEF ClientRecords
    <3>. HIDE DEF r
    <3>. QED
      BY <1>5, <3>1, <3>2
  <2>. QED
    BY <1>11, <2>1, <2>2, <2>3 DEF ReceiveReply, AfterReply
<1>12. CASE ValidateHandle(c)
  BY <1>3, <1>6, <1>12 DEF ValidateHandle
<1>13. CASE MapSnapshot(c)
  BY <1>8, <1>13 DEF MapSnapshot
<1>14. CASE LoadSnapshot(c)
  BY <1>4, <1>8, <1>14 DEF LoadSnapshot
<1>. QED
  BY <1>9, <1>10, <1>11, <1>12, <1>13, <1>14

LEMMA InitServed == Init => ServedInv
<1>. SUFFICES ASSUME Init PROVE ServedInv
  OBVIOUS
<1>1. DOMAIN snapshot = {} /\ DOMAIN metadata = {}
  BY EmptyDomain DEF Init, ServerInit
<1>2. \A c \in Clients : client[c].pc = "idle" /\ client[c].command = "none"
  BY DEF Init
<1>. QED
  BY <1>1, <1>2 DEF ServedInv, NothingTorn, NotRefused

LEMMA ServedInvStep ==
  ASSUME ~Overlap, ~TimesOut
  PROVE  TypeInv /\ WholeInv /\ ServedInv /\ [Next]_vars => ServedInv'
<1>. SUFFICES ASSUME TypeInv, WholeInv, ServedInv, [Next]_vars PROVE ServedInv'
  OBVIOUS
<1>1. CASE UNCHANGED vars
  BY <1>1 DEF ServedInv, NothingTorn, NotRefused, Complete, At, Conn, vars,
              serverVars, envVars, fileVars
<1>2. ASSUME NEW c \in Clients, Begin(c) \/ ClientStep(c) \/ ReadTimesOut(c)
      PROVE  ServedInv'
  BY <1>2, BeginServed, ConnectServed, ReceiveErrorServed, ClientStepServed
     DEF ClientStep, ReadTimesOut
<1>. QED
  BY <1>1, <1>2, ServerStepServed DEF Next, AllFinished

(* While no two programs ask at once and no read times out, the server does *)
(* not refuse an ENSURE of a dataset it could read, unless it was killed:   *)
(* every file a thread leaves behind is one that the next can use.          *)
THEOREM RefusedAfterCrashOnly ==
  ASSUME ~Overlap, ~TimesOut
  PROVE  Spec => []RefusedOnlyAfterCrash
<1>1. TypeInv /\ ServedInv => RefusedOnlyAfterCrash
  BY CacheAssumption
     DEF ServedInv, NotRefused, RefusedOnlyAfterCrash, TypeInv, CacheTypeOK
<1>2. TypeInv /\ WholeInv /\ [Next]_vars => WholeInv'
  BY WholeInvStep
<1>3. TypeInv /\ WholeInv /\ ServedInv /\ [Next]_vars => ServedInv'
  BY ServedInvStep
<1>. QED
  BY <1>1, <1>2, <1>3, InitTypeInv, TypeInvStep, InitWhole, InitServed, PTL
     DEF Spec
=============================================================================
