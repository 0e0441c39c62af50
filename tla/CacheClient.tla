----------------------------- MODULE CacheClient -----------------------------
(***************************************************************************)
(* The programs that use the cache server, over cache/ipc.rs: each sends a *)
(* request with timeouts and retries, then reads the snapshot file it was  *)
(* told of by itself, without the server.                                  *)
(*                                                                         *)
(*   "run"     main.rs: ENSURE, validate the handle, map the file          *)
(*   "runner"  the bt_run_project.rs that bt generates: ENSURE, load; if   *)
(*             that fails EVICT, ENSURE, load, else read the Parquet file  *)
(*   "query"   bt data ...: STATUS, validate the handle, map the file      *)
(*   "evict"   bt cache evict                                              *)
(***************************************************************************)
EXTENDS CacheServer

CONSTANTS
  Clients,
  Kind,       (* what each client is                                        *)
  DataOf,     (* the dataset each client asks for                           *)
  Retries,    (* BT_CACHE_RETRIES                                           *)
  TimesOut,   (* whether a read may take longer than its timeout            *)
  Overlap     (* whether a client may start while another is at work        *)

Kinds == {"run", "runner", "query", "evict"}

(* A runner sends three commands, each at most Retries + 1 times.           *)
MaxRequests == 3 * (Retries + 1)

ASSUME ClientAssumption ==
  /\ Kind \in [Clients -> Kinds]
  /\ DataOf \in [Clients -> Paths]
  /\ Retries \in Nat
  /\ TimesOut \in BOOLEAN /\ Overlap \in BOOLEAN
  /\ Clients \X (1 .. MaxRequests) \subseteq Connections

VARIABLE client

vars == <<serverVars, client>>

Finished == {"done", "refused", "unreachable", "unusable"}
Working(c) == client[c].pc \notin Finished \cup {"idle"}

(* The command a client starts with, and the first step of its thread.      *)
FirstCommand == [run |-> "ensure", runner |-> "ensure", query |-> "status",
                 evict |-> "evict"]
Entry == [ensure |-> "fingerprint", again |-> "fingerprint",
          status |-> "status", evict |-> "evict"]

(* The connection of the request a client has sent last.                    *)
Conn(c) == <<c, client[c].sends>>

-----------------------------------------------------------------------------
(* asked is the version of the dataset when the client started: a history   *)
(* value, as is the version of what it has read.                            *)
Begin(c) ==
  /\ client[c].pc = "idle"
  /\ Overlap \/ ((\A d \in Clients : ~Working(d)) /\ \A t \in Connections : ~Live(t))
  /\ client' = [client EXCEPT ![c].pc = "send",
                  ![c].command = FirstCommand[Kind[c]],
                  ![c].asked = dataset[DataOf[c]].version]
  /\ UNCHANGED serverVars

(* A new command of a client: send_command starts counting again.           *)
Command(c, command) ==
  client' = [client EXCEPT ![c].pc = "send", ![c].command = command,
                           ![c].attempt = 0]

Finish(c, pc) == client' = [client EXCEPT ![c].pc = pc]

(* send_command returns an error.  A runner ignores that of its EVICT.      *)
CommandFails(c, pc) ==
  IF Kind[c] = "runner" /\ client[c].command = "evict"
  THEN Command(c, "again")
  ELSE Finish(c, pc)

(* send_command, one more attempt: the loop ends with attempt > retry_count.*)
Connect(c) ==
  /\ client[c].pc = "send" /\ up
  /\ client' = [client EXCEPT ![c].pc = "wait", ![c].sends = @ + 1,
                              ![c].attempt = @ + 1]
  /\ thread' = [thread EXCEPT ![<<c, client[c].sends + 1>>] =
                  Thread(Entry[client[c].command], DataOf[c])]
  /\ UNCHANGED <<envVars, storeVars, fileVars>>

ConnectionRefused(c) ==
  /\ client[c].pc = "send" /\ ~up
  /\ IF client[c].attempt < Retries
     THEN client' = [client EXCEPT ![c].attempt = @ + 1]
     ELSE CommandFails(c, "unreachable")
  /\ UNCHANGED serverVars

(* Mutant: one attempt too many.                                            *)
TryOnceMore(c) ==
  IF client[c].attempt <= Retries + 1 THEN Finish(c, "send")
                                      ELSE CommandFails(c, "unreachable")

TryAgain(c) ==
  IF client[c].attempt <= Retries THEN Finish(c, "send")
                                  ELSE CommandFails(c, "unreachable")

(* The read ends with a timeout; the server's thread goes on.               *)
ReadTimesOut(c) ==
  /\ TimesOut
  /\ client[c].pc = "wait" /\ Live(Conn(c))
  /\ thread' = [thread EXCEPT ![Conn(c)].closed = TRUE]
  /\ TryAgain(c)
  /\ UNCHANGED <<envVars, storeVars, fileVars>>

(* The read ends with nothing: the server died.                             *)
EmptyResponse(c) ==
  /\ client[c].pc = "wait" /\ thread[Conn(c)].pc = "none"
  /\ TryAgain(c)
  /\ UNCHANGED serverVars

Consume(c) ==
  /\ thread' = [thread EXCEPT ![Conn(c)] = NoThread]
  /\ UNCHANGED <<envVars, storeVars, fileVars>>

(* OK: on to the file, or to the next command.                              *)
AfterReply(c) ==
  LET r == thread[Conn(c)]
  IN  \/ /\ client[c].command # "evict"
         /\ client' = [client EXCEPT
                        ![c].pc = IF Kind[c] = "runner" THEN "load"
                                                        ELSE "validate",
                        ![c].key = r.key, ![c].len = r.handle.len]
      \/ /\ client[c].command = "evict" /\ Kind[c] = "runner"
         /\ Command(c, "again")
      \/ /\ client[c].command = "evict" /\ Kind[c] # "runner"
         /\ Finish(c, "done")

ReceiveReply(c) ==
  /\ client[c].pc = "wait" /\ thread[Conn(c)].pc = "replied"
  /\ AfterReply(c)
  /\ Consume(c)

(* Mutant: an ERR is tried again, without counting.                         *)
RetryError(c) ==
  /\ client[c].pc = "wait" /\ thread[Conn(c)].pc = "refused"
  /\ client' = [client EXCEPT ![c].pc = "send", ![c].sends = 0,
                              ![c].attempt = 0]
  /\ Consume(c)

(* ERR: an answer like any other, not retried.                              *)
ReceiveError(c) ==
  /\ client[c].pc = "wait" /\ thread[Conn(c)].pc = "refused"
  /\ CommandFails(c, "refused")
  /\ Consume(c)

-----------------------------------------------------------------------------
(* The client reads the snapshot file.                                      *)

(* validate_shared_snapshot_handle: the length only, by default.            *)
ValidateHandle(c) ==
  /\ client[c].pc = "validate"
  /\ Finish(c, IF snapshot[client[c].key].len = client[c].len
               THEN "map" ELSE "unusable")
  /\ UNCHANGED serverVars

Use(c, version) ==
  client' = [client EXCEPT ![c].pc = "done", ![c].version = version]

(* from_path_trusted maps the file without looking at it.                   *)
MapSnapshot(c) ==
  /\ client[c].pc = "map"
  /\ Use(c, snapshot[client[c].key].version)
  /\ UNCHANGED serverVars

(* load_market_data_snapshot checks the archive.  A runner that fails twice *)
(* reads the Parquet file.                                                  *)
LoadSnapshot(c) ==
  /\ client[c].pc = "load"
  /\ \/ Complete(client[c].key) /\ Use(c, snapshot[client[c].key].version)
     \/ /\ ~Complete(client[c].key) /\ client[c].command = "ensure"
        /\ Command(c, "evict")
     \/ /\ ~Complete(client[c].key) /\ client[c].command = "again"
        /\ Use(c, dataset[DataOf[c]].version)
  /\ UNCHANGED serverVars

-----------------------------------------------------------------------------
(* What a client does once it has started, but for a timeout.               *)
ClientStep(c) ==
  \/ Connect(c) \/ ConnectionRefused(c) \/ EmptyResponse(c)
  \/ ReceiveReply(c) \/ ReceiveError(c)
  \/ ValidateHandle(c) \/ MapSnapshot(c) \/ LoadSnapshot(c)

ServerStep ==
  /\ \/ \E t \in Connections : ThreadStep(t)
     \/ Crash \/ Restart
     \/ \E p \in Paths : RewriteDataset(p)
  /\ UNCHANGED client

(* Every client has ended: not a deadlock.                                  *)
AllFinished ==
  /\ \A c \in Clients : client[c].pc \in Finished
  /\ UNCHANGED vars

Init ==
  /\ ServerInit
  /\ client = [c \in Clients |->
                [pc |-> "idle", command |-> "none", sends |-> 0, attempt |-> 0,
                 asked |-> 0, key |-> KeyOf(DataOf[c], 0), len |-> 0,
                 version |-> 0]]

Next ==
  \/ \E c \in Clients : Begin(c) \/ ClientStep(c) \/ ReadTimesOut(c)
  \/ ServerStep
  \/ AllFinished

Spec == Init /\ [][Next]_vars

(* A thread runs on until it answers, a client until it ends; a server that *)
(* was killed is started again.  Nobody has to start a client, rewrite a    *)
(* dataset or kill the server, and no read has to time out.                 *)
FairSpec ==
  /\ Spec
  /\ \A t \in Connections : WF_vars(ThreadStep(t) /\ UNCHANGED client)
  /\ \A c \in Clients : WF_vars(ClientStep(c))
  /\ WF_vars(Restart /\ UNCHANGED client)

-----------------------------------------------------------------------------
ThreadRecords ==
  [pc : {"fingerprint", "lookup", "check", "restore", "load", "create",
         "write", "handle", "metacreate", "metawrite", "insert", "evict",
         "status", "replied", "refused"},
   key : Keys, version : 0 .. MaxVersion, handle : Handles \cup {NoHandle},
   closed : BOOLEAN]

Files == [version : 0 .. MaxVersion, len : Nat]

ClientRecords ==
  [pc : Finished \cup {"idle", "send", "wait", "validate", "map", "load"},
   command : {"none", "ensure", "again", "status", "evict"},
   sends : 0 .. MaxRequests, attempt : 0 .. Retries + 1,
   asked : 0 .. MaxVersion, key : Keys, len : Nat, version : 0 .. MaxVersion]

(* Of thread, files, entries and clients.  Requests stay within what the    *)
(* retries of a client allow.                                               *)
CacheTypeOK ==
  /\ dataset \in [Paths -> [version : Versions, stamp : Versions]]
  /\ up \in BOOLEAN /\ crashes \in 0 .. MaxCrashes
  /\ next_generation \in Nat \ {0}
  /\ thread \in [Connections -> ThreadRecords \cup {NoThread}]
  /\ DOMAIN entries \subseteq Keys
  /\ \A k \in DOMAIN entries : entries[k] \in Handles
  /\ DOMAIN snapshot \subseteq Keys
  /\ \A k \in DOMAIN snapshot : snapshot[k] \in Files
  /\ DOMAIN metadata \subseteq DOMAIN snapshot
  /\ \A k \in DOMAIN metadata : metadata[k] \in {"torn", "whole"}
  /\ client \in [Clients -> ClientRecords]

(* FR-024: data is never older than the dataset was when the program        *)
(* started, whatever the interleaving with rewrites, retries, evictions and *)
(* crashes, and although stamp and data are read at different times.        *)
FreshData ==
  \A c \in Clients :
    client[c].pc = "done" /\ Kind[c] \in {"run", "runner"}
      => client[c].version = 0 \/ client[c].version >= client[c].asked

(* The next three hold when programs come one after the other.              *)

(* The trusted map, which looks at nothing but a length, never lands in a   *)
(* file that is not the archive of a version.                               *)
DataIsWhole ==
  \A c \in Clients :
    client[c].pc = "done" /\ Kind[c] # "evict" => client[c].version # 0

(* An entry describes its file as it is: who gets it as a hit can use it.   *)
EntryUsable ==
  \A k \in DOMAIN entries :
    Complete(k) /\ snapshot[k].len = entries[k].len

(* Only a crash makes the server refuse an ENSURE of a dataset it could     *)
(* read.                                                                    *)
RefusedOnlyAfterCrash ==
  \A c \in Clients :
    client[c].pc = "refused" /\ Kind[c] \in {"run", "runner"} => crashes > 0

(* What the documents ask for and the code does not do.                     *)
(* FR-025: on a miss the dataset is loaded and registered, on a hit it is   *)
(* reused: the server does not refuse an ENSURE of a dataset it could read. *)
EnsureAnswered ==
  \A c \in Clients :
    Kind[c] \in {"run", "runner"} => client[c].pc # "refused"

(* Every program comes to an end, however often it has to ask.              *)
ClientsFinish ==
  \A c \in Clients : Working(c) ~> client[c].pc \in Finished
=============================================================================
