---------------------------- MODULE WalStorage -----------------------------
(***************************************************************************)
(* The durable storage engine of asterd: Wal::WalBackedStorage over an     *)
(* InMemoryStorage, its WalFileWriter, the log file, and the recovery that *)
(* a start of the process runs (wal_file_reader, wal_replay).              *)
(*                                                                         *)
(* Client threads call set and remove; each call takes the mutex of        *)
(* WalBackedStorage, appends a record, fsyncs it when the policy says so,  *)
(* changes the map and advances the sequence number.  get and exists read  *)
(* the map without that mutex, so every state of storage is observable.    *)
(*                                                                         *)
(* The file is a sequence of the pieces that the write calls left in it.   *)
(* A piece that is not "whole" has no newline: whatever is appended after  *)
(* it continues the same line, and that line does not parse.               *)
(***************************************************************************)
EXTENDS Integers, Sequences, FiniteSets

CONSTANTS
  Client,      \* worker threads of the server that execute mutations
  Key, Value,  \* keys, and values given to SET (never empty: see the parser)
  NoValue,     \* key absent; as the value of a record: the record is a DEL
  Garbled,     \* a proper prefix of a value, read from a record cut short
  NoMutation,  \* the client has no mutation under way
  Nobody,      \* nobody holds the mutex of WalBackedStorage
  SyncPolicy,  \* WalFileWriterOptions::syncPolicy
  Faults,      \* what may go wrong in this instance
  MaxRecords   \* bound: no mutation is requested that would exceed this log

SyncPolicies == {"none", "fsync_on_flush", "fsync_every_write"}
FaultKinds   == {"open", "write", "tear", "sync", "kill", "power"}
Stored       == Value \cup {NoValue, Garbled}
Mutation     == [key : Key, value : Value \cup {NoValue}]
Parts        == {"whole", "noNewline", "unparsable"}
WalRecord    == [seq : Nat, key : Key, value : Stored, part : Parts]
Acked        == [at : Nat, mutation : Mutation]

ASSUME SentinelAssumption ==
  /\ NoValue \notin Value
  /\ Garbled \notin Value \cup {NoValue}
  /\ NoMutation \notin Mutation
  /\ Nobody \notin Client
ASSUME OptionsAssumption ==
  /\ SyncPolicy \in SyncPolicies
  /\ Faults \subseteq FaultKinds
  /\ MaxRecords \in Nat

VARIABLES
  mode,                \* the process: down, replaying, up, or refused (failed to start)
  fileExists,          \* the WAL file has been created
  wal,                 \* pieces in the file, in order
  synced,              \* number of leading pieces that are on disk
  storage,             \* InMemoryStorage::values_
  nextSequenceNumber,  \* WalBackedStorage::nextSequenceNumber_
  replayed,            \* records replayed so far by recover
  mutex,               \* owner of WalBackedStorage::mutex_
  pc,                  \* where each client is in set or remove
  req,                 \* the mutation each client executes
  acked                \* history: the mutations acknowledged as durable, and where they are

vars == <<mode, fileExists, wal, synced, storage, nextSequenceNumber,
          replayed, mutex, pc, req, acked>>
process == <<storage, nextSequenceNumber, replayed, mutex, pc, req>>

Steps == {"idle", "lock", "append", "sync", "apply"}
EmptyStorage == [k \in Key |-> NoValue]
Busy == {c \in Client : pc[c] # "idle"}

TypeOK ==
  /\ mode \in {"down", "replaying", "up", "refused"}
  /\ fileExists \in BOOLEAN
  /\ wal \in Seq(WalRecord)
  /\ synced \in 0..Len(wal)
  /\ storage \in [Key -> Stored]
  /\ nextSequenceNumber \in Nat \ {0}
  /\ replayed \in 0..Len(wal)
  /\ mutex \in Client \cup {Nobody}
  /\ pc \in [Client -> Steps]
  /\ req \in [Client -> Mutation \cup {NoMutation}]
  /\ acked \in SUBSET Acked

Init ==
  /\ mode = "down"
  /\ fileExists = FALSE
  /\ wal = <<>>
  /\ synced = 0
  /\ storage = EmptyStorage
  /\ nextSequenceNumber = 1
  /\ replayed = 0
  /\ mutex = Nobody
  /\ pc = [c \in Client |-> "idle"]
  /\ req = [c \in Client |-> NoMutation]
  /\ acked = {}

-----------------------------------------------------------------------------
(* The log file *)

\* What a write cut short may leave of record r: all of it but the newline; a
\* SET whose value lost an even number of hex digits, which still parses; or a
\* piece that is not a record.
Torn(r) ==
  {t \in {[r EXCEPT !.part = "noNewline"],
          [r EXCEPT !.part = "noNewline", !.value = Garbled],
          [r EXCEPT !.part = "unparsable"]} :
     /\ r.part = "unparsable" => t = r
     /\ r.value = NoValue => t.value = NoValue}

\* readRecordsFromFile succeeds: every line is one record; getline also
\* accepts a last line that has no newline.
Parsable ==
  \A i \in 1..Len(wal) :
    wal[i].part = "whole" \/ (i = Len(wal) /\ wal[i].part = "noNewline")

\* A process that is gone leaves nothing behind but the file.
ProcessGone ==
  /\ storage' = EmptyStorage
  /\ nextSequenceNumber' = 1
  /\ replayed' = 0
  /\ mutex' = Nobody
  /\ pc' = [c \in Client |-> "idle"]
  /\ req' = [c \in Client |-> NoMutation]

-----------------------------------------------------------------------------
(* Start of the process: WalBackedStorage::recover *)

Refuse ==
  /\ mode' = "refused"
  /\ ProcessGone
  /\ UNCHANGED <<wal, synced, acked>>

\* No file: start empty; open creates it.
RecoverWithoutFile ==
  /\ mode \in {"down", "refused"}
  /\ ~fileExists
  /\ \/ /\ mode' = "up"
        /\ fileExists' = TRUE
        /\ nextSequenceNumber' = 1
        /\ UNCHANGED <<wal, synced, storage, replayed, mutex, pc, req, acked>>
     \/ /\ "open" \in Faults
        /\ Refuse
        /\ UNCHANGED fileExists

ReadLog ==
  /\ mode \in {"down", "refused"}
  /\ fileExists
  /\ Parsable
  /\ mode' = "replaying"
  /\ replayed' = 0
  /\ UNCHANGED <<fileExists, wal, synced, storage, nextSequenceNumber, mutex,
                 pc, req, acked>>

RefuseLog ==
  /\ mode \in {"down", "refused"}
  /\ fileExists
  /\ ~Parsable
  /\ Refuse
  /\ UNCHANGED fileExists

\* Mutant: a replayed DEL is skipped.
ReplayRecordSkipsDel ==
  /\ mode = "replaying"
  /\ replayed < Len(wal)
  /\ LET r == wal[replayed + 1] IN
     storage' = IF r.value = NoValue THEN storage ELSE [storage EXCEPT ![r.key] = r.value]
  /\ replayed' = replayed + 1
  /\ UNCHANGED <<mode, fileExists, wal, synced, nextSequenceNumber, mutex, pc, req, acked>>

\* Mutant: the replay does not get past its record.
ReplayRecordStuck ==
  /\ mode = "replaying"
  /\ replayed < Len(wal)
  /\ LET r == wal[replayed + 1] IN storage' = [storage EXCEPT ![r.key] = r.value]
  /\ UNCHANGED <<mode, fileExists, wal, synced, nextSequenceNumber, replayed,
                 mutex, pc, req, acked>>

\* replayRecord for the next record: SET overwrites, DEL must find the key.
ReplayRecord ==
  /\ mode = "replaying"
  /\ replayed < Len(wal)
  /\ LET r == wal[replayed + 1] IN
     \/ /\ r.value # NoValue \/ storage[r.key] # NoValue
        /\ storage' = [storage EXCEPT ![r.key] = r.value]
        /\ replayed' = replayed + 1
        /\ UNCHANGED <<mode, fileExists, wal, synced, nextSequenceNumber,
                       mutex, pc, req, acked>>
     \/ /\ r.value = NoValue
        /\ storage[r.key] = NoValue
        /\ Refuse
        /\ UNCHANGED fileExists

\* Mutant: the next number is the highest one found, not one above it.
FinishRecoveryOffByOne ==
  /\ mode = "replaying"
  /\ replayed = Len(wal)
  /\ mode' = "up"
  /\ \E m \in {0} \cup {wal[i].seq : i \in 1..Len(wal)} :
       /\ \A i \in 1..Len(wal) : wal[i].seq <= m
       /\ nextSequenceNumber' = m
  /\ UNCHANGED <<fileExists, wal, synced, storage, replayed, mutex, pc, req, acked>>

\* Mutant: the numbering restarts after a recovery.
FinishRecoveryRestartsNumbers ==
  /\ mode = "replaying"
  /\ replayed = Len(wal)
  /\ mode' = "up"
  /\ UNCHANGED <<fileExists, wal, synced, storage, nextSequenceNumber, replayed,
                 mutex, pc, req, acked>>

\* All records replayed: computeNextSequenceNumber, then open for append.
FinishRecovery ==
  /\ mode = "replaying"
  /\ replayed = Len(wal)
  /\ \/ /\ mode' = "up"
        /\ \E m \in {0} \cup {wal[i].seq : i \in 1..Len(wal)} :
             /\ \A i \in 1..Len(wal) : wal[i].seq <= m
             /\ nextSequenceNumber' = m + 1
        /\ UNCHANGED <<fileExists, wal, synced, storage, replayed, mutex,
                       pc, req, acked>>
     \/ /\ "open" \in Faults
        /\ Refuse
        /\ UNCHANGED fileExists

-----------------------------------------------------------------------------
(* set and remove *)

Request(c) ==
  /\ mode = "up"
  /\ pc[c] = "idle"
  /\ Len(wal) + Cardinality(Busy) < MaxRecords
  /\ \E m \in Mutation : req' = [req EXCEPT ![c] = m]
  /\ pc' = [pc EXCEPT ![c] = "lock"]
  /\ UNCHANGED <<mode, fileExists, wal, synced, storage, nextSequenceNumber,
                 replayed, mutex, acked>>

\* Return from set or remove: lock_guard releases, the client gets its reply.
Return(c) ==
  /\ mutex' = Nobody
  /\ pc' = [pc EXCEPT ![c] = "idle"]
  /\ req' = [req EXCEPT ![c] = NoMutation]

\* Mutant: set and remove do not take the mutex.
BeginMutationUnlocked(c) ==
  /\ pc[c] = "lock"
  /\ req[c].value = NoValue => storage[req[c].key] # NoValue
  /\ mutex' = c
  /\ pc' = [pc EXCEPT ![c] = "append"]
  /\ UNCHANGED <<mode, fileExists, wal, synced, storage, nextSequenceNumber,
                 replayed, req, acked>>

\* Mutant: remove logs a DEL without asking whether the key exists.
BeginMutationUnchecked(c) ==
  /\ pc[c] = "lock"
  /\ mutex = Nobody
  /\ mutex' = c
  /\ pc' = [pc EXCEPT ![c] = "append"]
  /\ UNCHANGED <<mode, fileExists, wal, synced, storage, nextSequenceNumber,
                 replayed, req, acked>>

BeginMutation(c) ==
  /\ pc[c] = "lock"
  /\ mutex = Nobody
  /\ req[c].value = NoValue => storage[req[c].key] # NoValue
  /\ mutex' = c
  /\ pc' = [pc EXCEPT ![c] = "append"]
  /\ UNCHANGED <<mode, fileExists, wal, synced, storage, nextSequenceNumber,
                 replayed, req, acked>>

\* remove of an absent key: NotFound under the lock, nothing is logged.
RemoveMissing(c) ==
  /\ pc[c] = "lock"
  /\ mutex = Nobody
  /\ req[c].value = NoValue
  /\ storage[req[c].key] = NoValue
  /\ Return(c)
  /\ UNCHANGED <<mode, fileExists, wal, synced, storage, nextSequenceNumber,
                 replayed, acked>>

\* The record that client c logs, complete.
RecordOf(c) == [seq   |-> nextSequenceNumber,
                key   |-> req[c].key,
                value |-> req[c].value,
                part  |-> "whole"]

\* Mutant: the record is applied without waiting for the fsync.
AppendRecordUnsynced(c) ==
  /\ pc[c] = "append"
  /\ wal' = Append(wal, RecordOf(c))
  /\ pc' = [pc EXCEPT ![c] = "apply"]
  /\ UNCHANGED <<mode, fileExists, synced, storage, nextSequenceNumber,
                 replayed, mutex, req, acked>>

\* appendRecord: writeAll wrote the whole line.
AppendRecord(c) ==
  /\ pc[c] = "append"
  /\ wal' = Append(wal, RecordOf(c))
  /\ pc' = [pc EXCEPT ![c] =
              IF SyncPolicy = "fsync_every_write" THEN "sync" ELSE "apply"]
  /\ UNCHANGED <<mode, fileExists, synced, storage, nextSequenceNumber,
                 replayed, mutex, req, acked>>

\* A record that never got complete: nothing of it in the file, or a piece.
Incomplete(c) ==
  \/ UNCHANGED wal
  \/ /\ "tear" \in Faults
     /\ \E t \in Torn(RecordOf(c)) : wal' = Append(wal, t)

\* Mutant: the error return forgets the mutex.
AppendFailsLocked(c) ==
  /\ "write" \in Faults
  /\ pc[c] = "append"
  /\ Incomplete(c)
  /\ pc' = [pc EXCEPT ![c] = "idle"]
  /\ req' = [req EXCEPT ![c] = NoMutation]
  /\ UNCHANGED <<mode, fileExists, synced, storage, nextSequenceNumber,
                 replayed, mutex, acked>>

\* appendRecord: write failed after some of the bytes; set returns the error.
AppendFails(c) ==
  /\ "write" \in Faults
  /\ pc[c] = "append"
  /\ Incomplete(c)
  /\ Return(c)
  /\ UNCHANGED <<mode, fileExists, synced, storage, nextSequenceNumber,
                 replayed, acked>>

\* appendRecord: fsync forces the whole file, not this record only.
SyncRecord(c) ==
  /\ pc[c] = "sync"
  /\ synced' = Len(wal)
  /\ pc' = [pc EXCEPT ![c] = "apply"]
  /\ UNCHANGED <<mode, fileExists, wal, storage, nextSequenceNumber, replayed,
                 mutex, req, acked>>

\* Mutant: the result of fsync is ignored.
SyncFailsIgnored(c) ==
  /\ "sync" \in Faults
  /\ pc[c] = "sync"
  /\ pc' = [pc EXCEPT ![c] = "apply"]
  /\ UNCHANGED <<mode, fileExists, wal, synced, storage, nextSequenceNumber,
                 replayed, mutex, req, acked>>

\* fsync failed: set returns the error, and the record stays in the file.
SyncFails(c) ==
  /\ "sync" \in Faults
  /\ pc[c] = "sync"
  /\ Return(c)
  /\ UNCHANGED <<mode, fileExists, wal, synced, storage, nextSequenceNumber,
                 replayed, acked>>

\* storage_.set or storage_.remove, ++nextSequenceNumber_, OK.
ApplyMutation(c) ==
  /\ pc[c] = "apply"
  /\ \/ /\ req[c].value # NoValue \/ storage[req[c].key] # NoValue
        /\ storage' = [storage EXCEPT ![req[c].key] = req[c].value]
        /\ nextSequenceNumber' = nextSequenceNumber + 1
        /\ acked' = IF SyncPolicy = "fsync_every_write"
                      THEN acked \cup {[at |-> Len(wal), mutation |-> req[c]]}
                      ELSE acked
     \/ /\ req[c].value = NoValue
        /\ storage[req[c].key] = NoValue
        /\ UNCHANGED <<storage, nextSequenceNumber, acked>>
  /\ Return(c)
  /\ UNCHANGED <<mode, fileExists, wal, synced, replayed>>

-----------------------------------------------------------------------------
(* End of the process, expected or not *)

\* The runtime is destroyed after its workers: ~WalFileWriter fsyncs unless
\* the policy is none, and ignores a failure.
Shutdown ==
  /\ mode = "up"
  /\ Busy = {}
  /\ \/ SyncPolicy # "none" /\ synced' = Len(wal)
     \/ (SyncPolicy = "none" \/ "sync" \in Faults) /\ UNCHANGED synced
  /\ mode' = "down"
  /\ ProcessGone
  /\ UNCHANGED <<fileExists, wal, acked>>

\* The process dies; what it wrote stays with the operating system.
Kill ==
  /\ "kill" \in Faults
  /\ mode \in {"replaying", "up"}
  /\ UNCHANGED wal \/ \E c \in Client : pc[c] = "append" /\ Incomplete(c)
  /\ mode' = "down"
  /\ ProcessGone
  /\ UNCHANGED <<fileExists, synced, acked>>

\* The machine dies: the file keeps at least what was forced to disk, and may
\* keep a piece of the next record.
PowerLoss ==
  /\ "power" \in Faults
  /\ \E n \in synced..Len(wal) :
       /\ \/ wal' = SubSeq(wal, 1, n)
          \/ /\ "tear" \in Faults
             /\ n < Len(wal)
             /\ \E t \in Torn(wal[n + 1]) : wal' = Append(SubSeq(wal, 1, n), t)
       /\ synced' = Len(wal')
  /\ mode' = "down"
  /\ ProcessGone
  /\ UNCHANGED <<fileExists, acked>>

-----------------------------------------------------------------------------
Mutate(c) ==
  \/ BeginMutation(c) \/ RemoveMissing(c)
  \/ AppendRecord(c)  \/ AppendFails(c)
  \/ SyncRecord(c)    \/ SyncFails(c)
  \/ ApplyMutation(c)

Recover ==
  \/ RecoverWithoutFile \/ ReadLog \/ RefuseLog \/ ReplayRecord \/ FinishRecovery

Next ==
  \/ Recover
  \/ \E c \in Client : Request(c) \/ Mutate(c)
  \/ Shutdown \/ Kill \/ PowerLoss

Spec == Init /\ [][Next]_vars

\* Every thread keeps running, recovery included; nobody has to send a command.
FairSpec ==
  /\ Spec
  /\ WF_vars(Recover)
  /\ \A c \in Client : WF_vars(AppendRecord(c) \/ AppendFails(c))
                      /\ WF_vars(SyncRecord(c) \/ SyncFails(c))
                      /\ WF_vars(ApplyMutation(c))

-----------------------------------------------------------------------------
(* Vocabulary of the properties *)

\* Record i is the last one about key k among the first n records of w.
LastOf(w, n, k, i) ==
  i \in 1..n /\ w[i].key = k /\ \A j \in (i+1)..n : w[j].key # k

\* What replaying the first n records of w gives: the last record of a key wins.
Contents(w, n) ==
  [k \in Key |-> IF \E i \in 1..n : w[i].key = k
                   THEN w[CHOOSE i \in 1..n : LastOf(w, n, k, i)].value
                   ELSE NoValue]

\* The process or the machine may die and a write may fail as a whole, but no
\* write is cut short and no fsync fails.
CleanFaults == Faults \cap {"tear", "sync"} = {}

\* A client is past the write of its record but has not applied it yet.
Logged(c) == pc[c] \in {"sync", "apply"}

\* Piece i of the file is the complete record of mutation m.
Holds(i, m) == wal[i].part = "whole" /\ wal[i].key = m.key /\ wal[i].value = m.value

\* How many records of the file the map shows.
Visible == IF \E c \in Client : Logged(c) THEN Len(wal) - 1 ELSE Len(wal)

-----------------------------------------------------------------------------
(* Properties *)

\* Sequence numbers never go back along the file, even when writes and fsyncs
\* fail, recoveries repeat and power losses cut the file: nextSequenceNumber_
\* restarts above everything that is still there.
SeqNonDecreasing ==
  \A i, j \in 1..Len(wal) : i < j => wal[i].seq <= wal[j].seq

\* Under fsync_every_write every mutation that was answered OK has its record,
\* complete and with its key and value, where it was written, whatever failed
\* or crashed since: set and remove reply only after appendRecord has forced
\* the file to disk, and nothing rewrites what is on disk.
AckedInLog ==
  SyncPolicy = "fsync_every_write" =>
    \A a \in acked : a.at <= Len(wal) /\ Holds(a.at, a.mutation)

\* While no write is cut short and no fsync fails, record i of the file has
\* sequence number i: no crash, at any point of set, remove or recover, makes
\* a gap or a repeat.
SeqDense ==
  CleanFaults => \A i \in 1..Len(wal) : wal[i].seq = i

\* While no write is cut short and no fsync fails, the server can always start
\* again: no crash leaves a line that recover cannot read, or a DEL of a key
\* that the replay does not have.
NeverRefused ==
  CleanFaults /\ "open" \notin Faults => mode # "refused"

\* While no write is cut short and no fsync fails, the map and the file agree:
\* get and exists answer what the file replays to, short only of the mutation
\* that is logged and not applied yet.
MemoryMatchesLog ==
  CleanFaults /\ mode = "up" => storage = Contents(wal, Visible)

\* get and exists do not take the mutex of the log, yet under fsync_every_write
\* they return no value that is not in the file for good: its record has been
\* forced to disk, or was in the file already when this process started.  set
\* changes the map only after the fsync, and a failed fsync changes nothing.
DurableReads ==
  SyncPolicy = "fsync_every_write" =>
    \A k \in Key : storage[k] # NoValue =>
      \E i \in 1..Len(wal) : /\ wal[i].key = k /\ wal[i].value = storage[k]
                             /\ i <= synced \/ i <= replayed

\* The mutex of the storage engine is always released again, on the error
\* returns of set and remove too.
MutexReleased == \A c \in Client : mutex = c ~> mutex # c

\* recover always comes to an end: the process is up, refused to start, or is gone.
RecoveryEnds == mode = "replaying" ~> mode # "replaying"

\* While no write is cut short and no fsync fails, the engine implements the
\* abstract store: clients see a map that changes by one acknowledged mutation
\* at a time, and a crash keeps or loses mutations in doubt and no others.
KV == INSTANCE KVStore WITH
        kv        <- IF mode = "up" THEN storage ELSE Contents(wal, Len(wal)),
        survivors <- {Contents(wal, n) : n \in synced..Len(wal)},
        pending   <- req,
        Durable   <- SyncPolicy = "fsync_every_write"
Implements == KV!KVSpec

-----------------------------------------------------------------------------
(* Why the properties hold: the invariants the proofs are built on *)

\* The mutex is held from the append to the return; the code between is alone.
LockInv ==
  /\ \A c \in Client : pc[c] \in {"append", "sync", "apply"} <=> mutex = c
  /\ \A c \in Client : pc[c] = "idle" <=> req[c] = NoMutation
  /\ mode # "up" => \A c \in Client : pc[c] = "idle"

\* The record that is being logged is the last of the file, whole; what was
\* acknowledged under fsync_every_write is forced to disk.
AckInv ==
  /\ \A c \in Client : Logged(c) => Len(wal) > 0 /\ Holds(Len(wal), req[c])
  /\ SyncPolicy = "fsync_every_write" =>
       /\ \A a \in acked : a.at \in 1..synced /\ Holds(a.at, a.mutation)
       /\ \A c \in Client : pc[c] = "apply" => synced = Len(wal)

\* A process that is not running shows nothing; what a running one shows is on
\* disk, or was in the file when it started.
ShownInv ==
  /\ mode \in {"down", "refused"} => storage = EmptyStorage
  /\ DurableReads

\* The next number is never below a number in the file, and a process that is
\* up has a file.
SeqInv ==
  /\ fileExists \/ (Len(wal) = 0 /\ mode \in {"down", "refused"})
  /\ SeqNonDecreasing
  /\ mode = "up" => \A i \in 1..Len(wal) : wal[i].seq <= nextSequenceNumber

\* The map st is what the first n records of w lead to.  (The relation behind
\* Contents: it needs no choice, so it can be kept step by step.)
Reflects(st, w, n) ==
  \A k \in Key :
    \/ st[k] = NoValue /\ \A i \in 1..n : w[i].key # k
    \/ \E i \in 1..n : LastOf(w, n, k, i) /\ st[k] = w[i].value

\* Every beginning of the file replays to a map, and Contents is that map.
Replayable ==
  \A n \in 0..Len(wal) :
    /\ Contents(wal, n) \in [Key -> Stored]
    /\ Reflects(Contents(wal, n), wal, n)

\* The file is the log of a legal history: whole records, numbered from 1, and
\* a DEL only of a key that is there.
LegalLog ==
  \A i \in 1..Len(wal) :
    /\ wal[i].part = "whole"
    /\ wal[i].seq = i
    /\ wal[i].value = NoValue =>
         \E j \in 1..(i-1) :
           LastOf(wal, i - 1, wal[i].key, j) /\ wal[j].value # NoValue

\* Without torn writes and failed fsyncs the log is legal, and memory is the
\* state that it leads to.
CleanInv ==
  /\ LegalLog
  /\ mode \in {"down", "refused"} => storage = EmptyStorage
  /\ mode = "replaying" => Reflects(storage, wal, replayed)
  /\ mode = "up" => /\ Reflects(storage, wal, Visible)
                    /\ nextSequenceNumber = Visible + 1
  /\ "open" \notin Faults => mode # "refused"
  /\ \A c \in Client :
       /\ pc[c] = "append" /\ req[c].value = NoValue => storage[req[c].key] # NoValue
       /\ Logged(c) => /\ Len(wal) > 0
                       /\ wal[Len(wal)].key = req[c].key
                       /\ wal[Len(wal)].value = req[c].value
=============================================================================
