------------------------ MODULE WalRefinementProofs ------------------------
(***************************************************************************)
(* Proofs about WalStorage as long as no write is cut short and no fsync   *)
(* fails: the log and the map agree, recovery cannot fail, and the engine  *)
(* implements KVStore: each of its steps and those of its recovery is a    *)
(* step of the abstract store, or changes nothing that it promises.        *)
(***************************************************************************)
EXTENDS WalStorageProofs

-----------------------------------------------------------------------------
(* The map that a log leads to *)

\* The last record about a key is unique.
LEMMA LastUnique ==
  ASSUME NEW w, NEW n \in Nat, NEW k, NEW i, NEW j,
         LastOf(w, n, k, i), LastOf(w, n, k, j)
  PROVE  i = j
BY DEF LastOf

\* One more record changes the map at its key and nowhere else.
LEMMA ReflectsNext ==
  ASSUME NEW w, NEW n \in Nat, NEW st \in [Key -> Stored],
         Reflects(st, w, n), w[n + 1].key \in Key
  PROVE  Reflects([st EXCEPT ![w[n + 1].key] = w[n + 1].value], w, n + 1)
<1> DEFINE new == [st EXCEPT ![w[n + 1].key] = w[n + 1].value]
<1> SUFFICES ASSUME NEW k \in Key
             PROVE  \/ new[k] = NoValue /\ \A i \in 1..(n + 1) : w[i].key # k
                    \/ \E i \in 1..(n + 1) : LastOf(w, n + 1, k, i) /\ new[k] = w[i].value
  BY DEF Reflects
<1>1. CASE k = w[n + 1].key
  <2>1. LastOf(w, n + 1, k, n + 1) /\ new[k] = w[n + 1].value
    BY <1>1 DEF LastOf
  <2> QED
    BY <2>1
<1>2. CASE k # w[n + 1].key
  <2>1. new[k] = st[k]
    BY <1>2
  <2>2. CASE st[k] = NoValue /\ \A i \in 1..n : w[i].key # k
    BY <1>2, <2>1, <2>2
  <2>3. ASSUME NEW i \in 1..n, LastOf(w, n, k, i), st[k] = w[i].value
        PROVE  LastOf(w, n + 1, k, i) /\ i \in 1..(n + 1)
    BY <1>2, <2>3 DEF LastOf
  <2> QED
    BY <2>1, <2>2, <2>3 DEF Reflects
<1> QED
  BY <1>1, <1>2

\* The map depends on the first n records only.
LEMMA ReflectsPrefix ==
  ASSUME NEW v, NEW w, NEW n \in Nat, NEW st,
         \A i \in 1..n : v[i] = w[i], Reflects(st, w, n)
  PROVE  Reflects(st, v, n)
BY DEF Reflects, LastOf

\* The empty log leads to the empty map.
LEMMA ReflectsNothing ==
  ASSUME NEW w PROVE Reflects(EmptyStorage, w, 0)
BY DEF Reflects, EmptyStorage

\* A key whose last record is a SET is in the map, and the other way round.
LEMMA ReflectsPresent ==
  ASSUME NEW w, NEW n \in Nat, NEW st, Reflects(st, w, n), NEW k \in Key
  PROVE  st[k] # NoValue <=> \E j \in 1..n : LastOf(w, n, k, j) /\ w[j].value # NoValue
<1>1. ASSUME NEW j \in 1..n, LastOf(w, n, k, j), w[j].value # NoValue
      PROVE  st[k] # NoValue
  <2>1. w[j].key = k
    BY <1>1 DEF LastOf
  <2>2. PICK i \in 1..n : LastOf(w, n, k, i) /\ st[k] = w[i].value
    BY <2>1 DEF Reflects
  <2>3. i = j
    BY <1>1, <2>2, LastUnique
  <2> QED
    BY <1>1, <2>2, <2>3
<1> QED
  BY <1>1 DEF Reflects

\* The relation and the function agree.
LEMMA ReflectsContents ==
  ASSUME NEW w, NEW n \in Nat, NEW st \in [Key -> Stored], Reflects(st, w, n)
  PROVE  st = Contents(w, n)
<1>1. ASSUME NEW k \in Key
      PROVE  st[k] = Contents(w, n)[k]
  <2>1. CASE st[k] = NoValue /\ \A i \in 1..n : w[i].key # k
    BY <2>1 DEF Contents
  <2>2. ASSUME NEW i \in 1..n, LastOf(w, n, k, i), st[k] = w[i].value
        PROVE  st[k] = Contents(w, n)[k]
    <3> DEFINE j == CHOOSE x \in 1..n : LastOf(w, n, k, x)
    <3>1. j \in 1..n /\ LastOf(w, n, k, j)
      BY <2>2
    <3>2. j = i
      BY <2>2, <3>1, LastUnique
    <3>3. w[i].key = k
      BY <2>2 DEF LastOf
    <3>4. Contents(w, n)[k] = w[j].value
      BY <3>3 DEF Contents
    <3> QED
      BY <2>2, <3>2, <3>4
  <2> QED
    BY <2>1, <2>2 DEF Reflects
<1>2. Contents(w, n) = [k \in Key |-> Contents(w, n)[k]]
  BY DEF Contents
<1> QED
  BY <1>1, <1>2
-----------------------------------------------------------------------------
(* Log and memory agree *)

\* A legal log stays legal when a record is appended that has the next number
\* and, if it is a DEL, whose key is in the map the log leads to.
LEMMA LegalAppend ==
  ASSUME TypeOK, LegalLog, NEW r \in WalRecord, wal' = Append(wal, r),
         r.part = "whole", r.seq = Len(wal) + 1,
         r.value = NoValue =>
           \E j \in 1..Len(wal) : LastOf(wal, Len(wal), r.key, j) /\ wal[j].value # NoValue
  PROVE  LegalLog'
<1>1. /\ wal \in Seq(WalRecord) /\ Len(wal) \in Nat
  BY LogFacts
<1>2. /\ Len(wal') = Len(wal) + 1 /\ wal'[Len(wal) + 1] = r
      /\ \A i \in 1..Len(wal) : wal'[i] = wal[i]
  BY <1>1, AppendIndex
<1> SUFFICES ASSUME NEW i \in 1..Len(wal')
             PROVE  /\ wal'[i].part = "whole"
                    /\ wal'[i].seq = i
                    /\ wal'[i].value = NoValue =>
                         \E j \in 1..(i-1) :
                           LastOf(wal', i - 1, wal'[i].key, j) /\ wal'[j].value # NoValue
  BY DEF LegalLog
<1>3. CASE i = Len(wal) + 1
  <2>1. wal'[i] = r /\ i - 1 = Len(wal)
    BY <1>1, <1>2, <1>3
  <2>2. ASSUME NEW j \in 1..Len(wal), LastOf(wal, Len(wal), r.key, j)
        PROVE  LastOf(wal', Len(wal), r.key, j) /\ wal'[j] = wal[j]
    BY <1>1, <1>2, <2>2 DEF LastOf
  <2> QED
    BY <1>3, <2>1, <2>2
<1>4. CASE i \in 1..Len(wal)
  <2>1. wal'[i] = wal[i] /\ i - 1 \in Nat
    BY <1>2, <1>4
  <2>2. ASSUME NEW j \in 1..(i-1), LastOf(wal, i - 1, wal[i].key, j)
        PROVE  LastOf(wal', i - 1, wal[i].key, j) /\ wal'[j] = wal[j]
    BY <1>1, <1>2, <1>4, <2>2 DEF LastOf
  <2> QED
    BY <1>4, <2>1, <2>2 DEF LegalLog
<1> QED
  BY <1>1, <1>2, <1>3, <1>4

\* A beginning of a legal log is a legal log.
LEMMA LegalPrefix ==
  ASSUME TypeOK, LegalLog, NEW n \in 0..Len(wal), Len(wal') = n,
         \A i \in 1..n : wal'[i] = wal[i]
  PROVE  LegalLog'
<1>1. Len(wal) \in Nat /\ n \in Nat /\ n <= Len(wal)
  BY LogFacts
<1> SUFFICES ASSUME NEW i \in 1..n
             PROVE  /\ wal'[i].part = "whole"
                    /\ wal'[i].seq = i
                    /\ wal'[i].value = NoValue =>
                         \E j \in 1..(i-1) :
                           LastOf(wal', i - 1, wal'[i].key, j) /\ wal'[j].value # NoValue
  BY DEF LegalLog
<1>2. wal'[i] = wal[i] /\ i \in 1..Len(wal)
  BY <1>1
<1>3. ASSUME NEW j \in 1..(i-1), LastOf(wal, i - 1, wal[i].key, j)
      PROVE  LastOf(wal', i - 1, wal[i].key, j) /\ wal'[j] = wal[j]
  BY <1>1, <1>3 DEF LastOf
<1> QED
  BY <1>2, <1>3 DEF LegalLog

\* After the end of the process only the file counts.
LEMMA GoneClean ==
  ASSUME ProcessGone, LegalLog', mode' = "down"
  PROVE  CleanInv'
BY DEF ProcessGone, CleanInv, Logged

\* Who holds the mutex is alone past the lock.
LEMMA Alone ==
  ASSUME LockInv, NEW c \in Client, pc[c] \in {"append", "sync", "apply"},
         NEW d \in Client, d # c
  PROVE  pc[d] \notin {"append", "sync", "apply"}
BY DEF LockInv

\* Initially the log is empty and the process down.
LEMMA InitClean == Init => CleanInv
BY DEF Init, CleanInv, LegalLog, Logged

\* A start of the process keeps log and memory in agreement, and is not refused.
LEMMA RecoverClean ==
  ASSUME TypeOK, LockInv, SeqInv, CleanInv, CleanFaults, Recover
  PROVE  CleanInv'
<1>0. /\ wal \in Seq(WalRecord) /\ Len(wal) \in Nat /\ LegalLog
      /\ replayed \in Nat /\ replayed <= Len(wal)
  BY LogFacts DEF CleanInv
<1>1. mode # "up" => \A c \in Client : pc[c] = "idle"
  BY DEF LockInv
<1>2. \A c \in Client : pc[c] = "idle" => ~Logged(c)
  BY DEF Logged
<1>L. UNCHANGED wal => LegalLog'
  BY <1>0 DEF LegalLog, LastOf
<1>R. ASSUME Refuse, "open" \in Faults
      PROVE  CleanInv'
  BY <1>R, <1>L DEF Refuse, ProcessGone, CleanInv, Logged
<1>U. ASSUME mode' = "up", UNCHANGED <<wal, storage, pc, req>>, mode # "up",
             Reflects(storage, wal, Len(wal)), nextSequenceNumber' = Len(wal) + 1
      PROVE  CleanInv'
  <2>1. \A c \in Client : pc'[c] = "idle" /\ ~Logged(c)'
    BY <1>U, <1>1, <1>2 DEF Logged
  <2>2. Visible' = Len(wal)
    BY <1>U, <2>1 DEF Visible
  <2>3. Reflects(storage, wal, Len(wal))'
    BY <1>U DEF Reflects, LastOf
  <2> QED
    BY <1>U, <1>L, <2>1, <2>2, <2>3 DEF CleanInv
<1>3. CASE RecoverWithoutFile
  <2>1. CASE Refuse /\ "open" \in Faults
    BY <2>1, <1>R
  <2>2. CASE ~(Refuse /\ "open" \in Faults)
    <3>1. /\ mode \in {"down", "refused"} /\ mode' = "up" /\ nextSequenceNumber' = 1
          /\ UNCHANGED <<wal, storage, pc, req>>
      BY <1>3, <2>2 DEF RecoverWithoutFile
    <3>2. Len(wal) = 0
      BY <1>3 DEF RecoverWithoutFile, SeqInv
    <3>3. Reflects(storage, wal, Len(wal))
      BY <3>1, <3>2, ReflectsNothing DEF CleanInv
    <3> QED
      BY <1>U, <3>1, <3>2, <3>3
  <2> QED
    BY <2>1, <2>2
<1>4. CASE ReadLog
  <2>1. Reflects(storage, wal, 0)
    BY <1>4, ReflectsNothing DEF ReadLog, CleanInv
  <2>2. Reflects(storage', wal', replayed')
    BY <1>4, <2>1 DEF ReadLog
  <2>3. \A c \in Client : pc'[c] = "idle" /\ ~Logged(c)'
    BY <1>4, <1>1, <1>2 DEF ReadLog, Logged
  <2> QED
    BY <1>4, <1>L, <2>2, <2>3 DEF ReadLog, CleanInv
<1>5. CASE RefuseLog
  BY <1>0, <1>5 DEF RefuseLog, Parsable, LegalLog
<1>6. CASE ReplayRecord
  <2> DEFINE r == wal[replayed + 1]
  <2>1. replayed + 1 \in 1..Len(wal) /\ r \in WalRecord /\ mode = "replaying"
        /\ Reflects(storage, wal, replayed)
    BY <1>0, <1>6, LogFacts DEF ReplayRecord, CleanInv
  <2>2. r.value # NoValue \/ storage[r.key] # NoValue
    <3>1. SUFFICES ASSUME r.value = NoValue PROVE storage[r.key] # NoValue
      OBVIOUS
    <3>2. (replayed + 1) - 1 = replayed /\ r.key \in Key
      BY <1>0, <2>1, LogFacts
    <3>3. \E j \in 1..replayed : LastOf(wal, replayed, r.key, j) /\ wal[j].value # NoValue
      BY <1>0, <2>1, <3>1, <3>2 DEF LegalLog
    <3> QED
      BY <1>0, <2>1, <3>2, <3>3, ReflectsPresent
  <2>3. /\ storage' = [storage EXCEPT ![r.key] = r.value] /\ replayed' = replayed + 1
        /\ UNCHANGED <<mode, wal, pc, req>>
    BY <1>6, <2>2 DEF ReplayRecord
  <2>4. Reflects(storage', wal, replayed + 1)
    BY <1>0, <2>1, <2>3, LogFacts, ReflectsNext DEF TypeOK
  <2>5. \A c \in Client : pc'[c] = "idle" /\ ~Logged(c)'
    BY <2>1, <2>3, <1>1, <1>2 DEF Logged
  <2>6. Reflects(storage', wal', replayed')
    BY <2>3, <2>4
  <2> QED
    BY <1>L, <2>1, <2>3, <2>5, <2>6 DEF CleanInv
<1>7. CASE FinishRecovery
  <2>1. CASE Refuse /\ "open" \in Faults
    BY <2>1, <1>R
  <2>2. CASE ~(Refuse /\ "open" \in Faults)
    <3>1. /\ mode = "replaying" /\ replayed = Len(wal) /\ mode' = "up"
          /\ UNCHANGED <<wal, storage, pc, req>>
      BY <1>7, <2>2 DEF FinishRecovery
    <3>2. PICK m \in {0} \cup {wal[i].seq : i \in 1..Len(wal)} :
            /\ \A i \in 1..Len(wal) : wal[i].seq <= m
            /\ nextSequenceNumber' = m + 1
      BY <1>7, <2>2 DEF FinishRecovery
    <3>3. \A i \in 1..Len(wal) : wal[i].seq = i
      BY <1>0 DEF LegalLog
    <3>4. m = Len(wal)
      BY <1>0, <3>2, <3>3
    <3>5. Reflects(storage, wal, Len(wal))
      BY <3>1 DEF CleanInv
    <3> QED
      BY <1>U, <3>1, <3>2, <3>4, <3>5
  <2> QED
    BY <2>1, <2>2
<1> QED
  BY <1>3, <1>4, <1>5, <1>6, <1>7 DEF Recover

\* A step of set or remove keeps log and memory in agreement.
LEMMA MutateClean ==
  ASSUME TypeOK, LockInv, CleanInv, CleanFaults, NEW c \in Client, Mutate(c)
  PROVE  CleanInv'
<1>0. /\ wal \in Seq(WalRecord) /\ Len(wal) \in Nat /\ LegalLog
      /\ storage \in [Key -> Stored] /\ pc \in [Client -> Steps]
      /\ nextSequenceNumber \in Nat
  BY LogFacts DEF CleanInv, TypeOK
<1>1. /\ mode = "up" /\ pc[c] # "idle"
      /\ Reflects(storage, wal, Visible) /\ nextSequenceNumber = Visible + 1
  <2>1. mode = "up" /\ pc[c] # "idle"
    BY DEF Mutate, BeginMutation, RemoveMissing, AppendRecord, AppendFails,
           SyncRecord, SyncFails, ApplyMutation, LockInv
  <2> QED
    BY <2>1 DEF CleanInv
<1>2. /\ req[c] \in Mutation /\ req[c].key \in Key
  BY <1>1, RecordType DEF Mutation
<1>L. UNCHANGED wal => LegalLog'
  BY <1>0 DEF LegalLog, LastOf
<1>N. \A d \in Client : pc'[d] = pc[d] \/ d = c
  BY <1>0 DEF Mutate, BeginMutation, RemoveMissing, AppendRecord, AppendFails,
         SyncRecord, SyncFails, ApplyMutation, Return
<1>E. ASSUME UNCHANGED <<wal, storage, nextSequenceNumber, mode>>,
             \A d \in Client : ~Logged(d) /\ ~Logged(d)' /\ req'[d] \in {req[d], NoMutation},
             pc'[c] # "append" \/ (req'[c] = req[c] /\
                 (req[c].value = NoValue => storage[req[c].key] # NoValue)),
             \A d \in Client : d # c => req'[d] = req[d]
      PROVE  CleanInv'
  <2>1. Visible = Len(wal) /\ Visible' = Len(wal)
    BY <1>E DEF Visible
  <2>2. \A d \in Client : pc'[d] = "append" /\ req'[d].value = NoValue => storage'[req'[d].key] # NoValue
    BY <1>E, <1>N DEF CleanInv
  <2>3. Reflects(storage', wal', Visible') /\ nextSequenceNumber' = Visible' + 1
    BY <1>1, <1>E, <2>1
  <2> QED
    BY <1>1, <1>E, <1>L, <2>2, <2>3 DEF CleanInv
<1>3. CASE BeginMutation(c)
  <2>1. \A d \in Client : pc[d] \notin {"append", "sync", "apply"}
    BY <1>3, SentinelAssumption DEF BeginMutation, LockInv
  <2>2. \A d \in Client : ~Logged(d) /\ ~Logged(d)'
    BY <1>0, <1>3, <1>N, <2>1 DEF BeginMutation, Logged
  <2> QED
    BY <1>0, <1>3, <1>E, <2>2 DEF BeginMutation
<1>4. CASE RemoveMissing(c)
  <2>1. \A d \in Client : pc[d] \notin {"append", "sync", "apply"}
    BY <1>4, SentinelAssumption DEF RemoveMissing, LockInv
  <2>2. \A d \in Client : ~Logged(d) /\ ~Logged(d)'
    BY <1>0, <1>4, <1>N, <2>1 DEF RemoveMissing, Return, Logged
  <2>3. /\ UNCHANGED <<wal, storage, nextSequenceNumber, mode>> /\ pc'[c] = "idle"
        /\ \A d \in Client : req'[d] \in {req[d], NoMutation} /\ (d # c => req'[d] = req[d])
    BY <1>0, <1>4 DEF RemoveMissing, Return, TypeOK
  <2> QED
    BY <1>E, <2>2, <2>3
<1>5. CASE AppendRecord(c)
  <2>1. \A d \in Client : d # c => pc'[d] = pc[d] /\ pc[d] \notin {"append", "sync", "apply"}
    BY <1>5, <1>N, Alone DEF AppendRecord
  <2>2. Visible = Len(wal)
    BY <1>5, <2>1 DEF AppendRecord, Visible, Logged
  <2>3. /\ RecordOf(c) \in WalRecord
        /\ RecordOf(c).part = "whole"
        /\ RecordOf(c).seq = Len(wal) + 1
        /\ RecordOf(c).key = req[c].key
        /\ RecordOf(c).value = req[c].value
    BY <1>1, <2>2, RecordType
  <2>4. req[c].value = NoValue =>
          \E j \in 1..Len(wal) : LastOf(wal, Len(wal), req[c].key, j) /\ wal[j].value # NoValue
    <3>1. req[c].value = NoValue => storage[req[c].key] # NoValue
      BY <1>5 DEF AppendRecord, CleanInv
    <3> QED
      BY <1>0, <1>1, <1>2, <2>2, <3>1, ReflectsPresent
  <2>5. wal' = Append(wal, RecordOf(c)) /\ UNCHANGED <<mode, storage, nextSequenceNumber, req>>
    BY <1>5 DEF AppendRecord
  <2>6. LegalLog'
    BY <1>0, <2>3, <2>4, <2>5, LegalAppend
  <2>7. /\ Len(wal') = Len(wal) + 1 /\ wal'[Len(wal) + 1] = RecordOf(c)
        /\ \A i \in 1..Len(wal) : wal'[i] = wal[i]
    BY <1>0, <2>3, <2>5, AppendIndex
  <2>8. pc'[c] \in {"sync", "apply"}
    BY <1>0, <1>5 DEF AppendRecord
  <2>9. Visible' = Len(wal)
    BY <1>0, <2>7, <2>8 DEF Visible, Logged
  <2>10. Reflects(storage', wal', Visible') /\ nextSequenceNumber' = Visible' + 1
    BY <1>0, <1>1, <2>2, <2>5, <2>7, <2>9, ReflectsPrefix
  <2>11. \A d \in Client : (pc'[d] = "append" => FALSE) /\ (Logged(d)' => d = c)
    BY <2>1, <2>8 DEF Logged
  <2> QED
    BY <1>0, <1>1, <2>3, <2>5, <2>6, <2>7, <2>10, <2>11 DEF CleanInv
<1>6. CASE AppendFails(c)
  <2>1. \A d \in Client : d # c => pc[d] \notin {"append", "sync", "apply"}
    BY <1>6, Alone DEF AppendFails
  <2>2. \A d \in Client : ~Logged(d) /\ ~Logged(d)'
    BY <1>0, <1>6, <1>N, <2>1 DEF AppendFails, Return, Logged
  <2>3. /\ UNCHANGED <<wal, storage, nextSequenceNumber, mode>> /\ pc'[c] = "idle"
        /\ \A d \in Client : req'[d] \in {req[d], NoMutation} /\ (d # c => req'[d] = req[d])
    BY <1>0, <1>6 DEF AppendFails, Incomplete, Return, CleanFaults, TypeOK
  <2> QED
    BY <1>E, <2>2, <2>3
<1>7. CASE SyncRecord(c)
  <2>1. /\ UNCHANGED <<wal, storage, nextSequenceNumber, mode, req>>
        /\ Logged(c) /\ pc'[c] = "apply"
    BY <1>0, <1>7 DEF SyncRecord, Logged
  <2>2. \A d \in Client : (Logged(d)' <=> Logged(d)) /\ (pc'[d] = "append" => pc[d] = "append")
    BY <1>N, <2>1 DEF Logged
  <2>3. Visible' = Visible
    BY <2>1, <2>2 DEF Visible
  <2>4. Reflects(storage', wal', Visible') /\ nextSequenceNumber' = Visible' + 1
    BY <1>1, <2>1, <2>3
  <2> QED
    BY <1>1, <1>L, <2>1, <2>2, <2>4 DEF CleanInv
<1>8. CASE SyncFails(c)
  BY <1>8 DEF SyncFails, CleanFaults
<1>9. CASE ApplyMutation(c)
  <2>1. /\ Logged(c) /\ Len(wal) > 0
        /\ wal[Len(wal)].key = req[c].key /\ wal[Len(wal)].value = req[c].value
    BY <1>9 DEF ApplyMutation, Logged, CleanInv
  <2>2. Visible = Len(wal) - 1 /\ Visible \in Nat
    BY <1>0, <2>1 DEF Visible
  <2>3. req[c].value # NoValue \/ storage[req[c].key] # NoValue
    <3>1. req[c].value = NoValue =>
            \E j \in 1..Visible : LastOf(wal, Visible, req[c].key, j) /\ wal[j].value # NoValue
      BY <1>0, <2>1, <2>2 DEF LegalLog
    <3> QED
      BY <1>1, <1>2, <2>2, <3>1, ReflectsPresent
  <2>4. /\ UNCHANGED <<wal, mode>> /\ pc'[c] = "idle"
        /\ storage' = [storage EXCEPT ![req[c].key] = req[c].value]
        /\ nextSequenceNumber' = nextSequenceNumber + 1
        /\ \A d \in Client : d # c => req'[d] = req[d]
    BY <1>0, <1>9, <2>3 DEF ApplyMutation, Return, TypeOK
  <2>5. \A d \in Client : pc'[d] \notin {"append", "sync", "apply"}
    BY <1>9, <1>N, <2>4, Alone DEF ApplyMutation
  <2>6. Visible' = Len(wal)
    BY <2>4, <2>5 DEF Visible, Logged
  <2>7. Reflects(storage', wal', Visible')
    <3>1. Visible + 1 = Len(wal)
      BY <1>0, <2>2
    <3>2. wal[Visible + 1].key = req[c].key /\ wal[Visible + 1].value = req[c].value
      BY <2>1, <3>1
    <3>3. Reflects(storage', wal, Visible + 1)
      BY <1>0, <1>1, <1>2, <2>2, <2>4, <3>2, ReflectsNext
    <3> QED
      BY <2>4, <2>6, <3>1, <3>3
  <2>8. nextSequenceNumber' = Visible' + 1
    BY <1>0, <1>1, <2>2, <2>4, <2>6
  <2>9. \A d \in Client : ~Logged(d)'
    BY <2>5 DEF Logged
  <2> QED
    BY <1>1, <1>L, <2>4, <2>5, <2>7, <2>8, <2>9 DEF CleanInv
<1> QED
  BY <1>3, <1>4, <1>5, <1>6, <1>7, <1>8, <1>9 DEF Mutate

\* Every step keeps log and memory in agreement.
LEMMA StepClean ==
  TypeOK /\ LockInv /\ SeqInv /\ CleanInv /\ CleanFaults /\ [Next]_vars => CleanInv'
<1> SUFFICES ASSUME TypeOK, LockInv, SeqInv, CleanInv, CleanFaults, [Next]_vars
             PROVE  CleanInv'
  OBVIOUS
<1>0. LegalLog /\ (UNCHANGED wal => LegalLog')
  BY DEF CleanInv, LegalLog, LastOf
<1>1. CASE Recover
  BY <1>1, RecoverClean
<1>2. ASSUME NEW c \in Client, Request(c)
      PROVE  CleanInv'
  <2>1. /\ UNCHANGED <<mode, wal, storage, nextSequenceNumber>> /\ mode = "up"
        /\ pc[c] = "idle" /\ pc'[c] = "lock"
        /\ \A d \in Client : d # c => pc'[d] = pc[d] /\ req'[d] = req[d]
    BY <1>2 DEF Request, TypeOK
  <2>2. \A d \in Client : (Logged(d)' <=> Logged(d)) /\ (pc'[d] = "append" \/ Logged(d)' => d # c)
    BY <2>1 DEF Logged
  <2>3. Visible' = Visible
    BY <2>1, <2>2 DEF Visible
  <2>4. Reflects(storage', wal', Visible') /\ nextSequenceNumber' = Visible' + 1
    BY <2>1, <2>3 DEF CleanInv
  <2> QED
    BY <1>0, <2>1, <2>2, <2>4 DEF CleanInv, Logged
<1>3. ASSUME NEW c \in Client, Mutate(c)
      PROVE  CleanInv'
  BY <1>3, MutateClean
<1>4. CASE Shutdown
  BY <1>0, <1>4, GoneClean DEF Shutdown
<1>5. CASE Kill
  <2>1. UNCHANGED wal
    BY <1>5 DEF Kill, Incomplete, CleanFaults
  <2> QED
    BY <1>0, <1>5, <2>1, GoneClean DEF Kill
<1>6. CASE PowerLoss
  <2>1. PICK n \in synced..Len(wal) :
          n \in Nat /\ Len(wal') = n /\ \A i \in 1..n : wal'[i] = wal[i]
    BY <1>6, PowerLossIndex DEF CleanFaults
  <2>2. n \in 0..Len(wal)
    BY <2>1, LogFacts
  <2>3. LegalLog'
    BY <1>0, <2>1, <2>2, LegalPrefix
  <2> QED
    BY <1>6, <2>3, GoneClean DEF PowerLoss
<1>7. CASE UNCHANGED vars
  <2>1. Visible' = Visible
    BY <1>7 DEF vars, Visible, Logged
  <2>2. /\ UNCHANGED <<mode, wal, storage, nextSequenceNumber, replayed, pc, req>>
        /\ \A d \in Client : Logged(d)' <=> Logged(d)
    BY <1>7 DEF vars, Logged
  <2>3. mode' = "up" => Reflects(storage', wal', Visible') /\ nextSequenceNumber' = Visible' + 1
    BY <2>1, <2>2 DEF CleanInv
  <2>4. mode' = "replaying" => Reflects(storage', wal', replayed')
    BY <2>2 DEF CleanInv
  <2> QED
    BY <1>0, <2>2, <2>3, <2>4 DEF CleanInv
<1> QED
  BY <1>1, <1>2, <1>3, <1>4, <1>5, <1>6, <1>7 DEF Next

-----------------------------------------------------------------------------
(* Theorems *)

\* The invariant behind the theorems below.
LEMMA CleanInvariant ==
  Spec => [](TypeOK /\ LockInv /\ SeqInv /\ (CleanFaults => CleanInv))
<1> DEFINE Inv == TypeOK /\ LockInv /\ SeqInv /\ (CleanFaults => CleanInv)
<1>1. Init => Inv
  BY InitType, InitSeq, InitClean
<1>2. CleanFaults <=> CleanFaults'
  BY DEF CleanFaults
<1>3. Inv /\ [Next]_vars => Inv'
  BY <1>2, StepType, StepSeq, StepClean
<1> QED
  BY <1>1, <1>3, PTL DEF Spec

\* While no write is cut short and no fsync fails, record i of the file has
\* sequence number i, however often the process or the machine dies.
THEOREM SequenceNumbersDense == Spec => []SeqDense
<1>1. SeqInv /\ (CleanFaults => CleanInv) => SeqDense
  BY DEF SeqDense, CleanInv, LegalLog
<1> QED
  BY <1>1, CleanInvariant, PTL

\* While no write is cut short and no fsync fails, no crash leaves a file that
\* the next start of the server refuses.
THEOREM StartIsNeverRefused == Spec => []NeverRefused
<1>1. SeqInv /\ (CleanFaults => CleanInv) => NeverRefused
  BY DEF NeverRefused, CleanInv
<1> QED
  BY <1>1, CleanInvariant, PTL

\* While no write is cut short and no fsync fails, get and exists answer what
\* the file replays to, short only of the mutation that is being logged.
THEOREM MapMatchesLog == Spec => []MemoryMatchesLog
<1>1. TypeOK /\ (CleanFaults => CleanInv) => MemoryMatchesLog
  <2> SUFFICES ASSUME TypeOK, CleanInv, mode = "up"
               PROVE  storage = Contents(wal, Visible)
    BY DEF MemoryMatchesLog
  <2>1. Len(wal) \in Nat /\ storage \in [Key -> Stored]
    BY LogFacts DEF TypeOK
  <2>2. Visible \in Nat
    BY <2>1 DEF Visible, CleanInv
  <2> QED
    BY <2>1, <2>2, ReflectsContents DEF CleanInv
<1> QED
  BY <1>1, CleanInvariant, PTL

-----------------------------------------------------------------------------
(* Every beginning of the file replays to a map *)

\* What the first n records lead to depends on them only.
LEMMA ContentsPrefix ==
  ASSUME NEW v, NEW w, NEW n \in Nat, \A i \in 1..n : v[i] = w[i],
         Contents(w, n) \in [Key -> Stored], Reflects(Contents(w, n), w, n)
  PROVE  /\ Contents(v, n) = Contents(w, n)
         /\ Reflects(Contents(v, n), v, n)
<1>1. Reflects(Contents(w, n), v, n)
  BY ReflectsPrefix
<1>2. Contents(w, n) = Contents(v, n)
  BY <1>1, ReflectsContents
<1> QED
  BY <1>1, <1>2

\* One more record changes Contents at its key and nowhere else.
LEMMA ContentsNext ==
  ASSUME NEW w, NEW n \in Nat, NEW st \in [Key -> Stored], Reflects(st, w, n),
         w[n + 1].key \in Key, w[n + 1].value \in Stored
  PROVE  /\ Contents(w, n + 1) = [st EXCEPT ![w[n + 1].key] = w[n + 1].value]
         /\ Contents(w, n + 1) \in [Key -> Stored]
         /\ Reflects(Contents(w, n + 1), w, n + 1)
<1> DEFINE new == [st EXCEPT ![w[n + 1].key] = w[n + 1].value]
<1>1. Reflects(new, w, n + 1)
  BY ReflectsNext
<1>2. new \in [Key -> Stored] /\ n + 1 \in Nat
  OBVIOUS
<1>3. new = Contents(w, n + 1)
  BY <1>1, <1>2, ReflectsContents
<1> QED
  BY <1>1, <1>2, <1>3

\* The empty log leads to the empty map.
LEMMA ContentsNothing ==
  ASSUME NEW w
  PROVE  /\ Contents(w, 0) = EmptyStorage
         /\ Contents(w, 0) \in [Key -> Stored]
         /\ Reflects(Contents(w, 0), w, 0)
<1>1. EmptyStorage \in [Key -> Stored] /\ Reflects(EmptyStorage, w, 0) /\ 0 \in Nat
  BY ReflectsNothing DEF EmptyStorage, Stored
<1>2. EmptyStorage = Contents(w, 0)
  BY <1>1, ReflectsContents
<1> QED
  BY <1>1, <1>2

\* What a step may do to the file: it keeps a beginning of it and adds at most
\* one record, or a piece of one.
LEMMA LogStep ==
  ASSUME TypeOK, LockInv, [Next]_vars
  PROVE  \E n \in 0..Len(wal) :
           /\ Len(wal') \in {n, n + 1}
           /\ \A i \in 1..n : wal'[i] = wal[i]
<1>0. /\ wal \in Seq(WalRecord) /\ Len(wal) \in Nat /\ synced \in Nat
  BY LogFacts
<1> DEFINE Grown == /\ Len(wal') \in {Len(wal), Len(wal) + 1}
                    /\ \A i \in 1..Len(wal) : wal'[i] = wal[i]
<1>1. ASSUME NEW c \in Client, pc[c] # "idle",
             UNCHANGED wal \/ wal' = Append(wal, RecordOf(c)) \/ Incomplete(c)
      PROVE  Grown
  BY <1>0, <1>1, RecordType, TornType, AppendIndex DEF Incomplete
<1>2. ASSUME NEW c \in Client, Mutate(c)
      PROVE  Grown
  <2>1. pc[c] # "idle"
    BY <1>2 DEF Mutate, BeginMutation, RemoveMissing, AppendRecord, AppendFails,
                SyncRecord, SyncFails, ApplyMutation
  <2> QED
    BY <1>1, <1>2, <2>1 DEF Mutate, BeginMutation, RemoveMissing, AppendRecord,
       AppendFails, SyncRecord, SyncFails, ApplyMutation
<1>3. ASSUME Kill PROVE Grown
  BY <1>0, <1>1, <1>3 DEF Kill
<1>4. CASE PowerLoss
  BY <1>0, <1>4, PowerLossIndex
<1>5. ASSUME UNCHANGED wal PROVE Grown
  BY <1>0, <1>5
<1>6. PowerLoss \/ Grown
  <2>1. Recover => UNCHANGED wal
    BY DEF Recover, RecoverWithoutFile, ReadLog, RefuseLog, ReplayRecord,
           FinishRecovery, Refuse
  <2>2. (\E c \in Client : Request(c)) \/ Shutdown \/ UNCHANGED vars => UNCHANGED wal
    BY DEF Request, Shutdown, vars
  <2> HIDE DEF Grown
  <2> QED
    BY <1>2, <1>3, <1>5, <2>1, <2>2 DEF Next
<1>7. CASE Grown
  <2>1. Len(wal) \in 0..Len(wal)
    BY <1>0
  <2> WITNESS Len(wal) \in 0..Len(wal)
  <2> QED
    BY <1>7
<1> QED
  BY <1>4, <1>6, <1>7

\* Initially the file is empty.
LEMMA InitReplayable == Init => Replayable
<1> SUFFICES ASSUME Init PROVE Replayable
  OBVIOUS
<1>1. \A n \in 0..Len(wal) : n = 0
  BY DEF Init
<1> QED
  BY <1>1, ContentsNothing DEF Replayable

\* Every step keeps every beginning of the file replayable.
LEMMA StepReplayable ==
  TypeOK /\ LockInv /\ Replayable /\ [Next]_vars => Replayable'
<1> SUFFICES ASSUME TypeOK, LockInv, Replayable, [Next]_vars,
                    NEW n \in 0..Len(wal')
             PROVE  /\ Contents(wal', n) \in [Key -> Stored]
                    /\ Reflects(Contents(wal', n), wal', n)
  BY DEF Replayable
<1>0. TypeOK' /\ LockInv' /\ Len(wal) \in Nat
  BY StepType, LogFacts
<1>1. /\ Len(wal') \in Nat
      /\ \A i \in 1..Len(wal') : wal'[i].key \in Key /\ wal'[i].value \in Stored
  <2>1. wal' \in Seq(WalRecord)
    BY <1>0 DEF TypeOK
  <2>2. Len(wal') \in Nat /\ \A i \in 1..Len(wal') : wal'[i] \in WalRecord
    BY <2>1
  <2> QED
    BY <2>2 DEF WalRecord
<1>2. PICK m \in 0..Len(wal) :
        Len(wal') \in {m, m + 1} /\ \A i \in 1..m : wal'[i] = wal[i]
  BY LogStep
<1>3. ASSUME NEW i \in 0..m
      PROVE  /\ Contents(wal', i) \in [Key -> Stored]
             /\ Reflects(Contents(wal', i), wal', i)
  <2>1. /\ Contents(wal, i) \in [Key -> Stored]
        /\ Reflects(Contents(wal, i), wal, i)
        /\ i \in Nat /\ \A j \in 1..i : wal'[j] = wal[j]
    BY <1>0, <1>2 DEF Replayable
  <2> QED
    BY <2>1, ContentsPrefix
<1>4. CASE n \in 0..m
  BY <1>3, <1>4
<1>5. CASE n = m + 1
  <2>1. m \in Nat /\ n \in 1..Len(wal')
    BY <1>0, <1>1, <1>2, <1>5
  <2>2. wal'[m + 1].key \in Key /\ wal'[m + 1].value \in Stored
    BY <1>1, <1>5, <2>1
  <2>3. /\ Contents(wal', m) \in [Key -> Stored]
        /\ Reflects(Contents(wal', m), wal', m)
    BY <1>3, <2>1
  <2> QED
    BY <1>5, <2>1, <2>2, <2>3, ContentsNext
<1>6. m \in Nat /\ n \in Nat /\ n <= m + 1
  BY <1>0, <1>1, <1>2
<1> QED
  BY <1>4, <1>5, <1>6

-----------------------------------------------------------------------------
(* What the abstract store sees *)

\* The values that the refinement gives to kv and survivors.
Shown == IF mode = "up" THEN storage ELSE Contents(wal, Len(wal))
Survivors == {Contents(wal, n) : n \in synced..Len(wal)}

\* The invariant that a step is looked at under.
MapInv == TypeOK /\ LockInv /\ SeqInv /\ AckInv /\ CleanInv /\ Replayable

\* The whole file replays to what is shown, with the mutation that is logged
\* and not applied yet, if there is one.
LEMMA FileReplaysTo ==
  ASSUME MapInv
  PROVE  /\ Contents(wal, Len(wal)) \in Survivors
         /\ (\A c \in Client : ~Logged(c)) => Shown = Contents(wal, Len(wal))
         /\ \A c \in Client : Logged(c) =>
              /\ mode = "up"
              /\ req[c] \in Mutation
              /\ Contents(wal, Len(wal)) = [storage EXCEPT ![req[c].key] = req[c].value]
<1>0. /\ Len(wal) \in Nat /\ synced \in Nat /\ synced <= Len(wal)
      /\ storage \in [Key -> Stored]
      /\ \A i \in 1..Len(wal) : wal[i].key \in Key /\ wal[i].value \in Stored
      /\ mode = "up" => Reflects(storage, wal, Visible)
  BY LogFacts DEF MapInv, TypeOK, CleanInv
<1>1. Contents(wal, Len(wal)) \in Survivors
  BY <1>0 DEF Survivors
<1>2. ASSUME \A c \in Client : ~Logged(c)
      PROVE  Shown = Contents(wal, Len(wal))
  <2>1. Visible = Len(wal)
    BY <1>2 DEF Visible
  <2>2. mode = "up" => storage = Contents(wal, Len(wal))
    BY <1>0, <2>1, ReflectsContents
  <2> QED
    BY <2>2 DEF Shown
<1>3. ASSUME NEW c \in Client, Logged(c)
      PROVE  /\ mode = "up"
             /\ req[c] \in Mutation
             /\ Contents(wal, Len(wal)) = [storage EXCEPT ![req[c].key] = req[c].value]
  <2>1. mode = "up" /\ pc[c] # "idle"
    BY <1>3 DEF MapInv, LockInv, Logged
  <2>2. /\ Len(wal) > 0
        /\ wal[Len(wal)].key = req[c].key /\ wal[Len(wal)].value = req[c].value
    BY <1>3 DEF MapInv, CleanInv
  <2>3. Visible \in Nat /\ Visible + 1 = Len(wal) /\ Len(wal) \in 1..Len(wal)
    BY <1>0, <1>3, <2>2 DEF Visible
  <2>4. Contents(wal, Visible + 1) =
          [storage EXCEPT ![wal[Visible + 1].key] = wal[Visible + 1].value]
    BY <1>0, <2>1, <2>3, ContentsNext
  <2>5. req[c] \in Mutation
    BY <2>1, RecordType DEF MapInv
  <2> QED
    BY <2>1, <2>2, <2>3, <2>4, <2>5
<1> QED
  BY <1>1, <1>2, <1>3

\* A client that is not idle has a mutation, one that is idle has none.
LEMMA Pending ==
  ASSUME MapInv, NEW c \in Client
  PROVE  pc[c] = "idle" <=> req[c] = NoMutation
BY DEF MapInv, LockInv

\* A process that is not running has no mutation under way.
LEMMA NothingPending ==
  ASSUME MapInv, \A c \in Client : pc[c] = "idle"
  PROVE  req = KV!Nothing
<1>1. \A c \in Client : req[c] = NoMutation
  BY Pending
<1>2. req \in [Client -> Mutation \cup {NoMutation}]
  BY DEF MapInv, TypeOK
<1> QED
  BY <1>1, <1>2 DEF KV!Nothing

-----------------------------------------------------------------------------
(* The steps of the engine are steps of the store *)

\* The initial state of the engine is that of the store.
LEMMA InitRefines == Init => KV!KVInit
<1> SUFFICES ASSUME Init PROVE KV!KVInit
  OBVIOUS
<1>1. /\ mode = "down" /\ Len(wal) = 0 /\ synced = 0
      /\ req = [c \in Client |-> NoMutation]
  BY DEF Init
<1>2. Contents(wal, Len(wal)) = [k \in Key |-> NoValue]
  BY <1>1, ContentsNothing DEF EmptyStorage
<1>3. {Contents(wal, n) : n \in synced..Len(wal)} = {Contents(wal, Len(wal))}
  BY <1>1
<1> QED
  BY <1>1, <1>2, <1>3 DEF KV!KVInit, KV!Nothing

\* A start of the process changes nothing that the store promises: what it
\* loads is what was there.
LEMMA RecoverRefines ==
  ASSUME MapInv, MapInv', Recover
  PROVE  UNCHANGED KV!kvVars
<1>1. /\ mode # "up" /\ UNCHANGED <<wal, synced>>
      /\ UNCHANGED <<pc, req>> \/ ProcessGone
  BY DEF Recover, RecoverWithoutFile, ReadLog, RefuseLog, ReplayRecord,
         FinishRecovery, Refuse
<1>2. \A c \in Client : pc[c] = "idle"
  BY <1>1 DEF MapInv, LockInv
<1>3. \A c \in Client : ~Logged(c)'
  BY <1>1, <1>2 DEF ProcessGone, Logged
<1>4. req' = req
  BY <1>1, <1>2, NothingPending DEF ProcessGone, KV!Nothing
<1>5. mode' = "up" => storage' = Contents(wal', Len(wal'))
  <2>1. Visible' = Len(wal')
    BY <1>3 DEF Visible
  <2>2. Len(wal') \in Nat /\ storage' \in [Key -> Stored]
    BY DEF MapInv, TypeOK
  <2>3. mode' = "up" => Reflects(storage', wal', Len(wal'))
    BY <2>1 DEF MapInv, CleanInv
  <2> QED
    BY <2>2, <2>3, ReflectsContents
<1> QED
  BY <1>1, <1>4, <1>5 DEF KV!kvVars

\* A request is the start of a mutation of the store.
LEMMA RequestRefines ==
  ASSUME MapInv, NEW c \in Client, Request(c)
  PROVE  KV!Begin(c)
<1>1. /\ UNCHANGED <<mode, wal, synced, storage>> /\ pc[c] = "idle"
      /\ \E m \in Mutation : req' = [req EXCEPT ![c] = m]
  BY DEF Request
<1>2. req[c] = NoMutation
  BY <1>1, Pending
<1> QED
  BY <1>1, <1>2 DEF KV!Begin, KV!Mutation, Mutation

\* A mutation that ends without effect is rejected by the store.
LEMMA RejectRefines ==
  ASSUME MapInv, NEW c \in Client, pc[c] # "idle",
         UNCHANGED <<mode, wal, synced, storage>>, Return(c)
  PROVE  KV!Reject(c)
<1>1. req[c] # NoMutation
  BY Pending
<1> QED
  BY <1>1 DEF KV!Reject, Return

\* The append puts the mutation among what a power loss may leave.
LEMMA AppendRefines ==
  ASSUME MapInv, NEW c \in Client, AppendRecord(c)
  PROVE  KV!Persist(c)
<1>0. /\ wal \in Seq(WalRecord) /\ Len(wal) \in Nat
      /\ synced \in Nat /\ synced <= Len(wal) /\ storage \in [Key -> Stored]
  BY LogFacts DEF MapInv, TypeOK
<1>1. /\ mode = "up" /\ pc[c] = "append" /\ req[c] # NoMutation
      /\ wal' = Append(wal, RecordOf(c))
      /\ UNCHANGED <<mode, synced, storage, req>>
  BY Pending DEF AppendRecord, MapInv, LockInv
<1>2. /\ RecordOf(c) \in WalRecord
      /\ req[c] \in Mutation
      /\ RecordOf(c).key = req[c].key /\ RecordOf(c).value = req[c].value
  BY <1>1, RecordType DEF MapInv
<1>3. /\ Len(wal') = Len(wal) + 1 /\ wal'[Len(wal) + 1] = RecordOf(c)
      /\ \A i \in 1..Len(wal) : wal'[i] = wal[i]
  BY <1>0, <1>1, <1>2, AppendIndex
<1>4. \A n \in 0..Len(wal) : Contents(wal', n) = Contents(wal, n)
  <2> TAKE n \in 0..Len(wal)
  <2>1. /\ Contents(wal, n) \in [Key -> Stored] /\ Reflects(Contents(wal, n), wal, n)
        /\ n \in Nat /\ \A i \in 1..n : wal'[i] = wal[i]
    BY <1>0, <1>3 DEF MapInv, Replayable
  <2> QED
    BY <2>1, ContentsPrefix
<1>5. Contents(wal', Len(wal')) = [storage EXCEPT ![req[c].key] = req[c].value]
  <2>1. \A d \in Client : ~Logged(d)
    BY <1>1, Alone DEF MapInv, Logged
  <2>2. Reflects(storage, wal, Len(wal))
    BY <1>1, <2>1 DEF MapInv, CleanInv, Visible
  <2>3. Reflects(storage, wal', Len(wal))
    BY <1>0, <1>3, <2>2, ReflectsPrefix
  <2>4. wal'[Len(wal) + 1].key \in Key /\ wal'[Len(wal) + 1].value \in Stored
    BY <1>2, <1>3 DEF Mutation, Stored
  <2>5. Contents(wal', Len(wal) + 1) =
          [storage EXCEPT ![wal'[Len(wal) + 1].key] = wal'[Len(wal) + 1].value]
    BY <1>0, <2>3, <2>4, ContentsNext
  <2> QED
    BY <1>2, <1>3, <2>5
<1>6. Survivors' = Survivors \cup {[storage EXCEPT ![req[c].key] = req[c].value]}
  <2>1. \A n : n \in synced'..Len(wal') <=> n \in synced..Len(wal) \/ n = Len(wal')
    BY <1>0, <1>1, <1>3
  <2>2. \A n \in synced..Len(wal) : n \in 0..Len(wal)
    BY <1>0
  <2> QED
    BY <1>4, <1>5, <2>1, <2>2 DEF Survivors
<1> QED
  BY <1>1, <1>6 DEF KV!Persist, KV!Applied, Survivors

\* The fsync makes it the one thing that a power loss may leave.
LEMMA SyncRefines ==
  ASSUME MapInv, NEW c \in Client, SyncRecord(c)
  PROVE  KV!Settle(c)
<1>1. /\ Logged(c) /\ req[c] # NoMutation /\ synced' = Len(wal)
      /\ UNCHANGED <<mode, wal, storage, req>>
  BY Pending DEF SyncRecord, Logged
<1>2. /\ mode = "up"
      /\ Contents(wal, Len(wal)) = [storage EXCEPT ![req[c].key] = req[c].value]
      /\ Contents(wal, Len(wal)) \in Survivors
  BY <1>1, FileReplaysTo
<1>3. Survivors' = {Contents(wal, Len(wal))}
  <2>1. Len(wal) \in Nat
    BY LogFacts DEF MapInv
  <2> QED
    BY <1>1, <2>1 DEF Survivors
<1> QED
  BY <1>1, <1>2, <1>3 DEF KV!Settle, KV!Applied, Survivors

\* Without torn writes and failed fsyncs what is logged is applied: a DEL finds
\* its key.
LEMMA LoggedApplies ==
  ASSUME MapInv, NEW c \in Client, Logged(c)
  PROVE  req[c].value # NoValue \/ storage[req[c].key] # NoValue
<1>0. /\ Len(wal) \in Nat /\ LegalLog /\ mode = "up"
      /\ Reflects(storage, wal, Visible)
  BY FileReplaysTo, LogFacts DEF MapInv, CleanInv
<1>1. /\ Len(wal) > 0 /\ req[c].key \in Key
      /\ wal[Len(wal)].key = req[c].key /\ wal[Len(wal)].value = req[c].value
  BY FileReplaysTo DEF MapInv, CleanInv, Mutation
<1>2. Visible = Len(wal) - 1 /\ Visible \in Nat
  BY <1>0, <1>1 DEF Visible
<1>3. req[c].value = NoValue =>
        \E j \in 1..Visible : LastOf(wal, Visible, req[c].key, j) /\ wal[j].value # NoValue
  BY <1>0, <1>1, <1>2 DEF LegalLog
<1> QED
  BY <1>0, <1>1, <1>2, <1>3, ReflectsPresent

\* The change of the map is the commit of the store: visible and answered at
\* once, and certain to survive if the policy says so.
LEMMA ApplyRefines ==
  ASSUME MapInv, NEW c \in Client, ApplyMutation(c)
  PROVE  KV!Commit(c)
<1>0. Logged(c) /\ pc[c] = "apply"
  BY DEF ApplyMutation, Logged
<1>1. /\ req[c] # NoMutation /\ UNCHANGED <<mode, wal, synced>>
      /\ req' = [req EXCEPT ![c] = NoMutation]
      /\ storage' = [storage EXCEPT ![req[c].key] = req[c].value]
  BY <1>0, Pending, LoggedApplies DEF ApplyMutation, Return
<1>2. /\ mode = "up"
      /\ Contents(wal, Len(wal)) = storage'
      /\ Contents(wal, Len(wal)) \in Survivors
  BY <1>0, <1>1, FileReplaysTo
<1>3. SyncPolicy = "fsync_every_write" => Survivors = {Contents(wal, Len(wal))}
  <2>1. Len(wal) \in Nat
    BY LogFacts DEF MapInv
  <2>2. SyncPolicy = "fsync_every_write" => synced = Len(wal)
    BY <1>0 DEF MapInv, AckInv
  <2> QED
    BY <2>1, <2>2 DEF Survivors
<1> QED
  BY <1>1, <1>2, <1>3 DEF KV!Commit, KV!Applied, Survivors

\* A step of set or remove.
LEMMA MutateRefines ==
  ASSUME MapInv, CleanFaults, NEW c \in Client, Mutate(c)
  PROVE  KV!KVNext \/ UNCHANGED KV!kvVars
<1>1. CASE BeginMutation(c)
  BY <1>1 DEF BeginMutation, KV!kvVars
<1>2. CASE RemoveMissing(c)
  BY <1>2, RejectRefines DEF RemoveMissing, KV!KVNext
<1>3. CASE AppendRecord(c)
  BY <1>3, AppendRefines DEF KV!KVNext
<1>4. CASE AppendFails(c)
  BY <1>4, RejectRefines DEF AppendFails, Incomplete, CleanFaults, KV!KVNext
<1>5. CASE SyncRecord(c)
  BY <1>5, SyncRefines DEF KV!KVNext
<1>6. CASE SyncFails(c)
  BY <1>6 DEF SyncFails, CleanFaults
<1>7. CASE ApplyMutation(c)
  BY <1>7, ApplyRefines DEF KV!KVNext
<1> QED
  BY <1>1, <1>2, <1>3, <1>4, <1>5, <1>6, <1>7 DEF Mutate

\* A shutdown forces what is visible to disk, or leaves it as it is.
LEMMA ShutdownRefines ==
  ASSUME MapInv, Shutdown
  PROVE  KV!SettleAll \/ UNCHANGED KV!kvVars
<1>1. /\ mode = "up" /\ mode' = "down" /\ UNCHANGED wal
      /\ synced' = Len(wal) \/ UNCHANGED synced
      /\ req' = KV!Nothing
      /\ \A c \in Client : pc[c] = "idle"
  BY DEF Shutdown, ProcessGone, Busy, KV!Nothing
<1>2. req = KV!Nothing
  BY <1>1, NothingPending
<1>3. storage = Contents(wal, Len(wal))
  BY <1>1, FileReplaysTo DEF Logged, Shown
<1>4. CASE UNCHANGED synced
  BY <1>1, <1>2, <1>3, <1>4 DEF KV!kvVars
<1>5. CASE synced' = Len(wal)
  <2>1. Len(wal) \in Nat
    BY LogFacts DEF MapInv
  <2>2. Survivors' = {Contents(wal, Len(wal))}
    BY <1>1, <1>5, <2>1 DEF Survivors
  <2> QED
    BY <1>1, <1>2, <1>3, <2>2 DEF KV!SettleAll, Survivors
<1> QED
  BY <1>1, <1>4, <1>5

\* The death of the process keeps at most the mutation that is logged.
LEMMA KillRefines ==
  ASSUME MapInv, CleanFaults, Kill
  PROVE  KV!ProcessCrash
<1>1. /\ mode' = "down" /\ UNCHANGED <<wal, synced>> /\ req' = KV!Nothing
  BY DEF Kill, Incomplete, CleanFaults, ProcessGone, KV!Nothing
<1>2. CASE \A c \in Client : ~Logged(c)
  <2>1. Shown = Contents(wal, Len(wal))
    BY <1>2, FileReplaysTo
  <2> QED
    BY <1>1, <2>1 DEF KV!ProcessCrash, Shown
<1>3. ASSUME NEW c \in Client, Logged(c)
      PROVE  KV!ProcessCrash
  <2>1. /\ mode = "up"
        /\ Contents(wal, Len(wal)) = [storage EXCEPT ![req[c].key] = req[c].value]
    BY <1>3, FileReplaysTo
  <2>2. req[c] # NoMutation
    BY <1>3, Pending DEF Logged
  <2> QED
    BY <1>1, <2>1, <2>2 DEF KV!ProcessCrash, KV!Applied
<1> QED
  BY <1>2, <1>3

\* The death of the machine leaves one of the maps that it could leave.
LEMMA PowerLossRefines ==
  ASSUME MapInv, CleanFaults, PowerLoss
  PROVE  KV!PowerFailure
<1>0. Len(wal) \in Nat /\ synced \in Nat
  BY LogFacts DEF MapInv
<1>1. mode' = "down" /\ req' = KV!Nothing
  BY DEF PowerLoss, ProcessGone, KV!Nothing
<1>2. PICK n \in synced..Len(wal) :
        /\ n \in Nat /\ Len(wal') = n /\ synced' = n
        /\ \A i \in 1..n : wal'[i] = wal[i]
  BY PowerLossIndex DEF MapInv, CleanFaults
<1>3. Contents(wal', n) = Contents(wal, n)
  <2>1. n \in 0..Len(wal)
    BY <1>0, <1>2
  <2>2. Contents(wal, n) \in [Key -> Stored] /\ Reflects(Contents(wal, n), wal, n)
    BY <2>1 DEF MapInv, Replayable
  <2> QED
    BY <1>2, <2>2, ContentsPrefix
<1>4. Contents(wal', Len(wal')) \in Survivors
  BY <1>2, <1>3 DEF Survivors
<1>5. Survivors' = {Contents(wal', Len(wal'))}
  BY <1>2 DEF Survivors
<1> QED
  BY <1>1, <1>4, <1>5 DEF KV!PowerFailure, Survivors

\* Every step of the engine is a step of the store, or changes nothing of it.
LEMMA StepRefines ==
  MapInv /\ MapInv' /\ CleanFaults /\ [Next]_vars => [KV!KVNext]_(KV!kvVars)
<1> SUFFICES ASSUME MapInv, MapInv', CleanFaults, [Next]_vars
             PROVE  KV!KVNext \/ UNCHANGED KV!kvVars
  OBVIOUS
<1>1. CASE Recover
  BY <1>1, RecoverRefines
<1>2. ASSUME NEW c \in Client, Request(c)
      PROVE  KV!KVNext
  BY <1>2, RequestRefines DEF KV!KVNext
<1>3. ASSUME NEW c \in Client, Mutate(c)
      PROVE  KV!KVNext \/ UNCHANGED KV!kvVars
  BY <1>3, MutateRefines
<1>4. CASE Shutdown
  BY <1>4, ShutdownRefines DEF KV!KVNext
<1>5. CASE Kill
  BY <1>5, KillRefines DEF KV!KVNext
<1>6. CASE PowerLoss
  BY <1>6, PowerLossRefines DEF KV!KVNext
<1>7. CASE UNCHANGED vars
  BY <1>7 DEF vars, KV!kvVars
<1> QED
  BY <1>1, <1>2, <1>3, <1>4, <1>5, <1>6, <1>7 DEF Next

\* While no write is cut short and no fsync fails, the storage engine with its
\* log, its lock, its recovery and its crashes is the abstract store.
THEOREM ImplementsStore == CleanFaults => (Spec => Implements)
<1> DEFINE Inv == /\ TypeOK /\ LockInv /\ SeqInv /\ AckInv /\ Replayable
                  /\ CleanFaults => CleanInv
<1>1. Init => Inv
  BY InitType, InitSeq, InitAck, InitClean, InitReplayable
<1>2. CleanFaults => CleanFaults'
  BY DEF CleanFaults
<1>3. Inv /\ [Next]_vars => Inv'
  BY <1>2, StepType, StepSeq, StepAck, StepClean, StepReplayable DEF CleanFaults
<1>4. Inv /\ Inv' /\ CleanFaults /\ [Next]_vars => [KV!KVNext]_(KV!kvVars)
  BY <1>2, StepRefines DEF MapInv
<1> QED
  BY <1>1, <1>2, <1>3, <1>4, InitRefines, PTL DEF Spec, Implements, KV!KVSpec

=============================================================================
