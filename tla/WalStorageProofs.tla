-------------------------- MODULE WalStorageProofs -------------------------
(***************************************************************************)
(* Proofs about WalStorage, for every set of clients, keys and values,     *)
(* every sync policy, every set of faults and every length of the log.     *)
(***************************************************************************)
EXTENDS WalStorage, TLAPS

-----------------------------------------------------------------------------
(* Types, and the mutex *)

\* A piece of a record is a record for the purposes of the types.
LEMMA TornType ==
  ASSUME NEW r \in WalRecord, NEW t \in Torn(r)
  PROVE  t \in WalRecord
BY DEF Torn, WalRecord, Parts, Stored

\* A client that is executing a mutation logs a whole record of that mutation.
LEMMA RecordType ==
  ASSUME TypeOK, LockInv, NEW c \in Client, pc[c] # "idle"
  PROVE  /\ req[c] \in Mutation
         /\ RecordOf(c) \in WalRecord
         /\ RecordOf(c).part = "whole"
         /\ RecordOf(c).seq = nextSequenceNumber
         /\ RecordOf(c).key = req[c].key
         /\ RecordOf(c).value = req[c].value
<1>1. req[c] \in Mutation
  BY DEF TypeOK, LockInv
<1>2. req[c].key \in Key /\ req[c].value \in Stored
  BY <1>1 DEF Mutation, Stored
<1> QED
  BY <1>1, <1>2 DEF RecordOf, WalRecord, Parts, TypeOK

\* What the types say of the file, element by element.
LEMMA LogFacts ==
  ASSUME TypeOK
  PROVE  /\ wal \in Seq(WalRecord)
         /\ Len(wal) \in Nat
         /\ synced \in Nat /\ synced <= Len(wal)
         /\ replayed \in Nat /\ replayed <= Len(wal)
         /\ nextSequenceNumber \in Nat
         /\ \A i \in 1..Len(wal) : wal[i] \in WalRecord
         /\ \A i \in 1..Len(wal) :
              /\ wal[i].seq \in Nat
              /\ wal[i].key \in Key
              /\ wal[i].value \in Stored
<1>1. /\ wal \in Seq(WalRecord) /\ Len(wal) \in Nat
      /\ synced \in Nat /\ synced <= Len(wal)
      /\ replayed \in Nat /\ replayed <= Len(wal)
      /\ nextSequenceNumber \in Nat
  BY DEF TypeOK
<1>2. \A i \in 1..Len(wal) : wal[i] \in WalRecord
  BY <1>1
<1> QED
  BY <1>1, <1>2 DEF WalRecord

\* The states after the end of the process satisfy the part of the types and of
\* the mutex invariant that speaks of the memory of the process.
LEMMA GoneType ==
  ASSUME ProcessGone, wal' \in Seq(WalRecord), mode' # "up"
  PROVE  /\ storage' \in [Key -> Stored]
         /\ nextSequenceNumber' \in Nat \ {0}
         /\ replayed' \in 0..Len(wal')
         /\ mutex' \in Client \cup {Nobody}
         /\ pc' \in [Client -> Steps]
         /\ req' \in [Client -> Mutation \cup {NoMutation}]
         /\ LockInv'
<1>1. Len(wal') \in Nat
  OBVIOUS
<1>2. Nobody \notin Client
  BY SentinelAssumption
<1> QED
  BY <1>1, <1>2 DEF ProcessGone, EmptyStorage, Stored, Steps, LockInv

\* The initial states have the right types, and nobody holds the mutex.
LEMMA InitType == Init => TypeOK /\ LockInv
<1> SUFFICES ASSUME Init PROVE TypeOK /\ LockInv
  OBVIOUS
<1>1. TypeOK
  <2>1. fileExists \in BOOLEAN
    BY Zenon DEF Init
  <2> QED
    BY <2>1 DEF Init, TypeOK, EmptyStorage, Stored, Steps
<1>2. LockInv
  BY SentinelAssumption DEF Init, LockInv
<1> QED
  BY <1>1, <1>2

\* Every step keeps the types and the mutex invariant.
LEMMA StepType == TypeOK /\ LockInv /\ [Next]_vars => TypeOK' /\ LockInv'
<1> SUFFICES ASSUME TypeOK, LockInv, [Next]_vars
             PROVE  TypeOK' /\ LockInv'
  OBVIOUS
<1> USE DEF Steps
<1>0. Len(wal) \in Nat /\ (\A i \in 1..Len(wal) : wal[i] \in WalRecord)
  BY LogFacts
<1>R. ASSUME Refuse, UNCHANGED fileExists
      PROVE  TypeOK' /\ LockInv'
  BY <1>R, GoneType DEF Refuse, TypeOK
<1>1. CASE RecoverWithoutFile
  <2>1. CASE Refuse /\ UNCHANGED fileExists
    BY <2>1, <1>R
  <2>2. CASE ~(Refuse /\ UNCHANGED fileExists)
    <3>1. fileExists' \in BOOLEAN
      BY <1>1, <2>2, Zenon DEF RecoverWithoutFile
    <3>2. /\ mode \in {"down", "refused"} /\ mode' = "up" /\ nextSequenceNumber' = 1
          /\ UNCHANGED <<wal, synced, storage, replayed, mutex, pc, req, acked>>
      BY <1>1, <2>2 DEF RecoverWithoutFile
    <3> QED
      BY <3>1, <3>2 DEF TypeOK, LockInv
  <2> QED
    BY <2>1, <2>2
<1>2. CASE ReadLog
  BY <1>0, <1>2 DEF ReadLog, TypeOK, LockInv
<1>3. CASE RefuseLog
  BY <1>3, <1>R DEF RefuseLog
<1>4. CASE ReplayRecord
  <2>1. CASE Refuse /\ UNCHANGED fileExists
    BY <2>1, <1>R
  <2>2. CASE ~(Refuse /\ UNCHANGED fileExists)
    <3> DEFINE r == wal[replayed + 1]
    <3>1. r \in WalRecord /\ replayed + 1 \in 1..Len(wal)
      BY <1>0, <1>4 DEF ReplayRecord, TypeOK
    <3>2. r.value \in Stored /\ r.key \in Key
      BY <3>1 DEF WalRecord
    <3>3. storage' = [storage EXCEPT ![r.key] = r.value] /\ replayed' = replayed + 1
          /\ UNCHANGED <<mode, fileExists, wal, synced, nextSequenceNumber,
                       mutex, pc, req, acked>>
      BY <1>4, <2>2 DEF ReplayRecord
    <3> QED
      BY <3>1, <3>2, <3>3 DEF TypeOK, LockInv
  <2> QED
    BY <2>1, <2>2
<1>5. CASE FinishRecovery
  <2>1. CASE Refuse /\ UNCHANGED fileExists
    BY <2>1, <1>R
  <2>2. CASE ~(Refuse /\ UNCHANGED fileExists)
    <3>1. nextSequenceNumber' \in Nat \ {0}
      BY <1>0, <1>5, <2>2 DEF FinishRecovery, WalRecord
    <3> QED
      BY <1>5, <2>2, <3>1 DEF FinishRecovery, TypeOK, LockInv
  <2> QED
    BY <2>1, <2>2
<1>6. ASSUME NEW c \in Client, Request(c)
      PROVE  TypeOK' /\ LockInv'
  <2>1. PICK m \in Mutation : req' = [req EXCEPT ![c] = m]
    BY <1>6 DEF Request
  <2>2. m # NoMutation
    BY SentinelAssumption
  <2> QED
    BY <1>6, <2>1, <2>2 DEF Request, TypeOK, LockInv
<1>7. ASSUME NEW c \in Client, Mutate(c)
      PROVE  TypeOK' /\ LockInv'
  <2>0. c # Nobody
    BY SentinelAssumption
  <2>1. CASE BeginMutation(c)
    BY <2>0, <2>1, SentinelAssumption DEF BeginMutation, TypeOK, LockInv
  <2>2. CASE RemoveMissing(c)
    BY <2>2, SentinelAssumption DEF RemoveMissing, Return, TypeOK, LockInv
  <2>3. CASE AppendRecord(c)
    <3>1. RecordOf(c) \in WalRecord
      BY <2>3, RecordType DEF AppendRecord
    <3>2. wal' \in Seq(WalRecord) /\ Len(wal') = Len(wal) + 1
      BY <2>3, <3>1 DEF AppendRecord, TypeOK
    <3> QED
      BY <1>0, <2>3, <3>2 DEF AppendRecord, TypeOK, LockInv
  <2>4. CASE AppendFails(c)
    <3>1. wal' \in Seq(WalRecord) /\ Len(wal') >= Len(wal)
      <4>1. RecordOf(c) \in WalRecord
        BY <2>4, RecordType DEF AppendFails
      <4>2. UNCHANGED wal \/ \E t \in Torn(RecordOf(c)) : wal' = Append(wal, t)
        BY <2>4 DEF AppendFails, Incomplete
      <4>3. \A t \in Torn(RecordOf(c)) : t \in WalRecord
        BY <4>1, TornType
      <4>4. \A t \in WalRecord : Append(wal, t) \in Seq(WalRecord) /\ Len(Append(wal, t)) = Len(wal) + 1
        BY DEF TypeOK
      <4>5. CASE UNCHANGED wal
        BY <4>5 DEF TypeOK
      <4>6. ASSUME NEW t \in Torn(RecordOf(c)), wal' = Append(wal, t)
            PROVE  wal' \in Seq(WalRecord) /\ Len(wal') >= Len(wal)
        BY <1>0, <4>3, <4>4, <4>6
      <4> QED
        BY <4>2, <4>5, <4>6
    <3> QED
      BY <1>0, <2>4, <3>1, SentinelAssumption DEF AppendFails, Return, TypeOK, LockInv
  <2>5. CASE SyncRecord(c)
    BY <1>0, <2>5 DEF SyncRecord, TypeOK, LockInv
  <2>6. CASE SyncFails(c)
    BY <2>6, SentinelAssumption DEF SyncFails, Return, TypeOK, LockInv
  <2>7. CASE ApplyMutation(c)
    <3>1. req[c] \in Mutation
      BY <2>7, RecordType DEF ApplyMutation
    <3>2. req[c].key \in Key /\ req[c].value \in Stored
      BY <3>1 DEF Mutation, Stored
    <3>3. storage' \in [Key -> Stored] /\ nextSequenceNumber' \in Nat \ {0}
      BY <1>0, <2>7, <3>2 DEF ApplyMutation, TypeOK
    <3>4. acked' \in SUBSET Acked
      BY <1>0, <2>7, <3>1 DEF ApplyMutation, TypeOK, Acked
    <3> QED
      BY <2>7, <3>3, <3>4, SentinelAssumption DEF ApplyMutation, Return, TypeOK, LockInv
  <2> QED
    BY <1>7, <2>1, <2>2, <2>3, <2>4, <2>5, <2>6, <2>7 DEF Mutate
<1>8. CASE Shutdown
  BY <1>0, <1>8, GoneType DEF Shutdown, TypeOK
<1>9. CASE Kill
  <2>1. wal' \in Seq(WalRecord) /\ Len(wal') >= Len(wal)
    BY <1>0, <1>9, RecordType, TornType DEF Kill, Incomplete, TypeOK
  <2> QED
    BY <1>0, <1>9, <2>1, GoneType DEF Kill, TypeOK
<1>10. CASE PowerLoss
  <2>1. PICK n \in synced..Len(wal) :
          \/ wal' = SubSeq(wal, 1, n)
          \/ n < Len(wal) /\ \E t \in Torn(wal[n + 1]) : wal' = Append(SubSeq(wal, 1, n), t)
    BY <1>10 DEF PowerLoss
  <2>2. n \in Nat /\ n <= Len(wal)
    BY <1>0, <2>1 DEF TypeOK
  <2>3. SubSeq(wal, 1, n) \in Seq(WalRecord)
    BY <1>0, <2>2 DEF TypeOK
  <2>4. wal' \in Seq(WalRecord)
    <3>1. CASE wal' = SubSeq(wal, 1, n)
      BY <2>3, <3>1
    <3>2. ASSUME n < Len(wal), NEW t \in Torn(wal[n + 1]), wal' = Append(SubSeq(wal, 1, n), t)
          PROVE  wal' \in Seq(WalRecord)
      <4>1. wal[n + 1] \in WalRecord
        BY <1>0, <2>2, <3>2
      <4>2. t \in WalRecord
        BY <4>1, <3>2, TornType
      <4> QED
        BY <2>3, <3>2, <4>2
    <3> QED
      BY <2>1, <3>1, <3>2
  <2> QED
    BY <1>10, <2>4, GoneType DEF PowerLoss, TypeOK
<1>11. CASE UNCHANGED vars
  BY <1>11 DEF vars, TypeOK, LockInv
<1> QED
  BY <1>1, <1>2, <1>3, <1>4, <1>5, <1>6, <1>7, <1>8, <1>9, <1>10, <1>11
  DEF Next, Recover

\* Every state of every behaviour is well-typed: the variables of
\* WalBackedStorage, the file and the threads keep to the domains of TypeOK.
THEOREM TypeCorrect == Spec => []TypeOK
<1>1. Spec => [](TypeOK /\ LockInv)
  BY InitType, StepType, PTL DEF Spec
<1> QED
  BY <1>1, PTL
-----------------------------------------------------------------------------
(* What was acknowledged is in the log *)

\* A piece keeps the number and the key of its record.
LEMMA TornFields ==
  ASSUME NEW r \in WalRecord, NEW t \in Torn(r)
  PROVE  t.seq = r.seq /\ t.key = r.key
BY DEF Torn, WalRecord

\* Appending a record leaves the records before it alone.
LEMMA AppendIndex ==
  ASSUME NEW w \in Seq(WalRecord), NEW r \in WalRecord
  PROVE  /\ Append(w, r) \in Seq(WalRecord)
         /\ Len(Append(w, r)) = Len(w) + 1
         /\ Append(w, r)[Len(w) + 1] = r
         /\ \A i \in 1..Len(w) : Append(w, r)[i] = w[i]
OBVIOUS

\* A power loss keeps the first records of the file: at least those forced to
\* disk, untouched; a piece of the next one may follow.
LEMMA PowerLossIndex ==
  ASSUME TypeOK, PowerLoss
  PROVE  \E n \in synced..Len(wal) :
           /\ n \in Nat
           /\ Len(wal') \in {n, n + 1}
           /\ \A i \in 1..n : wal'[i] = wal[i]
           /\ Len(wal') = n + 1 =>
                n < Len(wal) /\ \E t \in Torn(wal[n + 1]) : wal'[n + 1] = t
           /\ "tear" \notin Faults => Len(wal') = n
           /\ synced' = Len(wal')
<1>0. Len(wal) \in Nat /\ synced \in Nat /\ (\A i \in 1..Len(wal) : wal[i] \in WalRecord)
  BY DEF TypeOK
<1>1. PICK n \in synced..Len(wal) :
        /\ \/ wal' = SubSeq(wal, 1, n)
           \/ "tear" \in Faults /\ n < Len(wal)
              /\ \E t \in Torn(wal[n + 1]) : wal' = Append(SubSeq(wal, 1, n), t)
        /\ synced' = Len(wal')
  BY DEF PowerLoss
<1>2. n \in Nat /\ n <= Len(wal)
  BY <1>0, <1>1
<1>3. /\ SubSeq(wal, 1, n) \in Seq(WalRecord)
      /\ Len(SubSeq(wal, 1, n)) = n
      /\ \A i \in 1..n : SubSeq(wal, 1, n)[i] = wal[i]
  BY <1>0, <1>2 DEF TypeOK
<1>4. CASE wal' = SubSeq(wal, 1, n)
  <2>1. Len(wal') = n /\ n # n + 1
    BY <1>2, <1>3, <1>4
  <2> QED
    BY <1>1, <1>2, <1>3, <1>4, <2>1
<1>5. ASSUME "tear" \in Faults, n < Len(wal),
             NEW t \in Torn(wal[n + 1]), wal' = Append(SubSeq(wal, 1, n), t)
      PROVE  \E m \in synced..Len(wal) :
           /\ m \in Nat
           /\ Len(wal') \in {m, m + 1}
           /\ \A i \in 1..m : wal'[i] = wal[i]
           /\ Len(wal') = m + 1 =>
                m < Len(wal) /\ \E u \in Torn(wal[m + 1]) : wal'[m + 1] = u
           /\ "tear" \notin Faults => Len(wal') = m
           /\ synced' = Len(wal')
  <2>1. t \in WalRecord
    BY <1>0, <1>2, <1>5, TornType
  <2>2. Len(wal') = n + 1 /\ wal'[n + 1] = t /\ \A i \in 1..n : wal'[i] = wal[i]
    BY <1>2, <1>3, <1>5, <2>1, AppendIndex
  <2> QED
    BY <1>1, <1>2, <1>5, <2>2
<1> QED
  BY <1>1, <1>4, <1>5

\* Initially nothing is acknowledged and the file is empty.
LEMMA InitAck == Init => AckInv
BY DEF Init, AckInv, Logged, Holds

\* Every step keeps the acknowledged records in the file, whole, and on disk
\* when the policy is fsync_every_write.
LEMMA StepAck ==
  TypeOK /\ LockInv /\ AckInv /\ [Next]_vars => AckInv'
<1> SUFFICES ASSUME TypeOK, LockInv, AckInv, [Next]_vars
             PROVE  AckInv'
  OBVIOUS
<1>0. /\ Len(wal) \in Nat /\ synced \in Nat /\ synced <= Len(wal)
      /\ wal \in Seq(WalRecord) /\ pc \in [Client -> Steps]
  BY DEF TypeOK
<1>a. \A c, d \in Client : Logged(c) /\ pc[d] \in {"append", "sync", "apply"} => c = d
  BY DEF LockInv, Logged
<1>G. ASSUME ProcessGone, UNCHANGED acked,
             \A i \in 1..synced : i \in 1..synced' /\ wal'[i] = wal[i]
      PROVE  AckInv'
  BY <1>G DEF ProcessGone, AckInv, Logged, Holds
<1>U. ASSUME UNCHANGED <<wal, synced, pc, req, acked>>
      PROVE  AckInv'
  BY <1>U DEF AckInv, Logged, Holds
<1>R. ASSUME Refuse
      PROVE  AckInv'
  BY <1>0, <1>R, <1>G DEF Refuse
<1>1. CASE Recover
  <2>1. Refuse \/ UNCHANGED <<wal, synced, pc, req, acked>>
    BY <1>1 DEF Recover, RecoverWithoutFile, ReadLog, RefuseLog, ReplayRecord, FinishRecovery
  <2> QED
    BY <2>1, <1>R, <1>U
<1>2. ASSUME NEW c \in Client, Request(c)
      PROVE  AckInv'
  BY <1>0, <1>2 DEF Request, AckInv, Logged, Holds
<1>3. ASSUME NEW c \in Client, Mutate(c)
      PROVE  AckInv'
  <2>1. CASE BeginMutation(c)
    BY <1>0, <2>1 DEF BeginMutation, AckInv, Logged, Holds
  <2>2. CASE RemoveMissing(c)
    BY <1>0, <2>2 DEF RemoveMissing, Return, AckInv, Logged, Holds
  <2>3. CASE AppendRecord(c)
    <3>1. /\ RecordOf(c) \in WalRecord /\ RecordOf(c).part = "whole"
          /\ RecordOf(c).key = req[c].key /\ RecordOf(c).value = req[c].value
      BY <2>3, RecordType DEF AppendRecord, RecordOf
    <3>2. /\ Len(wal') = Len(wal) + 1 /\ wal'[Len(wal')] = RecordOf(c)
          /\ \A i \in 1..Len(wal) : wal'[i] = wal[i]
      BY <1>0, <2>3, <3>1, AppendIndex DEF AppendRecord
    <3>3. \A d \in Client : Logged(d)' => d = c
      BY <1>0, <1>a, <2>3 DEF AppendRecord, Logged
    <3>4. SyncPolicy = "fsync_every_write" => pc'[c] # "apply"
      BY <1>0, <2>3 DEF AppendRecord
    <3>5. UNCHANGED <<synced, req, acked>>
      BY <2>3 DEF AppendRecord
    <3> QED
      BY <1>0, <3>1, <3>2, <3>3, <3>4, <3>5 DEF AckInv, Logged, Holds
  <2>4. CASE AppendFails(c)
    <3>1. \A i \in 1..Len(wal) : wal'[i] = wal[i]
      BY <1>0, <2>4, RecordType, TornType, AppendIndex DEF AppendFails, Incomplete
    <3>2. \A d \in Client : ~Logged(d)'
      BY <1>0, <1>a, <2>4 DEF AppendFails, Return, Logged
    <3>3. UNCHANGED <<synced, acked>>
      BY <2>4 DEF AppendFails
    <3> QED
      BY <1>0, <3>1, <3>2, <3>3 DEF AckInv, Logged, Holds
  <2>5. CASE SyncRecord(c)
    BY <1>0, <1>a, <2>5 DEF SyncRecord, AckInv, Logged, Holds
  <2>6. CASE SyncFails(c)
    BY <1>0, <2>6 DEF SyncFails, Return, AckInv, Logged, Holds
  <2>7. CASE ApplyMutation(c)
    <3>1. Len(wal) > 0 /\ Holds(Len(wal), req[c])
      BY <2>7 DEF ApplyMutation, AckInv, Logged
    <3>2. SyncPolicy = "fsync_every_write" => synced = Len(wal)
      BY <2>7 DEF ApplyMutation, AckInv
    <3>3. /\ \A a \in acked' : a \in acked \/ a = [at |-> Len(wal), mutation |-> req[c]]
          /\ UNCHANGED <<wal, synced>>
          /\ \A d \in Client : ~Logged(d)'
      BY <1>a, <1>0, <2>7 DEF ApplyMutation, Return, Logged
    <3> QED
      BY <1>0, <3>1, <3>2, <3>3 DEF AckInv, Logged, Holds
  <2> QED
    BY <1>3, <2>1, <2>2, <2>3, <2>4, <2>5, <2>6, <2>7 DEF Mutate
<1>4. CASE Shutdown
  BY <1>0, <1>4, <1>G DEF Shutdown
<1>5. CASE Kill
  <2>1. \A i \in 1..Len(wal) : wal'[i] = wal[i]
    BY <1>0, <1>5, RecordType, TornType, AppendIndex DEF Kill, Incomplete
  <2> QED
    BY <1>0, <1>5, <2>1, <1>G DEF Kill
<1>6. CASE PowerLoss
  BY <1>0, <1>6, <1>G, PowerLossIndex DEF PowerLoss
<1>7. CASE UNCHANGED vars
  BY <1>7, <1>U DEF vars
<1> QED
  BY <1>1, <1>2, <1>3, <1>4, <1>5, <1>6, <1>7 DEF Next

\* Under fsync_every_write no acknowledged mutation is ever lost from the log,
\* whatever writes or fsyncs fail and however often process or machine die.
THEOREM AcknowledgedStaysInLog == Spec => []AckedInLog
<1> DEFINE Inv == TypeOK /\ LockInv /\ AckInv
<1>1. Init => Inv
  BY InitType, InitAck
<1>2. Inv /\ [Next]_vars => Inv'
  BY StepType, StepAck
<1>3. Inv => AckedInLog
  <2>1. TypeOK => Len(wal) \in Nat /\ synced \in Nat /\ synced <= Len(wal)
    BY DEF TypeOK
  <2> QED
    BY <2>1 DEF AckInv, AckedInLog, Holds
<1> QED
  BY <1>1, <1>2, <1>3, PTL DEF Spec

-----------------------------------------------------------------------------
(* The sequence numbers *)

\* A record, or a piece of one, whose number is not below any number in the
\* file may follow it.
LEMMA AppendKeepsOrder ==
  ASSUME TypeOK, SeqNonDecreasing,
         NEW r \in WalRecord, \A i \in 1..Len(wal) : wal[i].seq <= r.seq,
         wal' = Append(wal, r)
  PROVE  /\ SeqNonDecreasing'
         /\ Len(wal') = Len(wal) + 1
         /\ \A i \in 1..Len(wal') : wal'[i].seq <= r.seq
<1>1. /\ wal \in Seq(WalRecord) /\ Len(wal) \in Nat
      /\ \A i \in 1..Len(wal) : wal[i].seq \in Nat
  BY LogFacts
<1>2. /\ Len(wal') = Len(wal) + 1 /\ wal'[Len(wal) + 1] = r
      /\ \A i \in 1..Len(wal) : wal'[i] = wal[i]
  BY <1>1, AppendIndex
<1>3. r.seq \in Nat
  BY DEF WalRecord
<1> QED
  BY <1>1, <1>2, <1>3 DEF SeqNonDecreasing

\* Initially there is no number in the file.
LEMMA InitSeq == Init => SeqInv
BY DEF Init, SeqInv, SeqNonDecreasing

\* Every step keeps the numbers in order and the next one not below them.
LEMMA StepSeq ==
  TypeOK /\ LockInv /\ SeqInv /\ [Next]_vars => SeqInv'
<1> SUFFICES ASSUME TypeOK, LockInv, SeqInv, [Next]_vars
             PROVE  SeqInv'
  OBVIOUS
<1>0. /\ wal \in Seq(WalRecord) /\ Len(wal) \in Nat /\ nextSequenceNumber \in Nat
      /\ \A i \in 1..Len(wal) : wal[i] \in WalRecord /\ wal[i].seq \in Nat
  BY LogFacts
<1>U. ASSUME UNCHANGED <<fileExists, wal, mode, nextSequenceNumber>>
      PROVE  SeqInv'
  BY <1>U DEF SeqInv, SeqNonDecreasing
<1>D. ASSUME UNCHANGED <<fileExists, wal>>, mode' \in {"down", "refused"}
      PROVE  SeqInv'
  BY <1>D DEF SeqInv, SeqNonDecreasing
<1>1. CASE RecoverWithoutFile
  <2>1. CASE Refuse /\ UNCHANGED fileExists
    BY <2>1, <1>D DEF Refuse
  <2>2. CASE ~(Refuse /\ UNCHANGED fileExists)
    <3>1. mode' = "up" /\ fileExists' /\ UNCHANGED wal
      BY <1>1, <2>2 DEF RecoverWithoutFile
    <3>2. Len(wal) = 0
      BY <1>1 DEF RecoverWithoutFile, SeqInv
    <3> QED
      BY <3>1, <3>2 DEF SeqInv, SeqNonDecreasing
  <2> QED
    BY <2>1, <2>2
<1>2. CASE ReadLog
  BY <1>2 DEF ReadLog, SeqInv, SeqNonDecreasing
<1>3. CASE RefuseLog
  BY <1>3, <1>D DEF RefuseLog, Refuse
<1>4. CASE ReplayRecord
  BY <1>4, <1>D, <1>U DEF ReplayRecord, Refuse
<1>5. CASE FinishRecovery
  <2>1. CASE Refuse /\ UNCHANGED fileExists
    BY <2>1, <1>D DEF Refuse
  <2>2. CASE ~(Refuse /\ UNCHANGED fileExists)
    <3>1. UNCHANGED <<fileExists, wal>> /\ mode = "replaying"
          /\ \A i \in 1..Len(wal) : wal[i].seq <= nextSequenceNumber'
      BY <1>0, <1>5, <2>2 DEF FinishRecovery
    <3> QED
      BY <3>1 DEF SeqInv, SeqNonDecreasing
  <2> QED
    BY <2>1, <2>2
<1>6. ASSUME NEW c \in Client, Request(c)
      PROVE  SeqInv'
  BY <1>6, <1>U DEF Request
<1>7. ASSUME NEW c \in Client, Mutate(c)
      PROVE  SeqInv'
  <2>0. mode = "up" /\ pc[c] # "idle"
    BY <1>7 DEF Mutate, BeginMutation, RemoveMissing, AppendRecord, AppendFails,
                SyncRecord, SyncFails, ApplyMutation, LockInv
  <2>1. RecordOf(c) \in WalRecord /\ RecordOf(c).seq = nextSequenceNumber
    BY <2>0, RecordType
  <2>2. ASSUME NEW r \in WalRecord, r.seq = nextSequenceNumber, wal' = Append(wal, r),
               UNCHANGED <<mode, fileExists, nextSequenceNumber>>
        PROVE  SeqInv'
    BY <2>0, <2>2, AppendKeepsOrder DEF SeqInv
  <2>3. CASE AppendRecord(c)
    BY <2>1, <2>2, <2>3 DEF AppendRecord
  <2>4. CASE AppendFails(c)
    <3>1. UNCHANGED <<mode, fileExists, nextSequenceNumber>>
      BY <2>4 DEF AppendFails
    <3>2. CASE UNCHANGED wal
      BY <3>1, <3>2, <1>U
    <3>3. ASSUME NEW t \in Torn(RecordOf(c)), wal' = Append(wal, t)
          PROVE  SeqInv'
      BY <2>1, <2>2, <3>1, <3>3, TornType, TornFields
    <3> QED
      BY <2>4, <3>2, <3>3 DEF AppendFails, Incomplete
  <2>5. CASE ApplyMutation(c)
    <3>1. UNCHANGED <<mode, fileExists, wal>> /\ nextSequenceNumber' >= nextSequenceNumber
          /\ nextSequenceNumber' \in Nat
      BY <1>0, <2>5 DEF ApplyMutation
    <3>2. (fileExists \/ (Len(wal) = 0 /\ mode \in {"down", "refused"}))' /\ SeqNonDecreasing'
      BY <3>1 DEF SeqInv, SeqNonDecreasing
    <3>3. ASSUME mode = "up", NEW i \in 1..Len(wal)
          PROVE  wal[i].seq <= nextSequenceNumber'
      <4>1. wal[i].seq <= nextSequenceNumber
        BY <3>3 DEF SeqInv
      <4>2. wal[i].seq \in Nat
        BY <1>0
      <4> QED
        BY <1>0, <3>1, <4>1, <4>2
    <3>4. (mode = "up" => \A i \in 1..Len(wal) : wal[i].seq <= nextSequenceNumber)'
      BY <3>1, <3>3
    <3> QED
      BY <3>2, <3>4 DEF SeqInv
  <2>6. CASE UNCHANGED <<fileExists, wal, mode, nextSequenceNumber>>
    BY <2>6, <1>U
  <2> QED
    BY <1>7, <2>3, <2>4, <2>5, <2>6
    DEF Mutate, BeginMutation, RemoveMissing, SyncRecord, SyncFails
<1>8. CASE Shutdown
  BY <1>8, <1>D DEF Shutdown
<1>9. CASE Kill
  <2>1. mode' = "down" /\ UNCHANGED fileExists /\ fileExists
    BY <1>9 DEF Kill, SeqInv
  <2>2. CASE UNCHANGED wal
    BY <2>1, <2>2, <1>D
  <2>3. ASSUME NEW c \in Client, pc[c] = "append",
               NEW t \in Torn(RecordOf(c)), wal' = Append(wal, t)
        PROVE  SeqInv'
    <3>1. RecordOf(c) \in WalRecord /\ RecordOf(c).seq = nextSequenceNumber
      BY <2>3, RecordType
    <3>2. t \in WalRecord /\ t.seq = nextSequenceNumber
      BY <3>1, <2>3, TornType, TornFields
    <3>3. \A i \in 1..Len(wal) : wal[i].seq <= t.seq
      BY <2>3, <3>2 DEF LockInv, SeqInv
    <3> QED
      BY <2>1, <2>3, <3>2, <3>3, AppendKeepsOrder DEF SeqInv
  <2> QED
    BY <1>9, <2>2, <2>3 DEF Kill, Incomplete
<1>10. CASE PowerLoss
  <2>1. mode' = "down" /\ UNCHANGED fileExists
    BY <1>10 DEF PowerLoss
  <2>2. PICK n \in synced..Len(wal) :
          /\ n \in Nat
          /\ Len(wal') \in {n, n + 1}
          /\ \A i \in 1..n : wal'[i] = wal[i]
          /\ Len(wal') = n + 1 =>
               n < Len(wal) /\ \E t \in Torn(wal[n + 1]) : wal'[n + 1] = t
    BY <1>10, PowerLossIndex
  <2>3. Len(wal') <= Len(wal) /\ \A i \in 1..Len(wal') : wal'[i].seq = wal[i].seq
    <3>1. n <= Len(wal)
      BY <1>0, <2>2, LogFacts
    <3>2. Len(wal') = n + 1 => wal'[n + 1].seq = wal[n + 1].seq
      BY <1>0, <2>2, TornFields
    <3> QED
      BY <1>0, <2>2, <3>1, <3>2
  <2>4. SeqNonDecreasing'
    <3>1. Len(wal') \in Nat
      BY <2>2
    <3>2. ASSUME NEW i \in 1..Len(wal'), NEW j \in 1..Len(wal'), i < j
          PROVE  wal'[i].seq <= wal'[j].seq
      <4>1. i \in 1..Len(wal) /\ j \in 1..Len(wal)
        BY <1>0, <2>3, <3>1
      <4>2. wal[i].seq <= wal[j].seq
        BY <3>2, <4>1 DEF SeqInv, SeqNonDecreasing
      <4> QED
        BY <2>3, <4>2
    <3> QED
      BY <3>2 DEF SeqNonDecreasing
  <2>5. (fileExists \/ (Len(wal) = 0 /\ mode \in {"down", "refused"}))'
    <3>1. fileExists \/ Len(wal) = 0
      BY DEF SeqInv
    <3>2. Len(wal') \in Nat
      BY <2>2
    <3> QED
      BY <1>0, <2>1, <2>3, <3>1, <3>2
  <2> QED
    BY <2>1, <2>4, <2>5 DEF SeqInv
<1>11. CASE UNCHANGED vars
  BY <1>11, <1>U DEF vars
<1> QED
  BY <1>1, <1>2, <1>3, <1>4, <1>5, <1>6, <1>7, <1>8, <1>9, <1>10, <1>11
  DEF Next, Recover

\* Sequence numbers never go back along the file, whatever writes or fsyncs
\* fail and however often the process or the machine dies and recovers.
THEOREM SequenceNumbersOrdered == Spec => []SeqNonDecreasing
<1> DEFINE Inv == TypeOK /\ LockInv /\ SeqInv
<1>1. Init => Inv
  BY InitType, InitSeq
<1>2. Inv /\ [Next]_vars => Inv'
  BY StepType, StepSeq
<1>3. Inv => SeqNonDecreasing
  BY DEF SeqInv
<1> QED
  BY <1>1, <1>2, <1>3, PTL DEF Spec

-----------------------------------------------------------------------------
(* What get and exists show *)

\* Initially the map is empty.
LEMMA InitShown == Init => ShownInv
BY DEF Init, ShownInv, DurableReads, EmptyStorage

\* Every step keeps what the map shows in the file for good.
LEMMA StepShown ==
  TypeOK /\ LockInv /\ AckInv /\ ShownInv /\ [Next]_vars => ShownInv'
<1> SUFFICES ASSUME TypeOK, LockInv, AckInv, ShownInv, [Next]_vars
             PROVE  ShownInv'
  OBVIOUS
<1>0. /\ Len(wal) \in Nat /\ synced \in Nat /\ synced <= Len(wal)
      /\ replayed \in Nat /\ replayed <= Len(wal)
      /\ wal \in Seq(WalRecord) /\ storage \in [Key -> Stored]
  BY LogFacts DEF TypeOK
<1>G. ASSUME storage' = EmptyStorage
      PROVE  ShownInv'
  BY <1>G DEF ShownInv, DurableReads, EmptyStorage
<1>K. ASSUME UNCHANGED storage, mode' = mode \/ mode' \in {"replaying", "up"},
             Len(wal') \in Nat, Len(wal') >= Len(wal), \A i \in 1..Len(wal) : wal'[i] = wal[i],
             synced' >= synced, synced' \in Nat,
             replayed' = replayed \/ storage = EmptyStorage
      PROVE  ShownInv'
  <2>1. ASSUME SyncPolicy = "fsync_every_write", NEW k \in Key, storage[k] # NoValue
        PROVE  \E i \in 1..Len(wal') : /\ wal'[i].key = k /\ wal'[i].value = storage[k]
                                       /\ i <= synced' \/ i <= replayed'
    <3>1. replayed' = replayed
      BY <1>K, <2>1 DEF EmptyStorage
    <3>2. PICK i \in 1..Len(wal) : /\ wal[i].key = k /\ wal[i].value = storage[k]
                                   /\ i <= synced \/ i <= replayed
      BY <2>1 DEF ShownInv, DurableReads
    <3> QED
      BY <1>0, <1>K, <3>1, <3>2
  <2> QED
    BY <1>K, <2>1 DEF ShownInv, DurableReads
<1>1. CASE Recover
  <2>1. CASE ProcessGone
    BY <2>1, <1>G DEF ProcessGone
  <2>2. CASE RecoverWithoutFile /\ ~ProcessGone
    BY <1>0, <1>K, <2>2 DEF RecoverWithoutFile, Refuse
  <2>3. CASE ReadLog
    BY <1>0, <1>K, <2>3 DEF ReadLog, ShownInv
  <2>4. CASE ReplayRecord /\ ~ProcessGone
    <3> DEFINE r == wal[replayed + 1]
    <3>1. replayed + 1 \in 1..Len(wal) /\ r.key \in Key
      BY <1>0, <2>4, LogFacts DEF ReplayRecord
    <3>2. /\ storage' = [storage EXCEPT ![r.key] = r.value] /\ replayed' = replayed + 1
          /\ UNCHANGED <<mode, wal, synced>> /\ mode = "replaying"
      BY <2>4 DEF ReplayRecord, Refuse
    <3>3. ASSUME SyncPolicy = "fsync_every_write", NEW k \in Key, storage'[k] # NoValue
          PROVE  \E i \in 1..Len(wal) : /\ wal[i].key = k /\ wal[i].value = storage'[k]
                                        /\ i <= synced \/ i <= replayed + 1
      <4>1. CASE k = r.key
        <5>1. storage'[k] = r.value
          BY <1>0, <3>2, <4>1
        <5> QED
          BY <1>0, <3>1, <4>1, <5>1
      <4>2. CASE k # r.key
        <5>1. storage'[k] = storage[k]
          BY <1>0, <3>2, <4>2
        <5>2. PICK i \in 1..Len(wal) : /\ wal[i].key = k /\ wal[i].value = storage[k]
                                       /\ i <= synced \/ i <= replayed
          BY <3>3, <5>1 DEF ShownInv, DurableReads
        <5> QED
          BY <1>0, <5>1, <5>2
      <4> QED
        BY <4>1, <4>2
    <3> QED
      BY <3>2, <3>3 DEF ShownInv, DurableReads
  <2>5. CASE FinishRecovery /\ ~ProcessGone
    BY <1>0, <1>K, <2>5 DEF FinishRecovery, Refuse
  <2> QED
    BY <1>1, <2>1, <2>2, <2>3, <2>4, <2>5 DEF Recover, RefuseLog, Refuse
<1>2. ASSUME NEW c \in Client, Request(c)
      PROVE  ShownInv'
  BY <1>0, <1>2, <1>K DEF Request
<1>3. ASSUME NEW c \in Client, Mutate(c)
      PROVE  ShownInv'
  <2>0. mode = "up" /\ pc[c] # "idle"
    BY <1>3 DEF Mutate, BeginMutation, RemoveMissing, AppendRecord, AppendFails,
                SyncRecord, SyncFails, ApplyMutation, LockInv
  <2>1. CASE BeginMutation(c) \/ RemoveMissing(c) \/ SyncFails(c)
    BY <1>0, <2>1, <1>K DEF BeginMutation, RemoveMissing, SyncFails
  <2>2. CASE AppendRecord(c)
    BY <1>0, <2>0, <2>2, <1>K, RecordType, AppendIndex DEF AppendRecord
  <2>3. CASE AppendFails(c)
    <3>1. /\ \A i \in 1..Len(wal) : wal'[i] = wal[i]
          /\ Len(wal') \in Nat /\ Len(wal') >= Len(wal)
      BY <1>0, <2>0, <2>3, RecordType, TornType, AppendIndex DEF AppendFails, Incomplete
    <3> QED
      BY <1>0, <2>3, <3>1, <1>K DEF AppendFails
  <2>4. CASE SyncRecord(c)
    BY <1>0, <2>4, <1>K DEF SyncRecord
  <2>5. CASE ApplyMutation(c) /\ UNCHANGED storage
    BY <1>0, <2>5, <1>K DEF ApplyMutation
  <2>6. CASE ApplyMutation(c) /\ ~UNCHANGED storage
    <3>1. /\ Len(wal) > 0 /\ wal[Len(wal)].key = req[c].key /\ wal[Len(wal)].value = req[c].value
          /\ SyncPolicy = "fsync_every_write" => synced = Len(wal)
      BY <2>6 DEF ApplyMutation, AckInv, Logged, Holds
    <3>2. /\ storage' = [storage EXCEPT ![req[c].key] = req[c].value]
          /\ UNCHANGED <<mode, wal, synced, replayed>>
      BY <2>6 DEF ApplyMutation
    <3>3. ASSUME SyncPolicy = "fsync_every_write", NEW k \in Key, storage'[k] # NoValue
          PROVE  \E i \in 1..Len(wal) : /\ wal[i].key = k /\ wal[i].value = storage'[k]
                                        /\ i <= synced \/ i <= replayed
      <4>1. CASE k = req[c].key
        BY <1>0, <3>1, <3>2, <3>3, <4>1
      <4>2. CASE k # req[c].key
        BY <1>0, <3>2, <3>3, <4>2 DEF ShownInv, DurableReads
      <4> QED
        BY <4>1, <4>2
    <3> QED
      BY <2>0, <3>2, <3>3 DEF ShownInv, DurableReads
  <2> QED
    BY <1>3, <2>1, <2>2, <2>3, <2>4, <2>5, <2>6 DEF Mutate
<1>4. CASE Shutdown \/ Kill \/ PowerLoss
  BY <1>4, <1>G DEF Shutdown, Kill, PowerLoss, ProcessGone
<1>5. CASE UNCHANGED vars
  BY <1>0, <1>5, <1>K DEF vars
<1> QED
  BY <1>1, <1>2, <1>3, <1>4, <1>5 DEF Next

\* Under fsync_every_write get and exists return no value that the file could
\* still lose, although they do not take the mutex, whatever fails.
THEOREM ReadsAreDurable == Spec => []DurableReads
<1> DEFINE Inv == TypeOK /\ LockInv /\ AckInv /\ ShownInv
<1>1. Init => Inv
  BY InitType, InitAck, InitShown
<1>2. Inv /\ [Next]_vars => Inv'
  BY StepType, StepAck, StepShown
<1>3. Inv => DurableReads
  BY DEF ShownInv
<1> QED
  BY <1>1, <1>2, <1>3, PTL DEF Spec

=============================================================================
