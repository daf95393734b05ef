------------------------------ MODULE WalFile ------------------------------
(***************************************************************************)
(* WalFileWriter: the life of a writer (construct, open, append, flush,    *)
(* close, destroy), one after the other as in processes that follow each   *)
(* other, and the text that whole and broken writes leave in the file.     *)
(*                                                                         *)
(* fsync and close of the system are steps of their own: the process may   *)
(* die before them, and each may fail.  An fsync that succeeds forces the  *)
(* whole file to disk.                                                     *)
(***************************************************************************)
EXTENDS WalCodec

CONSTANTS
  Policies,   \* sync policies that a writer may be constructed with
  Records,    \* records that callers append, valid or not
  Faults,     \* what may go wrong in this instance
  MaxPieces,  \* bound on the pieces in the file
  MaxBroken   \* bound on those among them that are not whole lines

ASSUME WalFileAssumption ==
  /\ Policies \subseteq {"none", "fsync_on_flush", "fsync_every_write"}
  /\ Records \subseteq WalRecords
  /\ Faults \subseteq {"open", "write", "sync", "close", "kill", "power"}
  /\ MaxPieces \in Nat /\ MaxBroken \in Nat

VARIABLES
  pieces,          \* what each write left in the file: a record, and how much of its line
  synced,          \* how many leading pieces are forced to disk
  syncPolicy,      \* options_.syncPolicy, or "no writer"
  fileDescriptor,  \* none, open, or stale: a number that is no open file any more
  isClosed,
  pc,              \* idle, or the system call that the writer is in: sync or close
  call,            \* the call under way: append, flush or close; when idle, the call
                   \* that has just returned ok; else none
  wrote            \* history: this writer has written to the file

vars == <<pieces, synced, syncPolicy, fileDescriptor, isClosed, pc, call, wrote>>
file == <<pieces, synced>>

Line      == [r \in {q \in Records : Valid(q)} |-> Serialize(r)]
LineOf(p) == Line[p.record]
Whole(p)  == p.length = Len(LineOf(p))
FileText  == TextOf([i \in 1..Len(pieces) |-> Prefix(LineOf(pieces[i]), pieces[i].length)])

WithinBounds(ps) ==
  Len(ps) <= MaxPieces /\ Len(SelectSeq(ps, LAMBDA p : ~Whole(p))) <= MaxBroken

TypeOK ==
  /\ \A i \in 1..Len(pieces) : /\ pieces[i].record \in Records /\ Valid(pieces[i].record)
                               /\ pieces[i].length \in 1..Len(LineOf(pieces[i]))
  /\ synced \in 0..Len(pieces)
  /\ syncPolicy \in Policies \cup {"no writer"}
  /\ fileDescriptor \in {"none", "open", "stale"}
  /\ isClosed \in BOOLEAN
  /\ pc \in {"idle", "sync", "close"}
  /\ call \in {"none", "append", "flush", "close"}
  /\ wrote \in BOOLEAN
  /\ pc # "idle" => call # "none" /\ fileDescriptor # "none" /\ ~isClosed

NoWriter ==
  /\ syncPolicy = "no writer"
  /\ fileDescriptor = "none" /\ isClosed = FALSE
  /\ pc = "idle" /\ call = "none" /\ wrote = FALSE

Init == pieces = <<>> /\ synced = 0 /\ NoWriter

-----------------------------------------------------------------------------
(* The calls *)

Construct ==
  /\ syncPolicy = "no writer"
  /\ syncPolicy' \in Policies
  /\ UNCHANGED <<file, fileDescriptor, isClosed, pc, call, wrote>>

Ready == syncPolicy # "no writer" /\ pc = "idle"

Ok(name)    == call' = name /\ pc' = "idle"
ReturnError == call' = "none" /\ pc' = "idle"

\* The call goes on in system call p.
Enters(name, p) == call' = name /\ pc' = p

\* open: it creates the file, or finds it; no call does anything to a closed writer.
OpenFile ==
  /\ ~isClosed
  /\ fileDescriptor' = IF fileDescriptor = "none" THEN "open" ELSE fileDescriptor

\* It is closed, or the file cannot be opened.
Refused ==
  /\ isClosed \/ (fileDescriptor = "none" /\ "open" \in Faults)
  /\ ReturnError
  /\ UNCHANGED <<file, syncPolicy, fileDescriptor, isClosed, wrote>>

\* writeAll wrote n symbols of the line of record r.
Writes(r, n) ==
  /\ pieces' = IF n = 0 THEN pieces ELSE Append(pieces, [record |-> r, length |-> n])
  /\ wrote' = TRUE
  /\ WithinBounds(pieces')

\* appendRecord: the whole line is written, and then maybe forced to disk.
AppendRecord(r) ==
  /\ Valid(r) /\ OpenFile /\ fileDescriptor' = "open"
  /\ Writes(r, Len(Line[r]))
  /\ IF syncPolicy = "fsync_every_write" THEN Enters("append", "sync") ELSE Ok("append")
  /\ UNCHANGED <<synced, syncPolicy, isClosed>>

\* appendRecord: the write fails, after a part of the line.
AppendBreaks(r) ==
  /\ Valid(r) /\ OpenFile
  /\ \/ fileDescriptor' = "open" /\ "write" \in Faults
        /\ \E n \in 0..(Len(Line[r]) - 1) : Writes(r, n)
     \/ fileDescriptor' = "stale" /\ UNCHANGED <<pieces, wrote>>
  /\ ReturnError
  /\ UNCHANGED <<synced, syncPolicy, isClosed>>

\* appendRecord: closed, an invalid record, or no file.
AppendRefused(r) ==
  \/ Refused
  \/ /\ ~isClosed /\ ~Valid(r)
     /\ ReturnError
     /\ UNCHANGED <<file, syncPolicy, fileDescriptor, isClosed, wrote>>

Flush ==
  \/ Refused
  \/ /\ OpenFile
     /\ IF syncPolicy = "none" THEN Ok("flush") ELSE Enters("flush", "sync")
     /\ UNCHANGED <<file, syncPolicy, isClosed, wrote>>

\* Mutant: close does not flush.
CloseUnflushed ==
  /\ IF isClosed \/ fileDescriptor = "none"
       THEN Ok("close") /\ isClosed' = TRUE
       ELSE Enters("close", "close") /\ UNCHANGED isClosed
  /\ UNCHANGED <<file, syncPolicy, fileDescriptor, wrote>>

\* close: nothing to do if it is closed or has not been open; else it flushes first.
Close ==
  /\ IF isClosed \/ fileDescriptor = "none"
       THEN Ok("close") /\ isClosed' = TRUE
       ELSE /\ Enters("close", IF syncPolicy = "none" THEN "close" ELSE "sync")
            /\ UNCHANGED isClosed
  /\ UNCHANGED <<file, syncPolicy, fileDescriptor, wrote>>

-----------------------------------------------------------------------------
(* The system calls inside them *)

\* fsync succeeds.  close goes on to close the descriptor.
Fsync ==
  /\ pc = "sync" /\ fileDescriptor = "open"
  /\ synced' = Len(pieces)
  /\ IF call = "close" THEN Enters("close", "close") ELSE Ok(call)
  /\ UNCHANGED <<pieces, syncPolicy, fileDescriptor, isClosed, wrote>>

\* fsync fails, of a stale descriptor always: the call returns the error.
FsyncFails ==
  /\ pc = "sync" /\ ("sync" \in Faults \/ fileDescriptor = "stale")
  /\ ReturnError
  /\ UNCHANGED <<file, syncPolicy, fileDescriptor, isClosed, wrote>>

\* closeFileDescriptor succeeds.
CloseDescriptor ==
  /\ pc = "close" /\ fileDescriptor = "open"
  /\ fileDescriptor' = "none" /\ isClosed' = TRUE
  /\ Ok("close")
  /\ UNCHANGED <<file, syncPolicy, wrote>>

\* closeFileDescriptor fails.  The system has closed the file all the same, also
\* when it was interrupted: the retry then finds no such descriptor.  The writer
\* keeps the number.
CloseDescriptorFails ==
  /\ pc = "close" /\ ("close" \in Faults \/ fileDescriptor = "stale")
  /\ fileDescriptor' = "stale"
  /\ ReturnError
  /\ UNCHANGED <<file, syncPolicy, isClosed, wrote>>

-----------------------------------------------------------------------------
(* The end of a writer *)

Gone ==
  /\ syncPolicy' = "no writer"
  /\ fileDescriptor' = "none" /\ isClosed' = FALSE
  /\ pc' = "idle" /\ call' = "none" /\ wrote' = FALSE

\* The destructor: it forces the file to disk unless the policy is none, does not
\* look whether that worked, and closes.
Destroy ==
  /\ Ready
  /\ Gone
  /\ \/ fileDescriptor = "open" /\ syncPolicy # "none" /\ synced' = Len(pieces)
     \/ /\ fileDescriptor # "open" \/ syncPolicy = "none" \/ "sync" \in Faults
        /\ UNCHANGED synced
  /\ UNCHANGED pieces

\* The process dies.  (In the middle of a write: AppendBreaks, then Kill.)
Kill ==
  /\ "kill" \in Faults
  /\ syncPolicy # "no writer"
  /\ Gone
  /\ UNCHANGED file

\* Mutant: the disk keeps what was cut off as if it had been forced.
PowerLossKeepsCount ==
  /\ "power" \in Faults
  /\ Gone
  /\ \E n \in synced..Len(pieces) : pieces' = SubSeq(pieces, 1, n)
  /\ synced' = Len(pieces)

\* The machine dies: what is forced to disk stays, and maybe a part of the rest.
PowerLoss ==
  /\ "power" \in Faults
  /\ Gone
  /\ \E n \in synced..Len(pieces) :
       \/ pieces' = SubSeq(pieces, 1, n)
       \/ /\ n < Len(pieces)
          /\ \E m \in 1..(pieces[n + 1].length - 1) :
               pieces' = Append(SubSeq(pieces, 1, n), [pieces[n + 1] EXCEPT !.length = m])
  /\ WithinBounds(pieces')
  /\ synced' = Len(pieces')

-----------------------------------------------------------------------------
Call ==
  \/ \E r \in Records : AppendRecord(r) \/ AppendBreaks(r) \/ AppendRefused(r)
  \/ Flush \/ Close

Next ==
  \/ Construct \/ (Ready /\ Call)
  \/ Fsync \/ FsyncFails \/ CloseDescriptor \/ CloseDescriptorFails
  \/ Destroy \/ Kill \/ PowerLoss

Spec == Init /\ [][Next]_vars

-----------------------------------------------------------------------------
(* Properties *)

\* What an OK means, whatever failed, was cut or was interrupted before it: under
\* fsync_every_write, after appendRecord the whole file is on disk; if the policy
\* is not none, the whole file is after flush, and after the close of a writer that
\* has written.  Under none no OK says anything of the disk.
PromiseKept ==
  pc = "idle" =>
    /\ call = "append" /\ syncPolicy = "fsync_every_write" => synced = Len(pieces)
    /\ call = "flush" /\ syncPolicy # "none" => synced = Len(pieces)
    /\ call = "close" /\ syncPolicy # "none" /\ wrote => synced = Len(pieces)

\* The reader never misreads what it accepts.  If every line is whole it returns
\* the records that were written.  If some writes were cut it may still accept
\* the file: then each record that it returns is the one that was written at its
\* place, save that the last one, if it was cut, is a SET with another value; what
\* follows the cut is no record but a first symbol of one.  So two halves of
\* broken lines never make a record that nobody wrote.
ReadsBack ==
  LET records == ReadAll(FileText) IN
  /\ (\A i \in 1..Len(pieces) : Whole(pieces[i])) =>
       Readable(FileText) /\ records = [i \in 1..Len(pieces) |-> pieces[i].record]
  /\ Readable(FileText) =>
       /\ \A i \in 1..Len(records) :
            LET r == pieces[i].record IN
            /\ records[i] = r \/ (i = Len(records) /\ ~Whole(pieces[i]) /\ r.type = "set"
                                  /\ [records[i] EXCEPT !.value = r.value] = r)
            /\ i < Len(records) => Whole(pieces[i])
       /\ \A i \in (Len(records) + 1)..Len(pieces) : pieces[i].length = 1

-----------------------------------------------------------------------------
(* The vocabulary of the proofs *)

\* Without a writer nothing is open or under way; in a system call the file is not
\* closed yet.
WriterInv ==
  /\ syncPolicy = "no writer" => NoWriter
  /\ pc # "idle" => fileDescriptor # "none" /\ ~isClosed

\* All that this writer has written is on disk, as far as its policy promises it.
Forced == syncPolicy # "none" /\ wrote => synced = Len(pieces)

\* That is so when close goes on to close the descriptor, and ever after.
ForcedInv ==
  /\ pc = "close" \/ isClosed \/ fileDescriptor = "none" => Forced
  /\ PromiseKept

=============================================================================
