------------------------------ MODULE WalCodec ------------------------------
(***************************************************************************)
(* The text of the write-ahead log: one record per line, five fields, key  *)
(* and value in hexadecimal (wal_record_codec.cpp, wal_record.cpp), and    *)
(* the reader that recovery uses (wal_file_reader.cpp).                    *)
(*                                                                         *)
(* A byte of a key or a value is a number.  Of the text, every digit is a  *)
(* symbol.  The format version is two, "A" and "KVWAL1": what is left of   *)
(* it may be a hexadecimal digit.                                          *)
(***************************************************************************)
EXTENDS Text

WalRecords == [seq : Nat, type : {"set", "del"}, key : Seq(0..255), value : Seq(0..255)]

\* validateWalRecord.
Valid(r) == r.seq # 0 /\ r.key # <<>> /\ (r.type = "set" <=> r.value # <<>>)

-----------------------------------------------------------------------------
(* Writing *)

HexDigits == Digits \o <<"a", "b", "c", "d", "e", "f">>

HexEncode(bytes) ==
  [i \in 1..(2 * Len(bytes)) |->
     LET byte == bytes[(i + 1) \div 2] IN
     HexDigits[1 + (IF i % 2 = 1 THEN byte \div 16 ELSE byte % 16)]]

EncodeWalField(bytes) == IF bytes = <<>> THEN <<"-">> ELSE HexEncode(bytes)

FormatVersion == <<"A", "KVWAL1">>

\* serialize, of a valid record.
Serialize(r) ==
  FormatVersion \o <<" ">> \o Decimal[r.seq] \o <<" ">> \o <<r.type>> \o <<" ">>
    \o EncodeWalField(r.key) \o <<" ">> \o EncodeWalField(r.value) \o <<"\n">>

-----------------------------------------------------------------------------
(* Reading *)

\* Both cases are read, one is written.
UpperHexDigits == Digits \o <<"A", "B", "C", "D", "E", "F">>

IsHexDigit(c) == \E d \in 1..16 : c \in {HexDigits[d], UpperHexDigits[d]}
FromHex(c)    == (CHOOSE d \in 1..16 : c \in {HexDigits[d], UpperHexDigits[d]}) - 1

IsHexField(part) ==
  part = <<"-">> \/ (Len(part) % 2 = 0 /\ \A i \in 1..Len(part) : IsHexDigit(part[i]))

HexDecode(part) ==
  IF part = <<"-">> THEN <<>>
  ELSE [i \in 1..(Len(part) \div 2) |-> 16 * FromHex(part[2 * i - 1]) + FromHex(part[2 * i])]

IsNumber(part) == \A i \in 1..Len(part) : IsDigit(part[i])

\* What deserialize makes of the fields of a line, if it accepts them.
RecordOf(parts) ==
  [seq |-> NumberOf(parts[2]), type |-> parts[3][1],
   key |-> HexDecode(parts[4]), value |-> HexDecode(parts[5])]

\* Mutant: the version of the format is not looked at.
WellFormedAnyVersion(parts) ==
  /\ Len(parts) = 5 /\ \A k \in 1..5 : parts[k] # <<>>
  /\ IsNumber(parts[2])
  /\ parts[3] \in {<<"set">>, <<"del">>}
  /\ IsHexField(parts[4]) /\ IsHexField(parts[5])
  /\ Valid(RecordOf(parts))

\* deserialize: splitBySingleSpaces, hasEmptyPart, then field by field, then the
\* whole record.  What this writer never writes is left out: a carriage return at
\* the end of a line, which stripLineEnding takes off, and a number that is too
\* large, which parseSequenceNumber refuses.
WellFormed(parts) ==
  /\ Len(parts) = 5 /\ \A k \in 1..5 : parts[k] # <<>>
  /\ parts[1] = FormatVersion
  /\ IsNumber(parts[2])
  /\ parts[3] \in {<<"set">>, <<"del">>}
  /\ IsHexField(parts[4]) /\ IsHexField(parts[5])
  /\ Valid(RecordOf(parts))

\* getline: a newline ends a line, and so does the end of a file that does not end
\* with one.
LinesOf(text) ==
  LET parts == Split(text, "\n") IN
  IF parts[Len(parts)] = <<>> THEN Prefix(parts, Len(parts) - 1) ELSE parts

\* readRecordsFromFile succeeds.  An empty line has no five fields either.
Readable(text) ==
  \A i \in 1..Len(LinesOf(text)) : WellFormed(Split(LinesOf(text)[i], " "))

ReadAll(text) ==
  [i \in 1..Len(LinesOf(text)) |-> RecordOf(Split(LinesOf(text)[i], " "))]

\* A file made of pieces of lines, one after the other.
TextOf(parts) ==
  LET upto[i \in 0..Len(parts)] == IF i = 0 THEN <<>> ELSE upto[i - 1] \o parts[i]
  IN upto[Len(parts)]
=============================================================================
