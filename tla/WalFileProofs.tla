--------------------------- MODULE WalFileProofs ----------------------------
(***************************************************************************)
(* Proofs about WalFile: the types of its variables, what an OK of the     *)
(* writer means, and that the reader never misreads what it accepts.       *)
(*                                                                         *)
(* The last is an induction over the pieces of a file.  It is whole, or    *)
(* cut at one line with only first symbols of lines after it, or spoilt:   *)
(* the version of the format then stands where no line has it.             *)
(***************************************************************************)
EXTENDS WalFile, TextProofs

\* The initial state satisfies the invariant.
LEMMA InitForced == Init => WriterInv /\ ForcedInv
BY DEF Init, NoWriter, WriterInv, ForcedInv, Forced, PromiseKept

\* Without a writer nothing is promised.
LEMMA GoneForced == Gone => (WriterInv /\ ForcedInv)'
BY DEF Gone, NoWriter, WriterInv, ForcedInv, Forced, PromiseKept

\* A call that returns an error, or an OK that promises nothing.
LEMMA ErrorForced ==
  ASSUME WriterInv, ForcedInv, syncPolicy # "no writer",
         ReturnError, UNCHANGED <<file, syncPolicy, fileDescriptor, isClosed, wrote>>
  PROVE  (WriterInv /\ ForcedInv)'
BY DEF WriterInv, ForcedInv, Forced, PromiseKept, ReturnError, NoWriter, file

\* appendRecord.
LEMMA AppendForced ==
  ASSUME WriterInv, ForcedInv, Ready, NEW r \in Records,
         AppendRecord(r) \/ AppendBreaks(r) \/ AppendRefused(r)
  PROVE  (WriterInv /\ ForcedInv)'
<1>1. CASE AppendRecord(r)
  BY <1>1 DEF AppendRecord, Ready, OpenFile, Ok, Enters, WriterInv, ForcedInv, Forced, PromiseKept
<1>2. CASE AppendBreaks(r)
  BY <1>2 DEF AppendBreaks, Ready, OpenFile, ReturnError, WriterInv, ForcedInv, Forced, PromiseKept
<1>3. CASE AppendRefused(r)
  BY <1>3, ErrorForced DEF AppendRefused, Refused, Ready
<1> QED
  BY <1>1, <1>2, <1>3

\* flush.
LEMMA FlushForced ==
  ASSUME WriterInv, ForcedInv, Ready, Flush
  PROVE  (WriterInv /\ ForcedInv)'
<1>1. CASE Refused
  BY <1>1, ErrorForced DEF Refused, Ready
<1>2. CASE ~Refused
  <2>1. /\ OpenFile /\ UNCHANGED <<file, syncPolicy, isClosed, wrote>>
        /\ IF syncPolicy = "none" THEN Ok("flush") ELSE Enters("flush", "sync")
    BY <1>2 DEF Flush
  <2>2. ~isClosed /\ ~isClosed' /\ fileDescriptor' # "none" /\ syncPolicy # "no writer"
    BY <2>1 DEF OpenFile, Ready
  <2>3. pc' # "close" /\ (pc' = "idle" => call' = "flush" /\ syncPolicy = "none")
    BY <2>1 DEF Ok, Enters
  <2> QED
    BY <2>1, <2>2, <2>3 DEF WriterInv, ForcedInv, PromiseKept
<1> QED
  BY <1>1, <1>2

\* close.
LEMMA CloseForced ==
  ASSUME WriterInv, ForcedInv, Ready, Close
  PROVE  (WriterInv /\ ForcedInv)'
BY DEF Close, Ready, Ok, Enters, WriterInv, ForcedInv, Forced, PromiseKept, file

\* The system calls.
LEMMA SystemForced ==
  ASSUME WriterInv, ForcedInv, Fsync \/ FsyncFails \/ CloseDescriptor \/ CloseDescriptorFails
  PROVE  (WriterInv /\ ForcedInv)'
<1>1. pc # "idle" /\ syncPolicy # "no writer"
  BY DEF Fsync, FsyncFails, CloseDescriptor, CloseDescriptorFails, WriterInv, NoWriter
<1>2. CASE Fsync
  BY <1>1, <1>2 DEF Fsync, Ok, Enters, WriterInv, ForcedInv, Forced, PromiseKept
<1>3. CASE FsyncFails
  BY <1>1, <1>3, ErrorForced DEF FsyncFails
<1>4. CASE CloseDescriptor
  BY <1>1, <1>4 DEF CloseDescriptor, Ok, WriterInv, ForcedInv, Forced, PromiseKept, file
<1>5. CASE CloseDescriptorFails
  BY <1>1, <1>5 DEF CloseDescriptorFails, ReturnError, WriterInv, ForcedInv, Forced, PromiseKept, file
<1> QED
  BY <1>2, <1>3, <1>4, <1>5

\* Every step preserves the invariant.
LEMMA StepForced == WriterInv /\ ForcedInv /\ [Next]_vars => (WriterInv /\ ForcedInv)'
<1> SUFFICES ASSUME WriterInv, ForcedInv, [Next]_vars
             PROVE  (WriterInv /\ ForcedInv)'
  OBVIOUS
<1>1. CASE UNCHANGED vars
  BY <1>1 DEF vars, WriterInv, ForcedInv, Forced, PromiseKept, NoWriter
<1>2. CASE Construct
  BY <1>2, WalFileAssumption
     DEF Construct, WriterInv, ForcedInv, Forced, PromiseKept, NoWriter, file
<1>3. CASE Ready /\ Call
  BY <1>3, AppendForced, FlushForced, CloseForced DEF Call
<1>4. CASE Destroy \/ Kill \/ PowerLoss
  BY <1>4, GoneForced DEF Destroy, Kill, PowerLoss
<1> QED
  BY <1>1, <1>2, <1>3, <1>4, SystemForced DEF Next

-----------------------------------------------------------------------------
(* Lines *)

\* The symbols of the hexadecimal fields, and of a line.
HexSet  == DigitSet \cup {"a", "b", "c", "d", "e", "f"}
Symbols == HexSet \cup {"A", "KVWAL1", " ", "-", "set", "del", "\n"}

\* The sixteen digits.
LEMMA HexDigitsAre ==
  /\ Len(HexDigits) = 16 /\ \A k \in 1..16 : HexDigits[k] \in HexSet
  /\ \A d \in 1..10 : HexDigits[d] = Digits[d]
  /\ HexDigits[11] = "a" /\ HexDigits[12] = "b" /\ HexDigits[13] = "c"
  /\ HexDigits[14] = "d" /\ HexDigits[15] = "e" /\ HexDigits[16] = "f"
<1>1. /\ HexDigits[1] = "0" /\ HexDigits[2] = "1" /\ HexDigits[3] = "2" /\ HexDigits[4] = "3"
      /\ HexDigits[5] = "4" /\ HexDigits[6] = "5" /\ HexDigits[7] = "6" /\ HexDigits[8] = "7"
      /\ HexDigits[9] = "8" /\ HexDigits[10] = "9"
  BY DEF HexDigits, Digits
<1>2. /\ HexDigits[11] = "a" /\ HexDigits[12] = "b" /\ HexDigits[13] = "c"
      /\ HexDigits[14] = "d" /\ HexDigits[15] = "e" /\ HexDigits[16] = "f"
  BY DEF HexDigits, Digits
<1>3. Len(HexDigits) = 16
  BY DEF HexDigits, Digits
<1>4. \A k \in 1..16 : HexDigits[k] \in HexSet
  BY <1>1, <1>2, DigitsDiffer DEF HexSet
<1>5. \A d \in 1..10 : HexDigits[d] = Digits[d]
  BY <1>1 DEF Digits
<1> QED
  BY <1>2, <1>3, <1>4, <1>5

\* Two digits for each byte.
LEMMA HexEncodeIs ==
  ASSUME NEW bytes \in Seq(0..255)
  PROVE  /\ HexEncode(bytes) \in Seq(HexSet)
         /\ Len(HexEncode(bytes)) = 2 * Len(bytes)
         /\ \A i \in 1..Len(bytes) :
              /\ HexEncode(bytes)[2 * i - 1] = HexDigits[1 + (bytes[i] \div 16)]
              /\ HexEncode(bytes)[2 * i] = HexDigits[1 + (bytes[i] % 16)]
<1> DEFINE digit(i) == LET byte == bytes[(i + 1) \div 2] IN
                       HexDigits[1 + (IF i % 2 = 1 THEN byte \div 16 ELSE byte % 16)]
<1>1. ASSUME NEW i \in 1..(2 * Len(bytes))
      PROVE  digit(i) \in HexSet
  <2>1. (i + 1) \div 2 \in 1..Len(bytes)
    OBVIOUS
  <2>2. bytes[(i + 1) \div 2] \in 0..255
    BY <2>1, SymbolOf
  <2>3. \A byte \in 0..255 : byte \div 16 \in 0..15 /\ byte % 16 \in 0..15
    OBVIOUS
  <2>4. \A k \in 0..15 : HexDigits[1 + k] \in HexSet
    BY HexDigitsAre, SMTT(30)
  <2> QED
    BY <2>2, <2>3, <2>4
<1>2. HexEncode(bytes) = [i \in 1..(2 * Len(bytes)) |-> digit(i)]
  BY DEF HexEncode
<1> HIDE DEF digit
<1>3. HexEncode(bytes) \in Seq(HexSet) /\ Len(HexEncode(bytes)) = 2 * Len(bytes)
  BY <1>1, <1>2
<1>4. ASSUME NEW i \in 1..Len(bytes)
      PROVE  /\ HexEncode(bytes)[2 * i - 1] = HexDigits[1 + (bytes[i] \div 16)]
             /\ HexEncode(bytes)[2 * i] = HexDigits[1 + (bytes[i] % 16)]
  <2>1. 2 * i - 1 \in 1..(2 * Len(bytes)) /\ 2 * i \in 1..(2 * Len(bytes))
    OBVIOUS
  <2>2. (2 * i - 1) % 2 = 1 /\ (2 * i) % 2 = 0
    OBVIOUS
  <2>3. ((2 * i - 1) + 1) \div 2 = i /\ (2 * i + 1) \div 2 = i
    OBVIOUS
  <2>4. digit(2 * i - 1) = HexDigits[1 + (bytes[i] \div 16)]
    BY <2>2, <2>3 DEF digit
  <2>5. digit(2 * i) = HexDigits[1 + (bytes[i] % 16)]
    BY <2>2, <2>3 DEF digit
  <2> QED
    BY <1>2, <2>1, <2>4, <2>5
<1> QED
  BY <1>3, <1>4

\* A field is empty never.
LEMMA FieldIs ==
  ASSUME NEW bytes \in Seq(0..255)
  PROVE  EncodeWalField(bytes) \in Seq(Symbols) /\ Len(EncodeWalField(bytes)) > 0
<1>1. CASE bytes = <<>>
  <2>1. <<"-">> \in Seq(Symbols)
    BY DEF Symbols
  <2> QED
    BY <1>1, <2>1 DEF EncodeWalField
<1>2. CASE bytes # <<>>
  <2>1. HexEncode(bytes) \in Seq(Symbols)
    <3>1. HexEncode(bytes) \in Seq(HexSet) /\ HexSet \subseteq Symbols
      BY HexEncodeIs DEF Symbols
    <3> QED
      BY <3>1, MoreSymbols
  <2>2. Len(bytes) > 0
    BY <1>2
  <2> QED
    BY <1>2, <2>1, <2>2, HexEncodeIs DEF EncodeWalField
<1> QED
  BY <1>1, <1>2

\* A line is a text, and not empty.
LEMMA SerializeIs ==
  ASSUME NEW r \in WalRecords
  PROVE  Serialize(r) \in Seq(Symbols) /\ Len(Serialize(r)) \in Nat \ {0}
<1>1. r.seq \in Nat /\ r.type \in {"set", "del"} /\ r.key \in Seq(0..255) /\ r.value \in Seq(0..255)
  BY DEF WalRecords
<1>2. Decimal[r.seq] \in Seq(Symbols)
  <2>1. Decimal[r.seq] \in Seq(DigitSet)
    BY <1>1, DecimalIs
  <2>2. DigitSet \subseteq Symbols
    BY DEF Symbols, HexSet
  <2> QED
    BY <2>1, <2>2, MoreSymbols
<1>3. EncodeWalField(r.key) \in Seq(Symbols) /\ EncodeWalField(r.value) \in Seq(Symbols)
  BY <1>1, FieldIs
<1>4. FormatVersion \in Seq(Symbols)
  BY DEF FormatVersion, Symbols
<1>5. /\ <<" ">> \in Seq(Symbols) /\ <<r.type>> \in Seq(Symbols)
      /\ <<"\n">> \in Seq(Symbols) /\ Len(<<"\n">>) = 1
  <2>1. " " \in Symbols /\ r.type \in Symbols /\ "\n" \in Symbols
    BY <1>1 DEF Symbols
  <2> QED
    BY <2>1, OneSymbol
<1> DEFINE before == FormatVersion \o <<" ">> \o Decimal[r.seq] \o <<" ">> \o <<r.type>> \o <<" ">>
                       \o EncodeWalField(r.key) \o <<" ">> \o EncodeWalField(r.value)
<1>6. \A s, t \in Seq(Symbols) : s \o t \in Seq(Symbols)
  OBVIOUS
<1>7. before \in Seq(Symbols)
  BY <1>2, <1>3, <1>4, <1>5, <1>6
<1>8. Serialize(r) = before \o <<"\n">>
  BY DEF Serialize
<1> HIDE DEF before
<1>9. Serialize(r) = Join(before, <<"\n">>)
  BY <1>8 DEF Join
<1> DEFINE end == <<"\n">>
<1>11. end \in Seq(Symbols) /\ Len(end) = 1 /\ Serialize(r) = Join(before, end)
  BY <1>5, <1>9
<1> HIDE DEF end
<1>10. Serialize(r) \in Seq(Symbols) /\ Len(Serialize(r)) = Len(before) + 1
  BY <1>7, <1>11, JoinIs
<1> QED
  BY <1>7, <1>10

\* Each digit stands for one number.
LEMMA FromHexIs == \A k \in 0..15 : IsHexDigit(HexDigits[1 + k]) /\ FromHex(HexDigits[1 + k]) = k
<1>1. /\ UpperHexDigits[1] = "0" /\ UpperHexDigits[2] = "1" /\ UpperHexDigits[3] = "2"
      /\ UpperHexDigits[4] = "3" /\ UpperHexDigits[5] = "4" /\ UpperHexDigits[6] = "5"
      /\ UpperHexDigits[7] = "6" /\ UpperHexDigits[8] = "7" /\ UpperHexDigits[9] = "8"
      /\ UpperHexDigits[10] = "9" /\ UpperHexDigits[11] = "A" /\ UpperHexDigits[12] = "B"
      /\ UpperHexDigits[13] = "C" /\ UpperHexDigits[14] = "D" /\ UpperHexDigits[15] = "E"
      /\ UpperHexDigits[16] = "F"
  BY DEF UpperHexDigits, Digits
<1>2. /\ HexDigits[1] = "0" /\ HexDigits[2] = "1" /\ HexDigits[3] = "2" /\ HexDigits[4] = "3"
      /\ HexDigits[5] = "4" /\ HexDigits[6] = "5" /\ HexDigits[7] = "6" /\ HexDigits[8] = "7"
      /\ HexDigits[9] = "8" /\ HexDigits[10] = "9" /\ HexDigits[11] = "a" /\ HexDigits[12] = "b"
      /\ HexDigits[13] = "c" /\ HexDigits[14] = "d" /\ HexDigits[15] = "e" /\ HexDigits[16] = "f"
  BY DEF HexDigits, Digits
<1>3. \A d, e \in 1..16 : HexDigits[d] = HexDigits[e] => d = e
  BY <1>2
<1>4. \A d, e \in 1..16 : HexDigits[d] = UpperHexDigits[e] => d = e
  BY <1>1, <1>2
<1>5. ASSUME NEW k \in 0..15
      PROVE  IsHexDigit(HexDigits[1 + k]) /\ FromHex(HexDigits[1 + k]) = k
  <2>1. 1 + k \in 1..16
    OBVIOUS
  <2>2. \A d \in 1..16 : HexDigits[1 + k] \in {HexDigits[d], UpperHexDigits[d]} <=> d = 1 + k
    BY <1>3, <1>4, <2>1
  <2>3. (CHOOSE d \in 1..16 : HexDigits[1 + k] \in {HexDigits[d], UpperHexDigits[d]}) = 1 + k
    BY <2>1, <2>2
  <2>4. IsHexDigit(HexDigits[1 + k])
    BY <2>1, <2>2 DEF IsHexDigit
  <2>5. FromHex(HexDigits[1 + k]) = (1 + k) - 1
    BY <2>3 DEF FromHex
  <2> QED
    BY <2>4, <2>5
<1> QED
  BY <1>5

\* A field of a line reads as the bytes that were written, whatever they are.
THEOREM FieldsReadBack ==
  ASSUME NEW bytes \in Seq(0..255)
  PROVE  /\ IsHexField(EncodeWalField(bytes))
         /\ HexDecode(EncodeWalField(bytes)) = bytes
<1>1. CASE bytes = <<>>
  BY <1>1 DEF EncodeWalField, IsHexField, HexDecode
<1>2. CASE bytes # <<>>
  <2> DEFINE part == HexEncode(bytes)
  <2>1. EncodeWalField(bytes) = part
    BY <1>2 DEF EncodeWalField
  <2>2. /\ part \in Seq(HexSet) /\ Len(part) = 2 * Len(bytes)
        /\ \A i \in 1..Len(bytes) : /\ part[2 * i - 1] = HexDigits[1 + (bytes[i] \div 16)]
                                    /\ part[2 * i] = HexDigits[1 + (bytes[i] % 16)]
    BY HexEncodeIs
  <2> HIDE DEF part
  <2>3. part # <<"-">>
    <3>1. SUFFICES ASSUME part = <<"-">>
                   PROVE  FALSE
      OBVIOUS
    <3>2. Len(part) = 1
      BY ONLY <3>1
    <3>3. Len(bytes) \in Nat
      OBVIOUS
    <3>4. Len(part) = 2 * Len(bytes)
      BY <2>2
    <3>5. \A k \in Nat : 2 * k # 1
      OBVIOUS
    <3> QED
      BY <3>2, <3>3, <3>4, <3>5
  <2>4. ASSUME NEW i \in 1..Len(bytes)
        PROVE  /\ IsHexDigit(part[2 * i - 1]) /\ IsHexDigit(part[2 * i])
               /\ 16 * FromHex(part[2 * i - 1]) + FromHex(part[2 * i]) = bytes[i]
    <3>1. bytes[i] \in 0..255
      BY SymbolOf
    <3>2. \A byte \in 0..255 : /\ byte \div 16 \in 0..15 /\ byte % 16 \in 0..15
                               /\ 16 * (byte \div 16) + (byte % 16) = byte
      OBVIOUS
    <3>3. FromHex(part[2 * i - 1]) = bytes[i] \div 16 /\ IsHexDigit(part[2 * i - 1])
      BY <2>2, <3>1, <3>2, FromHexIs
    <3>4. FromHex(part[2 * i]) = bytes[i] % 16 /\ IsHexDigit(part[2 * i])
      BY <2>2, <3>1, <3>2, FromHexIs
    <3> QED
      BY <3>1, <3>2, <3>3, <3>4
  <2>5. ASSUME NEW n \in 1..Len(part)
        PROVE  IsHexDigit(part[n])
    <3>1. PICK i \in 1..Len(bytes) : n = 2 * i - 1 \/ n = 2 * i
      <4>1. (n + 1) \div 2 \in 1..Len(bytes) /\ (n = 2 * ((n + 1) \div 2) - 1 \/ n = 2 * ((n + 1) \div 2))
        BY <2>2
      <4> QED
        BY <4>1
    <3> QED
      BY <2>4, <3>1
  <2>6. IsHexField(part)
    <3>1. Len(part) % 2 = 0
      BY <2>2
    <3> QED
      BY <2>5, <3>1 DEF IsHexField
  <2>7. HexDecode(part) = [i \in 1..Len(bytes) |-> 16 * FromHex(part[2 * i - 1]) + FromHex(part[2 * i])]
    <3>1. Len(part) \div 2 = Len(bytes)
      BY <2>2
    <3> QED
      BY <2>3, <3>1 DEF HexDecode
  <2>8. [i \in 1..Len(bytes) |-> 16 * FromHex(part[2 * i - 1]) + FromHex(part[2 * i])]
          = [i \in 1..Len(bytes) |-> bytes[i]]
    BY <2>4
  <2>9. bytes = [i \in 1..Len(bytes) |-> bytes[i]]
    OBVIOUS
  <2> QED
    BY <2>1, <2>6, <2>7, <2>8, <2>9
<1> QED
  BY <1>1, <1>2

-----------------------------------------------------------------------------
(* A line and its fields *)

\* The fields of a line.
AreFields(ps, r) ==
  /\ Len(ps) = 5
  /\ ps[1] = FormatVersion
  /\ ps[2] = Decimal[r.seq]
  /\ ps[3] = <<r.type>>
  /\ ps[4] = EncodeWalField(r.key)
  /\ ps[5] = EncodeWalField(r.value)

\* Two texts with a blank between them.
Blank(s, t) == Separated(s, " ", t)

\* A line without its newline.
Body(r) ==
  Blank(Blank(Blank(Blank(FormatVersion, Decimal[r.seq]), <<r.type>>), EncodeWalField(r.key)),
        EncodeWalField(r.value))

\* The symbols that end neither a field nor a line.
FieldSymbols == Symbols \ {" ", "\n"}

\* The fields are texts without blanks and newlines; only the first has the symbol of the format.
LEMMA FieldsAre ==
  ASSUME NEW r \in WalRecords
  PROVE  /\ FormatVersion \in Seq(FieldSymbols)
         /\ Decimal[r.seq] \in Seq(DigitSet) /\ Decimal[r.seq] \in Seq(FieldSymbols)
         /\ <<r.type>> \in Seq(FieldSymbols)
         /\ EncodeWalField(r.key) \in Seq(FieldSymbols) /\ EncodeWalField(r.key) # <<>>
         /\ EncodeWalField(r.value) \in Seq(FieldSymbols) /\ EncodeWalField(r.value) # <<>>
<1>1. r.seq \in Nat /\ r.type \in {"set", "del"} /\ r.key \in Seq(0..255) /\ r.value \in Seq(0..255)
  BY DEF WalRecords
<1>2. HexSet \subseteq FieldSymbols /\ DigitSet \subseteq FieldSymbols
  BY DigitsDiffer DEF HexSet, FieldSymbols, Symbols
<1>3. FormatVersion \in Seq(FieldSymbols)
  BY DEF FormatVersion, FieldSymbols, Symbols
<1>4. Decimal[r.seq] \in Seq(DigitSet) /\ Decimal[r.seq] \in Seq(FieldSymbols)
  BY <1>1, <1>2, DecimalIs, MoreSymbols
<1>5. <<r.type>> \in Seq(FieldSymbols)
  <2>1. r.type \in FieldSymbols
    BY <1>1 DEF FieldSymbols, Symbols
  <2> QED
    BY <2>1, OneSymbol
<1>6. ASSUME NEW bytes \in Seq(0..255)
      PROVE  EncodeWalField(bytes) \in Seq(FieldSymbols) /\ EncodeWalField(bytes) # <<>>
  <2>1. CASE bytes = <<>>
    <3>1. "-" \in FieldSymbols
      BY DEF FieldSymbols, Symbols
    <3>2. EncodeWalField(bytes) = <<"-">>
      BY <2>1 DEF EncodeWalField
    <3>3. <<"-">> \in Seq(FieldSymbols) /\ Len(<<"-">>) = 1
      BY <3>1, OneSymbol
    <3> QED
      BY <3>2, <3>3
  <2>2. CASE bytes # <<>>
    <3>1. HexEncode(bytes) \in Seq(HexSet) /\ EncodeWalField(bytes) = HexEncode(bytes)
      BY <2>2, HexEncodeIs DEF EncodeWalField
    <3>2. HexEncode(bytes) \in Seq(FieldSymbols)
      BY <1>2, <3>1, MoreSymbols
    <3>3. Len(EncodeWalField(bytes)) > 0
      BY FieldIs
    <3>4. Len(<<>>) = 0
      OBVIOUS
    <3> QED
      BY <3>1, <3>2, <3>3, <3>4
  <2> QED
    BY <2>1, <2>2
<1> QED
  BY <1>1, <1>3, <1>4, <1>5, <1>6

\* A field is a text of the log, and has neither blank nor newline.
LEMMA FieldWithout ==
  ASSUME NEW t \in Seq(FieldSymbols)
  PROVE  t \in Seq(Symbols) /\ Without(t, " ") /\ Without(t, "\n")
<1>1. FieldSymbols \subseteq Symbols
  BY DEF FieldSymbols
<1>2. \A i \in 1..Len(t) : t[i] \in FieldSymbols
  BY SymbolOf
<1>3. \A x \in FieldSymbols : x # " " /\ x # "\n"
  BY DEF FieldSymbols
<1> QED
  BY <1>1, <1>2, <1>3, MoreSymbols DEF Without

\* Two texts without newlines, and a blank between them.
LEMMA BlankIs ==
  ASSUME NEW s \in Seq(Symbols), NEW t \in Seq(Symbols)
  PROVE  /\ Blank(s, t) \in Seq(Symbols)
         /\ Len(Blank(s, t)) = Len(s) + 1 + Len(t)
         /\ Without(s, "\n") /\ Without(t, "\n") => Without(Blank(s, t), "\n")
<1> DEFINE c == " "
           d == "\n"
<1>1. c \in Symbols /\ c # d
  BY DEF Symbols
<1> HIDE DEF c, d
<1>2. Blank(s, t) = Separated(s, c, t)
  BY DEF Blank, c
<1>3. /\ Blank(s, t) \in Seq(Symbols)
      /\ Len(Blank(s, t)) = Len(s) + 1 + Len(t)
      /\ Without(s, d) /\ Without(t, d) => Without(Blank(s, t), d)
  BY <1>1, <1>2, SeparatedIs
<1> QED
  BY <1>3 DEF d

\* The parts of a line.
PartsOf(s) == Split(s, " ")

\* A separator and text without it make one more part of a text of the log.
LEMMA LogSplits ==
  ASSUME NEW s \in Seq(Symbols), NEW t \in Seq(Symbols), NEW c \in Symbols, Without(t, c)
  PROVE  /\ Len(Split(Separated(s, c, t), c)) = Len(Split(s, c)) + 1
         /\ \A k \in 1..Len(Split(s, c)) : Split(Separated(s, c, t), c)[k] = Split(s, c)[k]
         /\ Split(Separated(s, c, t), c)[Len(Split(s, c)) + 1] = t
BY SplitField

\* A blank and a field make one more part of a line.
LEMMA BlankSplits ==
  ASSUME NEW s \in Seq(Symbols), NEW t \in Seq(Symbols), Without(t, " ")
  PROVE  /\ Len(PartsOf(Blank(s, t))) = Len(PartsOf(s)) + 1
         /\ \A k \in 1..Len(PartsOf(s)) : PartsOf(Blank(s, t))[k] = PartsOf(s)[k]
         /\ PartsOf(Blank(s, t))[Len(PartsOf(s)) + 1] = t
<1>1. " " \in Symbols
  BY DEF Symbols
<1> QED
  BY <1>1, LogSplits, Zenon DEF PartsOf, Blank

\* The body of a line has no newline, and is split into its fields.
LEMMA BodySplits ==
  ASSUME NEW r \in WalRecords
  PROVE  /\ Body(r) \in Seq(Symbols) /\ Without(Body(r), "\n") /\ Len(Body(r)) >= 2
         /\ AreFields(PartsOf(Body(r)), r)
<1> DEFINE f1 == FormatVersion
           f2 == Decimal[r.seq]
           f3 == <<r.type>>
           f4 == EncodeWalField(r.key)
           f5 == EncodeWalField(r.value)
           b2 == Blank(f1, f2)
           b3 == Blank(b2, f3)
           b4 == Blank(b3, f4)
           b5 == Blank(b4, f5)
<1>1. /\ f1 \in Seq(FieldSymbols) /\ f2 \in Seq(FieldSymbols) /\ f3 \in Seq(FieldSymbols)
      /\ f4 \in Seq(FieldSymbols) /\ f5 \in Seq(FieldSymbols)
  BY FieldsAre
<1>0. Len(f1) = 2
  BY DEF FormatVersion
<1> HIDE DEF f1, f2, f3, f4, f5
<1>2. /\ f1 \in Seq(Symbols) /\ f2 \in Seq(Symbols) /\ f3 \in Seq(Symbols)
      /\ f4 \in Seq(Symbols) /\ f5 \in Seq(Symbols)
  BY <1>1, FieldWithout
<1>3. /\ Without(f1, " ") /\ Without(f2, " ") /\ Without(f3, " ") /\ Without(f4, " ") /\ Without(f5, " ")
      /\ Without(f1, "\n") /\ Without(f2, "\n") /\ Without(f3, "\n") /\ Without(f4, "\n") /\ Without(f5, "\n")
  BY <1>1, FieldWithout
<1>14. \A s \in Seq(Symbols) : Len(s) \in Nat
  OBVIOUS
<1>4. b2 \in Seq(Symbols) /\ Without(b2, "\n") /\ Len(b2) >= 2
  <2>1. b2 \in Seq(Symbols) /\ Without(b2, "\n") /\ Len(b2) = Len(f1) + 1 + Len(f2)
    BY <1>2, <1>3, BlankIs
  <2> QED
    BY <1>0, <1>2, <1>14, <2>1
<1>5. /\ Len(PartsOf(b2)) = 2
      /\ PartsOf(b2)[1] = f1 /\ PartsOf(b2)[2] = f2
  <2>1. PartsOf(f1) = <<f1>>
    BY <1>2, <1>3, SplitOne DEF PartsOf
  <2>2. Len(<<f1>>) = 1 /\ <<f1>>[1] = f1
    OBVIOUS
  <2>3. /\ Len(PartsOf(b2)) = Len(PartsOf(f1)) + 1
        /\ \A k \in 1..Len(PartsOf(f1)) : PartsOf(b2)[k] = PartsOf(f1)[k]
        /\ PartsOf(b2)[Len(PartsOf(f1)) + 1] = f2
    BY <1>2, <1>3, BlankSplits
  <2>4. Len(PartsOf(f1)) = 1 /\ PartsOf(f1)[1] = f1
    BY <2>1, <2>2
  <2> HIDE DEF b2
  <2> QED
    BY <2>3, <2>4
<1> HIDE DEF b2
<1>6. b3 \in Seq(Symbols) /\ Without(b3, "\n") /\ Len(b3) >= 2
  <2>1. b3 \in Seq(Symbols) /\ Without(b3, "\n") /\ Len(b3) = Len(b2) + 1 + Len(f3)
    BY <1>2, <1>3, <1>4, BlankIs
  <2> QED
    BY <1>2, <1>4, <1>14, <2>1
<1>7. /\ Len(PartsOf(b3)) = 3
      /\ PartsOf(b3)[1] = f1 /\ PartsOf(b3)[2] = f2 /\ PartsOf(b3)[3] = f3
  <2>1. /\ Len(PartsOf(b3)) = Len(PartsOf(b2)) + 1
        /\ \A k \in 1..Len(PartsOf(b2)) : PartsOf(b3)[k] = PartsOf(b2)[k]
        /\ PartsOf(b3)[Len(PartsOf(b2)) + 1] = f3
    BY <1>2, <1>3, <1>4, BlankSplits
  <2> HIDE DEF b3
  <2> QED
    BY <1>5, <2>1
<1> HIDE DEF b3
<1>8. b4 \in Seq(Symbols) /\ Without(b4, "\n") /\ Len(b4) >= 2
  <2>1. b4 \in Seq(Symbols) /\ Without(b4, "\n") /\ Len(b4) = Len(b3) + 1 + Len(f4)
    BY <1>2, <1>3, <1>6, BlankIs
  <2> QED
    BY <1>2, <1>6, <1>14, <2>1
<1>9. /\ Len(PartsOf(b4)) = 4
      /\ PartsOf(b4)[1] = f1 /\ PartsOf(b4)[2] = f2 /\ PartsOf(b4)[3] = f3
      /\ PartsOf(b4)[4] = f4
  <2>1. /\ Len(PartsOf(b4)) = Len(PartsOf(b3)) + 1
        /\ \A k \in 1..Len(PartsOf(b3)) : PartsOf(b4)[k] = PartsOf(b3)[k]
        /\ PartsOf(b4)[Len(PartsOf(b3)) + 1] = f4
    BY <1>2, <1>3, <1>6, BlankSplits
  <2> HIDE DEF b4
  <2> QED
    BY <1>7, <2>1
<1> HIDE DEF b4
<1>10. b5 \in Seq(Symbols) /\ Without(b5, "\n") /\ Len(b5) >= 2
  <2>1. b5 \in Seq(Symbols) /\ Without(b5, "\n") /\ Len(b5) = Len(b4) + 1 + Len(f5)
    BY <1>2, <1>3, <1>8, BlankIs
  <2> QED
    BY <1>2, <1>8, <1>14, <2>1
<1>11. /\ Len(PartsOf(b5)) = 5
      /\ PartsOf(b5)[1] = f1 /\ PartsOf(b5)[2] = f2 /\ PartsOf(b5)[3] = f3
      /\ PartsOf(b5)[4] = f4 /\ PartsOf(b5)[5] = f5
  <2>1. /\ Len(PartsOf(b5)) = Len(PartsOf(b4)) + 1
        /\ \A k \in 1..Len(PartsOf(b4)) : PartsOf(b5)[k] = PartsOf(b4)[k]
        /\ PartsOf(b5)[Len(PartsOf(b4)) + 1] = f5
    BY <1>2, <1>3, <1>8, BlankSplits
  <2> HIDE DEF b5
  <2> QED
    BY <1>9, <2>1
<1> HIDE DEF b5
<1>12. Body(r) = b5
  BY DEF Body, b2, b3, b4, b5, f1, f2, f3, f4, f5
<1>13. AreFields(PartsOf(b5), r)
  BY <1>11 DEF AreFields, f1, f2, f3, f4, f5
<1> QED
  BY <1>10, <1>12, <1>13

\* A line is its body and a newline.
LEMMA LineBody ==
  ASSUME NEW r \in WalRecords
  PROVE  Serialize(r) = Append(Body(r), "\n")
<1> DEFINE f1 == FormatVersion
           f2 == Decimal[r.seq]
           f3 == <<r.type>>
           f4 == EncodeWalField(r.key)
           f5 == EncodeWalField(r.value)
<1>1. /\ f1 \in Seq(Symbols) /\ f2 \in Seq(Symbols) /\ f3 \in Seq(Symbols)
      /\ f4 \in Seq(Symbols) /\ f5 \in Seq(Symbols)
  BY FieldsAre, FieldWithout
<1>2. Serialize(r) = f1 \o <<" ">> \o f2 \o <<" ">> \o f3 \o <<" ">> \o f4 \o <<" ">> \o f5 \o <<"\n">>
  BY DEF Serialize
<1>3. Body(r) = Blank(Blank(Blank(Blank(f1, f2), f3), f4), f5)
  BY DEF Body
<1> HIDE DEF f1, f2, f3, f4, f5
<1>4. ASSUME NEW s \in Seq(Symbols), NEW t \in Seq(Symbols)
      PROVE  s \o <<" ">> \o t = Blank(s, t) /\ Blank(s, t) \in Seq(Symbols)
  <2> DEFINE c == " "
  <2>1. c \in Symbols
    BY DEF Symbols
  <2> HIDE DEF c
  <2>2. s \o <<c>> = Append(s, c)
    BY <2>1
  <2>3. s \o <<c>> \o t = Separated(s, c, t)
    BY <2>2, Zenon DEF Join, Separated
  <2> QED
    BY <2>3, BlankIs DEF Blank, Separated, c
<1>5. \A s \in Seq(Symbols), c \in Symbols : s \o <<c>> = Append(s, c)
  OBVIOUS
<1>12. "\n" \in Symbols
  BY DEF Symbols
<1> DEFINE b2 == Blank(f1, f2)
           b3 == Blank(b2, f3)
           b4 == Blank(b3, f4)
           b5 == Blank(b4, f5)
<1>6. f1 \o <<" ">> \o f2 = b2 /\ b2 \in Seq(Symbols)
  BY <1>1, <1>4
<1> HIDE DEF b2
<1>7. b2 \o <<" ">> \o f3 = b3 /\ b3 \in Seq(Symbols)
  BY <1>1, <1>4, <1>6
<1> HIDE DEF b3
<1>8. b3 \o <<" ">> \o f4 = b4 /\ b4 \in Seq(Symbols)
  BY <1>1, <1>4, <1>7
<1> HIDE DEF b4
<1>9. b4 \o <<" ">> \o f5 = b5 /\ b5 \in Seq(Symbols)
  BY <1>1, <1>4, <1>8
<1> HIDE DEF b5
<1>10. Serialize(r) = b5 \o <<"\n">>
  BY <1>2, <1>6, <1>7, <1>8, <1>9, Zenon
<1>11. Body(r) = b5
  BY <1>3 DEF b2, b3, b4, b5
<1> QED
  BY <1>5, <1>9, <1>10, <1>11, <1>12, Zenon

\* Fields that were written are well formed, and stand for the record.
LEMMA FieldsRead ==
  ASSUME NEW r \in WalRecords, Valid(r), NEW ps, AreFields(ps, r)
  PROVE  WellFormed(ps) /\ RecordOf(ps) = r
<1>1. r.seq \in Nat /\ r.type \in {"set", "del"} /\ r.key \in Seq(0..255) /\ r.value \in Seq(0..255)
  BY DEF WalRecords
<1>2. /\ Len(ps) = 5
      /\ ps[1] = FormatVersion
      /\ ps[2] = Decimal[r.seq]
      /\ ps[3] = <<r.type>>
      /\ ps[4] = EncodeWalField(r.key)
      /\ ps[5] = EncodeWalField(r.value)
  BY DEF AreFields
<1>3. Decimal[r.seq] \in Seq(DigitSet) /\ NumberOf(Decimal[r.seq]) = r.seq
  BY <1>1, FieldsAre, NumberOfDecimal
<1>4. /\ IsHexField(EncodeWalField(r.key)) /\ HexDecode(EncodeWalField(r.key)) = r.key
      /\ IsHexField(EncodeWalField(r.value)) /\ HexDecode(EncodeWalField(r.value)) = r.value
  BY <1>1, FieldsReadBack
<1>5. RecordOf(ps) = r
  <2>1. <<r.type>>[1] = r.type
    OBVIOUS
  <2>2. RecordOf(ps) = [seq |-> r.seq, type |-> r.type, key |-> r.key, value |-> r.value]
    BY <1>2, <1>3, <1>4, <2>1, Zenon DEF RecordOf
  <2>3. r = [seq |-> r.seq, type |-> r.type, key |-> r.key, value |-> r.value]
    BY DEF WalRecords
  <2> QED
    BY <2>2, <2>3, Zenon
<1>6. \A k \in 1..5 : ps[k] # <<>>
  <2>1. FormatVersion # <<>>
    BY DEF FormatVersion
  <2>2. Decimal[r.seq] # <<>>
    <3>1. r.seq # 0
      BY DEF Valid
    <3> QED
      BY <1>3, <3>1, NumberOfEmpty, Zenon
  <2>3. <<r.type>> # <<>>
    OBVIOUS
  <2>4. EncodeWalField(r.key) # <<>> /\ EncodeWalField(r.value) # <<>>
    BY FieldsAre
  <2>5. ps[1] # <<>> /\ ps[2] # <<>> /\ ps[3] # <<>> /\ ps[4] # <<>> /\ ps[5] # <<>>
    BY <1>2, <2>1, <2>2, <2>3, <2>4, Zenon
  <2>6. \A k \in 1..5 : k = 1 \/ k = 2 \/ k = 3 \/ k = 4 \/ k = 5
    OBVIOUS
  <2> QED
    BY <2>5, <2>6, Zenon
<1>7. IsNumber(ps[2])
  <2>1. \A i \in 1..Len(Decimal[r.seq]) : Decimal[r.seq][i] \in DigitSet
    BY <1>3, SymbolOf
  <2> QED
    BY <1>2, <2>1, DigitsDiffer, Zenon DEF IsNumber
<1>8. ps[3] \in {<<"set">>, <<"del">>}
  BY <1>1, <1>2, Zenon
<1> QED
  BY <1>2, <1>4, <1>5, <1>6, <1>7, <1>8, Zenon DEF WellFormed

\* A line without its newline reads as the record that it was written for.
LEMMA BodyReads ==
  ASSUME NEW r \in WalRecords, Valid(r)
  PROVE  WellFormed(PartsOf(Body(r))) /\ RecordOf(PartsOf(Body(r))) = r
BY BodySplits, FieldsRead

\* The symbol of the format is no digit.
LEMMA NoDigit == ~IsDigit("KVWAL1") /\ ~IsHexDigit("KVWAL1")
<1>1. /\ UpperHexDigits[1] = "0" /\ UpperHexDigits[2] = "1" /\ UpperHexDigits[3] = "2"
      /\ UpperHexDigits[4] = "3" /\ UpperHexDigits[5] = "4" /\ UpperHexDigits[6] = "5"
      /\ UpperHexDigits[7] = "6" /\ UpperHexDigits[8] = "7" /\ UpperHexDigits[9] = "8"
      /\ UpperHexDigits[10] = "9" /\ UpperHexDigits[11] = "A" /\ UpperHexDigits[12] = "B"
      /\ UpperHexDigits[13] = "C" /\ UpperHexDigits[14] = "D" /\ UpperHexDigits[15] = "E"
      /\ UpperHexDigits[16] = "F"
  BY DEF UpperHexDigits, Digits
<1>2. \A d \in 1..16 : UpperHexDigits[d] # "KVWAL1"
  BY <1>1
<1>3. \A d \in 1..16 : HexDigits[d] \in HexSet
  BY HexDigitsAre
<1>4. "KVWAL1" \notin HexSet /\ "KVWAL1" \notin DigitSet
  BY DigitsDiffer DEF HexSet
<1>5. ~IsHexDigit("KVWAL1")
  BY <1>2, <1>3, <1>4 DEF IsHexDigit
<1>6. ~IsDigit("KVWAL1")
  BY <1>4, DigitsDiffer
<1> QED
  BY <1>5, <1>6

\* In a line that is accepted, the symbol of the format is the second one and no other.
LEMMA FormatPlace ==
  ASSUME NEW s \in Seq(Symbols), WellFormed(PartsOf(s)), NEW i \in 1..Len(s), s[i] = "KVWAL1"
  PROVE  i = 2
<1> DEFINE ps == PartsOf(s)
<1>1. s[i] # " "
  BY Zenon
<1>2. IsIn(ps, s[i], i)
  BY <1>1, SplitHas DEF PartsOf
<1>3. PICK k \in 1..Len(ps) : \E j \in 1..Len(ps[k]) : ps[k][j] = "KVWAL1" /\ (k = 1 => j = i)
  BY <1>2, Zenon DEF IsIn
<1>4. PICK j \in 1..Len(ps[k]) : ps[k][j] = "KVWAL1" /\ (k = 1 => j = i)
  BY <1>3, Zenon
<1> HIDE DEF ps
<1>5. /\ Len(ps) = 5 /\ ps[1] = FormatVersion /\ IsNumber(ps[2]) /\ ps[3] \in {<<"set">>, <<"del">>}
      /\ IsHexField(ps[4]) /\ IsHexField(ps[5])
  BY DEF WellFormed, ps
<1>6. k \in 1..5
  BY <1>5
<1>7. CASE k = 1
  <2>1. Len(FormatVersion) = 2 /\ FormatVersion[1] = "A"
    BY DEF FormatVersion
  <2>2. j \in 1..2 /\ FormatVersion[j] = "KVWAL1" /\ j = i
    BY <1>4, <1>5, <1>7, <2>1
  <2>3. j = 1 \/ j = 2
    BY <2>2
  <2> QED
    BY <2>1, <2>2, <2>3
<1>8. CASE k = 2
  <2>1. IsDigit(ps[2][j])
    BY <1>5, <1>8, Zenon DEF IsNumber
  <2> QED
    BY <1>4, <1>8, <2>1, NoDigit, Zenon
<1>9. CASE k = 3
  <2>1. Len(<<"set">>) = 1 /\ Len(<<"del">>) = 1 /\ <<"set">>[1] = "set" /\ <<"del">>[1] = "del"
    OBVIOUS
  <2>2. Len(ps[3]) = 1 /\ ps[3][1] \in {"set", "del"}
    BY <1>5, <2>1, Zenon
  <2>3. j = 1
    BY <1>9, <2>2
  <2> QED
    BY <1>4, <1>9, <2>2, <2>3, Zenon
<1>10. ASSUME NEW part, IsHexField(part), j \in 1..Len(part), part[j] = "KVWAL1"
       PROVE  FALSE
  <2>1. CASE part = <<"-">>
    <3>1. Len(<<"-">>) = 1 /\ <<"-">>[1] = "-"
      OBVIOUS
    <3>2. j = 1
      <4>1. Len(part) = 1
        BY <2>1, <3>1, Zenon
      <4> QED
        BY <1>10, <4>1
    <3> QED
      BY <1>10, <2>1, <3>1, <3>2, Zenon
  <2>2. CASE part # <<"-">>
    <3>1. IsHexDigit(part[j])
      BY <1>10, <2>2, Zenon DEF IsHexField
    <3> QED
      BY <1>10, <3>1, NoDigit, Zenon
  <2> QED
    BY <2>1, <2>2
<1>11. CASE k = 4
  BY <1>4, <1>5, <1>10, <1>11, Zenon
<1>12. CASE k = 5
  BY <1>4, <1>5, <1>10, <1>12, Zenon
<1>13. k = 1 \/ k = 2 \/ k = 3 \/ k = 4 \/ k = 5
  BY <1>6
<1> QED
  BY <1>7, <1>8, <1>9, <1>11, <1>12, <1>13, Zenon

\* The parts of a text of the log, but the last, are those of the text that it is cut from.
LEMMA LogCut ==
  ASSUME NEW s \in Seq(Symbols), NEW n \in 0..Len(s), NEW t \in Seq(Symbols), NEW c, Without(t, c),
         Len(Split(Join(Prefix(s, n), t), c)) = Len(Split(s, c))
  PROVE  \A k \in 1..(Len(Split(s, c)) - 1) : Split(Join(Prefix(s, n), t), c)[k] = Split(s, c)[k]
BY SplitCut

\* Five is more than four.
LEMMA FiveFields == 5 \in Nat /\ 5 > 4
OBVIOUS

\* Of more than four fields, the middle ones are not the last.
LEMMA MiddleFields ==
  ASSUME NEW s \in Seq(Symbols), NEW n \in 0..Len(s), NEW t \in Seq(Symbols), NEW c, Without(t, c),
         Len(Split(s, c)) \in Nat /\ Len(Split(s, c)) > 4,
         Len(Split(Join(Prefix(s, n), t), c)) = Len(Split(s, c))
  PROVE  /\ Split(Join(Prefix(s, n), t), c)[2] = Split(s, c)[2]
         /\ Split(Join(Prefix(s, n), t), c)[3] = Split(s, c)[3]
         /\ Split(Join(Prefix(s, n), t), c)[4] = Split(s, c)[4]
<1> DEFINE ps == Split(Join(Prefix(s, n), t), c)
           qs == Split(s, c)
<1>2. \A k \in 1..(Len(qs) - 1) : ps[k] = qs[k]
  BY LogCut
<1>3. Len(qs) \in Nat /\ Len(qs) > 4
  OBVIOUS
<1> HIDE DEF ps, qs
<1>4. ps[2] = qs[2] /\ ps[3] = qs[3] /\ ps[4] = qs[4]
  BY <1>2, <1>3
<1> QED
  BY <1>4 DEF ps, qs

\* Record q is r but for the value.
ButValue(q, r) == [q EXCEPT !.value = r.value] = r

\* Fields with another value read as the record but for the value.
LEMMA OtherValue ==
  ASSUME NEW r \in WalRecords, Valid(r), NEW ps, Valid(RecordOf(ps)),
         ps[2] = Decimal[r.seq], ps[3] = <<r.type>>, ps[4] = EncodeWalField(r.key)
  PROVE  /\ ButValue(RecordOf(ps), r)
         /\ r.type # "set" => RecordOf(ps) = r
<1> DEFINE q == RecordOf(ps)
<1>1. r.seq \in Nat /\ r.type \in {"set", "del"} /\ r.key \in Seq(0..255) /\ r.value \in Seq(0..255)
  BY DEF WalRecords
<1>2. NumberOf(Decimal[r.seq]) = r.seq /\ <<r.type>>[1] = r.type /\ HexDecode(EncodeWalField(r.key)) = r.key
  <2>1. <<r.type>>[1] = r.type
    OBVIOUS
  <2> QED
    BY <1>1, <2>1, NumberOfDecimal, FieldsReadBack, Zenon
<1>3. q = [seq |-> r.seq, type |-> r.type, key |-> r.key, value |-> HexDecode(ps[5])]
  BY <1>2, Zenon DEF RecordOf
<1>4. r = [seq |-> r.seq, type |-> r.type, key |-> r.key, value |-> r.value]
  BY DEF WalRecords
<1>0. Valid(q)
  OBVIOUS
<1> HIDE DEF q
<1>5. ButValue(q, r)
  <2>1. [q EXCEPT !.value = r.value] = r
    BY <1>3, <1>4
  <2> QED
    BY <2>1, Zenon DEF ButValue
<1>6. ASSUME r.type # "set"
      PROVE  q = r
  <2>1. q.type = r.type /\ q.value = HexDecode(ps[5])
    BY <1>3
  <2>2. q.value = <<>>
    BY <1>0, <1>6, <2>1, Zenon DEF Valid
  <2>3. r.value = <<>>
    BY <1>6, Zenon DEF Valid
  <2> QED
    BY <1>3, <1>4, <2>1, <2>2, <2>3, Zenon
<1> QED
  BY <1>5, <1>6, Zenon DEF q

\* A beginning of a line, with first symbols of lines after it, reads as the record but for
\* the value, if it is accepted at all.
LEMMA CutReads ==
  ASSUME NEW r \in WalRecords, Valid(r), NEW n \in 0..Len(Body(r)),
         NEW t \in Seq(Symbols), Without(t, " "),
         WellFormed(PartsOf(Join(Prefix(Body(r), n), t)))
  PROVE  /\ ButValue(RecordOf(PartsOf(Join(Prefix(Body(r), n), t))), r)
         /\ r.type # "set" => RecordOf(PartsOf(Join(Prefix(Body(r), n), t))) = r
<1> DEFINE s  == Body(r)
           u  == Join(Prefix(s, n), t)
           qs == PartsOf(s)
           ps == PartsOf(u)
<1>1. s \in Seq(Symbols) /\ AreFields(qs, r)
  BY BodySplits
<1>2. Len(qs) = 5 /\ qs[2] = Decimal[r.seq] /\ qs[3] = <<r.type>> /\ qs[4] = EncodeWalField(r.key)
  BY <1>1, Zenon DEF AreFields
<1>3. Len(ps) = 5 /\ Valid(RecordOf(ps))
  BY Zenon DEF WellFormed
<1>4. n \in 0..Len(s)
  OBVIOUS
<1> HIDE DEF s
<1>5. ps[2] = qs[2] /\ ps[3] = qs[3] /\ ps[4] = qs[4]
  <2>1. Len(ps) = Len(qs)
    BY <1>2, <1>3, Zenon
  <2>2. Len(qs) \in Nat /\ Len(qs) > 4
    BY <1>2, FiveFields, Zenon
  <2> QED
    BY <1>1, <1>4, <2>1, <2>2, MiddleFields, ZenonT(30) DEF PartsOf
<1> HIDE DEF u, ps, qs
<1>6. /\ ButValue(RecordOf(ps), r)
      /\ r.type # "set" => RecordOf(ps) = r
  BY <1>2, <1>3, <1>5, OtherValue, Zenon
<1> QED
  BY <1>6, Zenon DEF ps, u, s

\* A text with a blank and another after it begins as it did.
LEMMA BlankBegins ==
  ASSUME NEW s \in Seq(Symbols), NEW t \in Seq(Symbols), Len(s) > 1
  PROVE  /\ Blank(s, t) \in Seq(Symbols) /\ Len(Blank(s, t)) > 1
         /\ Blank(s, t)[1] = s[1] /\ Blank(s, t)[2] = s[2]
<1> DEFINE c == " "
           u == Append(s, c)
<1>1. c \in Symbols
  BY DEF Symbols
<1>2. Blank(s, t) = Join(u, t)
  BY Zenon DEF Blank, Separated
<1> HIDE DEF c
<1>3. u \in Seq(Symbols) /\ Len(u) = Len(s) + 1 /\ \A i \in 1..Len(s) : u[i] = s[i]
  BY <1>1, AppendProperties
<1> HIDE DEF u
<1>4. u \in Seq(Symbols)
  BY <1>3
<1>5. Join(u, t) \in Seq(Symbols) /\ Len(Join(u, t)) = Len(u) + Len(t)
  BY <1>4, JoinIs
<1>6. \A i \in 1..Len(u) : Join(u, t)[i] = u[i]
  BY <1>4, JoinAt
<1>7. Len(s) \in Nat /\ Len(t) \in Nat
  OBVIOUS
<1>8. 1 \in 1..Len(s) /\ 2 \in 1..Len(s) /\ 1 \in 1..Len(u) /\ 2 \in 1..Len(u) /\ Len(Join(u, t)) > 1
  BY <1>3, <1>5, <1>7
<1>9. Join(u, t)[1] = s[1] /\ Join(u, t)[2] = s[2]
  BY <1>3, <1>6, <1>8
<1> QED
  BY <1>2, <1>5, <1>8, <1>9

\* A body begins with the version of the format.
LEMMA BodyBegins ==
  ASSUME NEW r \in WalRecords
  PROVE  Body(r)[1] = "A" /\ Body(r)[2] = "KVWAL1"
<1> DEFINE body == Body(r)
           s1 == Blank(FormatVersion, Decimal[r.seq])
           s2 == Blank(s1, <<r.type>>)
           s3 == Blank(s2, EncodeWalField(r.key))
<1>1. /\ FormatVersion \in Seq(Symbols) /\ Decimal[r.seq] \in Seq(Symbols) /\ <<r.type>> \in Seq(Symbols)
      /\ EncodeWalField(r.key) \in Seq(Symbols) /\ EncodeWalField(r.value) \in Seq(Symbols)
  BY FieldsAre, FieldWithout
<1>2. \A s \in Seq(Symbols), t \in Seq(Symbols) :
        Len(s) > 1 => Blank(s, t) \in Seq(Symbols) /\ Len(Blank(s, t)) > 1
                      /\ Blank(s, t)[1] = s[1] /\ Blank(s, t)[2] = s[2]
  BY BlankBegins
<1>3. Len(FormatVersion) > 1 /\ FormatVersion[1] = "A" /\ FormatVersion[2] = "KVWAL1"
  BY DEF FormatVersion
<1>4. s1 \in Seq(Symbols) /\ Len(s1) > 1 /\ s1[1] = "A" /\ s1[2] = "KVWAL1"
  BY <1>1, <1>2, <1>3, Zenon
<1>5. s2 \in Seq(Symbols) /\ Len(s2) > 1 /\ s2[1] = "A" /\ s2[2] = "KVWAL1"
  BY <1>1, <1>2, <1>4, Zenon
<1>6. s3 \in Seq(Symbols) /\ Len(s3) > 1 /\ s3[1] = "A" /\ s3[2] = "KVWAL1"
  BY <1>1, <1>2, <1>5, Zenon
<1>7. Blank(s3, EncodeWalField(r.value))[1] = "A" /\ Blank(s3, EncodeWalField(r.value))[2] = "KVWAL1"
  BY <1>1, <1>2, <1>6, Zenon
<1> QED
  BY <1>7, Zenon DEF Body

-----------------------------------------------------------------------------
(* Types *)

\* The pieces of the file are parts of lines.
PieceSet == {p \in [record : {r \in Records : Valid(r)}, length : Nat \ {0}] : p.length <= Len(LineOf(p))}

\* The type invariant, with the fact that the pieces are a sequence.
TypeInv == pieces \in Seq(PieceSet) /\ TypeOK

\* A valid record has a line.
LEMMA LineIs ==
  ASSUME NEW r \in Records, Valid(r)
  PROVE  Line[r] = Serialize(r) /\ Len(Line[r]) \in Nat \ {0}
BY SerializeIs, WalFileAssumption DEF Line

\* What is said of the pieces follows from where they come from.
LEMMA PiecesTyped ==
  ASSUME NEW ps \in Seq(PieceSet), NEW i \in 1..Len(ps)
  PROVE  /\ ps[i].record \in Records /\ Valid(ps[i].record)
         /\ ps[i].length \in 1..Len(LineOf(ps[i]))
<1>1. ps[i] \in PieceSet
  BY SymbolOf
<1>2. ps[i].record \in Records /\ Valid(ps[i].record)
  BY <1>1 DEF PieceSet
<1>3. Len(LineOf(ps[i])) \in Nat
  BY <1>2, LineIs DEF LineOf
<1> QED
  BY <1>1, <1>2, <1>3 DEF PieceSet

\* The other variables.
RestType ==
  /\ syncPolicy \in Policies \cup {"no writer"}
  /\ fileDescriptor \in {"none", "open", "stale"}
  /\ isClosed \in BOOLEAN
  /\ pc \in {"idle", "sync", "close"}
  /\ call \in {"none", "append", "flush", "close"}
  /\ pc # "idle" => call # "none" /\ fileDescriptor # "none" /\ ~isClosed

\* What the type invariant says.
LEMMA TypeIs ==
  ASSUME TypeInv
  PROVE  /\ pieces \in Seq(PieceSet) /\ Len(pieces) \in Nat /\ synced \in 0..Len(pieces)
         /\ wrote \in BOOLEAN /\ RestType
<1>1. pieces \in Seq(PieceSet) /\ synced \in 0..Len(pieces)
  BY DEF TypeInv, TypeOK
<1>2. wrote \in BOOLEAN /\ RestType
  BY DEF TypeInv, TypeOK, RestType
<1>3. Len(pieces) \in Nat
  BY <1>1
<1> QED
  BY <1>1, <1>2, <1>3

\* The first state is of the type.
LEMMA InitType == Init => TypeInv
<1> SUFFICES ASSUME Init
             PROVE  TypeInv
  OBVIOUS
<1>1. pieces \in Seq(PieceSet) /\ Len(pieces) = 0
  BY DEF Init
<1>2. synced \in 0..Len(pieces)
  BY <1>1 DEF Init
<1>3. RestType /\ wrote \in BOOLEAN
  BY DEF Init, NoWriter, RestType
<1> QED
  BY <1>1, <1>2, <1>3, PiecesTyped DEF TypeInv, TypeOK, RestType

\* The calls and system calls change the pieces only in Writes.
LEMMA TypeWrites ==
  ASSUME TypeInv, NEW r \in Records, Valid(r), NEW n \in 0..Len(Line[r]), Writes(r, n)
  PROVE  pieces' \in Seq(PieceSet) /\ synced \in 0..Len(pieces') /\ wrote' \in BOOLEAN
<1>1. CASE n = 0
  BY <1>1, TypeIs DEF Writes
<1>2. CASE n # 0
  <2> DEFINE p == [record |-> r, length |-> n]
  <2>1. p \in PieceSet
    BY <1>2, LineIs DEF PieceSet, LineOf
  <2>2. pieces' = Append(pieces, p)
    BY <1>2 DEF Writes
  <2> HIDE DEF p
  <2>3. pieces' \in Seq(PieceSet) /\ Len(pieces') = Len(pieces) + 1
    BY <2>1, <2>2, TypeIs
  <2>4. wrote' \in BOOLEAN
    BY DEF Writes
  <2> QED
    BY <2>3, <2>4, TypeIs
<1> QED
  BY <1>1, <1>2

\* The parts make the whole.
LEMMA TypeParts ==
  ASSUME pieces' \in Seq(PieceSet), synced' \in 0..Len(pieces'), wrote' \in BOOLEAN, RestType'
  PROVE  TypeInv'
BY PiecesTyped DEF TypeInv, TypeOK, RestType

\* A step that leaves the file alone.
LEMMA TypeSame ==
  ASSUME TypeInv, UNCHANGED pieces, synced' \in {synced, Len(pieces)}, wrote' \in BOOLEAN, RestType'
  PROVE  TypeInv'
<1>1. pieces' \in Seq(PieceSet)
  BY TypeIs
<1>2. synced' \in 0..Len(pieces')
  BY TypeIs
<1> QED
  BY <1>1, <1>2, TypeParts

\* The calls.
LEMMA TypeCall ==
  ASSUME TypeInv, WriterInv, Ready, Call
  PROVE  TypeInv'
<1>1. RestType /\ pc = "idle" /\ wrote \in BOOLEAN
  BY TypeIs DEF Ready
<1>2. CASE \E r \in Records : AppendRecord(r)
  <2>1. PICK r \in Records : AppendRecord(r)
    BY <1>2
  <2>2. Len(Line[r]) \in 0..Len(Line[r]) /\ Valid(r) /\ Writes(r, Len(Line[r]))
    BY <2>1, LineIs DEF AppendRecord
  <2>3. RestType' /\ UNCHANGED synced
    BY <1>1, <2>1 DEF AppendRecord, OpenFile, RestType, Enters, Ok
  <2> QED
    BY <2>2, <2>3, TypeWrites, TypeParts
<1>3. CASE \E r \in Records : AppendBreaks(r)
  <2>1. PICK r \in Records : AppendBreaks(r)
    BY <1>3
  <2>2. RestType' /\ UNCHANGED synced
    BY <1>1, <2>1 DEF AppendBreaks, OpenFile, RestType, ReturnError
  <2>3. CASE \E n \in 0..(Len(Line[r]) - 1) : Writes(r, n)
    <3>1. PICK n \in 0..(Len(Line[r]) - 1) : Writes(r, n)
      BY <2>3
    <3>2. n \in 0..Len(Line[r]) /\ Valid(r)
      BY <2>1, LineIs DEF AppendBreaks
    <3> QED
      BY <2>2, <3>1, <3>2, TypeWrites, TypeParts
  <2>4. CASE UNCHANGED <<pieces, wrote>>
    BY <1>1, <2>2, <2>4, TypeSame
  <2> QED
    BY <2>1, <2>3, <2>4 DEF AppendBreaks
<1>4. CASE \E r \in Records : AppendRefused(r)
  <2>1. RestType' /\ UNCHANGED <<pieces, synced, wrote>>
    BY <1>1, <1>4 DEF AppendRefused, Refused, RestType, ReturnError, file
  <2> QED
    BY <1>1, <2>1, TypeSame
<1>5. CASE Flush
  <2>1. RestType' /\ UNCHANGED <<pieces, synced, wrote>>
    <3>1. CASE Refused
      BY <1>1, <3>1 DEF Refused, RestType, ReturnError, file
    <3>2. CASE /\ OpenFile
               /\ IF syncPolicy = "none" THEN Ok("flush") ELSE Enters("flush", "sync")
               /\ UNCHANGED <<file, syncPolicy, isClosed, wrote>>
      <4>1. ~isClosed' /\ fileDescriptor' \in {"open", "stale"} /\ UNCHANGED <<pieces, synced, wrote>>
        BY <1>1, <3>2 DEF OpenFile, RestType, file
      <4>2. pc' \in {"idle", "sync"} /\ call' = "flush"
        BY <3>2 DEF Ok, Enters
      <4> QED
        BY <1>1, <3>2, <4>1, <4>2 DEF RestType
    <3> QED
      BY <1>5, <3>1, <3>2 DEF Flush
  <2> QED
    BY <1>1, <2>1, TypeSame
<1>6. CASE Close
  <2>1. RestType' /\ UNCHANGED <<pieces, synced, wrote>>
    BY <1>1, <1>6 DEF Close, RestType, Ok, Enters, file
  <2> QED
    BY <1>1, <2>1, TypeSame
<1> QED
  BY <1>2, <1>3, <1>4, <1>5, <1>6 DEF Call

\* The system calls.
LEMMA TypeSystem ==
  ASSUME TypeInv, Fsync \/ FsyncFails \/ CloseDescriptor \/ CloseDescriptorFails
  PROVE  TypeInv'
<1>1. RestType /\ wrote \in BOOLEAN
  BY TypeIs
<1>2. /\ RestType' /\ UNCHANGED <<pieces, wrote>> /\ synced' \in {synced, Len(pieces)}
  <2>1. CASE Fsync
    BY <1>1, <2>1 DEF Fsync, RestType, Ok, Enters
  <2>2. CASE FsyncFails
    BY <1>1, <2>2 DEF FsyncFails, RestType, ReturnError, file
  <2>3. CASE CloseDescriptor
    BY <1>1, <2>3 DEF CloseDescriptor, RestType, Ok, file
  <2>4. CASE CloseDescriptorFails
    BY <1>1, <2>4 DEF CloseDescriptorFails, RestType, ReturnError, file
  <2> QED
    BY <2>1, <2>2, <2>3, <2>4
<1> QED
  BY <1>1, <1>2, TypeSame

\* What a power loss leaves of the file.
LEMMA TypePower ==
  ASSUME TypeInv, PowerLoss
  PROVE  pieces' \in Seq(PieceSet) /\ synced' \in 0..Len(pieces')
<1>1. pieces \in Seq(PieceSet) /\ synced \in 0..Len(pieces) /\ Len(pieces) \in Nat
  BY TypeIs
<1>2. PICK n \in synced..Len(pieces) :
        \/ pieces' = SubSeq(pieces, 1, n)
        \/ /\ n < Len(pieces)
           /\ \E m \in 1..(pieces[n + 1].length - 1) :
                pieces' = Append(SubSeq(pieces, 1, n), [pieces[n + 1] EXCEPT !.length = m])
  BY DEF PowerLoss
<1>3. n \in 0..Len(pieces)
  BY <1>1, <1>2
<1>4. Prefix(pieces, n) \in Seq(PieceSet)
  BY <1>1, <1>3, PrefixIs
<1>5. pieces' \in Seq(PieceSet)
  <2>1. CASE pieces' = SubSeq(pieces, 1, n)
    BY <1>4, <2>1 DEF Prefix
  <2>2. CASE pieces' # SubSeq(pieces, 1, n)
    <3>1. PICK m \in 1..(pieces[n + 1].length - 1) :
            pieces' = Append(SubSeq(pieces, 1, n), [pieces[n + 1] EXCEPT !.length = m])
      BY <1>2, <2>2
    <3>2. n + 1 \in 1..Len(pieces)
      BY <1>1, <1>2, <1>3, <2>2
    <3>3. pieces[n + 1] \in PieceSet
      BY <1>1, <3>2, SymbolOf
    <3> DEFINE p == [pieces[n + 1] EXCEPT !.length = m]
    <3>4. p.record = pieces[n + 1].record /\ p.length = m /\ m \in Nat \ {0} /\ m <= pieces[n + 1].length
      BY <3>3 DEF PieceSet
    <3>5. p \in [record : {r \in Records : Valid(r)}, length : Nat \ {0}]
      BY <3>3, <3>4 DEF PieceSet
    <3>6. Len(LineOf(p)) = Len(LineOf(pieces[n + 1])) /\ Len(LineOf(p)) \in Nat
      <4>1. p.record \in Records /\ Valid(p.record)
        BY <3>5
      <4> QED
        BY <3>4, <4>1, LineIs DEF LineOf
    <3>7. pieces[n + 1].length \in Nat /\ pieces[n + 1].length <= Len(LineOf(pieces[n + 1]))
      BY <3>3 DEF PieceSet
    <3>8. p \in PieceSet
      BY <3>4, <3>5, <3>6, <3>7 DEF PieceSet
    <3> HIDE DEF p
    <3>9. pieces' = Append(Prefix(pieces, n), p)
      BY <3>1 DEF Prefix, p
    <3> QED
      BY <1>4, <3>8, <3>9
  <2> QED
    BY <2>1, <2>2
<1>6. Len(pieces') \in Nat /\ synced' = Len(pieces')
  BY <1>5 DEF PowerLoss
<1> QED
  BY <1>5, <1>6

\* Every step keeps the types.
LEMMA StepType == TypeInv /\ WriterInv /\ [Next]_vars => TypeInv'
<1> SUFFICES ASSUME TypeInv, WriterInv, [Next]_vars
             PROVE  TypeInv'
  OBVIOUS
<1>1. RestType /\ wrote \in BOOLEAN
  BY TypeIs
<1>2. CASE UNCHANGED vars
  <2>1. RestType' /\ UNCHANGED <<pieces, synced, wrote>>
    BY <1>1, <1>2 DEF vars, RestType
  <2> QED
    BY <1>1, <2>1, TypeSame
<1>3. CASE Construct
  <2>1. RestType' /\ UNCHANGED <<pieces, synced, wrote>>
    BY <1>1, <1>3 DEF Construct, RestType, file
  <2> QED
    BY <1>1, <2>1, TypeSame
<1>4. CASE Destroy \/ Kill
  <2>1. RestType' /\ wrote' \in BOOLEAN /\ UNCHANGED pieces /\ synced' \in {synced, Len(pieces)}
    BY <1>4 DEF Destroy, Kill, Gone, RestType, file
  <2> QED
    BY <2>1, TypeSame
<1>5. CASE PowerLoss
  <2>1. RestType' /\ wrote' \in BOOLEAN
    BY <1>5 DEF PowerLoss, Gone, RestType
  <2> QED
    BY <1>5, <2>1, TypePower, TypeParts
<1> QED
  BY <1>2, <1>3, <1>4, <1>5, TypeCall, TypeSystem DEF Next

-----------------------------------------------------------------------------
(* Files of whole and broken lines *)

\* What a piece leaves in the file, and the text of a file of pieces.
PieceText(p) == Prefix(LineOf(p), p.length)
LogText(ps)  == TextOf([i \in 1..Len(ps) |-> PieceText(ps[i])])

\* A text is put together piece by piece.
LEMMA TextSteps ==
  ASSUME NEW T, NEW ts \in Seq(Seq(T))
  PROVE  \E v : /\ v \in [0..Len(ts) -> Seq(T)] /\ v[0] = <<>> /\ TextOf(ts) = v[Len(ts)]
                /\ \A i \in 1..Len(ts) : v[i] = Join(v[i - 1], ts[i])
<1> DEFINE none       == <<>>
           next(u, i) == u \o ts[i]
           step       == [i \in 1..Len(ts) |-> [u \in Seq(T) |-> next(u, i)]]
<1>0. Len(ts) \in Nat /\ none \in Seq(T)
  OBVIOUS
<1>1. ASSUME NEW i \in 1..Len(ts), NEW u \in Seq(T)
      PROVE  next(u, i) \in Seq(T) /\ next(u, i) = Join(u, ts[i])
  <2>1. ts[i] \in Seq(T)
    BY SymbolOf
  <2> QED
    BY <2>1, JoinIs DEF Join
<1> HIDE DEF none, next
<1>2. step \in [1..Len(ts) -> [Seq(T) -> Seq(T)]]
  BY <1>1
<1>3. \A i \in 1..Len(ts), u \in Seq(T) : step[i][u] = next(u, i)
  OBVIOUS
<1> HIDE DEF step
<1>4. PICK v \in [0..Len(ts) -> Seq(T)] : StepsTo(v, Len(ts), none, step)
  BY <1>0, <1>2, StepsExist
<1>5. v[0] = none
  BY <1>4 DEF StepsTo
<1>6. ASSUME NEW i \in 1..Len(ts)
      PROVE  v[i] = next(v[i - 1], i) /\ v[i - 1] \in Seq(T)
  <2>1. i - 1 \in 0..Len(ts)
    BY <1>0
  <2>2. v[i] = step[i][v[i - 1]]
    BY <1>4 DEF StepsTo
  <2> QED
    BY <1>3, <2>1, <2>2
<1>7. v = [i \in 0..Len(ts) |-> IF i = 0 THEN none ELSE next(v[i - 1], i)]
  <2>1. ASSUME NEW i \in 0..Len(ts)
        PROVE  v[i] = IF i = 0 THEN none ELSE next(v[i - 1], i)
    <3>1. i = 0 \/ i \in 1..Len(ts)
      BY <1>0
    <3> QED
      BY <1>5, <1>6, <3>1
  <2> QED
    BY <2>1
<1> DEFINE upto == CHOOSE w : w = [i \in 0..Len(ts) |-> IF i = 0 THEN none ELSE next(w[i - 1], i)]
<1>8. upto = [i \in 0..Len(ts) |-> IF i = 0 THEN none ELSE next(upto[i - 1], i)]
  BY <1>7, Zenon
<1>9. TextOf(ts) = upto[Len(ts)]
  BY Zenon DEF TextOf, none, next
<1> HIDE DEF upto
<1> DEFINE S == {i \in Nat : i <= Len(ts) => upto[i] = v[i]}
<1>10. Nat \subseteq S
  <2>1. 0 \in S
    BY <1>0, <1>5, <1>8
  <2>2. ASSUME NEW i \in Nat, i \in S
        PROVE  i + 1 \in S
    <3> SUFFICES ASSUME i + 1 <= Len(ts)
                 PROVE  upto[i + 1] = v[i + 1]
      OBVIOUS
    <3>1. i + 1 \in 0..Len(ts) /\ i + 1 # 0 /\ (i + 1) - 1 = i /\ upto[i] = v[i]
      BY <1>0, <2>2
    <3>2. upto[i + 1] = next(upto[i], i + 1)
      BY <1>8, <3>1
    <3>3. v[i + 1] = next(v[i], i + 1)
      BY <1>7, <3>1
    <3> QED
      BY <3>1, <3>2, <3>3
  <2> HIDE DEF S
  <2> QED
    BY <2>1, <2>2, SetInduction
<1>11. TextOf(ts) = v[Len(ts)]
  BY <1>0, <1>9, <1>10
<1> HIDE DEF S
<1>12. \A i \in 1..Len(ts) : v[i] = Join(v[i - 1], ts[i])
  BY <1>1, <1>6
<1> QED
  BY <1>5, <1>11, <1>12 DEF none

\* No pieces make no text.
LEMMA TextEmpty == TextOf(<<>>) = <<>>
<1> DEFINE ts == <<>>
<1>1. ts \in Seq(Seq({0})) /\ Len(ts) = 0
  OBVIOUS
<1> HIDE DEF ts
<1>2. PICK v : v[0] = <<>> /\ TextOf(ts) = v[Len(ts)]
  BY <1>1, TextSteps
<1>3. TextOf(ts) = <<>>
  BY <1>1, <1>2, Zenon
<1> QED
  BY <1>3 DEF ts

\* One more piece goes to the end of the text.
LEMMA TextAppend ==
  ASSUME NEW T, NEW ts \in Seq(Seq(T)), NEW t \in Seq(T)
  PROVE  TextOf(ts) \in Seq(T) /\ TextOf(Append(ts, t)) = Join(TextOf(ts), t)
<1> DEFINE us == Append(ts, t)
<1>1. /\ us \in Seq(Seq(T)) /\ Len(us) = Len(ts) + 1 /\ us[Len(ts) + 1] = t
      /\ \A i \in 1..Len(ts) : us[i] = ts[i]
  BY AppendProperties
<1>2. Len(ts) \in Nat
  OBVIOUS
<1> HIDE DEF us
<1>3. PICK v : /\ v \in [0..Len(ts) -> Seq(T)] /\ v[0] = <<>> /\ TextOf(ts) = v[Len(ts)]
               /\ \A i \in 1..Len(ts) : v[i] = Join(v[i - 1], ts[i])
  BY TextSteps
<1>4. PICK w : /\ w \in [0..Len(us) -> Seq(T)] /\ w[0] = <<>> /\ TextOf(us) = w[Len(us)]
               /\ \A i \in 1..Len(us) : w[i] = Join(w[i - 1], us[i])
  <2>1. us \in Seq(Seq(T))
    BY <1>1
  <2> QED
    BY <2>1, TextSteps
<1> DEFINE S == {i \in Nat : i <= Len(ts) => w[i] = v[i]}
<1>5. Nat \subseteq S
  <2>1. 0 \in S
    BY <1>3, <1>4
  <2>2. ASSUME NEW i \in Nat, i \in S
        PROVE  i + 1 \in S
    <3> SUFFICES ASSUME i + 1 <= Len(ts)
                 PROVE  w[i + 1] = v[i + 1]
      OBVIOUS
    <3>1. i + 1 \in 1..Len(ts) /\ i + 1 \in 1..Len(us) /\ (i + 1) - 1 = i /\ w[i] = v[i]
      BY <1>1, <1>2, <2>2
    <3>2. w[i + 1] = Join(w[i], us[i + 1])
      BY <1>4, <3>1
    <3>3. v[i + 1] = Join(v[i], ts[i + 1])
      BY <1>3, <3>1
    <3> QED
      BY <1>1, <3>1, <3>2, <3>3
  <2> HIDE DEF S
  <2> QED
    BY <2>1, <2>2, SetInduction
<1>6. w[Len(ts)] = v[Len(ts)]
  BY <1>2, <1>5
<1> HIDE DEF S
<1>7. w[Len(us)] = Join(w[Len(ts)], t)
  <2>1. Len(us) \in 1..Len(us) /\ Len(us) - 1 = Len(ts) /\ us[Len(us)] = t
    BY <1>1, <1>2
  <2> QED
    BY <1>4, <2>1
<1>8. TextOf(ts) \in Seq(T)
  <2>1. Len(ts) \in 0..Len(ts)
    BY <1>2
  <2> QED
    BY <1>3, <2>1
<1>9. TextOf(us) = Join(TextOf(ts), t)
  BY <1>3, <1>4, <1>6, <1>7
<1> QED
  BY <1>8, <1>9 DEF us

\* What a piece leaves is a text.
LEMMA PieceIs ==
  ASSUME NEW p \in PieceSet
  PROVE  /\ p.record \in WalRecords /\ p.record \in Records /\ Valid(p.record)
         /\ LineOf(p) = Serialize(p.record) /\ LineOf(p) \in Seq(Symbols)
         /\ p.length \in 1..Len(LineOf(p)) /\ p.length \in 0..Len(LineOf(p))
         /\ PieceText(p) \in Seq(Symbols) /\ Len(PieceText(p)) = p.length
<1>1. p.record \in Records /\ Valid(p.record) /\ p.length \in Nat \ {0} /\ p.length <= Len(LineOf(p))
  BY DEF PieceSet
<1>2. p.record \in WalRecords
  BY <1>1, WalFileAssumption
<1>3. LineOf(p) = Serialize(p.record)
  BY <1>1, LineIs DEF LineOf
<1>4. LineOf(p) \in Seq(Symbols) /\ Len(LineOf(p)) \in Nat
  BY <1>2, <1>3, SerializeIs
<1>5. p.length \in 1..Len(LineOf(p)) /\ p.length \in 0..Len(LineOf(p))
  BY <1>1, <1>4
<1>6. PieceText(p) \in Seq(Symbols) /\ Len(PieceText(p)) = p.length
  BY <1>4, <1>5, PrefixIs DEF PieceText
<1> QED
  BY <1>1, <1>2, <1>3, <1>4, <1>5, <1>6

\* The text of a file, with one more piece.
LEMMA LogAppend ==
  ASSUME NEW ps \in Seq(PieceSet), NEW p \in PieceSet
  PROVE  LogText(ps) \in Seq(Symbols) /\ LogText(Append(ps, p)) = Join(LogText(ps), PieceText(p))
<1> DEFINE ts == [i \in 1..Len(ps) |-> PieceText(ps[i])]
           qs == Append(ps, p)
           us == [i \in 1..Len(qs) |-> PieceText(qs[i])]
           t  == PieceText(p)
           vs == Append(ts, t)
<1>0. Len(ps) \in Nat
  OBVIOUS
<1>1. \A i \in 1..Len(ps) : PieceText(ps[i]) \in Seq(Symbols)
  BY SymbolOf, PieceIs
<1>2. ts \in Seq(Seq(Symbols)) /\ Len(ts) = Len(ps) /\ \A i \in 1..Len(ps) : ts[i] = PieceText(ps[i])
  BY <1>0, <1>1
<1>3. Len(qs) = Len(ps) + 1 /\ qs[Len(ps) + 1] = p /\ \A i \in 1..Len(ps) : qs[i] = ps[i]
  BY AppendProperties
<1>4. t \in Seq(Symbols)
  BY PieceIs
<1> HIDE DEF ts, qs, t
<1>5. /\ vs \in Seq(Seq(Symbols)) /\ Len(vs) = Len(ps) + 1
      /\ \A i \in 1..Len(ps) : vs[i] = ts[i]
      /\ vs[Len(ps) + 1] = t
  BY <1>2, <1>4, AppendProperties
<1>8. TextOf(ts) \in Seq(Symbols) /\ TextOf(vs) = Join(TextOf(ts), t)
  BY <1>2, <1>4, TextAppend
<1> HIDE DEF vs
<1>6. \A i \in 1..(Len(ps) + 1) : us[i] = vs[i]
  <2> SUFFICES ASSUME NEW i \in 1..(Len(ps) + 1)
               PROVE  PieceText(qs[i]) = vs[i]
    BY <1>3
  <2>1. i \in 1..Len(ps) \/ i = Len(ps) + 1
    BY <1>0
  <2> QED
    BY <1>2, <1>3, <1>5, <2>1 DEF t
<1>7. us = vs
  <2>1. us = [i \in 1..(Len(ps) + 1) |-> us[i]]
    BY <1>3
  <2>2. vs = [i \in 1..(Len(ps) + 1) |-> vs[i]]
    BY <1>5
  <2> QED
    BY <1>6, <2>1, <2>2
<1>9. TextOf(us) = Join(TextOf(ts), t)
  BY <1>7, <1>8, Zenon
<1> QED
  BY <1>8, <1>9, Zenon DEF LogText, ts, qs, us, t

\* A file without pieces is empty.
LEMMA LogEmpty == LogText(<<>>) = <<>>
<1>1. [i \in 1..Len(<<>>) |-> PieceText(<<>>[i])] = <<>>
  OBVIOUS
<1> QED
  BY <1>1, TextEmpty, Zenon DEF LogText

\* What the four kinds of pieces leave in the file.
LEMMA PieceKinds ==
  ASSUME NEW p \in PieceSet
  PROVE  LET body == Body(p.record) IN
         /\ body \in Seq(Symbols) /\ Without(body, "\n")
         /\ Whole(p) => PieceText(p) = Append(body, "\n") /\ p.length > 2
         /\ ~Whole(p) => /\ p.length \in 1..Len(body) /\ p.length \in 0..Len(body)
                         /\ PieceText(p) = Prefix(body, p.length)
                         /\ Without(PieceText(p), "\n")
         /\ p.length = 1 => ~Whole(p) /\ PieceText(p) = <<"A">>
         /\ p.length > 1 => /\ Len(PieceText(p)) > 1
                            /\ PieceText(p)[1] = "A" /\ PieceText(p)[2] = "KVWAL1"
<1> DEFINE body == Body(p.record)
           text == PieceText(p)
           end  == "\n"
           line == LineOf(p)
<1>1. /\ p.record \in WalRecords /\ line = Serialize(p.record) /\ p.length \in 1..Len(line)
      /\ text \in Seq(Symbols) /\ Len(text) = p.length
  BY PieceIs
<1>2. body \in Seq(Symbols) /\ Without(body, end) /\ Len(body) >= 2
  BY <1>1, BodySplits
<1>3. line = Append(body, end)
  BY <1>1, LineBody
<1>4. end \in Symbols
  BY DEF Symbols
<1>5. body[1] = "A" /\ body[2] = "KVWAL1"
  BY <1>1, BodyBegins
<1>6. text = Prefix(line, p.length)
  BY DEF PieceText
<1>7. Whole(p) <=> p.length = Len(line)
  BY DEF Whole
<1> DEFINE first == "A"
           format == "KVWAL1"
<1> HIDE DEF body, text, end, line, first, format
<1>8. Len(line) = Len(body) + 1 /\ line \in Seq(Symbols) /\ \A i \in 1..Len(body) : line[i] = body[i]
  BY <1>2, <1>3, <1>4, AppendProperties
<1>9. Len(body) \in Nat
  BY <1>2
<1>10. ASSUME Whole(p)
       PROVE  text = Append(body, end) /\ p.length > 2
  <2>1. text = line
    BY <1>6, <1>7, <1>8, <1>10, PrefixWhole
  <2> QED
    BY <1>2, <1>3, <1>7, <1>8, <1>9, <1>10, <2>1
<1>11. ASSUME ~Whole(p)
       PROVE  /\ p.length \in 1..Len(body) /\ p.length \in 0..Len(body)
              /\ text = Prefix(body, p.length) /\ Without(text, end)
  <2>1. p.length \in 1..Len(body) /\ p.length \in 0..Len(body)
    BY <1>1, <1>7, <1>8, <1>9, <1>11
  <2>2. text = Prefix(body, p.length)
    BY <1>2, <1>3, <1>4, <1>6, <2>1, PrefixAppend
  <2>3. Without(text, end)
    BY <1>2, <2>1, <2>2, PrefixWithout
  <2> QED
    BY <2>1, <2>2, <2>3
<1>12. \A i \in 1..p.length : text[i] = line[i]
  <2>1. p.length \in 0..Len(line)
    BY <1>1
  <2> QED
    BY <1>6, <1>8, <2>1, PrefixIs
<1>13. text[1] = first
  <2>1. 1 \in 1..p.length /\ 1 \in 1..Len(body)
    BY <1>1, <1>2, <1>8, <1>9
  <2>2. text[1] = body[1]
    BY <1>8, <1>12, <2>1
  <2> QED
    BY <1>5, <2>2 DEF first
<1>14. ASSUME p.length = 1
       PROVE  ~Whole(p) /\ text = <<first>>
  <2>1. ~Whole(p)
    BY <1>2, <1>7, <1>8, <1>9, <1>14
  <2>2. text = <<first>>
    BY <1>1, <1>13, <1>14
  <2> QED
    BY <2>1, <2>2
<1>15. ASSUME p.length > 1
       PROVE  Len(text) > 1 /\ text[1] = first /\ text[2] = format
  <2>1. 2 \in 1..p.length /\ 2 \in 1..Len(body)
    BY <1>1, <1>2, <1>8, <1>9, <1>15
  <2>2. text[2] = body[2]
    BY <1>8, <1>12, <2>1
  <2>3. text[2] = format
    BY <1>5, <2>2 DEF format
  <2> QED
    BY <1>1, <1>13, <1>15, <2>3
<1> QED
  BY <1>2, <1>10, <1>11, <1>14, <1>15, Zenon DEF body, text, end, first, format

-----------------------------------------------------------------------------
(* The lines of a text that grows *)

\* The lines of a text, the last one perhaps empty.
LinesIn(s) == Split(s, "\n")

\* Text without a separator goes to the last part, then a separator ends it.
LEMMA LogEnds ==
  ASSUME NEW s \in Seq(Symbols), NEW t \in Seq(Symbols), NEW c \in Symbols, Without(t, c)
  PROVE  /\ Len(Split(Join(s, Append(t, c)), c)) = Len(Split(s, c)) + 1
         /\ \A k \in 1..(Len(Split(s, c)) - 1) : Split(Join(s, Append(t, c)), c)[k] = Split(s, c)[k]
         /\ Split(Join(s, Append(t, c)), c)[Len(Split(s, c))] = Join(LastPart(Split(s, c)), t)
         /\ LastPart(Split(Join(s, Append(t, c)), c)) = <<>>
<1> DEFINE ls == Split(s, c)
           u  == Join(s, t)
           ms == Split(u, c)
           ns == Split(Append(u, c), c)
<1>1. Join(s, Append(t, c)) = Append(u, c) /\ u \in Seq(Symbols)
  BY JoinAppend, JoinIs
<1>2. /\ Len(ms) = Len(ls)
      /\ \A k \in 1..(Len(ls) - 1) : ms[k] = ls[k]
      /\ LastPart(ms) = Join(LastPart(ls), t)
  BY SplitLast
<1>3. /\ Len(ns) = Len(ms) + 1
      /\ \A k \in 1..Len(ms) : ns[k] = ms[k]
      /\ ns[Len(ms) + 1] = <<>>
  BY <1>1, SplitSeparator
<1>4. ls \in Parts(Symbols)
  BY SplitIs
<1> HIDE DEF ls, ms, ns, u
<1>5. Len(ls) \in Nat \ {0}
  BY <1>4 DEF Parts
<1>6. /\ Len(ns) = Len(ls) + 1
      /\ \A k \in 1..(Len(ls) - 1) : ns[k] = ls[k]
      /\ ns[Len(ls)] = Join(LastPart(ls), t)
      /\ LastPart(ns) = <<>>
  <2>1. Len(ns) = Len(ls) + 1 /\ ns[Len(ls)] = ms[Len(ls)]
    BY <1>2, <1>3, <1>5
  <2>2. \A k \in 1..(Len(ls) - 1) : ns[k] = ls[k]
    BY <1>2, <1>3, <1>5
  <2>3. ms[Len(ls)] = Join(LastPart(ls), t)
    BY <1>2 DEF LastPart
  <2>4. LastPart(ns) = <<>>
    BY <1>2, <1>3, <2>1 DEF LastPart
  <2> QED
    BY <2>1, <2>2, <2>3, <2>4
<1> QED
  BY <1>1, <1>6, Zenon DEF ls, ns

\* Text without a separator goes to the last part.
LEMMA LogGoesOn ==
  ASSUME NEW s \in Seq(Symbols), NEW t \in Seq(Symbols), NEW c, Without(t, c)
  PROVE  /\ Len(Split(Join(s, t), c)) = Len(Split(s, c))
         /\ \A k \in 1..(Len(Split(s, c)) - 1) : Split(Join(s, t), c)[k] = Split(s, c)[k]
         /\ LastPart(Split(Join(s, t), c)) = Join(LastPart(Split(s, c)), t)
BY SplitLast

\* Symbol x is in a part, behind its second place.
Behind(ls, x) == \E k \in 1..Len(ls) : \E i \in 1..Len(ls[k]) : ls[k][i] = x /\ i > 2

\* It stays there, whatever is added.
LEMMA BehindGrows ==
  ASSUME NEW s \in Seq(Symbols), NEW t \in Seq(Symbols), NEW c, NEW x, Behind(Split(s, c), x)
  PROVE  Behind(Split(Join(s, t), c), x)
<1> DEFINE ls == Split(s, c)
           ms == Split(Join(s, t), c)
<1>1. Grows(ls, ms)
  BY SplitGrows
<1>2. ls \in Parts(Symbols) /\ ms \in Parts(Symbols)
  BY SplitIs, JoinIs
<1> HIDE DEF ls, ms
<1>3. PICK k \in 1..Len(ls) : \E i \in 1..Len(ls[k]) : ls[k][i] = x /\ i > 2
  BY Zenon DEF Behind, ls
<1>4. PICK i \in 1..Len(ls[k]) : ls[k][i] = x /\ i > 2
  BY <1>3
<1>5. ls \in Seq(Seq(Symbols)) /\ ms \in Seq(Seq(Symbols))
  BY <1>2 DEF Parts
<1>6. Len(ls) <= Len(ms) /\ Begins(ls[k], ms[k])
  BY <1>1 DEF Grows
<1>7. k \in 1..Len(ms)
  BY <1>5, <1>6
<1>8. ls[k] \in Seq(Symbols) /\ ms[k] \in Seq(Symbols)
  BY <1>5, <1>7, SymbolOf
<1>9. i \in 1..Len(ms[k]) /\ ms[k][i] = x
  BY <1>4, <1>6, <1>8 DEF Begins
<1>10. Behind(ms, x)
  BY <1>4, <1>7, <1>9 DEF Behind
<1> QED
  BY <1>10 DEF ms

\* It is there, if a text with it in the second place comes after a part that is not empty.
LEMMA BehindComes ==
  ASSUME NEW s \in Seq(Symbols), NEW t \in Seq(Symbols), NEW c, NEW x, Len(t) > 1,
         t[1] # c, t[2] = x, x # c, LastPart(Split(s, c)) # <<>>
  PROVE  Behind(Split(Join(s, t), c), x)
<1> DEFINE a  == Prefix(t, 2)
           u  == Join(s, a)
           ls == Split(s, c)
           ms == Split(u, c)
<1>1. 2 \in 0..Len(t)
  OBVIOUS
<1>2. PICK rest \in Seq(Symbols) : t = Join(a, rest)
  BY <1>1, PrefixRest
<1>3. a \in Seq(Symbols) /\ Len(a) = 2 /\ \A i \in 1..2 : a[i] = t[i]
  BY <1>1, PrefixIs
<1> HIDE DEF a
<1>4. Without(a, c)
  <2> SUFFICES ASSUME NEW i \in 1..Len(a)
               PROVE  a[i] # c
    BY DEF Without
  <2>1. i = 1 \/ i = 2
    BY <1>3
  <2> QED
    BY <1>3, <2>1
<1>5. u \in Seq(Symbols) /\ Join(s, t) = Join(u, rest)
  BY <1>2, <1>3, JoinIs, JoinTwice
<1>6. Len(ms) = Len(ls) /\ LastPart(ms) = Join(LastPart(ls), a)
  BY <1>3, <1>4, LogGoesOn
<1>7. ls \in Parts(Symbols) /\ LastPart(ls) # <<>>
  BY SplitIs
<1> HIDE DEF u, ls, ms
<1>8. ls \in Seq(Seq(Symbols)) /\ Len(ls) \in 1..Len(ls)
  BY <1>7 DEF Parts
<1> DEFINE l == LastPart(ls)
<1>9. l \in Seq(Symbols)
  BY <1>8, SymbolOf DEF LastPart
<1>10. l # <<>>
  BY <1>7
<1> HIDE DEF l
<1>11. Len(l) \in Nat /\ Len(l) > 0
  BY <1>9, <1>10
<1>12. Join(l, a)[Len(l) + 2] = x /\ Len(Join(l, a)) = Len(l) + 2
  <2>1. 2 \in 1..Len(a)
    BY <1>3
  <2>2. Join(l, a)[Len(l) + 2] = a[2]
    <3>1. a \in Seq(Symbols)
      BY <1>3
    <3>2. \A i \in 1..Len(a) : Join(l, a)[Len(l) + i] = a[i]
      BY <1>9, <3>1, JoinAt
    <3> QED
      BY <2>1, <3>2, Zenon
  <2>3. Len(Join(l, a)) = Len(l) + Len(a)
    BY <1>3, <1>9, JoinIs
  <2> QED
    BY <1>3, <2>2, <2>3
<1>13. ms[Len(ms)] = Join(l, a) /\ Len(ms) \in 1..Len(ms)
  BY <1>6, <1>8 DEF LastPart, l
<1>14. Behind(ms, x)
  <2>1. Len(l) + 2 \in 1..Len(ms[Len(ms)]) /\ Len(l) + 2 > 2
    BY <1>11, <1>12, <1>13
  <2> QED
    BY <1>12, <1>13, <2>1 DEF Behind
<1>15. Behind(Split(Join(u, rest), c), x)
  BY <1>5, <1>14, BehindGrows DEF ms
<1> QED
  BY <1>5, <1>15

-----------------------------------------------------------------------------
(* What a file looks like, piece by piece *)

\* The first n lines are those of the first n pieces.
Bodies(ps, ls, n) == \A i \in 1..n : ls[i] = Body(ps[i].record)

\* What a file of pieces ps looks like to the reader, split into lines ls.  Every line is
\* whole, and the last is empty.
AreWhole(ps, ls) ==
  /\ \A i \in 1..Len(ps) : Whole(ps[i])
  /\ Len(ls) = Len(ps) + 1 /\ Bodies(ps, ls, Len(ps)) /\ LastPart(ls) = <<>>

\* Text s is a beginning of the line of piece p, with first symbols of lines after it.
IsCut(s, p) == \E t \in Seq({"A"}) : s = Join(Prefix(Body(p.record), p.length), t)

\* Line b is the first one that is cut, and nothing but first symbols of lines follows.
AreCut(ps, ls, b) ==
  /\ b \in 1..Len(ps) /\ Len(ls) = b
  /\ \A i \in 1..(b - 1) : Whole(ps[i])
  /\ ~Whole(ps[b])
  /\ \A i \in (b + 1)..Len(ps) : ps[i].length = 1
  /\ Bodies(ps, ls, b - 1) /\ IsCut(LastPart(ls), ps[b])

\* The beginning of a line follows a line that is cut.
AreSpoilt(ps, ls) ==
  (\E i \in 1..Len(ps) : ~Whole(ps[i])) /\ Behind(ls, "KVWAL1")

\* These are all the cases.
Looks(ps) ==
  LET ls == LinesIn(LogText(ps)) IN
  AreWhole(ps, ls) \/ (\E b \in 1..Len(ps) : AreCut(ps, ls, b)) \/ AreSpoilt(ps, ls)

\* The lines of a text of the log are texts of the log, and there is a last one.
LEMMA LinesAre ==
  ASSUME NEW s \in Seq(Symbols)
  PROVE  /\ LinesIn(s) \in Seq(Seq(Symbols)) /\ Len(LinesIn(s)) \in 1..Len(LinesIn(s))
         /\ LastPart(LinesIn(s)) \in Seq(Symbols)
<1> DEFINE ls == LinesIn(s)
<1>1. ls \in Parts(Symbols)
  BY SplitIs DEF LinesIn
<1> HIDE DEF ls
<1>2. ls \in Seq(Seq(Symbols)) /\ Len(ls) \in 1..Len(ls)
  BY <1>1 DEF Parts
<1>3. LastPart(ls) \in Seq(Symbols)
  BY <1>2, SymbolOf DEF LastPart
<1> QED
  BY <1>2, <1>3 DEF ls

\* A text of the log, then a whole line.
LEMMA WholeComes ==
  ASSUME NEW s \in Seq(Symbols), NEW p \in PieceSet, Whole(p)
  PROVE  LET ls == LinesIn(s)
             ms == LinesIn(Join(s, PieceText(p))) IN
         /\ Len(ms) = Len(ls) + 1
         /\ \A k \in 1..(Len(ls) - 1) : ms[k] = ls[k]
         /\ ms[Len(ls)] = Join(LastPart(ls), Body(p.record))
         /\ LastPart(ms) = <<>>
<1> DEFINE end  == "\n"
           body == Body(p.record)
<1>1. body \in Seq(Symbols) /\ Without(body, end) /\ PieceText(p) = Append(body, end)
  BY PieceKinds
<1>2. end \in Symbols
  BY DEF Symbols
<1>3. \A t : LinesIn(t) = Split(t, end)
  BY DEF LinesIn
<1> HIDE DEF end, body
<1>4. /\ Len(Split(Join(s, Append(body, end)), end)) = Len(Split(s, end)) + 1
      /\ \A k \in 1..(Len(Split(s, end)) - 1) : Split(Join(s, Append(body, end)), end)[k] = Split(s, end)[k]
      /\ Split(Join(s, Append(body, end)), end)[Len(Split(s, end))] = Join(LastPart(Split(s, end)), body)
      /\ LastPart(Split(Join(s, Append(body, end)), end)) = <<>>
  BY <1>1, <1>2, LogEnds
<1> QED
  BY <1>1, <1>3, <1>4, Zenon DEF body

\* A text of the log, then a part of a line.
LEMMA CutComes ==
  ASSUME NEW s \in Seq(Symbols), NEW p \in PieceSet, ~Whole(p)
  PROVE  LET ls == LinesIn(s)
             ms == LinesIn(Join(s, PieceText(p))) IN
         /\ Len(ms) = Len(ls)
         /\ \A k \in 1..(Len(ls) - 1) : ms[k] = ls[k]
         /\ LastPart(ms) = Join(LastPart(ls), PieceText(p))
<1> DEFINE end  == "\n"
           text == PieceText(p)
<1>1. text \in Seq(Symbols) /\ Without(text, end)
  BY PieceIs, PieceKinds
<1>2. \A t : LinesIn(t) = Split(t, end)
  BY DEF LinesIn
<1> HIDE DEF end, text
<1>3. /\ Len(Split(Join(s, text), end)) = Len(Split(s, end))
      /\ \A k \in 1..(Len(Split(s, end)) - 1) : Split(Join(s, text), end)[k] = Split(s, end)[k]
      /\ LastPart(Split(Join(s, text), end)) = Join(LastPart(Split(s, end)), text)
  BY <1>1, LogGoesOn
<1> QED
  BY <1>2, <1>3, Zenon DEF text

\* The beginning of a line after a line that is cut.
LEMMA SpoiltComes ==
  ASSUME NEW s \in Seq(Symbols), NEW p \in PieceSet, p.length > 1, LastPart(LinesIn(s)) # <<>>
  PROVE  Behind(LinesIn(Join(s, PieceText(p))), "KVWAL1")
<1> DEFINE end    == "\n"
           format == "KVWAL1"
           first  == "A"
           text   == PieceText(p)
<1>1. text \in Seq(Symbols) /\ Len(text) > 1 /\ text[1] = first /\ text[2] = format
  BY PieceIs, PieceKinds
<1>2. format # end /\ first # end
  OBVIOUS
<1>3. \A t : LinesIn(t) = Split(t, end)
  BY DEF LinesIn
<1> HIDE DEF end, format, first, text
<1>4. Behind(Split(Join(s, text), end), format)
  BY <1>1, <1>2, <1>3, BehindComes
<1> QED
  BY <1>3, <1>4, Zenon DEF text, format

\* What is spoilt stays so.
LEMMA SpoiltStays ==
  ASSUME NEW s \in Seq(Symbols), NEW t \in Seq(Symbols), Behind(LinesIn(s), "KVWAL1")
  PROVE  Behind(LinesIn(Join(s, t)), "KVWAL1")
<1> DEFINE end    == "\n"
           format == "KVWAL1"
<1>1. \A u : LinesIn(u) = Split(u, end)
  BY DEF LinesIn
<1>2. Behind(LinesIn(s), format)
  OBVIOUS
<1> HIDE DEF end, format
<1>3. Behind(Split(s, end), format)
  BY <1>1, <1>2
<1>4. Behind(Split(Join(s, t), end), format)
  BY <1>3, BehindGrows
<1> QED
  BY <1>1, <1>4, Zenon DEF format

\* A text after an empty one.
LEMMA EmptyJoin ==
  ASSUME NEW s \in Seq(Symbols)
  PROVE  Join(<<>>, s) = s
BY DEF Join

\* One more first symbol.
LEMMA MoreFirsts ==
  ASSUME NEW t \in Seq({"A"})
  PROVE  t \in Seq(Symbols) /\ Without(t, " ") /\ Join(t, <<"A">>) \in Seq({"A"})
<1>1. \A i \in 1..Len(t) : t[i] = "A"
  OBVIOUS
<1>2. "A" \in Symbols /\ "A" # " "
  BY DEF Symbols
<1> DEFINE first == "A"
<1>3. t \in Seq({first})
  OBVIOUS
<1> HIDE DEF first
<1>4. <<first>> \in Seq({first})
  OBVIOUS
<1>5. Join(t, <<first>>) \in Seq({first})
  BY <1>3, <1>4, JoinIs
<1>6. t \in Seq(Symbols)
  BY <1>2, <1>3, MoreSymbols DEF first
<1> QED
  BY <1>1, <1>2, <1>5, <1>6, Zenon DEF first, Without

\* What is left of a line that is cut is a text of the log.
LEMMA CutIs ==
  ASSUME NEW p \in PieceSet, ~Whole(p)
  PROVE  /\ Prefix(Body(p.record), p.length) \in Seq(Symbols)
         /\ Len(Prefix(Body(p.record), p.length)) = p.length /\ p.length \in Nat \ {0}
<1>1. Body(p.record) \in Seq(Symbols) /\ p.length \in 0..Len(Body(p.record))
  BY PieceKinds
<1> QED
  BY <1>1, PrefixIs DEF PieceSet

\* Pieces qs are ps and one more, p.
Adds(ps, p, qs) ==
  /\ ps \in Seq(PieceSet) /\ p \in PieceSet /\ qs \in Seq(PieceSet)
  /\ Len(ps) \in Nat /\ Len(qs) = Len(ps) + 1 /\ qs[Len(ps) + 1] = p
  /\ \A i \in 1..Len(ps) : qs[i] = ps[i]
  /\ LogText(ps) \in Seq(Symbols)
  /\ LogText(qs) = Join(LogText(ps), PieceText(p))

\* One more piece.
LEMMA PieceAdded ==
  ASSUME NEW ps \in Seq(PieceSet), NEW p \in PieceSet
  PROVE  Adds(ps, p, Append(ps, p))
<1> DEFINE qs == Append(ps, p)
<1>1. /\ qs \in Seq(PieceSet) /\ Len(qs) = Len(ps) + 1 /\ qs[Len(ps) + 1] = p
      /\ \A i \in 1..Len(ps) : qs[i] = ps[i]
  BY AppendProperties
<1>2. LogText(ps) \in Seq(Symbols) /\ LogText(qs) = Join(LogText(ps), PieceText(p))
  BY LogAppend
<1>3. Len(ps) \in Nat
  OBVIOUS
<1> QED
  BY <1>1, <1>2, <1>3, Zenon DEF Adds

\* A whole line after whole lines.
LEMMA WholeAfterWhole ==
  ASSUME NEW ps, NEW p, NEW qs, Adds(ps, p, qs), Whole(p),
         AreWhole(ps, LinesIn(LogText(ps)))
  PROVE  AreWhole(qs, LinesIn(LogText(qs)))
<1> DEFINE ls == LinesIn(LogText(ps))
           ms == LinesIn(LogText(qs))
           n  == Len(ps)
<1>1. /\ p \in PieceSet /\ n \in Nat /\ Len(qs) = n + 1 /\ qs[n + 1] = p
      /\ \A i \in 1..n : qs[i] = ps[i]
  BY DEF Adds
<1>2. /\ Len(ms) = Len(ls) + 1
      /\ \A k \in 1..(Len(ls) - 1) : ms[k] = ls[k]
      /\ ms[Len(ls)] = Join(LastPart(ls), Body(p.record))
      /\ LastPart(ms) = <<>>
  BY WholeComes DEF Adds
<1>3. AreWhole(ps, ls)
  OBVIOUS
<1>4. Body(p.record) \in Seq(Symbols)
  BY <1>1, PieceKinds
<1> DEFINE body == Body(p.record)
<1> HIDE DEF ls, ms, n, body
<1>5. /\ \A i \in 1..n : Whole(ps[i])
      /\ Len(ls) = n + 1 /\ LastPart(ls) = <<>>
      /\ \A i \in 1..n : ls[i] = Body(ps[i].record)
  BY <1>3 DEF AreWhole, Bodies, n
<1>6. ms[n + 1] = body
  <2>1. Join(LastPart(ls), body) = body
    BY <1>4, <1>5, EmptyJoin DEF body
  <2> QED
    BY <1>2, <1>5, <2>1 DEF body
<1>7. ASSUME NEW i \in 1..(n + 1)
      PROVE  Whole(qs[i]) /\ ms[i] = Body(qs[i].record)
  <2>1. CASE i \in 1..n
    <3>1. i \in 1..(Len(ls) - 1)
      BY <1>1, <1>5, <2>1
    <3> QED
      BY <1>1, <1>2, <1>5, <2>1, <3>1
  <2>2. CASE i = n + 1
    BY <1>1, <1>6, <2>2 DEF body
  <2> QED
    BY <1>1, <2>1, <2>2
<1> QED
  BY <1>1, <1>2, <1>5, <1>7 DEF AreWhole, Bodies, ms

\* A cut line after whole lines.
LEMMA CutAfterWhole ==
  ASSUME NEW ps, NEW p, NEW qs, Adds(ps, p, qs), ~Whole(p),
         AreWhole(ps, LinesIn(LogText(ps)))
  PROVE  AreCut(qs, LinesIn(LogText(qs)), Len(qs))
<1> DEFINE ls == LinesIn(LogText(ps))
           ms == LinesIn(LogText(qs))
           n  == Len(ps)
           text == PieceText(p)
<1>1. /\ p \in PieceSet /\ n \in Nat /\ Len(qs) = n + 1 /\ qs[n + 1] = p
      /\ \A i \in 1..n : qs[i] = ps[i]
  BY DEF Adds
<1>2. /\ Len(ms) = Len(ls)
      /\ \A k \in 1..(Len(ls) - 1) : ms[k] = ls[k]
      /\ LastPart(ms) = Join(LastPart(ls), text)
  BY CutComes DEF Adds
<1>3. AreWhole(ps, ls)
  OBVIOUS
<1>4. text \in Seq(Symbols) /\ text = Prefix(Body(p.record), p.length)
  BY <1>1, PieceIs, PieceKinds
<1> HIDE DEF ls, ms, n, text
<1>5. /\ \A i \in 1..n : Whole(ps[i])
      /\ Len(ls) = n + 1 /\ LastPart(ls) = <<>>
      /\ \A i \in 1..n : ls[i] = Body(ps[i].record)
  BY <1>3 DEF AreWhole, Bodies, n
<1>6. IsCut(LastPart(ms), p)
  <2>1. Join(LastPart(ls), text) = text /\ Join(text, <<>>) = text
    BY <1>4, <1>5, EmptyJoin, JoinEmpty
  <2>2. LastPart(ms) = Join(Prefix(Body(p.record), p.length), <<>>)
    BY <1>2, <1>4, <2>1
  <2>3. <<>> \in Seq({"A"})
    OBVIOUS
  <2> QED
    BY <2>2, <2>3, Zenon DEF IsCut
<1>7. ASSUME NEW i \in 1..((n + 1) - 1)
      PROVE  Whole(qs[i]) /\ ms[i] = Body(qs[i].record)
  <2>1. i \in 1..n /\ i \in 1..(Len(ls) - 1)
    BY <1>1, <1>5
  <2> QED
    BY <1>1, <1>2, <1>5, <2>1
<1>8. AreCut(qs, ms, n + 1)
  <2>1. n + 1 \in 1..Len(qs) /\ Len(ms) = n + 1 /\ ~Whole(qs[n + 1])
    BY <1>1, <1>2, <1>5
  <2>2. \A i \in ((n + 1) + 1)..Len(qs) : qs[i].length = 1
    BY <1>1
  <2>3. Bodies(qs, ms, (n + 1) - 1)
    BY <1>7 DEF Bodies
  <2> QED
    BY <1>1, <1>6, <1>7, <2>1, <2>2, <2>3 DEF AreCut
<1> QED
  BY <1>1, <1>8, Zenon DEF ms

\* A first symbol after a cut line.
LEMMA FirstAfterCut ==
  ASSUME NEW ps, NEW p, NEW qs, Adds(ps, p, qs), p.length = 1,
         NEW b, AreCut(ps, LinesIn(LogText(ps)), b)
  PROVE  AreCut(qs, LinesIn(LogText(qs)), b)
<1> DEFINE ls == LinesIn(LogText(ps))
           ms == LinesIn(LogText(qs))
           n  == Len(ps)
           text == PieceText(p)
           firsts == Seq({"A"})
<1>1. /\ p \in PieceSet /\ n \in Nat /\ Len(qs) = n + 1 /\ qs[n + 1] = p
      /\ \A i \in 1..n : qs[i] = ps[i] /\ ps[i] \in PieceSet
  BY SymbolOf DEF Adds
<1>2. ~Whole(p) /\ text = <<"A">>
  BY <1>1, PieceKinds
<1>3. /\ Len(ms) = Len(ls)
      /\ \A k \in 1..(Len(ls) - 1) : ms[k] = ls[k]
      /\ LastPart(ms) = Join(LastPart(ls), text)
  BY <1>2, CutComes DEF Adds
<1>4. AreCut(ps, ls, b)
  OBVIOUS
<1>5. \A t \in firsts : t \in Seq(Symbols) /\ Join(t, text) \in firsts
  BY <1>2, MoreFirsts, Zenon
<1>6. text \in Seq(Symbols)
  BY <1>1, PieceIs
<1> HIDE DEF ls, ms, n, text, firsts
<1>7. /\ b \in 1..n /\ Len(ls) = b
      /\ \A i \in 1..(b - 1) : Whole(ps[i])
      /\ ~Whole(ps[b])
      /\ \A i \in (b + 1)..n : ps[i].length = 1
      /\ \A i \in 1..(b - 1) : ls[i] = Body(ps[i].record)
      /\ IsCut(LastPart(ls), ps[b])
  BY <1>4 DEF AreCut, Bodies, n
<1>8. IsCut(LastPart(ms), ps[b])
  <2>1. PICK t \in firsts : LastPart(ls) = Join(Prefix(Body(ps[b].record), ps[b].length), t)
    BY <1>7, Zenon DEF IsCut, firsts
  <2>2. Prefix(Body(ps[b].record), ps[b].length) \in Seq(Symbols)
    BY <1>1, <1>7, CutIs
  <2>3. t \in Seq(Symbols) /\ Join(t, text) \in firsts
    BY <1>5
  <2>4. LastPart(ms) = Join(Prefix(Body(ps[b].record), ps[b].length), Join(t, text))
    BY <1>3, <1>6, <2>1, <2>2, <2>3, JoinTwice
  <2> QED
    BY <2>3, <2>4, Zenon DEF IsCut, firsts
<1>9. ASSUME NEW i \in 1..(b - 1)
      PROVE  Whole(qs[i]) /\ ms[i] = Body(qs[i].record)
  <2>1. i \in 1..n /\ i \in 1..(Len(ls) - 1)
    BY <1>1, <1>7
  <2> QED
    BY <1>1, <1>3, <1>7, <2>1
<1>10. AreCut(qs, ms, b)
  <2>1. b \in 1..Len(qs) /\ Len(ms) = b /\ qs[b] = ps[b]
    BY <1>1, <1>3, <1>7
  <2>2. ASSUME NEW i \in (b + 1)..Len(qs)
        PROVE  qs[i].length = 1
    <3>1. (i \in (b + 1)..n /\ i \in 1..n) \/ i = n + 1
      BY <1>1, <1>7
    <3> QED
      BY <1>1, <1>7, <3>1
  <2>3. Bodies(qs, ms, b - 1)
    BY <1>9 DEF Bodies
  <2> QED
    BY <1>7, <1>8, <1>9, <2>1, <2>2, <2>3 DEF AreCut
<1> QED
  BY <1>10 DEF ms

\* The empty text has no symbols.
LEMMA EmptyLen == Len(<<>>) = 0
OBVIOUS

\* The beginning of a line after a cut line.
LEMMA BeginningAfterCut ==
  ASSUME NEW ps, NEW p, NEW qs, Adds(ps, p, qs), p.length > 1,
         NEW b, AreCut(ps, LinesIn(LogText(ps)), b)
  PROVE  AreSpoilt(qs, LinesIn(LogText(qs)))
<1> DEFINE ls == LinesIn(LogText(ps))
           n  == Len(ps)
           l  == LastPart(ls)
<1>1. /\ p \in PieceSet /\ n \in Nat /\ Len(qs) = n + 1
      /\ \A i \in 1..n : qs[i] = ps[i] /\ ps[i] \in PieceSet
      /\ LogText(ps) \in Seq(Symbols) /\ LogText(qs) = Join(LogText(ps), PieceText(p))
  BY SymbolOf DEF Adds
<1>2. b \in 1..n /\ ~Whole(ps[b]) /\ IsCut(l, ps[b])
  BY DEF AreCut
<1>3. l # <<>>
  <2>1. PICK t \in Seq({"A"}) : l = Join(Prefix(Body(ps[b].record), ps[b].length), t)
    BY <1>2 DEF IsCut
  <2>2. t \in Seq(Symbols)
    BY MoreFirsts
  <2> HIDE DEF l
  <2>3. /\ Prefix(Body(ps[b].record), ps[b].length) \in Seq(Symbols)
        /\ Len(Prefix(Body(ps[b].record), ps[b].length)) = ps[b].length /\ ps[b].length \in Nat \ {0}
    BY <1>1, <1>2, CutIs
  <2> DEFINE u == Prefix(Body(ps[b].record), ps[b].length)
  <2>6. u \in Seq(Symbols) /\ l = Join(u, t) /\ Len(u) = ps[b].length
    BY <2>1, <2>3
  <2> HIDE DEF u
  <2>7. Len(Join(u, t)) = Len(u) + Len(t)
    BY <2>2, <2>6, JoinIs
  <2>4. Len(l) = ps[b].length + Len(t) /\ Len(t) \in Nat
    BY <2>2, <2>6, <2>7
  <2>5. Len(l) # 0
    BY <2>3, <2>4
  <2> QED
    BY <2>5, EmptyLen
<1>4. Behind(LinesIn(LogText(qs)), "KVWAL1")
  BY <1>1, <1>3, SpoiltComes, Zenon
<1>5. b \in 1..Len(qs) /\ ~Whole(qs[b])
  <2>1. b \in 1..Len(qs) /\ qs[b] = ps[b]
    BY <1>1, <1>2
  <2> QED
    BY <1>2, <2>1
<1> QED
  BY <1>4, <1>5, Zenon DEF AreSpoilt

\* Anything after the beginning of a line that follows a cut line.
LEMMA AnyAfterSpoilt ==
  ASSUME NEW ps, NEW p, NEW qs, Adds(ps, p, qs),
         AreSpoilt(ps, LinesIn(LogText(ps)))
  PROVE  AreSpoilt(qs, LinesIn(LogText(qs)))
<1>1. /\ p \in PieceSet /\ Len(ps) \in Nat /\ Len(qs) = Len(ps) + 1
      /\ \A i \in 1..Len(ps) : qs[i] = ps[i]
      /\ LogText(ps) \in Seq(Symbols) /\ LogText(qs) = Join(LogText(ps), PieceText(p))
  BY DEF Adds
<1>2. PieceText(p) \in Seq(Symbols)
  BY <1>1, PieceIs
<1>3. Behind(LinesIn(LogText(qs)), "KVWAL1")
  BY <1>1, <1>2, SpoiltStays, Zenon DEF AreSpoilt
<1>4. PICK i \in 1..Len(ps) : ~Whole(ps[i])
  BY DEF AreSpoilt
<1>5. i \in 1..Len(qs) /\ qs[i] = ps[i]
  BY <1>1
<1> QED
  BY <1>3, <1>4, <1>5, Zenon DEF AreSpoilt

\* Whatever pieces are written one after the other, the file looks so.
LEMMA LogLooks ==
  ASSUME NEW ps \in Seq(PieceSet)
  PROVE  Looks(ps)
<1> DEFINE S == {qs \in Seq(PieceSet) : Looks(qs)}
<1>1. <<>> \in S
  <2> DEFINE none == <<>>
  <2>1. none \in Seq(PieceSet) /\ Len(none) = 0
    OBVIOUS
  <2>2. LinesIn(LogText(none)) = << <<>> >>
    BY LogEmpty, SplitEmpty DEF LinesIn
  <2>3. Len(<< <<>> >>) = 1 /\ LastPart(<< <<>> >>) = <<>>
    BY DEF LastPart
  <2> HIDE DEF none
  <2>4. AreWhole(none, << <<>> >>)
    BY <2>1, <2>3 DEF AreWhole, Bodies
  <2>5. Looks(none)
    BY <2>2, <2>4 DEF Looks
  <2> QED
    BY <2>1, <2>5 DEF none
<1>2. ASSUME NEW qs \in Seq(PieceSet), NEW p \in PieceSet, qs \in S
      PROVE  Append(qs, p) \in S
  <2> DEFINE rs == Append(qs, p)
  <2>1. Adds(qs, p, rs) /\ rs \in Seq(PieceSet)
    BY PieceAdded, Zenon DEF Adds
  <2>2. Looks(qs)
    BY <1>2
  <2> HIDE DEF rs
  <2>3. Looks(rs)
    <3>1. CASE AreWhole(qs, LinesIn(LogText(qs))) /\ Whole(p)
      BY <2>1, <3>1, WholeAfterWhole, Zenon DEF Looks
    <3>2. CASE AreWhole(qs, LinesIn(LogText(qs))) /\ ~Whole(p)
      <4>1. AreCut(rs, LinesIn(LogText(rs)), Len(rs))
        BY <2>1, <3>2, CutAfterWhole, Zenon
      <4>2. Len(rs) \in 1..Len(rs)
        BY <2>1 DEF Adds
      <4> QED
        BY <4>1, <4>2, Zenon DEF Looks
    <3>3. ASSUME NEW b \in 1..Len(qs), AreCut(qs, LinesIn(LogText(qs)), b)
          PROVE  Looks(rs)
      <4>1. CASE p.length = 1
        <5>1. AreCut(rs, LinesIn(LogText(rs)), b)
          BY <2>1, <3>3, <4>1, FirstAfterCut, Zenon
        <5>2. b \in 1..Len(rs)
          BY <5>1 DEF AreCut
        <5> QED
          BY <5>1, <5>2, Zenon DEF Looks
      <4>2. CASE p.length > 1
        BY <2>1, <3>3, <4>2, BeginningAfterCut, Zenon DEF Looks
      <4>3. p.length \in Nat \ {0}
        BY DEF PieceSet
      <4> QED
        BY <4>1, <4>2, <4>3
    <3>4. CASE AreSpoilt(qs, LinesIn(LogText(qs)))
      BY <2>1, <3>4, AnyAfterSpoilt, Zenon DEF Looks
    <3> QED
      BY <2>2, <3>1, <3>2, <3>3, <3>4, Zenon DEF Looks
  <2> QED
    BY <2>1, <2>3 DEF rs
<1> HIDE DEF S
<1>3. Seq(PieceSet) \subseteq S
  BY <1>1, <1>2, TextInduction
<1> QED
  BY <1>3 DEF S

-----------------------------------------------------------------------------
(* What the reader makes of it *)

\* The length of a text of the log is a number.
LEMMA LogLen ==
  ASSUME NEW s \in Seq(Symbols)
  PROVE  Len(s) \in Nat
OBVIOUS

\* The text of a file of pieces is a text of the log.
LEMMA LogIs ==
  ASSUME NEW ps \in Seq(PieceSet)
  PROVE  LogText(ps) \in Seq(Symbols) /\ Len(ps) \in Nat
<1>1. Len(ps) \in Nat
  OBVIOUS
<1> DEFINE ts == [i \in 1..Len(ps) |-> PieceText(ps[i])]
<1>2. ASSUME NEW i \in 1..Len(ps)
      PROVE  PieceText(ps[i]) \in Seq(Symbols)
  BY SymbolOf, PieceIs
<1>3. ts \in Seq(Seq(Symbols)) /\ <<>> \in Seq(Symbols)
  BY <1>1, <1>2
<1> HIDE DEF ts
<1>4. TextOf(ts) \in Seq(Symbols)
  BY <1>3, TextAppend
<1> QED
  BY <1>1, <1>4 DEF LogText, ts

\* The lines that the reader sees: all but an empty last one.
LEMMA LinesOfIs ==
  ASSUME NEW s \in Seq(Symbols)
  PROVE  LET ls == LinesIn(s) IN
         /\ LastPart(ls) = <<>> => /\ Len(LinesOf(s)) = Len(ls) - 1
                                   /\ \A i \in 1..(Len(ls) - 1) : LinesOf(s)[i] = ls[i]
         /\ LastPart(ls) # <<>> => LinesOf(s) = ls
<1> DEFINE ls == LinesIn(s)
<1>1. ls \in Seq(Seq(Symbols)) /\ Len(ls) \in 1..Len(ls)
  BY LinesAre
<1>2. LinesOf(s) = IF LastPart(ls) = <<>> THEN Prefix(ls, Len(ls) - 1) ELSE ls
  BY Zenon DEF LinesOf, LastPart, LinesIn
<1> HIDE DEF ls
<1>3. Len(ls) - 1 \in 0..Len(ls)
  BY <1>1
<1>4. Len(Prefix(ls, Len(ls) - 1)) = Len(ls) - 1 /\ \A i \in 1..(Len(ls) - 1) : Prefix(ls, Len(ls) - 1)[i] = ls[i]
  BY <1>1, <1>3, PrefixIs
<1> QED
  BY <1>2, <1>4, Zenon DEF ls

\* What the reader makes of a line.
LineReads(s) == WellFormed(PartsOf(s))
LineRecord(s) == RecordOf(PartsOf(s))

\* The reader takes line by line.
LEMMA ReadsLines ==
  ASSUME NEW s
  PROVE  /\ Readable(s) <=> \A i \in 1..Len(LinesOf(s)) : LineReads(LinesOf(s)[i])
         /\ ReadAll(s) = [i \in 1..Len(LinesOf(s)) |-> LineRecord(LinesOf(s)[i])]
BY Zenon DEF Readable, ReadAll, LineReads, LineRecord, PartsOf

\* Whole lines are read as they were written.
LEMMA WholeRead ==
  ASSUME NEW ps \in Seq(PieceSet), AreWhole(ps, LinesIn(LogText(ps)))
  PROVE  /\ Readable(LogText(ps))
         /\ ReadAll(LogText(ps)) = [i \in 1..Len(ps) |-> ps[i].record]
<1> DEFINE s  == LogText(ps)
           ls == LinesIn(s)
           ms == LinesOf(s)
<1>1. s \in Seq(Symbols) /\ Len(ps) \in Nat
  BY LogIs
<1>2. /\ Len(ls) = Len(ps) + 1 /\ LastPart(ls) = <<>>
      /\ \A i \in 1..Len(ps) : ls[i] = Body(ps[i].record)
  BY DEF AreWhole, Bodies
<1>3. LastPart(ls) = <<>> => /\ Len(ms) = Len(ls) - 1
                             /\ \A i \in 1..(Len(ls) - 1) : ms[i] = ls[i]
  BY <1>1, LinesOfIs
<1>4. /\ Readable(s) <=> \A i \in 1..Len(ms) : LineReads(ms[i])
      /\ ReadAll(s) = [i \in 1..Len(ms) |-> LineRecord(ms[i])]
  BY ReadsLines
<1> HIDE DEF s, ls, ms
<1>5. Len(ms) = Len(ps)
  BY <1>1, <1>2, <1>3
<1>6. ASSUME NEW i \in 1..Len(ps)
      PROVE  LineReads(ms[i]) /\ LineRecord(ms[i]) = ps[i].record
  <2>1. ms[i] = Body(ps[i].record)
    BY <1>1, <1>2, <1>3
  <2>2. ps[i].record \in WalRecords /\ Valid(ps[i].record)
    BY PieceIs, SymbolOf
  <2> QED
    BY <2>1, <2>2, BodyReads, Zenon DEF LineReads, LineRecord
<1>7. ReadAll(s) = [i \in 1..Len(ps) |-> ps[i].record]
  BY <1>4, <1>5, <1>6
<1> QED
  BY <1>4, <1>5, <1>6, <1>7 DEF s

\* Record q is what the reader may make of what is left of the line of piece p.
ReadsAsCut(q, p) == q = p.record \/ (~Whole(p) /\ p.record.type = "set" /\ ButValue(q, p.record))

\* A cut line is read as the record that it was written for, save a value, if it is read at all.
LEMMA CutLineRead ==
  ASSUME NEW p \in PieceSet, ~Whole(p), NEW s, IsCut(s, p)
  PROVE  /\ s # <<>>
         /\ LineReads(s) => ReadsAsCut(LineRecord(s), p)
<1>1. PICK t \in Seq({"A"}) : s = Join(Prefix(Body(p.record), p.length), t)
  BY Zenon DEF IsCut
<1>2. t \in Seq(Symbols) /\ Without(t, " ")
  BY MoreFirsts
<1>3. p.record \in WalRecords /\ Valid(p.record) /\ p.length \in 0..Len(Body(p.record))
  BY PieceIs, PieceKinds
<1>4. LineReads(s) => /\ ButValue(LineRecord(s), p.record)
                      /\ p.record.type # "set" => LineRecord(s) = p.record
  BY <1>1, <1>2, <1>3, CutReads, Zenon DEF LineReads, LineRecord
<1>5. s # <<>>
  <2> DEFINE u == Prefix(Body(p.record), p.length)
  <2>1. u \in Seq(Symbols) /\ Len(u) = p.length /\ p.length \in Nat \ {0}
    BY CutIs
  <2>2. s = Join(u, t)
    BY <1>1
  <2> HIDE DEF u
  <2>3. Len(Join(u, t)) = Len(u) + Len(t)
    BY <1>2, <2>1, JoinIs
  <2>4. Len(t) \in Nat
    BY <1>2, LogLen, Zenon
  <2>5. Len(s) # 0
    BY <2>1, <2>2, <2>3, <2>4
  <2> QED
    BY <2>5, EmptyLen
<1> QED
  BY <1>4, <1>5, Zenon DEF ReadsAsCut

\* A file that is cut at line b is read up to there, if it is read at all.
LEMMA CutRead ==
  ASSUME NEW ps \in Seq(PieceSet), NEW b, AreCut(ps, LinesIn(LogText(ps)), b),
         Readable(LogText(ps))
  PROVE  LET records == ReadAll(LogText(ps)) IN
         /\ b \in 1..Len(ps) /\ Len(records) = b
         /\ \A i \in 1..(b - 1) : records[i] = ps[i].record /\ Whole(ps[i])
         /\ ReadsAsCut(records[b], ps[b])
         /\ \A i \in (b + 1)..Len(ps) : ps[i].length = 1
<1> DEFINE s  == LogText(ps)
           ls == LinesIn(s)
           records == ReadAll(s)
<1>1. s \in Seq(Symbols) /\ Len(ps) \in Nat
  BY LogIs
<1>2. /\ b \in 1..Len(ps) /\ Len(ls) = b
      /\ \A i \in 1..(b - 1) : Whole(ps[i])
      /\ ~Whole(ps[b])
      /\ \A i \in (b + 1)..Len(ps) : ps[i].length = 1
      /\ \A i \in 1..(b - 1) : ls[i] = Body(ps[i].record)
      /\ IsCut(LastPart(ls), ps[b])
  BY DEF AreCut, Bodies
<1>3. ps[b] \in PieceSet
  BY <1>2, SymbolOf
<1>4. LastPart(ls) # <<>> /\ (LineReads(LastPart(ls)) => ReadsAsCut(LineRecord(LastPart(ls)), ps[b]))
  BY <1>2, <1>3, CutLineRead
<1>5. LastPart(ls) # <<>> => LinesOf(s) = ls
  BY <1>1, LinesOfIs
<1>6. LinesOf(s) = ls
  BY <1>4, <1>5
<1>7. /\ \A i \in 1..Len(ls) : LineReads(ls[i])
      /\ records = [i \in 1..Len(ls) |-> LineRecord(ls[i])]
  BY <1>6, ReadsLines
<1> HIDE DEF s, ls, records
<1>8. Len(records) = b
  BY <1>1, <1>2, <1>7
<1>9. ASSUME NEW i \in 1..(b - 1)
      PROVE  records[i] = ps[i].record
  <2>1. i \in 1..Len(ls) /\ i \in 1..Len(ps)
    BY <1>1, <1>2
  <2>2. ps[i].record \in WalRecords /\ Valid(ps[i].record)
    BY <2>1, PieceIs, SymbolOf
  <2>3. LineRecord(Body(ps[i].record)) = ps[i].record
    BY <2>2, BodyReads, Zenon DEF LineRecord
  <2> QED
    BY <1>2, <1>7, <2>1, <2>3
<1>10. ReadsAsCut(records[b], ps[b])
  <2>1. b \in 1..Len(ls) /\ LastPart(ls) = ls[b]
    BY <1>1, <1>2 DEF LastPart
  <2>2. LineReads(ls[b]) /\ records[b] = LineRecord(ls[b])
    BY <1>7, <2>1
  <2> QED
    BY <1>4, <2>1, <2>2
<1> QED
  BY <1>2, <1>8, <1>9, <1>10 DEF s, records

\* A file with the beginning of a line after a cut line is not read.
LEMMA SpoiltRead ==
  ASSUME NEW ps \in Seq(PieceSet), AreSpoilt(ps, LinesIn(LogText(ps)))
  PROVE  ~Readable(LogText(ps))
<1> DEFINE s  == LogText(ps)
           ls == LinesIn(s)
           ms == LinesOf(s)
           format == "KVWAL1"
<1> SUFFICES ASSUME Readable(s)
             PROVE  FALSE
  OBVIOUS
<1>1. s \in Seq(Symbols)
  BY LogIs
<1>2. Behind(ls, format)
  BY Zenon DEF AreSpoilt
<1>3. \A i \in 1..Len(ms) : LineReads(ms[i])
  BY ReadsLines
<1>4. /\ LastPart(ls) = <<>> => /\ Len(ms) = Len(ls) - 1
                                /\ \A i \in 1..(Len(ls) - 1) : ms[i] = ls[i]
      /\ LastPart(ls) # <<>> => ms = ls
  BY <1>1, LinesOfIs
<1>5. ls \in Seq(Seq(Symbols)) /\ Len(ls) \in 1..Len(ls)
  BY <1>1, LinesAre
<1>6. \A t \in Seq(Symbols), i \in Nat : LineReads(t) /\ i \in 1..Len(t) /\ t[i] = format => i = 2
  BY FormatPlace, Zenon DEF LineReads
<1> HIDE DEF s, ls, ms, format
<1>7. PICK k \in 1..Len(ls) : \E i \in 1..Len(ls[k]) : ls[k][i] = format /\ i > 2
  BY <1>2, Zenon DEF Behind
<1>8. PICK i \in 1..Len(ls[k]) : ls[k][i] = format /\ i > 2
  BY <1>7
<1>9. ls[k] \in Seq(Symbols)
  BY <1>5, SymbolOf
<1>10. ls[k] # <<>>
  <2>1. Len(ls[k]) # 0
    BY <1>8, <1>9
  <2> QED
    BY <2>1, EmptyLen
<1>11. k \in 1..Len(ms) /\ ms[k] = ls[k]
  <2>1. CASE LastPart(ls) = <<>>
    <3>1. k # Len(ls)
      BY <1>10, <2>1 DEF LastPart
    <3>2. k \in 1..(Len(ls) - 1)
      BY <1>5, <3>1
    <3> QED
      BY <1>4, <2>1, <3>2
  <2>2. CASE LastPart(ls) # <<>>
    BY <1>4, <2>2
  <2> QED
    BY <2>1, <2>2
<1>12. LineReads(ls[k])
  BY <1>3, <1>11
<1>13. i = 2
  BY <1>6, <1>8, <1>9, <1>12
<1> QED
  BY <1>8, <1>13

\* ReadsBack, of any pieces.
ReadsRight(ps) ==
  LET records == ReadAll(LogText(ps)) IN
  /\ (\A i \in 1..Len(ps) : Whole(ps[i])) =>
       Readable(LogText(ps)) /\ records = [i \in 1..Len(ps) |-> ps[i].record]
  /\ Readable(LogText(ps)) =>
       /\ \A i \in 1..Len(records) : /\ ReadsAsCut(records[i], ps[i])
                                     /\ i = Len(records) \/ records[i] = ps[i].record
                                     /\ i < Len(records) => Whole(ps[i])
       /\ \A i \in (Len(records) + 1)..Len(ps) : ps[i].length = 1

\* Whole and cut lines, in any order, are never misread.
LEMMA PiecesRead ==
  ASSUME NEW ps \in Seq(PieceSet)
  PROVE  ReadsRight(ps)
<1> DEFINE s  == LogText(ps)
           ls == LinesIn(s)
           records == ReadAll(s)
<1>0. Len(ps) \in Nat
  OBVIOUS
<1>1. CASE AreWhole(ps, ls)
  <2>1. Readable(s) /\ records = [i \in 1..Len(ps) |-> ps[i].record] /\ \A i \in 1..Len(ps) : Whole(ps[i])
    BY <1>1, WholeRead DEF AreWhole
  <2> HIDE DEF s, ls, records
  <2>2. Len(records) = Len(ps)
    BY <1>0, <2>1
  <2>3. ASSUME NEW i \in 1..Len(ps)
        PROVE  ReadsAsCut(records[i], ps[i]) /\ records[i] = ps[i].record
    BY <2>1 DEF ReadsAsCut
  <2>4. (Len(records) + 1)..Len(ps) = {}
    BY <1>0, <2>2
  <2> QED
    BY <2>1, <2>2, <2>3, <2>4 DEF ReadsRight, s, records
<1>2. ASSUME NEW b \in 1..Len(ps), AreCut(ps, ls, b)
      PROVE  ReadsRight(ps)
  <2>1. ~Whole(ps[b])
    BY <1>2 DEF AreCut
  <2>2. ASSUME Readable(s)
        PROVE  /\ \A i \in 1..Len(records) : /\ ReadsAsCut(records[i], ps[i])
                                             /\ i = Len(records) \/ records[i] = ps[i].record
                                             /\ i < Len(records) => Whole(ps[i])
               /\ \A i \in (Len(records) + 1)..Len(ps) : ps[i].length = 1
    <3>1. /\ Len(records) = b
          /\ \A i \in 1..(b - 1) : records[i] = ps[i].record /\ Whole(ps[i])
          /\ ReadsAsCut(records[b], ps[b])
          /\ \A i \in (b + 1)..Len(ps) : ps[i].length = 1
      BY <1>2, <2>2, CutRead
    <3> HIDE DEF s, ls, records
    <3>2. ASSUME NEW i \in 1..b
          PROVE  /\ ReadsAsCut(records[i], ps[i])
                 /\ i = b \/ records[i] = ps[i].record
                 /\ i < b => Whole(ps[i])
      <4>1. CASE i = b
        BY <3>1, <4>1
      <4>2. CASE i \in 1..(b - 1)
        BY <3>1, <4>2 DEF ReadsAsCut
      <4>3. i = b \/ i \in 1..(b - 1)
        BY <1>0
      <4> QED
        BY <4>1, <4>2, <4>3
    <3> QED
      BY <3>1, <3>2
  <2> HIDE DEF s, ls, records
  <2> QED
    BY <2>1, <2>2 DEF ReadsRight, s, records
<1>3. CASE AreSpoilt(ps, ls)
  <2>1. ~Readable(s)
    BY <1>3, SpoiltRead
  <2>2. PICK i \in 1..Len(ps) : ~Whole(ps[i])
    BY <1>3 DEF AreSpoilt
  <2> HIDE DEF s, ls, records
  <2> QED
    BY <2>1, <2>2 DEF ReadsRight, s, records
<1>4. Looks(ps)
  BY LogLooks
<1> QED
  BY <1>1, <1>2, <1>3, <1>4, Zenon DEF Looks

\* So in every state of a type-correct file.
LEMMA FileRead ==
  ASSUME TypeInv
  PROVE  ReadsBack
<1> DEFINE s  == LogText(pieces)
           records == ReadAll(s)
<1>1. pieces \in Seq(PieceSet)
  BY DEF TypeInv
<1>2. ReadsRight(pieces)
  BY <1>1, PiecesRead
<1>3. FileText = s
  BY Zenon DEF FileText, LogText, PieceText
<1>4. /\ (\A i \in 1..Len(pieces) : Whole(pieces[i])) =>
           Readable(s) /\ records = [i \in 1..Len(pieces) |-> pieces[i].record]
      /\ Readable(s) =>
           /\ \A i \in 1..Len(records) : /\ ReadsAsCut(records[i], pieces[i])
                                         /\ i = Len(records) \/ records[i] = pieces[i].record
                                         /\ i < Len(records) => Whole(pieces[i])
           /\ \A i \in (Len(records) + 1)..Len(pieces) : pieces[i].length = 1
  BY <1>2, Zenon DEF ReadsRight
<1> HIDE DEF s, records
<1>5. ASSUME Readable(s), NEW i \in 1..Len(records)
      PROVE  LET r == pieces[i].record IN
             /\ records[i] = r \/ (i = Len(records) /\ ~Whole(pieces[i]) /\ r.type = "set"
                                   /\ [records[i] EXCEPT !.value = r.value] = r)
             /\ i < Len(records) => Whole(pieces[i])
  BY <1>4, <1>5, Zenon DEF ReadsAsCut, ButValue
<1> QED
  BY <1>3, <1>4, <1>5, Zenon DEF ReadsBack, s, records

-----------------------------------------------------------------------------
(* Theorems *)

\* Every variable keeps its type, and a piece of the file is never longer than the
\* line that it was cut from, for any records and faults.
THEOREM TypeCorrect == Spec => []TypeOK
<1>1. TypeInv => TypeOK
  BY DEF TypeInv
<1> QED
  BY <1>1, InitType, InitForced, StepForced, StepType, PTL DEF Spec

\* What an OK of appendRecord, flush and close promises is on disk, for any records
\* and whatever failed before.
THEOREM PromisesAreKept == Spec => []PromiseKept
<1>1. WriterInv /\ ForcedInv => PromiseKept
  BY DEF ForcedInv
<1> QED
  BY <1>1, InitForced, StepForced, PTL DEF Spec

\* Whatever was written whole, cut, killed or lost on the way, the reader never misreads
\* what it accepts of the file: no record that nobody wrote, save the value of a SET whose
\* line was cut.  For any records, of any length and in any number.
THEOREM FilesReadBack == Spec => []ReadsBack
<1>1. TypeInv => ReadsBack
  BY FileRead
<1> QED
  BY <1>1, InitType, InitForced, StepForced, StepType, PTL DEF Spec

=============================================================================
