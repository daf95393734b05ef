-------------------------------- MODULE Text --------------------------------
(***************************************************************************)
(* Texts of AsterKV: log lines, command lines and responses.  A text is a  *)
(* sequence of symbols; a symbol stands for one byte, or for a run of      *)
(* bytes of which no part means anything to the code that reads it.        *)
(***************************************************************************)
EXTENDS Integers, Sequences

\* Where symbol c occurs in text s, in order.
Positions(s, c) == SelectSeq([i \in 1..Len(s) |-> i], LAMBDA i : s[i] = c)

\* One more symbol: separator c begins a new part, any other symbol belongs to the last.
Extended(parts, x, c) ==
  IF x = c THEN Append(parts, <<>>) ELSE [parts EXCEPT ![Len(parts)] = Append(@, x)]

\* The parts of text s between the occurrences of symbol c, empty ones too.
Split(s, c) ==
  LET upto[i \in 0..Len(s)] ==
        IF i = 0 THEN << <<>> >> ELSE Extended(upto[i - 1], s[i], c)
  IN upto[Len(s)]

\* The first n symbols of text s.
Prefix(s, n) == SubSeq(s, 1, n)

Digits == <<"0", "1", "2", "3", "4", "5", "6", "7", "8", "9">>
IsDigit(c) == \E d \in 1..10 : Digits[d] = c
DigitValue(c) == (CHOOSE d \in 1..10 : Digits[d] = c) - 1

\* std::to_string of a natural number.
Decimal[n \in Nat] ==
  IF n < 10 THEN <<Digits[n + 1]>> ELSE Append(Decimal[n \div 10], Digits[(n % 10) + 1])

\* The number that a text of digits stands for.
NumberOf(s) ==
  LET value[i \in 0..Len(s)] ==
        IF i = 0 THEN 0 ELSE 10 * value[i - 1] + DigitValue(s[i])
  IN value[Len(s)]
=============================================================================
