---------------------- MODULE ServiceRefinementProofs -----------------------
(***************************************************************************)
(* The proof that astercli and asterd together, as Service has them,       *)
(* implement AtomicStore: each step maps to one of its steps or to a       *)
(* stutter.  Before that, what both ends make of each other's texts, of    *)
(* any length: astercli of a response, and the server of a command line.   *)
(***************************************************************************)
EXTENDS ServiceProofs, TextProofs

-----------------------------------------------------------------------------
(* The texts of both specifications *)

\* Both specifications mean the same responses.
LEMMA SameResponses ==
  /\ Atomic!Pong = Pong /\ Atomic!CommandOk = CommandOk
  /\ \A v : Atomic!Bulk(v) = Bulk(v)
  /\ \A code : Atomic!Failure(code) = Failure(code)
  /\ \A n : Atomic!Number(n) = Number(n)
<1>1. Atomic!Decimal = Decimal
  BY DEF Atomic!Decimal, Decimal, Atomic!Digits, Digits
<1> QED
  BY <1>1 DEF Atomic!Pong, Pong, Atomic!CommandOk, CommandOk, Atomic!Simple, Simple, Atomic!Bulk,
              Bulk, Atomic!Failure, Failure, Atomic!Number, Number

\* What a command of a process may be.
Shape(q) ==
  \/ q = NoRequest
  \/ q.type = "Ping"
  \/ q.type \in {"Get", "Del", "Exists"} /\ Atomic!KeyOf(q) \in Key
  \/ q.type = "Set" /\ Atomic!KeyOf(q) \in Key /\ q.arguments[2] \in Value

\* A command of AtomicStore is that.
LEMMA RequestsShape ==
  ASSUME NEW q \in Atomic!Requests
  PROVE  Shape(q)
<1>1. CASE q = Atomic!NoRequest
  BY <1>1 DEF Shape, Atomic!NoRequest, NoRequest
<1>2. CASE q \in [type : {"Ping"}, arguments : {<<>>}]
  BY <1>2 DEF Shape
<1>3. CASE q \in [type : {"Get", "Del", "Exists"}, arguments : {<<<<k>>>> : k \in Key}]
  <2>1. PICK k \in Key : q.arguments = <<<<k>>>>
    BY <1>3
  <2>2. q.arguments[1][1] = k
    BY <2>1
  <2> QED
    BY <1>3, <2>2 DEF Shape, Atomic!KeyOf
<1>4. CASE q \in [type : {"Set"}, arguments : {<<<<k>>, v>> : k \in Key, v \in Value}]
  <2>1. PICK k \in Key, v \in Value : q.arguments = <<<<k>>, v>>
    BY <1>4
  <2>2. q.arguments[1][1] = k /\ q.arguments[2] = v
    BY <2>1
  <2> QED
    BY <1>4, <2>2 DEF Shape, Atomic!KeyOf
<1> QED
  BY <1>1, <1>2, <1>3, <1>4 DEF Atomic!Requests

\* The command of a process is one of AtomicStore.
LEMMA RequestIs ==
  ASSUME CliType, NEW x \in Cli
  PROVE  Request(x) \in Atomic!Requests /\ Shape(Request(x))
<1>1. CASE line[x] = <<>>
  BY <1>1, RequestsShape DEF Request, Atomic!Requests, Atomic!NoRequest, NoRequest
<1>2. CASE line[x] # <<>>
  <2>1. line[x] \in Input[x]
    BY <1>2 DEF CliType
  <2>2. Request(x) = ParseCommandLine(line[x])
    BY <1>2, <2>1 DEF Request, Parsed
  <2> QED
    BY <2>1, <2>2, RequestsShape, InputAssumption
<1> QED
  BY <1>1, <1>2

-----------------------------------------------------------------------------
(* What is read of the text of a response *)

\* The line end of a text with one newline at least, or of a part of it.
LEMMA LineEndIs ==
  ASSUME NEW T, NEW raw \in Seq(T), NEW e \in 1..(Len(raw) + 1),
         e <= Len(raw) => raw[e] = "\n", \A j \in 1..(e - 1) : raw[j] # "\n"
  PROVE  LineEnd(raw) = e
<1> DEFINE P(i) == /\ i <= Len(raw) => raw[i] = "\n"
                   /\ \A j \in 1..(i - 1) : raw[j] # "\n"
<1>1. P(e)
  OBVIOUS
<1>2. ASSUME NEW i \in 1..(Len(raw) + 1), P(i)
      PROVE  i = e
  <2>1. CASE i < e
    BY <1>2, <2>1
  <2>2. CASE e < i
    BY <1>2, <2>2
  <2> QED
    BY <2>1, <2>2
<1> HIDE DEF P
<1>3. (CHOOSE i \in 1..(Len(raw) + 1) : P(i)) = e
  BY <1>1, <1>2
<1> QED
  BY <1>3 DEF LineEnd, P

\* A text whose first line has k symbols, or its first n symbols: how it is read.
LEMMA CutLine ==
  ASSUME NEW T, NEW text \in Seq(T), NEW k \in Nat, k + 2 <= Len(text),
         \A i \in 1..k : text[i] \notin {"\r", "\n"}, text[k + 1] = "\r", text[k + 2] = "\n",
         NEW n \in 1..Len(text)
  PROVE  /\ FirstLine(Prefix(text, n)) = Prefix(text, IF n <= k THEN n ELSE k)
         /\ Remaining(Prefix(text, n)) = SubSeq(text, k + 3, n)
<1> DEFINE raw == Prefix(text, n)
           m   == IF n <= k THEN n ELSE k
           e   == IF n <= k + 1 THEN n + 1 ELSE k + 2
<1>1. /\ raw \in Seq(T) /\ Len(raw) = n
      /\ \A i \in 1..n : raw[i] = text[i]
  <2>1. n \in 0..Len(text)
    OBVIOUS
  <2> QED
    BY <2>1, PrefixIs
<1>2. e \in 1..(n + 1) /\ m \in 0..n /\ e - 1 \in 0..n /\ (e - 1 = m \/ e - 1 = m + 1)
  OBVIOUS
<1> HIDE DEF raw
<1>3. LineEnd(raw) = e
  <2>1. e <= Len(raw) => raw[e] = "\n"
    BY <1>1, <1>2
  <2>2. \A j \in 1..(e - 1) : raw[j] # "\n"
    <3> SUFFICES ASSUME NEW j \in 1..(e - 1)
                 PROVE  raw[j] # "\n"
      OBVIOUS
    <3>1. j \in 1..n /\ (j \in 1..k \/ j = k + 1)
      BY <1>2
    <3> QED
      BY <1>1, <3>1
  <2> QED
    BY <1>1, <1>2, <2>1, <2>2, LineEndIs
<1> DEFINE first == Prefix(raw, e - 1)
<1>4. /\ first \in Seq(T) /\ Len(first) = e - 1
      /\ \A i \in 1..(e - 1) : first[i] = text[i]
  <2>1. /\ first \in Seq(T) /\ Len(first) = e - 1
        /\ \A i \in 1..(e - 1) : first[i] = raw[i]
    <3>1. e - 1 \in 0..Len(raw)
      BY <1>1, <1>2
    <3> HIDE DEF e
    <3> QED
      BY <1>1, <3>1, PrefixIs
  <2>2. \A i \in 1..(e - 1) : i \in 1..n
    BY <1>2
  <2> QED
    BY <1>1, <2>1, <2>2
<1>5. /\ Prefix(text, m) \in Seq(T) /\ Len(Prefix(text, m)) = m
      /\ \A i \in 1..m : Prefix(text, m)[i] = text[i]
  <2>1. m \in 0..Len(text)
    BY <1>2
  <2> QED
    BY <2>1, PrefixIs
<1>6. FirstLine(raw) = IF first # <<>> /\ first[Len(first)] = "\r"
                         THEN Prefix(first, Len(first) - 1) ELSE first
  BY <1>3 DEF FirstLine
<1> HIDE DEF first
<1>7. FirstLine(raw) = Prefix(text, m)
  <2>1. CASE e - 1 = m
    <3>1. m # 0
      BY <2>1
    <3>2. first # <<>> => first[Len(first)] # "\r"
      <4>1. m \in 1..k /\ Len(first) = m
        BY <1>2, <1>4, <2>1, <3>1
      <4> QED
        BY <1>4, <2>1, <4>1
    <3>3. first = Prefix(text, m)
      BY <1>4, <1>5, <2>1, SeqEqual
    <3> QED
      BY <1>6, <3>2, <3>3
  <2>2. CASE e - 1 = m + 1
    <3>1. m = k /\ e - 1 = k + 1
      BY <2>2
    <3>2. first # <<>> /\ first[Len(first)] = "\r" /\ Len(first) - 1 = m /\ m \in 0..Len(first)
      BY <1>4, <3>1
    <3>3. /\ Prefix(first, m) \in Seq(T) /\ Len(Prefix(first, m)) = m
          /\ \A i \in 1..m : Prefix(first, m)[i] = first[i]
      BY <1>4, <3>2, PrefixIs
    <3>4. \A i \in 1..m : Prefix(first, m)[i] = Prefix(text, m)[i]
      BY <1>4, <1>5, <3>1, <3>3
    <3>5. Prefix(first, m) = Prefix(text, m)
      BY <1>5, <3>3, <3>4, SeqEqual
    <3> QED
      BY <1>6, <3>2, <3>5
  <2> QED
    BY <1>2, <2>1, <2>2
<1>8. Remaining(raw) = SubSeq(text, k + 3, n)
  <2>1. Remaining(raw) = SubSeq(raw, e + 1, n)
    BY <1>1, <1>3 DEF Remaining
  <2>2. \A i \in (e + 1)..n : raw[i] \in T
    BY <1>1, <1>2, ElementOfSeq
  <2>3. \A i \in (k + 3)..n : text[i] \in T
    BY ElementOfSeq
  <2>4. e \in Int /\ n \in Int /\ k \in Int /\ (e = k + 2 \/ (e = n + 1 /\ n < k + 3))
    OBVIOUS
  <2> HIDE DEF e
  <2>5. /\ SubSeq(raw, e + 1, n) \in Seq(T)
        /\ Len(SubSeq(raw, e + 1, n)) = IF e + 1 <= n THEN n - (e + 1) + 1 ELSE 0
        /\ \A i \in 1..(n - (e + 1) + 1) : SubSeq(raw, e + 1, n)[i] = raw[(e + 1) + i - 1]
    BY <2>2, <2>4, SubSeqProperties
  <2>6. /\ SubSeq(text, k + 3, n) \in Seq(T)
        /\ Len(SubSeq(text, k + 3, n)) = IF k + 3 <= n THEN n - (k + 3) + 1 ELSE 0
        /\ \A i \in 1..(n - (k + 3) + 1) : SubSeq(text, k + 3, n)[i] = text[(k + 3) + i - 1]
    BY <2>3, <2>4, SubSeqProperties
  <2>7. Len(SubSeq(raw, e + 1, n)) = Len(SubSeq(text, k + 3, n))
    BY <2>4, <2>5, <2>6
  <2>8. \A i \in 1..Len(SubSeq(raw, e + 1, n)) : SubSeq(raw, e + 1, n)[i] = SubSeq(text, k + 3, n)[i]
    <3> SUFFICES ASSUME NEW i \in 1..Len(SubSeq(raw, e + 1, n))
                 PROVE  SubSeq(raw, e + 1, n)[i] = SubSeq(text, k + 3, n)[i]
      OBVIOUS
    <3>1. e = k + 2 /\ e + 1 <= n
      BY <2>4, <2>5
    <3>2. i \in 1..(n - (e + 1) + 1) /\ i \in 1..(n - (k + 3) + 1)
      BY <2>4, <2>5, <3>1
    <3>3. (e + 1) + i - 1 = (k + 3) + i - 1 /\ (e + 1) + i - 1 \in 1..n
      BY <2>4, <3>1, <3>2
    <3> QED
      BY <1>1, <2>5, <2>6, <3>2, <3>3
  <2> QED
    BY <2>1, <2>5, <2>6, <2>7, <2>8, SeqEqual
<1> QED
  BY <1>7, <1>8 DEF raw

\* The text of a response of one line.
LineText(c, w) == <<c>> \o w \o CrLf

\* Where the parts are in it.
LEMMA LineTextIs ==
  ASSUME NEW T, "\r" \in T, "\n" \in T, NEW c \in T, NEW w \in Seq(T)
  PROVE  LET text == LineText(c, w) IN
         /\ text \in Seq(T) /\ Len(text) = Len(w) + 3 /\ text[1] = c
         /\ \A i \in 1..Len(w) : text[i + 1] = w[i]
         /\ text[Len(w) + 2] = "\r" /\ text[Len(w) + 3] = "\n"
<1> DEFINE t == <<c>> \o w
<1>1. <<c>> \in Seq(T) /\ Len(<<c>>) = 1 /\ <<c>>[1] = c
  OBVIOUS
<1>2. /\ t \in Seq(T) /\ Len(t) = Len(w) + 1
      /\ \A i \in 1..(Len(w) + 1) : t[i] = IF i <= 1 THEN <<c>>[i] ELSE w[i - 1]
  BY <1>1, ConcatProperties
<1>3. CrLf \in Seq(T) /\ Len(CrLf) = 2 /\ CrLf[1] = "\r" /\ CrLf[2] = "\n"
  BY DEF CrLf
<1> HIDE DEF t
<1>4. /\ t \o CrLf \in Seq(T) /\ Len(t \o CrLf) = Len(t) + 2
      /\ \A i \in 1..(Len(t) + 2) : (t \o CrLf)[i] = IF i <= Len(t) THEN t[i] ELSE CrLf[i - Len(t)]
  <2>1. /\ t \o CrLf \in Seq(T) /\ Len(t \o CrLf) = Len(t) + Len(CrLf)
        /\ \A i \in 1..(Len(t) + Len(CrLf)) :
             (t \o CrLf)[i] = IF i <= Len(t) THEN t[i] ELSE CrLf[i - Len(t)]
    BY <1>2, <1>3, ConcatProperties
  <2> QED
    BY <1>3, <2>1
<1>5. Len(w) \in Nat
  OBVIOUS
<1>6. (t \o CrLf)[1] = c
  BY <1>1, <1>2, <1>4, <1>5
<1>7. \A i \in 1..Len(w) : (t \o CrLf)[i + 1] = w[i]
  BY <1>2, <1>4, <1>5
<1>8. (t \o CrLf)[Len(w) + 2] = "\r" /\ (t \o CrLf)[Len(w) + 3] = "\n"
  BY <1>2, <1>3, <1>4, <1>5
<1> QED
  BY <1>2, <1>4, <1>6, <1>7, <1>8 DEF t, LineText

\* What the reader makes of a response of one line, or of a part of it.
LEMMA LineRead ==
  ASSUME NEW T, "\r" \in T, "\n" \in T, NEW c \in T \ {"\r", "\n"}, NEW w \in Seq(T),
         \A i \in 1..Len(w) : w[i] \notin {"\r", "\n"},
         NEW n \in 1..(Len(w) + 3)
  PROVE  LET raw == Prefix(LineText(c, w), n)
             m   == IF n <= Len(w) + 1 THEN n - 1 ELSE Len(w)
         IN /\ raw # <<>> /\ raw[1] = c
            /\ Len(FirstLine(raw)) = m + 1 /\ Tail(FirstLine(raw)) = Prefix(w, m)
<1> DEFINE text == LineText(c, w)
           m    == IF n <= Len(w) + 1 THEN n - 1 ELSE Len(w)
<1>1. /\ text \in Seq(T) /\ Len(text) = Len(w) + 3 /\ text[1] = c
      /\ \A i \in 1..Len(w) : text[i + 1] = w[i]
      /\ text[Len(w) + 2] = "\r" /\ text[Len(w) + 3] = "\n"
  BY LineTextIs
<1>2. m \in 0..Len(w) /\ m + 1 = IF n <= Len(w) + 1 THEN n ELSE Len(w) + 1
  OBVIOUS
<1>3. n \in 1..Len(text) /\ m + 1 \in 0..Len(text) /\ Len(w) \in Nat
  BY <1>1
<1> HIDE DEF text
<1>4. \A i \in 1..(Len(w) + 1) : text[i] \notin {"\r", "\n"}
  <2> SUFFICES ASSUME NEW i \in 1..(Len(w) + 1)
               PROVE  text[i] \notin {"\r", "\n"}
    OBVIOUS
  <2>1. CASE i = 1
    BY <1>1, <2>1
  <2>2. CASE i # 1
    <3>1. i - 1 \in 1..Len(w) /\ (i - 1) + 1 = i
      BY <2>2
    <3> QED
      BY <1>1, <3>1
  <2> QED
    BY <2>1, <2>2
<1>5. FirstLine(Prefix(text, n)) = Prefix(text, m + 1)
  <2>1. Len(w) + 1 \in Nat /\ (Len(w) + 1) + 2 <= Len(text)
        /\ text[(Len(w) + 1) + 1] = "\r" /\ text[(Len(w) + 1) + 2] = "\n"
    BY <1>1, <1>3
  <2> HIDE DEF m
  <2>2. FirstLine(Prefix(text, n)) = Prefix(text, IF n <= Len(w) + 1 THEN n ELSE Len(w) + 1)
    BY <1>1, <1>3, <1>4, <2>1, CutLine
  <2> QED
    BY <1>2, <2>2
<1> HIDE DEF m
<1>6. /\ Prefix(text, n) \in Seq(T) /\ Len(Prefix(text, n)) = n
      /\ \A i \in 1..n : Prefix(text, n)[i] = text[i]
  <2>1. n \in 0..Len(text)
    BY <1>3
  <2> QED
    BY <1>1, <2>1, PrefixIs
<1>7. /\ Prefix(text, m + 1) \in Seq(T) /\ Len(Prefix(text, m + 1)) = m + 1
      /\ \A i \in 1..(m + 1) : Prefix(text, m + 1)[i] = text[i]
  BY <1>1, <1>3, PrefixIs
<1>8. Tail(Prefix(text, m + 1)) = Prefix(w, m)
  <2> DEFINE first == Prefix(text, m + 1)
  <2>1. first # <<>>
    BY <1>2, <1>7
  <2> HIDE DEF first
  <2>2. /\ Tail(first) \in Seq(T) /\ Len(Tail(first)) = Len(first) - 1
        /\ \A i \in 1..Len(Tail(first)) : Tail(first)[i] = first[i + 1]
    BY <1>7, <2>1, HeadTailProperties DEF first
  <2>3. /\ Prefix(w, m) \in Seq(T) /\ Len(Prefix(w, m)) = m
        /\ \A i \in 1..m : Prefix(w, m)[i] = w[i]
    BY <1>2, PrefixIs
  <2>4. Len(Tail(first)) = m
    BY <1>2, <1>7, <2>2 DEF first
  <2>5. \A i \in 1..m : Tail(first)[i] = Prefix(w, m)[i]
    <3> SUFFICES ASSUME NEW i \in 1..m
                 PROVE  Tail(first)[i] = Prefix(w, m)[i]
      OBVIOUS
    <3>1. i \in 1..Len(w) /\ i + 1 \in 1..(m + 1)
      BY <1>2
    <3>2. first[i + 1] = text[i + 1]
      BY <1>7, <3>1 DEF first
    <3> QED
      BY <1>1, <2>2, <2>3, <2>4, <3>1, <3>2
  <2>6. Tail(first) = Prefix(w, m)
    BY <2>2, <2>3, <2>4, <2>5, SeqEqual
  <2> QED
    BY <2>6 DEF first
<1>9. Prefix(text, n) # <<>> /\ Prefix(text, n)[1] = c
  BY <1>1, <1>6
<1> QED
  BY <1>5, <1>7, <1>8, <1>9 DEF text, m

\* A response of one line, or a part of it, is read as a beginning of what it says.
LEMMA LineResponseIs ==
  ASSUME NEW T, "\r" \in T, "\n" \in T, NEW c \in T \ {"\r", "\n"}, NEW w \in Seq(T),
         \A i \in 1..Len(w) : w[i] \notin {"\r", "\n"},
         NEW n \in 1..(Len(w) + 3), NEW kind
  PROVE  LET raw == Prefix(LineText(c, w), n) IN
         \/ ParseLineResponse(kind, raw) = Invalid
         \/ \E j \in 1..Len(w) :
              ParseLineResponse(kind, raw) = [kind |-> kind, value |-> Prefix(w, j)]
<1> DEFINE raw == Prefix(LineText(c, w), n)
           m   == IF n <= Len(w) + 1 THEN n - 1 ELSE Len(w)
<1>1. Len(FirstLine(raw)) = m + 1 /\ Tail(FirstLine(raw)) = Prefix(w, m)
  BY LineRead
<1>2. m \in 0..Len(w)
  OBVIOUS
<1> HIDE DEF raw, m
<1>3. ParseLineResponse(kind, raw) # Invalid =>
        /\ m >= 1
        /\ ParseLineResponse(kind, raw) = [kind |-> kind, value |-> Prefix(w, m)]
  BY <1>1, <1>2 DEF ParseLineResponse
<1> QED
  BY <1>2, <1>3 DEF raw

\* A length with its line end, and what follows in the text of a bulk response.
BulkText(t, v) == t \o v \o CrLf

\* Where the parts are in the text of a bulk response.
LEMMA BulkTextIs ==
  ASSUME NEW T, "\r" \in T, "\n" \in T, NEW t \in Seq(T), NEW v \in Seq(T)
  PROVE  /\ BulkText(t, v) \in Seq(T) /\ Len(BulkText(t, v)) = Len(t) + Len(v) + 2
         /\ \A i \in 1..Len(t) : BulkText(t, v)[i] = t[i]
         /\ \A i \in 1..Len(v) : BulkText(t, v)[Len(t) + i] = v[i]
<1> DEFINE u == t \o v
<1>1. /\ u \in Seq(T) /\ Len(u) = Len(t) + Len(v)
      /\ \A i \in 1..(Len(t) + Len(v)) : u[i] = IF i <= Len(t) THEN t[i] ELSE v[i - Len(t)]
  BY ConcatProperties
<1> HIDE DEF u
<1>2. CrLf \in Seq(T) /\ Len(CrLf) = 2
  BY DEF CrLf
<1>3. /\ u \o CrLf \in Seq(T) /\ Len(u \o CrLf) = Len(u) + Len(CrLf)
      /\ \A i \in 1..(Len(u) + Len(CrLf)) :
           (u \o CrLf)[i] = IF i <= Len(u) THEN u[i] ELSE CrLf[i - Len(u)]
  <2>1. u \in Seq(T)
    BY <1>1
  <2>2. CrLf \in Seq(T)
    BY <1>2
  <2> QED
    BY <2>1, <2>2, ConcatProperties
<1>4. Len(t) \in Nat /\ Len(v) \in Nat
  OBVIOUS
<1>5. ASSUME NEW i \in 1..(Len(t) + Len(v))
      PROVE  (u \o CrLf)[i] = u[i]
  BY <1>1, <1>2, <1>3, <1>4
<1>6. \A i \in 1..Len(t) : (u \o CrLf)[i] = t[i]
  BY <1>1, <1>4, <1>5
<1>7. \A i \in 1..Len(v) : (u \o CrLf)[Len(t) + i] = v[i]
  <2> SUFFICES ASSUME NEW i \in 1..Len(v)
               PROVE  (u \o CrLf)[Len(t) + i] = v[i]
    OBVIOUS
  <2>1. Len(t) + i \in 1..(Len(t) + Len(v)) /\ ~(Len(t) + i <= Len(t)) /\ (Len(t) + i) - Len(t) = i
    BY <1>4
  <2> QED
    BY <1>1, <1>5, <2>1
<1> QED
  BY <1>1, <1>2, <1>3, <1>6, <1>7 DEF u, BulkText

\* A bulk response, or a part of it, is read as its value, if it is read at all.
LEMMA BulkResponseIs ==
  ASSUME NEW T, "\r" \in T, "\n" \in T, "$" \in T, DigitSet \subseteq T, NEW v \in Seq(T),
         NEW n \in 1..(Len(Decimal[Len(v)]) + Len(v) + 5)
  PROVE  LET raw == Prefix(BulkText(LineText("$", Decimal[Len(v)]), v), n) IN
         \/ ParseBulkStringResponse(raw) = Invalid
         \/ ParseBulkStringResponse(raw) = Bulk(v)
<1> DEFINE w    == Decimal[Len(v)]
           head == LineText("$", w)
           text == BulkText(head, v)
           raw  == Prefix(text, n)
<1>1. w \in Seq(DigitSet) /\ w \in Seq(T) /\ NumberOf(w) = Len(v) /\ Len(v) \in Nat
  <2>1. Len(v) \in Nat
    OBVIOUS
  <2>2. w \in Seq(DigitSet) /\ NumberOf(w) = Len(v)
    BY <2>1, DecimalIs, NumberOfDecimal
  <2> HIDE DEF w
  <2>3. w \in Seq(T)
    BY <2>2, SeqMonotonic
  <2> QED
    BY <2>1, <2>2, <2>3
<1>2. \A i \in 1..Len(w) : w[i] \notin {"\r", "\n"}
  <2> HIDE DEF w
  <2>1. \A i \in 1..Len(w) : w[i] \in DigitSet
    BY <1>1, ElementOfSeq
  <2>2. "\r" \notin DigitSet /\ "\n" \notin DigitSet
    BY DigitsDiffer
  <2> QED
    BY <2>1, <2>2
<1>3. n \in 1..(Len(w) + Len(v) + 5)
  OBVIOUS
<1>4. ASSUME Len(v) # 0, NEW j \in 1..Len(w)
      PROVE  NumberOf(Prefix(w, j)) # 0
  BY <1>1, <1>4, DecimalBegins
<1> HIDE DEF w
<1>5. /\ head \in Seq(T) /\ Len(head) = Len(w) + 3 /\ head[1] = "$"
      /\ \A i \in 1..Len(w) : head[i + 1] = w[i]
      /\ head[Len(w) + 2] = "\r" /\ head[Len(w) + 3] = "\n"
  BY <1>1, LineTextIs
<1> HIDE DEF head
<1>6. /\ text \in Seq(T) /\ Len(text) = Len(w) + Len(v) + 5 /\ Len(w) \in Nat
      /\ \A i \in 1..(Len(w) + 3) : text[i] = head[i]
      /\ \A i \in 1..Len(v) : text[Len(w) + 3 + i] = v[i]
  <2>1. /\ text \in Seq(T) /\ Len(text) = Len(head) + Len(v) + 2
        /\ \A i \in 1..Len(head) : text[i] = head[i]
        /\ \A i \in 1..Len(v) : text[Len(head) + i] = v[i]
    <3>1. head \in Seq(T)
      BY <1>5
    <3>2. BulkText(head, v) \in Seq(T) /\ Len(BulkText(head, v)) = Len(head) + Len(v) + 2
      BY <3>1, BulkTextIs
    <3>3. \A i \in 1..Len(head) : BulkText(head, v)[i] = head[i]
      BY <3>1, BulkTextIs
    <3>4. \A i \in 1..Len(v) : BulkText(head, v)[Len(head) + i] = v[i]
      BY <3>1, BulkTextIs
    <3> QED
      BY <3>2, <3>3, <3>4
  <2>2. Len(w) \in Nat
    BY <1>1
  <2> HIDE DEF text
  <2> QED
    BY <1>1, <1>5, <2>1, <2>2
<1> HIDE DEF text
<1> DEFINE k == Len(w) + 1
           m == IF n <= k THEN n ELSE k
<1>7. /\ FirstLine(raw) = Prefix(text, m)
      /\ Remaining(raw) = SubSeq(text, k + 3, n)
  <2>1. /\ k \in Nat /\ k + 2 <= Len(text) /\ n \in 1..Len(text)
        /\ text[k + 1] = "\r" /\ text[k + 2] = "\n"
    <3>1. k + 1 \in 1..(Len(w) + 3) /\ k + 2 \in 1..(Len(w) + 3) /\ k + 1 = Len(w) + 2 /\ k + 2 = Len(w) + 3
      BY <1>6
    <3>2. k + 2 <= Len(text) /\ n \in 1..Len(text) /\ k \in Nat
      BY <1>1, <1>3, <1>6
    <3> QED
      BY <1>5, <1>6, <3>1, <3>2
  <2>2. \A i \in 1..k : text[i] \notin {"\r", "\n"}
    <3> SUFFICES ASSUME NEW i \in 1..k
                 PROVE  text[i] \notin {"\r", "\n"}
      OBVIOUS
    <3>1. text[i] = head[i]
      BY <1>6
    <3>2. CASE i = 1
      BY <1>5, <3>1, <3>2
    <3>3. CASE i # 1
      <4>1. i - 1 \in 1..Len(w) /\ (i - 1) + 1 = i
        BY <1>6, <3>3
      <4> QED
        BY <1>2, <1>5, <3>1, <4>1
    <3> QED
      BY <3>2, <3>3
  <2>3. text \in Seq(T)
    BY <1>6
  <2> HIDE DEF k
  <2>4. /\ FirstLine(Prefix(text, n)) = Prefix(text, IF n <= k THEN n ELSE k)
        /\ Remaining(Prefix(text, n)) = SubSeq(text, k + 3, n)
    BY <2>1, <2>2, <2>3, CutLine
  <2> QED
    BY <2>4
<1>8. Tail(FirstLine(raw)) = Prefix(w, m - 1) /\ m - 1 \in 0..Len(w)
  <2>1. m \in 1..k /\ m \in 0..Len(text) /\ m - 1 \in 0..Len(w)
    BY <1>1, <1>3, <1>6
  <2> HIDE DEF m, k
  <2>2. /\ Prefix(text, m) \in Seq(T) /\ Len(Prefix(text, m)) = m
        /\ \A i \in 1..m : Prefix(text, m)[i] = text[i]
    BY <1>6, <2>1, PrefixIs
  <2>3. /\ Prefix(w, m - 1) \in Seq(T) /\ Len(Prefix(w, m - 1)) = m - 1
        /\ \A i \in 1..(m - 1) : Prefix(w, m - 1)[i] = w[i]
    BY <1>1, <2>1, PrefixIs
  <2> DEFINE first == Prefix(text, m)
  <2>4. first # <<>>
    BY <2>1, <2>2
  <2> HIDE DEF first
  <2>5. /\ Tail(first) \in Seq(T) /\ Len(Tail(first)) = Len(first) - 1
        /\ \A i \in 1..Len(Tail(first)) : Tail(first)[i] = first[i + 1]
    BY <2>2, <2>4, HeadTailProperties DEF first
  <2>6. Len(Tail(first)) = m - 1
    BY <2>1, <2>2, <2>5 DEF first
  <2>7. \A i \in 1..(m - 1) : Tail(first)[i] = Prefix(w, m - 1)[i]
    <3> SUFFICES ASSUME NEW i \in 1..(m - 1)
                 PROVE  Tail(first)[i] = Prefix(w, m - 1)[i]
      OBVIOUS
    <3>1. i \in 1..Len(w) /\ i + 1 \in 1..m /\ i + 1 \in 1..(Len(w) + 3)
      BY <1>6, <2>1
    <3>2. first[i + 1] = w[i]
      BY <1>5, <1>6, <2>2, <3>1 DEF first
    <3> QED
      BY <2>3, <2>5, <2>6, <3>1, <3>2
  <2>8. Tail(first) = Prefix(w, m - 1)
    BY <2>3, <2>5, <2>6, <2>7, SeqEqual
  <2> QED
    BY <1>7, <2>1, <2>8 DEF first
<1> DEFINE size == Tail(FirstLine(raw))
           rest == Remaining(raw)
<1>9. /\ rest \in Seq(T)
      /\ Len(rest) = IF n >= k + 3 THEN n - (k + 2) ELSE 0
      /\ \A i \in 1..Len(v) : i <= Len(rest) => rest[i] = v[i]
  <2>1. k \in Int /\ n \in Int
    BY <1>6
  <2>2. \A i \in (k + 3)..n : text[i] \in T
    <3> SUFFICES ASSUME NEW i \in (k + 3)..n
                 PROVE  text[i] \in T
      OBVIOUS
    <3>1. i \in 1..Len(text)
      BY <1>1, <1>3, <1>6, <2>1
    <3> QED
      BY <1>6, <3>1, ElementOfSeq
  <2>3. k = Len(w) + 1
    OBVIOUS
  <2> HIDE DEF k
  <2>4. /\ SubSeq(text, k + 3, n) \in Seq(T)
        /\ Len(SubSeq(text, k + 3, n)) = IF k + 3 <= n THEN n - (k + 3) + 1 ELSE 0
        /\ \A i \in 1..(n - (k + 3) + 1) : SubSeq(text, k + 3, n)[i] = text[(k + 3) + i - 1]
    BY <2>1, <2>2, SubSeqProperties
  <2>5. /\ rest \in Seq(T)
        /\ Len(rest) = IF k + 3 <= n THEN n - (k + 3) + 1 ELSE 0
        /\ \A i \in 1..(n - (k + 3) + 1) : rest[i] = text[(k + 3) + i - 1]
    BY <1>7, <2>4
  <2> HIDE DEF rest
  <2>6. ASSUME NEW i \in 1..Len(v), i <= Len(rest)
        PROVE  rest[i] = v[i]
    <3>1. i \in 1..(n - (k + 3) + 1) /\ (k + 3) + i - 1 = Len(w) + 3 + i
      BY <1>1, <1>6, <2>1, <2>3, <2>5, <2>6
    <3> QED
      BY <1>6, <2>5, <3>1
  <2>7. Len(rest) = IF n >= k + 3 THEN n - (k + 2) ELSE 0
    BY <2>1, <2>5
  <2> QED
    BY <2>5, <2>6, <2>7
<1>10. ASSUME IsNumber(size), Len(rest) >= NumberOf(size)
       PROVE  NumberOf(size) = Len(v) /\ Len(rest) >= Len(v)
  <2>1. CASE n >= k + 3
    <3>1. m = k
      BY <1>6, <2>1
    <3>2. m - 1 = Len(w) /\ Prefix(w, Len(w)) = w
      BY <1>1, <1>6, <3>1, PrefixWhole
    <3>3. size = w
      BY <1>8, <3>2
    <3> QED
      BY <1>1, <1>10, <3>3
  <2>2. CASE ~(n >= k + 3)
    <3>1. Len(rest) = 0
      BY <1>9, <2>2
    <3>2. m - 1 \in 1..Len(w)
      <4>1. CASE m - 1 = 0
        <5>1. 0 \in 0..Len(w) /\ size = Prefix(w, 0)
          BY <1>8, <4>1
        <5>2. Prefix(w, 0) \in Seq(T) /\ Len(Prefix(w, 0)) = 0
          BY <1>1, <5>1, PrefixIs
        <5>3. size = <<>>
          BY <5>1, <5>2
        <5> QED
          BY <1>10, <5>3 DEF IsNumber
      <4>2. m - 1 \in 0..Len(w)
        BY <1>8
      <4> QED
        BY <4>1, <4>2
    <3>3. NumberOf(size) \in Nat
      <4>1. size \in Seq(DigitSet)
        BY <1>1, <1>8, PrefixIs
      <4> HIDE DEF size
      <4> QED
        BY <4>1, NumberOfType
    <3>4. NumberOf(size) = 0
      <4> HIDE DEF size, rest
      <4> QED
        BY <1>10, <3>1, <3>3
    <3>5. Len(v) = 0
      <4> HIDE DEF m
      <4> QED
        BY <1>4, <1>8, <3>2, <3>4
    <3> QED
      BY <3>1, <3>4, <3>5
  <2> QED
    BY <2>1, <2>2
<1>11. ASSUME Len(rest) >= Len(v)
       PROVE  Prefix(rest, Len(v)) = v
  <2> HIDE DEF rest
  <2>1. Len(v) \in 0..Len(rest)
    BY <1>1, <1>9, <1>11
  <2>2. /\ Prefix(rest, Len(v)) \in Seq(T) /\ Len(Prefix(rest, Len(v))) = Len(v)
        /\ \A i \in 1..Len(v) : Prefix(rest, Len(v))[i] = rest[i]
    BY <1>9, <2>1, PrefixIs
  <2>3. \A i \in 1..Len(v) : Prefix(rest, Len(v))[i] = v[i]
    BY <1>1, <1>9, <1>11, <2>1, <2>2
  <2> QED
    BY <2>2, <2>3, SeqEqual
<1>12. ParseBulkStringResponse(raw) # Invalid =>
         /\ IsNumber(size) /\ Len(rest) >= NumberOf(size)
         /\ ParseBulkStringResponse(raw) = Bulk(Prefix(rest, NumberOf(size)))
  BY DEF ParseBulkStringResponse
<1> HIDE DEF raw, size, rest
<1>13. ParseBulkStringResponse(raw) = Invalid \/ ParseBulkStringResponse(raw) = Bulk(v)
  BY <1>10, <1>11, <1>12
<1> QED
  BY <1>13 DEF raw, text, head, w

\* The whole of a text, or what a connection that is cut lets through.
PartsOf(whole) == {whole} \cup {Prefix(whole, n) : n \in 0..(Len(whole) - 1)}

\* Each is a beginning of the text.
LEMMA PartIs ==
  ASSUME NEW T, NEW whole \in Seq(T), NEW text \in PartsOf(whole), text # <<>>
  PROVE  \E n \in 1..Len(whole) : text = Prefix(whole, n)
<1>1. CASE text = whole
  <2>1. Len(whole) \in 1..Len(whole)
    BY <1>1
  <2> QED
    BY <1>1, <2>1, PrefixWhole
<1>2. CASE text # whole
  <2>1. PICK n \in 0..(Len(whole) - 1) : text = Prefix(whole, n)
    BY <1>2 DEF PartsOf
  <2>2. CASE n = 0
    <3>1. 0 \in 0..Len(whole)
      OBVIOUS
    <3>2. Prefix(whole, 0) \in Seq(T) /\ Len(Prefix(whole, 0)) = 0
      BY <3>1, PrefixIs
    <3> QED
      BY <2>1, <2>2, <3>2
  <2>3. CASE n # 0
    <3>1. n \in 1..Len(whole)
      BY <2>3
    <3> QED
      BY <2>1, <3>1
  <2> QED
    BY <2>2, <2>3
<1> QED
  BY <1>1, <1>2

\* What may be read of a response of one line.
LineOutcome(kind, w, text) ==
  \/ ParseLineResponse(kind, text) = Invalid
  \/ \E j \in 1..Len(w) : ParseLineResponse(kind, text) = [kind |-> kind, value |-> Prefix(w, j)]

\* A part of the text of such a response begins with the same symbol.
LEMMA LinePart ==
  ASSUME NEW T, "\r" \in T, "\n" \in T, NEW c \in T \ {"\r", "\n"}, NEW w \in Seq(T),
         \A i \in 1..Len(w) : w[i] \notin {"\r", "\n"},
         NEW text \in PartsOf(LineText(c, w)), text # <<>>, NEW kind
  PROVE  text[1] = c /\ LineOutcome(kind, w, text)
<1>1. LineText(c, w) \in Seq(T) /\ Len(LineText(c, w)) = Len(w) + 3
  BY LineTextIs
<1>2. PICK n \in 1..(Len(w) + 3) : text = Prefix(LineText(c, w), n)
  BY <1>1, PartIs
<1>3. text[1] = c
  BY <1>2, LineRead
<1>4. LineOutcome(kind, w, text)
  BY <1>2, LineResponseIs DEF LineOutcome
<1> QED
  BY <1>3, <1>4

\* Whatever part of a response arrives, it is printed only as that response may be, and
\* taken for an error only if it is one: the connection may be cut anywhere.
THEOREM ResponsesAreRead ==
  ASSUME NEW a \in Answers,
         NEW text \in PartsOf(Serialize(a))
  PROVE  LET kind == ParseProtocolResponse(text).kind IN
         /\ kind \notin {"invalid", "error"} => Printed(text) \in Atomic!Printable(a)
         /\ kind = "error" => a.kind = "error"
<1> DEFINE Good == /\ ParseProtocolResponse(text).kind \notin {"invalid", "error"}
                        => Printed(text) \in Atomic!Printable(a)
                   /\ ParseProtocolResponse(text).kind = "error" => a.kind = "error"
<1>1. ASSUME ParseProtocolResponse(text) = Invalid
      PROVE  Good
  BY <1>1 DEF Invalid
<1>3. CASE text = <<>>
  BY <1>1, <1>3 DEF ParseProtocolResponse
<1>5. CASE \E v \in Value : a = Bulk(v)
  <2>1. PICK v \in Value : a = Bulk(v)
    BY <1>5
  <2> DEFINE T == {v[i] : i \in DOMAIN v} \cup DigitSet \cup {"$", "\r", "\n"}
  <2>3. /\ {v[i] : i \in DOMAIN v} \subseteq T /\ DigitSet \subseteq T
        /\ "$" \in T /\ "\r" \in T /\ "\n" \in T
    OBVIOUS
  <2> HIDE DEF T
  <2>2. v \in Seq(T) /\ Len(v) \in Nat
    <3>1. v \in Seq({v[i] : i \in DOMAIN v})
      BY ServiceAssumption
    <3>2. v \in Seq(T)
      BY <2>3, <3>1, SeqMonotonic
    <3> QED
      BY <3>2
  <2>4. Decimal[Len(v)] \in Seq(T)
    <3>1. Decimal[Len(v)] \in Seq(DigitSet)
      BY <2>2, DecimalIs
    <3> QED
      BY <2>3, <3>1, SeqMonotonic
  <2> DEFINE head  == LineText("$", Decimal[Len(v)])
             whole == BulkText(head, v)
  <2>5. Serialize(a) = whole
    BY <2>1, Zenon DEF Serialize, Bulk, BulkText, LineText
  <2>6. head \in Seq(T) /\ Len(head) = Len(Decimal[Len(v)]) + 3 /\ head[1] = "$"
    <3> DEFINE w == Decimal[Len(v)]
    <3> HIDE DEF w
    <3>1. w \in Seq(T)
      BY <2>4 DEF w
    <3>2. LineText("$", w) \in Seq(T) /\ Len(LineText("$", w)) = Len(w) + 3 /\ LineText("$", w)[1] = "$"
      BY <2>3, <3>1, LineTextIs
    <3> QED
      BY <3>2 DEF w
  <2>7. /\ whole \in Seq(T) /\ Len(whole) = Len(head) + Len(v) + 2
        /\ \A i \in 1..Len(head) : whole[i] = head[i]
    <3> HIDE DEF head
    <3>1. head \in Seq(T) /\ v \in Seq(T)
      BY <2>2, <2>6
    <3> QED
      BY <2>3, <3>1, BulkTextIs
  <2>8. ASSUME text # <<>>
        PROVE  Good
    <3> HIDE DEF head
    <3>1. PICK n \in 1..Len(whole) : text = Prefix(whole, n)
      <4> HIDE DEF whole
      <4> QED
        BY <2>5, <2>7, <2>8, PartIs
    <3>2. n \in 1..(Len(Decimal[Len(v)]) + Len(v) + 5)
      BY <2>2, <2>4, <2>6, <2>7
    <3>3. \/ ParseBulkStringResponse(text) = Invalid
          \/ ParseBulkStringResponse(text) = Bulk(v)
      BY <2>2, <2>3, <3>1, <3>2, BulkResponseIs DEF head
    <3>4. text # <<>> /\ text[1] = "$"
      <4>1. n \in 0..Len(whole) /\ 1 \in 1..n /\ 1 \in 1..Len(head)
        BY <2>4, <2>6, <2>7, <3>1
      <4> HIDE DEF whole
      <4>2. text[1] = whole[1]
        BY <2>7, <3>1, <4>1, PrefixIs
      <4> QED
        BY <2>6, <2>7, <2>8, <4>1, <4>2
    <3>5. ParseProtocolResponse(text) = ParseBulkStringResponse(text)
      BY <3>4 DEF ParseProtocolResponse
    <3>6. ASSUME ParseProtocolResponse(text) = Bulk(v)
          PROVE  Good
      <4>1. Printed(text) = v
        BY <3>6 DEF Printed, Bulk
      <4>2. Atomic!Printable(a) = {v}
        BY <2>1 DEF Atomic!Printable, Bulk
      <4> QED
        BY <3>6, <4>1, <4>2 DEF Bulk
    <3> QED
      BY <1>1, <3>3, <3>5, <3>6
  <2> QED
    BY <1>3, <2>8
<1>6. CASE a = CommandOk \/ a = Pong
  <2>1. /\ a.kind = "simple" /\ a = Simple(a.value) /\ Len(a.value) \in Nat
        /\ a.value \in Seq({"O", "K", "P", "N", "G", "+", "\r", "\n"})
        /\ \A i \in 1..Len(a.value) : a.value[i] \notin {"\r", "\n"}
    <3>1. CASE a = CommandOk
      BY <3>1 DEF CommandOk, Simple
    <3>2. CASE a = Pong
      BY <3>2 DEF Pong, Simple
    <3> QED
      BY <1>6, <3>1, <3>2
  <2>2. Serialize(a) = LineText("+", a.value)
    BY <2>1, Zenon DEF Serialize, LineText
  <2>3. text # <<>> /\ text[1] = "+" =>
           ParseProtocolResponse(text) = ParseLineResponse("simple", text)
    BY DEF ParseProtocolResponse
  <2>4. ASSUME NEW j \in 1..Len(a.value),
               ParseProtocolResponse(text) = [kind |-> "simple", value |-> Prefix(a.value, j)]
        PROVE  Good
    <3>1. Printed(text) = Prefix(a.value, j)
      BY <2>4 DEF Printed
    <3>2. Prefix(a.value, j) \in Atomic!Printable(a)
      BY <2>1 DEF Atomic!Printable, Atomic!Prefix, Prefix
    <3> QED
      BY <2>4, <3>1, <3>2
  <2> DEFINE T == {"O", "K", "P", "N", "G", "+", "\r", "\n"}
  <2>5. a.value \in Seq(T) /\ "\r" \in T /\ "\n" \in T /\ "+" \in T \ {"\r", "\n"}
    BY <2>1
  <2> HIDE DEF T
  <2>6. ASSUME text # <<>>
        PROVE  \/ ParseProtocolResponse(text) = Invalid
               \/ \E j \in 1..Len(a.value) :
                    ParseProtocolResponse(text) = [kind |-> "simple", value |-> Prefix(a.value, j)]
    <3> DEFINE w == a.value
    <3>1. w \in Seq(T) /\ \A i \in 1..Len(w) : w[i] \notin {"\r", "\n"}
      BY <2>1, <2>5
    <3>2. Serialize(a) = LineText("+", w)
      BY <2>2
    <3> HIDE DEF w
    <3>3. text[1] = "+" /\ LineOutcome("simple", w, text)
      BY <3>1, <3>2, <2>3, <2>5, <2>6, LinePart
    <3> QED
      BY <3>3, <2>3, <2>5, <2>6 DEF w, LineOutcome
  <2> QED
    BY <1>1, <1>3, <2>4, <2>6
<1>7. CASE a = Number(0) \/ a = Number(1)
  <2>1. PICK n \in 0..1 : a = Number(n)
    BY <1>7
  <2>2. a.kind = "integer" /\ a.value = <<Digits[n + 1]>>
    <3>1. n \in Nat /\ n < 10
      BY <2>1
    <3>2. Decimal[n] = <<Digits[n + 1]>>
      BY <3>1, DecimalIs
    <3> QED
      BY <2>1, <3>2 DEF Number
  <2>3. Digits[n + 1] \in {"0", "1"}
    BY <2>1 DEF Digits
  <2>4. /\ a.value \in Seq({"0", "1", ":", "\r", "\n"}) /\ Len(a.value) = 1
        /\ \A i \in 1..Len(a.value) : a.value[i] \notin {"\r", "\n"}
    BY <2>2, <2>3
  <2>5. Serialize(a) = LineText(":", a.value)
    BY <2>2, Zenon DEF Serialize, LineText
  <2>6. text # <<>> /\ text[1] = ":" =>
           ParseProtocolResponse(text) = ParseLineResponse("integer", text)
    BY DEF ParseProtocolResponse
  <2>7. ASSUME NEW j \in 1..Len(a.value),
               ParseProtocolResponse(text) = [kind |-> "integer", value |-> Prefix(a.value, j)]
        PROVE  Good
    <3>1. Printed(text) = a.value
      <4>1. j = Len(a.value)
        BY <2>4
      <4>2. Prefix(a.value, j) = a.value
        BY <2>4, <4>1, PrefixWhole
      <4> QED
        BY <2>7, <4>2 DEF Printed
    <3>2. Atomic!Printable(a) = {a.value}
      BY <2>2 DEF Atomic!Printable
    <3> QED
      BY <2>7, <3>1, <3>2
  <2> DEFINE T == {"0", "1", ":", "\r", "\n"}
  <2>8. a.value \in Seq(T) /\ "\r" \in T /\ "\n" \in T /\ ":" \in T \ {"\r", "\n"}
    BY <2>4
  <2> HIDE DEF T
  <2>9. ASSUME text # <<>>
        PROVE  \/ ParseProtocolResponse(text) = Invalid
               \/ \E j \in 1..Len(a.value) :
                    ParseProtocolResponse(text) = [kind |-> "integer", value |-> Prefix(a.value, j)]
    <3> DEFINE w == a.value
    <3>1. w \in Seq(T) /\ \A i \in 1..Len(w) : w[i] \notin {"\r", "\n"}
      BY <2>4, <2>8
    <3>2. Serialize(a) = LineText(":", w)
      BY <2>5
    <3> HIDE DEF w
    <3>3. text[1] = ":" /\ LineOutcome("integer", w, text)
      BY <3>1, <3>2, <2>6, <2>8, <2>9, LinePart
    <3> QED
      BY <3>3, <2>6, <2>8, <2>9 DEF w, LineOutcome
  <2> QED
    BY <1>1, <1>3, <2>7, <2>9
<1>8. CASE \E code \in {"invalid_argument", "not_found", "unavailable"} : a = Failure(code)
  <2>1. PICK code \in {"invalid_argument", "not_found", "unavailable"} : a = Failure(code)
    BY <1>8
  <2> DEFINE T == {"ERR", " ", code, "-", "\r", "\n"}
  <2>2. /\ a.kind = "error" /\ a.value \in Seq(T)
        /\ \A i \in 1..Len(a.value) : a.value[i] \notin {"\r", "\n"}
    <3>1. a.kind = "error" /\ a.value = <<"ERR", " ", code>>
      BY <2>1 DEF Failure
    <3>2. code # "\r" /\ code # "\n"
      OBVIOUS
    <3>3. <<"ERR", " ", code>> \in Seq(T)
      OBVIOUS
    <3>4. \A i \in 1..3 : <<"ERR", " ", code>>[i] \notin {"\r", "\n"}
      <4>1. /\ <<"ERR", " ", code>>[1] = "ERR" /\ <<"ERR", " ", code>>[2] = " "
            /\ <<"ERR", " ", code>>[3] = code
        OBVIOUS
      <4>2. \A i \in 1..3 : i = 1 \/ i = 2 \/ i = 3
        OBVIOUS
      <4> QED
        BY <3>2, <4>1, <4>2, Zenon
    <3>5. Len(<<"ERR", " ", code>>) = 3
      OBVIOUS
    <3> QED
      BY <3>1, <3>3, <3>4, <3>5
  <2>8. "\r" \in T /\ "\n" \in T /\ "-" \in T \ {"\r", "\n"}
    OBVIOUS
  <2> HIDE DEF T
  <2>3. Serialize(a) = LineText("-", a.value)
    BY <2>2, Zenon DEF Serialize, LineText
  <2>4. text # <<>> /\ text[1] = "-" =>
           ParseProtocolResponse(text) = ParseLineResponse("error", text)
    BY DEF ParseProtocolResponse
  <2>5. ASSUME text # <<>>
        PROVE  \/ ParseProtocolResponse(text) = Invalid
               \/ \E j \in 1..Len(a.value) :
                    ParseProtocolResponse(text) = [kind |-> "error", value |-> Prefix(a.value, j)]
    <3> DEFINE w == a.value
    <3>1. w \in Seq(T) /\ \A i \in 1..Len(w) : w[i] \notin {"\r", "\n"}
      BY <2>2, <2>8
    <3>2. Serialize(a) = LineText("-", w)
      BY <2>3
    <3> HIDE DEF w
    <3>3. text[1] = "-" /\ LineOutcome("error", w, text)
      <4>1. text \in PartsOf(LineText("-", w))
        BY <3>2
      <4> QED
        BY <3>1, <4>1, <2>5, <2>8, LinePart
    <3> QED
      BY <3>3, <2>4, <2>5, <2>8 DEF w, LineOutcome
  <2>6. text = <<>> => ParseProtocolResponse(text) = Invalid
    BY DEF ParseProtocolResponse
  <2>7. ParseProtocolResponse(text).kind \in {"invalid", "error"}
    BY <2>5, <2>6 DEF Invalid
  <2> QED
    BY <2>2, <2>7
<1> QED
  BY <1>5, <1>6, <1>7, <1>8 DEF Answers

-----------------------------------------------------------------------------
(* Tokens of a command line *)

\* The parts ts with one more, if it is not empty.
WithPart(ts, t) == IF t = <<>> THEN ts ELSE Append(ts, t)

\* v is what is found of ts, part by part.
FoundIn(T, ts, v) ==
  /\ v \in [0..Len(ts) -> Seq(Seq(T))] /\ v[0] = <<>> /\ NonEmpty(ts) = v[Len(ts)]
  /\ \A i \in 1..Len(ts) : v[i] = WithPart(v[i - 1], ts[i])

\* The parts that are not empty are found one by one.
LEMMA NonEmptySteps ==
  ASSUME NEW T, NEW ts \in Seq(Seq(T))
  PROVE  \E v : FoundIn(T, ts, v)
<1> DEFINE none       == <<>>
           next(u, i) == IF ts[i] = <<>> THEN u ELSE Append(u, ts[i])
           step       == [i \in 1..Len(ts) |-> [u \in Seq(Seq(T)) |-> next(u, i)]]
<1>0. Len(ts) \in Nat /\ none \in Seq(Seq(T))
  OBVIOUS
<1>1. ASSUME NEW i \in 1..Len(ts), NEW u \in Seq(Seq(T))
      PROVE  next(u, i) \in Seq(Seq(T))
  <2>1. ts[i] \in Seq(T)
    BY SymbolOf
  <2> QED
    BY <2>1
<1> HIDE DEF none, next
<1>2. step \in [1..Len(ts) -> [Seq(Seq(T)) -> Seq(Seq(T))]]
  BY <1>1
<1>3. \A i \in 1..Len(ts), u \in Seq(Seq(T)) : step[i][u] = next(u, i)
  OBVIOUS
<1> HIDE DEF step
<1>4. PICK v \in [0..Len(ts) -> Seq(Seq(T))] : StepsTo(v, Len(ts), none, step)
  BY <1>0, <1>2, StepsExist
<1>5. v[0] = none
  BY <1>4 DEF StepsTo
<1>6. ASSUME NEW i \in 1..Len(ts)
      PROVE  v[i] = next(v[i - 1], i)
  <2>1. i - 1 \in 0..Len(ts)
    BY <1>0
  <2>2. v[i] = step[i][v[i - 1]]
    BY <1>4 DEF StepsTo
  <2> QED
    BY <1>3, <2>1, <2>2
<1>7. v = [i \in 0..Len(ts) |-> IF i = 0 THEN none ELSE next(v[i - 1], i)]
  <2>1. ASSUME NEW i \in 0..Len(ts)
        PROVE  v[i] = IF i = 0 THEN none ELSE next(v[i - 1], i)
    <3>1. i = 0 \/ i \in 1..Len(ts)
      BY <1>0
    <3> QED
      BY <1>5, <1>6, <3>1
  <2> QED
    BY <2>1
<1> DEFINE upto == CHOOSE w : w = [i \in 0..Len(ts) |-> IF i = 0 THEN none ELSE next(w[i - 1], i)]
<1>8. upto = [i \in 0..Len(ts) |-> IF i = 0 THEN none ELSE next(upto[i - 1], i)]
  BY <1>7, Zenon
<1>9. NonEmpty(ts) = upto[Len(ts)]
  BY Zenon DEF NonEmpty, none, next
<1> HIDE DEF upto
<1> DEFINE S == {i \in Nat : i <= Len(ts) => upto[i] = v[i]}
<1>10. Nat \subseteq S
  <2>1. 0 \in S
    BY <1>0, <1>5, <1>8
  <2>2. ASSUME NEW i \in Nat, i \in S
        PROVE  i + 1 \in S
    <3> SUFFICES ASSUME i + 1 <= Len(ts)
                 PROVE  upto[i + 1] = v[i + 1]
      OBVIOUS
    <3>1. i + 1 \in 0..Len(ts) /\ i + 1 # 0 /\ (i + 1) - 1 = i /\ upto[i] = v[i]
      BY <1>0, <2>2
    <3>2. upto[i + 1] = next(upto[i], i + 1)
      BY <1>8, <3>1
    <3>3. v[i + 1] = next(v[i], i + 1)
      BY <1>7, <3>1
    <3> QED
      BY <3>1, <3>2, <3>3
  <2> HIDE DEF S
  <2> QED
    BY <2>1, <2>2, SetInduction
<1>11. NonEmpty(ts) = v[Len(ts)]
  <2>1. Len(ts) \in S
    BY <1>0, <1>10, Zenon
  <2>2. upto[Len(ts)] = v[Len(ts)]
    BY <1>0, <2>1
  <2> QED
    BY <1>9, <2>2, Zenon
<1> HIDE DEF S
<1>12. \A i \in 1..Len(ts) : v[i] = WithPart(v[i - 1], ts[i])
  BY <1>6, Zenon DEF next, WithPart
<1>13. v[0] = <<>>
  BY <1>5 DEF none
<1>14. v \in [0..Len(ts) -> Seq(Seq(T))]
  OBVIOUS
<1>15. FoundIn(T, ts, v)
  BY <1>11, <1>12, <1>13, <1>14, Zenon DEF FoundIn
<1> QED
  BY <1>15, Zenon

\* No part is not empty where there is none.
LEMMA NonEmptyNone ==
  ASSUME NEW T, NEW ts \in Seq(Seq(T)), Len(ts) = 0
  PROVE  NonEmpty(ts) = <<>>
<1>1. PICK v : FoundIn(T, ts, v)
  BY NonEmptySteps, Zenon
<1> QED
  BY <1>1, Zenon DEF FoundIn

\* One more part comes last, if it is not empty.
LEMMA NonEmptyAppend ==
  ASSUME NEW T, NEW ts \in Seq(Seq(T)), NEW t \in Seq(T)
  PROVE  /\ NonEmpty(ts) \in Seq(Seq(T))
         /\ NonEmpty(Append(ts, t)) = IF t = <<>> THEN NonEmpty(ts) ELSE Append(NonEmpty(ts), t)
<1> DEFINE us == Append(ts, t)
<1>1. /\ us \in Seq(Seq(T)) /\ Len(us) = Len(ts) + 1 /\ us[Len(ts) + 1] = t
      /\ \A i \in 1..Len(ts) : us[i] = ts[i]
  BY AppendProperties
<1>2. Len(ts) \in Nat
  OBVIOUS
<1> HIDE DEF us
<1>A. PICK v : FoundIn(T, ts, v)
  BY NonEmptySteps, Zenon
<1>B. PICK w : FoundIn(T, us, w)
  <2>1. us \in Seq(Seq(T))
    BY <1>1
  <2> QED
    BY <2>1, NonEmptySteps, Zenon
<1>3. /\ v \in [0..Len(ts) -> Seq(Seq(T))] /\ v[0] = <<>> /\ NonEmpty(ts) = v[Len(ts)]
      /\ \A i \in 1..Len(ts) : v[i] = WithPart(v[i - 1], ts[i])
  BY <1>A, Zenon DEF FoundIn
<1>4. /\ w \in [0..Len(us) -> Seq(Seq(T))] /\ w[0] = <<>> /\ NonEmpty(us) = w[Len(us)]
      /\ \A i \in 1..Len(us) : w[i] = WithPart(w[i - 1], us[i])
  BY <1>B, Zenon DEF FoundIn
<1> DEFINE S == {i \in Nat : i <= Len(ts) => w[i] = v[i]}
<1>5. Nat \subseteq S
  <2>1. 0 \in S
    BY <1>3, <1>4
  <2>2. ASSUME NEW i \in Nat, i \in S
        PROVE  i + 1 \in S
    <3> SUFFICES ASSUME i + 1 <= Len(ts)
                 PROVE  w[i + 1] = v[i + 1]
      OBVIOUS
    <3>1. i + 1 \in 1..Len(ts) /\ i + 1 \in 1..Len(us) /\ (i + 1) - 1 = i /\ w[i] = v[i]
      BY <1>1, <1>2, <2>2
    <3>2. w[i + 1] = WithPart(w[i], us[i + 1])
      BY <1>4, <3>1
    <3>3. v[i + 1] = WithPart(v[i], ts[i + 1])
      BY <1>3, <3>1
    <3> QED
      BY <1>1, <3>1, <3>2, <3>3
  <2> HIDE DEF S
  <2> QED
    BY <2>1, <2>2, SetInduction
<1>6. w[Len(ts)] = v[Len(ts)]
  BY <1>2, <1>5
<1> HIDE DEF S
<1>7. w[Len(us)] = WithPart(w[Len(ts)], t)
  <2>1. Len(us) \in 1..Len(us) /\ Len(us) - 1 = Len(ts) /\ us[Len(us)] = t
    BY <1>1, <1>2
  <2> QED
    BY <1>4, <2>1
<1>8. NonEmpty(ts) \in Seq(Seq(T))
  <2>1. Len(ts) \in 0..Len(ts)
    BY <1>2
  <2> QED
    BY <1>3, <2>1
<1>9. NonEmpty(us) = WithPart(NonEmpty(ts), t)
  BY <1>3, <1>4, <1>6, <1>7
<1> QED
  BY <1>8, <1>9, Zenon DEF us, WithPart

\* A command line with blanks of one kind only.
Spaced(text) == [i \in 1..Len(text) |-> IF text[i] \in Blanks THEN " " ELSE text[i]]

\* What becomes of a symbol.
Space(x) == IF x \in Blanks THEN " " ELSE x

\* A blank becomes a blank.
LEMMA SpaceIs ==
  /\ " " \in Blanks /\ Space(" ") = " "
  /\ \A x \in Blanks : Space(x) = " "
  /\ \A x : x \notin Blanks => Space(x) = x /\ x # " "
BY DEF Blanks, Space

\* Symbol by symbol.
LEMMA SpacedIs ==
  ASSUME NEW T, Blanks \subseteq T, NEW s \in Seq(T)
  PROVE  /\ Spaced(s) \in Seq(T) /\ Len(Spaced(s)) = Len(s)
         /\ \A i \in 1..Len(s) : Spaced(s)[i] = Space(s[i])
<1> DEFINE u == [i \in 1..Len(s) |-> Space(s[i])]
<1>1. Spaced(s) = u
  BY Zenon DEF Spaced, Space
<1>2. Len(s) \in Nat
  OBVIOUS
<1>3. \A i \in 1..Len(s) : Space(s[i]) \in T
  BY SymbolOf, SpaceIs DEF Space
<1>4. u \in Seq(T) /\ Len(u) = Len(s) /\ \A i \in 1..Len(s) : u[i] = Space(s[i])
  BY <1>2, <1>3
<1> QED
  BY <1>1, <1>4

\* Where a text, a separator and another text end up; T is the alphabet.
Placed(T, s, c, t) ==
  /\ Separated(s, c, t) \in Seq(T) /\ Len(Separated(s, c, t)) = Len(s) + 1 + Len(t)
  /\ \A i \in 1..Len(s) : Separated(s, c, t)[i] = s[i]
  /\ Separated(s, c, t)[Len(s) + 1] = c
  /\ \A i \in 1..Len(t) : Separated(s, c, t)[Len(s) + 1 + i] = t[i]

\* There they are.
LEMMA SeparatedAt ==
  ASSUME NEW T, NEW s \in Seq(T), NEW c \in T, NEW t \in Seq(T)
  PROVE  Placed(T, s, c, t)
<1> DEFINE u == Append(s, c)
<1>1. u \in Seq(T) /\ Len(u) = Len(s) + 1 /\ u[Len(s) + 1] = c /\ \A i \in 1..Len(s) : u[i] = s[i]
  BY AppendProperties
<1>2. Separated(s, c, t) = Join(u, t)
  BY DEF Separated
<1> HIDE DEF u
<1>3. u \in Seq(T)
  BY <1>1
<1>4. Join(u, t) \in Seq(T) /\ Len(Join(u, t)) = Len(u) + Len(t)
  BY <1>3, JoinIs
<1>5. /\ \A i \in 1..Len(u) : Join(u, t)[i] = u[i]
      /\ \A i \in 1..Len(t) : Join(u, t)[Len(u) + i] = t[i]
  BY <1>3, JoinAt
<1>6. Len(s) \in Nat
  OBVIOUS
<1>7. \A i \in 1..Len(s) : i \in 1..Len(u)
  BY <1>1, <1>6
<1>8. Len(s) + 1 \in 1..Len(u)
  BY <1>1, <1>6
<1>9. /\ Join(u, t) \in Seq(T) /\ Len(Join(u, t)) = Len(s) + 1 + Len(t)
      /\ \A i \in 1..Len(s) : Join(u, t)[i] = s[i]
      /\ Join(u, t)[Len(s) + 1] = c
      /\ \A i \in 1..Len(t) : Join(u, t)[Len(s) + 1 + i] = t[i]
  BY <1>1, <1>4, <1>5, <1>7, <1>8
<1> QED
  BY <1>2, <1>9, Zenon DEF Placed

\* The length of a text is a number.
LEMMA TextLen ==
  ASSUME NEW T, NEW s \in Seq(T)
  PROVE  Len(s) \in Nat
OBVIOUS

\* Two texts of the same length and symbols are one.
LEMMA SameText ==
  ASSUME NEW T, NEW s \in Seq(T), NEW t \in Seq(T), Len(s) = Len(t), \A i \in 1..Len(s) : s[i] = t[i]
  PROVE  s = t
OBVIOUS

\* A blank between a line and a token becomes a blank between them.
Respaced(s, b, t) == Spaced(Separated(s, b, t)) = Separated(Spaced(s), " ", t)

\* A line, a blank and a token, with blanks of one kind.
LEMMA SpacedField ==
  ASSUME NEW T, Blanks \subseteq T, NEW s \in Seq(T), NEW b \in Blanks, NEW t \in Seq(T \ Blanks)
  PROVE  /\ t \in Seq(T) /\ Without(t, " ") /\ Spaced(t) = t
         /\ Respaced(s, b, t)
<1> DEFINE sp == " "
           u  == Separated(s, b, t)
           w  == Separated(Spaced(s), sp, t)
<1>1. t \in Seq(T)
  BY MoreSymbols
<1>2. \A i \in 1..Len(t) : t[i] \notin Blanks
  BY SymbolOf
<1>3. sp \in T /\ b \in T /\ Space(b) = sp /\ \A x : x \notin Blanks => Space(x) = x /\ x # sp
  BY SpaceIs
<1> HIDE DEF sp, u, w
<1>4. Without(t, sp)
  BY <1>2, <1>3 DEF Without
<1>5. \A i \in 1..Len(t) : Space(t[i]) = t[i]
  BY <1>2, <1>3
<1>6. Spaced(t) \in Seq(T) /\ Len(Spaced(t)) = Len(t) /\ \A i \in 1..Len(t) : Spaced(t)[i] = Space(t[i])
  BY <1>1, SpacedIs
<1>7. Spaced(t) = t
  BY <1>1, <1>5, <1>6, SameText
<1>8. Spaced(s) \in Seq(T) /\ Len(Spaced(s)) = Len(s) /\ \A i \in 1..Len(s) : Spaced(s)[i] = Space(s[i])
  BY SpacedIs
<1>9. /\ u \in Seq(T) /\ Len(u) = Len(s) + 1 + Len(t)
      /\ \A i \in 1..Len(s) : u[i] = s[i]
      /\ u[Len(s) + 1] = b
      /\ \A i \in 1..Len(t) : u[Len(s) + 1 + i] = t[i]
  <2>1. Placed(T, s, b, t)
    BY <1>1, <1>3, SeparatedAt, Zenon
  <2> QED
    BY <2>1, Zenon DEF Placed, u
<1>10. /\ w \in Seq(T) /\ Len(w) = Len(s) + 1 + Len(t)
       /\ \A i \in 1..Len(s) : w[i] = Space(s[i])
       /\ w[Len(s) + 1] = sp
       /\ \A i \in 1..Len(t) : w[Len(s) + 1 + i] = t[i]
  <2> DEFINE r == Spaced(s)
  <2>1. r \in Seq(T) /\ Len(r) = Len(s) /\ \A i \in 1..Len(s) : r[i] = Space(s[i])
    BY <1>8
  <2> HIDE DEF r
  <2>2. /\ Separated(r, sp, t) \in Seq(T) /\ Len(Separated(r, sp, t)) = Len(r) + 1 + Len(t)
        /\ \A i \in 1..Len(r) : Separated(r, sp, t)[i] = r[i]
        /\ Separated(r, sp, t)[Len(r) + 1] = sp
        /\ \A i \in 1..Len(t) : Separated(r, sp, t)[Len(r) + 1 + i] = t[i]
    <3>1. r \in Seq(T) /\ sp \in T
      BY <1>3, <2>1
    <3>2. Placed(T, r, sp, t)
      BY <1>1, <3>1, SeparatedAt, Zenon
    <3> QED
      BY <3>2, Zenon DEF Placed
  <2>3. w = Separated(r, sp, t)
    BY DEF w, r
  <2> QED
    BY <2>1, <2>2, <2>3
<1>11. /\ Spaced(u) \in Seq(T) /\ Len(Spaced(u)) = Len(u)
       /\ \A i \in 1..Len(u) : Spaced(u)[i] = Space(u[i])
  BY <1>9, SpacedIs
<1>12. ASSUME NEW i \in 1..Len(u)
       PROVE  Spaced(u)[i] = w[i]
  <2>1. Len(s) \in Nat /\ Len(t) \in Nat
    BY <1>1, TextLen
  <2>2. Spaced(u)[i] = Space(u[i])
    BY <1>11
  <2>3. CASE i \in 1..Len(s)
    BY <1>9, <1>10, <2>2, <2>3
  <2>4. CASE i = Len(s) + 1
    BY <1>3, <1>9, <1>10, <2>2, <2>4
  <2>5. ASSUME NEW j \in 1..Len(t), i = Len(s) + 1 + j
        PROVE  Spaced(u)[i] = w[i]
    BY <1>5, <1>9, <1>10, <2>2, <2>5
  <2>6. i \in 1..Len(s) \/ i = Len(s) + 1 \/ \E j \in 1..Len(t) : i = Len(s) + 1 + j
    <3>1. i \in 1..(Len(s) + 1 + Len(t))
      BY <1>9
    <3>2. i \in 1..Len(s) \/ i = Len(s) + 1 \/ i - (Len(s) + 1) \in 1..Len(t)
      BY <2>1, <3>1
    <3>3. i = Len(s) + 1 + (i - (Len(s) + 1))
      BY <2>1, <3>1
    <3> QED
      BY <3>2, <3>3
  <2> QED
    BY <2>3, <2>4, <2>5, <2>6
<1>13. Spaced(u) = w
  <2>1. Len(Spaced(u)) = Len(w) /\ \A i \in 1..Len(Spaced(u)) : Spaced(u)[i] = w[i]
    BY <1>9, <1>10, <1>11, <1>12
  <2> QED
    BY <1>10, <1>11, <2>1, SameText
<1> QED
  BY <1>1, <1>4, <1>7, <1>13, Zenon DEF sp, u, w, Respaced

\* A command line that is one field, and one with a blank and a field at its end; T is the
\* alphabet.
OneField(t) == Tokens(t) = IF t = <<>> THEN <<>> ELSE <<t>>
AnotherField(s, b, t) ==
  Tokens(Separated(s, b, t)) = IF t = <<>> THEN Tokens(s) ELSE Append(Tokens(s), t)
Fields(T, s, b, t) == OneField(t) /\ AnotherField(s, b, t)

\* What their tokens are.
LEMMA TokensField ==
  ASSUME NEW T, Blanks \subseteq T, NEW s \in Seq(T), NEW b \in Blanks, NEW t \in Seq(T \ Blanks)
  PROVE  Fields(T, s, b, t)
<1> DEFINE sp == " "
           r  == Spaced(s)
           ls == Split(r, sp)
           ms == Split(Separated(r, sp, t), sp)
<1>1. \A text : Tokens(text) = NonEmpty(Split(Spaced(text), sp))
  BY Zenon DEF Tokens, Spaced
<1>2. sp \in T
  BY SpaceIs
<1>3. t \in Seq(T) /\ Without(t, sp) /\ Spaced(t) = t /\ Spaced(Separated(s, b, t)) = Separated(r, sp, t)
  <2>1. t \in Seq(T) /\ Without(t, " ")
    BY SpacedField
  <2>2. Spaced(t) = t
    BY SpacedField
  <2>3. Respaced(s, b, t)
    BY SpacedField
  <2> QED
    BY <2>1, <2>2, <2>3, Zenon DEF Respaced
<1>4. r \in Seq(T)
  BY SpacedIs
<1> HIDE DEF sp, r
<1>5. ls \in Parts(T)
  BY <1>4, SplitIs
<1>6. ls \in Seq(Seq(T))
  BY <1>5 DEF Parts
<1>7. Separated(r, sp, t) \in Seq(T)
  BY <1>2, <1>3, <1>4, SeparatedAt, Zenon DEF Placed
<1>8. ms \in Parts(T)
  BY <1>7, SplitIs
<1>9. ms \in Seq(Seq(T))
  BY <1>8 DEF Parts
<1>10. /\ Len(ms) = Len(ls) + 1
       /\ \A k \in 1..Len(ls) : ms[k] = ls[k]
       /\ ms[Len(ls) + 1] = t
  BY <1>2, <1>3, <1>4, SplitField
<1> HIDE DEF ls, ms
<1>11. ms = Append(ls, t)
  <2> DEFINE ns == Append(ls, t)
  <2>1. /\ ns \in Seq(Seq(T)) /\ Len(ns) = Len(ls) + 1 /\ ns[Len(ls) + 1] = t
        /\ \A k \in 1..Len(ls) : ns[k] = ls[k]
    BY <1>3, <1>6, AppendProperties
  <2> HIDE DEF ns
  <2>2. Len(ls) \in Nat
    BY <1>6
  <2>3. ASSUME NEW k \in 1..Len(ms)
        PROVE  ms[k] = ns[k]
    <3>1. k \in 1..Len(ls) \/ k = Len(ls) + 1
      BY <1>10, <2>2
    <3> QED
      BY <1>10, <2>1, <3>1
  <2>4. Len(ms) = Len(ns)
    BY <1>10, <2>1
  <2>5. ms = ns
    BY <1>9, <2>1, <2>3, <2>4, SameText
  <2> QED
    BY <2>5 DEF ns
<1>12. /\ NonEmpty(ls) \in Seq(Seq(T))
       /\ NonEmpty(Append(ls, t)) = IF t = <<>> THEN NonEmpty(ls) ELSE Append(NonEmpty(ls), t)
  BY <1>3, <1>6, NonEmptyAppend
<1>13. Tokens(s) = NonEmpty(ls) /\ Tokens(Separated(s, b, t)) = NonEmpty(ms)
  BY <1>1, <1>3, Zenon DEF ls, ms, r
<1>14. Tokens(t) = IF t = <<>> THEN <<>> ELSE <<t>>
  <2>1. Tokens(t) = NonEmpty(<<t>>)
    <3>1. Split(t, sp) = <<t>>
      BY <1>3, SplitOne
    <3> QED
      BY <1>1, <1>3, <3>1
  <2>2. <<>> \in Seq(Seq(T)) /\ Append(<<>>, t) = <<t>>
    BY <1>3
  <2> DEFINE none == <<>>
  <2>3. none \in Seq(Seq(T)) /\ Len(none) = 0
    OBVIOUS
  <2> HIDE DEF none
  <2>4. NonEmpty(Append(none, t)) = IF t = <<>> THEN NonEmpty(none) ELSE Append(NonEmpty(none), t)
    BY <1>3, <2>3, NonEmptyAppend
  <2>5. NonEmpty(none) = <<>>
    BY <2>3, NonEmptyNone
  <2> QED
    BY <2>1, <2>2, <2>4, <2>5 DEF none
<1>15. Tokens(Separated(s, b, t)) = IF t = <<>> THEN Tokens(s) ELSE Append(Tokens(s), t)
  BY <1>11, <1>12, <1>13
<1> QED
  BY <1>14, <1>15, Zenon DEF Fields, OneField, AnotherField

\* The tokens of all lines in an alphabet: of one field, and with one field more.
FieldAlone(T) ==
  \A t \in Seq(T \ Blanks) : Tokens(t) = IF t = <<>> THEN <<>> ELSE <<t>>
FieldMore(T) ==
  \A s \in Seq(T), b \in Blanks, t \in Seq(T \ Blanks) :
    Tokens(Separated(s, b, t)) = IF t = <<>> THEN Tokens(s) ELSE Append(Tokens(s), t)

\* So it is in every alphabet with blanks.
LEMMA FieldsAre ==
  ASSUME NEW T, Blanks \subseteq T
  PROVE  FieldAlone(T) /\ FieldMore(T)
<1>1. ASSUME NEW s \in Seq(T), NEW b \in Blanks, NEW t \in Seq(T \ Blanks)
      PROVE  Fields(T, s, b, t)
  BY TokensField, Zenon
<1>2. FieldMore(T)
  BY <1>1, Zenon DEF FieldMore, Fields, AnotherField
<1>3. PICK b : b \in Blanks
  BY SpaceIs
<1>4. PICK s \in Seq(T) : TRUE
  <2>1. <<>> \in Seq(T)
    OBVIOUS
  <2> QED
    BY <2>1
<1>5. FieldAlone(T)
  BY <1>1, <1>3, <1>4, Zenon DEF FieldAlone, Fields, OneField
<1> QED
  BY <1>2, <1>5

\* A token.
TokenSet(T) == {t \in Seq(T \ Blanks) : t # <<>>}

\* A line that is one token or none, or ends with one after a blank, or with a blank; its
\* tokens are tokens.
EndsInField(T, text) ==
  /\ Tokens(text) \in Seq(TokenSet(T))
  /\ \/ text \in Seq(T \ Blanks)
     \/ \E s \in Seq(T), b \in Blanks, t \in Seq(T \ Blanks) :
          text = Separated(s, b, t) /\ Tokens(s) \in Seq(TokenSet(T))

\* One token more is a sequence of tokens still.
LEMMA TokensMore ==
  ASSUME NEW T, NEW ts \in Seq(TokenSet(T)), NEW t \in Seq(T \ Blanks)
  PROVE  /\ t # <<>> => Append(ts, t) \in Seq(TokenSet(T))
         /\ (IF t = <<>> THEN ts ELSE Append(ts, t)) \in Seq(TokenSet(T))
         /\ (IF t = <<>> THEN <<>> ELSE <<t>>) \in Seq(TokenSet(T))
<1>1. t # <<>> => t \in TokenSet(T)
  BY DEF TokenSet
<1> QED
  BY <1>1

\* A line with a blank and a token more.
LEMMA FieldEnds ==
  ASSUME NEW T, Blanks \subseteq T, NEW s \in Seq(T), NEW b \in Blanks, NEW t \in Seq(T \ Blanks),
         Tokens(s) \in Seq(TokenSet(T))
  PROVE  EndsInField(T, Separated(s, b, t))
<1> DEFINE u == Separated(s, b, t)
<1>1. Tokens(u) = IF t = <<>> THEN Tokens(s) ELSE Append(Tokens(s), t)
  BY FieldsAre, Zenon DEF FieldMore
<1>2. Tokens(u) \in Seq(TokenSet(T))
  BY <1>1, TokensMore
<1> QED
  BY <1>2, Zenon DEF EndsInField

\* Every line ends so.
LEMMA LineEnds ==
  ASSUME NEW T, Blanks \subseteq T, NEW line0 \in Seq(T)
  PROVE  EndsInField(T, line0)
<1> DEFINE S == {l \in Seq(T) : EndsInField(T, l)}
<1>1. <<>> \in S
  <2> DEFINE none == <<>>
  <2>1. none \in Seq(T \ Blanks) /\ none \in Seq(T) /\ none = <<>> /\ none \in Seq(TokenSet(T))
    OBVIOUS
  <2> HIDE DEF none
  <2>2. Tokens(none) = IF none = <<>> THEN <<>> ELSE <<none>>
    BY <2>1, FieldsAre, Zenon DEF FieldAlone
  <2>3. EndsInField(T, none)
    BY <2>1, <2>2 DEF EndsInField
  <2> QED
    BY <2>1, <2>3
<1>2. ASSUME NEW l \in Seq(T), NEW x \in T, l \in S
      PROVE  Append(l, x) \in S
  <2>1. EndsInField(T, l) /\ Append(l, x) \in Seq(T)
    BY <1>2
  <2>2. CASE x \in Blanks
    <3>1. Append(l, x) = Separated(l, x, <<>>)
      <4>1. Append(l, x) = Join(Append(l, x), <<>>)
        BY <2>1, JoinEmpty
      <4> QED
        BY <4>1 DEF Separated
    <3>2. Tokens(l) \in Seq(TokenSet(T)) /\ <<>> \in Seq(T \ Blanks)
      BY <2>1 DEF EndsInField
    <3>3. EndsInField(T, Separated(l, x, <<>>))
      BY <2>2, <3>2, FieldEnds
    <3> QED
      BY <2>1, <3>1, <3>3
  <2>3. CASE x \notin Blanks /\ l \in Seq(T \ Blanks)
    <3> DEFINE m == Append(l, x)
    <3>1. m \in Seq(T \ Blanks)
      BY <2>3
    <3> HIDE DEF m
    <3>2. Tokens(m) = IF m = <<>> THEN <<>> ELSE <<m>>
      BY <3>1, FieldsAre, Zenon DEF FieldAlone
    <3>3. <<>> \in Seq(TokenSet(T))
      OBVIOUS
    <3>4. Tokens(m) \in Seq(TokenSet(T))
      BY <3>1, <3>2, <3>3, TokensMore
    <3>5. EndsInField(T, m)
      BY <3>1, <3>4 DEF EndsInField
    <3> QED
      BY <2>1, <3>5 DEF m
  <2>4. ASSUME x \notin Blanks, NEW s \in Seq(T), NEW b \in Blanks, NEW t \in Seq(T \ Blanks),
               l = Separated(s, b, t), Tokens(s) \in Seq(TokenSet(T))
        PROVE  Append(l, x) \in S
    <3> DEFINE u == Append(s, b)
    <3>1. t \in Seq(T) /\ b \in T
      BY MoreSymbols
    <3>2. u \in Seq(T)
      BY <3>1
    <3> HIDE DEF u
    <3>3. Join(u, Append(t, x)) = Append(Join(u, t), x)
      <4>1. t \in Seq(T)
        BY <3>1
      <4> QED
        BY <3>2, <4>1, JoinAppend
    <3>4. Append(l, x) = Separated(s, b, Append(t, x))
      BY <2>4, <3>3, Zenon DEF Separated, u
    <3>5. Append(t, x) \in Seq(T \ Blanks)
      BY <2>4
    <3>6. EndsInField(T, Separated(s, b, Append(t, x)))
      BY <2>4, <3>5, FieldEnds
    <3> QED
      BY <2>1, <3>4, <3>6
  <2> QED
    BY <2>1, <2>2, <2>3, <2>4, Zenon DEF EndsInField
<1> HIDE DEF S
<1>3. Seq(T) \subseteq S
  BY <1>1, <1>2, TextInduction
<1> QED
  BY <1>3 DEF S

\* A command line of any length is taken apart into its tokens: none of them is empty or has a
\* blank, a line without blanks is one token, and what follows a blank is one more, or nothing
\* if it is empty.  So blanks before, after and between the tokens do not matter, however
\* many and of whatever kind.  (tokenizeCommandLine.)
THEOREM LinesAreTokenized ==
  ASSUME NEW T, Blanks \subseteq T, NEW s \in Seq(T)
  PROVE  /\ Tokens(s) \in Seq({t \in Seq(T \ Blanks) : t # <<>>})
         /\ \A t \in Seq(T \ Blanks) : Tokens(t) = IF t = <<>> THEN <<>> ELSE <<t>>
         /\ \A b \in Blanks, t \in Seq(T \ Blanks) :
              Tokens(Append(s, b) \o t) = IF t = <<>> THEN Tokens(s) ELSE Append(Tokens(s), t)
<1>1. Tokens(s) \in Seq(TokenSet(T))
  BY LineEnds DEF EndsInField
<1>2. ASSUME NEW t \in Seq(T \ Blanks)
      PROVE  Tokens(t) = IF t = <<>> THEN <<>> ELSE <<t>>
  BY FieldsAre, Zenon DEF FieldAlone
<1>3. ASSUME NEW c \in Blanks, NEW t \in Seq(T \ Blanks)
      PROVE  Tokens(Append(s, c) \o t) = IF t = <<>> THEN Tokens(s) ELSE Append(Tokens(s), t)
  <2>1. Tokens(Separated(s, c, t)) = IF t = <<>> THEN Tokens(s) ELSE Append(Tokens(s), t)
    BY FieldsAre, Zenon DEF FieldMore
  <2>2. Separated(s, c, t) = Append(s, c) \o t
    BY DEF Separated, Join
  <2> QED
    BY <2>1, <2>2, Zenon
<1> QED
  BY <1>1, <1>2, <1>3, Zenon DEF TokenSet

\* No spelling stands for two commands.
LEMMA SpellingOf ==
  ASSUME NEW type \in DOMAIN Spellings, NEW other \in DOMAIN Spellings,
         NEW name \in Spellings[type], name \in Spellings[other]
  PROVE  type = other
BY DEF Spellings

\* A command line whose first token is a spelling of a command is that command, if it has as many
\* arguments as the command takes, and is refused if it has not; a line whose first token is no
\* spelling, or that has no token, is refused.  (parseCommandLine, validateCommandRequest.)
LEMMA CommandsAreParsed ==
  ASSUME NEW s
  PROVE  /\ \A type \in DOMAIN Spellings : \A name \in Spellings[type] :
              Tokens(s) # <<>> /\ Tokens(s)[1] = <<name>> =>
                ParseCommandLine(s) =
                  IF Len(Tokens(s)) - 1 = ExpectedArgumentCount[type]
                    THEN [type |-> type, arguments |-> Tail(Tokens(s))] ELSE NoRequest
         /\ ~(/\ Tokens(s) # <<>>
              /\ \E type \in DOMAIN Spellings : \E name \in Spellings[type] :
                   Tokens(s)[1] = <<name>>) =>
              ParseCommandLine(s) = NoRequest
<1> DEFINE tokens == Tokens(s)
           Fits(t) == Len(tokens) - 1 = ExpectedArgumentCount[t]
           Is(t)   == tokens # <<>> /\ \E name \in Spellings[t] : tokens[1] = <<name>>
           types   == {t \in DOMAIN Spellings :
                         /\ tokens # <<>>
                         /\ \E name \in Spellings[t] : tokens[1] = <<name>>
                         /\ Fits(t)}
<1>1. ParseCommandLine(s) = IF types = {} THEN NoRequest
                            ELSE [type |-> CHOOSE t \in types : TRUE, arguments |-> Tail(tokens)]
  BY Zenon DEF ParseCommandLine
<1>2. \A t : t \in types <=> t \in DOMAIN Spellings /\ Is(t) /\ Fits(t)
  OBVIOUS
<1>3. ASSUME NEW t \in DOMAIN Spellings, NEW u \in DOMAIN Spellings, Is(t), Is(u)
      PROVE  t = u
  <2>1. PICK n \in Spellings[t] : tokens[1] = <<n>>
    BY <1>3
  <2>2. PICK m \in Spellings[u] : tokens[1] = <<m>>
    BY <1>3
  <2>3. n = m
    BY <2>1, <2>2
  <2> QED
    BY <2>3, SpellingOf
<1> HIDE DEF types, Fits
<1>4. ASSUME NEW type \in DOMAIN Spellings, NEW name \in Spellings[type], tokens # <<>>,
             tokens[1] = <<name>>
      PROVE  ParseCommandLine(s) = IF Fits(type) THEN [type |-> type, arguments |-> Tail(tokens)]
                                   ELSE NoRequest
  <2>1. Is(type)
    BY <1>4
  <2> HIDE DEF Is
  <2>2. CASE Fits(type)
    <3>1. type \in types /\ \A t \in types : t = type
      BY <1>2, <1>3, <2>1, <2>2
    <3>2. types # {} /\ (CHOOSE t \in types : TRUE) = type
      BY <3>1
    <3> QED
      BY <1>1, <2>2, <3>2, Zenon
  <2>3. CASE ~Fits(type)
    <3>1. types = {}
      BY <1>2, <1>3, <2>1, <2>3
    <3> QED
      BY <1>1, <2>3, <3>1, Zenon
  <2> QED
    BY <2>2, <2>3
<1>5. ASSUME \A t \in DOMAIN Spellings : ~Is(t)
      PROVE  ParseCommandLine(s) = NoRequest
  <2> HIDE DEF Is
  <2>1. types = {}
    BY <1>2, <1>5
  <2> QED
    BY <1>1, <2>1, Zenon
<1> QED
  BY <1>4, <1>5, Zenon DEF Fits

-----------------------------------------------------------------------------
(* Every command can be typed *)

\* The tokens of a command without argument, with one and with two.
One(n) == <<n>>
Two(n, a) == <<n, a>>
Three(n, a, v) == <<n, a, v>>

\* What is in a list of one token,
LEMMA ListOfOne ==
  ASSUME NEW n
  PROVE  One(n) # <<>> /\ One(n)[1] = n /\ Len(One(n)) = 1 /\ Tail(One(n)) = <<>>
<1>1. Tail(<<n>>) = <<>>
  OBVIOUS
<1> QED
  BY <1>1 DEF One

\* of two, and how it grew,
LEMMA ListOfTwo ==
  ASSUME NEW n, NEW a
  PROVE  /\ Append(One(n), a) = Two(n, a)
         /\ Two(n, a) # <<>> /\ Two(n, a)[1] = n /\ Len(Two(n, a)) = 2 /\ Tail(Two(n, a)) = One(a)
<1> DEFINE U == {n, a}
<1>0. n \in U /\ a \in U
  OBVIOUS
<1> HIDE DEF U
<1>1. Append(<<n>>, a) = <<n, a>>
  <2> DEFINE s == <<n>>
             u == Append(s, a)
             w == <<n, a>>
  <2>1. s \in Seq(U) /\ Len(s) = 1 /\ s[1] = n
    BY <1>0
  <2>2. w \in Seq(U) /\ Len(w) = 2 /\ w[1] = n /\ w[2] = a
    BY <1>0
  <2> HIDE DEF s, w
  <2>3. u \in Seq(U) /\ Len(u) = 2 /\ u[1] = n /\ u[2] = a
    <3>1. s \in Seq(U)
      BY <2>1
    <3>2. /\ u \in Seq(U) /\ Len(u) = Len(s) + 1 /\ u[Len(s) + 1] = a
          /\ \A i \in 1..Len(s) : u[i] = s[i]
      BY <1>0, <3>1, AppendProperties
    <3> HIDE DEF u
    <3> QED
      BY <2>1, <3>2
  <2> HIDE DEF u
  <2>4. \A i \in 1..Len(u) : u[i] = w[i]
    BY <2>2, <2>3
  <2>5. u = w
    BY <2>2, <2>3, <2>4, SameText
  <2> QED
    BY <2>5 DEF s, u, w
<1>2. <<n, a>> # <<>> /\ <<n, a>>[1] = n /\ Len(<<n, a>>) = 2
  OBVIOUS
<1>3. Tail(<<n, a>>) = <<a>>
  OBVIOUS
<1> QED
  BY <1>1, <1>2, <1>3, Zenon DEF One, Two

\* and of three.
LEMMA ListOfThree ==
  ASSUME NEW n, NEW a, NEW v
  PROVE  /\ Append(Two(n, a), v) = Three(n, a, v)
         /\ Three(n, a, v) # <<>> /\ Three(n, a, v)[1] = n /\ Len(Three(n, a, v)) = 3
         /\ Tail(Three(n, a, v)) = Two(a, v)
<1> DEFINE U == {n, a, v}
<1>0. n \in U /\ a \in U /\ v \in U
  OBVIOUS
<1> HIDE DEF U
<1>1. Append(<<n, a>>, v) = <<n, a, v>>
  <2> DEFINE s == <<n, a>>
             u == Append(s, v)
             w == <<n, a, v>>
  <2>1. s \in Seq(U) /\ Len(s) = 2 /\ s[1] = n /\ s[2] = a
    BY <1>0
  <2>2. w \in Seq(U) /\ Len(w) = 3 /\ w[1] = n /\ w[2] = a /\ w[3] = v
    BY <1>0
  <2> HIDE DEF s, w
  <2>3. u \in Seq(U) /\ Len(u) = 3 /\ u[1] = n /\ u[2] = a /\ u[3] = v
    <3>1. s \in Seq(U)
      BY <2>1
    <3>2. /\ u \in Seq(U) /\ Len(u) = Len(s) + 1 /\ u[Len(s) + 1] = v
          /\ \A i \in 1..Len(s) : u[i] = s[i]
      BY <1>0, <3>1, AppendProperties
    <3> HIDE DEF u
    <3> QED
      BY <2>1, <3>2
  <2> HIDE DEF u
  <2>4. \A i \in 1..Len(u) : u[i] = w[i]
    BY <2>2, <2>3
  <2>5. u = w
    BY <2>2, <2>3, <2>4, SameText
  <2> QED
    BY <2>5 DEF s, u, w
<1>2. <<n, a, v>> # <<>> /\ <<n, a, v>>[1] = n /\ Len(<<n, a, v>>) = 3
  OBVIOUS
<1>3. Tail(<<n, a, v>>) = <<a, v>>
  OBVIOUS
<1> QED
  BY <1>1, <1>2, <1>3, Zenon DEF Two, Three

\* A token alone, and one more at the end of a line.
LEMMA TokenAtEnd ==
  ASSUME NEW T, Blanks \subseteq T, NEW s \in Seq(T), NEW b \in Blanks, NEW t \in TokenSet(T)
  PROVE  /\ t \in Seq(T) /\ Tokens(t) = <<t>>
         /\ Separated(s, b, t) \in Seq(T)
         /\ Tokens(Separated(s, b, t)) = Append(Tokens(s), t)
<1>1. t \in Seq(T \ Blanks) /\ t # <<>> /\ b \in T
  BY DEF TokenSet
<1>2. t \in Seq(T)
  BY <1>1, MoreSymbols
<1>3. Separated(s, b, t) \in Seq(T)
  BY <1>1, <1>2, SeparatedAt, Zenon DEF Placed
<1>4. t \in Seq(T \ Blanks)
  BY <1>1
<1>5. Tokens(t) = IF t = <<>> THEN <<>> ELSE <<t>>
  BY <1>4, FieldsAre, Zenon DEF FieldAlone
<1>6. Tokens(Separated(s, b, t)) = IF t = <<>> THEN Tokens(s) ELSE Append(Tokens(s), t)
  BY <1>4, FieldsAre, Zenon DEF FieldMore
<1> QED
  BY <1>1, <1>2, <1>3, <1>4, <1>5, <1>6

\* A line with the tokens of a command.
LEMMA LineOfTokens ==
  ASSUME NEW T, Blanks \subseteq T, NEW n \in TokenSet(T), NEW a \in TokenSet(T),
         NEW v \in TokenSet(T)
  PROVE  /\ \E text \in Seq(T) : Tokens(text) = One(n)
         /\ \E text \in Seq(T) : Tokens(text) = Two(n, a)
         /\ \E text \in Seq(T) : Tokens(text) = Three(n, a, v)
<1>1. PICK b : b \in Blanks
  BY SpaceIs
<1> DEFINE s2 == Separated(n, b, a)
           s3 == Separated(s2, b, v)
<1>2. <<>> \in Seq(T)
  OBVIOUS
<1>3. n \in Seq(T) /\ Tokens(n) = One(n)
  BY <1>1, <1>2, TokenAtEnd DEF One
<1>4. s2 \in Seq(T) /\ Tokens(s2) = Append(Tokens(n), a)
  <2>1. n \in Seq(T)
    BY <1>3
  <2> QED
    BY <1>1, <2>1, TokenAtEnd
<1> HIDE DEF s2
<1>5. s3 \in Seq(T) /\ Tokens(s3) = Append(Tokens(s2), v)
  <2>1. s2 \in Seq(T)
    BY <1>4
  <2> QED
    BY <1>1, <2>1, TokenAtEnd
<1> HIDE DEF s3
<1>6. Append(One(n), a) = Two(n, a) /\ Append(Two(n, a), v) = Three(n, a, v)
  <2>1. Append(One(n), a) = Two(n, a)
    BY ListOfTwo, Zenon
  <2>2. Append(Two(n, a), v) = Three(n, a, v)
    BY ListOfThree, Zenon
  <2> QED
    BY <2>1, <2>2
<1>7. Tokens(s2) = Two(n, a)
  BY <1>3, <1>4, <1>6, Zenon
<1>8. Tokens(s3) = Three(n, a, v)
  BY <1>5, <1>6, <1>7, Zenon
<1> QED
  BY <1>3, <1>4, <1>5, <1>7, <1>8, Zenon

\* Each spelling of a command, with so many arguments.
LEMMA TokensParsed ==
  ASSUME NEW text, NEW type \in DOMAIN Spellings, NEW name \in Spellings[type],
         NEW ts, Tokens(text) = ts, ts # <<>>, ts[1] = <<name>>,
         Len(ts) - 1 = ExpectedArgumentCount[type]
  PROVE  ParseCommandLine(text) = [type |-> type, arguments |-> Tail(ts)]
<1>1. Tokens(text) # <<>> /\ Tokens(text)[1] = <<name>>
  OBVIOUS
<1> QED
  BY <1>1, CommandsAreParsed

\* What the names are.
LEMMA Names ==
  /\ \A type \in {"Ping", "Set", "Get", "Del", "Exists"} :
       type \in DOMAIN Spellings /\ Spellings[type] # {}
  /\ ExpectedArgumentCount["Ping"] = 0 /\ ExpectedArgumentCount["Set"] = 2
  /\ \A type \in {"Get", "Del", "Exists"} : ExpectedArgumentCount[type] = 1
  /\ \A name \in UNION {Spellings[type] : type \in DOMAIN Spellings} : name \notin Blanks
<1>1. \A type \in {"Ping", "Set", "Get", "Del", "Exists"} :
        type \in DOMAIN Spellings /\ Spellings[type] # {}
  BY DEF Spellings
<1>2. ExpectedArgumentCount["Ping"] = 0 /\ ExpectedArgumentCount["Set"] = 2
  BY DEF ExpectedArgumentCount
<1>3. \A type \in {"Get", "Del", "Exists"} : ExpectedArgumentCount[type] = 1
  BY DEF ExpectedArgumentCount
<1>4. ASSUME NEW type \in DOMAIN Spellings, NEW name \in Spellings[type]
      PROVE  name \notin Blanks
  <2>1. name \in {"PING", "SET", "set", "GET", "get", "DEL", "EXISTS"}
    BY DEF Spellings
  <2> QED
    BY <2>1 DEF Blanks
<1> QED
  BY <1>1, <1>2, <1>3, <1>4, Zenon
\* Every command of AtomicStore can be typed, and a refused one too: whatever the keys and values
\* are, if they have no blanks and the values are not empty, some line is parsed as that command.
\* So the lines that Service may be given leave out no command.  (parseCommandLine.)
THEOREM CommandsCanBeTyped ==
  ASSUME NEW T, Blanks \subseteq T, Key \subseteq T \ Blanks,
         Value \subseteq {t \in Seq(T \ Blanks) : t # <<>>},
         UNION {Spellings[type] : type \in DOMAIN Spellings} \subseteq T
  PROVE  \A q \in Atomic!Requests : \E text \in Seq(T) : ParseCommandLine(text) = q
<1>1. \A type \in DOMAIN Spellings : \A name \in Spellings[type] : <<name>> \in TokenSet(T)
  <2> SUFFICES ASSUME NEW type \in DOMAIN Spellings, NEW name \in Spellings[type]
               PROVE  <<name>> \in TokenSet(T)
    OBVIOUS
  <2>1. name \in UNION {Spellings[t] : t \in DOMAIN Spellings}
    OBVIOUS
  <2>2. name \in T \ Blanks
    BY <2>1, Names
  <2> QED
    BY <2>2 DEF TokenSet
<1>2. \A k \in Key : <<k>> \in TokenSet(T)
  BY DEF TokenSet
<1>3. \A v \in Value : v \in TokenSet(T)
  BY DEF TokenSet
<1>4. PICK ping \in Spellings["Ping"] : TRUE
  BY Names
<1> DEFINE one == <<ping>>
<1>5. one \in TokenSet(T)
  BY <1>1, <1>4, Names
<1> SUFFICES ASSUME NEW q \in Atomic!Requests
             PROVE  \E text \in Seq(T) : ParseCommandLine(text) = q
  OBVIOUS
<1>6. CASE q = Atomic!NoRequest
  <2>1. PICK text \in Seq(T \ Blanks) : text = <<>> /\ text \in Seq(T)
    <3>1. <<>> \in Seq(T \ Blanks) /\ <<>> \in Seq(T)
      OBVIOUS
    <3> QED
      BY <3>1
  <2>2. Tokens(text) = <<>>
    BY <2>1, LinesAreTokenized
  <2>3. ParseCommandLine(text) = NoRequest
    BY <2>2, CommandsAreParsed
  <2> QED
    BY <1>6, <2>1, <2>3 DEF NoRequest, Atomic!NoRequest
<1>7. CASE q \in [type : {"Ping"}, arguments : {<<>>}]
  <2>1. q = [type |-> "Ping", arguments |-> <<>>]
    BY <1>7
  <2> DEFINE ts == One(one)
  <2>2. ts # <<>> /\ ts[1] = one /\ Len(ts) = 1 /\ Tail(ts) = <<>>
    BY ListOfOne, Zenon
  <2> HIDE DEF one
  <2>3. PICK text \in Seq(T) : Tokens(text) = ts
    BY <1>5, LineOfTokens
  <2> HIDE DEF ts
  <2>4. "Ping" \in DOMAIN Spellings /\ ExpectedArgumentCount["Ping"] = 0
    BY Names
  <2>5. ts[1] = <<ping>> /\ Len(ts) - 1 = ExpectedArgumentCount["Ping"]
    BY <2>2, <2>4 DEF one
  <2>6. ParseCommandLine(text) = [type |-> "Ping", arguments |-> Tail(ts)]
    BY <1>4, <2>2, <2>3, <2>4, <2>5, TokensParsed
  <2> QED
    BY <2>1, <2>2, <2>3, <2>6, Zenon
<1>8. CASE q \in [type : {"Get", "Del", "Exists"}, arguments : {<<<<k>>>> : k \in Key}]
  <2>1. PICK type \in {"Get", "Del", "Exists"}, k \in Key :
          q = [type |-> type, arguments |-> <<<<k>>>>]
    BY <1>8
  <2>2. type \in DOMAIN Spellings /\ ExpectedArgumentCount[type] = 1 /\ Spellings[type] # {}
    BY Names
  <2>3. PICK name \in Spellings[type] : TRUE
    BY <2>2
  <2> DEFINE n == <<name>>
             a == <<k>>
             ts == Two(n, a)
  <2>4. n \in TokenSet(T) /\ a \in TokenSet(T)
    BY <1>1, <1>2, <2>2
  <2> HIDE DEF n, a
  <2>5. ts # <<>> /\ ts[1] = n /\ Len(ts) = 2 /\ Tail(ts) = One(a)
    BY ListOfTwo, Zenon
  <2>6. PICK text \in Seq(T) : Tokens(text) = ts
    BY <2>4, LineOfTokens
  <2> HIDE DEF ts
  <2>7. ts[1] = <<name>> /\ Len(ts) - 1 = ExpectedArgumentCount[type]
    BY <2>2, <2>5 DEF n
  <2>8. ParseCommandLine(text) = [type |-> type, arguments |-> Tail(ts)]
    BY <2>2, <2>3, <2>5, <2>6, <2>7, TokensParsed
  <2>9. q = [type |-> type, arguments |-> Tail(ts)]
    BY <2>1, <2>5, Zenon DEF a, One
  <2> QED
    BY <2>6, <2>8, <2>9, Zenon
<1>9. CASE q \in [type : {"Set"}, arguments : {<<<<k>>, v>> : k \in Key, v \in Value}]
  <2>1. PICK k \in Key, v \in Value : q = [type |-> "Set", arguments |-> <<<<k>>, v>>]
    BY <1>9
  <2>2. "Set" \in DOMAIN Spellings /\ ExpectedArgumentCount["Set"] = 2 /\ Spellings["Set"] # {}
    BY Names
  <2>3. PICK name \in Spellings["Set"] : TRUE
    BY <2>2
  <2> DEFINE n == <<name>>
             a == <<k>>
             ts == Three(n, a, v)
  <2>4. n \in TokenSet(T) /\ a \in TokenSet(T) /\ v \in TokenSet(T)
    BY <1>1, <1>2, <1>3, <2>2
  <2> HIDE DEF n, a
  <2>5. ts # <<>> /\ ts[1] = n /\ Len(ts) = 3 /\ Tail(ts) = Two(a, v)
    BY ListOfThree, Zenon
  <2>6. PICK text \in Seq(T) : Tokens(text) = ts
    BY <2>4, LineOfTokens
  <2> HIDE DEF ts
  <2>7. ts[1] = <<name>> /\ Len(ts) - 1 = ExpectedArgumentCount["Set"]
    BY <2>2, <2>5 DEF n
  <2>8. ParseCommandLine(text) = [type |-> "Set", arguments |-> Tail(ts)]
    BY <2>2, <2>3, <2>5, <2>6, <2>7, TokensParsed
  <2>9. q = [type |-> "Set", arguments |-> Tail(ts)]
    BY <2>1, <2>5, Zenon DEF a, Two
  <2> QED
    BY <2>6, <2>8, <2>9, Zenon
<1> QED
  BY <1>6, <1>7, <1>8, <1>9 DEF Atomic!Requests

-----------------------------------------------------------------------------
(* The command and its answer *)

\* At first there are no answers.
LEMMA InitAnswer == Init => AnswerInv
BY DEF Init, AnswerInv, AnswerOf

\* The command of a process depends on its line alone.
LEMMA RequestKept ==
  ASSUME NEW x \in Cli, line'[x] = line[x]
  PROVE  Request(x)' = Request(x)
BY DEF Request

\* A process and its connection stay as they are while others act.
LEMMA OthersAnswer ==
  ASSUME AnswerInv, NEW x \in Cli, answer' \in [Cli -> Answers \cup {NoAnswer}],
         printed' = [z \in Cli |-> printed'[z]], AnswerOf(x)',
         \A y \in Cli \ {x} : /\ pc'[y] = pc[y] /\ conn'[y] = conn[y] /\ got'[y] = got[y]
                             /\ worker'[y] = worker[y] /\ out'[y] = out[y] /\ line'[y] = line[y]
                             /\ pending'[y] = pending[y] /\ printed'[y] = printed[y]
                             /\ answer'[y] = answer[y]
  PROVE  AnswerInv'
<1>1. ASSUME NEW y \in Cli \ {x}
      PROVE  AnswerOf(y)'
  BY <1>1, RequestKept DEF AnswerInv, AnswerOf
<1> QED
  BY <1>1 DEF AnswerInv

\* A call that returns leaves nothing behind.
LEMMA ReturnAnswer ==
  ASSUME AsterdType, CliType, CallInv, AnswerInv, NEW x \in Cli,
         NEW outcome \in {"ok", "error", "failed"}, NEW text,
         Return(x, outcome, text), conn[x] # "open"
  PROVE  AnswerInv'
<1>1. /\ pc'[x] = outcome /\ answer'[x] = NoAnswer /\ out'[x] = "nothing"
      /\ UNCHANGED <<worker, pending>>
  BY DEF Return, ReturnsWith, Go, AsterdType, CliType, AnswerInv
<1>2. worker[x] = "none"
  BY DEF CallInv, CallOf
<1>3. AnswerOf(x)'
  BY <1>1, <1>2 DEF AnswerInv, AnswerOf, Calling
<1>4. answer' \in [Cli -> Answers \cup {NoAnswer}] /\ printed' = [z \in Cli |-> printed'[z]]
  BY DEF Return, ReturnsWith, AnswerInv
<1>5. \A y \in Cli \ {x} : printed'[y] = printed[y] /\ answer'[y] = answer[y]
  BY DEF Return, ReturnsWith, AnswerInv
<1>6. \A y \in Cli \ {x} : /\ pc'[y] = pc[y] /\ conn'[y] = conn[y] /\ got'[y] = got[y]
                          /\ worker'[y] = worker[y] /\ out'[y] = out[y] /\ line'[y] = line[y]
                          /\ pending'[y] = pending[y]
  BY DEF Return, ReturnsWith, Go, AsterdType, CliType
<1> QED
  BY <1>3, <1>4, <1>5, <1>6, OthersAnswer

\* The steps of astercli.
LEMMA ClientAnswer ==
  ASSUME AsterdType, CliType, CallInv, AnswerInv, NEW x \in Cli,
         NextLine(x) \/ Exit(x) \/ Call(x) \/ Die(x)
  PROVE  AnswerInv'
<1>1. CASE NextLine(x) \/ Exit(x)
  <2>1. /\ UNCHANGED asterd /\ pc[x] \in Ended /\ printed'[x] = <<>> /\ printed' = [z \in Cli |-> printed'[z]]
        /\ \A y \in Cli \ {x} : pc'[y] = pc[y] /\ line'[y] = line[y] /\ printed'[y] = printed[y]
    BY <1>1 DEF NextLine, Exit, Go, CliType, AnswerInv
  <2>2. conn[x] = "none" /\ worker[x] = "none"
    BY <2>1 DEF CallInv, CallOf
  <2>3. AnswerOf(x)'
    BY <2>1, <2>2 DEF AnswerInv, AnswerOf, asterd
  <2> QED
    BY <2>1, <2>3, OthersAnswer DEF AnswerInv, asterd
<1>2. CASE Connect(x)
  <2>1. CASE \E text : Return(x, "failed", text)
    <3>1. conn[x] = "none"
      BY <1>2 DEF Connect, CallInv, CallOf
    <3> QED
      BY <2>1, <3>1, ReturnAnswer
  <2>2. CASE ~\E text : Return(x, "failed", text)
    <3>1. /\ pc[x] = "connect" /\ pc'[x] = "sendLine" /\ conn'[x] = "queued"
          /\ UNCHANGED <<worker, got, answer, out, pending, line, printed>>
          /\ \A y \in Cli \ {x} : pc'[y] = pc[y] /\ conn'[y] = conn[y]
      BY <1>2, <2>2 DEF Connect, Go, CliType, AsterdType
    <3>2. conn[x] = "none" /\ worker[x] = "none"
      BY <3>1 DEF CallInv, CallOf
    <3>3. AnswerOf(x)'
      BY <3>1, <3>2 DEF AnswerInv, AnswerOf, Calling
    <3> QED
      BY <3>1, <3>3, OthersAnswer DEF AnswerInv
  <2> QED
    BY <2>1, <2>2
<1>3. CASE SendCommand(x)
  <2>1. CASE conn[x] = "closed" /\ Return(x, "failed", <<>>)
    BY <2>1, ReturnAnswer
  <2>2. CASE ~(conn[x] = "closed" /\ Return(x, "failed", <<>>))
    <3>1. UNCHANGED <<asterd, line, printed>>
      BY <1>3, <2>2, SendIs
    <3>2. pc[x] \in Calling /\ \A y \in Cli \ {x} : pc'[y] = pc[y]
      BY <1>3, <2>2, SendIs DEF Go, CliType, Calling
    <3>3. AnswerOf(x)'
      BY <3>1, <3>2, RequestKept DEF AnswerInv, AnswerOf, asterd
    <3> QED
      BY <3>1, <3>2, <3>3, OthersAnswer DEF AnswerInv, asterd
  <2> QED
    BY <2>1, <2>2
<1>4. CASE ReadResponse(x)
  <2>1. \E text : Return(x, "ok", text) \/ Return(x, "error", text) \/ Return(x, "failed", text)
    BY <1>4 DEF ReadResponse
  <2>2. conn[x] # "open"
    BY <1>4 DEF ReadResponse
  <2> QED
    BY <2>1, <2>2, ReturnAnswer
<1>5. CASE Die(x)
  <2>1. /\ pc'[x] = "gone" /\ out'[x] = "nothing"
        /\ UNCHANGED <<conn, worker, got, answer, pending, line, printed>>
        /\ \A y \in Cli \ {x} : pc'[y] = pc[y] /\ out'[y] = out[y]
    BY <1>5 DEF Die, Go, CliType, AsterdType
  <2>2. AnswerOf(x)'
    BY <2>1, RequestKept DEF AnswerInv, AnswerOf, Calling
  <2> QED
    BY <2>1, <2>2, OthersAnswer DEF AnswerInv
<1> QED
  BY <1>1, <1>2, <1>3, <1>4, <1>5 DEF Call

\* The worker answers, and goes on to send.
LEMMA RespondAnswer ==
  ASSUME AsterdType, CliType, AnswerInv, NEW x \in Cli, NEW response \in Answers,
         Respond(x, response), worker[x] \in {"execute", "engine"}, conn[x] = "open",
         pending' = [pending EXCEPT ![x] = NoMutation]
  PROVE  AnswerInv'
<1>1. /\ answer'[x] = response /\ worker'[x] = "send" /\ pending'[x] = NoMutation
      /\ UNCHANGED <<conn, got, out, pc, line, printed>>
      /\ \A y \in Cli \ {x} : /\ answer'[y] = answer[y] /\ worker'[y] = worker[y]
                             /\ pending'[y] = pending[y]
  BY DEF Respond, Work, astercli, AsterdType, AnswerInv
<1>2. response # NoAnswer
  BY SentinelAssumption
<1>3. AnswerOf(x)'
  BY <1>1, <1>2 DEF AnswerInv, AnswerOf
<1>4. answer' \in [Cli -> Answers \cup {NoAnswer}]
  BY DEF Respond, AnswerInv
<1> QED
  BY <1>1, <1>3, <1>4, OthersAnswer DEF AnswerInv

\* What a read answers.
LEMMA ReadAnswer ==
  ASSUME AsterdType, CliType, NEW x \in Cli, ExecuteRead(x)
  PROVE  \E response \in Answers : Respond(x, response)
<1> DEFINE q == Request(x)
<1>1. Shape(q)
  BY RequestIs
<1>2. /\ \A code \in {"invalid_argument", "not_found", "unavailable"} : Failure(code) \in Answers
      /\ Pong \in Answers /\ Number(0) \in Answers /\ Number(1) \in Answers
      /\ \A v \in Value : Bulk(v) \in Answers
  BY DEF Answers
<1>3. CASE q.type = "Get"
  <2>1. kv[Atomic!KeyOf(q)] \in Value \cup {NoValue}
    BY <1>1, <1>3 DEF Shape, AsterdType, NoRequest
  <2> QED
    BY <1>2, <1>3, <2>1 DEF ExecuteRead
<1>4. CASE q.type # "Get"
  BY <1>2, <1>4 DEF ExecuteRead
<1> QED
  BY <1>3, <1>4

\* The steps of a worker.
LEMMA WorkerAnswer ==
  ASSUME AsterdType, CliType, CallInv, AnswerInv, NEW x \in Cli,
         Worker(x) \/ GiveUp(x)
  PROVE  AnswerInv'
<1>1. worker[x] # "none" /\ conn[x] = "open"
  BY DEF Worker, Receive, ReceiveEnd, ExecuteRead, ExecuteWrite, EngineCommits, EngineRejects,
         SendResponse, GiveUp, CallInv, CallOf
<1>2. CASE Receive(x)
  <2>1. /\ worker[x] = "recv" /\ got[x] # 2
        /\ worker'[x] = "execute" \/ (worker'[x] = "recv" /\ got'[x] = 1)
        /\ UNCHANGED <<conn, answer, out, pending, pc, line, printed>>
        /\ \A y \in Cli \ {x} : got'[y] = got[y] /\ worker'[y] = worker[y]
    BY <1>2 DEF Receive, Work, AsterdType, astercli
  <2>2. AnswerOf(x)'
    BY <2>1 DEF AnswerInv, AnswerOf
  <2> QED
    BY <2>1, <2>2, OthersAnswer DEF AnswerInv
<1>3. CASE ReceiveEnd(x) \/ GiveUp(x)
  <2>1. /\ worker[x] = "recv"
        /\ \/ worker'[x] = "none" /\ conn'[x] = "closed"
           \/ worker'[x] = "execute" /\ conn'[x] = "open" /\ answer[x] = NoAnswer
        /\ UNCHANGED <<got, answer, out, pending, pc, line, printed>>
        /\ \A y \in Cli \ {x} : conn'[y] = conn[y] /\ worker'[y] = worker[y]
    BY <1>1, <1>3 DEF ReceiveEnd, GiveUp, Leave, Work, AsterdType, astercli
  <2>2. AnswerOf(x)'
    BY <2>1 DEF AnswerInv, AnswerOf
  <2> QED
    BY <2>1, <2>2, OthersAnswer DEF AnswerInv
<1>4. CASE ExecuteRead(x)
  <2>1. worker[x] = "execute" /\ pending' = pending
    BY <1>4 DEF ExecuteRead
  <2>2. pending' = [pending EXCEPT ![x] = NoMutation]
    BY <2>1 DEF AnswerInv, AnswerOf, AsterdType
  <2> QED
    BY <1>1, <1>4, <2>1, <2>2, ReadAnswer, RespondAnswer
<1>5. CASE ExecuteWrite(x)
  <2>1. /\ worker[x] = "execute" /\ worker'[x] = "engine" /\ pending'[x] = MutationOf(Request(x))
        /\ Request(x).type \in {"Set", "Del"}
        /\ UNCHANGED <<conn, got, answer, out, pc, line, printed>>
        /\ \A y \in Cli \ {x} : pending'[y] = pending[y] /\ worker'[y] = worker[y]
    BY <1>5 DEF ExecuteWrite, Engine!Begin, Work, AsterdType, astercli
  <2>2. AnswerOf(x)'
    BY <2>1, RequestKept DEF AnswerInv, AnswerOf
  <2> QED
    BY <2>1, <2>2, OthersAnswer DEF AnswerInv
<1>6. CASE EngineCommits(x)
  <2>1. worker[x] = "engine" /\ pending' = [pending EXCEPT ![x] = NoMutation]
    BY <1>6 DEF EngineCommits, Engine!Commit
  <2>2. \E response \in Answers : Respond(x, response)
    BY <1>6 DEF EngineCommits, Answers
  <2> QED
    BY <1>1, <2>1, <2>2, RespondAnswer
<1>7. CASE EngineRejects(x)
  <2>1. worker[x] = "engine" /\ pending' = [pending EXCEPT ![x] = NoMutation]
    BY <1>7 DEF EngineRejects, Engine!Reject
  <2>2. \E response \in Answers : Respond(x, response)
    BY <1>7 DEF EngineRejects, Answers
  <2> QED
    BY <1>1, <2>1, <2>2, RespondAnswer
<1>8. CASE SendResponse(x)
  <2>1. /\ worker[x] = "send"
        /\ \/ got[x] = 2 /\ worker'[x] = "recv" /\ conn'[x] = "open"
           \/ worker'[x] = "none" /\ conn'[x] = "closed"
        /\ UNCHANGED <<got, answer, pending, pc, line, printed>>
        /\ \A y \in Cli \ {x} : /\ conn'[y] = conn[y] /\ worker'[y] = worker[y]
                               /\ out'[y] = out[y]
    BY <1>1, <1>8 DEF SendResponse, Deliver, Leave, Work, AsterdType, astercli
  <2>2. AnswerOf(x)'
    BY <2>1 DEF AnswerInv, AnswerOf
  <2> QED
    BY <2>1, <2>2, OthersAnswer DEF AnswerInv
<1> QED
  BY <1>2, <1>3, <1>4, <1>5, <1>6, <1>7, <1>8 DEF Worker

\* The mutation that the storage engine has under way is the command of the process.
LEMMA MutationIs ==
  ASSUME AsterdType, CliType, AnswerInv, NEW x \in Cli, pending[x] # NoMutation
  PROVE  /\ worker[x] = "engine" /\ answer[x] = NoAnswer
         /\ Request(x) # NoRequest
         /\ Engine!Applied(pending[x]) = Atomic!Effect(kv, Request(x))
         /\ Atomic!Answer(kv, Request(x)) =
              IF pending[x].value # NoValue THEN CommandOk
              ELSE IF kv[pending[x].key] = NoValue THEN Number(0) ELSE Number(1)
<1> DEFINE q == Request(x)
<1>1. /\ worker[x] = "engine" /\ answer[x] = NoAnswer /\ q.type \in {"Set", "Del"}
      /\ pending[x] = MutationOf(q)
  BY DEF AnswerInv, AnswerOf
<1>2. q # NoRequest /\ Shape(q)
  BY <1>1, RequestIs DEF NoRequest
<1>3. CASE q.type = "Set"
  <2>1. /\ pending[x].key = Atomic!KeyOf(q) /\ pending[x].value = q.arguments[2]
        /\ pending[x].value # NoValue
    BY <1>1, <1>2, <1>3, SentinelAssumption DEF MutationOf, Shape
  <2> QED
    BY <1>1, <1>2, <1>3, <2>1, SameResponses DEF Engine!Applied, Atomic!Effect, Atomic!Answer
<1>4. CASE q.type = "Del"
  <2>1. pending[x].key = Atomic!KeyOf(q) /\ pending[x].value = NoValue
    BY <1>1, <1>4 DEF MutationOf
  <2> QED
    BY <1>1, <1>2, <1>4, <2>1, SameResponses DEF Engine!Applied, Atomic!Effect, Atomic!Answer
<1> QED
  BY <1>1, <1>3, <1>4

\* The steps of main and of the process.
LEMMA MainAnswer ==
  ASSUME AsterdType, CliType, CallInv, AnswerInv,
         (\E x \in Cli : Accept(x)) \/ Signal \/ RunReturns \/ Restart \/ Kill
  PROVE  AnswerInv'
<1>1. CASE Signal \/ Restart
  BY <1>1, RequestKept DEF Signal, Restart, astercli, AnswerInv, AnswerOf
<1>2. CASE \E x \in Cli : Accept(x)
  <2>1. PICK x \in Cli : Accept(x)
    BY <1>2
  <2>2. /\ UNCHANGED <<got, pending, pc, line, printed>>
        /\ conn[x] = "queued" /\ worker[x] = "none" /\ answer[x] = NoAnswer
    BY <2>1 DEF Accept, astercli, CallInv, CallOf, AnswerInv, AnswerOf
  <2>3. CASE Admit(x)
    <3>1. /\ conn'[x] = "open" /\ worker'[x] = "recv" /\ UNCHANGED <<answer, out>>
          /\ \A y \in Cli \ {x} : conn'[y] = conn[y] /\ worker'[y] = worker[y]
      BY <2>3 DEF Admit, AsterdType
    <3>2. AnswerOf(x)'
      BY <2>2, <3>1, RequestKept DEF AnswerInv, AnswerOf
    <3> QED
      BY <2>2, <3>1, <3>2, OthersAnswer DEF AnswerInv
  <2>4. CASE Reject(x)
    <3>1. Failure("unavailable") \in Answers /\ Failure("unavailable") # NoAnswer
      BY SentinelAssumption DEF Answers
    <3>2. /\ conn'[x] = "closed" /\ answer'[x] = Failure("unavailable") /\ UNCHANGED worker
          /\ answer' \in [Cli -> Answers \cup {NoAnswer}]
          /\ \A y \in Cli \ {x} : conn'[y] = conn[y] /\ answer'[y] = answer[y] /\ out'[y] = out[y]
      BY <2>4, <3>1 DEF Reject, Deliver, AsterdType, AnswerInv
    <3>3. AnswerOf(x)'
      BY <2>2, <3>1, <3>2, RequestKept DEF AnswerInv, AnswerOf
    <3> QED
      BY <2>2, <3>2, <3>3, OthersAnswer DEF AnswerInv
  <2> QED
    BY <2>1, <2>3, <2>4 DEF Accept
<1>3. CASE RunReturns
  <2>1. /\ UNCHANGED <<worker, got, answer, out, pending, pc, line, printed>>
        /\ \A x \in Cli : conn'[x] = IF conn[x] = "queued" THEN "closed" ELSE conn[x]
    BY <1>3 DEF RunReturns, astercli
  <2> QED
    BY <2>1, RequestKept DEF AnswerInv, AnswerOf
<1>4. CASE Kill
  <2>1. /\ UNCHANGED <<got, pc, line, printed>>
        /\ \A x \in Cli : /\ worker'[x] = "none" /\ pending'[x] = NoMutation
                          /\ conn'[x] = IF conn[x] = "none" THEN "none" ELSE "closed"
                          /\ out'[x] = out[x] \/ worker[x] = "send"
    BY <1>4 DEF Kill, Engine!ProcessCrash, Engine!Nothing, astercli
  <2>2. /\ answer' \in [Cli -> Answers \cup {NoAnswer}]
        /\ \A x \in Cli : answer'[x] = answer[x] \/ (conn[x] # "none" /\ answer'[x] # NoAnswer)
    <3>1. CASE UNCHANGED answer
      BY <3>1 DEF AnswerInv
    <3>2. ASSUME NEW x \in Cli, pending[x] # NoMutation,
                 answer' = [answer EXCEPT ![x] = Atomic!Answer(kv, Request(x))]
          PROVE  <2>2
      <4>1. Atomic!Answer(kv, Request(x)) \in {CommandOk, Number(0), Number(1)} /\ worker[x] = "engine"
        BY <3>2, MutationIs
      <4>2. Atomic!Answer(kv, Request(x)) \in Answers
        BY <4>1 DEF Answers
      <4>3. Atomic!Answer(kv, Request(x)) # NoAnswer
        BY <4>2, SentinelAssumption
      <4>4. conn[x] # "none"
        BY <4>1 DEF CallInv, CallOf
      <4> QED
        BY <3>2, <4>2, <4>3, <4>4 DEF AnswerInv
    <3> QED
      BY <1>4, <3>1, <3>2 DEF Kill
  <2>3. ASSUME NEW x \in Cli
        PROVE  AnswerOf(x)'
    BY <2>1, <2>2, RequestKept DEF AnswerInv, AnswerOf
  <2> QED
    BY <2>1, <2>2, <2>3 DEF AnswerInv
<1> QED
  BY <1>1, <1>2, <1>3, <1>4

\* Every step preserves the invariant.
LEMMA StepAnswer ==
  ASSUME AsterdType, CliType, CallInv, AnswerInv, [Next]_vars
  PROVE  AnswerInv'
<1>1. CASE UNCHANGED vars
  BY <1>1, RequestKept DEF vars, asterd, astercli, AnswerInv, AnswerOf
<1> QED
  BY <1>1, ClientAnswer, WorkerAnswer, MainAnswer DEF Next

-----------------------------------------------------------------------------
(* Each step is a step of AtomicStore or none *)

\* A step that no caller can notice: neither the map nor a command, an answer or a
\* return changes.
LEMMA Stutter ==
  ASSUME UNCHANGED <<kv, answer, printed, line>>,
         \A x \in Cli : pc'[x] = pc[x] \/ (pc[x] \in Calling /\ pc'[x] \in Calling)
  PROVE  UNCHANGED Atomic!atomicVars
<1>1. [x \in Cli |-> Request(x)]' = [x \in Cli |-> Request(x)]
  BY RequestKept
<1>2. [x \in Cli |-> IF pc[x] \in Calling THEN "waiting" ELSE pc[x]]' =
      [x \in Cli |-> IF pc[x] \in Calling THEN "waiting" ELSE pc[x]]
  OBVIOUS
<1> QED
  BY <1>1, <1>2 DEF Atomic!atomicVars

\* The execution of a command.
LEMMA Executes ==
  ASSUME NEW x \in Cli, UNCHANGED <<pc, line, printed>>, pc[x] \in Calling \cup {"gone"},
         answer[x] = NoAnswer, Request(x) # NoRequest,
         answer' = [answer EXCEPT ![x] = Atomic!Answer(kv, Request(x))],
         kv' = Atomic!Effect(kv, Request(x))
  PROVE  Atomic!AtomicNext
<1>1. /\ [y \in Cli |-> Request(y)]' = [y \in Cli |-> Request(y)]
      /\ [y \in Cli |-> Request(y)][x] = Request(x)
  BY RequestKept
<1>2. Atomic!Execute(x)
  BY <1>1 DEF Atomic!Execute, Atomic!Open, Atomic!NoRequest, NoRequest
<1> QED
  BY <1>2 DEF Atomic!AtomicNext

\* The refusal of a command.
LEMMA Refuses ==
  ASSUME NEW x \in Cli, UNCHANGED <<kv, pc, line, printed>>, pc[x] \in Calling \cup {"gone"},
         answer[x] = NoAnswer, NEW code \in {"invalid_argument", "unavailable"},
         answer' = [answer EXCEPT ![x] = Failure(code)]
  PROVE  Atomic!AtomicNext
<1>1. [y \in Cli |-> Request(y)]' = [y \in Cli |-> Request(y)]
  BY RequestKept
<1>2. Atomic!Refuse(x)
  BY <1>1, SameResponses DEF Atomic!Refuse, Atomic!Open
<1> QED
  BY <1>2 DEF Atomic!AtomicNext

\* The commands and the calls, as AtomicStore has them, after a step of one process.
LEMMA MapsTo ==
  ASSUME CliType, NEW x \in Cli, NEW q, NEW p, Request(x)' = q, pc' = [pc EXCEPT ![x] = p],
         \A y \in Cli \ {x} : line'[y] = line[y]
  PROVE  /\ [y \in Cli |-> Request(y)]' = [[y \in Cli |-> Request(y)] EXCEPT ![x] = q]
         /\ [y \in Cli |-> IF pc[y] \in Calling THEN "waiting" ELSE pc[y]]' =
            [[y \in Cli |-> IF pc[y] \in Calling THEN "waiting" ELSE pc[y]] EXCEPT
               ![x] = IF p \in Calling THEN "waiting" ELSE p]
<1>1. \A y \in Cli \ {x} : Request(y)' = Request(y)
  BY RequestKept
<1>2. \A y \in Cli : pc'[y] = IF y = x THEN p ELSE pc[y]
  BY DEF CliType
<1>3. [y \in Cli |-> Request(y)]' = [[y \in Cli |-> Request(y)] EXCEPT ![x] = q]
  BY <1>1
<1>4. ASSUME NEW y \in Cli
      PROVE  (IF pc'[y] \in Calling THEN "waiting" ELSE pc'[y]) =
             IF y = x THEN IF p \in Calling THEN "waiting" ELSE p
             ELSE IF pc[y] \in Calling THEN "waiting" ELSE pc[y]
  BY <1>2
<1>5. [y \in Cli |-> IF pc'[y] \in Calling THEN "waiting" ELSE pc'[y]] =
      [y \in Cli |-> IF y = x THEN IF p \in Calling THEN "waiting" ELSE p
                     ELSE IF pc[y] \in Calling THEN "waiting" ELSE pc[y]]
  BY <1>4
<1> QED
  BY <1>3, <1>5

\* A process is at the beginning of a call, or at its end.
LEMMA BeginsAndEnds ==
  ASSUME CliType, NEW x \in Cli, NextLine(x) \/ Exit(x)
  PROVE  Atomic!AtomicNext
<1>1. CASE NextLine(x)
  <2>1. PICK text \in Input[x] : line' = [line EXCEPT ![x] = text]
    BY <1>1 DEF NextLine
  <2>2. line'[x] = text
    BY <2>1 DEF CliType
  <2> DEFINE q == IF text = <<>> THEN NoRequest ELSE Parsed[text]
  <2>3. q \in Atomic!Requests /\ Request(x)' = q
    <3>1. CASE text = <<>>
      BY <2>2, <3>1 DEF Request, Atomic!Requests, Atomic!NoRequest, NoRequest
    <3>2. CASE text # <<>>
      BY <2>2, <3>2, InputAssumption DEF Request, Parsed
    <3> QED
      BY <3>1, <3>2
  <2> HIDE DEF q
  <2>4. /\ [y \in Cli |-> Request(y)]' = [[y \in Cli |-> Request(y)] EXCEPT ![x] = q]
        /\ [y \in Cli |-> IF pc[y] \in Calling THEN "waiting" ELSE pc[y]]' =
           [[y \in Cli |-> IF pc[y] \in Calling THEN "waiting" ELSE pc[y]] EXCEPT ![x] = "waiting"]
    <3>1. pc' = [pc EXCEPT ![x] = "connect"] /\ \A y \in Cli \ {x} : line'[y] = line[y]
      BY <1>1, <2>1 DEF NextLine, Go, CliType
    <3>2. "connect" \in Calling
      BY DEF Calling
    <3> QED
      BY <2>3, <3>1, <3>2, MapsTo
  <2>5. pc[x] \in Atomic!Returned /\ pc[x] \notin Calling
    BY <1>1 DEF NextLine, Atomic!Returned, Ended, Calling
  <2>6. UNCHANGED <<kv, answer>> /\ printed' = [printed EXCEPT ![x] = <<>>]
    BY <1>1 DEF NextLine, asterd
  <2>7. Atomic!Invoke(x)
    BY <2>3, <2>4, <2>5, <2>6 DEF Atomic!Invoke
  <2> QED
    BY <2>7 DEF Atomic!AtomicNext
<1>2. CASE Exit(x)
  <2>1. /\ pc[x] \in Atomic!Returned /\ pc[x] \notin Calling
        /\ UNCHANGED <<kv, answer, line>> /\ printed' = [printed EXCEPT ![x] = <<>>]
    BY <1>2 DEF Exit, asterd, Atomic!Returned, Ended, Calling
  <2>2. Request(x)' = Request(x)
    BY <2>1, RequestKept
  <2>3. /\ [y \in Cli |-> Request(y)]' = [y \in Cli |-> Request(y)]
        /\ [y \in Cli |-> IF pc[y] \in Calling THEN "waiting" ELSE pc[y]]' =
           [[y \in Cli |-> IF pc[y] \in Calling THEN "waiting" ELSE pc[y]] EXCEPT ![x] = "over"]
    <3>1. pc' = [pc EXCEPT ![x] = "over"] /\ "over" \notin Calling
      BY <1>2 DEF Exit, Go, Calling
    <3>2. [y \in Cli |-> IF pc[y] \in Calling THEN "waiting" ELSE pc[y]]' =
          [[y \in Cli |-> IF pc[y] \in Calling THEN "waiting" ELSE pc[y]] EXCEPT
             ![x] = IF "over" \in Calling THEN "waiting" ELSE "over"]
      BY <2>1, <2>2, <3>1, MapsTo
    <3>3. \A y \in Cli : Request(y)' = Request(y)
      BY <2>1, RequestKept
    <3> QED
      BY <3>1, <3>2, <3>3
  <2>4. Atomic!End(x)
    BY <2>1, <2>3 DEF Atomic!End
  <2> QED
    BY <2>4 DEF Atomic!AtomicNext
<1> QED
  BY <1>1, <1>2

\* The return of a call.
LEMMA Returns ==
  ASSUME CliType, AnswerInv, NEW x \in Cli, pc[x] \in Calling,
         NEW outcome \in {"ok", "error", "failed"}, NEW text, Return(x, outcome, text),
         outcome # "failed" => answer[x] # NoAnswer,
         outcome = "error" => answer[x].kind = "error",
         IF outcome = "ok" THEN text \in Atomic!Printable(answer[x]) ELSE text = <<>>
  PROVE  Atomic!AtomicNext
<1>1. /\ pc' = [pc EXCEPT ![x] = outcome] /\ line' = [line EXCEPT ![x] = <<>>]
      /\ answer' = [answer EXCEPT ![x] = NoAnswer] /\ printed' = [printed EXCEPT ![x] = text]
      /\ kv' = kv
  BY DEF Return, ReturnsWith, Go
<1>2. Request(x)' = Atomic!NoRequest
  BY <1>1 DEF CliType, Request, NoRequest, Atomic!NoRequest
<1>3. /\ [y \in Cli |-> Request(y)]' = [[y \in Cli |-> Request(y)] EXCEPT ![x] = Atomic!NoRequest]
      /\ [y \in Cli |-> IF pc[y] \in Calling THEN "waiting" ELSE pc[y]]' =
         [[y \in Cli |-> IF pc[y] \in Calling THEN "waiting" ELSE pc[y]] EXCEPT ![x] = outcome]
  <2>1. outcome \notin Calling
    BY DEF Calling
  <2>2. \A y \in Cli \ {x} : line'[y] = line[y]
    BY <1>1 DEF CliType
  <2> QED
    BY <1>1, <1>2, <2>1, <2>2, MapsTo
<1>4. text = <<>> => UNCHANGED printed
  BY <1>1 DEF AnswerInv, AnswerOf
<1>5. Atomic!Return(x)
  BY <1>1, <1>3, <1>4 DEF Atomic!Return
<1> QED
  BY <1>5 DEF Atomic!AtomicNext

\* The texts that a client may receive are parts of a response, or there is none.
LEMMA ReceivedIs ==
  ASSUME AsterdType, AnswerInv, NEW x \in Cli, NEW text \in Received(x)
  PROVE  LET kind == ParseProtocolResponse(text).kind IN
         /\ kind \notin {"invalid", "error"} =>
              answer[x] # NoAnswer /\ Printed(text) \in Atomic!Printable(answer[x])
         /\ kind = "error" => answer[x] # NoAnswer /\ answer[x].kind = "error"
<1>1. CASE out[x] = "nothing"
  <2>1. text = <<>>
    BY <1>1 DEF Received
  <2>2. ParseProtocolResponse(text).kind = "invalid"
    BY <2>1 DEF ParseProtocolResponse, Invalid
  <2> QED
    BY <2>2
<1>2. CASE out[x] # "nothing"
  <2> DEFINE whole == Serialize(answer[x])
  <2>1. answer[x] \in Answers /\ answer[x] # NoAnswer
    BY <1>2 DEF AnswerInv, AnswerOf
  <2>2. text \in {whole} \cup {Prefix(whole, n) : n \in 0..(Len(whole) - 1)}
    <3>1. out[x] \in {"part", "whole"}
      BY <1>2 DEF AsterdType
    <3>2. CASE out[x] = "part"
      <4>1. text \in {Prefix(whole, n) : n \in 0..(Len(whole) - 1)}
        BY <3>2 DEF Received
      <4> QED
        BY <4>1
    <3>3. CASE out[x] = "whole"
      <4>1. text \in {whole}
        BY <3>3 DEF Received
      <4> QED
        BY <4>1
    <3> QED
      BY <3>1, <3>2, <3>3
  <2>3. text \in PartsOf(Serialize(answer[x]))
    BY <2>2 DEF PartsOf
  <2> HIDE DEF whole
  <2> QED
    BY <2>1, <2>3, ResponsesAreRead
<1> QED
  BY <1>1, <1>2

\* A call goes on, or returns.
LEMMA Calls ==
  ASSUME AsterdType, CliType, AnswerInv, NEW x \in Cli, Call(x) \/ Die(x)
  PROVE  Atomic!AtomicNext \/ UNCHANGED Atomic!atomicVars
<1>1. CASE pc[x] \in Calling /\ Return(x, "failed", <<>>)
  BY <1>1, Returns
<1>2. CASE /\ UNCHANGED <<kv, answer, printed, line>> /\ pc[x] \in Calling
           /\ \E p \in Calling : Go(x, p)
  BY <1>2, Stutter DEF Go, CliType
<1>3. CASE Connect(x)
  <2>1. pc[x] \in Calling /\ "sendLine" \in Calling
    BY <1>3 DEF Connect, Calling
  <2> QED
    BY <1>1, <1>2, <1>3, <2>1 DEF Connect
<1>4. CASE SendCommand(x)
  <2>1. pc[x] \in Calling /\ {"sendNewline", "shutdown", "read"} \subseteq Calling
    BY <1>4 DEF SendCommand, Calling
  <2> QED
    BY <1>1, <1>2, <1>4, <2>1, SendIs DEF asterd
<1>5. CASE ReadResponse(x)
  <2>1. pc[x] \in Calling
    BY <1>5 DEF ReadResponse, Calling
  <2>2. ASSUME NEW text \in Received(x), ParseProtocolResponse(text).kind \notin {"invalid", "error"},
               Return(x, "ok", Printed(text))
        PROVE  Atomic!AtomicNext
    BY <2>1, <2>2, ReceivedIs, Returns
  <2>3. ASSUME NEW text \in Received(x), ParseProtocolResponse(text).kind = "error",
               Return(x, "error", <<>>)
        PROVE  Atomic!AtomicNext
    BY <2>1, <2>3, ReceivedIs, Returns
  <2> QED
    BY <1>1, <1>5, <2>1, <2>2, <2>3 DEF ReadResponse
<1>6. CASE Die(x)
  <2>1. /\ pc[x] \in Calling /\ pc' = [pc EXCEPT ![x] = "gone"]
        /\ UNCHANGED <<kv, answer, line, printed>>
    BY <1>6 DEF Die, Go
  <2>2. Request(x)' = Request(x)
    BY <2>1, RequestKept
  <2>3. /\ [y \in Cli |-> Request(y)]' = [y \in Cli |-> Request(y)]
        /\ [y \in Cli |-> IF pc[y] \in Calling THEN "waiting" ELSE pc[y]]' =
           [[y \in Cli |-> IF pc[y] \in Calling THEN "waiting" ELSE pc[y]] EXCEPT ![x] = "gone"]
    BY <2>1, <2>2, MapsTo, RequestKept DEF Calling
  <2>4. printed' = [printed EXCEPT ![x] = <<>>]
    BY <2>1 DEF AnswerInv, AnswerOf
  <2>5. Atomic!End(x)
    BY <2>1, <2>3, <2>4 DEF Atomic!End
  <2> QED
    BY <2>5 DEF Atomic!AtomicNext
<1> QED
  BY <1>3, <1>4, <1>5, <1>6 DEF Call

\* A connection that the server has is of a call that goes on, or of a killed process.
LEMMA ServedIsOpen ==
  ASSUME CliType, CallInv, NEW x \in Cli, conn[x] # "none"
  PROVE  pc[x] \in Calling \cup {"gone"}
BY DEF CliType, CallInv, CallOf

\* A command that reads is executed when the map is read; a line that is no command is
\* refused.
LEMMA Reads ==
  ASSUME AsterdType, CliType, CallInv, AnswerInv, NEW x \in Cli, ExecuteRead(x)
  PROVE  Atomic!AtomicNext
<1> DEFINE q == Request(x)
<1>1. /\ UNCHANGED <<kv, pc, line, printed>> /\ worker[x] = "execute" /\ answer[x] = NoAnswer
      /\ pc[x] \in Calling \cup {"gone"}
  <2>1. worker[x] = "execute" /\ conn[x] = "open"
    BY DEF ExecuteRead, CallInv, CallOf
  <2>2. answer[x] = NoAnswer
    BY <2>1 DEF AnswerInv, AnswerOf
  <2>3. UNCHANGED <<kv, pc, line, printed>>
    BY DEF ExecuteRead, Respond, astercli
  <2> QED
    BY <2>1, <2>2, <2>3, ServedIsOpen
<1>2. CASE q.type = "invalid"
  <2>1. Respond(x, Failure("invalid_argument"))
    BY <1>2 DEF ExecuteRead
  <2> QED
    BY <1>1, <2>1, Refuses DEF Respond
<1>3. CASE q.type \in {"Ping", "Get", "Exists"}
  <2>1. q # NoRequest
    BY <1>3 DEF NoRequest
  <2>2. kv = Atomic!Effect(kv, q)
    BY <1>3 DEF Atomic!Effect
  <2>3. Respond(x, Atomic!Answer(kv, q))
    BY <1>3, SameResponses DEF ExecuteRead, Atomic!Answer
  <2> QED
    BY <1>1, <2>1, <2>2, <2>3, Executes DEF Respond
<1> QED
  BY <1>2, <1>3 DEF ExecuteRead

\* A mutation is executed when the storage engine commits it, or answers that there is
\* nothing to remove; it is refused when the engine fails.
LEMMA Writes ==
  ASSUME AsterdType, CliType, CallInv, AnswerInv, NEW x \in Cli,
         EngineCommits(x) \/ EngineRejects(x)
  PROVE  Atomic!AtomicNext
<1> DEFINE q == Request(x)
<1>1. worker[x] = "engine" /\ pending[x] # NoMutation
  BY DEF EngineCommits, EngineRejects, Engine!Commit, Engine!Reject
<1>2. /\ answer[x] = NoAnswer /\ q # NoRequest
      /\ Engine!Applied(pending[x]) = Atomic!Effect(kv, q)
      /\ Atomic!Answer(kv, q) =
           IF pending[x].value # NoValue THEN CommandOk
           ELSE IF kv[pending[x].key] = NoValue THEN Number(0) ELSE Number(1)
  BY <1>1, MutationIs
<1>3. UNCHANGED <<pc, line, printed>> /\ pc[x] \in Calling \cup {"gone"}
  <2>1. conn[x] # "none"
    BY <1>1 DEF CallInv, CallOf
  <2>2. UNCHANGED <<pc, line, printed>>
    BY DEF EngineCommits, EngineRejects, Respond, astercli
  <2> QED
    BY <2>1, <2>2, ServedIsOpen
<1>4. CASE EngineCommits(x)
  <2>1. kv' = Atomic!Effect(kv, q)
    BY <1>2, <1>4 DEF EngineCommits, Engine!Commit
  <2>2. Respond(x, Atomic!Answer(kv, q))
    BY <1>2, <1>4 DEF EngineCommits
  <2> QED
    BY <1>2, <1>3, <2>1, <2>2, Executes DEF Respond
<1>5. CASE EngineRejects(x)
  <2>1. kv' = kv
    BY <1>5 DEF EngineRejects, Engine!Reject
  <2>2. CASE Respond(x, Failure("unavailable"))
    BY <1>2, <1>3, <2>1, <2>2, Refuses DEF Respond
  <2>3. CASE /\ pending[x].value = NoValue /\ kv[pending[x].key] = NoValue
             /\ Respond(x, Number(0))
    <3>1. Engine!Applied(pending[x]) = kv
      BY <2>3 DEF Engine!Applied, AsterdType
    <3>2. kv' = Atomic!Effect(kv, q)
      BY <1>2, <2>1, <3>1
    <3>3. Respond(x, Atomic!Answer(kv, q))
      BY <1>2, <2>3
    <3> QED
      BY <1>2, <1>3, <3>2, <3>3, Executes DEF Respond
  <2> QED
    BY <1>5, <2>2, <2>3 DEF EngineRejects
<1> QED
  BY <1>4, <1>5

\* The steps of a worker.
LEMMA Works ==
  ASSUME AsterdType, CliType, CallInv, AnswerInv, NEW x \in Cli,
         Worker(x) \/ GiveUp(x)
  PROVE  Atomic!AtomicNext \/ UNCHANGED Atomic!atomicVars
<1>1. CASE ExecuteRead(x)
  BY <1>1, Reads
<1>2. CASE EngineCommits(x) \/ EngineRejects(x)
  BY <1>2, Writes
<1>3. CASE Receive(x) \/ ReceiveEnd(x) \/ GiveUp(x) \/ ExecuteWrite(x) \/ SendResponse(x)
  <2>1. UNCHANGED <<kv, answer, printed, line, pc>>
    BY <1>3 DEF Receive, ReceiveEnd, GiveUp, ExecuteWrite, SendResponse, Engine!Begin, astercli
  <2> QED
    BY <2>1, Stutter
<1> QED
  BY <1>1, <1>2, <1>3 DEF Worker

\* The steps of main and of the process: a rejected client is refused, and a mutation that
\* was in the log when the server was killed is executed.
LEMMA Mains ==
  ASSUME AsterdType, CliType, CallInv, AnswerInv,
         (\E x \in Cli : Accept(x)) \/ Signal \/ RunReturns \/ Restart \/ Kill
  PROVE  Atomic!AtomicNext \/ UNCHANGED Atomic!atomicVars
<1>1. CASE Signal \/ RunReturns \/ Restart
  <2>1. UNCHANGED <<kv, answer, printed, line, pc>>
    BY <1>1 DEF Signal, RunReturns, Restart, astercli
  <2> QED
    BY <2>1, Stutter
<1>2. ASSUME NEW x \in Cli, Accept(x)
      PROVE  Atomic!AtomicNext \/ UNCHANGED Atomic!atomicVars
  <2>1. UNCHANGED <<kv, printed, line, pc>> /\ conn[x] = "queued"
    BY <1>2 DEF Accept, astercli
  <2>2. CASE Admit(x)
    BY <2>1, <2>2, Stutter DEF Admit
  <2>3. CASE Reject(x)
    <3>1. answer[x] = NoAnswer /\ pc[x] \in Calling \cup {"gone"}
      BY <2>1, ServedIsOpen DEF AnswerInv, AnswerOf
    <3> QED
      BY <2>1, <2>3, <3>1, Refuses DEF Reject
  <2> QED
    BY <1>2, <2>2, <2>3 DEF Accept
<1>3. CASE Kill
  <2>1. UNCHANGED <<printed, line, pc>>
    BY <1>3 DEF Kill, astercli
  <2>2. CASE UNCHANGED <<kv, answer>>
    BY <2>1, <2>2, Stutter
  <2>3. ASSUME NEW x \in Cli, pending[x] # NoMutation, kv' = Engine!Applied(pending[x]),
               answer' = [answer EXCEPT ![x] = Atomic!Answer(kv, Request(x))]
        PROVE  Atomic!AtomicNext
    <3>1. /\ worker[x] = "engine" /\ answer[x] = NoAnswer /\ Request(x) # NoRequest
          /\ kv' = Atomic!Effect(kv, Request(x))
      BY <2>3, MutationIs
    <3>2. pc[x] \in Calling \cup {"gone"}
      BY <3>1, ServedIsOpen DEF CallInv, CallOf
    <3> QED
      BY <2>1, <2>3, <3>1, <3>2, Executes
  <2> QED
    BY <1>3, <2>2, <2>3 DEF Kill
<1> QED
  BY <1>1, <1>2, <1>3

-----------------------------------------------------------------------------
(* The theorem *)

\* The first state is one of AtomicStore.
LEMMA InitIsAtomic == Init => Atomic!AtomicInit
BY DEF Init, Atomic!AtomicInit, Request, NoRequest, Atomic!NoRequest, Calling

\* Every step is one of AtomicStore, or none.
LEMMA StepIsAtomic ==
  ASSUME AsterdType, CliType, CallInv, AnswerInv, [Next]_vars
  PROVE  [Atomic!AtomicNext]_(Atomic!atomicVars)
<1>1. CASE UNCHANGED vars
  BY <1>1, Stutter DEF vars, asterd, astercli
<1> QED
  BY <1>1, BeginsAndEnds, Calls, Works, Mains DEF Next

\* astercli and asterd together are one atomic map, for any number of processes, any
\* commands and limits, and whatever is killed, stopped, cut or restarted: a command is
\* executed at most once, between its call and its return, and success prints what that
\* execution answered.
THEOREM ServiceIsAtomic == Spec => Linearizable
<1>1. Init => AnswerInv
  BY InitAnswer
<1>2. Inv /\ AnswerInv /\ [Next]_vars => AnswerInv'
  BY StepAnswer DEF Inv
<1>3. Init => Atomic!AtomicInit
  BY InitIsAtomic
<1>4. Inv /\ AnswerInv /\ [Next]_vars => [Atomic!AtomicNext]_(Atomic!atomicVars)
  BY StepIsAtomic DEF Inv
<1> QED
  BY <1>1, <1>2, <1>3, <1>4, Invariant, PTL DEF Spec, Linearizable, Atomic!AtomicSpec
=============================================================================
