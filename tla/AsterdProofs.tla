---------------------------- MODULE AsterdProofs ----------------------------
(***************************************************************************)
(* Proofs about Asterd: how the options of a process come about, and what  *)
(* processes with one WAL file do to each other.                           *)
(***************************************************************************)
EXTENDS Asterd, TLAPS

-----------------------------------------------------------------------------
(* The meaning of a text *)

\* The members of the options.
LEMMA MembersAre ==
  Members = {"endpoint", "maxClientWorkers", "clientIdleTimeoutSeconds", "logLevel",
             "walFilePath", "walSyncPolicy"}
BY DEF Members, defaultServerOptions

\* A text stands for at most one number, and for none above the limit.
LEMMA UnsignedIs ==
  ASSUME NEW text, NEW max \in Nat, NEW n \in Unsigned(text, max)
  PROVE  n = NumberOf(text) /\ n \in 0..max
BY DEF Unsigned

\* The meaning of a text, member by member.
LEMMA MeaningOf ==
  ASSUME NEW m, NEW text
  PROVE  /\ m = "endpoint" => Meaning(m, text) = Endpoint(text)
         /\ m = "maxClientWorkers" => Meaning(m, text) = Positive(text, MaxSize)
         /\ m = "clientIdleTimeoutSeconds" => Meaning(m, text) = Positive(text, MaxUint32)
         /\ m = "logLevel" => Meaning(m, text) = LogLevel(text)
         /\ m = "walFilePath" => Meaning(m, text) = Path(text)
         /\ m = "walSyncPolicy" => Meaning(m, text) = SyncPolicy(text)
<1>1. m = "endpoint" => Meaning(m, text) = Endpoint(text)
  BY Zenon DEF Meaning
<1>2. m = "maxClientWorkers" => Meaning(m, text) = Positive(text, MaxSize)
  BY Zenon DEF Meaning
<1>3. m = "clientIdleTimeoutSeconds" => Meaning(m, text) = Positive(text, MaxUint32)
  BY Zenon DEF Meaning
<1>4. m = "logLevel" => Meaning(m, text) = LogLevel(text)
  BY Zenon DEF Meaning
<1>5. m = "walFilePath" => Meaning(m, text) = Path(text)
  BY Zenon DEF Meaning
<1>6. m = "walSyncPolicy" => Meaning(m, text) = SyncPolicy(text)
  BY Zenon DEF Meaning
<1> QED
  BY <1>1, <1>2, <1>3, <1>4, <1>5, <1>6

\* What a text means for a member is one value at most.
LEMMA MeaningIsOne ==
  ASSUME NEW m \in Members, NEW text, NEW v \in Meaning(m, text), NEW w \in Meaning(m, text)
  PROVE  v = w
<1>1. CASE m = "endpoint"
  <2> DEFINE parts == Split(text, ":")
  <2>1. v \in Endpoint(text) /\ w \in Endpoint(text)
    BY <1>1, MeaningOf
  <2> HIDE DEF parts
  <2>2. PICK k \in Unsigned(parts[2], MaxUint32) : v = [host |-> parts[1], port |-> k]
    BY <2>1 DEF Endpoint, parts
  <2>3. PICK n \in Unsigned(parts[2], MaxUint32) : w = [host |-> parts[1], port |-> n]
    BY <2>1 DEF Endpoint, parts
  <2>4. k = n
    BY UnsignedIs, ServerConfigAssumption
  <2> QED
    BY <2>2, <2>3, <2>4
<1>2. CASE m = "maxClientWorkers"
  <2>1. v \in Unsigned(text, MaxSize) /\ w \in Unsigned(text, MaxSize)
    BY <1>2, MeaningOf DEF Positive
  <2> QED
    BY <2>1, UnsignedIs, ServerConfigAssumption
<1>3. CASE m = "clientIdleTimeoutSeconds"
  <2>1. v \in Unsigned(text, MaxSize) /\ w \in Unsigned(text, MaxSize)
    BY <1>3, MeaningOf DEF Positive
  <2> QED
    BY <2>1, UnsignedIs, ServerConfigAssumption
<1>4. CASE m = "logLevel"
  <2>1. PICK a \in DOMAIN LogLevels : text = <<a>> /\ v = LogLevels[a]
    BY <1>4, MeaningOf DEF LogLevel
  <2>2. PICK b \in DOMAIN LogLevels : text = <<b>> /\ w = LogLevels[b]
    BY <1>4, MeaningOf DEF LogLevel
  <2>3. a = b
    BY <2>1, <2>2
  <2> QED
    BY <2>1, <2>2, <2>3
<1>5. CASE m = "walFilePath"
  BY <1>5, MeaningOf DEF Path
<1>6. CASE m = "walSyncPolicy"
  <2>1. text = <<v>> /\ text = <<w>>
    BY <1>6, MeaningOf DEF SyncPolicy
  <2> QED
    BY <2>1
<1> QED
  BY <1>1, <1>2, <1>3, <1>4, <1>5, <1>6, MembersAre

\* The values that a member may have.
Fits(m, v) ==
  /\ m = "endpoint" => v.port \in 1..MaxPort /\ v.host # <<>>
  /\ m = "maxClientWorkers" => v \in 1..MaxSize
  /\ m = "clientIdleTimeoutSeconds" => v \in 1..MaxUint32
  /\ m = "logLevel" => v \in {LogLevels[w] : w \in DOMAIN LogLevels}
  /\ m = "walFilePath" => v # NoPath
  /\ m = "walSyncPolicy" => v \in SyncPolicies

\* It is a value that the member may have, and it is never the blank.
LEMMA MeaningFits ==
  ASSUME NEW m \in Members, NEW text, NEW v \in Meaning(m, text)
  PROVE  Fits(m, v) /\ v # Blank[m]
<1>1. CASE m = "endpoint"
  <2> DEFINE parts == Split(text, ":")
  <2>1. v \in Endpoint(text)
    BY <1>1, MeaningOf
  <2> HIDE DEF parts
  <2>2. PICK k \in Unsigned(parts[2], MaxUint32) :
          v = [host |-> parts[1], port |-> k] /\ parts[1] # <<>> /\ k \in 1..MaxPort
    BY <2>1 DEF Endpoint, parts
  <2>3. v.port = k /\ v.host = parts[1]
    BY <2>2
  <2>4. Blank[m].port = 0
    BY <1>1 DEF Blank
  <2>5. k # 0
    BY <2>2, ServerConfigAssumption
  <2> QED
    BY <1>1, <2>2, <2>3, <2>4, <2>5 DEF Fits
<1>2. CASE m = "maxClientWorkers"
  <2>1. v \in Unsigned(text, MaxSize) /\ 0 < v /\ v <= MaxSize
    BY <1>2, MeaningOf DEF Positive
  <2>2. v \in 1..MaxSize /\ v # 0
    BY <2>1, UnsignedIs, ServerConfigAssumption
  <2> QED
    BY <1>2, <2>2 DEF Fits, Blank
<1>3. CASE m = "clientIdleTimeoutSeconds"
  <2>1. v \in Unsigned(text, MaxSize) /\ 0 < v /\ v <= MaxUint32
    BY <1>3, MeaningOf DEF Positive
  <2>2. v \in 1..MaxUint32 /\ v # 0
    BY <2>1, UnsignedIs, ServerConfigAssumption
  <2> QED
    BY <1>3, <2>2 DEF Fits, Blank
<1>4. CASE m = "logLevel"
  <2>1. v \in {LogLevels[w] : w \in DOMAIN LogLevels}
    BY <1>4, MeaningOf DEF LogLevel
  <2>2. PICK w \in DOMAIN LogLevels : v = LogLevels[w]
    BY <2>1
  <2>3. v # "unset"
    BY <2>2 DEF LogLevels
  <2> QED
    BY <1>4, <2>1, <2>3 DEF Fits, Blank
<1>5. CASE m = "walFilePath"
  BY <1>5, MeaningOf DEF Path, Fits, Blank
<1>6. CASE m = "walSyncPolicy"
  BY <1>6, MeaningOf DEF SyncPolicy, SyncPolicies, Fits, Blank
<1> QED
  BY <1>1, <1>2, <1>3, <1>4, <1>5, <1>6, MembersAre

-----------------------------------------------------------------------------
(* The meaning of an entry *)

\* A line of the file changes nothing, is not understood, or assigns to one member;
\* which of these does not depend on the options.
LEMMA LineShape ==
  ASSUME NEW line
  PROVE  \/ \A o : ParseConfigLine(o, line) = {o}
         \/ \A o : ParseConfigLine(o, line) = {}
         \/ \E m \in Members : \E t : \A o : ParseConfigLine(o, line) = Assign(o, m, t)
<1> DEFINE separators == Positions(line, "=")
           key        == Prefix(line, separators[1] - 1)
           value      == SubSeq(line, separators[1] + 1, Len(line))
<1>1. CASE IsCommentOrEmptyLine(line)
  BY <1>1, Zenon DEF ParseConfigLine
<1>2. CASE ~IsCommentOrEmptyLine(line) /\ separators = <<>>
  BY <1>2, Zenon DEF ParseConfigLine
<1>3. CASE ~IsCommentOrEmptyLine(line) /\ separators # <<>>
  <2>1. \A o : ParseConfigLine(o, line) = ApplyConfigEntry(o, key, value)
    BY <1>3, Zenon DEF ParseConfigLine
  <2> HIDE DEF separators, key, value
  <2>2. CASE \E k \in DOMAIN ConfigKeys : Trim(key) = <<k>>
    <3>1. PICK k \in DOMAIN ConfigKeys : Trim(key) = <<k>>
      BY <2>2
    <3>2. {w \in DOMAIN ConfigKeys : Trim(key) = <<w>>} = {k}
      BY <3>1
    <3>3. \A o : ApplyConfigEntry(o, key, value) = Assign(o, ConfigKeys[k], Trim(value))
      BY <3>2 DEF ApplyConfigEntry
    <3>4. ConfigKeys[k] \in Members
      BY <3>1, MembersAre DEF ConfigKeys
    <3> QED
      BY <2>1, <3>3, <3>4
  <2>3. CASE ~\E k \in DOMAIN ConfigKeys : Trim(key) = <<k>>
    <3>1. {w \in DOMAIN ConfigKeys : Trim(key) = <<w>>} = {}
      BY <2>3
    <3>2. \A o : ApplyConfigEntry(o, key, value) = {}
      BY <3>1 DEF ApplyConfigEntry
    <3> QED
      BY <2>1, <3>2
  <2> QED
    BY <2>2, <2>3
<1> QED
  BY <1>1, <1>2, <1>3

\* A text is the name of at most one option.
LEMMA OptionMemberIs ==
  ASSUME NEW name
  PROVE  OptionMember(name) = {} \/ \E m \in Members : OptionMember(name) = {m}
<1>1. CASE \E q \in OptionMembers : name = <<q[1]>>
  <2>1. PICK q \in OptionMembers : name = <<q[1]>>
    BY <1>1
  <2>2. \A o \in OptionMembers : name = <<o[1]>> => o[1] = q[1]
    BY <2>1
  <2>3. \A o \in OptionMembers : o[1] = q[1] => o = q
    BY DEF OptionMembers
  <2>4. {o \in OptionMembers : name = <<o[1]>>} = {q}
    BY <2>1, <2>2, <2>3
  <2>5. OptionMember(name) = {q[2]}
    BY <2>4 DEF OptionMember
  <2>6. q[2] \in Members
    BY MembersAre DEF OptionMembers
  <2> QED
    BY <2>5, <2>6
<1>2. CASE ~\E q \in OptionMembers : name = <<q[1]>>
  <2>1. {q \in OptionMembers : name = <<q[1]>>} = {}
    BY <1>2
  <2> QED
    BY <2>1 DEF OptionMember
<1> QED
  BY <1>1, <1>2

\* So does an option of the command line.
LEMMA OptionShape ==
  ASSUME NEW arguments, NEW i
  PROVE  \/ \A o : ApplyOption(o, arguments, i) = {}
         \/ \E m \in Members : \E t : \A o : ApplyOption(o, arguments, i) = Assign(o, m, t)
<1> DEFINE about == {k \in OptionMember(arguments[i]) : i < Len(arguments)}
<1>1. about = {} \/ \E m \in Members : about = {m}
  <2>1. OptionMember(arguments[i]) = {} \/ \E m \in Members : OptionMember(arguments[i]) = {m}
    BY OptionMemberIs
  <2> QED
    BY <2>1
<1>2. \A o : ApplyOption(o, arguments, i) = UNION {Assign(o, m, arguments[i + 1]) : m \in about}
  BY DEF ApplyOption
<1> HIDE DEF about
<1>3. CASE about = {}
  BY <1>2, <1>3
<1>4. ASSUME NEW m \in Members, about = {m}
      PROVE  \A o : ApplyOption(o, arguments, i) = Assign(o, m, arguments[i + 1])
  BY <1>2, <1>4
<1> QED
  BY <1>1, <1>3, <1>4

\* So does every entry of a command.
LEMMA EntryShape ==
  ASSUME NEW c, NEW i \in Nat \ {0}, c.mode \in {"config", "listen"}
  PROVE  \/ \A o : Entry(c, i, o) = {o}
         \/ \A o : Entry(c, i, o) = {}
         \/ \E m \in Members : \E t : \A o : Entry(c, i, o) = Assign(o, m, t)
<1>1. CASE c.mode = "config"
  <2>1. \A o : Entry(c, i, o) = ParseConfigLine(o, c.lines[i])
    BY <1>1, Zenon DEF Entry
  <2> QED
    BY <2>1, LineShape
<1>2. CASE c.mode = "listen" /\ i = 1
  <2>1. c.mode # "config" /\ ~(i > 1)
    BY <1>2
  <2>2. \A o : Entry(c, i, o) = Assign(o, "endpoint", c.lines[i])
    BY <1>2, <2>1, Zenon DEF Entry
  <2> QED
    BY <2>2, MembersAre
<1>3. CASE c.mode = "listen" /\ i > 1
  <2>1. c.mode # "config" /\ i # 1
    BY <1>3
  <2>2. \A o : Entry(c, i, o) = ApplyOption(o, c.lines, i)
    BY <1>3, <2>1, Zenon DEF Entry
  <2> QED
    BY <2>2, OptionShape
<1> QED
  BY <1>1, <1>2, <1>3

\* The options new are the options old with what entry i declares.
Extends(c, i, old, new) ==
  /\ DOMAIN new = Members
  /\ old = [m \in Members |-> old[m]] => new = [m \in Members |-> new[m]]
  /\ \A m \in Members : new[m] = old[m] \/ Fits(m, new[m])
  /\ \E s \in Sets(c, i) : \A m \in Members :
       new[m] = IF s[m] # Blank[m] THEN s[m] ELSE old[m]

\* Whether an entry is understood, and what it declares, does not depend on the options
\* before it.
LEMMA EntryOnOptions ==
  ASSUME NEW c, NEW i \in Nat \ {0}, c.mode \in {"config", "listen"},
         NEW o, DOMAIN o = Members
  PROVE  /\ Entry(c, i, o) = {} <=> Sets(c, i) = {}
         /\ \A s, t \in Sets(c, i) : s = t
         /\ \A n \in Entry(c, i, o) : Extends(c, i, o, n)
<1>1. ASSUME \A x : Entry(c, i, x) = {x}
      PROVE  /\ Entry(c, i, o) = {o} /\ Sets(c, i) = {Blank}
             /\ Extends(c, i, o, o)
  <2>1. Entry(c, i, o) = {o} /\ Sets(c, i) = {Blank}
    BY <1>1 DEF Sets
  <2> QED
    BY <2>1 DEF Extends
<1>2. ASSUME \A x : Entry(c, i, x) = {}
      PROVE  Entry(c, i, o) = {} /\ Sets(c, i) = {}
  BY <1>2 DEF Sets
<1>3. ASSUME NEW k \in Members, NEW text, \A x : Entry(c, i, x) = Assign(x, k, text)
      PROVE  /\ Entry(c, i, o) = {} <=> Sets(c, i) = {}
             /\ \A s, t \in Sets(c, i) : s = t
             /\ \A n \in Entry(c, i, o) : Extends(c, i, o, n)
  <2>1. Entry(c, i, o) = {[o EXCEPT ![k] = v] : v \in Meaning(k, text)}
    BY <1>3 DEF Assign
  <2>2. Sets(c, i) = {[Blank EXCEPT ![k] = v] : v \in Meaning(k, text)}
    BY <1>3 DEF Assign, Sets
  <2>3. DOMAIN Blank = Members
    BY MembersAre DEF Blank
  <2>4. Entry(c, i, o) = {} <=> Sets(c, i) = {}
    BY <2>1, <2>2
  <2>5. \A s, t \in Sets(c, i) : s = t
    BY <2>2, MeaningIsOne
  <2>6. ASSUME NEW n \in Entry(c, i, o)
        PROVE  Extends(c, i, o, n)
    <3>1. PICK v \in Meaning(k, text) : n = [o EXCEPT ![k] = v]
      BY <2>1
    <3>2. Fits(k, v) /\ v # Blank[k]
      BY MeaningFits
    <3>3. [Blank EXCEPT ![k] = v] \in Sets(c, i)
      BY <2>2
    <3>4. \A m \in Members : n[m] = IF m = k THEN v ELSE o[m]
      BY <3>1
    <3>5. \A m \in Members : [Blank EXCEPT ![k] = v][m] = IF m = k THEN v ELSE Blank[m]
      BY <2>3
    <3> DEFINE s == [Blank EXCEPT ![k] = v]
    <3> HIDE DEF s
    <3>6. ASSUME NEW m \in Members
          PROVE  n[m] = IF s[m] # Blank[m] THEN s[m] ELSE o[m]
      <4>1. CASE m = k
        BY <3>2, <3>4, <3>5, <4>1, Zenon DEF s
      <4>2. CASE m # k
        BY <3>4, <3>5, <4>2, Zenon DEF s
      <4> QED
        BY <4>1, <4>2
    <3>7. \A m \in Members : n[m] = o[m] \/ Fits(m, n[m])
      BY <3>2, <3>4, Zenon
    <3>8. DOMAIN n = Members /\ (o = [m \in Members |-> o[m]] => n = [m \in Members |-> n[m]])
      BY <3>1
    <3>9. s \in Sets(c, i)
      BY <3>3 DEF s
    <3> QED
      BY <3>6, <3>7, <3>8, <3>9, Zenon DEF Extends
  <2> QED
    BY <2>4, <2>5, <2>6
<1>4. CASE \A x : Entry(c, i, x) = {x}
  BY <1>1, <1>4
<1>5. CASE \A x : Entry(c, i, x) = {}
  BY <1>2, <1>5
<1>6. CASE \E m \in Members : \E t : \A x : Entry(c, i, x) = Assign(x, m, t)
  BY <1>3, <1>6
<1> QED
  BY <1>4, <1>5, <1>6, EntryShape

-----------------------------------------------------------------------------
(* What the entries declare *)

\* The largest element of a set.
LEMMA LargestIs ==
  ASSUME NEW S \in SUBSET Int, NEW n \in S, \A j \in S : j <= n
  PROVE  Max(S) = n
<1>1. \E x \in S : \A y \in S : x >= y
  OBVIOUS
<1>2. Max(S) \in S /\ \A y \in S : Max(S) >= y
  BY <1>1 DEF Max
<1> HIDE DEF Max
<1>3. Max(S) \in Int /\ Max(S) >= n /\ Max(S) <= n
  BY <1>2
<1> QED
  BY <1>3

\* Before the first entry that is the defaults.
LEMMA NothingDeclared ==
  ASSUME NEW c, Len(c.lines) \in Nat
  PROVE  DeclaredBefore(c, 1) = defaultServerOptions
<1>1. \A m : About(c, 1, m) = {}
  BY DEF About, Entries
<1>2. DeclaredBefore(c, 1) = [m \in Members |-> defaultServerOptions[m]]
  BY <1>1 DEF DeclaredBefore, Latest
<1>3. [m \in Members |-> defaultServerOptions[m]] = defaultServerOptions
  BY DEF Members, defaultServerOptions
<1> QED
  BY <1>2, <1>3

\* Behind the last entry it is everything.
LEMMA AllDeclared ==
  ASSUME NEW c, Len(c.lines) \in Nat, NEW n \in Nat, n > Len(c.lines)
  PROVE  DeclaredBefore(c, n) = Declared(c)
<1> DEFINE last == Len(c.lines) + 1
<1>1. \A m : About(c, n, m) = About(c, last, m)
  BY DEF About, Entries
<1> HIDE DEF last
<1>2. DeclaredBefore(c, n) = DeclaredBefore(c, last)
  BY <1>1 DEF DeclaredBefore
<1> QED
  BY <1>2 DEF Declared, last

\* In between, reading entry n makes of what is declared before n what is declared
\* before the next entry.
LEMMA NextDeclared ==
  ASSUME NEW c, Len(c.lines) \in Nat, c.mode \in {"config", "listen"},
         NEW n \in Entries(c), NEW next \in Nat,
         \A j \in Entries(c) : j < next <=> j <= n,
         NEW o \in Entry(c, n, DeclaredBefore(c, n))
  PROVE  o = DeclaredBefore(c, next) /\ Sets(c, n) # {}
<1> DEFINE old == DeclaredBefore(c, n)
<1>1. n \in Nat \ {0} /\ Entries(c) \in SUBSET Nat
  BY DEF Entries
<1>2. DOMAIN old = Members /\ old = [m \in Members |-> old[m]]
  BY DEF DeclaredBefore
<1>3. o \in Entry(c, n, old)
  OBVIOUS
<1> HIDE DEF old
<1>4. Extends(c, n, old, o) /\ \A s, t \in Sets(c, n) : s = t
  BY <1>1, <1>2, <1>3, EntryOnOptions
<1>5. PICK s \in Sets(c, n) : \A m \in Members : o[m] = IF s[m] # Blank[m] THEN s[m] ELSE old[m]
  BY <1>4 DEF Extends
<1>6. o = [m \in Members |-> o[m]]
  BY <1>2, <1>4 DEF Extends
<1>7. \A t \in Sets(c, n) : t = s
  BY <1>4, <1>5
<1>8. ASSUME NEW m \in Members
      PROVE  o[m] = DeclaredBefore(c, next)[m]
  <2>1. CASE s[m] # Blank[m]
    <3>1. n \in About(c, next, m)
      BY <1>1, <1>5, <2>1 DEF About
    <3>2. \A j \in About(c, next, m) : j <= n
      BY DEF About
    <3>3. About(c, next, m) \in SUBSET Int
      BY <1>1 DEF About
    <3>4. Max(About(c, next, m)) = n
      BY <3>1, <3>2, <3>3, LargestIs
    <3>5. (CHOOSE x \in Sets(c, n) : TRUE) = s
      BY <1>5, <1>7
    <3>6. DeclaredBefore(c, next)[m] = s[m]
      BY <3>1, <3>4, <3>5 DEF DeclaredBefore, Latest
    <3> QED
      BY <1>5, <2>1, <3>6
  <2>2. CASE s[m] = Blank[m]
    <3>1. n \notin About(c, next, m)
      BY <1>7, <2>2 DEF About
    <3>2. About(c, next, m) = About(c, n, m)
      BY <1>1, <3>1 DEF About
    <3>3. DeclaredBefore(c, next)[m] = old[m]
      BY <3>2 DEF DeclaredBefore, old
    <3> QED
      BY <1>5, <2>2, <3>3
  <2> QED
    BY <2>1, <2>2
<1>9. DeclaredBefore(c, next) = [m \in Members |-> DeclaredBefore(c, next)[m]]
  BY DEF DeclaredBefore
<1> QED
  BY <1>5, <1>6, <1>8, <1>9

-----------------------------------------------------------------------------
(* Types *)

\* The defaults are options.
LEMMA DefaultsType == OptionsType(defaultServerOptions)
<1>1. "info" \in {LogLevels[w] : w \in DOMAIN LogLevels}
  BY DEF LogLevels
<1>2. 1 \in 1..MaxPort /\ 1 \in 1..MaxSize /\ 1 \in 1..MaxUint32
  BY ServerConfigAssumption
<1> QED
  BY <1>1, <1>2 DEF OptionsType, Members, defaultServerOptions, SyncPolicies

\* Options of the right type whose members each keep their value, or get one that
\* fits, are of the right type.
LEMMA ExtendsType ==
  ASSUME NEW c, NEW i, NEW old, NEW new, OptionsType(old), Extends(c, i, old, new)
  PROVE  OptionsType(new)
<1>1. DOMAIN new = Members /\ \A m \in Members : new[m] = old[m] \/ Fits(m, new[m])
  BY DEF Extends
<1> QED
  BY <1>1, MembersAre DEF OptionsType, Fits

\* The initial states are well-typed.
LEMMA InitType == Init => TypeOK
BY DefaultsType DEF Init, TypeOK, Started

\* The end of a process leaves well-typed states.
LEMMA EndType ==
  ASSUME TypeOK, NEW p \in Proc, NEW how \in {"usage", "refused", "failed", "stopped", "killed"},
         End(p, how)
  PROVE  TypeOK'
BY DefaultsType DEF TypeOK, End, Started

\* Reading an entry, too.
LEMMA ReadType ==
  ASSUME TypeOK, NEW p \in Proc, index[p] # 0, ReadEntry(p)
  PROVE  TypeOK'
<1>1. PICK o \in Read(p) : options' = [options EXCEPT ![p] = o]
  BY DEF ReadEntry
<1>2. command[p].mode \in {"config", "listen"} /\ index[p] \in Nat \ {0}
  BY DEF ReadEntry, More, Reading, TypeOK
<1>3. OptionsType(options[p]) /\ DOMAIN options[p] = Members
  BY DEF TypeOK, OptionsType
<1>4. Extends(command[p], index[p], options[p], o)
  BY <1>1, <1>2, <1>3, EntryOnOptions DEF Read
<1>5. OptionsType(o)
  BY <1>3, <1>4, ExtendsType
<1>6. index' \in [Proc -> Nat]
  BY DEF ReadEntry, TypeOK, Width
<1> QED
  BY <1>1, <1>5, <1>6 DEF TypeOK, ReadEntry

\* Launching a process, too.
LEMMA LaunchType ==
  ASSUME TypeOK, NEW p \in Proc, Launch(p)
  PROVE  TypeOK'
<1> DEFINE kept == [defaultServerOptions EXCEPT !.endpoint = options[p].endpoint, !.walFilePath = Wal(p)]
<1>1. OptionsType(kept)
  BY DefaultsType, MembersAre DEF TypeOK, OptionsType
<1> HIDE DEF kept
<1>2. options' = [options EXCEPT ![p] = kept]
  BY DEF Launch, kept
<1> QED
  BY <1>1, <1>2 DEF TypeOK, Launch, Started

\* Recovery, too: the log is a sequence of values, as it was.
LEMMA RecoverType ==
  ASSUME TypeOK, NEW p \in Proc, Recover(p)
  PROVE  TypeOK'
<1>1. RecordsOf(Wal(p)) \in Seq(Value \cup {NoValue})
  BY DEF TypeOK, RecordsOf, Recover
<1>2. Replayed(RecordsOf(Wal(p))) \in Value \cup {NoValue}
  BY <1>1 DEF Replayed, After
<1> QED
  BY <1>1, <1>2 DEF TypeOK, Recover, Started

\* And so does a mutation.
LEMMA MutateType ==
  ASSUME TypeOK, LogInv, NEW p \in Proc, Mutate(p)
  PROVE  TypeOK'
<1>1. log' \in [Places -> {NoFile} \cup Seq(Value \cup {NoValue})]
  <2>1. CASE UNCHANGED log
    BY <2>1 DEF TypeOK
  <2>2. CASE Wal(p) # NoPath /\ \E v \in Value \cup {NoValue} : log' = [log EXCEPT ![Wal(p)] = Append(@, v)]
    <3>1. Wal(p) \in Places /\ log[Wal(p)] # NoFile
      BY <2>2 DEF LogInv, LogOf, Mutate
    <3>2. log[Wal(p)] \in Seq(Value \cup {NoValue})
      BY <3>1 DEF TypeOK
    <3>3. PICK v \in Value \cup {NoValue} : log' = [log EXCEPT ![Wal(p)] = Append(@, v)]
      BY <2>2
    <3>4. Append(log[Wal(p)], v) \in Seq(Value \cup {NoValue})
      BY <3>2
    <3> QED
      BY <3>1, <3>3, <3>4 DEF TypeOK
  <2> QED
    BY <2>1, <2>2 DEF Mutate
<1>2. behind' \in [Proc -> BOOLEAN]
  BY DEF Mutate, TypeOK
<1>3. memory' \in [Proc -> Value \cup {NoValue}]
  BY DEF Mutate, TypeOK
<1> QED
  BY <1>1, <1>2, <1>3 DEF TypeOK, Mutate

\* Every step leaves a well-typed state.
LEMMA StepType == TypeOK /\ ReadInv /\ LogInv /\ [Next]_vars => TypeOK'
<1> SUFFICES ASSUME TypeOK, ReadInv, LogInv, [Next]_vars
             PROVE  TypeOK'
  OBVIOUS
<1>1. CASE UNCHANGED vars
  BY <1>1 DEF TypeOK, vars
<1>2. ASSUME NEW p \in Proc, Start(p)
      PROVE  TypeOK'
  BY <1>2 DEF TypeOK, Start
<1>3. ASSUME NEW p \in Proc, ReadEntry(p)
      PROVE  TypeOK'
  <2>1. index[p] # 0
    BY <1>3 DEF ReadInv, ReadOf, ReadEntry, More, Reading
  <2> QED
    BY <1>3, <2>1, ReadType
<1>4. ASSUME NEW p \in Proc, EndOfOptions(p)
      PROVE  TypeOK'
  BY <1>4 DEF TypeOK, EndOfOptions
<1>5. ASSUME NEW p \in Proc, Listen(p)
      PROVE  TypeOK'
  BY <1>5 DEF TypeOK, Listen, Started
<1>6. ASSUME NEW p \in Proc,
             MainEnds(p) \/ ConfigUnreadable(p) \/ RefuseEntry(p) \/ RecoverFails(p)
               \/ ListenFails(p) \/ Stop(p) \/ Kill(p)
      PROVE  TypeOK'
  BY <1>6, EndType DEF MainEnds, ConfigUnreadable, RefuseEntry, RecoverFails, ListenFails, Stop, Kill
<1> QED
  BY <1>1, <1>2, <1>3, <1>4, <1>5, <1>6, LaunchType, RecoverType, MutateType DEF Next

-----------------------------------------------------------------------------
(* The options come to what is declared *)

\* It is so at first.
LEMMA InitRead == Init => ReadInv
BY DEF Init, ReadInv, ReadOf

\* What one process reads does not change when another one acts.
LEMMA OthersRead ==
  ASSUME TypeOK, ReadInv, NEW p \in Proc,
         \A q \in Proc \ {p} : /\ command'[q] = command[q] /\ index'[q] = index[q]
                              /\ options'[q] = options[q] /\ pc'[q] = pc[q]
                              /\ outcome'[q] = outcome[q],
         ReadOf(p)'
  PROVE  ReadInv'
<1>1. ASSUME NEW q \in Proc \ {p}
      PROVE  ReadOf(q)'
  BY <1>1 DEF ReadInv, ReadOf
<1> QED
  BY <1>1 DEF ReadInv

\* A process that starts has the defaults, and nothing is declared before the first entry.
LEMMA StartRead ==
  ASSUME TypeOK, ReadInv, NEW p \in Proc, Start(p)
  PROVE  ReadInv'
<1>1. PICK c \in Commands[p] : command' = [command EXCEPT ![p] = c]
  BY DEF Start
<1>2. options'[p] = DeclaredBefore(c, 1)
  BY <1>1, NothingDeclared, SentinelAssumption DEF Start, ReadInv, ReadOf
<1>3. command'[p] = c /\ index'[p] = 1 /\ pc'[p] = "options" /\ outcome'[p] = "none"
  BY <1>1 DEF Start, TypeOK
<1>4. \A i \in Entries(c) : ~(i < 1)
  BY DEF Entries
<1>5. ReadOf(p)'
  BY <1>2, <1>3, <1>4 DEF ReadOf
<1> QED
  BY <1>5, OthersRead DEF Start

\* A process that ends with a refusal had an entry that is not understood, or no options.
LEMMA EndRead ==
  ASSUME TypeOK, ReadInv, NEW p \in Proc, NEW how, End(p, how),
         how = "refused" => ~Understood(command[p])
  PROVE  ReadInv'
<1>1. command'[p] = command[p] /\ options'[p] = defaultServerOptions /\ pc'[p] = "off" /\ outcome'[p] = how
  BY DEF End, TypeOK
<1>2. Understood(command[p])' <=> Understood(command[p])
  BY <1>1 DEF Understood
<1>3. ReadOf(p)'
  BY <1>1, <1>2 DEF ReadOf
<1> QED
  BY <1>3, OthersRead DEF End

\* The ends of a process that are refusals.
LEMMA RefusalRead ==
  ASSUME TypeOK, ReadInv, NEW p \in Proc, MainEnds(p) \/ ConfigUnreadable(p) \/ RefuseEntry(p)
  PROVE  ReadInv'
<1>1. CASE MainEnds(p)
  BY <1>1, EndRead DEF MainEnds, Understood
<1>2. CASE ConfigUnreadable(p)
  BY <1>2, EndRead DEF ConfigUnreadable, Understood
<1>3. CASE RefuseEntry(p)
  <2>1. ~Understood(command[p])
    <3>1. CASE More(p) /\ Read(p) = {}
      <4>1. /\ index[p] \in Entries(command[p]) /\ index[p] \in Nat \ {0}
            /\ command[p].mode \in {"config", "listen"}
        BY <3>1 DEF More, Reading, ReadInv, ReadOf, Entries
      <4>2. DOMAIN options[p] = Members
        BY DEF TypeOK, OptionsType
      <4>3. Sets(command[p], index[p]) = {}
        BY <3>1, <4>1, <4>2, EntryOnOptions DEF Read
      <4> QED
        BY <4>1, <4>3 DEF Understood
    <3> QED
      BY <1>3, <3>1 DEF RefuseEntry, Understood
  <2> QED
    BY <1>3, <2>1, EndRead DEF RefuseEntry
<1> QED
  BY <1>1, <1>2, <1>3

\* An entry that is read is understood and adds what it declares.
LEMMA EntryRead ==
  ASSUME TypeOK, ReadInv, NEW p \in Proc, ReadEntry(p)
  PROVE  ReadInv'
<1> DEFINE c == command[p]
           n == index[p]
           next == n + Width(p)
<1>1. /\ n \in Entries(c) /\ n \in Nat \ {0} /\ c.mode \in {"config", "listen"}
      /\ c.mode = "config" \/ n = 1 \/ n % 2 = 0
  BY DEF ReadEntry, More, Reading, ReadInv, ReadOf, Entries
<1>2. next \in Nat \ {0} /\ (c.mode = "config" \/ next % 2 = 0)
  BY <1>1 DEF Width
<1>3. \A j \in Entries(c) : j < next <=> j <= n
  <2>1. CASE Width(p) = 1
    BY <1>1, <2>1 DEF Entries
  <2>2. CASE Width(p) = 2
    <3>1. c.mode = "listen" /\ n % 2 = 0
      BY <1>1, <2>2 DEF Width
    <3>2. \A j \in Entries(c) : j = 1 \/ j % 2 = 0
      BY <3>1 DEF Entries
    <3>3. \A j \in Nat : j = n + 1 => j % 2 # 0
      BY <1>1, <3>1
    <3>4. \A j \in Entries(c) : j # n + 1
      BY <1>1, <3>2, <3>3 DEF Entries
    <3> QED
      BY <1>1, <2>2, <3>4 DEF Entries
  <2> QED
    BY <2>1, <2>2 DEF Width
<1>4. Len(c.lines) \in Nat
  BY <1>1, SentinelAssumption DEF TypeOK, NoCommand
<1>5. PICK o \in Read(p) : options' = [options EXCEPT ![p] = o]
  BY DEF ReadEntry
<1>6. options[p] = DeclaredBefore(c, n)
  BY DEF ReadEntry, More, Reading, ReadInv, ReadOf
<1>7. o \in Entry(c, n, DeclaredBefore(c, n))
  BY <1>5, <1>6 DEF Read
<1> HIDE DEF c, n, next
<1>8. o = DeclaredBefore(c, next) /\ Sets(c, n) # {}
  BY <1>1, <1>2, <1>3, <1>4, <1>7, NextDeclared
<1>9. command'[p] = c /\ index'[p] = next /\ options'[p] = o /\ pc'[p] = "options" /\ outcome'[p] = outcome[p]
  BY <1>5 DEF c, n, next, ReadEntry, More, Reading, TypeOK
<1>10. \A i \in Entries(c) : i < n => Sets(c, i) # {}
  BY DEF c, n, ReadEntry, More, Reading, ReadInv, ReadOf
<1>11. \A i \in Entries(c) : i < next => Sets(c, i) # {}
  BY <1>1, <1>3, <1>8, <1>10 DEF Entries
<1>12. outcome[p] # "refused"
  BY DEF ReadEntry, More, Reading, ReadInv, ReadOf
<1>13. ReadOf(p)'
  BY <1>2, <1>8, <1>9, <1>11, <1>12 DEF ReadOf
<1> QED
  BY <1>13, OthersRead DEF ReadEntry

\* When all is read, all is understood.
LEMMA LaunchRead ==
  ASSUME TypeOK, ReadInv, NEW p \in Proc, EndOfOptions(p)
  PROVE  ReadInv'
<1> DEFINE c == command[p]
<1>1. /\ c.mode \in {"config", "listen"} /\ (c.mode = "listen" => c.lines # <<>>)
      /\ index[p] \in Nat /\ ~(index[p] <= Len(c.lines))
      /\ options[p] = DeclaredBefore(c, index[p])
      /\ \A i \in Entries(c) : i < index[p] => Sets(c, i) # {}
      /\ outcome[p] # "refused"
  BY DEF EndOfOptions, More, Reading, ReadInv, ReadOf
<1>2. Len(c.lines) \in Nat
  BY <1>1, SentinelAssumption DEF TypeOK, NoCommand
<1>3. options[p] = Declared(c)
  BY <1>1, <1>2, AllDeclared
<1>4. Understood(c)
  BY <1>1, <1>2 DEF Understood, Entries
<1>5. command' = command /\ options' = options /\ pc'[p] = "launch" /\ outcome'[p] = outcome[p]
  BY DEF EndOfOptions, TypeOK
<1>6. ReadOf(p)'
  BY <1>1, <1>3, <1>4, <1>5 DEF ReadOf
<1> QED
  BY <1>6, OthersRead DEF EndOfOptions

\* Later nothing is read.
LEMMA RunRead ==
  ASSUME TypeOK, ReadInv, NEW p \in Proc, Launch(p) \/ Recover(p) \/ Listen(p) \/ Mutate(p)
  PROVE  ReadInv'
<1>1. pc[p] # "off" /\ pc'[p] \in Started /\ outcome'[p] = outcome[p]
  BY DEF Launch, Recover, Listen, Mutate, TypeOK, Started
<1>2. ReadOf(p)'
  BY <1>1 DEF ReadInv, ReadOf, Started
<1> QED
  <2>1. CASE Launch(p)
    BY <1>2, <2>1, OthersRead DEF Launch
  <2>2. CASE Recover(p) \/ Listen(p) \/ Mutate(p)
    <3>1. UNCHANGED <<command, index, options, outcome>>
      BY <2>2 DEF Recover, Listen, Mutate
    <3>2. \A q \in Proc \ {p} : pc'[q] = pc[q]
      BY <2>2 DEF Recover, Listen, Mutate, TypeOK
    <3> QED
      BY <1>2, <3>1, <3>2, OthersRead
  <2> QED
    BY <2>1, <2>2

\* Every step preserves it.
LEMMA StepRead == TypeOK /\ ReadInv /\ [Next]_vars => ReadInv'
<1> SUFFICES ASSUME TypeOK, ReadInv, [Next]_vars
             PROVE  ReadInv'
  OBVIOUS
<1>1. CASE UNCHANGED vars
  BY <1>1 DEF vars, ReadInv, ReadOf
<1>2. ASSUME NEW p \in Proc, RecoverFails(p) \/ ListenFails(p) \/ Stop(p) \/ Kill(p)
      PROVE  ReadInv'
  BY <1>2, EndRead DEF RecoverFails, ListenFails, Stop, Kill
<1> QED
  BY <1>1, <1>2, StartRead, RefusalRead, EntryRead, LaunchRead, RunRead DEF Next

-----------------------------------------------------------------------------
(* A server has the map of its log *)

\* It is so at first, when nothing is served.
LEMMA InitLog == Init => LogInv
BY DEF Init, LogInv, LogOf

\* The map of a process and its log stay as they are when neither it nor its file is
\* touched, or when it is no longer, or not yet, there.
LEMMA SameLog ==
  ASSUME LogInv, NEW q \in Proc,
         pc'[q] \in {"listen", "serve"} /\ options'[q].walFilePath # NoPath =>
           /\ pc[q] \in {"listen", "serve"} /\ options'[q] = options[q]
           /\ memory'[q] = memory[q] /\ behind'[q] = behind[q]
           /\ Wal(q) \in Places /\ log[Wal(q)] # NoFile => log'[Wal(q)] = log[Wal(q)]
  PROVE  LogOf(q)'
BY DEF LogInv, LogOf, Wal, Replays, Replayed, After

\* A process that starts, reads, ends, or begins to listen changes no log.
LEMMA QuietLog ==
  ASSUME TypeOK, LogInv, NEW p \in Proc,
         \/ Start(p) \/ ReadEntry(p) \/ EndOfOptions(p) \/ Launch(p) \/ Listen(p)
         \/ \E how : End(p, how)
  PROVE  LogInv'
<1>1. log' = log
  BY DEF Start, ReadEntry, EndOfOptions, Launch, Listen, End
<1>2. ASSUME NEW q \in Proc \ {p}
      PROVE  LogOf(q)'
  <2>1. pc'[q] = pc[q] /\ options'[q] = options[q] /\ memory'[q] = memory[q] /\ behind'[q] = behind[q]
    BY DEF Start, ReadEntry, EndOfOptions, Launch, Listen, End, TypeOK
  <2> QED
    BY <1>1, <2>1, SameLog
<1>3. LogOf(p)'
  <2>1. CASE Start(p) \/ ReadEntry(p) \/ EndOfOptions(p) \/ \E how : End(p, how)
    <3>1. pc'[p] \notin {"listen", "serve"}
      BY <2>1 DEF Start, ReadEntry, EndOfOptions, End, More, Reading, TypeOK
    <3> QED
      BY <3>1, SameLog
  <2>2. CASE Launch(p)
    <3>1. pc'[p] = (IF Wal(p) = NoPath THEN "listen" ELSE "recover") /\ options'[p].walFilePath = Wal(p)
      BY <2>2, MembersAre DEF Launch, TypeOK, OptionsType, defaultServerOptions
    <3> QED
      BY <3>1, SameLog
  <2>3. CASE Listen(p)
    <3>1. pc[p] = "listen" /\ UNCHANGED <<options, memory, behind>>
      BY <2>3 DEF Listen
    <3> QED
      BY <1>1, <3>1, SameLog
  <2> QED
    BY <2>1, <2>2, <2>3
<1> QED
  BY <1>2, <1>3 DEF LogInv

\* Recovery leaves the logs that are there as they are, and reads one of them.
LEMMA RecoverLog ==
  ASSUME TypeOK, LogInv, NEW p \in Proc, Recover(p)
  PROVE  LogInv'
<1>1. \A f \in Places : log[f] # NoFile => log'[f] = log[f]
  BY DEF Recover, TypeOK, RecordsOf
<1>2. ASSUME NEW q \in Proc \ {p}
      PROVE  LogOf(q)'
  <2>1. pc'[q] = pc[q] /\ options'[q] = options[q] /\ memory'[q] = memory[q] /\ behind'[q] = behind[q]
    BY DEF Recover, TypeOK
  <2> QED
    BY <1>1, <2>1, SameLog
<1>3. LogOf(p)'
  <2>1. Wal(p)' = Wal(p) /\ Wal(p) \in Places
    BY DEF Recover, Wal
  <2>2. log'[Wal(p)] = RecordsOf(Wal(p)) /\ memory'[p] = Replayed(RecordsOf(Wal(p)))
    BY <2>1 DEF Recover, TypeOK
  <2>3. Replays(RecordsOf(Wal(p)))
    BY DEF Recover
  <2>4. RecordsOf(Wal(p)) # NoFile
    <3>1. RecordsOf(Wal(p)) \in Seq(Value \cup {NoValue})
      BY <2>1 DEF RecordsOf, TypeOK
    <3> QED
      BY <3>1, SentinelAssumption
  <2>5. log'[Wal(p)'] = RecordsOf(Wal(p))
    BY <2>1, <2>2
  <2> QED
    BY <2>1, <2>2, <2>3, <2>4, <2>5 DEF LogOf, Replays, Replayed, After
<1> QED
  BY <1>2, <1>3 DEF LogInv

\* A mutation extends the log as it changes the map; who else has that log is behind.
LEMMA MutateLog ==
  ASSUME TypeOK, LogInv, NEW p \in Proc, Mutate(p)
  PROVE  LogInv'
<1>1. UNCHANGED <<pc, options>> /\ \A q \in Proc \ {p} : memory'[q] = memory[q]
  BY DEF Mutate
<1>2. CASE Wal(p) = NoPath
  <2>1. UNCHANGED <<log, behind>>
    BY <1>2 DEF Mutate
  <2>2. \A q \in Proc \ {p} : LogOf(q)'
    BY <1>1, <2>1, SameLog
  <2>3. LogOf(p)'
    BY <1>1, <1>2, SameLog DEF Wal
  <2> QED
    BY <2>2, <2>3 DEF LogInv
<1>3. CASE Wal(p) # NoPath
  <2> DEFINE f == Wal(p)
             r == log[f]
  <2>1. f \in Places /\ r \in Seq(Value \cup {NoValue}) /\ pc[p] = "serve"
    BY <1>3 DEF LogInv, LogOf, Mutate, TypeOK
  <2>2. PICK v \in Value \cup {NoValue} :
          /\ v = NoValue => memory[p] # NoValue
          /\ memory' = [memory EXCEPT ![p] = v]
          /\ log' = [log EXCEPT ![f] = Append(r, v)]
          /\ behind' = [q \in Proc |-> \/ behind[q]
                                       \/ q # p /\ Wal(q) = f /\ pc[q] \in {"listen", "serve"}]
    BY <1>3 DEF Mutate
  <2>3. log'[f] = Append(r, v) /\ \A g \in Places \ {f} : log'[g] = log[g]
    BY <2>1, <2>2 DEF TypeOK
  <2>4. Append(r, v) # NoFile /\ Append(r, v) \in Seq(Value \cup {NoValue})
    BY <2>1, SentinelAssumption
  <2>5. ASSUME NEW q \in Proc \ {p}
        PROVE  LogOf(q)'
    <3>1. CASE Wal(q) = f
      <4>1. pc[q] \in {"listen", "serve"} => behind'[q]
        BY <2>2, <3>1
      <4>2. Wal(q)' = f
        BY <1>1, <3>1 DEF Wal
      <4> QED
        BY <1>1, <2>1, <2>3, <2>4, <4>1, <4>2 DEF LogOf
    <3>2. CASE Wal(q) # f
      <4>1. behind'[q] = behind[q]
        BY <2>2, <3>2 DEF TypeOK
      <4> QED
        BY <1>1, <2>3, <3>2, <4>1, SameLog
    <3> QED
      BY <3>1, <3>2
  <2>6. LogOf(p)'
    <3>1. Wal(p)' = f /\ memory'[p] = v /\ (~behind'[p] => ~behind[p])
      BY <1>1, <2>2 DEF Wal, TypeOK
    <3>2. ASSUME ~behind[p]
          PROVE  Replays(Append(r, v)) /\ Replayed(Append(r, v)) = v
      <4>1. Replays(r) /\ Replayed(r) = memory[p]
        BY <1>3, <2>1, <3>2 DEF LogInv, LogOf
      <4>2. Len(Append(r, v)) = Len(r) + 1 /\ Append(r, v)[Len(r) + 1] = v
        BY <2>1
      <4>3. \A i \in 1..Len(r) : Append(r, v)[i] = r[i]
        BY <2>1
      <4>4. \A i \in 0..Len(r) : After(Append(r, v), i) = After(r, i)
        BY <4>3 DEF After
      <4>5. After(Append(r, v), Len(r)) = memory[p]
        BY <2>1, <4>1, <4>4 DEF Replayed
      <4>6. Replayed(Append(r, v)) = v
        BY <2>1, <4>2 DEF Replayed, After
      <4>7. ASSUME NEW i \in 1..(Len(r) + 1), Append(r, v)[i] = NoValue
            PROVE  After(Append(r, v), i - 1) # NoValue
        <5>1. CASE i = Len(r) + 1
          BY <2>1, <2>2, <4>2, <4>5, <4>7, <5>1
        <5>2. CASE i \in 1..Len(r)
          BY <2>1, <4>1, <4>3, <4>4, <4>7, <5>2 DEF Replays
        <5> QED
          BY <2>1, <5>1, <5>2
      <4> QED
        BY <4>2, <4>6, <4>7 DEF Replays
    <3>3. log'[Wal(p)'] = Append(r, v)
      BY <2>3, <3>1
    <3> QED
      BY <2>1, <2>4, <3>1, <3>2, <3>3 DEF LogOf, Replays, Replayed, After
  <2> QED
    BY <2>5, <2>6 DEF LogInv
<1> QED
  BY <1>2, <1>3

\* Every step preserves it.
LEMMA StepLog == TypeOK /\ LogInv /\ [Next]_vars => LogInv'
<1> SUFFICES ASSUME TypeOK, LogInv, [Next]_vars
             PROVE  LogInv'
  OBVIOUS
<1>1. CASE UNCHANGED vars
  <2>1. \A q \in Proc : LogOf(q)'
    BY <1>1, SameLog DEF vars
  <2> QED
    BY <2>1 DEF LogInv
<1>2. ASSUME NEW p \in Proc,
             MainEnds(p) \/ ConfigUnreadable(p) \/ RefuseEntry(p) \/ RecoverFails(p)
               \/ ListenFails(p) \/ Stop(p) \/ Kill(p)
      PROVE  LogInv'
  <2>1. \E how : End(p, how)
    BY <1>2 DEF MainEnds, ConfigUnreadable, RefuseEntry, RecoverFails, ListenFails, Stop, Kill
  <2> QED
    BY <2>1, QuietLog
<1> QED
  BY <1>1, <1>2, QuietLog, RecoverLog, MutateLog DEF Next

-----------------------------------------------------------------------------
(* One server per endpoint *)

\* It is so at first.
LEMMA InitEndpoint == Init => EndpointInv
BY DEF Init, EndpointInv, Serving

\* A process serves with the options that it had when it began to, and then nobody
\* served on its endpoint.
LEMMA StepEndpoint == TypeOK /\ EndpointInv /\ [Next]_vars => EndpointInv'
<1> SUFFICES ASSUME TypeOK, EndpointInv, [Next]_vars
             PROVE  EndpointInv'
  OBVIOUS
<1>1. ASSUME \A q \in Proc : pc'[q] = "serve" => pc[q] = "serve" /\ options'[q] = options[q]
      PROVE  EndpointInv'
  BY <1>1 DEF EndpointInv, Serving
<1>2. CASE UNCHANGED vars
  BY <1>1, <1>2 DEF vars
<1>3. ASSUME NEW p \in Proc, Start(p) \/ ReadEntry(p) \/ EndOfOptions(p) \/ Launch(p)
      PROVE  EndpointInv'
  <2>1. \A q \in Proc \ {p} : pc'[q] = pc[q] /\ options'[q] = options[q]
    BY <1>3 DEF Start, ReadEntry, EndOfOptions, Launch, TypeOK
  <2>2. pc'[p] # "serve"
    BY <1>3 DEF Start, ReadEntry, EndOfOptions, Launch, More, Reading, TypeOK
  <2> QED
    BY <1>1, <2>1, <2>2
<1>4. ASSUME NEW p \in Proc, \E how : End(p, how)
      PROVE  EndpointInv'
  <2>1. \A q \in Proc \ {p} : pc'[q] = pc[q] /\ options'[q] = options[q]
    BY <1>4 DEF End, TypeOK
  <2>2. pc'[p] # "serve"
    BY <1>4 DEF End, TypeOK
  <2> QED
    BY <1>1, <2>1, <2>2
<1>5. ASSUME NEW p \in Proc, Recover(p) \/ Mutate(p)
      PROVE  EndpointInv'
  <2>1. options' = options /\ \A q \in Proc : pc'[q] = "serve" => pc[q] = "serve"
    <3>1. CASE Recover(p)
      BY <3>1 DEF Recover, TypeOK
    <3>2. CASE Mutate(p)
      BY <3>2 DEF Mutate
    <3> QED
      BY <1>5, <3>1, <3>2
  <2> QED
    BY <1>1, <2>1
<1>6. ASSUME NEW p \in Proc, Listen(p)
      PROVE  EndpointInv'
  <2>1. options' = options /\ \A q \in Proc \ {p} : pc'[q] = "serve" => pc[q] = "serve"
    BY <1>6 DEF Listen, TypeOK
  <2>2. \A q \in Serving : options[q].endpoint # options[p].endpoint
    BY <1>6 DEF Listen, Bindable
  <2> QED
    BY <2>1, <2>2 DEF EndpointInv, Serving
<1>7. ASSUME NEW p \in Proc,
             MainEnds(p) \/ ConfigUnreadable(p) \/ RefuseEntry(p) \/ RecoverFails(p)
               \/ ListenFails(p) \/ Stop(p) \/ Kill(p)
      PROVE  EndpointInv'
  <2>1. \E how : End(p, how)
    BY <1>7 DEF MainEnds, ConfigUnreadable, RefuseEntry, RecoverFails, ListenFails, Stop, Kill
  <2> QED
    BY <1>4, <2>1
<1> QED
  BY <1>2, <1>3, <1>5, <1>6, <1>7 DEF Next

-----------------------------------------------------------------------------
(* Theorems *)

\* The invariant behind the theorems below.
LEMMA Invariant == Spec => [](TypeOK /\ ReadInv /\ LogInv /\ EndpointInv)
<1>1. Init => TypeOK /\ ReadInv /\ LogInv /\ EndpointInv
  BY InitType, InitRead, InitLog, InitEndpoint
<1>2. TypeOK /\ ReadInv /\ LogInv /\ EndpointInv /\ [Next]_vars
        => (TypeOK /\ ReadInv /\ LogInv /\ EndpointInv)'
  BY StepType, StepRead, StepLog, StepEndpoint
<1> QED
  BY <1>1, <1>2, PTL DEF Spec

\* Every state of every behaviour is well-typed: whatever the command line or the file
\* holds, an option has a value of its range, and so has a record of the log.
THEOREM TypeCorrect == Spec => []TypeOK
BY Invariant, PTL

\* For every text of a command line or a configuration file, asterd starts with what
\* its entries declare as a whole, and refuses them only if one is not understood.
THEOREM OptionsAreDeclared == Spec => []OptionsAsDeclared
<1>1. ReadInv => OptionsAsDeclared
  BY DEF ReadInv, ReadOf, OptionsAsDeclared
<1> QED
  BY <1>1, Invariant, PTL

\* A server that is not behind has the map that its log would be recovered to, for any
\* number of processes, files and endpoints.
THEOREM LogsAreServed == Spec => []ServesItsLog
<1>1. LogInv => ServesItsLog
  BY DEF LogInv, LogOf, ServesItsLog, Serving
<1> QED
  BY <1>1, Invariant, PTL

\* The log of a server that is up to date is appended to only by a server with the same
\* file on another endpoint.
THEOREM EndpointsProtectLogs == Spec => NotOvertaken
<1>1. TypeOK /\ EndpointInv /\ [Next]_vars =>
        \A p \in Serving :
          ~behind[p] /\ behind'[p] =>
            \E q \in Serving : q # p /\ Wal(q) = Wal(p) /\ options[q].endpoint # options[p].endpoint
  <2> DEFINE Overtaken(p) == \E q \in Serving : /\ q # p /\ Wal(q) = Wal(p)
                                                /\ options[q].endpoint # options[p].endpoint
  <2> SUFFICES ASSUME TypeOK, EndpointInv, [Next]_vars, NEW p \in Serving, ~behind[p], behind'[p]
               PROVE  Overtaken(p)
    BY Zenon
  <2>1. PICK q \in Proc : Mutate(q)
    <3>1. CASE UNCHANGED vars
      BY <3>1 DEF vars
    <3>2. ASSUME NEW q \in Proc, \E how : End(q, how)
          PROVE  FALSE
      BY <3>2 DEF End, TypeOK, Serving
    <3>3. ASSUME NEW q \in Proc,
                 Start(q) \/ ReadEntry(q) \/ EndOfOptions(q) \/ Launch(q) \/ Recover(q) \/ Listen(q)
          PROVE  FALSE
      BY <3>3 DEF Start, ReadEntry, EndOfOptions, Launch, Recover, Listen
    <3>4. ASSUME NEW q \in Proc,
                 MainEnds(q) \/ ConfigUnreadable(q) \/ RefuseEntry(q) \/ RecoverFails(q)
                   \/ ListenFails(q) \/ Stop(q) \/ Kill(q)
          PROVE  FALSE
      BY <3>2, <3>4
         DEF MainEnds, ConfigUnreadable, RefuseEntry, RecoverFails, ListenFails, Stop, Kill
    <3> QED
      BY <3>1, <3>3, <3>4 DEF Next
  <2>2. q # p /\ Wal(p) = Wal(q) /\ q \in Serving
    BY <2>1 DEF Mutate, TypeOK, Serving
  <2>3. options[q].endpoint # options[p].endpoint
    BY <2>2 DEF EndpointInv
  <2> QED
    BY <2>2, <2>3
<1> QED
  BY <1>1, Invariant, PTL DEF Spec, NotOvertaken

=============================================================================
