------------------------------ MODULE Protocol ------------------------------
(***************************************************************************)
(* The line protocol of AsterKV: parsing and validation of a command line  *)
(* (protocol/parser.cpp, command/command.cpp), the text of a response      *)
(* (response_serializer.cpp), and what astercli makes of the text that it  *)
(* receives (response_renderer.cpp, printUserResponse).                    *)
(*                                                                         *)
(* Names, keys and message texts are single symbols; a value is the        *)
(* sequence of its bytes, because a bulk response counts and cuts them.    *)
(***************************************************************************)
EXTENDS Text

-----------------------------------------------------------------------------
(* Command lines *)

\* asciiEqualsIgnoreCase: the spellings that stand for each command here.
Spellings == [Ping   |-> {"PING"},
              Set    |-> {"SET", "set"},
              Get    |-> {"GET", "get"},
              Del    |-> {"DEL"},
              Exists |-> {"EXISTS"}]

ExpectedArgumentCount == [Ping |-> 0, Set |-> 2, Get |-> 1, Del |-> 1, Exists |-> 1]

NoRequest == [type |-> "invalid", arguments |-> <<>>]

\* isAsciiWhitespace: what std::isspace takes in the "C" locale ("VT" is the vertical tab).
Blanks == {" ", "\t", "\n", "VT", "\f", "\r"}

\* The parts that are not empty, in order.
NonEmpty(parts) ==
  LET upto[i \in 0..Len(parts)] ==
        IF i = 0 THEN <<>>
        ELSE IF parts[i] = <<>> THEN upto[i - 1] ELSE Append(upto[i - 1], parts[i])
  IN upto[Len(parts)]

\* tokenizeCommandLine: the non-empty parts between blanks.
Tokens(commandLine) ==
  NonEmpty(Split([i \in 1..Len(commandLine) |->
                    IF commandLine[i] \in Blanks THEN " " ELSE commandLine[i]], " "))

\* parseCommandLine and validateCommandRequest.
ParseCommandLine(commandLine) ==
  LET tokens == Tokens(commandLine)
      types  == {t \in DOMAIN Spellings :
                   /\ tokens # <<>>
                   /\ \E name \in Spellings[t] : tokens[1] = <<name>>
                   /\ Len(tokens) - 1 = ExpectedArgumentCount[t]}
  IN IF types = {} THEN NoRequest
     ELSE [type |-> CHOOSE t \in types : TRUE, arguments |-> Tail(tokens)]

-----------------------------------------------------------------------------
(* Responses *)

Simple(text)  == [kind |-> "simple", value |-> text]
Bulk(text)    == [kind |-> "bulk", value |-> text]
Number(n)     == [kind |-> "integer", value |-> Decimal[n]]
Failure(code) == [kind |-> "error", value |-> <<"ERR", " ", code>>]

CommandOk == Simple(<<"O", "K">>)
Pong      == Simple(<<"P", "O", "N", "G">>)

CrLf == <<"\r", "\n">>

\* serializeExecutionResult: serializeCommandResponse or serializeStatus.
Serialize(response) ==
  CASE response.kind = "simple"  -> <<"+">> \o response.value \o CrLf
    [] response.kind = "integer" -> <<":">> \o response.value \o CrLf
    [] response.kind = "error"   -> <<"-">> \o response.value \o CrLf
    [] response.kind = "bulk"    ->
         <<"$">> \o Decimal[Len(response.value)] \o CrLf \o response.value \o CrLf

-----------------------------------------------------------------------------
(* Received text *)

Invalid == [kind |-> "invalid", value |-> <<>>]

\* Where the first newline is, or the place after the end.
LineEnd(raw) ==
  CHOOSE i \in 1..(Len(raw) + 1) : /\ i <= Len(raw) => raw[i] = "\n"
                                  /\ \A j \in 1..(i - 1) : raw[j] # "\n"

\* readFirstLine: up to there, without a carriage return.
FirstLine(raw) ==
  LET first == Prefix(raw, LineEnd(raw) - 1) IN
  IF first # <<>> /\ first[Len(first)] = "\r" THEN Prefix(first, Len(first) - 1) ELSE first

\* What follows the first newline.
Remaining(raw) == SubSeq(raw, LineEnd(raw) + 1, Len(raw))

\* parseBulkLength and isValidIntegerPayload (no response here is negative).
IsNumber(text) == text # <<>> /\ \A i \in 1..Len(text) : IsDigit(text[i])

ParseLineResponse(kind, raw) ==
  LET first == FirstLine(raw) IN
  IF Len(first) < 2 \/ (kind = "integer" /\ ~IsNumber(Tail(first)))
    THEN Invalid
    ELSE [kind |-> kind, value |-> Tail(first)]

\* The payload must be there in full, and nothing but a line end after it.
ParseBulkStringResponse(raw) ==
  LET size == Tail(FirstLine(raw))
      rest == Remaining(raw) IN
  IF /\ IsNumber(size)
     /\ Len(rest) >= NumberOf(size)
     /\ SubSeq(rest, NumberOf(size) + 1, Len(rest)) \in {<<>>, <<"\n">>, CrLf}
    THEN Bulk(Prefix(rest, NumberOf(size)))
    ELSE Invalid

ParseProtocolResponse(raw) ==
  IF raw = <<>> THEN Invalid
  ELSE CASE raw[1] = "+" -> ParseLineResponse("simple", raw)
         [] raw[1] = "-" -> ParseLineResponse("error", raw)
         [] raw[1] = ":" -> ParseLineResponse("integer", raw)
         [] raw[1] = "$" -> ParseBulkStringResponse(raw)
         [] OTHER        -> Invalid

\* printUserResponse: what goes to standard output, with exit code 0; or nothing,
\* with exit code 1 and a message on standard error.
Printed(raw) ==
  LET response == ParseProtocolResponse(raw) IN
  IF response.kind \in {"invalid", "error"} THEN <<>> ELSE response.value
=============================================================================
