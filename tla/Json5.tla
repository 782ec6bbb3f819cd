-------------------------------- MODULE Json5 --------------------------------
(***************************************************************************)
(* mjlib/base/json5_write_archive.h and json5_read_archive.h: a value is   *)
(* written as JSON5 text and read into a type, which may have other fields *)
(* than the one it was written from.                                       *)
(*                                                                         *)
(* A type is a record with its kind; a struct's value is the sequence of   *)
(* its fields' values, an optional's a sequence of at most one, an enum's  *)
(* the index of its name.  Text is a sequence of characters.  The value of *)
(* a float is the text that fmt prints and stod reads.                     *)
(***************************************************************************)
EXTENDS Integers, Sequences, SequencesExt, FiniteSetsExt, TLC

CONSTANTS
  Values,      \* Values[type]: the values of it that are written
  Fillers,     \* white space and comments between the tokens
  Readers      \* Readers[type]: the types it is read into

VARIABLES
  stage,       \* "value", "text", "read"
  written, value,    \* the type and the value that is written
  standard,    \* options_.standard of the writer
  text,        \* what is written, and then filled
  reader       \* the type it is read into

vars == <<stage, written, value, standard, text, reader>>

Integer(min, max) == [kind |-> "int", min |-> min, max |-> max]
Bool == [kind |-> "bool"]
String == [kind |-> "string"]
Float == [kind |-> "float"]
Enum(names) == [kind |-> "enum", names |-> names]
Optional(type) == [kind |-> "optional", of |-> type]
Vector(type) == [kind |-> "vector", of |-> type]
Array(type, n) == [kind |-> "array", of |-> type, size |-> n]
Map(type) == [kind |-> "map", of |-> type]
Struct(names, types) == [kind |-> "struct", names |-> names, types |-> types]

\* T{}
RECURSIVE Default(_)
Default(t) ==
  CASE t.kind = "int" -> 0
    [] t.kind = "bool" -> FALSE
    [] t.kind = "float" -> <<"0">>
    [] t.kind = "enum" -> 1
    [] t.kind \in {"string", "optional", "vector", "map"} -> <<>>
    [] t.kind = "array" -> [i \in 1..t.size |-> Default(t.of)]
    [] t.kind = "struct" -> [i \in DOMAIN t.types |-> Default(t.types[i])]

Digit == <<"0", "1", "2", "3", "4", "5", "6", "7", "8", "9", "a", "b", "c", "d", "e", "f">>
Word(w) ==
  CASE w = "true" -> <<"t", "r", "u", "e">>
    [] w = "false" -> <<"f", "a", "l", "s", "e">>
    [] w = "null" -> <<"n", "u", "l", "l">>
    [] w = "NaN" -> <<"N", "a", "N">>
    [] w = "Infinity" -> <<"I", "n", "f", "i", "n", "i", "t", "y">>

-----------------------------------------------------------------------------
(* Json5WriteArchive.  A line break stands for the indentation after it.   *)

\* The character that follows the backslash.
Escapes == ("\"" :> "\"") @@ ("\\" :> "\\") @@ ("\f" :> "f") @@ ("\n" :> "n")
             @@ ("\r" :> "r") @@ ("\t" :> "t")

\* Fault: a backslash is written as it is.
EscapeJsonStringQuotes(s) ==
  FlattenSeq([i \in DOMAIN s |-> IF s[i] \in DOMAIN Escapes \ {"\\"}
                                 THEN <<"\\", Escapes[s[i]]>> ELSE <<s[i]>>])

EscapeJsonString(s) ==
  FlattenSeq([i \in DOMAIN s |-> IF s[i] \in DOMAIN Escapes
                                 THEN <<"\\", Escapes[s[i]]>> ELSE <<s[i]>>])

RECURSIVE Decimal(_)
Decimal(n) ==
  IF n < 0 THEN <<"-">> \o Decimal(-n)
  ELSE (IF n < 10 THEN <<>> ELSE Decimal(n \div 10)) \o <<Digit[1 + (n % 10)]>>

NotFinite == {Word("Infinity"), <<"-">> \o Word("Infinity"), Word("NaN")}

FormatFloat(v) == IF standard /\ v \in NotFinite THEN Word("null") ELSE v

Quoted(s) == <<"\"">> \o s \o <<"\"">>

\* The items of an array or the members of an object, with their commas.
Separated(items) ==
  FlattenSeq([i \in DOMAIN items |-> (IF i = 1 THEN <<>> ELSE <<",", "\n">>) \o items[i]])

RECURSIVE Write(_, _)
Write(t, v) ==
  CASE t.kind = "int" -> Decimal(v)
    [] t.kind = "bool" -> Word(IF v THEN "true" ELSE "false")
    [] t.kind = "string" -> Quoted(EscapeJsonString(v))
    [] t.kind = "float" -> FormatFloat(v)
    [] t.kind = "enum" -> Quoted(t.names[v])
    [] t.kind = "optional" -> IF v = <<>> THEN Word("null") ELSE Write(t.of, v[1])
    [] t.kind \in {"vector", "array"} ->
         <<"[", "\n">> \o Separated([i \in DOMAIN v |-> Write(t.of, v[i])])
           \o <<"\n", "]">>
    [] t.kind = "struct" ->
         <<"{", "\n">>
           \o Separated([i \in DOMAIN v |->
                Quoted(t.names[i]) \o <<" ", ":", " ">> \o Write(t.types[i], v[i])])
           \o <<"\n", "}">>

-----------------------------------------------------------------------------
(* Json5ReadArchive.  An error leaves a text that no reader accepts.       *)

Error == <<"error">>
Peek(s) == IF s = <<>> THEN "EOF" ELSE Head(s)
After(s, n) == SubSeq(s, n + 1, Len(s))
Got(v, rest) == [v |-> v, rest |-> rest]

Whitespace == {"\t", "\n", "\f", "\r", " "}
IdentifierFirst == {"a", "b", "e", "v", "_", "$"}
Decimals == {Digit[i] : i \in 1..10}

ReadUntilOneOf(s, possible) ==
  LET ends == {i \in DOMAIN s : s[i] \in possible}
  IN IF ends = {} THEN Error ELSE After(s, Min(ends))

\* ReadUntil("*/"): the character after a "*" is not looked at again.
RECURSIVE ReadUntil(_)
ReadUntil(s) ==
  IF Len(s) < 2 THEN Error
  ELSE IF s[1] # "*" THEN ReadUntil(Tail(s))
  ELSE IF s[2] = "/" THEN After(s, 2)
  ELSE ReadUntil(After(s, 2))

RECURSIVE IgnoreWhitespace(_)
IgnoreWhitespace(s) ==
  IF Peek(s) \in Whitespace THEN IgnoreWhitespace(Tail(s))
  ELSE IF Peek(s) # "/" THEN s
  ELSE CASE Peek(Tail(s)) = "/" -> IgnoreWhitespace(ReadUntilOneOf(After(s, 2), {"\n", "\r"}))
         [] Peek(Tail(s)) = "*" -> IgnoreWhitespace(ReadUntil(After(s, 2)))
         [] OTHER -> Error

Starts(s, literal) == Len(literal) <= Len(s) /\ SubSeq(s, 1, Len(literal)) = literal
Literal(s, literal) == IF Starts(s, literal) THEN After(s, Len(literal)) ELSE Error
ReadLiteral(s, literal) == Literal(IgnoreWhitespace(s), literal)

\* Read_EscapeSequence; the character codes of \x are left out.
Unescapes == [c \in {"\\", "'", "\""} |-> c]
               @@ ("f" :> "\f") @@ ("n" :> "\n") @@ ("r" :> "\r") @@ ("t" :> "\t")

Unescaped(c) == IF c \in DOMAIN Unescapes THEN Unescapes[c] ELSE "EOF"
Prefixed(c, got) == Got(<<c>> \o got.v, got.rest)

\* Read_TerminatedString, for ASCII: any other character ends the process
\* (AssertNotReached, 417-419).
RECURSIVE ReadTerminatedString(_, _)
ReadTerminatedString(s, terminator) ==
  CASE Peek(s) = terminator -> Got(<<>>, Tail(s))
    [] Peek(s) = "\\" /\ Unescaped(Peek(Tail(s))) # "EOF" ->
         Prefixed(Unescaped(s[2]), ReadTerminatedString(After(s, 2), terminator))
    [] Peek(s) \notin {"\\", "EOF", terminator} ->
         Prefixed(s[1], ReadTerminatedString(Tail(s), terminator))
    [] OTHER -> Got(<<>>, Error)

ReadString(s) ==
  IF Peek(s) \in {"\"", "'"} THEN ReadTerminatedString(Tail(s), Head(s))
  ELSE Got(<<>>, Error)

\* The leading characters of s that are in "set".
While(s, set) ==
  LET stops == {i \in DOMAIN s : s[i] \notin set}
      n == IF stops = {} THEN Len(s) ELSE Min(stops) - 1
  IN Got(SubSeq(s, 1, n), After(s, n))

ReadMemberName(s) ==
  IF Peek(s) = "\"" THEN ReadString(s)
  ELSE IF Peek(s) \in IdentifierFirst THEN While(s, IdentifierFirst \cup Decimals)
  ELSE Got(<<>>, Error)

Number(word, base, rest) == [v |-> word, base |-> base, rest |-> rest]

Joined(before, got) == Got(before \o got.v, got.rest)

\* The sign of the exponent, if there is one, is the second character.
ReadExponentPart(s) ==
  IF Peek(s) # "e" THEN Got(<<>>, s)
  ELSE IF Peek(Tail(s)) \in {"+", "-"} THEN Joined(SubSeq(s, 1, 2), While(After(s, 2), Decimals))
  ELSE Joined(<<"e">>, While(Tail(s), Decimals))

AndExponent(got) == Joined(got.v, ReadExponentPart(got.rest))
AndPart(got) ==
  AndExponent(IF Peek(got.rest) # "." THEN got
              ELSE Joined(Append(got.v, "."), While(Tail(got.rest), Decimals)))

Plain(got) == Number(got.v, 0, got.rest)
ReadDecimalLiteral(s) ==
  Plain(AndPart(IF Peek(s) = "0" THEN Got(<<"0">>, Tail(s)) ELSE While(s, Decimals)))

\* The digits overwrite the "0b", "0o" or "0x" the stringstream begins with.
Based(prefix, digits, base) ==
  Number(digits.v \o After(prefix, Len(digits.v)), base, digits.rest)
ReadBasedLiteral(s, base) ==
  Based(SubSeq(s, 1, 2), While(After(s, 2), {Digit[i] : i \in 1..base}), base)

ReadNumericLiteral(s, permissive) ==
  CASE Peek(s) = "I" -> Number(Word("Infinity"), 0, ReadLiteral(s, Word("Infinity")))
    [] Peek(s) = "N" -> Number(Word("NaN"), 0, ReadLiteral(s, Word("NaN")))
    [] Peek(s) = "n" /\ permissive -> Number(Word("NaN"), 0, ReadLiteral(s, Word("null")))
    [] Peek(s) = "0" /\ Peek(Tail(s)) = "b" -> ReadBasedLiteral(s, 2)
    [] Peek(s) = "0" /\ Peek(Tail(s)) = "o" -> ReadBasedLiteral(s, 8)
    [] Peek(s) = "0" /\ Peek(Tail(s)) = "x" -> ReadBasedLiteral(s, 16)
    [] OTHER -> ReadDecimalLiteral(s)

Signed(sign, n) == [n EXCEPT !.v = <<sign>> \o @]
ReadNumber(s, permissive) ==
  IF Peek(s) \in {"+", "-"} THEN Signed(s[1], ReadNumericLiteral(Tail(s), permissive))
  ELSE ReadNumericLiteral(s, permissive)

Negative(chars) == Peek(chars) = "-"
Unsigned(chars) == IF Peek(chars) \in {"+", "-"} THEN Tail(chars) ELSE chars

\* std::stoll, which must take all of the chars, and CheckLimit.
Place(digit, base) == CHOOSE d \in 0..(base - 1) : Digit[d + 1] = digit
AllDigits(chars, base) == chars # <<>> /\ ToSet(chars) \subseteq {Digit[i] : i \in 1..base}
Stoll(chars, base) == FoldLeft(LAMBDA a, c : a * base + Place(c, base), 0, chars)
CheckLimit(t, v, rest) == IF v < t.min \/ v > t.max THEN Got(t.min, Error) ELSE Got(v, rest)

ToInteger(t, n, base) ==
  IF ~AllDigits(Unsigned(n.v), base) THEN Got(t.min, Error)
  ELSE CheckLimit(t, (IF Negative(n.v) THEN -1 ELSE 1) * Stoll(Unsigned(n.v), base), n.rest)

InItsBase(t, n) == ToInteger(t, n, IF n.base = 0 THEN 10 ELSE n.base)
ReadInteger(t, s, permissive) == InItsBase(t, ReadNumber(s, permissive))

\* ToFloat: an empty text, or one with no digit, is refused.
ToFloat(n) ==
  IF Word("NaN") = n.v \/ ToSet(n.v) \cap (Decimals \cup {"I"}) # {}
  THEN Got(n.v, n.rest) ELSE Got(<<"0">>, Error)
ReadFloat(s, permissive) == ToFloat(ReadNumber(s, permissive))

\* Ignore_JSON5Value, with the items or members of a container.
RECURSIVE IgnoreItems(_, _)
RECURSIVE IgnoreMore(_, _)
RECURSIVE IgnoreValue(_)
IgnoreValue(s) ==
  CASE Peek(s) = "\"" -> ReadString(s).rest
    [] Peek(s) = "[" -> IgnoreItems(IgnoreWhitespace(Tail(s)), "]")
    [] Peek(s) = "{" -> IgnoreItems(IgnoreWhitespace(Tail(s)), "}")
    [] Peek(s) = "t" -> ReadLiteral(s, Word("true"))
    [] Peek(s) = "f" -> ReadLiteral(s, Word("false"))
    [] Peek(s) = "n" -> ReadLiteral(s, Word("null"))
    [] OTHER -> ReadNumber(s, FALSE).rest
IgnoreMore(s, end) ==
  IF Peek(s) = "," THEN IgnoreItems(IgnoreWhitespace(Tail(s)), end)
  ELSE IF Peek(s) = end THEN Tail(s) ELSE Error
IgnoreItems(s, end) ==
  IF Peek(s) = end THEN Tail(s)
  ELSE IgnoreMore(IgnoreWhitespace(IgnoreValue(IgnoreWhitespace(
         IF end = "]" THEN s ELSE ReadLiteral(ReadMemberName(s).rest, <<":">>)))), end)

\* Where the reader of an object is: done_, current_field_name_.
Member(done, name, rest) == [done |-> done \/ rest = Error, name |-> name, rest |-> rest]

Named(name) == Member(FALSE, name.v, IgnoreWhitespace(ReadLiteral(name.rest, <<":">>)))
MemberAt(s) == IF Peek(s) = "}" THEN Member(TRUE, <<>>, Tail(s)) ELSE Named(ReadMemberName(s))
PrepareMember(s) == MemberAt(IgnoreWhitespace(s))

EndMemberAt(s) ==
  IF Peek(s) = "," THEN PrepareMember(Tail(s)) ELSE Member(TRUE, <<>>, ReadLiteral(s, <<"}">>))
EndMember(s) == EndMemberAt(IgnoreWhitespace(s))

\* Reads s into "old", a value of type t: fields and items that are not
\* mentioned stay.
RECURSIVE Read(_, _, _)

\* One pass over the fields of t, as Serialize visits them, while the members
\* come in their order; o is the object so far.
Visited(o, i, r) == [v |-> [o.v EXCEPT ![i] = r.v], at |-> EndMember(r.rest), found |-> TRUE]
Visit(t, o, i) ==
  IF o.at.done \/ o.at.name # t.names[i] THEN o
  ELSE Visited(o, i, Read(t.types[i], o.v[i], o.at.rest))

Ignored(o) == IF o.found THEN o ELSE [o EXCEPT !.at = EndMember(IgnoreValue(@.rest))]

RECURSIVE Accept(_, _)
Accept(t, o) ==
  IF o.at.done THEN Got(o.v, o.at.rest)
  ELSE Accept(t, Ignored(FoldLeft(LAMBDA a, i : Visit(t, a, i), [o EXCEPT !.found = FALSE],
                                  [i \in DOMAIN t.types |-> i])))

\* Fault: what was there before goes first.
PutAppended(old, pos, v) == Append(old, v)

Put(old, pos, v) == IF pos \in DOMAIN old THEN [old EXCEPT ![pos] = v] ELSE Append(old, v)

\* The end of an array; one of a fixed size must have all its items.
EndArray(t, v, n, rest) == Got(v, IF t.kind = "array" /\ n < t.size THEN Error ELSE rest)

AfterComma(s) == IgnoreWhitespace(IF Peek(s) = "," THEN Tail(s) ELSE s)

\* ReadArray, into the items of "old" from "pos" on; s has no space in front.
RECURSIVE ReadItems(_, _, _, _)
ItemRead(t, v, s, pos) ==
  IF Peek(s) = "]" THEN EndArray(t, v, pos, Tail(s)) ELSE ReadItems(t, v, s, pos + 1)
Item(t, old, item, pos) ==
  IF item.rest = Error THEN Got(old, Error)
  ELSE ItemRead(t, Put(old, pos, item.v), AfterComma(IgnoreWhitespace(item.rest)), pos)
ReadItems(t, old, s, pos) ==
  IF Peek(s) = "]" THEN EndArray(t, old, pos - 1, Tail(s))
  ELSE IF t.kind = "array" /\ pos > t.size THEN Got(old, Error)
  ELSE Item(t, old, Read(t.of, IF pos \in DOMAIN old THEN old[pos] ELSE Default(t.of), s), pos)

\* A std::map is cleared first; of two members with one name the first stays.
RECURSIVE ReadMap(_, _, _)
MapItemRead(t, v, s) ==
  IF Peek(s) = "," THEN ReadMap(t, v, IgnoreWhitespace(Tail(s)))
  ELSE Got(v, ReadLiteral(s, <<"}">>))
MapItem(t, old, name, item) ==
  MapItemRead(t, old @@ (name :> item.v), IgnoreWhitespace(item.rest))
MapMember(t, old, at) == MapItem(t, old, at.name, Read(t.of, Default(t.of), at.rest))
ReadMap(t, old, s) ==
  IF Peek(s) = "}" THEN Got(old, Tail(s)) ELSE MapMember(t, old, Named(ReadMemberName(s)))

Enumerator(t, name) ==
  LET found == {i \in DOMAIN t.names : t.names[i] = name.v}
  IN IF found = {} THEN Got(1, Error) ELSE Got(Min(found), name.rest)
ReadEnumeration(t, s) == Enumerator(t, ReadString(s))

Present(got) == Got(<<got.v>>, got.rest)
ReadOptional(t, old, s) ==
  IF Peek(s) = "n" THEN Got(<<>>, ReadLiteral(s, Word("null")))
  ELSE Present(Read(t.of, IF old = <<>> THEN Default(t.of) ELSE old[1], s))

ReadBool(s) ==
  IF Peek(s) = "t" THEN Got(TRUE, ReadLiteral(s, Word("true")))
  ELSE IF Peek(s) = "f" THEN Got(FALSE, ReadLiteral(s, Word("false")))
  ELSE Got(FALSE, Error)

ReadArray(t, old, s) ==
  IF s = Error THEN Got(old, Error) ELSE ReadItems(t, old, IgnoreWhitespace(s), 1)
ReadObject(t, old, s) ==
  IF s = Error THEN Got(old, Error)
  ELSE Accept(t, [v |-> old, at |-> PrepareMember(s), found |-> FALSE])

Read(t, old, s) ==
  CASE t.kind = "int" -> ReadInteger(t, s, TRUE)
    [] t.kind = "bool" -> ReadBool(s)
    [] t.kind = "string" -> ReadString(s)
    [] t.kind = "float" -> ReadFloat(s, TRUE)
    [] t.kind = "enum" -> ReadEnumeration(t, s)
    [] t.kind = "optional" -> ReadOptional(t, old, s)
    [] t.kind \in {"vector", "array"} -> ReadArray(t, old, ReadLiteral(s, <<"[">>))
    [] t.kind = "map" -> ReadMap(t, <<>>, IgnoreWhitespace(ReadLiteral(s, <<"{">>)))
    [] t.kind = "struct" -> ReadObject(t, old, ReadLiteral(s, <<"{">>))

-----------------------------------------------------------------------------
(* A value is written, in one of the two styles; what is between its       *)
(* tokens is replaced; it is read into a type.                             *)

Init ==
  /\ stage = "value" /\ written \in DOMAIN Values /\ reader = written
  /\ value \in Values[written] /\ text = <<>>
  /\ standard \in BOOLEAN

WriteText ==
  /\ stage = "value" /\ stage' = "text"
  /\ text' = Write(written, value)
  /\ UNCHANGED <<written, value, standard, reader>>

Fill(filler) ==
  /\ stage = "text" /\ stage' = "read"
  /\ text' = FlattenSeq([i \in DOMAIN text |->
                           IF text[i] = "\n" THEN filler ELSE <<text[i]>>])
  /\ reader' \in Readers[written]
  /\ UNCHANGED <<written, value, standard>>

Next == WriteText \/ (\E f \in Fillers : Fill(f))
Spec == Init /\ [][Next]_vars

-----------------------------------------------------------------------------
\* What the reader's type should find: its own fields by name, the others
\* as they were.  Standard JSON has one word, null, for what is not finite
\* and for an optional without a value.
RECURSIVE Expected(_, _, _)
Expected(w, r, v) ==
  CASE r.kind = "map" ->
         [n \in ToSet(w.names) |->
            LET j == CHOOSE j \in DOMAIN w.names : w.names[j] = n
            IN Expected(w.types[j], r.of, v[j])]
    [] r.kind = "struct" ->
         [i \in DOMAIN r.types |->
            IF \E j \in DOMAIN w.names : w.names[j] = r.names[i]
            THEN LET j == CHOOSE j \in DOMAIN w.names : w.names[j] = r.names[i]
                 IN Expected(w.types[j], r.types[i], v[j])
            ELSE Default(r.types[i])]
    [] r = Optional(Float) /\ standard /\ ToSet(v) \cap NotFinite # {} -> <<>>
    [] r.kind \in {"vector", "array", "optional"} ->
         [i \in DOMAIN v |-> Expected(w.of, r.of, v[i])]
    [] r.kind = "float" -> IF standard /\ v \in NotFinite THEN Word("NaN") ELSE v
    [] OTHER -> v

\* Whatever is written is read back as it was, with white space and comments
\* anywhere, into a type with its fields in another order, with some of them
\* missing at any depth, or with others; and nothing is left unread.
Json5RoundTrip ==
  stage = "read" =>
    Read(reader, Default(reader), text \o <<"]">>) = Got(Expected(written, reader, value), <<"]">>)

\* Json5ReadIntoExisting: "only the minimal set of things are changed."  An
\* array or object that is read again changes nothing, and neither does one
\* that says nothing.
Json5Minimal ==
  stage = "read" =>
    LET v == Expected(written, reader, value) IN
      /\ Read(reader, v, text).v = v
      /\ reader.kind = "struct" => Read(reader, v, <<"{", "}">>) = Got(v, <<>>)
      /\ reader.kind = "vector" => Read(reader, v, <<"[", "]">>) = Got(v, <<>>)
=============================================================================
