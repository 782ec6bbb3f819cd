--------------------------- MODULE TelemetrySchema ---------------------------
(***************************************************************************)
(* mjlib/telemetry: the binary schema of a type, its parser, the data of a *)
(* type with its readers (C++, Python, JSON), and the mapping of data onto *)
(* a C++ type whose schema differs.                                        *)
(*                                                                         *)
(* A type is [k, n, sub, names]: its kind; int_size, array_size or number  *)
(* of values of an enum; the types of its children or fields; the names of *)
(* its fields.  Bytes and characters are numbers below 128.                *)
(***************************************************************************)
EXTENDS Integers, Sequences, SequencesExt, FiniteSetsExt, TLC

CONSTANTS
  Wire,        \* types that are written
  Target       \* C++ types they are read into

VARIABLES
  stage,       \* "type", "value", "done"
  written,     \* type of what is written
  value,       \* the value
  target       \* the C++ type it is mapped onto

vars == <<stage, written, value, target>>

Code ==
  [kFinal |-> 0, kNull |-> 1, kBoolean |-> 2, kFixedInt |-> 3, kFixedUInt |-> 4,
   kVarint |-> 5, kVaruint |-> 6, kFloat32 |-> 7, kFloat64 |-> 8, kBytes |-> 9,
   kString |-> 10, kObject |-> 16, kEnum |-> 17, kArray |-> 18, kFixedArray |-> 19,
   kMap |-> 20, kUnion |-> 21, kTimestamp |-> 22, kDuration |-> 23]

KindOf(code) == CHOOSE k \in DOMAIN Code : Code[k] = code

Simple(k) == [k |-> k, n |-> 0, sub |-> <<>>, names |-> <<>>]
Fixed(k, size) == [Simple(k) EXCEPT !.n = size]
Container(k, n, types) == [Simple(k) EXCEPT !.n = n, !.sub = types]
Object(names, types) == [Simple("kObject") EXCEPT !.sub = types, !.names = names]
Enum(n) == Container("kEnum", n, <<Simple("kVaruint")>>)

Rest(bytes, n) == SubSeq(bytes, n + 1, Len(bytes))
Each(s, Op(_)) == FlattenSeq([i \in DOMAIN s |-> Op(s[i])])

\* A number below 2^(7 * size), least significant byte first.
Little(v, size) == [i \in 1..size |-> (v \div 128 ^ (i - 1)) % 128]
Number(bytes, size) == MapThenSumSet(LAMBDA i : bytes[i] * 128 ^ (i - 1), 1..size)

String(s) == <<Len(s)>> \o s

\* The name of value i of an enum.
EnumName(i) == <<i>>

-----------------------------------------------------------------------------
(* BinaryWriteArchive and BinarySchemaArchive *)

RECURSIVE Data(_, _)
Data(t, v) ==
  CASE t.k = "kNull" -> <<>>
    [] t.k \in {"kFixedInt", "kFixedUInt"} -> Little(v, t.n)
    [] t.k \in {"kBoolean", "kVaruint", "kEnum"} -> <<v>>
    [] t.k = "kString" -> String(v)
    [] t.k = "kArray" -> <<Len(v)>> \o Each(v, LAMBDA x : Data(t.sub[1], x))
    [] t.k = "kFixedArray" -> Each(v, LAMBDA x : Data(t.sub[1], x))
    [] t.k = "kMap" -> <<Len(v)>> \o Each(v, LAMBDA x : String(x[1]) \o Data(t.sub[1], x[2]))
    [] t.k = "kUnion" -> <<v[1]>> \o Data(t.sub[v[1] + 1], v[2])
    [] t.k = "kObject" -> FlattenSeq([i \in DOMAIN v |-> Data(t.sub[i], v[i])])

\* What a default constructed C++ value is.
RECURSIVE Default(_)
Default(t) ==
  CASE t.k \in {"kBoolean", "kFixedInt", "kFixedUInt", "kVaruint", "kNull", "kEnum"} -> 0
    [] t.k \in {"kString", "kArray", "kMap"} -> <<>>
    [] t.k = "kFixedArray" -> [i \in 1..t.n |-> Default(t.sub[1])]
    [] t.k = "kUnion" -> <<0, 0>>
    [] t.k = "kObject" -> [i \in DOMAIN t.sub |-> Default(t.sub[i])]

Finish == <<0, 0, 0, Code["kFinal"], 0>>

RECURSIVE Schema(_)
Schema(t) ==
  <<Code[t.k]>> \o
    CASE t.k = "kObject" ->
           <<0>> \o FlattenSeq([i \in DOMAIN t.sub |->
              <<0>> \o String(t.names[i]) \o <<0>> \o Schema(t.sub[i])
                \o <<1>> \o Data(t.sub[i], Default(t.sub[i]))])
             \o Finish
      [] t.k = "kEnum" ->
           Schema(t.sub[1]) \o <<t.n>>
             \o FlattenSeq([i \in 1..t.n |-> <<i - 1>> \o String(EnumName(i - 1))])
      [] t.k = "kFixedArray" -> <<t.n>> \o Schema(t.sub[1])
      [] t.k \in {"kArray", "kMap"} -> Schema(t.sub[1])
      [] t.k = "kUnion" -> Each(t.sub, Schema) \o <<Code["kFinal"]>>
      [] t.k \in {"kFixedInt", "kFixedUInt"} -> <<t.n>>
      [] OTHER -> <<>>

-----------------------------------------------------------------------------
(* BinarySchemaParser *)

\* maybe_fixed_size; an array of fixed size has none.
RECURSIVE FixedSize(_)
FixedSize(t) ==
  CASE t.k = "kNull" -> 0
    [] t.k = "kBoolean" -> 1
    [] t.k = "kFloat32" -> 4
    [] t.k \in {"kFloat64", "kTimestamp", "kDuration"} -> 8
    [] t.k \in {"kFixedInt", "kFixedUInt"} -> t.n
    [] t.k = "kEnum" -> FixedSize(t.sub[1])
    [] t.k = "kObject" ->
         LET sizes == {FixedSize(t.sub[i]) : i \in DOMAIN t.sub}
         IN IF -1 \in sizes THEN -1
            ELSE MapThenSumSet(LAMBDA i : FixedSize(t.sub[i]), DOMAIN t.sub)
    [] OTHER -> -1

\* Element::Ignore: what is left after the data of t.
RECURSIVE Ignore(_, _)
Ignore(t, bytes) ==
  LET Repeated(n, from) == FoldLeft(LAMBDA b, i : Ignore(t.sub[1], b), from, [i \in 1..n |-> i])
      AsMany(n, from) == IF FixedSize(t.sub[1]) >= 0 THEN Rest(from, n * FixedSize(t.sub[1]))
                         ELSE Repeated(n, from)
  IN IF FixedSize(t) >= 0 THEN Rest(bytes, FixedSize(t))
     ELSE CASE t.k \in {"kVarint", "kVaruint"} -> Rest(bytes, 1)
            [] t.k \in {"kBytes", "kString"} -> Rest(bytes, 1 + bytes[1])
            [] t.k = "kObject" ->
                 FoldLeft(LAMBDA b, s : Ignore(s, b), bytes, t.sub)
            [] t.k = "kEnum" -> Ignore(t.sub[1], bytes)
            [] t.k = "kArray" -> AsMany(bytes[1], Rest(bytes, 1))
            [] t.k = "kFixedArray" -> AsMany(t.n, bytes)
            [] t.k = "kMap" ->
                 FoldLeft(LAMBDA b, i : Ignore(t.sub[1], Rest(b, 1 + b[1])),
                          Rest(bytes, 1), [i \in 1..bytes[1] |-> i])
            [] t.k = "kUnion" -> Ignore(t.sub[bytes[1] + 1], Rest(bytes, 1))

\* ReadType and ReadField, with ReadFields up to the final one: what was
\* read, and the rest.
RECURSIVE ReadType(_), ReadFields(_, _, _), ReadTypes(_, _)
ReadType(bytes) ==
  LET k == KindOf(bytes[1])
      r == Rest(bytes, 1)
      child == ReadType(r)
  IN CASE k \in {"kFixedInt", "kFixedUInt"} -> <<Fixed(k, r[1]), Rest(r, 1)>>
       [] k = "kObject" -> ReadFields(Rest(r, 1), <<>>, <<>>)
       [] k = "kEnum" ->
            LET n == child[2][1]
                items == FoldLeft(LAMBDA b, i : LET c == Ignore(child[1], b) IN Rest(c, 1 + c[1]),
                                  Rest(child[2], 1), [i \in 1..n |-> i])
            IN <<Container(k, n, <<child[1]>>), items>>
       [] k = "kFixedArray" ->
            LET item == ReadType(Rest(r, 1)) IN <<Container(k, r[1], <<item[1]>>), item[2]>>
       [] k \in {"kArray", "kMap"} -> <<Container(k, 0, <<child[1]>>), child[2]>>
       [] k = "kUnion" -> LET all == ReadTypes(r, <<>>) IN <<Container(k, 0, all[1]), all[2]>>
       [] OTHER -> <<Simple(k), r>>

ReadTypes(bytes, types) ==
  LET one == ReadType(bytes) IN
    IF one[1].k = "kFinal" THEN <<types, one[2]>>
    ELSE ReadTypes(one[2], Append(types, one[1]))

\* Field flags, name, aliases (none), type, and a default value or not.
ReadFields(bytes, names, types) ==
  LET name == SubSeq(bytes, 3, 2 + bytes[2])
      one == ReadType(Rest(bytes, 3 + bytes[2]))
      after == IF one[2][1] = 1 THEN Ignore(one[1], Rest(one[2], 1)) ELSE Rest(one[2], 1)
  IN IF one[1].k = "kFinal" THEN <<Object(names, types), after>>
     ELSE ReadFields(after, Append(names, name), Append(types, one[1]))

\* An element is the path of child numbers that leads to it.
RECURSIVE At(_, _)
At(t, path) == IF path = <<>> THEN t ELSE At(t.sub[path[1]], Tail(path))

\* Fault: the siblings of a parent are forgotten.
NextElementShallow(t, path) ==
  IF At(t, path).sub # <<>> THEN Append(path, 1)
  ELSE IF path # <<>> /\ Last(path) < Len(At(t, Front(path)).sub)
  THEN Append(Front(path), Last(path) + 1)
  ELSE <<-1>>

\* The first child, or the next sibling up the chain of parents; <<-1>>: none.
NextElement(t, path) ==
  LET with == {n \in 1..Len(path) : path[n] < Len(At(t, SubSeq(path, 1, n - 1)).sub)}
      n == Max(with)
  IN IF At(t, path).sub # <<>> THEN Append(path, 1)
     ELSE IF with = {} THEN <<-1>>
     ELSE Append(SubSeq(path, 1, n - 1), path[n] + 1)

RECURSIVE Elements(_, _)
Elements(t, path) ==
  IF path = <<-1>> THEN <<>> ELSE <<path>> \o Elements(t, NextElement(t, path))

-----------------------------------------------------------------------------
(* Readers: what was read, and the rest *)

\* Items one after the other, the i-th with Op(i, bytes).
ReadSeq(n, bytes, Op(_, _)) ==
  FoldLeft(LAMBDA acc, i : LET x == Op(i, acc[2]) IN <<Append(acc[1], x[1]), x[2]>>,
           << <<>>, bytes>>, [i \in 1..n |-> i])

ReadString(bytes) == <<SubSeq(bytes, 2, 1 + bytes[1]), Rest(bytes, 1 + bytes[1])>>

ReadScalar(t, bytes) ==
  CASE t.k = "kNull" -> <<0, bytes>>
    [] t.k \in {"kBoolean", "kVaruint", "kEnum"} -> <<bytes[1], Rest(bytes, 1)>>
    [] t.k \in {"kFixedInt", "kFixedUInt"} -> <<Number(bytes, t.n), Rest(bytes, t.n)>>
    [] t.k = "kString" -> ReadString(bytes)

\* BinaryReadArchive, for the type itself.
RECURSIVE ReadArchive(_, _)
ReadArchive(t, bytes) ==
  LET item(i, b) == ReadArchive(t.sub[1], b)
      field(i, b) == ReadArchive(t.sub[i], b)
      some == ReadArchive(t.sub[2], Rest(bytes, 1))
  IN CASE t.k = "kArray" -> ReadSeq(bytes[1], Rest(bytes, 1), item)
       [] t.k = "kFixedArray" -> ReadSeq(t.n, bytes, item)
       [] t.k = "kUnion" -> IF bytes[1] = 0 THEN << <<0, 0>>, Rest(bytes, 1)>>
                            ELSE << <<1, some[1]>>, some[2]>>
       [] t.k = "kObject" -> ReadSeq(Len(t.sub), bytes, field)
       [] OTHER -> ReadScalar(t, bytes)

\* reader.py: Type.from_binary, and read by the type.
RECURSIVE PyType(_), PyTypes(_, _), PyFields(_, _, _), PyRead(_, _)
PyType(bytes) ==
  LET k == KindOf(bytes[1])
      r == Rest(bytes, 1)
      child == PyType(r)
      item(i, b) == LET v == PyRead(child[1], b) IN ReadString(v[2])
  IN CASE k \in {"kFixedInt", "kFixedUInt"} -> <<Fixed(k, r[1]), Rest(r, 1)>>
       [] k = "kObject" -> PyFields(Rest(r, 1), <<>>, <<>>)
       [] k = "kEnum" ->
            <<Container(k, child[2][1], <<child[1]>>),
              ReadSeq(child[2][1], Rest(child[2], 1), item)[2]>>
       [] k = "kFixedArray" ->
            LET of == PyType(Rest(r, 1)) IN <<Container(k, r[1], <<of[1]>>), of[2]>>
       [] k \in {"kArray", "kMap"} -> <<Container(k, 0, <<child[1]>>), child[2]>>
       [] k = "kUnion" -> LET all == PyTypes(r, <<>>) IN <<Container(k, 0, all[1]), all[2]>>
       [] OTHER -> <<Simple(k), r>>

PyTypes(bytes, types) ==
  LET one == PyType(bytes) IN
    IF one[1].k = "kFinal" THEN <<types, one[2]>>
    ELSE PyTypes(one[2], Append(types, one[1]))

PyFields(bytes, names, types) ==
  LET name == ReadString(Rest(bytes, 1))
      one == PyType(Rest(name[2], 1))
      after == IF one[2][1] # 0 THEN PyRead(one[1], Rest(one[2], 1))[2] ELSE Rest(one[2], 1)
  IN IF one[1].k = "kFinal" THEN <<Object(names, types), after>>
     ELSE PyFields(after, Append(names, name[1]), Append(types, one[1]))

PyRead(t, bytes) ==
  LET item(i, b) == PyRead(t.sub[1], b)
      pair(i, b) == LET key == ReadString(b)
                        v == PyRead(t.sub[1], key[2])
                    IN << <<key[1], v[1]>>, v[2]>>
      field(i, b) == PyRead(t.sub[i], b)
      chosen == PyRead(t.sub[bytes[1] + 1], Rest(bytes, 1))
  IN CASE t.k = "kArray" -> ReadSeq(bytes[1], Rest(bytes, 1), item)
       [] t.k = "kFixedArray" -> ReadSeq(t.n, bytes, item)
       [] t.k = "kMap" -> ReadSeq(bytes[1], Rest(bytes, 1), pair)
       [] t.k = "kUnion" -> << <<bytes[1], chosen[1]>>, chosen[2]>>
       [] t.k = "kObject" -> ReadSeq(Len(t.sub), bytes, field)
       [] OTHER -> ReadScalar(t, bytes)

\* EmitJson: what it prints, as a value: an enum by name if it has one, of
\* a union what it holds, of a map nothing, and its data stays.
RECURSIVE EmitJson(_, _)

\* Fault: the last item of an array is left.
WriteArrayShort(t, bytes, size) == ReadSeq(Max({size - 1, 0}), bytes, LAMBDA i, b : EmitJson(t.sub[1], b))

WriteArray(t, bytes, size) == ReadSeq(size, bytes, LAMBDA i, b : EmitJson(t.sub[1], b))

EmitJson(t, bytes) ==
  LET field(i, b) == EmitJson(t.sub[i], b)
      chosen == EmitJson(t.sub[bytes[1] + 1], Rest(bytes, 1))
  IN CASE t.k = "kArray" -> WriteArray(t, Rest(bytes, 1), bytes[1])
       [] t.k = "kFixedArray" -> WriteArray(t, bytes, t.n)
       [] t.k = "kMap" -> <<<<>>, bytes>>
       [] t.k = "kEnum" -> <<IF bytes[1] < t.n THEN EnumName(bytes[1]) ELSE <<"unknown", bytes[1]>>,
                             Rest(bytes, 1)>>
       [] t.k = "kUnion" -> chosen
       [] t.k = "kObject" -> ReadSeq(Len(t.sub), bytes, field)
       [] OTHER -> ReadScalar(t, bytes)

-----------------------------------------------------------------------------
(* MappedBinaryReader *)

FieldNamed(t, name) == {i \in DOMAIN t.names : t.names[i] = name}

IsContainerTypeMatch(e, t) ==
  e.k = t.k /\ e.k \in {"kArray", "kMap", "kUnion", "kEnum", "kFixedArray"}

\* The constructor: whether data of element e can be read into the C++ type
\* t, or there is a mismatch somewhere.
RECURSIVE Maps(_, _)

\* Each field of the C++ structure is mapped from the one of its name, if any.
SchemaArchive(e, t) ==
  \A i \in DOMAIN t.sub : \A j \in FieldNamed(e, t.names[i]) : Maps(e.sub[j], t.sub[i])

SetupContainerReaders(e, t) ==
  \/ e.k = "kEnum"
  \/ e.k \in {"kArray", "kMap"} /\ Maps(e.sub[1], t.sub[1])
  \/ e.k = "kFixedArray" /\ e.n = t.n /\ Maps(e.sub[1], t.sub[1])
  \/ e.k = "kUnion" /\ (Len(e.sub) = 2 \/ e.sub[1].k = "kNull") /\ Maps(e.sub[2], t.sub[2])

Maps(e, t) ==
  \/ Schema(e) = Schema(t)
  \/ e.k = "kObject" /\ t.k = "kObject" /\ SchemaArchive(e, t)
  \/ IsContainerTypeMatch(e, t) /\ SetupContainerReaders(e, t)

\* Fault: one field too many is skipped.
FieldDataLate(e, bytes, j) ==
  FoldLeft(LAMBDA b, s : Ignore(s, b), bytes, SubSeq(e.sub, 1, Min({j, Len(e.sub) - 1})))

\* The data of field j of an object, where it is in the bytes.
FieldData(e, bytes, j) ==
  FoldLeft(LAMBDA b, s : Ignore(s, b), bytes, SubSeq(e.sub, 1, j - 1))

RECURSIVE MappedRead(_, _, _)

DataArchive(e, t, bytes) ==
  [i \in DOMAIN t.sub |->
     LET js == FieldNamed(e, t.names[i]) IN
       IF js = {} THEN Default(t.sub[i])
       ELSE MappedRead(e.sub[Min(js)], t.sub[i], FieldData(e, bytes, Min(js)))[1]]

ReadContainer(e, t, bytes) ==
  LET item(i, b) == MappedRead(e.sub[1], t.sub[1], b)
      some == MappedRead(e.sub[2], t.sub[2], Rest(bytes, 1))
  IN CASE e.k = "kEnum" -> ReadScalar(t, bytes)
       [] e.k = "kArray" -> ReadSeq(bytes[1], Rest(bytes, 1), item)
       [] e.k = "kFixedArray" -> ReadSeq(t.n, bytes, item)
       [] e.k = "kUnion" -> IF bytes[1] = 0 THEN << <<0, 0>>, Rest(bytes, 1)>>
                            ELSE << <<1, some[1]>>, some[2]>>

MappedRead(e, t, bytes) ==
  IF Schema(e) = Schema(t) THEN ReadArchive(t, bytes)
  ELSE IF e.k = "kObject" THEN <<DataArchive(e, t, bytes), Ignore(e, bytes)>>
  ELSE ReadContainer(e, t, bytes)

-----------------------------------------------------------------------------
(* Every type, value and target, one after the other *)

RECURSIVE ValuesOf(_)
ValuesOf(t) ==
  CASE t.k = "kNull" -> {0}
    [] t.k = "kBoolean" -> {0, 1}
    [] t.k \in {"kFixedInt", "kFixedUInt"} -> {1, 2 * 128 ^ (t.n - 1)}
    [] t.k \in {"kVaruint", "kEnum"} -> {1}
    [] t.k = "kString" -> {<<>>, <<97>>}
    [] t.k = "kArray" -> {<<>>} \cup {<<x, y>> : x, y \in ValuesOf(t.sub[1])}
    [] t.k = "kFixedArray" -> [1..t.n -> ValuesOf(t.sub[1])]
    [] t.k = "kMap" -> {<< << <<97>>, x>> >> : x \in ValuesOf(t.sub[1])}
    [] t.k = "kUnion" -> UNION {{<<i - 1, x>> : x \in ValuesOf(t.sub[i])} : i \in DOMAIN t.sub}
    [] t.k = "kObject" -> IF t.sub = <<>> THEN {<<>>}
                          ELSE IF Len(t.sub) = 1 THEN {<<x>> : x \in ValuesOf(t.sub[1])}
                          ELSE {<<x, y>> : x \in ValuesOf(t.sub[1]), y \in ValuesOf(t.sub[2])}

Init ==
  /\ stage = "type"
  /\ written \in Wire /\ target = written /\ value = <<>>

ChooseValue ==
  /\ stage = "type" /\ stage' = "value"
  /\ value' \in {<<v>> : v \in ValuesOf(written)}
  /\ UNCHANGED <<written, target>>

ChooseTarget ==
  /\ stage = "value" /\ stage' = "done"
  /\ target' \in {t \in Target : Maps(written, t)}
  /\ UNCHANGED <<written, value>>

Next == ChooseValue \/ ChooseTarget
Spec == Init /\ [][Next]_vars

-----------------------------------------------------------------------------
Bytes == Data(written, value[1])
Tail3 == <<1, 2, 3>>
RECURSIVE HasMap(_)
HasMap(t) == t.k = "kMap" \/ \E i \in DOMAIN t.sub : HasMap(t.sub[i])

\* The elements of a type in the order in which they should be visited:
\* each container before its children.
RECURSIVE Preorder(_, _)
Preorder(t, path) ==
  <<path>> \o FlattenSeq([i \in DOMAIN t.sub |-> Preorder(t.sub[i], Append(path, i))])

\* Parsing a schema, by the C++ and by the Python code, gives the type it
\* was made of, and nothing of what follows is touched; the elements are
\* visited once each, containers before their children.
SchemaParsed ==
  stage = "value" =>
    /\ ReadType(Schema(written) \o Tail3) = <<written, Tail3>>
    /\ PyType(Schema(written) \o Tail3) = <<written, Tail3>>
    /\ Elements(written, <<>>) = Preorder(written, <<>>)

\* The JSON of a value.
RECURSIVE Json(_, _)
Json(t, v) ==
  CASE t.k \in {"kArray", "kFixedArray"} -> [i \in DOMAIN v |-> Json(t.sub[1], v[i])]
    [] t.k = "kObject" -> [i \in DOMAIN v |-> Json(t.sub[i], v[i])]
    [] t.k = "kUnion" -> Json(t.sub[v[1] + 1], v[2])
    [] t.k = "kEnum" -> IF v < t.n THEN EnumName(v) ELSE <<"unknown", v>>
    [] OTHER -> v

\* All readers agree with the writer on the value and on where its data
\* ends: the archive for the type itself, Ignore, the Python reader, and
\* EmitJson (which does not do maps).
ReadersAgree ==
  stage = "value" =>
    /\ Ignore(written, Bytes \o Tail3) = Tail3
    /\ PyRead(written, Bytes \o Tail3) = <<value[1], Tail3>>
    /\ HasMap(written) \/ /\ EmitJson(written, Bytes \o Tail3) = <<Json(written, value[1]), Tail3>>
                          /\ ReadArchive(written, Bytes \o Tail3) = <<value[1], Tail3>>

\* The value that schema evolution makes of v: fields by name, the missing
\* ones with their defaults.
RECURSIVE Evolved(_, _, _)
Evolved(e, t, v) ==
  CASE e.k = "kObject" ->
         [i \in DOMAIN t.sub |->
            LET js == FieldNamed(e, t.names[i]) IN
              IF js = {} THEN Default(t.sub[i])
              ELSE Evolved(e.sub[Min(js)], t.sub[i], v[Min(js)])]
    [] e.k \in {"kArray", "kFixedArray"} ->
         [i \in DOMAIN v |-> Evolved(e.sub[1], t.sub[1], v[i])]
    [] e.k = "kUnion" -> IF v[1] = 0 THEN v ELSE <<1, Evolved(e.sub[2], t.sub[2], v[2])>>
    [] OTHER -> v

\* Data read into a C++ type whose schema differs is the same data, field by
\* field by name, at any depth of containers, and all of it is consumed.
EvolutionRight ==
  stage = "done" =>
    MappedRead(written, target, Bytes \o Tail3) = <<Evolved(written, target, value[1]), Tail3>>
=============================================================================
