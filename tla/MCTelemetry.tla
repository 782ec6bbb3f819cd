----------------------------- MODULE MCTelemetry -----------------------------
(* What is kept in files: telemetry logs, the schemas and data in them, and *)
(* JSON5, each on its own: "which" tells which one a behaviour is about.    *)
EXTENDS TelemetryReader

VARIABLES
  which,
  stage, written, value, target,
  step, type, item, standard, text, into

logVars == <<writerVars, readerVars>>
schemaVars == <<stage, written, value, target>>
jsonVars == <<step, type, item, standard, text, into>>
allVars == <<which, logVars, schemaVars, jsonVars>>

-----------------------------------------------------------------------------
\* All options but the clock of the system, and that alone.
Linked == [prev |-> TRUE, index |-> TRUE, checksum |-> TRUE, compress |-> TRUE, system |-> FALSE]
Bare == [prev |-> FALSE, index |-> FALSE, checksum |-> FALSE, compress |-> FALSE, system |-> TRUE]

\* A second file, what is odd about the data, and a reserved identifier.
Mixtures ==
  {[files |-> 2, schemas |-> 2, data |-> 2, other |-> 0, odd |-> 1, reserved |-> 0],
   [files |-> 1, schemas |-> 2, data |-> 1, other |-> 1, odd |-> 0, reserved |-> 1]}

\* A schema that is written again, between data.
Rewrites == {[files |-> 1, schemas |-> 3, data |-> 3, other |-> 0, odd |-> 0, reserved |-> 0]}

MCBudgets == (Linked :> Mixtures \cup Rewrites) @@ (Bare :> Mixtures)
MCRewrites == Linked :> Rewrites

-----------------------------------------------------------------------------
\* The types of TelemetrySchema.
S == INSTANCE TelemetrySchema WITH Wire <- {}, Target <- {}

Leaves == {S!Simple("kBoolean"), S!Fixed("kFixedInt", 2), S!Simple("kString"), S!Enum(2)}
NameA == <<97>>
NameB == <<98, 99>>

ObjectsOf(types) ==
  {S!Object(<<>>, <<>>)} \cup {S!Object(<<n>>, <<t>>) : n \in {NameA, NameB}, t \in types}
    \cup {S!Object(<<NameA, NameB>>, <<t, u>>) : t, u \in types}
    \cup {S!Object(<<NameB, NameA>>, <<t, S!Fixed("kFixedInt", 2)>>) : t \in types}

ContainersOf(types) ==
  {S!Container("kArray", 0, <<t>>) : t \in types}
    \cup {S!Container("kFixedArray", 2, <<t>>) : t \in types}
    \cup {S!Container("kUnion", 0, <<S!Simple("kNull"), t>>) : t \in types}

MCTarget ==
  ObjectsOf(Leaves) \cup ContainersOf(ObjectsOf({S!Fixed("kFixedInt", 2), S!Enum(1)}))
    \cup ObjectsOf(ContainersOf({S!Simple("kString"), S!Enum(1)}))

MCWire ==
  MCTarget \cup {S!Container("kMap", 0, <<t>>) : t \in Leaves}
    \cup {S!Object(<<NameA, NameB>>, <<S!Container("kMap", 0, <<S!Enum(2)>>), t>>) : t \in Leaves}

Schema == INSTANCE TelemetrySchema WITH Wire <- MCWire, Target <- MCTarget

-----------------------------------------------------------------------------
\* The types of Json5.
J == INSTANCE Json5 WITH
  stage <- step, written <- type, value <- item, reader <- into,
  Values <- <<>>, Readers <- <<>>, Fillers <- {}

JsonA == <<"a">>
JsonB == <<"b", "_", "1">>

JsonLeaves ==
  (J!Integer(-128, 127) :> {-128, 0, 127}) @@ (J!Bool :> BOOLEAN)
  @@ (J!String :> {<<>>, <<"\"", "\\", "n", "\n">>, <<"/", "*", "'", "{">>})
  @@ (J!Float :> {<<"-", "0", ".", "5">>, <<"1", "e", "+", "2", "0">>,
                <<"-">> \o J!Word("Infinity"), J!Word("NaN")})
  @@ (J!Enum(<<JsonA, JsonB>>) :> {2})

Containers(leaves) ==
  [t \in {J!Vector(u) : u \in DOMAIN leaves} |->
     {<<>>} \cup {<<v>> : v \in leaves[t.of]} \cup {<<v, v>> : v \in leaves[t.of]}]
  @@ [t \in {J!Array(u, 2) : u \in DOMAIN leaves} |->
        {<<v, w>> : v, w \in leaves[t.of]}]
  @@ [t \in {J!Optional(u) : u \in DOMAIN leaves} |-> {<<>>} \cup {<<v>> : v \in leaves[t.of]}]

\* Structs with a field of each type and a second one.
Structs(leaves) ==
  [t \in {J!Struct(<<JsonA, JsonB>>, <<u, J!Integer(-128, 127)>>) : u \in DOMAIN leaves} |->
     {<<v, 7>> : v \in leaves[t.types[1]]}]

JsonValues ==
  JsonLeaves @@ Containers(JsonLeaves) @@ Structs(JsonLeaves @@ Containers(JsonLeaves))
    @@ Containers(Structs(JsonLeaves)) @@ Structs(Structs(JsonLeaves))

\* A struct is also read with its fields in the other order, with one of
\* them, and with none; an array of structs likewise.
RECURSIVE ReadersOf(_)
ReadersOf(t) ==
  CASE t.kind = "struct" ->
         {t, J!Struct(Reverse(t.names), Reverse(t.types)), J!Struct(<<>>, <<>>),
          J!Struct(<<JsonB, <<"e">> >>, <<t.types[2], J!Bool>>)}
           \cup {J!Struct(<<JsonA>>, <<u>>) : u \in ReadersOf(t.types[1])}
           \cup (IF t.types[1] = t.types[2] THEN {J!Map(t.types[1])} ELSE {})
    [] t.kind \in {"vector", "optional"} -> {[t EXCEPT !.of = u] : u \in ReadersOf(t.of)}
    [] OTHER -> {t}

JsonReaders == [t \in DOMAIN JsonValues |-> ReadersOf(t)]

JsonFillers ==
  {<<>>, <<"\n", " ">>, <<"/", "*", "\"", ",", "/", "*", "/">>,
   <<" ", "/", "/", "*", "}", "\n", "\t">>}

Json == INSTANCE Json5 WITH
  stage <- step, written <- type, value <- item, reader <- into,
  Values <- JsonValues, Readers <- JsonReaders, Fillers <- JsonFillers

-----------------------------------------------------------------------------
(* The variables of the parts that a behaviour is not about. *)

SchemaIdle == stage = 0 /\ written = 0 /\ value = <<>> /\ target = 0
JsonIdle == step = 0 /\ type = 0 /\ item = 0 /\ standard = 0 /\ text = 0 /\ into = 0
LogIdle ==
  /\ options = 0 /\ open = FALSE /\ blocks = <<>> /\ ids = <<>> /\ nextId = 0 /\ schema = <<>>
  /\ lastSeek = 0 /\ now = 0 /\ budget = 0 /\ phase = 0 /\ cut = 0 /\ known = <<>>
  /\ finalItem = 0 /\ allFound = 0 /\ hasIndex = 0 /\ range = 0 /\ got = <<>> /\ sought = 0
  /\ failed = FALSE

AllInit ==
  \/ which = "log" /\ Init /\ SchemaIdle /\ JsonIdle
  \/ which = "schema" /\ Schema!Init /\ LogIdle /\ JsonIdle
  \/ which = "json" /\ Json!Init /\ LogIdle /\ SchemaIdle

LogStep == which = "log" /\ Next /\ UNCHANGED <<which, schemaVars, jsonVars>>
SchemaStep == which = "schema" /\ Schema!Next /\ UNCHANGED <<which, logVars, jsonVars>>
JsonStep == which = "json" /\ Json!Next /\ UNCHANGED <<which, logVars, schemaVars>>

AllNext == LogStep \/ SchemaStep \/ JsonStep
AllSpec == AllInit /\ [][AllNext]_allVars

-----------------------------------------------------------------------------
\* FileWriter, and FileReader's index: following prev_offset one finds every
\* block of a record since its schema was last written, in a seek block the
\* last of each, and by the index at the end every schema and the last item.
FileRight == which = "log" => LinksRight /\ IndexRight

\* FileReader::items yields what was written, in order, filtered by name, also
\* from a file that ends in the middle of a block; that block may be yielded
\* when it has no checksum.
LogItems == which = "log" => ItemsRight

\* FileReader::Seek finds the last block of every record before a time,
\* unless its schema was written again between the two.
LogSeek == which = "log" => SeekRight

\* file_reader.h:68-74: Seek returns "the most recent index for all known
\* records".
LogSeekFindsAll == which = "log" => SeekFindsAll

\* Schemas and data are read as they were written, by every reader.
SchemaRight == which = "schema" => Schema!SchemaParsed /\ Schema!ReadersAgree

\* MappedBinaryReader reads data of one schema into a type of another.
EvolutionRight == which = "schema" => Schema!EvolutionRight

\* What Json5WriteArchive writes, Json5ReadArchive reads back, into the type
\* that was written or one that has evolved, and changes nothing else.
Json5Right == which = "json" => Json!Json5RoundTrip /\ Json!Json5Minimal
=============================================================================
