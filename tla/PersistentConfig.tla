-------------------------- MODULE PersistentConfig --------------------------
(***************************************************************************)
(* mjlib/micro/persistent_config.cc, flash.h and serializable_handler.h:   *)
(* groups of configuration values, changed by field, saved to flash byte   *)
(* by byte and loaded by whatever firmware runs next.  Power may fail      *)
(* between any two bytes.                                                  *)
(*                                                                         *)
(* A type is a leaf (one byte), a structure of named fields or an array.   *)
(* A group's value is the sequence of its leaves.  A key is a sequence of  *)
(* tokens; the tokens of array elements are their indices.                 *)
(***************************************************************************)
EXTENDS Integers, Sequences, SequencesExt, FiniteSets, FiniteSetsExt, TLC

CONSTANTS
  Firmwares,   \* sequences of [name, type, crc, enumerate]: elements_ in order
  Types,       \* the types, for the archives alone
  Bytes,       \* values that are set
  FlashSize,
  MaxSets      \* bound: commands that change values or flash

VARIABLES
  elements,    \* the firmware that runs
  value,       \* value of each group
  flash,
  position,    \* bytes the last Write has programmed
  writing,
  job,         \* what has a write outstanding, and the command it answers
  told,        \* messages of the current response
  sets,        \* commands that changed values or flash
  saved,       \* history: groups of the last Write, in order
  fresh        \* history: Load was the last thing to happen, after a restart

vars == <<elements, value, flash, position, writing, job, told, sets, saved, fresh>>

Leaf == [k |-> "leaf"]
Struct(names, types) == [k |-> "struct", names |-> names, sub |-> types]
Array(n, type) == [k |-> "array", n |-> n, sub |-> type]

-----------------------------------------------------------------------------
(* serializable_handler_detail.h *)

\* The keys of the leaves in the order in which an archive visits them.
RECURSIVE Visit(_)
Visit(t) ==
  CASE t.k = "leaf" -> << <<>> >>
    [] t.k = "struct" ->
         FlattenSeq([i \in DOMAIN t.sub |->
           LET keys == Visit(t.sub[i]) IN [j \in DOMAIN keys |-> <<t.names[i]>> \o keys[j]]])
    [] t.k = "array" ->
         LET keys == Visit(t.sub) IN
         FlattenSeq([i \in 1..t.n |-> [j \in DOMAIN keys |-> <<i - 1>> \o keys[j]]])

\* Fault: the field that was written is written again.
EmitValueAgain(t, index) == IF index < Len(Visit(t)) THEN <<Visit(t)[Max({index, 1})]>> ELSE <<>>

\* One evaluation of the archive emits the field of the index, or is done.
EmitValue(t, index) == IF index < Len(Visit(t)) THEN <<Visit(t)[index + 1]>> ELSE <<>>

\* Fault: the fields before it are counted, not their leaves.
FindField(t, key) ==
  IF t.k = "struct" /\ key # <<>> /\ key[1] \in Range(t.names)
  THEN CHOOSE i \in DOMAIN t.names : t.names[i] = key[1] ELSE 0

\* ItemArchive: the number of the leaf that a key names, 0 if none; -1 where
\* strtol is given a null pointer.  What follows a leaf is not looked at.
RECURSIVE Find(_, _)
Find(t, key) ==
  LET before(i) == MapThenSumSet(LAMBDA j : Len(Visit(t.sub[j])), 1..(i - 1))
      size == Len(Visit(t.sub))
      at == CHOOSE i \in DOMAIN t.names : t.names[i] = key[1]
      inner == IF t.k = "struct" THEN Find(t.sub[at], Tail(key)) ELSE Find(t.sub, Tail(key))
      offset == IF t.k = "struct" THEN before(at) ELSE key[1] * size
  IN CASE t.k = "leaf" -> 1
       [] t.k = "array" /\ key = <<>> -> -1
       [] \/ key = <<>>
          \/ t.k = "struct" /\ key[1] \notin Range(t.names)
          \/ t.k = "array" /\ key[1] \notin 0..(t.n - 1) -> 0
       [] OTHER -> IF inner > 0 THEN offset + inner ELSE inner

\* The value that is formatted, and the value with one leaf parsed anew.
ReadArchive(v, leaf) == v[leaf]
SetArchive(v, leaf, byte) == [v EXCEPT ![leaf] = byte]

SetDefault(t) == [i \in DOMAIN Visit(t) |-> 0]

-----------------------------------------------------------------------------
(* The image in flash *)

Word(n) == <<n, 0, 0, 0>>

\* One group: name, schema CRC, size, data.
ElementImage(e, v) == <<1, e.name>> \o Word(e.crc) \o Word(Len(v)) \o v

Image(es, v) ==
  FlattenSeq([i \in DOMAIN es |-> ElementImage(es[i], v[i])]) \o Word(0)

\* Size counts what Write would program.
Size(es, v) ==
  MapThenSumSet(LAMBDA i : 2 + 4 + 4 + Len(v[i]), DOMAIN es) + 4

Rest(bytes, n) == SubSeq(bytes, n + 1, Len(bytes))

\* A size of 4 bytes, as far as it matters: more than there is, or its value.
ReadSize(bytes) ==
  IF bytes[2] + bytes[3] + bytes[4] > 0 THEN Len(bytes) ELSE bytes[1]

\* Fault: the data of a group with another schema is taken.
DoLoadAnySchema(es, v, bytes) ==
  [i \in DOMAIN es |->
     IF Len(bytes) >= 10 + Len(v[i]) /\ bytes[2] = es[i].name THEN SubSeq(bytes, 11, 10 + Len(v[i]))
     ELSE v[i]]

\* DoLoad: the values after the elements in bytes are read into v.  A first
\* byte with bit 7 starts a number that no erased byte ends.
RECURSIVE DoLoad(_, _, _)
DoLoad(es, v, bytes) ==
  LET named == {i \in DOMAIN es : es[i].name = bytes[2]}
      i == CHOOSE i \in named : TRUE
      data == Rest(bytes, 10)
      n == Len(v[i])
  IN IF bytes = <<>> \/ bytes[1] \in {0} \cup 128..255 \/ Len(bytes) < 10 THEN v
     ELSE IF named = {} \/ SubSeq(bytes, 3, 6) # Word(es[i].crc)
     THEN DoLoad(es, v, Rest(data, ReadSize(SubSeq(bytes, 7, 10))))
     ELSE IF Len(data) < n THEN v
     ELSE DoLoad(es, [v EXCEPT ![i] = SubSeq(data, 1, n)], Rest(data, n))

Erased == [i \in 1..FlashSize |-> 255]

-----------------------------------------------------------------------------
\* The image of the last Write, and where in it each group ends.
SavedImage == Image([i \in DOMAIN saved |-> saved[i].e], [i \in DOMAIN saved |-> saved[i].v])
EndOf(n) == MapThenSumSet(LAMBDA i : 10 + Len(saved[i].v), 1..n)

NoJob == [kind |-> "none"]

Init ==
  /\ elements \in Firmwares
  /\ value = [i \in DOMAIN elements |-> SetDefault(elements[i].type)]
  /\ flash = Erased
  /\ position = 0 /\ writing = FALSE
  /\ job = NoJob /\ told = <<>>
  /\ sets = 0 /\ saved = <<>> /\ fresh = FALSE

Idle == ~writing /\ job = NoJob

\* The last message of the response to what was asked, after those before it.
Finish(asked, messages, last) ==
  /\ told' = Append(messages, last)
  /\ job' = [kind |-> "last", asked |-> asked]

Asked(op) == [op |-> op]
Answer(asked, message) == Finish(asked, <<>>, message)

Group(name) == {i \in DOMAIN elements : elements[i].name = name}
IndexOf(name) == CHOOSE i \in Group(name) : TRUE

Set(name, key, byte) ==
  LET i == IndexOf(name)
      leaf == Find(elements[i].type, key)
      asked == [op |-> "set", name |-> name, key |-> key, byte |-> byte, before |-> value]
  IN /\ Idle /\ sets < MaxSets /\ sets' = sets + 1
     /\ \/ Group(name) = {} /\ Answer(asked, "ERR unknown group") /\ UNCHANGED value
        \/ Group(name) # {} /\ leaf = 0 /\ Answer(asked, "ERR error setting") /\ UNCHANGED value
        \/ /\ Group(name) # {} /\ leaf > 0 /\ Answer(asked, "OK")
           /\ value' = [value EXCEPT ![i] = SetArchive(@, leaf, byte)]
     /\ fresh' = FALSE
     /\ UNCHANGED <<elements, flash, position, writing, saved>>

Default ==
  /\ Idle /\ sets < MaxSets /\ sets' = sets + 1
  /\ value' = [i \in DOMAIN elements |-> SetDefault(elements[i].type)]
  /\ Answer(Asked("default"), "OK")
  /\ fresh' = FALSE
  /\ UNCHANGED <<elements, flash, position, writing, saved>>

Load ==
  /\ Idle
  /\ value' = DoLoad(elements, value, flash)
  /\ Answer(Asked("load"), "OK")
  /\ fresh' = FALSE
  /\ UNCHANGED <<elements, flash, position, writing, sets, saved>>

\* Unlock and Erase; the bytes follow one by one, then the answer.
Write ==
  /\ Idle /\ sets < MaxSets /\ sets' = sets + 1
  /\ flash' = Erased
  /\ position' = 0 /\ writing' = TRUE
  /\ saved' = [i \in DOMAIN elements |-> [e |-> elements[i], v |-> value[i]]]
  /\ fresh' = FALSE
  /\ UNCHANGED <<elements, value, job, told>>

ProgramByte ==
  /\ writing
  /\ position' = position + 1
  /\ flash' = [flash EXCEPT ![position'] = SavedImage[position']]
  /\ writing' = (position' < Len(SavedImage))
  /\ IF writing' THEN UNCHANGED <<job, told>> ELSE Answer(Asked("write"), "OK")
  /\ UNCHANGED <<elements, value, sets, saved, fresh>>

\* Power fails; the next firmware registers its groups and loads.
Restart ==
  /\ elements' \in Firmwares
  /\ value' = DoLoad(elements', [i \in DOMAIN elements' |-> SetDefault(elements'[i].type)], flash)
  /\ writing' = FALSE /\ job' = NoJob /\ told' = <<>>
  /\ fresh' = TRUE
  /\ UNCHANGED <<flash, position, sets, saved>>

\* Commands that change nothing: "size", "schema", "data", a name or
\* subcommand that is not known.
Emit ==
  /\ Idle
  /\ Answer(Asked("size"), Size(elements, value))
  /\ UNCHANGED <<elements, value, flash, position, writing, sets, saved, fresh>>

\* The value, then the end of the line; the key of no leaf is an error.
Get(name, key) ==
  LET leaf == Find(elements[IndexOf(name)].type, key)
      asked == [op |-> "get", name |-> name, key |-> key]
  IN
    /\ Idle
    /\ \/ Group(name) = {} /\ Answer(asked, "ERR unknown group")
       \/ Group(name) # {} /\ leaf = 0 /\ Answer(asked, "ERR error reading")
       \/ /\ Group(name) # {} /\ leaf > 0
          /\ told' = <<ReadArchive(value[IndexOf(name)], leaf)>>
          /\ job' = [kind |-> "get", asked |-> asked]
    /\ UNCHANGED <<elements, value, flash, position, writing, sets, saved, fresh>>

\* The next name, or OK.
ListCallback(index, messages) ==
  IF index >= Len(elements) THEN Finish(Asked("list"), messages, "OK")
  ELSE /\ told' = Append(messages, elements[index + 1].name)
       /\ job' = [kind |-> "list", index |-> index + 1]

List ==
  /\ Idle /\ ListCallback(0, <<>>)
  /\ UNCHANGED <<elements, value, flash, position, writing, sets, saved, fresh>>

\* The first field of the next group that may be enumerated, or OK.
EnumerateCallback(asked, index, end, messages) ==
  LET next == {i \in (index + 1)..end : elements[i].enumerate}
      i == Min(next)
  IN IF next = {} THEN Finish(asked, messages, "OK")
     ELSE /\ told' = Append(messages, <<elements[i].name>> \o EmitValue(elements[i].type, 0)[1])
          /\ job' = [kind |-> "enumerate", asked |-> asked, index |-> i, end |-> end,
                     field |-> 0]

\* All groups (0), or the one that is named.
Enumerate(name) ==
  LET asked == [op |-> "enumerate", name |-> name] IN
    /\ Idle
    /\ \/ name = 0 /\ EnumerateCallback(asked, 0, Len(elements), <<>>)
       \/ /\ name # 0 /\ Group(name) # {}
          /\ EnumerateCallback(asked, IndexOf(name) - 1, IndexOf(name), <<>>)
       \/ name # 0 /\ Group(name) = {} /\ Answer(asked, "ERR unknown group")
    /\ UNCHANGED <<elements, value, flash, position, writing, sets, saved, fresh>>

EnumerateField ==
  LET emit == EmitValue(elements[job.index].type, job.field + 1) IN
    IF emit = <<>> THEN EnumerateCallback(job.asked, job.index, job.end, told)
    ELSE /\ told' = Append(told, <<elements[job.index].name>> \o emit[1])
         /\ job' = [job EXCEPT !.field = @ + 1]

\* The write that is outstanding ends, or fails and ends the command.
WriteDone ==
  /\ job # NoJob
  /\ \/ job.kind = "list" /\ ListCallback(job.index, told)
     \/ job.kind = "enumerate" /\ EnumerateField
     \/ job.kind = "get" /\ Finish(job.asked, told, "")
     \/ job' = NoJob /\ told' = <<>>
  /\ UNCHANGED <<elements, value, flash, position, writing, sets, saved, fresh>>

Keys(t) == {Visit(t)[i] : i \in DOMAIN Visit(t)}

Next ==
  \/ \E i \in DOMAIN elements : \E key \in Keys(elements[i].type) \cup {<<"none">>} :
       \/ \E byte \in Bytes : Set(elements[i].name, key, byte)
       \/ Get(elements[i].name, key)
  \/ \E i \in DOMAIN elements : Enumerate(elements[i].name)
  \/ Enumerate(0) \/ Enumerate(1) \/ Get(1, <<>>) \/ \E byte \in Bytes : Set(1, <<>>, byte)
  \/ Default \/ Load \/ Write \/ ProgramByte \/ Restart \/ Emit \/ List \/ WriteDone

Spec == Init /\ [][Next]_vars

-----------------------------------------------------------------------------
\* What a group may hold after a restart in the middle of the group's data:
\* what was written of it, and erased bytes.
Torn(v) == {[i \in DOMAIN v |-> IF i <= n THEN v[i] ELSE 255] : n \in 0..Len(v)}

\* After a restart with any firmware every group that was written completely
\* and has the same schema is restored, whatever groups came, went or changed
\* in between; a group that is not there has its default; only the one group
\* being written when the power failed may be damaged.
Restored ==
  fresh =>
    \A j \in DOMAIN elements :
      LET default == SetDefault(elements[j].type)
          same == {i \in DOMAIN saved : /\ saved[i].e.name = elements[j].name
                                       /\ saved[i].e.type = elements[j].type}
      IN IF same = {} \/ position <= EndOf(Min(same) - 1) THEN value[j] = default
         ELSE IF position >= EndOf(Min(same)) THEN value[j] = saved[Min(same)].v
         ELSE value[j] \in {default} \cup Torn(saved[Min(same)].v)

\* The answer to a question, from the groups and values there are: which
\* leaf a key names is the place of the key in the order of the archives.
Leaves(name, key) ==
  {l \in DOMAIN Visit(elements[IndexOf(name)].type) :
     Visit(elements[IndexOf(name)].type)[l] = key}
Fields(e) ==
  LET keys == Visit(e.type) IN [j \in DOMAIN keys |-> <<e.name>> \o keys[j]]
Enumerated(name) ==
  SelectSeq(elements, LAMBDA e : e.enumerate /\ name \in {0, e.name})

ListAnswer == Append([i \in DOMAIN elements |-> elements[i].name], "OK")

EnumerateAnswer(name) ==
  IF name # 0 /\ Group(name) = {} THEN <<"ERR unknown group">>
  ELSE Append(FlattenSeq([i \in DOMAIN Enumerated(name) |-> Fields(Enumerated(name)[i])]), "OK")

GetAnswer(name, key) ==
  CASE Group(name) = {} -> <<"ERR unknown group">>
    [] Group(name) # {} /\ Leaves(name, key) = {} -> <<"ERR error reading">>
    [] OTHER -> <<value[IndexOf(name)][CHOOSE l \in Leaves(name, key) : TRUE], "">>

\* ...and of a set, what became of the value of each group as well.
SetAnswer(name, key) ==
  CASE Group(name) = {} -> <<"ERR unknown group">>
    [] Group(name) # {} /\ Leaves(name, key) = {} -> <<"ERR error setting">>
    [] OTHER -> <<"OK">>
SetEffect(a) ==
  \A i \in DOMAIN value : \A l \in DOMAIN value[i] :
    value[i][l] = IF i \in Group(a.name) /\ l \in Leaves(a.name, a.key) THEN a.byte
                  ELSE a.before[i][l]

\* The answers, over as many writes as they take and whatever the groups of
\* the firmware: "list" names every group once; "enumerate" every field of
\* what was asked for, in order, and nothing of a group that is not to be
\* enumerated; "get" the value that the key names, and "set" changes that
\* and no other; "size" says what Write would program.  Nothing compares that
\* with the size of the flash (persistent_config.cc:396-423).
AnswersRight ==
  job.kind = "last" =>
    /\ job.asked.op = "list" => told = ListAnswer
    /\ job.asked.op = "enumerate" => told = EnumerateAnswer(job.asked.name)
    /\ job.asked.op = "get" => told = GetAnswer(job.asked.name, job.asked.key)
    /\ job.asked.op = "set" =>
         told = SetAnswer(job.asked.name, job.asked.key) /\ SetEffect(job.asked)
    /\ job.asked.op = "size" => told = <<Len(Image(elements, value))>>

\* Every field that can be enumerated can be read and set by its key, and
\* is no other field.
KeysFind ==
  \A t \in Types : \A i \in DOMAIN Visit(t) : Find(t, Visit(t)[i]) = i
=============================================================================
