---------------------------- MODULE TelemetryFile ----------------------------
(***************************************************************************)
(* mjlib/telemetry/file_writer.cc: the blocks a log file consists of and   *)
(* the state the writer keeps to link them: positions of schemas and of    *)
(* the last data of each identifier, kept across Close and Open.           *)
(*                                                                         *)
(* A position is the number of a block, counted from 1.  The bytes get to  *)
(* the file through ThreadWriter; a crash leaves any prefix of them.       *)
(***************************************************************************)
EXTENDS Integers, Sequences, FiniteSets, SequencesExt, FiniteSetsExt

CONSTANTS
  Names,            \* record names
  ReservedIds,      \* identifiers given to ReserveIdentifier
  Times,            \* timestamps; 0 is not_a_date_time
  SeekPeriod,       \* options.seek_block_period_s; 0 disables seek blocks
  Budgets           \* what is tried of the other options, with the bounds
                    \* for each: how many files, schemas, data and other
                    \* blocks are written, and how much is odd about the data

VARIABLES
  options,          \* options_: prev, index, checksum, compress, system
  open,             \* writer_ exists
  blocks,           \* what was written to the file
  ids,              \* identifier_map_
  nextId,           \* next_id_
  schema,           \* schema_: identifier -> [name, position, last]
  lastSeek,         \* last_seek_block_; 0 is not_a_date_time
  now,              \* the latest timestamp
  budget            \* what may still be written

writerVars == <<options, open, blocks, ids, nextId, schema, lastSeek, now, budget>>

\* A record of schema_, as the constructor makes it.
SchemaRecord(name, position) == [name |-> name, position |-> position, last |-> -1]

WriterInit ==
  /\ options \in DOMAIN Budgets
  /\ budget \in Budgets[options]
  /\ open = FALSE /\ blocks = <<>>
  /\ ids = <<>> /\ nextId = 1
  /\ schema = <<>>
  /\ lastSeek = 0 /\ now = 1

position == IF open THEN Len(blocks) + 1 ELSE 0

Spend(kind) ==
  budget[kind] > 0 /\ budget' = [budget EXCEPT ![kind] = @ - 1]

Bind(f, x, y) == [z \in DOMAIN f \cup {x} |-> IF z = x THEN y ELSE f[z]]

-----------------------------------------------------------------------------
(* Identifiers *)

UsedIds == {ids[n] : n \in DOMAIN ids}

AllocateIdentifier(name) ==
  /\ name \notin DOMAIN ids
  /\ LET id == Min({i \in nextId..(nextId + Cardinality(UsedIds)) : i \notin UsedIds})
     IN ids' = Bind(ids, name, id) /\ nextId' = id + 1
  /\ UNCHANGED <<options, open, blocks, schema, lastSeek, now, budget>>

\* Fault: an identifier in use is reserved again.
ReserveIdentifierAnyway(name, id) ==
  /\ Spend("reserved")
  /\ name \notin DOMAIN ids
  /\ ids' = Bind(ids, name, id)
  /\ UNCHANGED <<options, open, blocks, nextId, schema, lastSeek, now>>

\* A name that has an identifier keeps it, or the program fails; an
\* identifier in use is refused.
ReserveIdentifier(name, id) ==
  /\ Spend("reserved")
  /\ name \notin DOMAIN ids /\ id \notin UsedIds
  /\ ids' = Bind(ids, name, id)
  /\ UNCHANGED <<options, open, blocks, nextId, schema, lastSeek, now>>

-----------------------------------------------------------------------------
(* Blocks *)

SchemaBlock(id, name) == [kind |-> "kSchema", id |-> id, name |-> name]

\* Fault: the new file inherits the last data of the old one.
PostOpenKeeps ==
  LET order == SetToSortSeq(DOMAIN schema, <) IN
    /\ blocks' = [i \in DOMAIN order |-> SchemaBlock(order[i], schema[order[i]].name)]
    /\ schema' = [id \in DOMAIN schema |->
                    [schema[id] EXCEPT !.position = CHOOSE i \in DOMAIN order : order[i] = id]]

\* WriteSchema for each record of schema_, in the order of identifiers.
PostOpen ==
  LET order == SetToSortSeq(DOMAIN schema, <) IN
    /\ blocks' = [i \in DOMAIN order |-> SchemaBlock(order[i], schema[order[i]].name)]
    /\ schema' = [id \in DOMAIN schema |->
                    SchemaRecord(schema[id].name,
                                 CHOOSE i \in DOMAIN order : order[i] = id)]

Open ==
  /\ ~open /\ Spend("files")
  /\ open' = TRUE
  /\ PostOpen
  /\ UNCHANGED <<options, ids, nextId, lastSeek, now>>

\* Without a file only the record is kept, for Open.
WriteSchema(name) ==
  /\ name \in DOMAIN ids
  /\ Spend("schemas")
  /\ schema' = Bind(schema, ids[name], SchemaRecord(name, position))
  /\ blocks' = IF open THEN Append(blocks, SchemaBlock(ids[name], name)) ELSE blocks
  /\ UNCHANGED <<options, open, ids, nextId, lastSeek, now>>

GetPreviousOffset(id) ==
  IF id \notin DOMAIN schema \/ schema[id].last < 0 THEN 0
  ELSE position - schema[id].last

Flags(time, compressed) ==
  {f \in {"kPreviousOffset", "kTimestamp", "kChecksum", "kSnappy"} :
     \/ f = "kPreviousOffset" /\ options.prev
     \/ f = "kTimestamp" /\ (time # 0 \/ options.system)
     \/ f = "kChecksum" /\ options.checksum
     \/ f = "kSnappy" /\ compressed}

\* Whatever is read as a seek marker within the data is a "decoy".
DataBlock(id, time, compressed, decoy) ==
  [kind |-> "kData", id |-> id,
   prev |-> IF options.prev THEN GetPreviousOffset(id) ELSE 0,
   time |-> IF time = 0 /\ options.system THEN now ELSE time,
   flags |-> Flags(time, compressed), decoy |-> decoy]

\* The identifiers that have data, each with the offset back to the last;
\* "shadowed" when the last byte of the block's size is the first of the
\* signature, which the search for it does not recover from.
SeekBlock(time, records, pos, shadowed) ==
  [kind |-> "kSeekMarker", time |-> time, shadowed |-> shadowed,
   offsets |-> [id \in {i \in DOMAIN records : records[i].last >= 0} |->
                  pos - records[id].last]]

\* When a seek block follows the data of this time.
SeekDue(time) == SeekPeriod # 0 /\ lastSeek # 0 /\ time # 0 /\ time - lastSeek >= SeekPeriod

\* The data of an identifier that has a schema.  The data is compressed if
\* that is asked for and makes it smaller.
WriteData(id, time, smaller, decoy, shadowed) ==
  LET updated == [schema EXCEPT ![id].last = position]
      data == DataBlock(id, time, options.compress /\ smaller, decoy)
      odd == Cardinality({k \in 1..4 : <<smaller, decoy, shadowed, time = 0>>[k]})
  IN /\ open /\ id \in DOMAIN schema
     /\ budget.data > 0 /\ odd <= budget.odd
     /\ budget' = [budget EXCEPT !.data = @ - 1, !.odd = @ - odd]
     /\ time \in {0, now, now + 1}
     /\ now' = IF time # 0 THEN time ELSE now
     /\ schema' = updated
     /\ blocks' = Append(blocks, data)
                    \o IF SeekDue(time)
                       THEN <<SeekBlock(time, updated, position + 1, shadowed)>> ELSE <<>>
     /\ lastSeek' = IF SeekPeriod # 0 /\ (lastSeek = 0 \/ SeekDue(time))
                    THEN time ELSE lastSeek
     /\ UNCHANGED <<options, open, ids, nextId>>

\* A block of the caller's making.
WriteBlock ==
  /\ open /\ Spend("other")
  /\ blocks' = Append(blocks, [kind |-> "kCompressionDictionary"])
  /\ UNCHANGED <<options, open, ids, nextId, schema, lastSeek, now>>

\* For each identifier where its schema and its last data are.
IndexBlock ==
  [kind |-> "kIndex",
   records |-> [id \in DOMAIN schema |->
                  [schema |-> schema[id].position, last |-> schema[id].last]]]

Close ==
  /\ open
  /\ blocks' = IF options.index THEN Append(blocks, IndexBlock) ELSE blocks
  /\ open' = FALSE /\ lastSeek' = 0
  /\ UNCHANGED <<options, ids, nextId, schema, now, budget>>

\* Time passes for the clock of the system.
Tick ==
  /\ options.system /\ now + 1 \in Times
  /\ now' = now + 1
  /\ UNCHANGED <<options, open, blocks, ids, nextId, schema, lastSeek, budget>>

Writer ==
  \/ \E name \in Names : AllocateIdentifier(name)
  \/ \E name \in Names, id \in ReservedIds : ReserveIdentifier(name, id)
  \/ Open
  \/ \E name \in Names : WriteSchema(name)
  \/ \E id \in DOMAIN schema, time \in Times, smaller, decoy, shadowed \in BOOLEAN :
       /\ ~smaller \/ options.compress
       /\ ~shadowed \/ SeekDue(time)
       /\ WriteData(id, time, smaller, decoy, shadowed)
  \/ WriteBlock
  \/ Close
  \/ Tick

-----------------------------------------------------------------------------
IdsDistinct == \A m, n \in DOMAIN ids : ids[m] = ids[n] => m = n

DataOf(id) == {i \in DOMAIN blocks : blocks[i].kind = "kData" /\ blocks[i].id = id}
SchemaOf(id) == {i \in DOMAIN blocks : blocks[i].kind = "kSchema" /\ blocks[i].id = id}

\* The data of an identifier before block i, and that of it which came after
\* its schema was last written: what the writer remembers (schema_).
DataBefore(id, i) == {j \in DataOf(id) : j < i}
Remembered(id, i) ==
  LET since == Max({0} \cup {j \in SchemaOf(id) : j < i}) IN
    {j \in DataBefore(id, i) : since < j}

\* What links the blocks of a file points at the data it is meant to, in
\* this file, whatever was written to an earlier one: a data block at the
\* previous data of the identifier (GetPreviousOffset), and a seek block at
\* the last data of each identifier that has any, and of no other
\* (WriteSeekBlock).  Both forget the data before a schema that is written
\* again (WriteSchema replaces the record): then the chain of offsets ends
\* there, although telemetry/format.h:90-92 has it "0 if no such block
\* exists", and a seek block leaves the identifier out.
LinksRight ==
  /\ IdsDistinct
  /\ \A i \in DOMAIN blocks : options.prev /\ blocks[i].kind = "kData" =>
       LET earlier == Remembered(blocks[i].id, i)
       IN blocks[i].prev = IF earlier = {} THEN 0 ELSE i - Max(earlier)
  /\ \A i \in DOMAIN blocks : blocks[i].kind = "kSeekMarker" =>
       /\ DOMAIN blocks[i].offsets = {id \in UsedIds : Remembered(id, i) # {}}
       /\ \A id \in DOMAIN blocks[i].offsets :
            i - blocks[i].offsets[id] = Max(DataBefore(id, i))
=============================================================================
