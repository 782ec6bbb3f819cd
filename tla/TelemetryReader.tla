--------------------------- MODULE TelemetryReader ---------------------------
(***************************************************************************)
(* mjlib/telemetry/file_reader.cc (and file_reader.py): a log file, closed *)
(* or left behind by a crash, is read: the index if there is one, ranges   *)
(* of items with a filter, Seek.  The filter of a range is told of a       *)
(* schema when the reader first meets it, whoever made it do so.           *)
(***************************************************************************)
EXTENDS TelemetryFile

CONSTANTS
  Filters,          \* values of ItemsOptions::records
  kMinSpacing       \* the constant of Seek, in blocks

VARIABLES
  phase,            \* "write", then "read"
  cut,              \* how much there is of the last block: "whole", not even
                    \* its "header" with the identifier, or not all of its "body"
  known,            \* id_to_record_, name_to_record_
  finalItem,        \* final_item_
  allFound,         \* all_records_found_
  hasIndex,         \* has_index_
  range,            \* the ItemRangeContext, and the iterator's index_
  got,              \* history: items the range has yielded
  sought,           \* history: result of this step's Seek
  failed            \* an exception was thrown

readerVars == <<phase, cut, known, finalItem, allFound, hasIndex, range, got,
                sought, failed>>
vars == <<writerVars, readerVars>>

\* "blind": names it does not know that were since learned for someone else.
NoRange == [names |-> {}, unknown |-> {}, ids |-> {}, blind |-> {}, index |-> -2]
NoSeek == [time |-> 0, result |-> <<>>]

Init ==
  /\ WriterInit
  /\ phase = "write" /\ cut = "whole"
  /\ known = {} /\ finalItem = -1 /\ allFound = FALSE /\ hasIndex = FALSE
  /\ range = NoRange /\ got = <<>> /\ sought = NoSeek /\ failed = FALSE

-----------------------------------------------------------------------------
Cut(i, how) == i = Len(blocks) /\ cut = how

NameOf(id) == CHOOSE name \in DOMAIN ids : ids[name] = id

\* Fault: the filter is not told.
IdsAtUntold(filter, from, i) == filter.ids

\* The ids a filter passes when the reader is at block i, having come from
\* "from": those it had, and those of the schemas the reader met for the
\* first time on the way.
IdsAt(filter, from, i) ==
  filter.ids \cup
    {id \in {blocks[j].id : j \in {j \in from..(i - 1) : blocks[j].kind = "kSchema"}} :
       id \notin known /\ NameOf(id) \in filter.unknown}

\* What ReadHeader, and ProcessSchema for a new identifier, throw at.
HeaderThrows(i) == Cut(i, "header")

SchemaThrows(i) ==
  Cut(i, "body") /\ blocks[i].kind = "kSchema" /\ blocks[i].id \notin known

ProcessSchema(i) ==
  IF blocks[i].kind # "kSchema" \/ HeaderThrows(i) \/ SchemaThrows(i) THEN {}
  ELSE {blocks[i].id}

\* ItemRangeContext::check; no names: everything passes.
Check(filter, from, i) == filter.names = {} \/ blocks[i].id \in IdsAt(filter, from, i)

\* The block it stops at (-1: the end), what it has learned on the way, and
\* whether something on the way makes it throw.
ReadUntil(from, filter) ==
  LET data == {i \in from..Len(blocks) : blocks[i].kind = "kData" /\ ~HeaderThrows(i)}
      passed == {i \in data : Check(filter, from, i)}
      stop == IF passed = {} THEN Len(blocks) ELSE Min(passed)
  IN [index |-> IF passed = {} THEN -1 ELSE stop,
      ids |-> IdsAt(filter, from, stop + 1),
      known |-> known \cup UNION {ProcessSchema(i) : i \in from..stop},
      final |-> Max({finalItem} \cup {i \in data : i <= stop}),
      throws |-> \E i \in from..stop : HeaderThrows(i) \/ SchemaThrows(i)]

NoFilter == [names |-> {"none"}, unknown |-> {}, ids |-> {}]

\* Read of an item: whether it throws.  An incomplete block without a
\* checksum may come back with whatever was there.
ReadThrows(i) ==
  IF Cut(i, "body") THEN IF "kChecksum" \in blocks[i].flags THEN {TRUE} ELSE BOOLEAN
  ELSE {blocks[i].id \notin known}

\* What the reader knows after r.
Learn(r) == known' = r.known /\ finalItem' = r.final

\* The same, without the filter of the range being told.
LearnBlindly(r) ==
  /\ Learn(r)
  /\ range' = [range EXCEPT !.blind = {name \in range.unknown :
                                         name \in DOMAIN ids /\ ids[name] \in r.known}]

FullScan == ReadUntil(1, NoFilter)

-----------------------------------------------------------------------------
(* Operations *)

\* Fault: the last record of the index is taken for the one with the last data.
LastOf(records) ==
  IF DOMAIN records = {} THEN 0 ELSE records[Max(DOMAIN records)].last

FinalOf(records) == Max({0} \cup {records[id].last : id \in DOMAIN records})

\* The trailing index, when it is whole: its schemas are looked up.
MaybeProcessIndex(file, how) ==
  LET last == file[Len(file)]
      there == file # <<>> /\ how = "whole" /\ last.kind = "kIndex"
      records == last.records
  IN /\ known' = IF there THEN {file[records[id].schema].id : id \in DOMAIN records} ELSE {}
     /\ finalItem' = IF there THEN FinalOf(records) ELSE -1
     /\ hasIndex' = there /\ allFound' = there

\* The file is closed, or the program that wrote it died; of the writer
\* only the file remains.
OpenReader(n, how) ==
  /\ phase = "write" /\ (open \/ blocks # <<>>)
  /\ ~open => n = Len(blocks) /\ how = "whole"
  /\ n = 0 => how = "whole"
  /\ phase' = "read"
  /\ blocks' = SubSeq(blocks, 1, n) /\ cut' = how
  /\ MaybeProcessIndex(blocks', how)
  /\ open' = FALSE /\ schema' = <<>> /\ nextId' = 1 /\ lastSeek' = 0 /\ now' = 1
  /\ budget' = [kind \in DOMAIN budget |-> 0]
  /\ UNCHANGED <<options, ids, range, got, sought, failed>>

Reading == phase = "read" /\ ~failed /\ UNCHANGED <<writerVars, phase, cut, hasIndex>>

\* items(): names that are not known yet are remembered.
Items(names) ==
  /\ Reading
  /\ range = NoRange
  /\ LET there == {name \in names : name \in DOMAIN ids /\ ids[name] \in known}
     IN range' = [names |-> names, unknown |-> names \ there,
                  ids |-> {ids[name] : name \in there}, blind |-> {}, index |-> 0]
  /\ sought' = NoSeek
  /\ UNCHANGED <<known, finalItem, allFound, got, failed>>

\* begin(), or operator++, and operator* of what it arrives at.
Advance ==
  /\ Reading
  /\ range.index >= 0
  /\ LET r == ReadUntil(range.index + 1, range)
         names == {NameOf(id) : id \in r.ids}
     IN /\ Learn(r)
        /\ range' = [range EXCEPT !.index = r.index, !.ids = r.ids, !.unknown = @ \ names]
        /\ IF r.throws THEN failed' = TRUE /\ UNCHANGED got
           ELSE IF r.index = -1 THEN UNCHANGED <<failed, got>>
           ELSE \E throws \in ReadThrows(r.index) :
                  /\ failed' = throws
                  /\ got' = IF throws THEN got ELSE Append(got, r.index)
  /\ sought' = NoSeek
  /\ UNCHANGED allFound

\* records(), final_item(), and record(name) of a name that is not known.
FindAll ==
  /\ Reading
  /\ ~allFound
  /\ LearnBlindly(FullScan)
  /\ failed' = FullScan.throws /\ allFound' = ~FullScan.throws
  /\ sought' = NoSeek
  /\ UNCHANGED got

\* A signature in the data is looked at and refused, but leaves the search
\* one byte off; so does the byte before a "shadowed" marker.
EvaluateSeekMarker(i, from) ==
  /\ blocks[i].kind = "kSeekMarker" /\ ~blocks[i].shadowed
  /\ \A j \in from..i : ~(blocks[j].kind = "kData" /\ blocks[j].decoy)

\* The next marker that is recognized; 0: none.
FindSeekMarker(from, end) ==
  LET markers == {i \in from..(end - 1) : EvaluateSeekMarker(i, from)}
  IN IF markers = {} THEN 0 ELSE Min(markers)

\* Fault: the first marker after the time is taken for the last before it.
NarrowEarly(low, high, marker, time) ==
  IF blocks[marker].time <= time + 1 THEN <<marker, high>> ELSE <<low, marker>>

Narrow(low, high, marker, time) ==
  IF blocks[marker].time <= time THEN <<marker, high>> ELSE <<low, marker>>

\* The markers that bound the time.
RECURSIVE Bounds(_, _, _)
Bounds(low, high, time) ==
  LET marker == FindSeekMarker(low + (high - low) \div 2, high)
      next == Narrow(low, high, marker, time)
  IN IF high - low <= kMinSpacing \/ marker = 0 \/ next = <<low, high>> THEN <<low, high>>
     ELSE Bounds(next[1], next[2], time)

\* What the marker says, brought up to date by the items after it: they end
\* with the first that is later, or has no time.
SeekFrom(low, time) ==
  LET marker == blocks[low]
      items == {i \in low..Len(blocks) : blocks[i].kind = "kData"}
      late == {i \in items : blocks[i].time = 0 \/ blocks[i].time > time}
      end == IF late = {} THEN Len(blocks) + 1 ELSE Min(late)
      read == {i \in items : i < end}
      start == IF marker.kind # "kSeekMarker" THEN <<>>
               ELSE [id \in DOMAIN marker.offsets |-> low - marker.offsets[id]]
      at(id) == {i \in read : blocks[i].id = id}
  IN [id \in DOMAIN start \cup {blocks[i].id : i \in read} |->
        IF at(id) # {} THEN Max(at(id)) ELSE start[id]]

\* What it reads on the way is complete (otherwise it may throw).
Seek(time) ==
  /\ Reading
  /\ cut = "whole" /\ blocks # <<>>
  /\ LET scan == IF allFound THEN [known |-> known, final |-> finalItem] ELSE FullScan
         bounds == Bounds(1, scan.final, time)
     IN /\ LearnBlindly(scan)
        /\ sought' = [time |-> time, result |-> SeekFrom(bounds[1], time)]
  /\ allFound' = TRUE
  /\ UNCHANGED <<got, failed>>

Next ==
  \/ phase = "write" /\ Writer /\ UNCHANGED readerVars
  \/ \E n \in 0..Len(blocks), how \in {"whole", "header", "body"} : OpenReader(n, how)
  \/ \E names \in Filters : Items(names)
  \/ Advance
  \/ FindAll
  \/ \E time \in Times \ {0} : Seek(time)

Spec == Init /\ [][Next]_vars

-----------------------------------------------------------------------------
(* file_reader.py: items() stops at a block that is not all there, and     *)
(* passes over data whose schema it has not met.                           *)
PyBlocks == {i \in DOMAIN blocks : ~Cut(i, "header") /\ ~Cut(i, "body")}

PyRecords(i) ==
  {blocks[j].id : j \in {j \in PyBlocks : j < i /\ blocks[j].kind = "kSchema"}}

PyParses(i, names) ==
  /\ blocks[i].kind = "kData" /\ blocks[i].id \in PyRecords(i)
  /\ names = {} \/ NameOf(blocks[i].id) \in names

PyItems(names) == SetToSortSeq({i \in PyBlocks : PyParses(i, names)}, <)

AllData == {i \in DOMAIN blocks : blocks[i].kind = "kData"}
Rewritten == \E id \in UsedIds : Cardinality(SchemaOf(id)) > 1

TypeOK ==
  /\ phase \in {"write", "read"} /\ cut \in {"whole", "header", "body"}
  /\ known \subseteq UsedIds /\ finalItem \in -1..Len(blocks)
  /\ range.index \in -2..Len(blocks)
  /\ allFound /\ ~hasIndex => known = {id \in UsedIds : SchemaOf(id) # {}}

\* The index is right: it finds the schema of each identifier and the last
\* data of the file, as a scan of all blocks does (MaybeProcessIndex
\* against FullScan), unless a schema was written twice in the file.
IndexRight ==
  hasIndex =>
    /\ known = {id \in UsedIds : SchemaOf(id) # {}}
    /\ ~Rewritten => finalItem = Max({0} \cup AllData)

\* What may come back besides: data that a crash left incomplete, as the last
\* block of the file, when it has no checksum that would tell.
TornItem(names) ==
  LET i == Len(blocks) IN
    IF /\ blocks # <<>> /\ Cut(i, "body") /\ blocks[i].kind = "kData"
       /\ "kChecksum" \notin blocks[i].flags
       /\ names = {} \/ NameOf(blocks[i].id) \in names
    THEN <<i>> ELSE <<>>

\* A range yields the items of its filter, each once, in the order they
\* were written; when it ends it has yielded all of them, although the file
\* may be what a crash left.  The Python reader yields the same; this one may
\* add a last block that is not all there and has no checksum, with whatever
\* its data decodes to, or else throws at it.  (Not for a range made before
\* the reader knew a name that it learned for someone else since.)
ItemsRight ==
  LET items == PyItems(range.names) \o TornItem(range.names) IN
    range.blind = {} =>
      /\ IsPrefix(got, items)
      /\ range.index = -1 /\ ~failed => got = items

Before(id, time) == {i \in DataOf(id) : blocks[i].time <= time}

\* An identifier whose schema was written again after that data, and then a
\* seek marker from which a search for the time may start.
SchemaCameBetween(id, time) ==
  \E j \in SchemaOf(id), m \in DOMAIN blocks :
    /\ Max(Before(id, time)) < j /\ j < m
    /\ blocks[m].kind = "kSeekMarker" /\ blocks[m].time <= time

Timed == \A i \in AllData : blocks[i].time # 0
Found == DOMAIN sought.result
ToFind == {id \in UsedIds : Before(id, sought.time) # {}}

\* file_reader.h:68-74: "Find the most recent records that are equal to or
\* before given timestamp", however the search finds its way through the
\* seek markers, with those it cannot see: when every item has its time, and
\* with the exception that SeekFindsAll is about: an identifier whose schema
\* was written again may be left out.
SeekRight ==
  sought # NoSeek /\ Timed =>
    /\ Found \subseteq ToFind
    /\ \A id \in Found : sought.result[id] = Max(Before(id, sought.time))
    /\ \A id \in ToFind \ Found : SchemaCameBetween(id, sought.time)

\* file_reader.h:73 without the exception: every record with data before
\* the time is found.
SeekFindsAll == sought # NoSeek /\ Timed => Found = ToFind
=============================================================================
