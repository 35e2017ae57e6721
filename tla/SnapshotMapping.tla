--------------------------- MODULE SnapshotMapping ---------------------------
(***************************************************************************)
(* ANNSnapshotMapping (snapshot_mapping.cc): the constructor loads a       *)
(* snapshot's id -> string table from its "mapping" file; GetStr and       *)
(* GetCapacity answer lookups on it.                                       *)
(*                                                                         *)
(* The file is a sequence of cells read through a std::ifstream.  A cell   *)
(* is the unit a read consumes: a uint32 field is one cell holding its     *)
(* value, and a record's bytes are one cell each.  A read of n cells past  *)
(* the end consumes what is left and sets failbit and eofbit, as           *)
(* istream::read does; a read on a failed stream does nothing.  What a     *)
(* short read leaves in an integer (the code reads strLen before checking  *)
(* the stream, and strLen is uninitialised on the first turn) is any       *)
(* value.                                                                  *)
(***************************************************************************)
EXTENDS Integers, Sequences, SequencesExt

CONSTANTS
    MaxTotalCount,  \* 2000000000: the most records a mapping file may hold
    MaxStrLen,      \* 2000000000: the longest record
    Chars,          \* byte values a record holds
    Files,          \* contents of the mapping files the loader may be given
    Missing         \* a path that cannot be opened

VARIABLES
    file,        \* the file's cells, or Missing
    pos,         \* cells consumed by the stream
    good,        \* file.good()
    eof,         \* file.eof()
    pc,          \* position in the constructor
    i,           \* the loop counter
    totalCount,  \* the record count read from the file
    storage,     \* storage_
    status       \* the SNAPSHOT_STATUS the constructor leaves

vars == <<file, pos, good, eof, pc, i, totalCount, storage, status>>

\* what an integer that a short or failed read leaves may hold
Garbage == 0..(MaxStrLen + 1)

\* istream::read of n cells succeeds
ReadOk(n) == good /\ pos + n <= Len(file)

\* the stream after a read of n cells: a short read consumes the rest and
\* sets eofbit and failbit; a read on a failed stream only sets failbit
AfterRead(n) ==
    IF ReadOk(n) THEN /\ pos' = pos + n /\ UNCHANGED <<good, eof>>
    ELSE /\ pos' = IF good THEN Len(file) ELSE pos
         /\ good' = FALSE
         /\ eof' = (eof \/ good)

Fail ==
    /\ status' = "InvalidMappingFile"
    /\ pc' = "Done"

\* ANNSnapshotMapping::ANNSnapshotMapping: the file is opened
Init ==
    /\ file \in Files \cup {Missing}
    /\ pos = 0 /\ good = (file # Missing) /\ eof = FALSE
    /\ pc = "Open"
    /\ i = 0 /\ totalCount = 0 /\ storage = <<>>
    /\ status = "InProgress"

\* The file cannot be opened.
OpenFailed ==
    /\ pc = "Open" /\ file = Missing
    /\ Fail
    /\ UNCHANGED <<file, pos, good, eof, i, totalCount, storage>>

\* Mutant: storage_ is not resized to totalCount.
ReadTotalCountNoResize ==
    /\ pc = "Open" /\ file # Missing
    /\ AfterRead(1)
    /\ IF ~ReadOk(1) \/ file[1] = 0 \/ file[1] > MaxTotalCount
       THEN Fail /\ UNCHANGED <<totalCount, storage>>
       ELSE /\ totalCount' = file[1]
            /\ UNCHANGED storage
            /\ pc' = "Loop" /\ UNCHANGED status
    /\ UNCHANGED <<file, i>>

\* totalCount is read, the stream checked, the count checked; storage_
\* gets totalCount empty records.
ReadTotalCount ==
    /\ pc = "Open" /\ file # Missing
    /\ AfterRead(1)
    /\ IF ~ReadOk(1) \/ file[1] = 0 \/ file[1] > MaxTotalCount
       THEN Fail /\ UNCHANGED <<totalCount, storage>>
       ELSE /\ totalCount' = file[1]
            /\ storage' = [k \in 1..file[1] |-> <<>>]
            /\ pc' = "Loop" /\ UNCHANGED status
    /\ UNCHANGED <<file, i>>

\* One turn of the loop: the stream is checked; strLen is read and its
\* value checked before the stream is (a short read leaves it undefined);
\* the stream is checked; strLen cells are read into storage_[i], unchecked.
ReadRecord ==
    /\ pc = "Loop" /\ i < totalCount
    /\ IF ~good THEN Fail /\ UNCHANGED <<pos, good, eof, i, storage>>
       ELSE
       \E len \in IF ReadOk(1) THEN {file[pos + 1]} ELSE Garbage :
         IF len = 0 \/ len > MaxStrLen \/ ~ReadOk(1) THEN
            /\ Fail /\ AfterRead(1) /\ UNCHANGED <<i, storage>>
         ELSE
            /\ pos' = IF pos + 1 + len <= Len(file) THEN pos + 1 + len
                      ELSE Len(file)
            /\ good' = (pos + 1 + len <= Len(file))
            /\ eof' = ~good'
            /\ storage' = [storage EXCEPT ![i + 1] =
                             [k \in 1..len |-> IF pos + 1 + k <= Len(file)
                                               THEN file[pos + 1 + k] ELSE 0]]
            /\ i' = i + 1 /\ UNCHANGED <<pc, status>>
    /\ UNCHANGED <<file, totalCount>>

\* Mutant: the stream check before the end-of-file probe is dropped.
FinishLoadNoGoodCheck ==
    /\ pc = "Loop" /\ i = totalCount
    /\ AfterRead(1)
    /\ IF eof' THEN pc' = "Done" /\ UNCHANGED status ELSE Fail
    /\ UNCHANGED <<file, i, totalCount, storage>>

\* After the loop: the stream is checked, then one more cell is read and
\* must hit the end of the file.
FinishLoad ==
    /\ pc = "Loop" /\ i = totalCount
    /\ IF ~good THEN Fail /\ UNCHANGED <<pos, good, eof>>
       ELSE /\ AfterRead(1)
            /\ IF eof' THEN pc' = "Done" /\ UNCHANGED status ELSE Fail
    /\ UNCHANGED <<file, i, totalCount, storage>>

Next == OpenFailed \/ ReadTotalCount \/ ReadRecord \/ FinishLoad

Spec == Init /\ [][Next]_vars /\ WF_vars(Next)

\* ANNSnapshotMapping::GetCapacity
GetCapacity == Len(storage)

\* ANNSnapshotMapping::GetStr: an id past the end gives the empty string
GetStr(id) == IF id < Len(storage) THEN storage[id + 1] ELSE <<>>

-----------------------------------------------------------------------------
(* The mapping file format of spec section 4.1, as a reference: a count in *)
(* 1..MaxTotalCount, then that many records, each a length in              *)
(* 1..MaxStrLen and that many bytes, and nothing after.                    *)
Records == UNION {[1..n -> Chars] : n \in 1..MaxStrLen}

EncodeTable(t) ==
    <<Len(t)>> \o FlattenSeq([k \in DOMAIN t |-> <<Len(t[k])>> \o t[k]])

ValidTables == UNION {[1..n -> Records] : n \in 1..MaxTotalCount}

IsMappingFile(f) == \E t \in ValidTables : EncodeTable(t) = f

\* the SNAPSHOT_STATUS values (snapshot_config.h) the snapshot's loaders write
LoadStatus == {"InProgress", "OK", "InvalidMappingFile", "InvalidIndex"}

TypeOK ==
    /\ file = Missing \/ pos \in 0..Len(file)
    /\ good \in BOOLEAN /\ eof \in BOOLEAN
    /\ pc \in {"Open", "Loop", "Done"}
    /\ status \in LoadStatus
    /\ i \in 0..totalCount
    /\ storage \in Seq(Seq(Nat)) /\ Len(storage) = totalCount
=============================================================================
