--------------------------- MODULE SnapshotContainer ---------------------------
(***************************************************************************)
(* ANNSnapshotKeeper::HandleIncomingSnapshot and CheckSnapshotIsValid      *)
(* (snapshot_keeper.cc): one incoming container is unpacked into           *)
(* root/<name>, its config.json is parsed, and the result is validated.    *)
(*                                                                         *)
(* The container is a sequence of cells read through a std::ifstream, as   *)
(* in SnapshotMapping: an integer field is one cell, and a file name or a  *)
(* file's content is one cell per unit.  A file name is a sequence of     *)
(* tokens, of which Sep stands for '/' and Dots for "..".  The disk is a  *)
(* set of directories and a map from file paths to contents; a path is a  *)
(* sequence of path elements, each a token sequence.  A JSON document is  *)
(* a config.json whose single cell the table Jsons interprets.            *)
(***************************************************************************)
EXTENDS Integers, Sequences, SequencesExt

CONSTANTS
    Magic,              \* kSnapshotMagicBytes
    MinFilesCount,      \* kMinFilesCount = 4
    MaxFilesCount,      \* kMaxFilesCount = 1e8
    MaxFilenameLength,  \* kMaxFilenameLength = 10000
    MinFileSize,        \* kMinFileSize = 10
    MaxFileSize,        \* kMaxFileSize = 1e12
    RWBufferSize,       \* kRWBufferSize = 10 MiB
    MaxDimension,       \* kMaxDimension = 100000
    MaxSearchDepth,     \* kMaxSearchDepth = 1e9
    U32,                \* 2^32: the range of uint32_t
    Sep, Dots,          \* the tokens '/' and ".."
    IndexName, IndexDataName, MappingName, ConfigJsonName, \* the four names
    Root,               \* the snapshots root, as a path
    SnapshotName,       \* the snapshot's name, one path element
    PeerName,           \* the name of an older snapshot still on disk
    Containers,         \* the containers the notifier may hand in
    Jsons,              \* cell value -> parsed config.json
    IoMayFail           \* a file-system call or a write may fail

ASSUME ContainerBoundsAssumption ==
    /\ {MinFilesCount, MinFileSize, RWBufferSize} \subseteq Nat \ {0}
    /\ MinFilesCount <= MaxFilesCount /\ MinFileSize <= MaxFileSize
    /\ {MaxFilesCount, MaxFilenameLength, MaxFileSize, MaxDimension,
        MaxSearchDepth, U32} \subseteq Nat
    /\ IoMayFail \in BOOLEAN
    /\ Containers \subseteq Seq(Nat)   \* cells hold uint32/uint64 fields and bytes

VARIABLES
    input,      \* the container's cells
    pos, good, eof,  \* the ifstream fpInput
    pc,         \* position in HandleIncomingSnapshot
    status,     \* the SNAPSHOT_STATUS returned, once pc = "Done"
    count,      \* filesCount
    k,          \* the loop counter i
    fname,      \* files[i]
    left,       \* fileSize, as the chunk loop decrements it
    out,        \* the path fpOutput writes
    dirs,       \* the directories on disk
    files,      \* the regular files on disk: path -> content
    paths,      \* the Config's IndexBase/IndexData/Mapping/ConfigJson filenames
    conf        \* the Config's Dimension, QueryNeighborsCount, TopCount, VectorTypeStr

vars == <<input, pos, good, eof, pc, status, count, k, fname, left, out,
          dirs, files, paths, conf>>

Folder == Append(Root, SnapshotName)   \* destinationFolderPath
NoPath == <<>>                          \* the empty std::string
Peer == Append(Root, PeerName)          \* an older snapshot's folder
PeerIndex == Append(Peer, IndexName)    \* and its index file
PeerContent == <<0, 0>>

\* the Config fields a well-known file name sets (snapshot_keeper.cc:269-283)
PathField == [i |-> IndexName, d |-> IndexDataName, m |-> MappingName,
              c |-> ConfigJsonName]

-----------------------------------------------------------------------------
(* The input stream, as in SnapshotMapping.                                *)
ReadOk(n) == good /\ pos + n <= Len(input)

AfterRead(n) ==
    IF ReadOk(n) THEN /\ pos' = pos + n /\ UNCHANGED <<good, eof>>
    ELSE /\ pos' = IF good THEN Len(input) ELSE pos
         /\ good' = FALSE
         /\ eof' = (eof \/ good)

\* the integer a successful one-cell read gives
Cell == input[pos + 1]

(* destinationFolderPath / files[i], as the file system resolves it: the   *)
(* name is split at Sep, a leading Sep makes it absolute (operator/ then   *)
(* replaces the folder), ".." goes up, an empty element is skipped.        *)
Flush(acc) ==
    CASE acc.elem = <<>> -> acc.path
      [] acc.elem = <<Dots>> -> IF acc.path = <<>> THEN <<>> ELSE Front(acc.path)
      [] OTHER -> Append(acc.path, acc.elem)

Step(acc, t) ==
    IF t = Sep THEN [path |-> Flush(acc), elem |-> <<>>]
    ELSE [path |-> acc.path, elem |-> Append(acc.elem, t)]

Resolve(name) ==
    LET start == IF name # <<>> /\ name[1] = Sep THEN <<>> ELSE Folder
    IN  Flush(FoldLeft(Step, [path |-> start, elem |-> <<>>], name))

\* std::ofstream can create the file at p: its parent is a directory
CanCreate(p) == p # <<>> /\ Front(p) \in dirs /\ p \notin dirs

\* the disk after std::ofstream opens p: an empty file, truncated if it existed
Truncated(p) == [q \in DOMAIN files \cup {p} |-> IF q = p THEN <<>> ELSE files[q]]

-----------------------------------------------------------------------------
Fail(s) == status' = s /\ pc' = "Done"

Init ==
    /\ input \in Containers
    /\ pos = 0 /\ good = TRUE /\ eof = FALSE
    /\ pc = "Folders" /\ status = "InProgress"
    /\ count = 0 /\ k = 0 /\ fname = <<>> /\ left = 0 /\ out = <<>>
    /\ \/ dirs = {<<>>} /\ files = <<>>
       \/ dirs = {<<>>, Root, Peer} /\ files = PeerIndex :> PeerContent
    /\ paths = [f \in DOMAIN PathField |-> NoPath]
    /\ conf = [Dimension |-> 0, QueryNeighborsCount |-> 0, TopCount |-> 0,
               VectorTypeStr |-> "none"]

\* TryCreateFolder (snapshot_keeper.cc:56-74) on the root, then on root/name:
\* an existing path is accepted; create_directory may fail.
CreateFolder ==
    /\ pc \in {"Folders", "Folder"}
    /\ LET p == IF pc = "Folders" THEN Root ELSE Folder IN
       \/ /\ p \in dirs
          /\ pc' = IF pc = "Folders" THEN "Folder" ELSE "Open"
          /\ UNCHANGED <<status, dirs>>
       \/ /\ p \notin dirs
          /\ dirs' = dirs \cup {p}
          /\ pc' = IF pc = "Folders" THEN "Folder" ELSE "Open"
          /\ UNCHANGED status
       \/ /\ IoMayFail /\ p \notin dirs
          /\ Fail("FilesystemCreateFolderError") /\ UNCHANGED dirs
    /\ UNCHANGED <<input, pos, good, eof, count, k, fname, left, out, files,
                   paths, conf>>

\* fpInput is opened; the magic is read and compared.
ReadMagic ==
    /\ pc = "Open"
    /\ \/ IoMayFail /\ Fail("IoCantOpenIncomingSnapshotFile")
                    /\ UNCHANGED <<pos, good, eof>>
       \/ /\ AfterRead(1)
          /\ CASE ~ReadOk(1) -> Fail("IfstreamFailure")
               [] Cell # Magic -> Fail("InvalidSnapshot")
               [] OTHER -> pc' = "Count" /\ UNCHANGED status
    /\ UNCHANGED <<input, count, k, fname, left, out, dirs, files, paths, conf>>

\* Mutant: filesCount is not range-checked.
ReadFilesCountUnchecked ==
    /\ pc = "Count"
    /\ AfterRead(1)
    /\ CASE ~ReadOk(1) -> Fail("IfstreamFailure") /\ UNCHANGED count
         [] OTHER -> pc' = "Name" /\ count' = Cell /\ UNCHANGED status
    /\ UNCHANGED <<input, k, fname, left, out, dirs, files, paths, conf>>

\* filesCount is read and checked.
ReadFilesCount ==
    /\ pc = "Count"
    /\ AfterRead(1)
    /\ CASE ~ReadOk(1) -> Fail("IfstreamFailure") /\ UNCHANGED count
         [] Cell < MinFilesCount \/ Cell > MaxFilesCount ->
               Fail("InvalidSnapshot") /\ UNCHANGED count
         [] OTHER -> pc' = "Name" /\ count' = Cell /\ UNCHANGED status
    /\ UNCHANGED <<input, k, fname, left, out, dirs, files, paths, conf>>

\* A turn of the loop begins: filenameLen and the name are read and checked,
\* and a well-known name sets its Config path field.
ReadFilename ==
    /\ pc = "Name" /\ k < count
    /\ LET n == Cell
           name == SubSeq(input, pos + 2, pos + 1 + n)
       IN CASE ~ReadOk(1) -> Fail("IfstreamFailure") /\ AfterRead(1)
                             /\ UNCHANGED <<fname, paths>>
            [] n = 0 \/ n > MaxFilenameLength ->
                  Fail("InvalidSnapshot") /\ AfterRead(1)
                  /\ UNCHANGED <<fname, paths>>
            [] ~ReadOk(1 + n) ->
                  Fail("IfstreamFailure") /\ AfterRead(1 + n)
                  /\ UNCHANGED <<fname, paths>>
            [] OTHER ->
                  /\ AfterRead(1 + n) /\ fname' = name
                  /\ paths' = [f \in DOMAIN PathField |->
                                 IF name = PathField[f]
                                 THEN Append(Folder, name) ELSE paths[f]]
                  /\ pc' = "Size" /\ UNCHANGED status
    /\ UNCHANGED <<input, count, k, left, out, dirs, files, conf>>

\* fileSize is read and checked, and fpOutput opens destination / files[i].
ReadFileSize ==
    /\ pc = "Size"
    /\ AfterRead(1)
    /\ CASE ~ReadOk(1) -> Fail("IfstreamFailure") /\ UNCHANGED <<left, out, files>>
         [] Cell = 0 \/ Cell > MaxFileSize ->
               Fail("InvalidSnapshot") /\ UNCHANGED <<left, out, files>>
         [] ~CanCreate(Resolve(fname)) ->
               Fail("OfstreamFailure") /\ UNCHANGED <<left, out, files>>
         [] OTHER -> /\ out' = Resolve(fname) /\ left' = Cell
                     /\ files' = Truncated(out')
                     /\ pc' = "Copy" /\ UNCHANGED status
    /\ UNCHANGED <<input, count, k, fname, dirs, paths, conf>>

\* Mutant: fileSize -= kRWBufferSize is left out of the while loop.
CopyChunkNoDecrement ==
    /\ pc = "Copy"
    /\ LET n == IF left > RWBufferSize THEN RWBufferSize ELSE left IN
       /\ AfterRead(n)
       /\ \/ ~ReadOk(n) /\ Fail("IfstreamFailure") /\ UNCHANGED <<left, k, files>>
          \/ ReadOk(n) /\ IoMayFail /\ Fail("OfstreamFailure")
             /\ UNCHANGED <<left, k, files>>
          \/ /\ ReadOk(n)
             /\ files' = [files EXCEPT ![out] = @ \o SubSeq(input, pos + 1, pos + n)]
             /\ left' = IF left > RWBufferSize THEN left ELSE 0
             /\ IF left' = 0 THEN pc' = "Name" /\ k' = k + 1 ELSE UNCHANGED <<pc, k>>
             /\ UNCHANGED status
    /\ UNCHANGED <<input, count, fname, out, dirs, paths, conf>>

\* One turn of the copy loop (snapshot_keeper.cc:309-323), or the tail read
\* after it (324-337): min(fileSize, kRWBufferSize) cells go through
\* gRWBuffer to fpOutput; after the tail the file is closed and i advances.
CopyChunk ==
    /\ pc = "Copy"
    /\ LET n == IF left > RWBufferSize THEN RWBufferSize ELSE left IN
       /\ AfterRead(n)
       /\ \/ ~ReadOk(n) /\ Fail("IfstreamFailure") /\ UNCHANGED <<left, k, files>>
          \/ ReadOk(n) /\ IoMayFail /\ Fail("OfstreamFailure")
             /\ UNCHANGED <<left, k, files>>
          \/ /\ ReadOk(n)
             /\ files' = [files EXCEPT ![out] = @ \o SubSeq(input, pos + 1, pos + n)]
             /\ left' = left - n
             /\ IF left' = 0 THEN pc' = "Name" /\ k' = k + 1 ELSE UNCHANGED <<pc, k>>
             /\ UNCHANGED status
    /\ UNCHANGED <<input, count, fname, out, dirs, paths, conf>>

\* Mutant: the strict end-of-file probe is left out.
ProbeEofSkipped ==
    /\ pc = "Name" /\ k = count
    /\ pc' = "Config"
    /\ UNCHANGED <<input, pos, good, eof, status, count, k, fname, left, out,
                   dirs, files, paths, conf>>

\* After the loop one more cell is read, which must hit the end of the file.
ProbeEof ==
    /\ pc = "Name" /\ k = count
    /\ AfterRead(1)
    /\ IF eof' THEN pc' = "Config" /\ UNCHANGED status ELSE Fail("IfstreamFailure")
    /\ UNCHANGED <<input, count, k, fname, left, out, dirs, files, paths, conf>>

\* the parsed config.json, as a record of its top-level keys, each a
\* [type, val] record of its JSON type and value; a null or a discarded
\* document has none
Json(content) ==
    IF Len(content) = 1 /\ content[1] \in DOMAIN Jsons THEN Jsons[content[1]]
    ELSE [discarded |-> TRUE]

NumericFields == {"Dimension", "QueryNeighborsCount", "TopCount"}

\* config.json is opened and parsed; each numeric field must be an unsigned
\* number and is narrowed by get<uint32_t>(); VectorTypeStr must be a string.
ParseConfig ==
    /\ pc = "Config"
    /\ LET doc == Json(files[paths.c]) IN
       IF \/ paths.c = NoPath \/ paths.c \notin DOMAIN files
          \/ \E f \in NumericFields : f \notin DOMAIN doc \/ doc[f].type # "unsigned"
          \/ "VectorTypeStr" \notin DOMAIN doc \/ doc.VectorTypeStr.type # "string"
       THEN Fail("InvalidSnapshotConfig") /\ UNCHANGED conf
       ELSE /\ conf' = [f \in DOMAIN conf |->
                          IF f \in NumericFields THEN doc[f].val % U32
                          ELSE doc.VectorTypeStr.val]
            /\ pc' = "Validate" /\ UNCHANGED status
    /\ UNCHANGED <<input, pos, good, eof, count, k, fname, left, out, dirs,
                   files, paths>>

\* CheckSnapshotIsValid's check of one file: the status it returns, if any
FileError(f, missing) ==
    CASE paths[f] = NoPath -> "InvalidSnapshotConfig"
      [] paths[f] \notin DOMAIN files -> missing
      [] Len(files[paths[f]]) \notin MinFileSize..MaxFileSize -> missing
      [] OTHER -> "InProgress"

\* CheckSnapshotIsValid (snapshot_keeper.cc:76-171): the first failing check
\* gives the status.
Validate ==
    /\ pc = "Validate"
    /\ LET InRange(v, hi) == v \in 1..hi IN
       Fail(CASE ~InRange(conf.Dimension, MaxDimension) -> "InvalidSnapshotConfig"
              [] ~InRange(conf.QueryNeighborsCount, MaxSearchDepth) ->
                    "InvalidSnapshotConfig"
              [] ~InRange(conf.TopCount, MaxSearchDepth) -> "InvalidSnapshotConfig"
              [] conf.VectorTypeStr \notin {"int8", "uint8", "float"} ->
                    "InvalidSnapshotConfig"
              [] FileError("i", "InvalidSnapshotIndex") # "InProgress" ->
                    FileError("i", "InvalidSnapshotIndex")
              [] FileError("d", "InvalidSnapshotIndexData") # "InProgress" ->
                    FileError("d", "InvalidSnapshotIndexData")
              [] OTHER -> FileError("m", "InvalidSnapshotMapping"))
    /\ UNCHANGED <<input, pos, good, eof, count, k, fname, left, out, dirs,
                   files, paths, conf>>

Next ==
    \/ CreateFolder \/ ReadMagic \/ ReadFilesCount \/ ReadFilename
    \/ ReadFileSize \/ CopyChunk \/ ProbeEof \/ ParseConfig \/ Validate

Spec == Init /\ [][Next]_vars /\ WF_vars(Next)

-----------------------------------------------------------------------------
(* The container format of spec section 4.4, as a reference decoding: the  *)
(* members are located by their length fields alone, without the stream.   *)
At(c, q) == IF q \in 1..Len(c) THEN c[q] ELSE 0
NameLenAt(c, p) == At(c, p + 1)
NameAt(c, p) == SubSeq(c, p + 2, p + 1 + NameLenAt(c, p))
SizeAt(c, p) == At(c, p + 2 + NameLenAt(c, p))
ContentAt(c, p) == SubSeq(c, p + 3 + NameLenAt(c, p),
                          p + 2 + NameLenAt(c, p) + SizeAt(c, p))

\* Ends(c)[j]: the position of member j's last cell (0: the header's)
Ends(c) ==
    LET e[j \in 0..At(c, 2)] ==
          IF j = 0 THEN 2
          ELSE e[j - 1] + 2 + NameLenAt(c, e[j - 1]) + SizeAt(c, e[j - 1])
    IN  e

IsContainer(c) ==
    /\ Len(c) >= 2 /\ c[1] = Magic /\ c[2] \in MinFilesCount..MaxFilesCount
    /\ \A j \in 1..c[2] : /\ NameLenAt(c, Ends(c)[j - 1]) \in 1..MaxFilenameLength
                         /\ SizeAt(c, Ends(c)[j - 1]) \in 1..MaxFileSize
    /\ Ends(c)[c[2]] = Len(c)

\* every member's content is on disk at its destination, unless a later
\* member has the same destination
Extracted(c) ==
    \A j \in 1..c[2] :
       LET Dest(m) == Resolve(NameAt(c, Ends(c)[m - 1])) IN
       (\A m \in (j + 1)..c[2] : Dest(m) # Dest(j)) =>
          /\ Dest(j) \in DOMAIN files
          /\ files[Dest(j)] = ContentAt(c, Ends(c)[j - 1])

\* the statuses of the unpacking stage
UnpackFailures == {"FilesystemCreateFolderError", "IoCantOpenIncomingSnapshotFile",
                   "IfstreamFailure", "InvalidSnapshot", "OfstreamFailure"}

Unpacked == \/ pc \in {"Config", "Validate"}
            \/ pc = "Done" /\ status \notin UnpackFailures

TypeOK ==
    /\ pos \in 0..Len(input) /\ good \in BOOLEAN /\ eof \in BOOLEAN
    /\ count \in 0..MaxFilesCount /\ k \in 0..count
    /\ left \in 0..MaxFileSize
    /\ paths \in [DOMAIN PathField -> {NoPath} \cup {Append(Folder, n) : n \in
                    {IndexName, IndexDataName, MappingName, ConfigJsonName}}]

(* The copy loop writes what the member declares: while a member is being *)
(* copied, and once its file is closed, the file fpOutput writes holds     *)
(* exactly the cells that follow its fileSize field, up to the stream      *)
(* position, and the cells written plus the fileSize still left to copy    *)
(* equal the declared fileSize, however kRWBufferSize chunks it.           *)
CopiedAsDeclared ==
    pc = "Copy" \/ (pc = "Name" /\ k > 0) =>
        LET w == Len(files[out]) IN
        /\ out \in DOMAIN files
        /\ pos - w \in 1..Len(input)
        /\ w + left = input[pos - w]
        /\ files[out] = SubSeq(input, pos - w + 1, pos)

(* The unpacking stage accepts exactly the well-formed containers: when it *)
(* passes, the input decodes as a container and each member's content      *)
(* (the last, for members written to the same path) is on disk at its      *)
(* destination, whatever the chunking did; and a well-formed container is  *)
(* never refused by a read or a format check, only by the file system.     *)
ContainerUnpacked ==
    /\ Unpacked => IsContainer(input) /\ Extracted(input)
    /\ pc = "Done" /\ IsContainer(input) =>
          status \notin {"IfstreamFailure", "InvalidSnapshot"}

(* Spec section 4.4: a member whose name holds a separator must fail at    *)
(* the write; nothing is written outside the snapshot's folder.            *)
NoWriteOutsideFolder ==
    \A p \in DOMAIN files : \/ IsPrefix(Folder, p)
                            \/ p = PeerIndex /\ files[p] = PeerContent
=============================================================================
