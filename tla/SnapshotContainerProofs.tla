------------------------ MODULE SnapshotContainerProofs ------------------------
(***************************************************************************)
(* Proofs about HandleIncomingSnapshot's unpacking (SnapshotContainer),    *)
(* for every bound and every container.                                    *)
(*                                                                         *)
(* TypeOK is not inductive as it stands.  A turn of the copy loop advances *)
(* i once fileSize reaches 0, and i stays within filesCount only because   *)
(* the turn began below it; filesCount is read while i is still 0; and the *)
(* reads need the container to be a sequence of naturals.  ContTypeInv     *)
(* adds these.                                                             *)
(***************************************************************************)
EXTENDS SnapshotContainer, SequenceTheorems, TLAPS

ContTypeInv ==
    /\ TypeOK
    /\ input \in Seq(Nat)
    /\ pc \in {"Folders", "Folder", "Open", "Count"} => k = 0
    /\ pc \in {"Size", "Copy"} => k < count

\* a member's file is open, or has just been closed
Copying == pc = "Copy" \/ (pc = "Name" /\ k > 0)

CopyInv ==
    /\ ContTypeInv
    /\ CopiedAsDeclared
    /\ Copying => files[out] \in Seq(Nat)

(* A short read of istream::read leaves the position inside the container, *)
(* whatever was asked for.                                                 *)
LEMMA ShortReadType ==
    ASSUME NEW n, input \in Seq(Nat), pos \in 0..Len(input),
           ~ReadOk(n), AfterRead(n)
    PROVE  pos' \in 0..Len(input) /\ good' \in BOOLEAN /\ eof' \in BOOLEAN
<1>1. pos' = (IF good THEN Len(input) ELSE pos) /\ good' = FALSE
      /\ eof' = (eof \/ good)
  BY DEF AfterRead
<1>2. good' \in BOOLEAN /\ eof' \in BOOLEAN
  BY <1>1, Zenon
<1>. QED
  BY <1>1, <1>2

(* A read of n cells, short or not, leaves the position inside the         *)
(* container.                                                              *)
LEMMA AfterReadType ==
    ASSUME NEW n \in Nat, input \in Seq(Nat), pos \in 0..Len(input),
           good \in BOOLEAN, eof \in BOOLEAN, AfterRead(n)
    PROVE  pos' \in 0..Len(input) /\ good' \in BOOLEAN /\ eof' \in BOOLEAN
<1>1. CASE ReadOk(n)
  <2>1. pos' = pos + n /\ good' = good /\ eof' = eof
    BY <1>1 DEF AfterRead
  <2>2. pos + n <= Len(input)
    BY <1>1 DEF ReadOk
  <2>. QED
    BY <2>1, <2>2
<1>2. CASE ~ReadOk(n)
  BY <1>2, ShortReadType
<1>. QED
  BY <1>1, <1>2

(* The cell a successful read returns is a natural.                        *)
LEMMA CellType ==
    ASSUME input \in Seq(Nat), pos \in 0..Len(input), ReadOk(1)
    PROVE  Cell \in Nat
<1>1. pos + 1 \in 1..Len(input)
  BY DEF ReadOk
<1>. QED
  BY <1>1 DEF Cell

LEMMA ContTypeInvStep == ContTypeInv /\ [Next]_vars => ContTypeInv'
<1> SUFFICES ASSUME ContTypeInv, [Next]_vars PROVE ContTypeInv'
  OBVIOUS
<1>. USE ContainerBoundsAssumption
<1>0. /\ pos \in 0..Len(input) /\ good \in BOOLEAN /\ eof \in BOOLEAN
      /\ count \in 0..MaxFilesCount /\ k \in 0..count /\ left \in 0..MaxFileSize
      /\ input \in Seq(Nat)
  BY DEF ContTypeInv, TypeOK
<1>p. \* paths is only written by ReadFilename
      UNCHANGED paths => paths' \in [DOMAIN PathField -> {NoPath} \cup
                            {Append(Folder, n) : n \in {IndexName, IndexDataName,
                                                      MappingName, ConfigJsonName}}]
  BY DEF ContTypeInv, TypeOK
<1>1. CASE CreateFolder
  <2>1. pc' \in {"Folder", "Open", "Done"}
    BY <1>1 DEF CreateFolder, Fail
  <2>. QED
    BY <1>0, <1>1, <1>p, <2>1 DEF CreateFolder, ContTypeInv, TypeOK
<1>2. CASE ReadMagic
  <2>1. pc = "Open" /\ pc' \in {"Count", "Done"}
    BY <1>2 DEF ReadMagic, Fail
  <2>2. pos' \in 0..Len(input) /\ good' \in BOOLEAN /\ eof' \in BOOLEAN
    BY <1>0, <1>2, AfterReadType DEF ReadMagic
  <2>. QED
    BY <1>0, <1>2, <1>p, <2>1, <2>2 DEF ReadMagic, ContTypeInv, TypeOK
<1>3. CASE ReadFilesCount
  <2>1. pc = "Count" /\ k = 0 /\ UNCHANGED <<input, k, left, paths>>
    BY <1>3 DEF ReadFilesCount, ContTypeInv
  <2>2. pos' \in 0..Len(input) /\ good' \in BOOLEAN /\ eof' \in BOOLEAN
    BY <1>0, <1>3, AfterReadType DEF ReadFilesCount
  <2>3. \/ pc' = "Done" /\ count' = count
        \/ /\ ReadOk(1) /\ ~(Cell < MinFilesCount \/ Cell > MaxFilesCount)
           /\ pc' = "Name" /\ count' = Cell
    BY <1>3 DEF ReadFilesCount, Fail
  <2>4. count' \in 0..MaxFilesCount /\ pc' \in {"Done", "Name"}
    <3>1. ReadOk(1) => Cell \in Nat
      BY <1>0, CellType
    <3>. QED
      BY <1>0, <2>3, <3>1
  <2>. QED
    BY <1>0, <1>p, <2>1, <2>2, <2>4 DEF ContTypeInv, TypeOK
<1>4. CASE ReadFilename
  <2>1. pc = "Name" /\ k < count /\ UNCHANGED <<input, count, k, left>>
    BY <1>4 DEF ReadFilename
  <2>. DEFINE n == Cell
  <2>. DEFINE name == SubSeq(input, pos + 2, pos + 1 + n)
  <2>2. \/ /\ ~ReadOk(1) /\ AfterRead(1) /\ pc' = "Done" /\ UNCHANGED paths
        \/ /\ ReadOk(1) /\ AfterRead(1) /\ pc' = "Done" /\ UNCHANGED paths
        \/ /\ ~ReadOk(1 + n) /\ AfterRead(1 + n) /\ pc' = "Done" /\ UNCHANGED paths
        \/ /\ ReadOk(1) /\ AfterRead(1 + n) /\ pc' = "Size"
           /\ paths' = [f \in DOMAIN PathField |->
                          IF name = PathField[f] THEN Append(Folder, name)
                          ELSE paths[f]]
    BY <1>4 DEF ReadFilename, Fail
  <2>3. ReadOk(1) => n \in Nat
    BY <1>0, CellType
  <2>4. pos' \in 0..Len(input) /\ good' \in BOOLEAN /\ eof' \in BOOLEAN
    <3>1. CASE ~ReadOk(1) /\ AfterRead(1)
      BY <1>0, <3>1, ShortReadType
    <3>2. CASE ReadOk(1) /\ AfterRead(1)
      BY <1>0, <3>2, AfterReadType
    <3>3. CASE ~ReadOk(1 + n) /\ AfterRead(1 + n)
      BY <1>0, <3>3, ShortReadType
    <3>4. CASE ReadOk(1) /\ AfterRead(1 + n)
      <4>1. 1 + n \in Nat
        BY <2>3, <3>4
      <4>. QED
        BY <1>0, <3>4, <4>1, AfterReadType
    <3>. QED
      BY <2>2, <3>1, <3>2, <3>3, <3>4
  <2>5. paths' \in [DOMAIN PathField -> {NoPath} \cup
                      {Append(Folder, m) : m \in {IndexName, IndexDataName,
                                                MappingName, ConfigJsonName}}]
    <3>. DEFINE Names == {IndexName, IndexDataName, MappingName, ConfigJsonName}
    <3>. DEFINE S == {NoPath} \cup {Append(Folder, m) : m \in Names}
    <3>1. DOMAIN PathField = {"i", "d", "m", "c"} /\ \A f \in DOMAIN PathField : PathField[f] \in Names
      BY DEF PathField
    <3>2. paths \in [DOMAIN PathField -> S]
      BY DEF ContTypeInv, TypeOK
    <3>3. \A f \in DOMAIN PathField : Append(Folder, PathField[f]) \in S
      BY <3>1
    <3>4. CASE paths' = [f \in DOMAIN PathField |->
                           IF name = PathField[f] THEN Append(Folder, name)
                           ELSE paths[f]]
      <4>1. \A f \in DOMAIN PathField :
               (IF name = PathField[f] THEN Append(Folder, name) ELSE paths[f]) \in S
        BY <3>2, <3>3
      <4>. QED
        BY <3>4, <4>1
    <3>. QED
      BY <1>p, <2>2, <3>4
  <2>. QED
    BY <1>0, <2>1, <2>2, <2>4, <2>5 DEF ContTypeInv, TypeOK
<1>5. CASE ReadFileSize
  <2>1. pc = "Size" /\ k < count /\ UNCHANGED <<input, count, k, paths>>
    BY <1>5 DEF ReadFileSize, ContTypeInv
  <2>2. pos' \in 0..Len(input) /\ good' \in BOOLEAN /\ eof' \in BOOLEAN
    BY <1>0, <1>5, AfterReadType DEF ReadFileSize
  <2>3. \/ pc' = "Done" /\ left' = left
        \/ /\ ReadOk(1) /\ ~(Cell = 0 \/ Cell > MaxFileSize)
           /\ pc' = "Copy" /\ left' = Cell
    BY <1>5 DEF ReadFileSize, Fail
  <2>4. left' \in 0..MaxFileSize /\ pc' \in {"Done", "Copy"}
    <3>1. ReadOk(1) => Cell \in Nat
      BY <1>0, CellType
    <3>. QED
      BY <1>0, <2>3, <3>1
  <2>. QED
    BY <1>0, <1>p, <2>1, <2>2, <2>4 DEF ContTypeInv, TypeOK
<1>6. CASE CopyChunk
  <2>. DEFINE chunk == IF left > RWBufferSize THEN RWBufferSize ELSE left
  <2>1. pc = "Copy" /\ k < count /\ chunk \in 0..left
        /\ UNCHANGED <<input, count, paths>>
    BY <1>0, <1>6 DEF CopyChunk, ContTypeInv
  <2>2. pos' \in 0..Len(input) /\ good' \in BOOLEAN /\ eof' \in BOOLEAN
    BY <1>0, <1>6, <2>1, AfterReadType DEF CopyChunk
  <2>3. \/ pc' = "Done" /\ left' = left /\ k' = k
        \/ /\ left' = left - chunk
           /\ IF left' = 0 THEN pc' = "Name" /\ k' = k + 1
              ELSE pc' = pc /\ k' = k
    BY <1>6 DEF CopyChunk, Fail
  <2>4. /\ left' \in 0..MaxFileSize /\ k' \in 0..count
        /\ pc' \in {"Done", "Name", "Copy"} /\ (pc' = "Copy" => k' < count)
    <3>1. left \in Nat /\ k \in Nat /\ count \in Nat /\ MaxFileSize \in Nat
      BY <1>0
    <3>2. CASE pc' = "Done" /\ left' = left /\ k' = k
      BY <1>0, <3>2
    <3>3. CASE left' = left - chunk /\ left' = 0 /\ pc' = "Name" /\ k' = k + 1
      BY <2>1, <3>1, <3>3
    <3>4. CASE left' = left - chunk /\ left' # 0 /\ pc' = pc /\ k' = k
      BY <1>0, <2>1, <3>1, <3>4
    <3>. QED
      BY <2>3, <3>2, <3>3, <3>4
  <2>5. /\ input' \in Seq(Nat) /\ count' = count /\ count' \in 0..MaxFilesCount
        /\ paths' \in [DOMAIN PathField -> {NoPath} \cup {Append(Folder, n) : n \in
                         {IndexName, IndexDataName, MappingName, ConfigJsonName}}]
    BY <1>0, <1>p, <2>1
  <2>6. /\ pc' \in {"Folders", "Folder", "Open", "Count"} => k' = 0
        /\ pc' \in {"Size", "Copy"} => k' < count'
    BY <2>1, <2>4
  <2>. QED
    <3>a. k' \in 0..count'
      BY <2>4, <2>5
    <3>b. left' \in 0..MaxFileSize
      BY <2>4
    <3>c. count' \in 0..MaxFilesCount
      BY <2>5
    <3>d. paths' \in [DOMAIN PathField -> {NoPath} \cup {Append(Folder, n) : n \in
                        {IndexName, IndexDataName, MappingName, ConfigJsonName}}]
      BY <2>5
    <3>1. TypeOK'
      BY <2>1, <2>2, <3>a, <3>b, <3>c, <3>d DEF TypeOK
    <3>. QED
      BY <3>1, <2>5, <2>6 DEF ContTypeInv
<1>7. CASE ProbeEof
  <2>1. pc = "Name" /\ UNCHANGED <<input, count, k, left, paths>>
    BY <1>7 DEF ProbeEof
  <2>2. pos' \in 0..Len(input) /\ good' \in BOOLEAN /\ eof' \in BOOLEAN
    BY <1>0, <1>7, AfterReadType DEF ProbeEof
  <2>3. pc' \in {"Config", "Done"}
    BY <1>7 DEF ProbeEof, Fail
  <2>. QED
    BY <1>0, <1>p, <2>1, <2>2, <2>3 DEF ContTypeInv, TypeOK
<1>8. CASE ParseConfig
  <2>1. pc' \in {"Validate", "Done"}
    BY <1>8 DEF ParseConfig, Fail
  <2>. QED
    BY <1>0, <1>8, <1>p, <2>1 DEF ParseConfig, ContTypeInv, TypeOK
<1>9. CASE Validate
  <2>1. pc' = "Done"
    BY <1>9 DEF Validate, Fail
  <2>. QED
    BY <1>0, <1>9, <1>p, <2>1 DEF Validate, ContTypeInv, TypeOK
<1>10. CASE UNCHANGED vars
  BY <1>10 DEF vars, ContTypeInv, TypeOK
<1>. QED
  BY <1>1, <1>2, <1>3, <1>4, <1>5, <1>6, <1>7, <1>8, <1>9, <1>10 DEF Next

LEMMA ContTypeInvInit == Init => ContTypeInv
<1> SUFFICES ASSUME Init PROVE ContTypeInv
  OBVIOUS
<1>1. input \in Seq(Nat) /\ pos = 0 /\ count = 0 /\ k = 0 /\ left = 0
      /\ pc = "Folders" /\ good = TRUE /\ eof = FALSE
      /\ paths = [f \in DOMAIN PathField |-> NoPath]
  BY ContainerBoundsAssumption DEF Init
<1>2. input \in Seq(Nat) /\ pos \in 0..Len(input)
  BY <1>1
<1>3. paths \in [DOMAIN PathField -> {NoPath} \cup {Append(Folder, n) : n \in
                   {IndexName, IndexDataName, MappingName, ConfigJsonName}}]
  BY <1>1
<1>b. MaxFilesCount \in Nat /\ MaxFileSize \in Nat
  BY ContainerBoundsAssumption
<1>4. /\ count \in 0..MaxFilesCount /\ k \in 0..count /\ left \in 0..MaxFileSize
      /\ good \in BOOLEAN /\ eof \in BOOLEAN
  <2>1. count = 0 /\ k = 0 /\ left = 0 /\ good = TRUE /\ eof = FALSE
    BY <1>1
  <2>2. count \in 0..MaxFilesCount /\ left \in 0..MaxFileSize
    BY <2>1, <1>b
  <2>3. k \in 0..count
    BY <2>1
  <2>4. good \in BOOLEAN /\ eof \in BOOLEAN
    BY <2>1
  <2>. QED
    BY <2>2, <2>3, <2>4
<1>. QED
  BY <1>1, <1>2, <1>3, <1>4 DEF ContTypeInv, TypeOK

(* For every bound and every container, filesCount stays within            *)
(* kMinFilesCount..kMaxFilesCount once read, the loop counter i within     *)
(* filesCount, fileSize's countdown in the chunk loop never goes below 0,  *)
(* the stream position stays inside the container, and only the four      *)
(* well-known names set a Config path, to destination / name.              *)
THEOREM ContainerTypeCorrect == Spec => []TypeOK
<1>1. ContTypeInv => TypeOK
  BY DEF ContTypeInv
<1>. QED
  BY ContTypeInvInit, ContTypeInvStep, <1>1, PTL DEF Spec

LEMMA CopyInvInit == Init => CopyInv
<1> SUFFICES ASSUME Init PROVE CopyInv
  OBVIOUS
<1>1. pc = "Folders"
  BY DEF Init
<1>. QED
  BY <1>1, ContTypeInvInit DEF CopyInv, CopiedAsDeclared, Copying

\* the part of CopyInv about the open file, in the next state
CopyPart ==
    /\ CopiedAsDeclared
    /\ Copying => files[out] \in Seq(Nat)

LEMMA CopyPartStep == CopyInv /\ [Next]_vars => CopyPart'
<1> SUFFICES ASSUME CopyInv, [Next]_vars PROVE CopyPart'
  OBVIOUS
<1>0. /\ pos \in 0..Len(input) /\ input \in Seq(Nat) /\ k \in Nat
      /\ (pc = "Count" => k = 0)
  BY DEF CopyInv, ContTypeInv, TypeOK
<1>v. ~Copying' => CopyPart'
  BY DEF CopyPart, CopiedAsDeclared, Copying
<1>1. CASE CreateFolder
  BY <1>1, <1>v DEF CreateFolder, Fail, Copying
<1>2. CASE ReadMagic
  BY <1>2, <1>v DEF ReadMagic, Fail, Copying
<1>3. CASE ReadFilesCount
  <2>1. pc = "Count" /\ k' = k /\ pc' \in {"Done", "Name"}
    BY <1>3 DEF ReadFilesCount, Fail
  <2>. QED
    BY <1>0, <1>v, <2>1 DEF Copying
<1>4. CASE ReadFilename
  BY <1>4, <1>v DEF ReadFilename, Fail, Copying
<1>5. CASE ReadFileSize
  <2>1. CASE pc' = "Done"
    BY <1>v, <2>1 DEF Copying
  <2>2. CASE pc' # "Done"
    \* fpOutput opens destination / files[i] empty, just after fileSize
    <3>1. /\ ReadOk(1) /\ pos' = pos + 1 /\ left' = Cell /\ input' = input
          /\ out' = Resolve(fname) /\ files' = Truncated(out')
      BY <1>5, <2>2 DEF ReadFileSize, Fail, AfterRead
    <3>2. out' \in DOMAIN files' /\ files'[out'] = <<>>
      BY <3>1 DEF Truncated
    <3>3. pos + 1 \in 1..Len(input) /\ Cell = input[pos + 1]
      BY <1>0, <3>1 DEF ReadOk, Cell
    <3>4. SubSeq(input, pos + 2, pos + 1) = <<>>
      BY <1>0, <3>3
    <3>. QED
      BY <1>0, <3>1, <3>2, <3>3, <3>4 DEF CopyPart, CopiedAsDeclared, Copying
  <2>. QED
    BY <2>1, <2>2
<1>6. CASE CopyChunk
  <2>. DEFINE chunk == IF left > RWBufferSize THEN RWBufferSize ELSE left
  <2>a. pc = "Copy"
    BY <1>6 DEF CopyChunk
  <2>b. /\ out \in DOMAIN files /\ files[out] \in Seq(Nat)
        /\ pos - Len(files[out]) \in 1..Len(input)
        /\ Len(files[out]) + left = input[pos - Len(files[out])]
        /\ files[out] = SubSeq(input, pos - Len(files[out]) + 1, pos)
    BY <2>a DEF CopyInv, CopiedAsDeclared, Copying
  \* wr: the cells written so far
  <2>w. PICK wr \in Nat : wr = Len(files[out])
    BY <2>b
  <2>c. /\ pos - wr \in 1..Len(input) /\ wr + left = input[pos - wr]
        /\ files[out] = SubSeq(input, pos - wr + 1, pos)
    BY <2>b, <2>w, Zenon
  <2>d. left \in 0..MaxFileSize /\ RWBufferSize \in Nat
    <3>1. RWBufferSize \in Nat
      BY ContainerBoundsAssumption
    <3>. QED
      BY <3>1 DEF CopyInv, ContTypeInv, TypeOK
  <2>e. chunk \in 0..left
    BY <2>d
  <2>1. CASE pc' = "Done"
    BY <1>v, <2>1 DEF Copying
  <2>2. CASE pc' # "Done"
    <3>1. /\ ReadOk(chunk) /\ pos' = pos + chunk /\ left' = left - chunk
          /\ files' = [files EXCEPT ![out] = @ \o SubSeq(input, pos + 1, pos + chunk)]
          /\ UNCHANGED <<input, out>>
      BY <1>6, <2>2 DEF CopyChunk, Fail, AfterRead
    <3>2. /\ pos + chunk <= Len(input) /\ pos \in Nat /\ chunk \in Nat
          /\ Len(input) \in Nat /\ pos - wr >= 1 /\ pos <= Len(input)
      BY <1>0, <2>c, <2>e, <3>1 DEF ReadOk
    <3>3. files'[out] = SubSeq(input, pos - wr + 1, pos + chunk)
      <4>1. files'[out] = SubSeq(input, pos - wr + 1, pos) \o SubSeq(input, pos + 1, pos + chunk)
        BY <2>b, <2>c, <3>1
      <4>2. /\ pos - wr + 1 \in 1..Len(input) + 1
            /\ pos \in (pos - wr + 1) - 1..Len(input)
            /\ pos + chunk \in pos..Len(input)
        BY <3>2
      <4>. QED
        BY <1>0, <4>1, <4>2, ConcatAdjacentSubSeq
    <3>4. files'[out] \in Seq(Nat) /\ Len(files'[out]) = wr + chunk
      <4>1. \A i \in (pos - wr + 1)..(pos + chunk) : input[i] \in Nat
        <5>1. (pos - wr + 1)..(pos + chunk) \subseteq 1..Len(input)
          BY <3>2
        <5>. QED
          BY <1>0, <5>1
      <4>2. /\ pos - wr + 1 \in Int /\ pos + chunk \in Int
            /\ (pos + chunk) - (pos - wr + 1) + 1 = wr + chunk
            /\ pos - wr + 1 <= pos + chunk + 1
        BY <3>2
      <4>3. SubSeq(input, pos - wr + 1, pos + chunk) \in Seq(Nat)
            /\ Len(SubSeq(input, pos - wr + 1, pos + chunk)) = wr + chunk
        BY <4>1, <4>2, SubSeqProperties
      <4>. QED
        BY <3>3, <4>3
    \* the written and left counts in the next state, without Len
    <3>5. /\ pos' - (wr + chunk) \in 1..Len(input')
          /\ (wr + chunk) + left' = input'[pos' - (wr + chunk)]
          /\ files'[out'] = SubSeq(input', pos' - (wr + chunk) + 1, pos')
          /\ out' \in DOMAIN files'
      <4>1. pos' - (wr + chunk) = pos - wr /\ (wr + chunk) + left' = wr + left
        BY <3>1, <3>2, <2>d
      <4>2. out \in DOMAIN files'
        BY <2>b, <3>1
      <4>. QED
        BY <2>c, <3>1, <3>3, <4>1, <4>2
    <3>6. pc' = "Copy" \/ (pc' = "Name" /\ k' > 0)
      <4>1. k \in Nat
        BY <1>0
      <4>. QED
        BY <1>6, <2>2, <4>1 DEF CopyChunk, Fail
    <3>7. CopiedAsDeclared'
      <4>1. Len(files'[out']) = wr + chunk
        BY <3>1, <3>4
      <4>. QED
        BY <3>5, <4>1 DEF CopiedAsDeclared
    <3>. QED
      BY <3>4, <3>6, <3>7, <3>1 DEF CopyPart, Copying
  <2>. QED
    BY <2>1, <2>2
<1>7. CASE ProbeEof
  BY <1>7, <1>v DEF ProbeEof, Fail, Copying
<1>8. CASE ParseConfig
  BY <1>8, <1>v DEF ParseConfig, Fail, Copying
<1>9. CASE Validate
  BY <1>9, <1>v DEF Validate, Fail, Copying
<1>10. CASE UNCHANGED vars
  BY <1>10 DEF vars, CopyInv, CopyPart, CopiedAsDeclared, Copying
<1>. QED
  BY <1>1, <1>2, <1>3, <1>4, <1>5, <1>6, <1>7, <1>8, <1>9, <1>10 DEF Next

(* For every container and every buffer size, the file fpOutput writes    *)
(* holds exactly the cells after its fileSize field, and the cells written *)
(* plus the fileSize left equal the declared size: the chunk loop's        *)
(* min(fileSize, kRWBufferSize) reads and its decrement never lose, repeat  *)
(* or overrun a cell.                                                      *)
THEOREM CopyCorrect == Spec => []CopiedAsDeclared
<1>1. CopyInv /\ [Next]_vars => CopyInv'
  BY ContTypeInvStep, CopyPartStep DEF CopyInv, CopyPart
<1>2. CopyInv => CopiedAsDeclared
  BY DEF CopyInv
<1>. QED
  BY CopyInvInit, <1>1, <1>2, PTL DEF Spec
=============================================================================
