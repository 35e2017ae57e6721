---------------------------- MODULE SnapshotLoadProofs ----------------------------
(***************************************************************************)
(* Proofs about ANNSnapshot's constructor (SnapshotLoad), for every bound  *)
(* and every set of mapping files.                                         *)
(*                                                                         *)
(* TypeOK is not inductive as it stands: the loader's reads need the file  *)
(* to be a sequence of naturals whenever it is read, the resize needs the  *)
(* loop counter to be 0 before the count is read, and the count must be a  *)
(* natural for 0..totalCount to mean anything.  LoadTypeInv adds these.    *)
(***************************************************************************)
EXTENDS SnapshotLoad, SequenceTheorems, TLAPS

LoadTypeInv ==
    /\ TypeOK
    /\ file \in Files \cup {Missing}
    /\ totalCount \in Nat
    /\ pc = "Loop" => file # Missing
    /\ pc = "Open" => i = 0

(* istream::read leaves the stream position inside the file and the state  *)
(* bits Boolean, whether or not the read is short.                         *)
LEMMA AfterReadType ==
    ASSUME NEW n \in Nat, file \in Seq(Nat), pos \in 0..Len(file),
           good \in BOOLEAN, eof \in BOOLEAN, Mapping!AfterRead(n)
    PROVE  pos' \in 0..Len(file) /\ good' \in BOOLEAN /\ eof' \in BOOLEAN
<1>1. CASE Mapping!ReadOk(n)
  <2>1. pos' = pos + n /\ good' = good /\ eof' = eof
    BY <1>1 DEF Mapping!AfterRead
  <2>2. pos + n <= Len(file)
    BY <1>1 DEF Mapping!ReadOk
  <2>. QED
    BY <2>1, <2>2
<1>2. CASE ~Mapping!ReadOk(n)
  <2>1. pos' = (IF good THEN Len(file) ELSE pos) /\ good' = FALSE
        /\ eof' = (eof \/ good)
    BY <1>2 DEF Mapping!AfterRead
  <2>2. pos' \in 0..Len(file)
    BY <2>1
  <2>3. good' \in BOOLEAN /\ eof' \in BOOLEAN
    BY <2>1, Zenon
  <2>. QED
    BY <2>2, <2>3
<1>. QED
  BY <1>1, <1>2

(* The Mapping loader keeps LoadTypeInv; the Index and the body leave its  *)
(* variables alone.                                                        *)
LEMMA MappingStepType ==
    ASSUME LoadTypeInv, MappingStep
    PROVE  LoadTypeInv'
<1>. USE LoadBoundsAssumption
<1>0. UNCHANGED <<indexFiles, ipc, built>> /\ Mapping!Next
  BY DEF MappingStep
<1>t. /\ file = Missing \/ pos \in 0..Len(file)
      /\ good \in BOOLEAN /\ eof \in BOOLEAN
      /\ pc \in {"Open", "Loop", "Done"}
      /\ status \in Mapping!LoadStatus
      /\ i \in 0..totalCount
      /\ storage \in Seq(Seq(Nat)) /\ Len(storage) = totalCount
      /\ ipc \in 0..(Len(IndexChecks) + 1) /\ built \in BOOLEAN
  BY DEF LoadTypeInv, TypeOK, Mapping!TypeOK
<1>1. CASE Mapping!OpenFailed
  BY <1>0, <1>1, <1>t DEF Mapping!OpenFailed, Mapping!Fail, LoadTypeInv,
                         TypeOK, Mapping!TypeOK, Mapping!LoadStatus
<1>2. CASE Mapping!ReadTotalCount
  <2>1. file \in Seq(Nat) /\ pos \in 0..Len(file) /\ i = 0 /\ file' = file
        /\ file # Missing
    BY <1>2, <1>t, LoadBoundsAssumption DEF Mapping!ReadTotalCount, LoadTypeInv
  <2>2. pos' \in 0..Len(file) /\ good' \in BOOLEAN /\ eof' \in BOOLEAN
    BY <1>2, <1>t, <2>1, AfterReadType DEF Mapping!ReadTotalCount
  <2>3. CASE ~Mapping!ReadOk(1) \/ file[1] = 0 \/ file[1] > MaxTotalCount
    BY <1>0, <1>2, <1>t, <2>1, <2>2, <2>3
    DEF Mapping!ReadTotalCount, Mapping!Fail, LoadTypeInv, TypeOK,
        Mapping!TypeOK, Mapping!LoadStatus
  <2>4. CASE ~(~Mapping!ReadOk(1) \/ file[1] = 0 \/ file[1] > MaxTotalCount)
    <3>1. file[1] \in Nat
      BY <2>1, <2>4 DEF Mapping!ReadOk
    <3>2. totalCount' = file[1] /\ storage' = [k \in 1..file[1] |-> <<>>]
          /\ pc' = "Loop" /\ status' = status /\ i' = i
      BY <1>2, <2>4 DEF Mapping!ReadTotalCount
    <3>3. storage' \in Seq(Seq(Nat)) /\ Len(storage') = totalCount'
      <4>1. <<>> \in Seq(Nat)
        OBVIOUS
      <4>2. storage' \in [1..file[1] -> Seq(Nat)]
        BY <3>2, <4>1
      <4>3. storage' \in Seq(Seq(Nat))
        BY <3>1, <4>2, SeqDef
      <4>4. DOMAIN storage' = 1..Len(storage') /\ Len(storage') \in Nat
        BY <4>3, LenProperties
      <4>. QED
        BY <3>1, <3>2, <4>3, <4>4
    <3>. QED
      BY <1>0, <1>t, <2>1, <2>2, <3>1, <3>2, <3>3
      DEF LoadTypeInv, TypeOK, Mapping!TypeOK
  <2>. QED
    BY <2>3, <2>4
<1>3. CASE Mapping!ReadRecord
  <2>1. file \in Seq(Nat) /\ pos \in 0..Len(file) /\ i < totalCount
        /\ file' = file /\ totalCount' = totalCount /\ pc = "Loop"
        /\ file # Missing
    BY <1>3, <1>t, LoadBoundsAssumption DEF Mapping!ReadRecord, LoadTypeInv
  <2>2. CASE ~good
    BY <1>0, <1>3, <1>t, <2>1, <2>2 DEF Mapping!ReadRecord, Mapping!Fail,
       LoadTypeInv, TypeOK, Mapping!TypeOK, Mapping!LoadStatus
  <2>3. CASE good
    <3>1. PICK len \in IF Mapping!ReadOk(1) THEN {file[pos + 1]} ELSE Mapping!Garbage :
            IF len = 0 \/ len > MaxStrLen \/ ~Mapping!ReadOk(1) THEN
               /\ Mapping!Fail /\ Mapping!AfterRead(1) /\ UNCHANGED <<i, storage>>
            ELSE
               /\ pos' = IF pos + 1 + len <= Len(file) THEN pos + 1 + len
                         ELSE Len(file)
               /\ good' = (pos + 1 + len <= Len(file))
               /\ eof' = ~good'
               /\ storage' = [storage EXCEPT ![i + 1] =
                                [k \in 1..len |-> IF pos + 1 + k <= Len(file)
                                                  THEN file[pos + 1 + k] ELSE 0]]
               /\ i' = i + 1 /\ UNCHANGED <<pc, status>>
      BY <1>3, <2>3 DEF Mapping!ReadRecord
    <3>2. len \in Nat
      BY <2>1 DEF Mapping!ReadOk, Mapping!Garbage
    <3>3. CASE len = 0 \/ len > MaxStrLen \/ ~Mapping!ReadOk(1)
      <4>1. pos' \in 0..Len(file) /\ good' \in BOOLEAN /\ eof' \in BOOLEAN
        BY <1>t, <2>1, <3>1, <3>3, AfterReadType
      <4>. QED
        BY <1>0, <1>t, <2>1, <3>1, <3>3, <4>1 DEF Mapping!Fail, LoadTypeInv,
           TypeOK, Mapping!TypeOK, Mapping!LoadStatus
    <3>4. CASE ~(len = 0 \/ len > MaxStrLen \/ ~Mapping!ReadOk(1))
      <4>. DEFINE rec == [k \in 1..len |-> IF pos + 1 + k <= Len(file)
                                            THEN file[pos + 1 + k] ELSE 0]
      <4>1. rec \in Seq(Nat)
        BY <2>1, <3>2
      <4>2. i + 1 \in 1..Len(storage)
        BY <1>t, <2>1
      <4>3. storage' = [storage EXCEPT ![i + 1] = rec] /\ i' = i + 1
            /\ pc' = pc /\ status' = status
        BY <3>1, <3>4
      <4>4. storage' \in Seq(Seq(Nat)) /\ Len(storage') = totalCount
        BY <1>t, <4>1, <4>2, <4>3, ExceptSeq
      <4>0. /\ pos' = IF pos + 1 + len <= Len(file) THEN pos + 1 + len
                      ELSE Len(file)
            /\ good' = (pos + 1 + len <= Len(file))
            /\ eof' = ~good'
        BY <3>1, <3>4
      <4>5. pos' \in 0..Len(file) /\ good' \in BOOLEAN /\ eof' \in BOOLEAN
        BY <2>1, <3>2, <4>0
      <4>. QED
        BY <1>0, <1>t, <2>1, <4>3, <4>4, <4>5 DEF LoadTypeInv, TypeOK,
           Mapping!TypeOK
    <3>. QED
      BY <3>3, <3>4
  <2>. QED
    BY <2>2, <2>3, <1>t
<1>4. CASE Mapping!FinishLoad
  <2>1. file \in Seq(Nat) /\ pos \in 0..Len(file) /\ file' = file
        /\ UNCHANGED <<i, totalCount, storage>>
    BY <1>4, <1>t DEF Mapping!FinishLoad, LoadTypeInv
  <2>2. CASE ~good
    BY <1>0, <1>4, <1>t, <2>1, <2>2 DEF Mapping!FinishLoad, Mapping!Fail,
       LoadTypeInv, TypeOK, Mapping!TypeOK, Mapping!LoadStatus
  <2>3. CASE good
    <3>1. Mapping!AfterRead(1) /\ ((pc' = "Done" /\ status' = status) \/ Mapping!Fail)
      BY <1>4, <2>3 DEF Mapping!FinishLoad
    <3>2. pos' \in 0..Len(file) /\ good' \in BOOLEAN /\ eof' \in BOOLEAN
      BY <1>t, <2>1, <3>1, AfterReadType
    <3>. QED
      BY <1>0, <1>t, <2>1, <3>1, <3>2 DEF Mapping!Fail, LoadTypeInv, TypeOK,
         Mapping!TypeOK, Mapping!LoadStatus
  <2>. QED
    BY <2>2, <2>3, <1>t
<1>. QED
  BY <1>0, <1>1, <1>2, <1>3, <1>4 DEF Mapping!Next

LEMMA LoadTypeInvStep == LoadTypeInv /\ [Next]_vars => LoadTypeInv'
<1> SUFFICES ASSUME LoadTypeInv, [Next]_vars PROVE LoadTypeInv'
  OBVIOUS
<1>. USE DEF LoadTypeInv, TypeOK, Mapping!TypeOK, Mapping!LoadStatus, mvars
<1>1. CASE MappingStep
  BY <1>1, MappingStepType
<1>2. CASE IndexCheckPasses
  BY <1>2 DEF IndexCheckPasses, IndexChecks
<1>3. CASE IndexCheckFails
  BY <1>3 DEF IndexCheckFails, IndexChecks
<1>4. CASE FinishConstruction
  BY <1>4 DEF FinishConstruction
<1>5. CASE UNCHANGED vars
  BY <1>5 DEF vars, mvars
<1>. QED
  BY <1>1, <1>2, <1>3, <1>4, <1>5 DEF Next

LEMMA LoadTypeInvInit == Init => LoadTypeInv
<1> SUFFICES ASSUME Init PROVE LoadTypeInv
  OBVIOUS
<1>1. file \in Files \cup {Missing} /\ pos = 0 /\ good = (file # Missing)
      /\ eof = FALSE /\ pc = "Open" /\ i = 0 /\ totalCount = 0
      /\ storage = <<>> /\ status = "InProgress" /\ ipc = 1 /\ built = FALSE
  BY DEF Init, Mapping!Init
<1>2. file = Missing \/ pos \in 0..Len(file)
  <2>1. file # Missing => file \in Seq(Nat)
    BY <1>1, LoadBoundsAssumption
  <2>. QED
    BY <1>1, <2>1
<1>3. good \in BOOLEAN /\ eof \in BOOLEAN
  BY <1>1
<1>4. storage \in Seq(Seq(Nat)) /\ Len(storage) = totalCount
  BY <1>1
<1>5. ipc \in 0..(Len(IndexChecks) + 1) /\ built \in BOOLEAN
  <2>1. Len(IndexChecks) = 7
    BY DEF IndexChecks
  <2>2. ipc = 1 /\ built = FALSE
    BY <1>1
  <2>3. ipc \in 0..(Len(IndexChecks) + 1)
    BY <2>1, <2>2
  <2>4. built \in BOOLEAN
    BY <2>2
  <2>. QED
    BY <2>3, <2>4
<1>6. pc \in {"Open", "Loop", "Done"} /\ status \in Mapping!LoadStatus
      /\ i \in 0..totalCount /\ totalCount \in Nat
  BY <1>1 DEF Mapping!LoadStatus
<1>. QED
  BY <1>1, <1>2, <1>3, <1>4, <1>5, <1>6 DEF LoadTypeInv, TypeOK, Mapping!TypeOK

(* For every bound and every mapping file, the constructor keeps the       *)
(* stream position inside the file and every record it stores in range:   *)
(* storage_[i] is written only for i below the count storage_ was resized *)
(* to, and the Index constructor's checks run in order.                    *)
THEOREM LoadTypeCorrect == Spec => []TypeOK
<1>1. LoadTypeInv => TypeOK
  BY DEF LoadTypeInv
<1>. QED
  BY LoadTypeInvInit, LoadTypeInvStep, <1>1, PTL DEF Spec

-----------------------------------------------------------------------------
(* A snapshot reported OK has passed every Index check and holds a table   *)
(* within the format's bounds (spec section 4.1): 1..MaxTotalCount records *)
(* of 1..MaxStrLen bytes each.  This is the half of SnapshotOkIffLoaded    *)
(* that needs no induction over the file.                                  *)
OkTableInBounds ==
    status = "OK" =>
        /\ built
        /\ ipc = Len(IndexChecks) + 1
        /\ Len(storage) \in 1..MaxTotalCount
        /\ \A k \in 1..Len(storage) : Len(storage[k]) \in 1..MaxStrLen

(* The records read so far are in bounds; until the Mapping loader is done *)
(* nothing has written the status, and a loader that is done without       *)
(* failing has read every record of a count in bounds; the Index's failure *)
(* leaves INVALID_INDEX; OK is only set by the body, after everything.     *)
OkBounds ==
    /\ \A k \in 1..i : Len(storage[k]) \in 1..MaxStrLen
    /\ pc \in {"Open", "Loop"} => status = "InProgress"
    /\ pc = "Loop" => totalCount \in 1..MaxTotalCount
    /\ pc = "Done" /\ status \in {"InProgress", "OK"} =>
          i = totalCount /\ totalCount \in 1..MaxTotalCount
    /\ ipc = 0 => status = "InvalidIndex"
    /\ status = "OK" => built /\ pc = "Done" /\ ipc = Len(IndexChecks) + 1

OkInv == LoadTypeInv /\ OkBounds

(* Each step of the Mapping loader either fails, writing                   *)
(* INVALID_MAPPING_FILE, or keeps the status IN_PROGRESS; a record it      *)
(* stores has a length the loop accepted.                                  *)
LEMMA MappingStepOk ==
    ASSUME OkInv, MappingStep
    PROVE  OkBounds'
<1>. USE LoadBoundsAssumption
<1>0. UNCHANGED <<indexFiles, ipc, built>> /\ Mapping!Next
  BY DEF MappingStep
<1>t. /\ file = Missing \/ pos \in 0..Len(file)
      /\ pc \in {"Open", "Loop", "Done"}
      /\ i \in 0..totalCount /\ totalCount \in Nat
      /\ storage \in Seq(Seq(Nat)) /\ Len(storage) = totalCount
      /\ pc = "Loop" => file # Missing
      /\ pc = "Open" => i = 0
  BY DEF OkInv, LoadTypeInv, TypeOK, Mapping!TypeOK
<1>s. pc \in {"Open", "Loop"} => status = "InProgress" /\ ipc # 0
  BY DEF OkInv, OkBounds
<1>f. ASSUME Mapping!Fail, UNCHANGED <<i, storage>>, pc \in {"Open", "Loop"}
      PROVE  OkBounds'
  <2>1. status' = "InvalidMappingFile" /\ pc' = "Done"
    BY <1>f DEF Mapping!Fail
  <2>2. ipc' # 0
    BY <1>0, <1>s, <1>f
  <2>. QED
    BY <1>f, <2>1, <2>2 DEF OkInv, OkBounds
<1>1. CASE Mapping!OpenFailed
  BY <1>1, <1>f DEF Mapping!OpenFailed
<1>2. CASE Mapping!ReadTotalCount
  <2>1. CASE ~Mapping!ReadOk(1) \/ file[1] = 0 \/ file[1] > MaxTotalCount
    BY <1>2, <2>1, <1>f DEF Mapping!ReadTotalCount
  <2>2. CASE ~(~Mapping!ReadOk(1) \/ file[1] = 0 \/ file[1] > MaxTotalCount)
    <3>1. file \in Seq(Nat) /\ pos \in 0..Len(file) /\ i = 0 /\ i' = 0
          /\ pc = "Open"
      BY <1>2, <1>t DEF Mapping!ReadTotalCount, OkInv, LoadTypeInv
    <3>a. 1 \in 1..Len(file)
      BY <2>2, <3>1 DEF Mapping!ReadOk
    <3>b. file[1] \in Nat
      BY <3>1, <3>a
    <3>2. file[1] \in 1..MaxTotalCount
      BY <2>2, <3>b
    <3>3. totalCount' = file[1] /\ pc' = "Loop" /\ status' = status
      BY <1>2, <2>2 DEF Mapping!ReadTotalCount
    <3>. QED
      BY <1>0, <1>s, <3>1, <3>2, <3>3 DEF OkBounds
  <2>. QED
    BY <2>1, <2>2
<1>3. CASE Mapping!ReadRecord
  <2>1. file \in Seq(Nat) /\ pos \in 0..Len(file) /\ i < totalCount
        /\ pc = "Loop" /\ totalCount' = totalCount
    BY <1>3, <1>t DEF Mapping!ReadRecord, OkInv, LoadTypeInv
  <2>2. CASE ~good
    BY <1>3, <2>1, <2>2, <1>f DEF Mapping!ReadRecord
  <2>3. CASE good
    <3>1. PICK len \in IF Mapping!ReadOk(1) THEN {file[pos + 1]} ELSE Mapping!Garbage :
            IF len = 0 \/ len > MaxStrLen \/ ~Mapping!ReadOk(1) THEN
               /\ Mapping!Fail /\ Mapping!AfterRead(1) /\ UNCHANGED <<i, storage>>
            ELSE
               /\ pos' = IF pos + 1 + len <= Len(file) THEN pos + 1 + len
                         ELSE Len(file)
               /\ good' = (pos + 1 + len <= Len(file))
               /\ eof' = ~good'
               /\ storage' = [storage EXCEPT ![i + 1] =
                                [k \in 1..len |-> IF pos + 1 + k <= Len(file)
                                                  THEN file[pos + 1 + k] ELSE 0]]
               /\ i' = i + 1 /\ UNCHANGED <<pc, status>>
      BY <1>3, <2>3 DEF Mapping!ReadRecord
    <3>2. len \in Nat
      BY <2>1 DEF Mapping!ReadOk, Mapping!Garbage
    <3>3. CASE len = 0 \/ len > MaxStrLen \/ ~Mapping!ReadOk(1)
      BY <2>1, <3>1, <3>3, <1>f
    <3>4. CASE ~(len = 0 \/ len > MaxStrLen \/ ~Mapping!ReadOk(1))
      <4>. DEFINE rec == [k \in 1..len |-> IF pos + 1 + k <= Len(file)
                                            THEN file[pos + 1 + k] ELSE 0]
      <4>1. storage' = [storage EXCEPT ![i + 1] = rec] /\ i' = i + 1
            /\ pc' = pc /\ status' = status
        BY <3>1, <3>4
      <4>2. i + 1 \in 1..Len(storage) /\ i \in Nat
        BY <1>t, <2>1
      <4>3. len \in 1..MaxStrLen /\ Len(rec) = len
        BY <3>2, <3>4
      <4>4. \A k \in 1..i' : Len(storage'[k]) \in 1..MaxStrLen
        <5>1. \A k \in 1..i : Len(storage[k]) \in 1..MaxStrLen
          BY DEF OkInv, OkBounds
        <5>2. \A k \in 1..i : storage'[k] = storage[k]
          BY <1>t, <4>1, <4>2
        <5>3. storage'[i + 1] = rec
          BY <1>t, <4>1, <4>2
        <5>. QED
          BY <4>1, <4>2, <4>3, <5>1, <5>2, <5>3
      <4>. QED
        BY <1>0, <1>s, <2>1, <4>1, <4>4 DEF OkInv, OkBounds
    <3>. QED
      BY <3>3, <3>4
  <2>. QED
    BY <2>2, <2>3
<1>4. CASE Mapping!FinishLoad
  <2>1. pc = "Loop" /\ i = totalCount /\ UNCHANGED <<i, totalCount, storage>>
    BY <1>4 DEF Mapping!FinishLoad
  <2>2. CASE ~good
    BY <1>4, <2>1, <2>2, <1>f DEF Mapping!FinishLoad
  <2>3. CASE good
    <3>1. (pc' = "Done" /\ status' = status) \/ Mapping!Fail
      BY <1>4, <2>3 DEF Mapping!FinishLoad
    <3>2. CASE Mapping!Fail
      BY <2>1, <3>2, <1>f
    <3>3. CASE pc' = "Done" /\ status' = status
      <4>1. totalCount \in 1..MaxTotalCount /\ status = "InProgress"
        BY <2>1 DEF OkInv, OkBounds
      <4>. QED
        BY <1>0, <1>s, <2>1, <3>3, <4>1 DEF OkInv, OkBounds
    <3>. QED
      BY <3>1, <3>2, <3>3
  <2>. QED
    BY <2>2, <2>3
<1>. QED
  BY <1>0, <1>1, <1>2, <1>3, <1>4 DEF Mapping!Next

LEMMA OkInvStep == OkInv /\ [Next]_vars => OkInv'
<1> SUFFICES ASSUME OkInv, [Next]_vars PROVE OkInv'
  OBVIOUS
<1>0. LoadTypeInv'
  BY LoadTypeInvStep DEF OkInv
<1>L. Len(IndexChecks) = 7 /\ DOMAIN IndexChecks = 1..7
  BY DEF IndexChecks
<1>t. ipc \in 0..(Len(IndexChecks) + 1) /\ built \in BOOLEAN
  BY DEF OkInv, LoadTypeInv, TypeOK
<1>1. CASE MappingStep
  BY <1>0, <1>1, MappingStepOk DEF OkInv
<1>2. CASE IndexCheckPasses
  <2>1. ipc \in 1..7 /\ ipc' = ipc + 1 /\ pc = "Done"
        /\ UNCHANGED <<mvars, status, built>>
    BY <1>2, <1>L DEF IndexCheckPasses
  <2>2. status # "OK"
    BY <1>L, <2>1 DEF OkInv, OkBounds
  <2>. QED
    BY <1>0, <2>1, <2>2 DEF OkInv, OkBounds, mvars
<1>3. CASE IndexCheckFails
  BY <1>0, <1>3 DEF IndexCheckFails, OkInv, OkBounds, mvars
<1>4. CASE FinishConstruction
  <2>1. pc = "Done" /\ ipc \notin 1..7 /\ built = FALSE /\ built' = TRUE
        /\ UNCHANGED <<mvars, ipc>>
    BY <1>4, <1>L, <1>t DEF FinishConstruction
  <2>2. CASE status = "InProgress"
    <3>1. status' = "OK" /\ ipc = 8
      BY <1>4, <1>t, <1>L, <2>1, <2>2 DEF FinishConstruction, OkInv, OkBounds
    <3>. QED
      BY <1>0, <1>L, <2>1, <2>2, <3>1 DEF OkInv, OkBounds, mvars
  <2>3. CASE status # "InProgress"
    <3>1. status' = status /\ status # "OK"
      BY <1>4, <2>1, <2>3 DEF FinishConstruction, OkInv, OkBounds
    <3>. QED
      BY <1>0, <2>1, <3>1 DEF OkInv, OkBounds, mvars
  <2>. QED
    BY <2>2, <2>3
<1>5. CASE UNCHANGED vars
  BY <1>0, <1>5 DEF vars, mvars, OkInv, OkBounds
<1>. QED
  BY <1>1, <1>2, <1>3, <1>4, <1>5 DEF Next

LEMMA OkInvInit == Init => OkInv
<1> SUFFICES ASSUME Init PROVE OkInv
  OBVIOUS
<1>1. pc = "Open" /\ i = 0 /\ status = "InProgress" /\ ipc = 1
  BY DEF Init, Mapping!Init
<1>. QED
  BY <1>1, LoadTypeInvInit DEF OkInv, OkBounds

(* For every bound and every mapping file, a snapshot the constructor      *)
(* reports OK has passed all seven Index checks and serves a table of      *)
(* 1..MaxTotalCount records of 1..MaxStrLen bytes: no failure of the       *)
(* Mapping loader or of the Index is ever overwritten by the body's        *)
(* IN_PROGRESS -> OK promotion.                                            *)
THEOREM OkSnapshotInBounds == Spec => []OkTableInBounds
<1>1. OkInv => OkTableInBounds
  BY DEF OkInv, OkBounds, LoadTypeInv, TypeOK, Mapping!TypeOK, OkTableInBounds
<1>. QED
  BY OkInvInit, OkInvStep, <1>1, PTL DEF Spec

=============================================================================
