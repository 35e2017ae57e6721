----------------------------- MODULE SnapshotLoad -----------------------------
(***************************************************************************)
(* ANNSnapshot's constructor (snapshot.cc): the members are built in       *)
(* declaration order, Config, then Mapping, then Index (snapshot.h), and   *)
(* Mapping and Index report into the same SNAPSHOT_STATUS& status.  The    *)
(* Mapping loader is the SnapshotMapping module, instantiated on this      *)
(* module's variables; ANNSnapshotIndex's constructor (snapshot_index.cc)  *)
(* is its sequence of checks, each of which may fail and return.           *)
(***************************************************************************)
EXTENDS Integers, Sequences

CONSTANTS
    MaxTotalCount,  \* 2000000000: the most records a mapping file may hold
    MaxStrLen,      \* 2000000000: the longest record
    Chars,          \* byte values a record holds
    Files,          \* contents of the mapping files the loader may be given
    Missing         \* a path that cannot be opened

ASSUME LoadBoundsAssumption ==
    /\ MaxTotalCount \in Nat \ {0}
    /\ MaxStrLen \in Nat \ {0}
    /\ Chars \subseteq Nat
    /\ Files \subseteq Seq(Nat)    \* cells hold uint32 fields and bytes

VARIABLES
    file, pos, good, eof, pc, i, totalCount, storage,  \* the Mapping loader
    status,      \* the SNAPSHOT_STATUS both constructors write
    indexFiles,  \* which of the index and index.data files exist
    ipc,         \* the Index constructor's next check; 0 once it has returned
    built        \* the ANNSnapshot constructor has finished

Mapping == INSTANCE SnapshotMapping

mvars == <<file, pos, good, eof, pc, i, totalCount, storage>>
vars == <<mvars, status, indexFiles, ipc, built>>

\* The Index constructor's checks, in order: the two files exist
\* (snapshot_index.cc:40-53), then the DiskANN calls: frozen points, config
\* builder, factory, create_instance, load.
IndexChecks == <<"IndexFile", "IndexDataFile", "FrozenPoints", "ConfigBuilder",
                 "Factory", "CreateInstance", "Load">>

\* the checks that can fail: the file checks fail exactly when the file is
\* missing; create_instance's check tests an error_code nothing has set
\* since the factory's check passed, so it never fails
CheckCanFail(k) ==
    CASE IndexChecks[k] \in {"IndexFile", "IndexDataFile"} ->
             IndexChecks[k] \notin indexFiles
      [] IndexChecks[k] = "CreateInstance" -> FALSE
      [] OTHER -> TRUE

CheckMustFail(k) == IndexChecks[k] \in {"IndexFile", "IndexDataFile"}
                    /\ IndexChecks[k] \notin indexFiles

Init ==
    /\ Mapping!Init
    /\ indexFiles \in SUBSET {"IndexFile", "IndexDataFile"}
    /\ ipc = 1
    /\ built = FALSE

\* The Mapping member's constructor runs.
MappingStep ==
    /\ Mapping!Next
    /\ UNCHANGED <<indexFiles, ipc, built>>

\* One check of the Index member's constructor passes.
IndexCheckPasses ==
    /\ pc = "Done" /\ ipc \in DOMAIN IndexChecks
    /\ ~CheckMustFail(ipc)
    /\ ipc' = ipc + 1
    /\ UNCHANGED <<mvars, status, indexFiles, built>>

\* A check fails: status = SNAPSHOT_LOAD_ERROR_INVALID_INDEX; return.
IndexCheckFails ==
    /\ pc = "Done" /\ ipc \in DOMAIN IndexChecks
    /\ CheckCanFail(ipc)
    /\ status' = "InvalidIndex"
    /\ ipc' = 0
    /\ UNCHANGED <<mvars, indexFiles, built>>

\* Mutant: the body promotes the status to OK unless the Index failed.
FinishConstructionAlwaysOk ==
    /\ pc = "Done" /\ ipc \notin DOMAIN IndexChecks /\ ~built
    /\ status' = IF status = "InvalidIndex" THEN status ELSE "OK"
    /\ built' = TRUE
    /\ UNCHANGED <<mvars, indexFiles, ipc>>

\* ANNSnapshot's body: a status still IN_PROGRESS becomes OK.
FinishConstruction ==
    /\ pc = "Done" /\ ipc \notin DOMAIN IndexChecks /\ ~built
    /\ status' = IF status = "InProgress" THEN "OK" ELSE status
    /\ built' = TRUE
    /\ UNCHANGED <<mvars, indexFiles, ipc>>

Next == MappingStep \/ IndexCheckPasses \/ IndexCheckFails \/ FinishConstruction

Spec == Init /\ [][Next]_vars /\ WF_vars(Next)

-----------------------------------------------------------------------------
TypeOK ==
    /\ Mapping!TypeOK
    /\ ipc \in 0..(Len(IndexChecks) + 1)
    /\ built \in BOOLEAN

\* the Mapping member loaded its file
MappingLoaded == file # Missing /\ Mapping!IsMappingFile(file)

(* A snapshot is reported OK exactly when its Mapping file is well formed  *)
(* and every check of the Index constructor passed; and then it serves the *)
(* file's records.  This is what the shared status reference and the       *)
(* IN_PROGRESS -> OK promotion in ANNSnapshot's body must achieve.        *)
SnapshotOkIffLoaded ==
    built =>
        /\ (status = "OK") = (MappingLoaded /\ ipc = Len(IndexChecks) + 1)
        /\ status = "OK" => Mapping!EncodeTable(storage) = file

(* Spec section 3: when Mapping and Index both fail, the snapshot reports  *)
(* the first failure, the Mapping's.                                       *)
FirstFailureReported ==
    built /\ ~MappingLoaded => status = "InvalidMappingFile"
=============================================================================
