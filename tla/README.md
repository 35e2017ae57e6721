# TLA+ models of the ANN snapshot subsystem

This directory holds the verification material for the approximate-nearest-neighbour snapshot subsystem. That is `src/components/data_server/microsoft_ann_index/`, plus the lookup adapter `src/components/internal_server/microsoft_ann_lookup.cc` and the UDF hook `src/components/udf/hooks/microsoft_get_nearest_neighbors_hook.cc`. It consists of:
- TLA+ specifications of the subsystem;
- the TLC configurations that model-check them;
- the TLAPS proofs about them.

`PROJECT.json` is the machine-readable inventory. It lists the components, runs, mutants, findings, hazards and theorems, and in `map` the source lines behind every definition.

## The system

| part | source | role |
|---|---|---|
| Mapping Store | `snapshot_mapping.cc` | loads the id→string table: a `uint32` count, then length-prefixed records, then a strict EOF |
| Vector Index Adapter | `snapshot_index.cc` | checks that the index files exist, loads the DiskANN index, and runs batched searches, skipping keys of the wrong size |
| Snapshot Config | `snapshot_config.cc` | the parameters and paths of one snapshot. Its destructor runs `remove_all(SnapshotFolder)` |
| Snapshot | `snapshot.cc` | builds Config, then Mapping, then Index, all reporting into one status, which becomes OK if it is still IN_PROGRESS |
| Snapshot Ingestion | `snapshot_keeper.cc` `HandleIncomingSnapshot`, `CheckSnapshotIsValid` | creates `root` and `root/name`, unpacks the container into it, reads `config.json` and validates |
| Snapshot Keeper | `snapshot_keeper.cc` | a deque of `shared_ptr<ANNSnapshot>` plus `actual_ann_snapshot_`. It applies the freshness gate, does the hot swap, and reclaims front-only |
| Public Index Facade | `index.cc` | `TryAddANNSnapshot` calls the keeper and then the reclamation pass. `GetKeyValueSet` pre-fills rows, searches, and translates rows through the Mapping |
| AnnLookup | `microsoft_ann_lookup.cc` | turns the facade's map into per-key `keyset_values` or `kNotFound` |
| UDF hook | `microsoft_get_nearest_neighbors_hook.cc` | `FinishInit` installs the Lookup. `operator()` checks the input, calls the Lookup and writes JSON |

How the parts interact:

- One notifier thread calls `ANNIndex::TryAddANNSnapshot(name, path)`.
  - If the name is fresh, meaning it sorts after the active snapshot's name as a string, the keeper ingests the container into `root/name` and constructs the snapshot.
  - It then pushes the snapshot to the back of the deque and assigns it to `actual_ann_snapshot_`.
  - The facade then runs `TryRemoveUnusedANNSnapshots`. It pops the front while the front's `shared_ptr` is `unique()`.
- UDF threads call the hook, which calls `AnnLookup`, which calls `ANNIndex::GetKeyValueSet`. That call checks `HasANNSnapshots()`, copies `actual_ann_snapshot_`, searches, translates the results through the Mapping, and drops its copy.
- No lock protects the keeper, and none protects the hook's `lookup_`.
- A snapshot's folder is removed when its Config dies, and the Config dies with the last owner of the snapshot.

## Modules

| module | models | MC module |
|---|---|---|
| `AnnSnapshotKeeper` | keeper and facade: one writer, concurrent lookups, reclamation, folders | `MC_AnnSnapshotKeeper` |
| `AbstractKeeper` | what the keeper promises (spec sections 4.5 and 5) | used by `AnnSnapshotKeeper` as `Abs` |
| `SnapshotMapping` | `ANNSnapshotMapping`'s loader, read by read, plus `GetStr`/`GetCapacity` | through `SnapshotLoad` |
| `SnapshotLoad` | `ANNSnapshot`'s constructor: `SnapshotMapping` (INSTANCE) then the Index checks | `MC_SnapshotLoad` |
| `SnapshotContainer` | `HandleIncomingSnapshot` and `CheckSnapshotIsValid`, step by step | `MC_SnapshotContainer` |
| `AnnLookupResult` | one request: hook checks, `AnnLookup`, `GetKeyValueSet`, `Search` | `MC_AnnLookupResult` |
| `NearestNeighborsHook` | `FinishInit` racing `operator()` on `lookup_` | `MC_NearestNeighborsHook` |
| `AnnSnapshotKeeperProofs` | TLAPS proofs about `AnnSnapshotKeeper` | |
| `SnapshotLoadProofs` | TLAPS proofs about `SnapshotLoad` | |
| `AnnLookupResultProofs` | TLAPS proofs about `AnnLookupResult` | |
| `SnapshotContainerProofs` | TLAPS proofs about `SnapshotContainer` | |

### `AnnSnapshotKeeper`

**`AnnSnapshotKeeper`** models the keeper and the facade as one writer and a set `Readers` of lookup threads.

CONSTANTS:
- `Names` is a set of naturals. They stand for zero-padded names; their order is the string order, and `0` stands for `""`.
- `Readers` is the set of lookup threads.
- `AtomicCopy` says whether the copy of `actual_ann_snapshot_` is one step.

State:

| variable | code |
|---|---|
| `deque` | `ann_snapshots_`, as names, oldest first |
| `actual` | `actual_ann_snapshot_` (`None` = null) |
| `alive` | snapshots constructed and not destroyed |
| `disk` | folders that exist (`Root` and one per name) |
| `wpc`, `wname` | the writer's position inside `TryAddANNSnapshot` |
| `rpc`, `rsnap`, `rresult` | each reader's position inside `GetKeyValueSet`, the pointer it read, and its last answer |

The use count is not a variable. It is the number of holders, `UseCount(s)`: the deque entry, the active pointer, and the readers that hold a copy. That is what `use_count()` counts.

Actions:

| action | code |
|---|---|
| `TryAddNotFresh` | the `NOT_FRESH` return, `snapshot_keeper.cc:444-449` |
| `TryAddFailed(n, outcome)` | a fresh name whose ingestion or load fails. The folders left behind are `FoldersAfterFailure`: the root may stay, and the snapshot folder is removed by the dying Config |
| `TryAddLoaded` | ingestion and `ANNSnapshot` construction succeed |
| `PushBack`, `SetActual` | `snapshot_keeper.cc:464` and `:465`, two steps, because a reader can run between them |
| `RemoveUnusedPop`, `RemoveUnusedStop` | one turn of the loop at `snapshot_keeper.cc:486-509`, and its exit. A pop destroys the snapshot and removes its folder |
| `GetKeyValueSetNone` | the reader's `nullptr` return, `index.cc:31-33` |
| `GetActualANNSnapshot`, `CopyIncrement` | the reader's copy of the pointer: load, then increment. They are one step when `AtomicCopy` |
| `SearchAndRelease` | the search on the copy, the answer, and the copy's release |

Ingestion and loading run on the writer's private objects. Other threads see only their outcome and the folders they leave, so each is a single step whose outcome is chosen from `Outcomes`.

**`MC_AnnSnapshotKeeper`** instantiates the model with two readers (model values) and reader symmetry.

**`AnnSnapshotKeeperProofs`** holds the TLAPS proofs.

`AnnSnapshotKeeper` also defines the refinement mapping to `AbstractKeeper`:
- `coll` is `deque`;
- `active` is `actual`;
- `pinned` is `Pinned`, the pointer each non-idle lookup has read.

`KeeperRefinesAbstract == Abs!Spec`.

### `AbstractKeeper`

This is the keeper's contract, with no pointers and no counts. Its state is:
- a collection `coll`, oldest first;
- an `active` snapshot;
- a `pinned` snapshot per lookup.

Its actions:
- `Add(n)` appends a name fresher than the newest.
- `Publish` makes the newest active.
- `Pin(r)` and `Unpin(r)` bracket a lookup.
- `Evict` pops the front when it is neither active nor pinned.

This is spec section 4.5's front-only eviction and section 5's "a reader keeps a valid snapshot for its whole search". The abstract spec has no liveness: the code does not reclaim eventually (see keeper_reclaim).

### `SnapshotMapping` (`snapshot_mapping.cc:22-96`)

The mapping file is a sequence of cells: a `uint32` field is one cell, and each byte of a record is one cell. A stream state `pos`, `good`, `eof` models `std::ifstream`.

`AfterRead(n)` is `istream::read`:
- a short read consumes the rest and sets `failbit` and `eofbit`;
- a read on a failed stream only sets `failbit`.

The actions follow the constructor's control flow:

| action | code |
|---|---|
| `OpenFailed` | `:26-31` |
| `ReadTotalCount` | `:32-46`: read, stream check, bound check, `resize` |
| `ReadRecord` | one turn of `:47-67` |
| `FinishLoad` | `:69-83`: stream check, then the one-byte EOF probe |

`ReadRecord` follows the code's order:
1. The stream is checked.
2. `strLen` is read, and its value is range-checked before the stream is checked again. On a short read the value is undefined: the previous record's length, or uninitialised on the first turn. The model picks any value from `Garbage`.
3. The bytes are read into a zero-filled record, unchecked.

`GetStr` and `GetCapacity` are operators. `EncodeTable` and `IsMappingFile` are the reference format of spec section 4.1.

### `SnapshotLoad` (`snapshot.cc:20-28`, `snapshot_index.cc:32-128`)

Members are built in declaration order (`snapshot.h:40-43`):
1. `Mapping`, which is `SnapshotMapping` instantiated on this module's variables;
2. the Index constructor's seven checks (`IndexChecks`);
3. the body's `IN_PROGRESS -> OK`.

Both loaders write the one shared `status`.

The Index checks behave as follows:
- The two file checks fail exactly when the file is missing (`indexFiles`).
- The DiskANN calls may fail nondeterministically.
- `create_instance`'s check never fails. It tests an `error_code` that nothing has set since the factory's check passed (`snapshot_index.cc:110-111`).

### `SnapshotContainer` (`snapshot_keeper.cc:56-417`)

The container is a sequence of cells read through the same stream model.

A file name is a sequence of tokens. `Sep` stands for `/` and `Dots` stands for `..`.

The disk has two parts:
- `dirs`, a set of paths;
- `files`, a map from path to content.

Init offers two disks. One is empty. The other has the snapshots root and an older snapshot `PeerName` whose `index` is on disk.

`Resolve(name)` resolves the ofstream's target `destinationFolderPath / files[i]`. It is a fold over the tokens: a leading `/` makes the path absolute, and `..` pops an element.

The actions, one per step of the code:
- `CreateFolder` is `TryCreateFolder` on the root and then on the snapshot folder.
- `ReadMagic`.
- `ReadFilesCount`.
- `ReadFilename` reads the name and sets the Config path of a well-known name.
- `ReadFileSize` reads the size, checks it and opens the ofstream. Opening truncates the target: `Truncated(p)` maps `p` to the empty content.
- `CopyChunk` is one turn of the `kRWBufferSize` loop or the tail copy.
- `ProbeEof`.
- `ParseConfig` reads the four fields. Each numeric field must be unsigned and is narrowed to `uint32` (`val % U32`), as `get<uint32_t>()` does.
- `Validate` is `CheckSnapshotIsValid`: the first failing check gives the status.

`IoMayFail` lets the file system fail wherever the code checks an `error_code` or a stream.

`IsContainer` and `Extracted` are a reference decoding of spec section 4.4. They locate the members by their length fields alone.

### `AnnLookupResult` (hook `:54-156`, `microsoft_ann_lookup.cc:31-72`, `index.cc:28-68`, `snapshot_index.cc:130-168`)

The model follows one request:
1. `StartRequest`: the hook's input checks, the `HasANNSnapshots` early return, the key set, and one row per key pre-filled with the capacity. The checks are disjuncts with exclusive guards, in the code's order: no input list or an empty one gives `kInvalidArgument` even without a snapshot.
2. `SearchKey`: one turn of `Search`'s loop. A key of `sizeof(T) * Dimension` bytes gets an engine answer, and every key advances `i`.
3. `TranslateKey`: one turn of the translation loop. It takes row `results[retVal->size() - 1]`, and an id at or above the capacity clears the key's list.
4. `Respond`: `AnnLookup`'s `keyset_values` or `kNotFound`, and the hook's output.

Both loops iterate the same `flat_hash_set`, so they see one order. The model leaves that order open (`order \in SetToSeqs(ToSet(req))`).

`Emplace(m, k, v)` is `retVal->emplace`: it adds `k` and leaves existing entries alone. The keys are distinct, so `k` is always new.

The DiskANN engine is abstracted to `Answers`. Each answer is `min(TopCount, Points)` distinct labels.

### `NearestNeighborsHook` (hook `:45-114`, `:158-160`)

Lookup objects are numbered in creation order, and 0 is `nullptr`.
- `FinishInitReset` destroys the installed Lookup.
- `FinishInitAssign` moves in the new one.

Each request goes through three steps:
- `CheckLookup`: the early returns, or the null check and input checks passing;
- `CallLookup`: `lookup_` is read again at line 102;
- `ReturnLookup`.

`MaxInits` bounds how often `FinishInit` is called.

## Runs

| run | cfg | checks | result |
|---|---|---|---|
| keeper_safety | `MC_AnnSnapshotKeeper.cfg` | `TypeOK`, `KeeperConsistent`, `DirectoryOwnership`, `MonotonicReads`, `CountedReferencesKept` | pass |
| keeper_atomic | `MC_AnnSnapshotKeeper_atomic.cfg` | `NoUseAfterFree`, `KeeperRefinesAbstract`, with `AtomicCopy = TRUE` | pass |
| keeper_race | `MC_AnnSnapshotKeeper_race.cfg` | `NoUseAfterFree`, with the code's non-atomic copy | violation |
| keeper_emptyname | `MC_AnnSnapshotKeeper_emptyname.cfg` | `DirectoryOwnership`, with `""` among the names | violation |
| keeper_reclaim | `MC_AnnSnapshotKeeper_reclaim.cfg` | `EventuallyReclaimed` (liveness), with the code's non-atomic copy | violation |
| snapshot_load | `MC_SnapshotLoad.cfg` | `TypeOK`, `SnapshotOkIffLoaded` | pass |
| snapshot_firstfailure | `MC_SnapshotLoad_firstfailure.cfg` | `FirstFailureReported` | violation |
| container_unpack | `MC_SnapshotContainer.cfg` | `TypeOK`, `ContainerUnpacked`, `CopiedAsDeclared` | pass |
| container_traversal | `MC_SnapshotContainer_traversal.cfg` | `NoWriteOutsideFolder` | violation |
| lookup_isolation | `MC_AnnLookupResult.cfg` | `TypeOK`, `KeyIsolation` | pass |
| hook_single_init | `MC_NearestNeighborsHook.cfg` | `HookNoUseAfterFree`, with one `FinishInit` | pass |
| hook_reinit | `MC_NearestNeighborsHook_reinit.cfg` | `HookNoUseAfterFree`, with two `FinishInit` calls | violation |

### What the properties say

**Keeper**
- **`KeeperConsistent`**:
  - the deque is strictly increasing;
  - the active snapshot is in it;
  - outside the window between `push_back` and the assignment, the deque is empty exactly when there is no active snapshot, and its back is the active snapshot.
- **`DirectoryOwnership`**: every live snapshot's folder exists, and every folder other than the root belongs to a live snapshot.
- **`MonotonicReads`** (action property): a lookup thread is never served an older snapshot, or none, after a newer one.
- **`NoUseAfterFree`**: a reader that has read the pointer holds a snapshot that is not destroyed.
- **`CountedReferencesKept`** (action property): no step destroys the snapshot `actual_ann_snapshot_` points to, or one a lookup holds after its copy's increment. This is what the `unique()` test must achieve for either copy mode. With the code's two-step copy, the one reference the count cannot see is a copy between its load and its increment, which is where `keeper_race` strikes.
- **`KeeperRefinesAbstract`**: under the mapping above, every behaviour of the keeper is a behaviour of `AbstractKeeper`.
- **`EventuallyReclaimed`**: a snapshot that a newer one has replaced as the active snapshot, and that no lookup references any more, is eventually destroyed.

**Loading**
- **`SnapshotOkIffLoaded`**: a built snapshot is `OK` exactly when its Mapping file is well formed and every Index check passed. When it is `OK`, it holds exactly the file's records (`EncodeTable(storage) = file`).
- **`FirstFailureReported`**: spec section 3's "first failure" rule.

**Container**
- **`ContainerUnpacked`**: if the unpacking stage passes, the input decodes as a container and each member's content is on disk at its destination, however the copy was chunked. A well-formed container is never refused by a read or a format check.
- **`CopiedAsDeclared`**: while a member is copied, and once its file is closed, the file holds exactly the cells that follow its `fileSize` field up to the stream position. The cells written plus the `fileSize` left equal the declared size. Unlike `ContainerUnpacked`, it speaks of each step of the chunk loop and needs no decoding of the whole container.
- **`NoWriteOutsideFolder`**: nothing is written outside the snapshot's folder.

**Lookup and hook**
- **`KeyIsolation`**: every key gets the mapped strings of its own engine answer, or `kNotFound`, and never another key's row.
- **`HookNoUseAfterFree`**: a request inside `lookup_->GetKeyValueSet` runs on a Lookup that exists.

### What the violations show

Details are in `PROJECT.json` `findings`.

- **keeper_race.**
  1. A reader loads the pointer of snapshot 1.
  2. The writer adds snapshot 2 and swaps.
  3. The reclamation pass sees snapshot 1 as `unique()` and destroys it.
  4. The reader then increments the count of a freed snapshot.

  Spec section 5 requires an atomic swap.
- **keeper_emptyname.** `""` is accepted as the first name. Its folder is `root / ""`, the root itself, and evicting it runs `remove_all(root)`.
- **keeper_reclaim.** The reclamation pass runs only inside `TryAddANNSnapshot`. In the trace, snapshot 2 replaces snapshot 1 while a lookup holds 1, so the pass stops at 1. The lookup then releases 1, and with no further arrival 1 stays alive, with its folder, forever. This goes against the comment at `snapshot_keeper.cc:487`.
- **snapshot_firstfailure.** Mapping and Index share the status. The Index is built even after the Mapping failed, and its failing check overwrites `INVALID_MAPPING_FILE` with `INVALID_INDEX`.
- **container_traversal.** A member named `../<older>/index` resolves into the older snapshot's folder. The ofstream truncates the live index there.
- **hook_reinit.**
  1. A thread passes the null check.
  2. A second `FinishInit` resets `lookup_`, which destroys the Lookup.
  3. The thread then calls into the destroyed Lookup, or into `nullptr`.

### Observations that are not violations

- `ParseConfig` narrows a config number above `2^32 - 1` to `uint32` without complaint (`val % U32`). Only the later range checks catch it, so a wrapped value inside the range is accepted. No property covers this, and the hazards list says why.
- When the index has fewer points than `TopCount`, the engine cannot fill a row. The row keeps the capacity sentinel, so the key gets `kNotFound`. `KeyIsolation` states this outcome, and the run with `Points = 3` and `TopCount = 2` reaches both kinds of row.

## Bounds

**Keeper**
- Three names are enough for two hot swaps and for one superseded snapshot behind another (spec section 8's head-of-line case).
- Two readers are enough for one reader to pin an old snapshot while the other moves on.
- The race needs only two names.
- Reader symmetry is used, except in the liveness run.

**Mapping loader**
- `MC_SnapshotLoad` enumerates every well-formed mapping file of up to two records of up to two bytes.
- It also enumerates every prefix of those files, each with one cell appended (0 or 1) or one cell replaced (by 0 or 3), and a missing file.
- With the bounds set to 2, that covers:
  - truncation inside each field;
  - a count over the bound;
  - a length over the bound;
  - trailing bytes.
- Every subset of the index files and every DiskANN failure is combined with each file.

**Container**
- `MC_SnapshotContainer` checks 73 inputs:
  - the well-formed base container and every prefix of it;
  - every cell of it zeroed or raised to 8;
  - one trailing cell;
  - the base container with each of the other `config.json` documents, one of which is not JSON at all;
  - extra members that are unknown, duplicated, in a missing subfolder, absolute or dotted.
- `RWBufferSize = 2` with file sizes 2 and 3 makes both the full-chunk loop and the tail copy run.
- `U32 = 16` makes narrowing observable.

**Lookup**
- The lookup instance has three keys, one of them malformed. The requests include duplicates, an empty list and no list. There are three points and `TopCount = 2`, and the engine gives every injective answer.

**Hook**
- The hook runs have four threads and one or two `FinishInit` calls. Four threads let requests fall before, inside and after the reset window.

## Fairness

- **Keeper**:
  - The writer's steps after a call has started are weakly fair.
  - Each reader's steps after it has started are weakly fair.
  - New arrivals are not fair. They are up to the notifier.
- **`SnapshotLoad`** has `WF_vars(Next)`. The loaders read a local file and never wait, so a started construction keeps running.
- **Lookup and hook**: `AnnLookupResult` and `NearestNeighborsHook` also use `WF_vars(Next)`. No call in them blocks. Their runs check only safety.

## Mutants

Each property of a passing run is broken by a plausible bug in a mapped definition, under the run's own cfg (`PROJECT.json` `mutants`):

**Keeper**
- `HasANNSnapshots` checks only the deque.
- The active pointer, or the readers' copies, are left out of the use count.
- A failed snapshot's folder leaks.
- The empty-keeper check is dropped from `GetKeyValueSet`.
- Freshness is judged against the deque's front.

**Loading**
- `resize` is skipped.
- The final stream check is dropped.
- The body promotes any status to `OK`.

**Container**
- The file count is not range-checked.
- The EOF probe is skipped.
- The `fileSize -= kRWBufferSize` decrement is dropped from the chunk loop.

**Lookup**
- One row is made per input string.
- Bad ids are skipped instead of clearing the list.

**Hook**
- The null check is dropped.

## Proofs (checked by `tlapm`)

Four modules hold the proofs. Each EXTENDS the module it is about. Every theorem holds for every value of the constants that satisfies that module's `ASSUME`, and TLC evaluates each `ASSUME` on the runs.

### `AnnSnapshotKeeperProofs`

The theorems assume only:
- `Names` are naturals;
- `Readers` is finite;
- `AtomicCopy` is Boolean; no theorem assumes its value.

The theorems:
- **`TypeCorrect`** (`Spec => []TypeOK`).
  - Inductive invariant `TypeInv`: `TypeOK`, plus "the name being pushed is a name", plus "the deque is non-empty during the swap window".
- **`KeeperCorrect`** (`Spec => []KeeperConsistent`).
  - Inductive invariant `KeeperInv`: `TypeInv`, plus `KeeperConsistent`, plus "the name being pushed exceeds the deque's back". The freshness check against `actual` gives that last fact, and `push_back` needs it.
  - Lemma `UniqueMeansUnheld`: a deque entry with use count 1 is neither the active snapshot nor held by a reader.
- **`EvictionSparesCounted`** (`Spec => CountedReferencesKept`), for either copy mode.
  - Lemma `SparesCountedStep`: only `RemoveUnusedPop` destroys a snapshot, and it pops the front only when its use count is 1. Lemma `UniqueMeansUnheld` then gives that the front is neither the active snapshot nor held by a reader. Only `TypeInv` is needed.
  - This is the keeper's safety as it holds for the code as written. `NoUseAfterFree` and the refinement `KeeperRefinesAbstract` hold only with an atomic copy (`keeper_atomic`), and the code's copy is not atomic (`keeper_race`). They therefore stay TLC-checked under that hypothesis and are not proved: a theorem that assumes `AtomicCopy` would be about a keeper the code is not.

- **`FoldersOwned`** (`EmptyName \notin Names => (Spec => []DirectoryOwnership)`).
  - The hypothesis is needed: the `keeper_emptyname` run shows that a snapshot named `""` breaks the property.
  - Inductive invariant `DirInv`: `AliveInv` (the live snapshots are the deque's plus the one being pushed), plus the property itself.
  - Lemma `FolderOfName`: a non-empty name's folder is the name, never the root.
  - Lemma `FreshNotAlive`: a name fresher than the back is not live.
- **`ReadsMonotonic`** (`Spec => MonotonicReads`), for either copy mode.
  - Inductive invariant `MonoInv`: every reader's snapshot, and every result it got, is at most `actual`, and a reader in a call holds at least its last result.
  - Lemma `ActualGrows`: `actual` never decreases.
  - Lemma `MonoReadsStep` turns the invariant into the action property.

### `SnapshotLoadProofs`

The theorems assume `LoadBoundsAssumption`: positive bounds, and mapping files that are sequences of naturals (a cell holds a `uint32` field or a byte).

- **`LoadTypeCorrect`** (`Spec => []TypeOK`).
  - Inductive invariant `LoadTypeInv`: `TypeOK`, plus the file is one of `Files` and is not `Missing` in the loop, `totalCount` is a natural, and the loop counter is 0 before the count is read. The resize `storage_.resize(totalCount)` needs the last fact, since `storage_[i]` must be below the count.
  - Lemma `AfterReadType`: a read, short or not, keeps the position inside the file.
- **`OkSnapshotInBounds`** (`Spec => []OkTableInBounds`). A snapshot reported OK has passed all seven Index checks and holds 1..`MaxTotalCount` records of 1..`MaxStrLen` bytes. This is the half of `SnapshotOkIffLoaded` that needs no induction over the file.
  - Inductive invariant `OkInv`, which adds these facts:
    - every record read so far is in bounds;
    - the status stays `IN_PROGRESS` while the Mapping loader runs;
    - a loader that is done with status `IN_PROGRESS` or `OK` read every record of a count in bounds;
    - `ipc = 0` (an Index failure) means `INVALID_INDEX`.
  - The proof shows that no failure is ever overwritten by the promotion to `OK`.

### `AnnLookupResultProofs`

The theorems assume `LookupAssumption`. Besides types, it says:
- `TopCount # 0`, because the keeper rejects such a snapshot (`snapshot_keeper.cc:91`) before it can become active;
- a request is a list of keys or `NoList`;
- the Mapping is a sequence of strings.

- **`LookupTypeCorrect`** (`Spec => []TypeOK`).
- **`LookupKeyIsolation`** (`Spec => []KeyIsolation`), for every request, every iteration order and every engine answer.
  - Inductive invariant `LookupInv`. Once past the early returns:
    - row `p` of `results` is `Row(answer[order[p]])` if Search has visited position `p` and its key is well formed, and the pre-filled `AllCap` otherwise (`RowsInv`);
    - `answer` covers exactly the well-formed keys visited (`AnswersInv`);
    - `retVal` holds, for each of the first `i` keys of the order, the translation of that key's row (`RetValInv`).
  - Lemma `OrderEnumerates`: an iteration order lists every key of the request exactly once. It uses `FS_Surjection` and `FS_Injection` from FiniteSetTheorems. The translation loop's emplace therefore never meets a key already there.
  - Lemmas `TranslatedRow` and `TranslatedAllCap` say what the translation loop makes of a searched row and of an untouched row.
  - One lemma per action (`SearchKeyInv`, `TranslateKeyInv`, ...) shows that the turn of a loop changes only position `i + 1`.

### `SnapshotContainerProofs`

- **`ContainerTypeCorrect`** (`Spec => []TypeOK`), for every bound and every container that `ContainerBoundsAssumption` admits.
  - What it shows:
    - `filesCount` stays in `0..kMaxFilesCount`, because it is range-checked before it is stored;
    - the loop counter `i` never passes `filesCount`;
    - `fileSize`'s countdown in the chunk loop never goes below 0, because each turn takes `min(fileSize, kRWBufferSize)`;
    - the stream position stays inside the container, even after a short read;
    - only the four well-known names set a Config path, and they set it to `destination / name`.
  - `ContainerBoundsAssumption` includes `Containers \subseteq Seq(Nat)`: every cell is an unsigned field or a byte.
  - Inductive invariant `ContTypeInv` adds three facts to `TypeOK`:
    - the container is a sequence of naturals;
    - `i = 0` until `filesCount` is read;
    - `i < filesCount` inside a loop turn (`Size`, `Copy`).

    `TypeOK` alone is not inductive: the copy loop's `++i` stays within `filesCount` only because the turn began below it.
  - Lemmas `AfterReadType`, `ShortReadType` and `CellType` give the stream's state after a full or short read.
- **`CopyCorrect`** (`Spec => []CopiedAsDeclared`), for every container, every buffer size and every bound.
  - Inductive invariant `CopyInv`: `ContTypeInv`, `CopiedAsDeclared`, and the open file is a sequence of naturals.
  - `ReadFileSize` opens an empty file just after the size field, so nothing is written yet and the whole size is left.
  - A `CopyChunk` turn appends `SubSeq(input, pos + 1, pos + n)` and advances `pos` by `n`, with `n = min(fileSize, kRWBufferSize)`. The written and left counts move by `n` in opposite directions. `ConcatAdjacentSubSeq` from SequenceTheorems joins the old content and the chunk into one subsequence.
  - The mutant that leaves `fileSize -= kRWBufferSize` out of the while loop breaks the property.

Every invariant was first checked with TLC as an invariant of the runs.

### Only model-checked

TLAPS cannot prove these, and TLC checks them:
- **Liveness**: TLAPS handles neither fairness nor ENABLED. The one liveness property, `EventuallyReclaimed`, is a violation run.
- **Properties over recursive decodings**: `SnapshotOkIffLoaded` and `ContainerUnpacked`. They compare the state with the recursive reference decodings of spec sections 4.1 and 4.4 (`EncodeTable`/`FlattenSeq`, `Ends`). What those compute for every input needs induction over data, and the provers cannot even unfold the recursive function `Ends`. `OkSnapshotInBounds` proves the part of `SnapshotOkIffLoaded` that needs no such induction. `CopyCorrect` proves the per-member core of `ContainerUnpacked`: what the copy loop writes for one member.

The runs under the atomic-copy hypothesis are only model-checked: `NoUseAfterFree` and `KeeperRefinesAbstract` in `keeper_atomic`. The hook's `HookNoUseAfterFree` with one `FinishInit` is also only model-checked: nothing in the code limits `FinishInit` to one call, so a theorem assuming one would prove little.

The violation runs are TLC's counterexamples and have nothing to prove: `NoUseAfterFree` without an atomic copy, `DirectoryOwnership` with a `""` name, `EventuallyReclaimed`, `FirstFailureReported`, `NoWriteOutsideFolder`, and `HookNoUseAfterFree` with a second `FinishInit`.

## Not modelled

- **Crash and restart.** The keeper's constructor does `remove_all(root)`, so a restart begins from an empty snapshots folder, and nothing survives a crash. The spec says nothing about restart.
- **`gRWBuffer`.** `HandleIncomingSnapshot` uses a static buffer. Only the one notifier thread ever calls it, so the buffer is never shared and there is nothing to model.
- **DiskANN.** The library's internals are abstracted to success or failure (`SnapshotLoad`) and to the set of possible answers (`AnnLookupResult`).
- **JSON and presentation.** The JSON text of `config.json` is abstracted to a parsed document (`Jsons`). Metrics, logging, the UDF sandbox, the notifier and the platform glue are also left out (see `PROJECT.json` `components`).
