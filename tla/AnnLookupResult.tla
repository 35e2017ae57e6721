---------------------------- MODULE AnnLookupResult ----------------------------
(***************************************************************************)
(* One getNearestNeighbors request on the lookup path: the UDF hook's      *)
(* checks (microsoft_get_nearest_neighbors_hook.cc), AnnLookup's           *)
(* GetKeyValueSet (microsoft_ann_lookup.cc), ANNIndex::GetKeyValueSet      *)
(* (index.cc) and ANNSnapshotIndex::Search (snapshot_index.cc), against    *)
(* the active snapshot.                                                    *)
(*                                                                         *)
(* Both loops of ANNIndex::GetKeyValueSet iterate the same flat_hash_set,  *)
(* so they see its keys in the same order, which the model leaves open.    *)
(* The DiskANN engine is a nondeterministic answer: for a key of the right *)
(* size it writes min(TopCount, Points) distinct labels of its Points     *)
(* points to the front of the key's row.  A string the Mapping returns is  *)
(* the Mapping's record for that id.                                       *)
(***************************************************************************)
EXTENDS Integers, Sequences, SequencesExt

CONSTANTS
    Keys,           \* the keys a request may carry
    KeyLen,         \* key -> its size in bytes
    Requests,       \* the requests: a sequence of keys, or NoList
    NoList,         \* a request without an input list of strings
    Dimension, VectorTypeStr, TopCount,  \* the active snapshot's Config
    Points,         \* the number of points in its index
    Storage         \* its Mapping: id -> record, for ids 0..capacity-1

ASSUME LookupAssumption ==
    /\ KeyLen \in [Keys -> Nat]
    /\ {Dimension, TopCount, Points} \subseteq Nat
    /\ TopCount # 0      \* the keeper rejects a snapshot whose TopCount is 0
    /\ Requests \subseteq Seq(Keys) \cup {NoList}
    /\ Storage \in Seq(STRING)
    /\ VectorTypeStr \in {"uint8", "int8", "float"}

VARIABLES
    req,        \* the request being served
    hasSnapshot,  \* keeper_.HasANNSnapshots() when the request reads it
    pc,         \* where the request is
    order,      \* the iteration order of the key set
    results,    \* results: one row of TopCount ids per key, by position
    i,          \* the position both loops have reached
    retVal,     \* the map ANNIndex::GetKeyValueSet builds
    answer,     \* what the engine answered for each key (for the properties)
    output      \* what the hook writes to the request's io proto

vars == <<req, hasSnapshot, pc, order, results, i, retVal, answer, output>>

Capacity == Len(Storage)                \* Mapping.GetCapacity()

\* sizeof(T) for the vector type
ElemSize == IF VectorTypeStr = "float" THEN 4 ELSE 1

NotFound == [status |-> "NotFound"]     \* a key's kNotFound status
Values(v) == [values |-> v]             \* a key's keyset_values

\* retVal->emplace(key, ...): the map extended with a new key (the keys of a
\* flat_hash_set are distinct, so the key is never already there)
Emplace(m, k, v) == [x \in DOMAIN m \cup {k} |-> IF x \in DOMAIN m THEN m[x] ELSE v]

\* the engine's possible answers: distinct labels, as many as it can find
Answers == LET n == IF TopCount < Points THEN TopCount ELSE Points
           IN {a \in [1..n -> 0..(Points - 1)] : IsInjective(a)}

Init ==
    /\ req \in Requests
    /\ hasSnapshot \in BOOLEAN
    /\ pc = "Hook"
    /\ order = <<>> /\ results = <<>> /\ i = 0
    /\ retVal = <<>> /\ answer = <<>>
    /\ output = [code |-> "None"]

\* Mutant: one row per input string rather than per distinct key.
StartRequestRowsPerInput ==
    /\ pc = "Hook"
    /\ \/ /\ req \in {NoList, <<>>}
          /\ output' = [code |-> "InvalidArgument"]
          /\ pc' = "Done" /\ UNCHANGED <<order, results>>
       \/ /\ req \notin {NoList, <<>>} /\ ~hasSnapshot
          /\ output' = [code |-> "Internal"]
          /\ pc' = "Done" /\ UNCHANGED <<order, results>>
       \/ /\ req \notin {NoList, <<>>} /\ hasSnapshot
          /\ order' \in SetToSeqs(ToSet(req))
          /\ results' = [p \in 1..Len(req) |-> [t \in 1..TopCount |-> Capacity]]
          /\ pc' = "Search" /\ UNCHANGED output
    /\ UNCHANGED <<req, hasSnapshot, i, retVal, answer>>

\* GetNearestNeighborsHookImpl::operator(): the input must be a non-empty
\* list of strings, checked in that order; the keys go into a flat_hash_set.
\* AnnLookup and ANNIndex::GetKeyValueSet then return early without a snapshot, or
\* pre-fill one row per key with the capacity.
StartRequest ==
    /\ pc = "Hook"
    /\ \/ /\ req \in {NoList, <<>>}
          /\ output' = [code |-> "InvalidArgument"]
          /\ pc' = "Done" /\ UNCHANGED <<order, results>>
       \/ /\ req \notin {NoList, <<>>} /\ ~hasSnapshot
          /\ output' = [code |-> "Internal"]
          /\ pc' = "Done" /\ UNCHANGED <<order, results>>
       \/ /\ req \notin {NoList, <<>>} /\ hasSnapshot
          /\ order' \in SetToSeqs(ToSet(req))
          /\ results' = [p \in 1..Len(order') |-> [t \in 1..TopCount |-> Capacity]]
          /\ pc' = "Search" /\ UNCHANGED output
    /\ UNCHANGED <<req, hasSnapshot, i, retVal, answer>>

\* One turn of Search's loop: a key of size sizeof(T) * Dimension is
\* searched into results[i]; any other key is skipped; i advances.
SearchKey ==
    /\ pc = "Search" /\ i < Len(order)
    /\ LET key == order[i + 1] IN
       IF KeyLen[key] = ElemSize * Dimension
       THEN \E a \in Answers :
              /\ results' = [results EXCEPT ![i + 1] =
                               [t \in 1..TopCount |-> IF t <= Len(a) THEN a[t] ELSE @[t]]]
              /\ answer' = Emplace(answer, key, a)
       ELSE UNCHANGED <<results, answer>>
    /\ i' = i + 1
    /\ UNCHANGED <<req, hasSnapshot, pc, order, retVal, output>>

\* Search returns; the second loop starts over the same set.
SearchDone ==
    /\ pc = "Search" /\ i = Len(order)
    /\ pc' = "Translate" /\ i' = 0
    /\ UNCHANGED <<req, hasSnapshot, order, results, retVal, answer, output>>

\* Mutant: an id >= capacity is skipped instead of emptying the list.
TranslateKeySkipBad ==
    /\ pc = "Translate" /\ i < Len(order)
    /\ LET row == results[i + 1] IN
       retVal' = Emplace(retVal, order[i + 1],
                   LET kept == SelectSeq(row, LAMBDA id : id < Capacity)
                   IN  [t \in DOMAIN kept |-> Storage[kept[t] + 1]])
    /\ i' = i + 1
    /\ UNCHANGED <<req, hasSnapshot, pc, order, results, answer, output>>

\* One turn of the translation loop: the key is emplaced and its row is
\* results[retVal->size() - 1]; an id >= capacity empties the key's list,
\* otherwise each id becomes Mapping.GetStr(id).
TranslateKey ==
    /\ pc = "Translate" /\ i < Len(order)
    /\ LET row == results[i + 1] IN
       retVal' = Emplace(retVal, order[i + 1],
                   IF \E t \in DOMAIN row : row[t] >= Capacity THEN <<>>
                   ELSE [t \in DOMAIN row |-> Storage[row[t] + 1]])
    /\ i' = i + 1
    /\ UNCHANGED <<req, hasSnapshot, pc, order, results, answer, output>>

\* AnnLookup::GetKeyValueSet: a key with an empty list gets kNotFound; the
\* hook writes the response.
Respond ==
    /\ pc = "Translate" /\ i = Len(order)
    /\ output' = [code |-> "Ok",
                   kv |-> [k \in DOMAIN retVal |-> IF retVal[k] = <<>> THEN NotFound
                                                   ELSE Values(retVal[k])]]
    /\ pc' = "Done"
    /\ UNCHANGED <<req, hasSnapshot, order, results, i, retVal, answer>>

Next == StartRequest \/ SearchKey \/ SearchDone \/ TranslateKey \/ Respond

Spec == Init /\ [][Next]_vars /\ WF_vars(Next)

-----------------------------------------------------------------------------
WellFormed(k) == KeyLen[k] = ElemSize * Dimension

TypeOK ==
    /\ pc \in {"Hook", "Search", "Translate", "Done"}
    /\ i \in 0..Len(order)
    /\ results \in Seq([1..TopCount -> Nat])
    /\ Len(results) = Len(order)

(* Every key of a served request gets what the engine answered for that   *)
(* key, through the Mapping, when that answer is a full row of ids the    *)
(* Mapping holds, and kNotFound otherwise; a malformed key gets kNotFound *)
(* and no key gets another key's row.  Search and the translation loop    *)
(* find a key's row by position, so this rests on both loops counting     *)
(* every key, searched or skipped, in the same order.                      *)
KeyIsolation ==
    pc = "Done" /\ output.code = "Ok" =>
        /\ DOMAIN output.kv = ToSet(req)
        /\ \A k \in DOMAIN output.kv :
              output.kv[k] = IF /\ WellFormed(k)
                             /\ Len(answer[k]) = TopCount
                             /\ \A t \in DOMAIN answer[k] : answer[k][t] < Capacity
                          THEN Values([t \in 1..TopCount |-> Storage[answer[k][t] + 1]])
                          ELSE NotFound
=============================================================================
