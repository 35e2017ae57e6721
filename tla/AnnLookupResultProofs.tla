------------------------- MODULE AnnLookupResultProofs -------------------------
(***************************************************************************)
(* Proofs about one getNearestNeighbors request (AnnLookupResult), for     *)
(* every set of keys, every request, every snapshot Config with a TopCount *)
(* the keeper accepts, and every Mapping.                                  *)
(*                                                                         *)
(* KeyIsolation is about the end of the request, but what makes it true is *)
(* a correspondence kept by every turn of both loops: row p of results     *)
(* belongs to the p-th key of the iteration order (searched or skipped),   *)
(* and retVal holds, for each key emplaced so far, the translation of that *)
(* row.  The order is a duplicate-free enumeration of the request's keys,  *)
(* so the key a turn emplaces is never one already there.  LookupInv       *)
(* states this correspondence.                                             *)
(***************************************************************************)
EXTENDS AnnLookupResult, FiniteSetTheorems, SequenceTheorems, TLAPS

\* a row as ANNIndex::GetKeyValueSet pre-fills it
AllCap == [t \in 1..TopCount |-> Capacity]

\* the row Search leaves after the engine wrote answer a over AllCap
Row(a) == [t \in 1..TopCount |-> IF t <= Len(a) THEN a[t] ELSE Capacity]

\* what the translation loop emplaces for a row
Translated(row) ==
    IF \E t \in DOMAIN row : row[t] >= Capacity THEN <<>>
    ELSE [t \in DOMAIN row |-> Storage[row[t] + 1]]

\* how many keys Search has visited, and how many the second loop emplaced
Searched == IF pc = "Search" THEN i ELSE Len(order)
Emplaced == CASE pc = "Search" -> 0 [] pc = "Translate" -> i [] OTHER -> Len(order)

\* the request got past the hook's and the index's early returns
Served == pc \in {"Search", "Translate"} \/ (pc = "Done" /\ output.code = "Ok")

\* row p of results, as Search has left it so far
RowOf(p) == IF p <= Searched /\ WellFormed(order[p])
            THEN Row(answer[order[p]]) ELSE AllCap

\* the response the hook writes for the map ANNIndex returned
Response == [code |-> "Ok",
             kv |-> [k \in DOMAIN retVal |->
                       IF retVal[k] = <<>> THEN NotFound ELSE Values(retVal[k])]]

RowsInv == results = [p \in 1..Len(order) |-> RowOf(p)]

AnswersInv ==
    /\ DOMAIN answer = {order[p] : p \in {q \in 1..Searched : WellFormed(order[q])}}
    /\ \A k \in DOMAIN answer : answer[k] \in Answers

RetValInv ==
    /\ DOMAIN retVal = {order[p] : p \in 1..Emplaced}
    /\ \A p \in 1..Emplaced : retVal[order[p]] = Translated(results[p])

ServedInv ==
    /\ req \in Seq(Keys)
    /\ order \in SetToSeqs(ToSet(req))
    /\ i \in 0..Len(order)
    /\ pc = "Done" => i = Len(order) /\ output = Response
    /\ RowsInv
    /\ AnswersInv
    /\ RetValInv

LookupInv ==
    /\ pc \in {"Hook", "Search", "Translate", "Done"}
    /\ req \in Requests
    /\ ~Served => order = <<>> /\ results = <<>> /\ i = 0
    /\ pc = "Hook" => retVal = <<>> /\ answer = <<>>
    /\ pc # "Done" => output = [code |-> "None"]
    /\ Served => ServedInv

-----------------------------------------------------------------------------
(* flat_hash_set's iteration order over the request's keys (SetToSeqs):   *)
(* a sequence of keys that lists every key of the request exactly once.    *)
LEMMA OrderEnumerates ==
    ASSUME NEW s \in Seq(Keys), NEW o \in SetToSeqs(ToSet(s))
    PROVE  /\ o \in Seq(Keys)
           /\ {o[p] : p \in 1..Len(o)} = ToSet(s)
           /\ \A p, q \in 1..Len(o) : p # q => o[p] # o[q]
<1>. DEFINE T == ToSet(s)
<1>. DEFINE n == Cardinality(T)
<1>1. Len(s) \in Nat /\ s \in [1..Len(s) -> Keys] /\ DOMAIN s = 1..Len(s)
  BY LenProperties
<1>2. T \subseteq Keys /\ s \in Surjection(1..Len(s), T)
  BY <1>1 DEF ToSet, Surjection
<1>3. IsFiniteSet(T)
  BY <1>1, <1>2, FS_Interval, FS_Surjection
<1>4. n \in Nat
  BY <1>3, FS_CardinalityType
<1>5. o \in [1..n -> T] /\ \A p, q \in 1..n : p # q => o[p] # o[q]
  BY DEF SetToSeqs
<1>6. o \in Seq(Keys) /\ Len(o) = n
  <2>1. o \in [1..n -> Keys]
    BY <1>2, <1>5
  <2>2. o \in Seq(Keys)
    BY <1>4, <2>1, SeqDef
  <2>3. DOMAIN o = 1..Len(o) /\ Len(o) \in Nat
    BY <2>2, LenProperties
  <2>. QED
    BY <1>4, <1>5, <2>2, <2>3
<1>7. o \in Surjection(1..n, T)
  <2>1. o \in Injection(1..n, T)
    BY <1>5 DEF Injection, IsInjective
  <2>2. Cardinality(1..n) = n
    BY <1>4, FS_Interval
  <2>. QED
    BY <1>3, <2>1, <2>2, FS_Injection
<1>8. {o[p] : p \in 1..Len(o)} = T
  BY <1>5, <1>6, <1>7 DEF Surjection
<1>. QED
  BY <1>5, <1>6, <1>8

\* the Config and Mapping values the lemmas below rest on
LEMMA ConstantsType ==
    /\ Capacity \in Nat
    /\ TopCount \in Nat \ {0}
    /\ Points \in Nat /\ Dimension \in Nat
<1>1. Storage \in Seq(STRING)
  BY LookupAssumption
<1>2. Capacity \in Nat
  BY <1>1, LenProperties DEF Capacity
<1>. QED
  BY <1>2, LookupAssumption

(* A row Search never wrote (a skipped key's) is cleared by the            *)
(* translation loop: the pre-filled capacity is out of the Mapping.        *)
LEMMA TranslatedAllCap == Translated(AllCap) = <<>>
<1>1. 1 \in DOMAIN AllCap /\ AllCap[1] >= Capacity
  BY ConstantsType DEF AllCap
<1>. QED
  BY <1>1 DEF Translated

(* The translation of a searched row: the Mapping's records for the        *)
(* engine's labels when the engine wrote TopCount labels, all in the       *)
(* Mapping; otherwise the empty list.                                      *)
LEMMA TranslatedRow ==
    ASSUME NEW a \in Answers
    PROVE  Translated(Row(a)) =
             IF Len(a) = TopCount /\ \A t \in DOMAIN a : a[t] < Capacity
             THEN [t \in 1..TopCount |-> Storage[a[t] + 1]] ELSE <<>>
<1>0. Capacity \in Nat /\ TopCount \in Nat \ {0} /\ Points \in Nat
  BY ConstantsType
<1>. DEFINE m == IF TopCount < Points THEN TopCount ELSE Points
<1>1. a \in [1..m -> 0..(Points - 1)] /\ m \in 0..TopCount
  BY <1>0 DEF Answers
<1>2. Len(a) = m /\ DOMAIN a = 1..m
  <2>1. a \in Seq(Nat)
    BY <1>1, SeqDef
  <2>2. DOMAIN a = 1..Len(a) /\ Len(a) \in Nat
    BY <2>1, LenProperties
  <2>. QED
    BY <1>1, <2>2
<1>3. CASE Len(a) = TopCount /\ \A t \in DOMAIN a : a[t] < Capacity
  <2>1. Row(a) = [t \in 1..TopCount |-> a[t]]
    BY <1>2, <1>3 DEF Row
  <2>2. ~\E t \in DOMAIN Row(a) : Row(a)[t] >= Capacity
    BY <1>0, <1>1, <1>2, <1>3, <2>1
  <2>. QED
    BY <1>3, <2>1, <2>2 DEF Translated
<1>4. CASE Len(a) # TopCount
  <2>1. m + 1 \in DOMAIN Row(a) /\ Row(a)[m + 1] = Capacity
    BY <1>0, <1>1, <1>2, <1>4 DEF Row
  <2>. QED
    BY <1>0, <1>4, <2>1 DEF Translated
<1>5. CASE \E t \in DOMAIN a : a[t] >= Capacity
  <2>1. PICK t \in DOMAIN a : a[t] >= Capacity
    BY <1>5
  <2>2. t \in DOMAIN Row(a) /\ Row(a)[t] = a[t]
    BY <1>0, <1>1, <1>2, <2>1 DEF Row
  <2>3. ~(\A u \in DOMAIN a : a[u] < Capacity)
    BY <1>0, <1>1, <2>1
  <2>. QED
    BY <2>1, <2>2, <2>3 DEF Translated
<1>. QED
  BY <1>0, <1>1, <1>3, <1>4, <1>5

-----------------------------------------------------------------------------
LEMMA LookupInvInit == Init => LookupInv
  BY LookupAssumption DEF Init, LookupInv, Served

(* The hook's and the index's early returns leave nothing served; past     *)
(* them, the index pre-fills a row per key of the iteration order.         *)
LEMMA StartRequestInv ==
    ASSUME LookupInv, StartRequest
    PROVE  LookupInv'
<1>0. /\ pc = "Hook" /\ ~Served /\ req \in Requests
      /\ order = <<>> /\ results = <<>> /\ i = 0 /\ retVal = <<>> /\ answer = <<>>
      /\ UNCHANGED <<req, hasSnapshot, i, retVal, answer>>
  BY DEF StartRequest, LookupInv, Served
<1>1. CASE /\ req \in {NoList, <<>>}
           /\ output' = [code |-> "InvalidArgument"]
           /\ pc' = "Done" /\ UNCHANGED <<order, results>>
  BY <1>0, <1>1 DEF LookupInv, Served
<1>2. CASE /\ req \notin {NoList, <<>>} /\ ~hasSnapshot
           /\ output' = [code |-> "Internal"]
           /\ pc' = "Done" /\ UNCHANGED <<order, results>>
  BY <1>0, <1>2 DEF LookupInv, Served
<1>3. CASE /\ req \notin {NoList, <<>>} /\ hasSnapshot
           /\ order' \in SetToSeqs(ToSet(req))
           /\ results' = [p \in 1..Len(order') |-> [t \in 1..TopCount |-> Capacity]]
           /\ pc' = "Search" /\ UNCHANGED output
  <2>1. req \in Seq(Keys)
    BY <1>0, <1>3, LookupAssumption
  <2>2. order' \in Seq(Keys) /\ Len(order') \in Nat
    BY <1>3, <2>1, OrderEnumerates, LenProperties
  <2>3. Served' /\ Searched' = 0 /\ Emplaced' = 0
    BY <1>0, <1>3 DEF Served, Searched, Emplaced
  <2>4. RowsInv'
    BY <1>3, <2>3 DEF RowsInv, RowOf, AllCap
  <2>5. AnswersInv'
    BY <1>0, <2>3 DEF AnswersInv
  <2>6. RetValInv'
    BY <1>0, <2>3 DEF RetValInv
  <2>. QED
    BY <1>0, <1>3, <2>1, <2>2, <2>3, <2>4, <2>5, <2>6 DEF LookupInv, ServedInv
<1>. QED
  BY <1>1, <1>2, <1>3 DEF StartRequest

(* Search returns and the translation loop starts from the first key.      *)
LEMMA SearchDoneInv ==
    ASSUME LookupInv, SearchDone
    PROVE  LookupInv'
<1>0. /\ pc = "Search" /\ i = Len(order) /\ pc' = "Translate" /\ i' = 0
      /\ UNCHANGED <<req, hasSnapshot, order, results, retVal, answer, output>>
  BY DEF SearchDone
<1>1. Served /\ Served' /\ ServedInv
  BY <1>0 DEF Served, LookupInv
<1>2. Searched' = Searched /\ Emplaced = 0 /\ Emplaced' = 0
  BY <1>0 DEF Searched, Emplaced
<1>3. RowsInv' /\ AnswersInv'
  BY <1>0, <1>1, <1>2 DEF ServedInv, RowsInv, RowOf, AnswersInv
<1>4. RetValInv'
  BY <1>0, <1>1, <1>2 DEF ServedInv, RetValInv
<1>5. i' \in 0..Len(order')
  BY <1>0, <1>1 DEF ServedInv
<1>. QED
  BY <1>0, <1>1, <1>3, <1>4, <1>5 DEF LookupInv, ServedInv

(* The hook writes the response for the whole map.                          *)
LEMMA RespondInv ==
    ASSUME LookupInv, Respond
    PROVE  LookupInv'
<1>0. /\ pc = "Translate" /\ i = Len(order) /\ pc' = "Done"
      /\ output' = Response
      /\ UNCHANGED <<req, hasSnapshot, order, results, i, retVal, answer>>
  BY DEF Respond, Response
<1>1. Served /\ Served' /\ ServedInv
  BY <1>0 DEF Served, LookupInv, Response
<1>2. Searched' = Searched /\ Emplaced' = Emplaced /\ Response' = Response
  BY <1>0 DEF Searched, Emplaced, Response
<1>3. RowsInv' /\ AnswersInv' /\ RetValInv'
  BY <1>0, <1>1, <1>2 DEF ServedInv, RowsInv, RowOf, AnswersInv, RetValInv
<1>. QED
  BY <1>0, <1>1, <1>2, <1>3 DEF LookupInv, ServedInv

(* One turn of Search's loop writes the row of the key at position i + 1,  *)
(* and only that row; the key has no answer yet since the order repeats    *)
(* no key.                                                                 *)
LEMMA SearchKeyInv ==
    ASSUME LookupInv, SearchKey
    PROVE  LookupInv'
<1>0. /\ pc = "Search" /\ i < Len(order) /\ i' = i + 1
      /\ UNCHANGED <<req, hasSnapshot, pc, order, retVal, output>>
  BY DEF SearchKey
<1>1. Served /\ Served' /\ ServedInv
  BY <1>0 DEF Served, LookupInv
<1>2. /\ order \in Seq(Keys) /\ Len(order) \in Nat
      /\ \A p, q \in 1..Len(order) : p # q => order[p] # order[q]
      /\ i \in Nat /\ i + 1 \in 1..Len(order)
  BY <1>0, <1>1, OrderEnumerates, LenProperties DEF ServedInv
<1>3. Searched = i /\ Searched' = i + 1 /\ Emplaced = 0 /\ Emplaced' = 0
  BY <1>0 DEF Searched, Emplaced
<1>. DEFINE key == order[i + 1]
<1>4. results[i + 1] = AllCap /\ DOMAIN results = 1..Len(order)
  BY <1>1, <1>2, <1>3 DEF ServedInv, RowsInv, RowOf
<1>5. \A p \in 1..i : order[p] # key
  BY <1>2
<1>6. RetValInv'
  BY <1>0, <1>1, <1>3 DEF ServedInv, RetValInv
<1>7. CASE WellFormed(key)
  <2>1. PICK a \in Answers :
          /\ results' = [results EXCEPT ![i + 1] =
                           [t \in 1..TopCount |-> IF t <= Len(a) THEN a[t]
                                                  ELSE results[i + 1][t]]]
          /\ answer' = Emplace(answer, key, a)
    BY <1>0, <1>7 DEF SearchKey, WellFormed
  <2>2. results'[i + 1] = Row(a) /\ DOMAIN results' = 1..Len(order)
        /\ \A p \in 1..Len(order) : p # i + 1 => results'[p] = results[p]
    BY <1>2, <1>4, <2>1 DEF Row, AllCap
  <2>3. key \notin DOMAIN answer
    BY <1>1, <1>3, <1>5 DEF ServedInv, AnswersInv
  <2>4. /\ DOMAIN answer' = DOMAIN answer \cup {key}
        /\ answer'[key] = a
        /\ \A x \in DOMAIN answer : answer'[x] = answer[x]
    BY <2>1, <2>3 DEF Emplace
  <2>5. RowsInv'
    <3>1. ASSUME NEW p \in 1..Len(order) PROVE results'[p] = RowOf(p)'
      <4>1. CASE p = i + 1
        BY <1>0, <1>3, <1>7, <2>2, <2>4, <4>1 DEF RowOf
      <4>2. CASE p # i + 1 /\ p <= i /\ WellFormed(order[p])
        <5>1. order[p] \in DOMAIN answer
          BY <1>1, <1>2, <1>3, <4>2 DEF ServedInv, AnswersInv
        <5>. QED
          BY <1>0, <1>1, <1>2, <1>3, <2>2, <2>4, <4>2, <5>1
          DEF ServedInv, RowsInv, RowOf
      <4>3. CASE p # i + 1 /\ ~(p <= i /\ WellFormed(order[p]))
        BY <1>0, <1>1, <1>2, <1>3, <2>2, <4>3 DEF ServedInv, RowsInv, RowOf
      <4>. QED
        BY <4>1, <4>2, <4>3
    <3>. QED
      BY <1>0, <2>1, <2>2, <3>1 DEF RowsInv
  <2>6. AnswersInv'
    <3>1. DOMAIN answer' = {order[p] : p \in {q \in 1..(i + 1) : WellFormed(order[q])}}
      BY <1>1, <1>2, <1>3, <1>7, <2>4 DEF ServedInv, AnswersInv
    <3>2. \A k \in DOMAIN answer' : answer'[k] \in Answers
      BY <1>1, <2>4 DEF ServedInv, AnswersInv
    <3>. QED
      BY <1>0, <1>3, <3>1, <3>2 DEF AnswersInv
  <2>. QED
    BY <1>0, <1>1, <1>2, <1>6, <2>5, <2>6 DEF LookupInv, ServedInv
<1>8. CASE ~WellFormed(key)
  <2>1. UNCHANGED <<results, answer>>
    BY <1>0, <1>8 DEF SearchKey, WellFormed
  <2>2. RowsInv'
    <3>1. ASSUME NEW p \in 1..Len(order) PROVE results[p] = RowOf(p)'
      BY <1>0, <1>1, <1>2, <1>3, <1>4, <1>8, <2>1 DEF ServedInv, RowsInv, RowOf
    <3>. QED
      BY <1>0, <1>1, <2>1, <3>1 DEF ServedInv, RowsInv
  <2>3. AnswersInv'
    <3>1. {q \in 1..(i + 1) : WellFormed(order[q])} = {q \in 1..i : WellFormed(order[q])}
      BY <1>2, <1>8
    <3>. QED
      BY <1>0, <1>1, <1>3, <2>1, <3>1 DEF ServedInv, AnswersInv
  <2>. QED
    BY <1>0, <1>1, <1>2, <1>6, <2>2, <2>3 DEF LookupInv, ServedInv
<1>. QED
  BY <1>7, <1>8

(* One turn of the translation loop emplaces the key at position i + 1     *)
(* with the translation of row i + 1, and leaves the keys already there.   *)
LEMMA TranslateKeyInv ==
    ASSUME LookupInv, TranslateKey
    PROVE  LookupInv'
<1>0. /\ pc = "Translate" /\ i < Len(order) /\ i' = i + 1
      /\ retVal' = Emplace(retVal, order[i + 1], Translated(results[i + 1]))
      /\ UNCHANGED <<req, hasSnapshot, pc, order, results, answer, output>>
  BY DEF TranslateKey, Translated
<1>1. Served /\ Served' /\ ServedInv
  BY <1>0 DEF Served, LookupInv
<1>2. /\ order \in Seq(Keys) /\ Len(order) \in Nat
      /\ \A p, q \in 1..Len(order) : p # q => order[p] # order[q]
      /\ i \in Nat /\ i + 1 \in 1..Len(order)
  BY <1>0, <1>1, OrderEnumerates, LenProperties DEF ServedInv
<1>3. Searched' = Searched /\ Emplaced = i /\ Emplaced' = i + 1
  BY <1>0 DEF Searched, Emplaced
<1>4. RowsInv' /\ AnswersInv'
  BY <1>0, <1>1, <1>3 DEF ServedInv, RowsInv, RowOf, AnswersInv
<1>5. order[i + 1] \notin DOMAIN retVal
  BY <1>1, <1>2, <1>3 DEF ServedInv, RetValInv
<1>6. /\ DOMAIN retVal' = DOMAIN retVal \cup {order[i + 1]}
      /\ retVal'[order[i + 1]] = Translated(results[i + 1])
      /\ \A x \in DOMAIN retVal : retVal'[x] = retVal[x]
  BY <1>0, <1>5 DEF Emplace
<1>7. RetValInv'
  <2>1. DOMAIN retVal' = {order[p] : p \in 1..(i + 1)}
    BY <1>1, <1>2, <1>3, <1>6 DEF ServedInv, RetValInv
  <2>2. ASSUME NEW p \in 1..(i + 1)
        PROVE  retVal'[order[p]] = Translated(results[p])
    <3>1. CASE p = i + 1
      BY <1>6, <3>1
    <3>2. CASE p # i + 1
      <4>1. p \in 1..i /\ order[p] \in DOMAIN retVal
        BY <1>1, <1>2, <1>3, <3>2 DEF ServedInv, RetValInv
      <4>. QED
        BY <1>1, <1>3, <1>6, <4>1 DEF ServedInv, RetValInv
    <3>. QED
      BY <3>1, <3>2
  <2>. QED
    BY <1>0, <1>3, <2>1, <2>2 DEF RetValInv
<1>. QED
  BY <1>0, <1>1, <1>2, <1>4, <1>7 DEF LookupInv, ServedInv

LEMMA LookupInvStep == LookupInv /\ [Next]_vars => LookupInv'
<1> SUFFICES ASSUME LookupInv, [Next]_vars PROVE LookupInv'
  OBVIOUS
<1>1. CASE UNCHANGED vars
  BY <1>1 DEF vars, LookupInv, Served, ServedInv, Searched, Emplaced, RowsInv,
     RowOf, AnswersInv, RetValInv, Response
<1>. QED
  BY <1>1, StartRequestInv, SearchKeyInv, SearchDoneInv, TranslateKeyInv,
     RespondInv DEF Next

(* The correspondence, once both loops have run, is KeyIsolation.          *)
LEMMA LookupInvKeyIsolation == LookupInv => KeyIsolation
<1> SUFFICES ASSUME LookupInv, pc = "Done", output.code = "Ok"
             PROVE  /\ DOMAIN output.kv = ToSet(req)
                    /\ \A k \in DOMAIN output.kv :
                          output.kv[k] =
                            IF /\ WellFormed(k)
                               /\ Len(answer[k]) = TopCount
                               /\ \A t \in DOMAIN answer[k] : answer[k][t] < Capacity
                            THEN Values([t \in 1..TopCount |-> Storage[answer[k][t] + 1]])
                            ELSE NotFound
  BY DEF KeyIsolation
<1>1. ServedInv /\ Searched = Len(order) /\ Emplaced = Len(order)
  BY DEF LookupInv, Served, Searched, Emplaced
<1>2. /\ req \in Seq(Keys)
      /\ {order[p] : p \in 1..Len(order)} = ToSet(req)
      /\ output = Response
  BY <1>1, OrderEnumerates DEF ServedInv
<1>3. DOMAIN output.kv = DOMAIN retVal /\ DOMAIN retVal = ToSet(req)
  BY <1>1, <1>2 DEF Response, ServedInv, RetValInv
<1>4. ASSUME NEW k \in DOMAIN output.kv
      PROVE  output.kv[k] =
               IF /\ WellFormed(k)
                  /\ Len(answer[k]) = TopCount
                  /\ \A t \in DOMAIN answer[k] : answer[k][t] < Capacity
               THEN Values([t \in 1..TopCount |-> Storage[answer[k][t] + 1]])
               ELSE NotFound
  <2>1. PICK p \in 1..Len(order) : order[p] = k
    BY <1>2, <1>3
  <2>2. output.kv[k] = IF retVal[k] = <<>> THEN NotFound ELSE Values(retVal[k])
    BY <1>2, <1>3 DEF Response
  <2>3. retVal[k] = Translated(results[p])
    BY <1>1, <2>1 DEF ServedInv, RetValInv
  <2>4. results[p] = RowOf(p)
    BY <1>1 DEF ServedInv, RowsInv
  <2>5. CASE WellFormed(k)
    <3>1. k \in DOMAIN answer
      BY <1>1, <2>1, <2>5 DEF ServedInv, AnswersInv
    <3>2. answer[k] \in Answers /\ results[p] = Row(answer[k])
      BY <1>1, <2>1, <2>4, <2>5, <3>1 DEF ServedInv, AnswersInv, RowOf
    <3>3. [t \in 1..TopCount |-> Storage[answer[k][t] + 1]] # <<>>
      BY ConstantsType
    <3>. QED
      BY <2>2, <2>3, <2>5, <3>2, <3>3, TranslatedRow
  <2>6. CASE ~WellFormed(k)
    <3>1. results[p] = AllCap
      BY <1>1, <2>1, <2>4, <2>6 DEF RowOf
    <3>. QED
      BY <2>2, <2>3, <2>6, <3>1, TranslatedAllCap
  <2>. QED
    BY <2>5, <2>6
<1>. QED
  BY <1>3, <1>4

(* The rows the index works on have TopCount entries each, one row per     *)
(* key: a searched row holds the engine's labels and the capacity.         *)
LEMMA LookupInvTypeOK == LookupInv => TypeOK
<1> SUFFICES ASSUME LookupInv PROVE TypeOK
  OBVIOUS
<1>1. CASE ~Served
  BY <1>1 DEF LookupInv, TypeOK
<1>2. CASE Served
  <2>1. ServedInv
    BY <1>2 DEF LookupInv
  <2>2. Len(order) \in Nat
    BY <2>1, OrderEnumerates, LenProperties DEF ServedInv
  <2>3. \A p \in 1..Len(order) : RowOf(p) \in [1..TopCount -> Nat]
    <3>1. AllCap \in [1..TopCount -> Nat]
      BY ConstantsType DEF AllCap
    <3>2. ASSUME NEW a \in Answers PROVE Row(a) \in [1..TopCount -> Nat]
      BY ConstantsType DEF Answers, Row
    <3>3. ASSUME NEW p \in 1..Len(order), p <= Searched, WellFormed(order[p])
          PROVE  answer[order[p]] \in Answers
      BY <2>1, <3>3 DEF ServedInv, AnswersInv
    <3>. QED
      BY <3>1, <3>2, <3>3 DEF RowOf
  <2>4. results \in Seq([1..TopCount -> Nat]) /\ Len(results) = Len(order)
    <3>1. results \in [1..Len(order) -> [1..TopCount -> Nat]]
      BY <2>1, <2>3 DEF ServedInv, RowsInv
    <3>2. results \in Seq([1..TopCount -> Nat])
      BY <2>2, <3>1, SeqDef
    <3>. QED
      BY <2>2, <3>1, <3>2, LenProperties
  <2>. QED
    BY <2>1, <2>4 DEF LookupInv, ServedInv, TypeOK
<1>. QED
  BY <1>1, <1>2

(* For every request, every iteration order of its keys and every answer   *)
(* of the engine, the index keeps one row of TopCount entries per key.      *)
THEOREM LookupTypeCorrect == Spec => []TypeOK
  BY LookupInvInit, LookupInvStep, LookupInvTypeOK, PTL DEF Spec

(* For every request, every iteration order of the flat_hash_set and every *)
(* answer of the engine, each key of the request gets the Mapping's        *)
(* records for its own answer when that answer is a full row of ids the    *)
(* Mapping holds, and kNotFound otherwise: Search and the translation loop *)
(* pair a key with its row by position, and the pairing never slips.       *)
THEOREM LookupKeyIsolation == Spec => []KeyIsolation
  BY LookupInvInit, LookupInvStep, LookupInvKeyIsolation, PTL DEF Spec
=============================================================================
