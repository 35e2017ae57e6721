--------------------------- MODULE MC_SnapshotLoad ---------------------------
(* A snapshot built from every well-formed mapping file of up to two      *)
(* records of up to two bytes and every file one edit away from one: each *)
(* prefix, one extra trailing cell, and each cell replaced by 0 or by a   *)
(* value past its bound; and from a missing one.  Every combination of    *)
(* index files and engine outcome.                                         *)
EXTENDS SnapshotLoad

MCMaxTotalCount == 2
MCMaxStrLen == 2
MCChars == {0, 3}

\* the reference format, apart from the file set it is used to build
Format == INSTANCE SnapshotMapping WITH Files <- {}

WellFormed == {Format!EncodeTable(t) : t \in Format!ValidTables}

Edits(f) ==
    {SubSeq(f, 1, n) : n \in 0..(Len(f) - 1)}
    \cup {Append(f, c) : c \in {0, 1}}
    \cup {[f EXCEPT ![k] = v] : k \in DOMAIN f, v \in {0, 3}}

MCFiles == WellFormed \cup UNION {Edits(f) : f \in WellFormed}
=============================================================================
