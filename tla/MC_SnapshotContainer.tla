----------------------- MODULE MC_SnapshotContainer -----------------------
(* Cells and tokens are small integers.  Names: 1 "index", 2 "index.data", *)
(* 3 "mapping", 4 "config.json", 5 "x", 6 "..", 7 '/'; 10 is the root's    *)
(* name, 11 the snapshot's and 12 an older snapshot's.  The bounds are     *)
(* scaled: 4..5 members, names of up to 5 tokens, files of 2..3 cells, a  *)
(* 2-cell copy buffer (so a 3-cell file takes a chunk and a tail), and    *)
(* uint32_t as 16.                                                         *)
EXTENDS SnapshotContainer

MCRoot == << <<10>> >>
MCSnapshotName == <<11>>
MCPeerName == <<12>>
MCIndexName == <<1>>
MCIndexDataName == <<2>>
MCMappingName == <<3>>
MCConfigJsonName == <<4>>

\* config.json documents: JSON values are [type, val] records
U(n) == [type |-> "unsigned", val |-> n]
Str(t) == [type |-> "string", val |-> t]
Doc(d, t) == [Dimension |-> d, QueryNeighborsCount |-> U(4), TopCount |-> U(4),
              VectorTypeStr |-> t]
MCJsons == (1 :> Doc(U(4), Str("uint8"))) @@ (2 :> Doc(U(20), Str("uint8")))
           @@ (3 :> [null |-> TRUE])
           @@ (4 :> [QueryNeighborsCount |-> U(4), TopCount |-> U(4),
                     VectorTypeStr |-> Str("int8")])
           @@ (5 :> Doc(U(4), U(4))) @@ (6 :> Doc(U(0), Str("float")))
           @@ (7 :> Doc([type |-> "integer", val |-> -4], Str("int8")))
           @@ (8 :> Doc(U(4), Str("half")))

Member(name, content) == <<Len(name)>> \o name \o <<Len(content)>> \o content

Encode(ms) == <<9, Len(ms)>> \o FlattenSeq(ms)

Base(cfg) == << Member(<<1>>, <<0, 0>>), Member(<<2>>, <<0, 0, 0>>),
                Member(<<3>>, <<0, 0>>), Member(<<4>>, <<cfg>>) >>

\* a fifth member with the given name
With(name) == Encode(Append(Base(1), Member(name, <<0, 0>>)))

Good == Encode(Base(1))

\* the base container, every prefix of it, each cell zeroed or raised to 8,
\* one trailing cell, every config.json document, extra members (unknown,
\* a duplicate index too short, in a missing subfolder, absolute, dotted)
MCContainers ==
    {SubSeq(Good, 1, n) : n \in 0..Len(Good)}
    \cup {[Good EXCEPT ![j] = v] : j \in DOMAIN Good, v \in {0, 8}}
    \cup {Append(Good, 0)}
    \cup {Encode(Base(c)) : c \in 2..9}
    \cup {With(n) : n \in {<<5>>, <<5, 7, 1>>, <<7, 5>>, <<6, 7, 5>>}}
    \cup {Encode(Append(Base(1), Member(<<1>>, <<0>>)))}

\* a member "../12/index": the older snapshot's index
TraversalContainers == {With(<<6, 7, 12, 7, 1>>)}
=============================================================================
