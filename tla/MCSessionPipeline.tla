-------------------------- MODULE MCSessionPipeline --------------------------
(* Projects that vary the tracks, and projects that vary the sequences: of  *)
(* names "a" and "A" one identifier is made.                                *)
EXTENDS SessionPipeline, SequencesExt
MCNames == {"a", "A", "b"}
StableIds == [n \in {"a", "A", "b"} |-> IF n = "b" THEN "b" ELSE "a"]

MCInstruments == {[file |-> f, slice |-> s] : f \in {"a", "b"}, s \in BOOLEAN}
               \cup {[file |-> None, slice |-> FALSE]}
Kits == {<<>>} \cup {<<i, j>> : i \in {[file |-> None, slice |-> FALSE],
                                       [file |-> "a", slice |-> TRUE]},
                                j \in MCInstruments}
Tracks == [name : {"a", "b"}, type : {"drum"}, program : {"a", "A", "b"}, instruments : Kits]
          \cup [name : {"a", "b"}, type : {"other"}, program : {"a"}, instruments : {<<>>}]
FewTracks == {[name |-> n, type |-> "other", program |-> "a", instruments |-> <<>>] :
                n \in {"a", "b"}}
ClipEntry == [track : {"a", "b"}, notes : 1 .. 2]
Entries == [key : {0, 1, None}, clips : {<<>>} \cup {<<c>> : c \in ClipEntry}
              \cup {<<c, [track |-> "b", notes |-> 1]>> : c \in ClipEntry}]
OneEntry == <<[key |-> 0, clips |-> <<[track |-> "a", notes |-> 2]>>]>>
SongLists == {<<>>, <<<<[sequence |-> 0, repeats |-> 1], [sequence |-> 1, repeats |-> 1]>>>>,
              <<<<>>, <<[sequence |-> 0, repeats |-> 0]>>>>}

Smallest == [name : {"a"}, type : {"other"}, program : {"a"}, instruments : {<<>>}]

XpjFile(samples, tracks, sequences, songs, container, data, tempo) ==
  [samples |-> samples, tracks |-> tracks, sequences |-> sequences, songs |-> songs,
   container |-> container, data |-> data, tempo |-> tempo]
MCProjects ==
  {XpjFile(<<"a", "b">>, <<t, u>>, OneEntry, <<>>, "gzip", TRUE, 120) : t, u \in Tracks}
  \cup {XpjFile(<<>>, <<t, u>>, <<e, d>>, songs, "gzip", TRUE, 120) :
          t, u \in FewTracks, e, d \in Entries, songs \in SongLists}
  \cup {XpjFile(samples, <<t>>, OneEntry, <<>>, "plain", TRUE, tempo) :
          samples \in BoundedSeq({"a", "b"}, 2), tempo \in {0, 120, 1000},
          t \in {x \in Tracks : x.name = "a"}}
  \cup {XpjFile(<<>>, <<>>, <<>>, <<>>, c, d, 120) : c \in {"gzip", "plain", "broken"}, d \in BOOLEAN}

MCCarried == {XpjFile(<<>>, <<t>>, OneEntry, <<>>, "plain", TRUE, 120) : t \in Smallest}

MergeSymmetry == Permutations(Fields) \cup Permutations(Values)
=============================================================================
