----------------------------- MODULE MCMeshSource -----------------------------
(* Files that are one or two edits away from good ones, and meshes with     *)
(* everything a repair has to clear.                                        *)
EXTENDS MeshSource

(* A sequence with one item dropped, doubled, replaced or inserted.         *)
Edits(s, items) ==
  {s} \cup {RemoveAt(s, i) : i \in DOMAIN s}
      \cup {InsertAt(s, i, x) : i \in 1 .. Len(s) + 1, x \in items}
      \cup {ReplaceAt(s, i, x) : i \in DOMAIN s, x \in items}

File(extension, kind) == [extension |-> extension, kind |-> kind]
Word(w) == [word |-> w]
At(w, p) == [word |-> w, at |-> p]

Far == <<0, 99>>
Facet == << Word("facet"), Word("outer"), At("vertex", <<0, 0>>), At("vertex", <<3, 0>>),
            At("vertex", <<0, 3>>), Word("endloop"), Word("endfacet") >>
Solid == <<Word("solid")>> \o Facet \o <<Word("endsolid")>>
Words == {Word(w) : w \in {"solid", "SOLID", "facet", "outer", "endloop", "endfacet", "endsolid",
                           "other"}}
           \cup {At("vertex", <<1, 1>>)}
TextFiles ==
  {[extension |-> e, kind |-> "text", lines |-> l] :
     e \in {"stl"},
     l \in UNION {Edits(t, {Word("facet"), Word("endfacet"), Word("endsolid"), Word("other"), At("vertex", <<1, 1>>)}) : t \in Edits(Solid, Words)}
             \cup Edits(<<Word("solid")>> \o Facet \o Facet \o <<Word("endsolid")>>,
                        Words \cup {At("vertex", Far), At("vertex", NotFinitePoint)})}
    \ {[extension |-> "stl", kind |-> "text", lines |-> <<>>]}

Corner == [i \in 1 .. 30 |-> IF i % 3 = 1 THEN <<0, 0>> ELSE IF i % 3 = 2 THEN <<1, 0>> ELSE <<0, 1>>]
BinaryFiles ==
  {[extension |-> e, kind |-> "binary", named |-> b, declared |-> n, points |-> SubSeq(Corner, 1, 3 * k)] :
     e \in {"stl", "obj"}, b \in BOOLEAN, n \in {0, 1, 2, 9, 10}, k \in {0, 1, 2, 9, 10}}
    \cup {[extension |-> "stl", kind |-> "binary", named |-> FALSE, declared |-> 1,
           points |-> <<<<0, 0>>, <<1, 0>>, p>>] : p \in {Far, NotFinitePoint}}

Face(refs) == [word |-> "f", refs |-> refs, vt |-> {}, vn |-> {}]
ObjWords == {At("v", <<0, 0>>), Word("comment"),
             Face(<<1, 2, 3>>), Face(<<-1, -2, -3>>), Face(<<1, 2, 4>>), Face(<<1, 2, 3, 1>>)}
ObjFiles ==
  {[extension |-> "obj", kind |-> "obj", lines |-> l] :
     l \in UNION {Edits(t, ObjWords) :
                    t \in Edits(<<At("v", <<0, 0>>), At("v", <<1, 0>>), At("v", <<0, 1>>), Face(<<1, 2, 3>>)>>,
                                ObjWords \cup {Word("mtllib"), Word("other"), Face(<<0, 1, 2>>), Face(<<1, 2>>),
                                               At("v", Far), At("v", NotFinitePoint),
                                               Face(<<1, 2, 3, 1, 2, 3>>)})}}

(* Textures and normals; and line breaks that only the engine sees.        *)
Plain == <<At("v", <<0, 0>>), At("v", <<1, 0>>), At("v", <<0, 1>>)>>
With(refs, vt, vn) == [word |-> "f", refs |-> refs, vt |-> vt, vn |-> vn]
Textured ==
  {[extension |-> "obj", kind |-> "obj", lines |-> l] :
     l \in {before \o Plain \o <<With(<<1, 2, 3>>, vt, vn)>> \o after :
             before \in {<<>>, <<Word("vt")>>}, after \in {<<>>, <<Word("vt")>>, <<Word("vn")>>, <<Word("short")>>},
             vt \in {{}, {1}, {-1}, {2}, {0, 1}}, vn \in {{}, {1}, {-1}}}}
Torn(extension, kind, lines, n, pieces) ==
  [extension |-> extension, kind |-> kind, lines |-> lines,
   split |-> SubSeq(lines, 1, n - 1) \o pieces \o SubSeq(lines, n + 1, Len(lines))]
Commented == Plain \o <<Word("comment"), Face(<<1, 2, 3>>)>>
TornFiles ==
  {Torn("obj", "obj", Commented, 4, <<Word("comment"), x>>) :
     x \in {Face(<<1, 3, 2>>), Face(<<1, 2, 9>>), Face(<<1, 2>>), At("v", <<2, 2>>), At("v", Far), Word("mtllib")}}
    \cup {Torn("obj", "obj", Plain \o <<Face(<<1, 2, 3, 1>>)>>, 4, <<Face(SubSeq(<<1, 2, 3>>, 1, n)), Word("other")>>) : n \in {2, 3}}
    \cup {Torn("obj", "obj", Plain \o <<Face(<<1, 2, 3>>)>>, 1, <<x, Word("other")>>) : x \in {Word("short"), Plain[1]}}
    \cup {Torn("stl", "text", Solid, 1, <<Word("solid")>> \o x) : x \in {Facet, <<Word("endsolid")>>, Facet \o <<Word("facet")>>}}
    \cup {Torn("stl", "text", Solid, 3, <<Word("other"), Word("other")>>)}

Header == <<"format", "vertex", "xyz", "face", "indices">>
HeaderWords == {"format", "comment"} \cup Elements \cup Properties
Ply(h, points, faces, more, trailing) ==
  [extension |-> "ply", kind |-> "ply", header |-> h, points |-> points, faces |-> faces,
   more |-> more, trailing |-> trailing]
Three == <<<<0, 0>>, <<1, 0>>, <<0, 1>>>>
PlyFiles ==
  {Ply(h, Three, <<<<0, 1, 2>>>>, 0, FALSE) : h \in UNION {Edits(t, {"format", "comment", "vertex", "list"}) : t \in Edits(Header, HeaderWords)}}
    \cup {Ply(h, ps, fs, n, b) :
            h \in {Header, Append(Header, "list"), <<"format", "vertex", "xyz", "list", "face", "indices">>},
            ps \in {<<>>, SubSeq(Three, 1, 2), Three, <<<<0, 0>>, Far, <<1, 1>>>>, <<<<0, 0>>, NotFinitePoint, <<1, 1>>>>},
            fs \in {<<>>, <<<<0, 1, 2>>>>, <<<<0, 1>>>>, <<<<0, 1, 2, 0>>>>, <<<<0, 1, 3>>>>,
                    <<<<0, 1, 2>>, <<2, 1, 0>>>>, <<<<0, 1, 2, 0, 1, 2>>>>},
            n \in {0, 3, 5, 6}, b \in BOOLEAN}

(* Meshes: the faces are numbered from 0.                                   *)
Grid == <<<<0, 0>>, <<6, 0>>, <<6, 6>>, <<0, 6>>, <<1, 0>>, <<20, 20>>, <<24, 20>>, <<20, 24>>, <<22, 0>>>>
Meshes ==
  {Ply(Header, Grid, fs, 0, FALSE) : fs \in
     {<< <<0, 1, 2>>, <<0, 2, 3>>, <<4, 1, 2>>, <<5, 6, 7>> >>,      \* near points, two components
      << <<0, 1, 8>>, <<0, 1, 2>>, <<2, 1, 0>>, <<5, 6, 7>> >>,       \* a degenerate one, and doubled
      << <<0, 4, 1>>, <<0, 4, 8>> >>,                                 \* nothing but degenerate
      << <<0, 1, 2>>, <<2, 0, 3>>, <<5, 6, 7>> >>,                    \* a boundary of four edges
      << <<0, 1, 2>>, <<1, 0, 4>>, <<2, 3, 6>> >>,
      << <<0, 1, 2>>, <<2, 5, 6>>, <<6, 7, 8>> >>} }                  \* joined by points only
(* A triangle with a hole of four edges, convex or not.                     *)
Frame == << <<0, 1, 4>>, <<0, 4, 3>>, <<1, 5, 4>>, <<1, 2, 5>>, <<2, 6, 5>>, <<2, 0, 6>>, <<0, 3, 6>> >>
Frames == {Ply(Header, <<<<0, 0>>, <<12, 0>>, <<0, 12>>, <<2, 2>>, <<5, 2>>, p, <<2, 5>>>>, Frame, 0, FALSE) :
             p \in {<<4, 4>>, <<3, 3>>}}

Other == {[extension |-> e, kind |-> k] : e \in {"stl", "obj", "zip"}, k \in {"empty", "large", "archive"}}
MCFiles == TextFiles \cup Textured \cup TornFiles \cup BinaryFiles \cup ObjFiles \cup PlyFiles \cup Meshes \cup Frames \cup Other
           \cup {[f EXCEPT !.extension = "ply"] : f \in {x \in ObjFiles : Len(x.lines) = 4}}

All == ToSet(Operations)
List(S) == SelectSeq(Operations, LAMBDA o : o \in S)
MCRepairAsks ==
  {Absent, <<"sharpen">>, <<"repair_normals", "repair_normals">>, <<>>}
    \cup {List(S) : S \in {Clearing \cup T :
                              T \in SUBSET {"keep_largest_component", "drop_tiny_components", "fill_small_holes"}}}
    \cup {List({"drop_tiny_components"}), List({"fill_small_holes", "keep_largest_component"}),
          List({"remove_degenerate_faces", "orient_winding", "fill_small_holes"}),
          List({"merge_duplicate_vertices", "fill_small_holes"}), List(All \ {"orient_winding"})}
=============================================================================
