----------------------------- MODULE MeshFormats -----------------------------
(***************************************************************************)
(* The two readers of a mesh file: the preflight that decides whether an   *)
(* upload is accepted, and the ingestion of the engine, which every later  *)
(* job starts with.  They are written twice and have to agree.             *)
(*   services/api/mesh2param_api/security/uploads.py                       *)
(*   engine/mesh2param/ingest.py                                           *)
(*                                                                         *)
(* Data.  A file is what its extension says and its content: the triangles *)
(* of a binary STL and the number its header declares; the lines of a text *)
(* STL or OBJ; the header of a PLY and its records.  A point is a pair of  *)
(* integers (the meshes of the model lie in a plane), or NotFinitePoint.   *)
(* Bytes, numbers and names are already words.  The preflight ends a line  *)
(* at a line feed only, the engine at every break that Python knows (a     *)
(* carriage return, a form feed, ...): the lines that the engine sees are  *)
(* the field "split" of a text in which the two differ.                    *)
(* Definitions named X_Y that stand before X are deliberate defects of X.  *)
(***************************************************************************)
EXTENDS Integers, SequencesExt

CONSTANTS
  NotFinitePoint, \* a point with a coordinate that is not a finite number
  MaxCoordinate,  \* the limits of the service
  MaxVertices,
  MaxTriangles,
  MaxFaceVertices,
  Sniffed         \* the lines of a text that the engine sees of it, 1 MiB

ASSUME FormatsAssumption ==
  /\ {MaxCoordinate, MaxVertices, MaxTriangles, MaxFaceVertices, Sniffed} \subseteq Nat
  /\ NotFinitePoint \notin Int \X Int

(* What the bytes of a file are taken for: every word that neither reader  *)
(* knows is "other".                                                       *)
Elements == {"vertex", "face", "edge"}
Properties == {"xyz", "indices", "list"}
AnyPoint == (Int \X Int) \cup {NotFinitePoint}
TextLine ==
  [word : {"solid", "SOLID", "facet", "outer", "endloop", "endfacet", "endsolid", "other"}]
    \cup [word : {"vertex"}, at : AnyPoint]
(* A line of an OBJ: "short" is a v, vt or vn without all of its values; a *)
(* face has the numbers of its vertices and of its textures and normals.   *)
ObjLine ==
  [word : {"comment", "mtllib", "vt", "vn", "short", "other"}]
    \cup [word : {"v"}, at : AnyPoint]
    \cup [word : {"f"}, refs : Seq(Int), vt : SUBSET Int, vn : SUBSET Int]

(* A break that only the engine sees.  A comment or a name may hide any    *)
(* lines behind it; another line loses its last words.                     *)
Broken(file) == file.kind \in {"text", "obj"} /\ "split" \in DOMAIN file
Loses(line, rest) ==
  \/ line = rest \/ rest.word \in {"short", "other"}
  \/ line.word = "f" /\ rest.word = "f" /\ IsPrefix(rest.refs, line.refs)
BrokenAt(file, n) ==
  LET more   == Len(file.split) - Len(file.lines)
      line   == file.lines[n]
      hidden == {file.split[i].word : i \in n + 1 .. n + more}
  IN  /\ more > 0
      /\ SubSeq(file.split, 1, n - 1) = SubSeq(file.lines, 1, n - 1)
      /\ SubSeq(file.split, n + more + 1, Len(file.split)) = SubSeq(file.lines, n + 1, Len(file.lines))
      /\ \/ line.word \in {"comment", "solid", "SOLID", "endsolid"} /\ file.split[n] = line
         \/ Loses(line, file.split[n]) /\ hidden = {"other"}
Lines(file, Line) ==
  /\ file.lines \in Seq(Line)
  /\ Broken(file) => file.split \in Seq(Line) /\ \E n \in DOMAIN file.lines : BrokenAt(file, n)
Split(file) == IF Broken(file) THEN file.split ELSE file.lines

Taken(file) ==
  CASE file.kind = "binary" -> file.declared \in Nat /\ file.points \in Seq(AnyPoint)
    [] file.kind = "text"   -> Lines(file, TextLine) /\ file.lines # <<>>
    [] file.kind = "obj"    -> Lines(file, ObjLine)
    [] file.kind = "ply"    ->
         /\ file.header \in Seq({"format", "comment"} \cup Elements \cup Properties)
         /\ file.points \in Seq(AnyPoint) /\ file.faces \in Seq(Seq(Int)) /\ file.more \in Nat
    [] OTHER                -> file.kind \in {"empty", "large", "archive"}

(* The members of a set in order: by the members that are below each; and  *)
(* numbers in theirs.                                                      *)
InOrder(S, below) ==
  [n \in 1 .. Cardinality(S) |-> CHOOSE x \in S : Cardinality(below[x]) = n - 1]
Sorted(S) == InOrder(S, [x \in S |-> {y \in S : y < x}])
Total(counts) ==
  LET sum[n \in 0 .. Len(counts)] == IF n = 0 THEN 0 ELSE sum[n - 1] + counts[n]
  IN  sum[Len(counts)]

Accepted(vertices, triangles) ==
  [refusal |-> "none", vertices |-> vertices, triangles |-> triangles]
Rejected(code) == [refusal |-> code]
Where(lines, word) == {i \in DOMAIN lines : lines[i].word = word}
Count(lines, word) == Cardinality(Where(lines, word))
Finite(points) == NotFinitePoint \notin ToSet(points)
InReach(points) ==
  \A p \in ToSet(points) : p[1] \in -MaxCoordinate .. MaxCoordinate
                          /\ p[2] \in -MaxCoordinate .. MaxCoordinate
(* What a point may be refused for, before anything else of its record.    *)
PointRefusal(points) ==
  CASE ~Finite(points)                       -> "malformed_mesh"
    [] Finite(points) /\ ~InReach(points)    -> "coordinate_limit"
    [] Finite(points) /\ InReach(points)     -> "none"

-----------------------------------------------------------------------------
(* STL.                                                                    *)

SizeMatches(file) == file.kind = "binary" /\ Len(file.points) = 3 * file.declared

BinaryStlRefusal(file) ==
  IF file.declared = 0 THEN "malformed_mesh"
  ELSE IF file.declared > MaxTriangles THEN "triangle_limit"
  ELSE IF 3 * file.declared > MaxVertices THEN "vertex_limit"
  ELSE PointRefusal(file.points)
ParseBinaryStl(file) ==
  IF BinaryStlRefusal(file) # "none" THEN Rejected(BinaryStlRefusal(file))
  ELSE Accepted(3 * file.declared, file.declared)

(* _parse_ascii_stl: what must come next, line by line.                    *)
Start == [state |-> "header", facets |-> 0, vertices |-> 0, corners |-> 0, refusal |-> "none"]
Stop(s, code) == [s EXCEPT !.refusal = code]
AtPoint(s, p) ==
  IF PointRefusal(<<p>>) # "none" THEN Stop(s, PointRefusal(<<p>>))
  ELSE IF s.vertices + 1 > MaxVertices THEN Stop(s, "vertex_limit")
  ELSE [s EXCEPT !.vertices = @ + 1, !.corners = @ + 1,
                          !.state = IF s.corners = 2 THEN "endloop" ELSE @]
Expected == [outer |-> "outer_loop", endloop |-> "endloop", endfacet |-> "endfacet"]
After    == [outer |-> "vertices", endloop |-> "endfacet", endfacet |-> "facet_or_end"]
Read_NoEndsolid(s, line) ==
  LET word == line.word IN
  CASE s.refusal # "none" -> s
    [] s.refusal = "none" /\ s.state = "header" ->
         IF word \in {"solid", "SOLID"} THEN [s EXCEPT !.state = "facet_or_end"]
         ELSE Stop(s, "format_mismatch")
    [] s.refusal = "none" /\ s.state \in {"facet_or_end", "ended"} /\ word = "endsolid" ->
         [s EXCEPT !.state = "ended"]
    [] s.refusal = "none" /\ s.state \in {"facet_or_end", "ended"} /\ word = "facet" ->
         [s EXCEPT !.state = "outer_loop", !.corners = 0]
    [] s.refusal = "none" /\ s.state = "vertices" /\ word = "vertex" -> AtPoint(s, line.at)
    [] s.refusal = "none" /\ word \in DOMAIN Expected /\ s.state = Expected[word] ->
         IF word = "endfacet" /\ s.facets + 1 > MaxTriangles THEN Stop(s, "triangle_limit")
         ELSE [s EXCEPT !.state = IF word = "endfacet" THEN "ended" ELSE After[word],
                        !.facets = IF word = "endfacet" THEN @ + 1 ELSE @]
    [] OTHER -> Stop(s, "malformed_mesh")
Read(s, line) ==
  LET word == line.word IN
  CASE s.refusal # "none" -> s
    [] s.refusal = "none" /\ s.state = "header" ->
         IF word \in {"solid", "SOLID"} THEN [s EXCEPT !.state = "facet_or_end"]
         ELSE Stop(s, "format_mismatch")
    [] s.refusal = "none" /\ s.state = "facet_or_end" /\ word = "endsolid" ->
         [s EXCEPT !.state = "ended"]
    [] s.refusal = "none" /\ s.state = "facet_or_end" /\ word = "facet" ->
         [s EXCEPT !.state = "outer_loop", !.corners = 0]
    [] s.refusal = "none" /\ s.state = "vertices" /\ word = "vertex" -> AtPoint(s, line.at)
    [] s.refusal = "none" /\ word \in DOMAIN Expected /\ s.state = Expected[word] ->
         IF word = "endfacet" /\ s.facets + 1 > MaxTriangles THEN Stop(s, "triangle_limit")
         ELSE [s EXCEPT !.state = After[word],
                        !.facets = IF word = "endfacet" THEN @ + 1 ELSE @]
    [] OTHER -> Stop(s, "malformed_mesh")
Reading(lines) ==
  LET s[n \in 0 .. Len(lines)] == IF n = 0 THEN Start ELSE Read(s[n - 1], lines[n])
  IN  s[Len(lines)]
ParseAsciiStl(lines) ==
  LET s == Reading(lines) IN
  CASE s.refusal # "none" -> Rejected(s.refusal)
    [] s.refusal = "none" /\ (s.state # "ended" \/ s.facets = 0) -> Rejected("malformed_mesh")
    [] OTHER -> Accepted(s.vertices, s.facets)

(* _preflight_stl: the engine counts the statements and compares.          *)
CountAsciiStl(lines) ==
  LET facets == Count(lines, "facet")
      words == {lines[i].word : i \in DOMAIN lines}
  IN IF lines[1].word # "solid" THEN Rejected("malformed_geometry")
     ELSE IF Last(lines).word # "endsolid" THEN Rejected("malformed_geometry")
     ELSE IF "other" \in words THEN Rejected("malformed_geometry")
     ELSE IF ~(\A w \in {"outer", "endloop", "endfacet"} : Count(lines, w) = facets)
               \/ Count(lines, "vertex") # 3 * facets THEN Rejected("malformed_geometry")
     ELSE IF facets = 0 THEN Rejected("empty_geometry")
     ELSE IF facets > MaxTriangles THEN Rejected("excessive_triangles")
     ELSE IF 3 * facets > MaxVertices THEN Rejected("excessive_vertices")
     ELSE Accepted(3 * facets, facets)

-----------------------------------------------------------------------------
(* OBJ.  A face names its vertices, textures and normals by number, from   *)
(* the first or backwards from the last one above it.                      *)
Above(lines, word, i) == Cardinality({j \in Where(lines, word) : j < i})
References(line) ==
  {<<"v", r>> : r \in ToSet(line.refs)} \cup {<<"vt", r>> : r \in line.vt}
    \cup {<<"vn", r>> : r \in line.vn}
Triangulated(lines) ==
  Total([i \in DOMAIN lines |-> IF lines[i].word = "f" THEN Len(lines[i].refs) - 2 ELSE 0])

(* _parse_obj: positive numbers are compared with all there are, at the    *)
(* end; a polygon stands for the triangles it can be cut into.             *)
LineRefusal(lines, i) ==
  LET line == lines[i] IN
  CASE line.word = "mtllib" -> "external_reference_not_allowed"
    [] line.word = "other"  -> "unsupported_obj_directive"
    [] line.word = "short"  -> "malformed_mesh"
    [] line.word = "v"      -> PointRefusal(<<line.at>>)
    [] line.word = "f"      ->
         IF Len(line.refs) < 3 THEN "malformed_mesh"
         ELSE IF Len(line.refs) > MaxFaceVertices THEN "triangle_limit"
         ELSE IF \E n \in References(line) : n[2] = 0 \/ -n[2] > Above(lines, n[1], i)
              THEN "malformed_mesh" ELSE "none"
    [] line.word \in {"comment", "vt", "vn"} -> "none"
ObjRefused(lines) == {i \in DOMAIN lines : LineRefusal(lines, i) # "none"}
Missing(lines) ==
  \E i \in Where(lines, "f") : \E n \in References(lines[i]) : n[2] > Count(lines, n[1])
ParseObj(lines) ==
  LET vertices == Count(lines, "v") IN
  CASE ObjRefused(lines) # {} ->
         Rejected(LineRefusal(lines, CHOOSE i \in ObjRefused(lines) :
                                       \A j \in ObjRefused(lines) : i <= j))
    [] ObjRefused(lines) = {} ->
         IF \E w \in {"v", "vt", "vn"} : Count(lines, w) > MaxVertices THEN Rejected("vertex_limit")
         ELSE IF Triangulated(lines) > MaxTriangles THEN Rejected("triangle_limit")
         ELSE IF vertices < 3 \/ Where(lines, "f") = {} \/ Missing(lines)
              THEN Rejected("malformed_mesh")
         ELSE Accepted(vertices, Triangulated(lines))

(* _preflight_obj: a number must be that of something above.               *)
CountObj(lines) ==
  LET faces == Where(lines, "f")
      late(i) == \E n \in References(lines[i]) :
                   \/ n[2] = 0
                   \/ n[2] > Above(lines, n[1], i) \/ -n[2] > Above(lines, n[1], i)
  IN IF Where(lines, "short") # {} THEN Rejected("malformed_geometry")
     ELSE IF \E i \in faces : Len(lines[i].refs) # 3 THEN Rejected("non_triangle_face")
     ELSE IF \E i \in faces : late(i) THEN Rejected("malformed_indices")
     ELSE IF faces = {} THEN Rejected("empty_geometry")
     ELSE IF Count(lines, "v") > MaxVertices THEN Rejected("excessive_vertices")
     ELSE IF Cardinality(faces) > MaxTriangles THEN Rejected("excessive_triangles")
     ELSE Accepted(Count(lines, "v"), Cardinality(faces))

-----------------------------------------------------------------------------
(* PLY.  The words of a header after the first: format, comment, an        *)
(* element (vertex, face, edge) or a property of the element above it (the *)
(* coordinates, the list of indices, another list).                        *)
Owners(h, i) == {j \in 1 .. i - 1 : h[j] \in Elements}
Owner(h, i) == h[CHOOSE j \in Owners(h, i) : \A k \in Owners(h, i) : k <= j]
Owned(h) == \A i \in DOMAIN h : h[i] \in Properties => Owners(h, i) # {}
Places(h, property, element) ==
  {i \in DOMAIN h : h[i] = property /\ Owner(h, i) = element}
Times(h, word) == Cardinality({i \in DOMAIN h : h[i] = word})
HasGeometry(h) ==
  /\ Times(h, "vertex") = 1 /\ Times(h, "face") = 1
  /\ Places(h, "xyz", "vertex") # {} /\ Cardinality(Places(h, "indices", "face")) = 1

(* _parse_ply_header: one format, before the first element; no name twice. *)
HeaderAccepted(h) ==
  /\ Times(h, "format") = 1
  /\ \A i \in DOMAIN h : h[i] \in Elements => \E j \in 1 .. i - 1 : h[j] = "format"
  /\ \A e \in Elements : Times(h, e) <= 1
  /\ Owned(h)
  /\ \A e \in Elements, p \in Properties : Cardinality(Places(h, p, e)) <= 1
  /\ HasGeometry(h)
(* _ply_header, _ply_geometry_elements: the format is the second line.     *)
HeaderRead(h) ==
  /\ h # <<>> /\ h[1] = "format" /\ Times(h, "format") = 1
  /\ Owned(h) /\ HasGeometry(h)

(* The records that follow; other lists than the indices have one length.  *)
OtherLists(h) ==
  UNION {Places(h, p, e) : p \in {"indices", "list"}, e \in {"vertex", "face"}}
    \ Places(h, "indices", "face")
ListLengths(file) ==
  {Len(f) : f \in ToSet(file.faces)}
    \cup IF OtherLists(file.header) # {} THEN {file.more} ELSE {}
OutOfRange(file) ==
  \E f \in ToSet(file.faces) : \E i \in ToSet(f) : i < 0 \/ i >= Len(file.points)
PlyTriangles(file) == Total([i \in DOMAIN file.faces |-> Len(file.faces[i]) - 2])

ParsePly(file) ==
  LET vertices == Len(file.points) IN
  IF ~HeaderAccepted(file.header) THEN Rejected("malformed_mesh")
  ELSE IF vertices > MaxVertices THEN Rejected("vertex_limit")
  ELSE IF Len(file.faces) > MaxTriangles THEN Rejected("triangle_limit")
  ELSE IF PointRefusal(file.points) # "none" THEN Rejected(PointRefusal(file.points))
  ELSE IF \E n \in ListLengths(file) : n > MaxFaceVertices THEN Rejected("allocation_limit")
  ELSE IF \E f \in ToSet(file.faces) : Len(f) < 3 THEN Rejected("malformed_mesh")
  ELSE IF OutOfRange(file) THEN Rejected("malformed_mesh")
  ELSE IF PlyTriangles(file) > MaxTriangles THEN Rejected("triangle_limit")
  ELSE IF vertices < 3 \/ file.faces = <<>> \/ file.trailing THEN Rejected("malformed_mesh")
  ELSE Accepted(vertices, PlyTriangles(file))

(* The engine bounds every list by the number of vertices.                 *)
CountPly(file) ==
  LET vertices == Len(file.points) IN
  IF ~HeaderRead(file.header) THEN Rejected("malformed_geometry")
  ELSE IF vertices = 0 \/ file.faces = <<>> THEN Rejected("empty_geometry")
  ELSE IF vertices > MaxVertices THEN Rejected("excessive_vertices")
  ELSE IF Len(file.faces) > MaxTriangles THEN Rejected("excessive_triangles")
  ELSE IF ~Finite(file.points) THEN Rejected("non_finite_coordinate")
  ELSE IF \E n \in ListLengths(file) : n > vertices THEN Rejected("malformed_geometry")
  ELSE IF \E f \in ToSet(file.faces) : Len(f) # 3 THEN Rejected("non_triangle_face")
  ELSE IF OutOfRange(file) THEN Rejected("malformed_indices")
  ELSE IF file.trailing THEN Rejected("malformed_geometry")
  ELSE Accepted(vertices, Len(file.faces))

-----------------------------------------------------------------------------
(* _detect_format and _sniff_format: what the content looks like.  An OBJ  *)
(* must show a vertex and a face in the part that the engine looks at.     *)
Detected(file) ==
  CASE file.kind = "binary" -> IF SizeMatches(file) \/ file.named THEN "stl" ELSE "unknown"
    [] file.kind = "text"   -> IF file.lines[1].word \in {"solid", "SOLID"} THEN "stl" ELSE "unknown"
    [] file.kind = "obj"    -> "obj"
    [] file.kind = "ply"    -> "ply"
Sniff(file) ==
  CASE file.kind = "ply"    -> "ply"
    [] file.kind = "binary" -> IF SizeMatches(file) THEN "stl" ELSE "unknown"
    [] file.kind = "text"   ->
         IF file.lines[1].word \in {"solid", "SOLID"}
              /\ Where(file.lines, "facet") # {} /\ Where(file.lines, "vertex") # {}
         THEN "stl" ELSE "unknown"
    [] file.kind = "obj"    ->
         IF \A w \in {"v", "f"} : \E i \in Where(file.lines, w) : i <= Sniffed
         THEN "obj" ELSE "unknown"

(* preflight_mesh_upload                                                   *)
Parsed(file) ==
  CASE file.kind = "binary" -> IF SizeMatches(file) THEN ParseBinaryStl(file)
                               ELSE Rejected("malformed_mesh")
    [] file.kind = "text"   -> ParseAsciiStl(file.lines)
    [] file.kind = "obj"    -> ParseObj(file.lines)
    [] file.kind = "ply"    -> ParsePly(file)
Preflight(file) ==
  IF file.extension \notin {"stl", "obj", "ply"} THEN Rejected("unsupported_extension")
  ELSE IF file.kind = "empty" THEN Rejected("empty_upload")
  ELSE IF file.kind = "large" THEN Rejected("file_size_limit")
  ELSE IF file.kind = "archive" THEN Rejected("archive_not_allowed")
  ELSE
         IF Detected(file) \notin {"unknown", file.extension} THEN Rejected("format_mismatch")
         ELSE IF file.kind \in {"binary", "text"} /\ file.extension # "stl"
              THEN Rejected("malformed_mesh")
         ELSE Parsed(file)

(* ingest_bytes *)
CountBinaryStl(file) ==
  IF file.declared = 0 THEN Rejected("empty_geometry")
  ELSE IF file.declared > MaxTriangles THEN Rejected("excessive_triangles")
  ELSE IF 3 * file.declared > MaxVertices THEN Rejected("excessive_vertices")
  ELSE Accepted(3 * file.declared, file.declared)
Counted(file) ==
  CASE file.kind = "binary" -> CountBinaryStl(file)
    [] file.kind = "text"   -> CountAsciiStl(Split(file))
    [] file.kind = "obj"    -> CountObj(Split(file))
    [] file.kind = "ply"    -> CountPly(file)

-----------------------------------------------------------------------------
(* A mesh: points, and triangles with the numbers of their corners.        *)
MeshOf(points, faces) == [points |-> points, faces |-> faces]
Corners(face) == ToSet(face)
Used(faces) == UNION {Corners(faces[i]) : i \in DOMAIN faces}
(* Some of the triangles, with some of the points and those renumbered.    *)
Renumbered(m, faces, kept) ==
  LET used == Sorted(kept)
      place(p) == CHOOSE i \in DOMAIN used : used[i] = p
  IN  MeshOf([i \in DOMAIN used |-> m.points[used[i]]],
           [i \in DOMAIN faces |-> [k \in 1 .. 3 |-> place(faces[i][k])]])
(* Every triangle with three points of its own.                            *)
Threes(count) == [n \in 1 .. count |-> <<3 * n - 2, 3 * n - 1, 3 * n>>]
Separate(m) ==
  MeshOf([i \in 1 .. 3 * Len(m.faces) |-> m.points[m.faces[(i + 2) \div 3][((i - 1) % 3) + 1]]],
       Threes(Len(m.faces)))

(* The mesh of a file.  Every triangle of an STL has corners of its own.   *)
PointsOf(lines, word) ==
  LET at == Sorted(Where(lines, word)) IN [n \in DOMAIN at |-> lines[at[n]].at]
Points(file) ==
  CASE file.kind = "text" -> PointsOf(Split(file), "vertex")
    [] file.kind = "obj"  -> PointsOf(Split(file), "v")
    [] OTHER              -> file.points
Resolved(lines, i) ==
  [k \in 1 .. 3 |-> LET r == lines[i].refs[k] IN IF r > 0 THEN r ELSE Above(lines, "v", i) + r + 1]
Faces(file) ==
  CASE file.kind = "obj" ->
         LET lines == Split(file)
             at == Sorted(Where(lines, "f"))
         IN  [n \in DOMAIN at |-> Resolved(lines, at[n])]
    [] file.kind = "ply" -> [n \in DOMAIN file.faces |-> [k \in 1 .. 3 |-> file.faces[n][k] + 1]]
    [] OTHER -> Threes(Len(Points(file)) \div 3)
Loaded(file) == MeshOf(Points(file), Faces(file))

(* What trimesh may make of it.  The number of points is compared with     *)
(* that of the file except for an OBJ: there it may leave out points that  *)
(* no face uses, or give every corner a point of its own.                  *)
Loadings(file) ==
  LET m == Loaded(file)
      spare == DOMAIN m.points \ Used(m.faces)
  IN  IF file.kind # "obj" THEN {m}
      ELSE {Separate(m)} \cup {Renumbered(m, m.faces, (DOMAIN m.points) \ out) : out \in SUBSET spare}

(* What is looked at before the file is loaded, and then in the mesh.      *)
Checked(file) ==
  LET counted == Counted(file) IN
  IF Sniff(file) # file.extension THEN Rejected("content_mismatch")
  ELSE IF counted.refusal # "none" THEN counted
  ELSE IF ~Finite(Points(file)) THEN Rejected("non_finite_coordinate")
  ELSE counted
Ingestion(file, m) ==
  IF Len(m.points) > MaxVertices THEN Rejected("excessive_vertices")
  ELSE IF ~InReach(m.points) THEN Rejected("extreme_coordinates")
  ELSE Checked(file)
=============================================================================
