------------------------------ MODULE MeshRepair ------------------------------
(***************************************************************************)
(* What the repair and the diagnosis of a mesh do to its points and        *)
(* triangles.                                                              *)
(*   engine/mesh2param/repair.py, engine/mesh2param/ingest.py              *)
(*                                                                         *)
(* A mesh is a sequence of points of a plane, with integer coordinates,    *)
(* and a sequence of triangles, each the numbers of its three corners in   *)
(* order.  In the plane every hole is planar, and the area of a triangle   *)
(* and the square of a distance are integers: comparisons are exact.       *)
(* Definitions named X_Y that stand before X are deliberate defects of X.  *)
(***************************************************************************)
EXTENDS MeshFormats

CONSTANTS
  MergeSquared,    \* the square of the distance at which points are merged
  DegenerateArea,  \* twice the area up to which a triangle is degenerate
  TinyParts,       \* a component is tiny below one part in so many
  MaxHoleEdges     \* the longest boundary that is filled

ASSUME RepairAssumption ==
  {MergeSquared, DegenerateArea} \subseteq Nat /\ {TinyParts, MaxHoleEdges} \subseteq Nat \ {0}

Before(p, q) == p[1] < q[1] \/ (p[1] = q[1] /\ p[2] < q[2])
Turn(p, q, r) == (q[1] - p[1]) * (r[2] - p[2]) - (q[2] - p[2]) * (r[1] - p[1])
Absolute(n) == IF n < 0 THEN -n ELSE n
DoubledArea(m, face) == Absolute(Turn(m.points[face[1]], m.points[face[2]], m.points[face[3]]))
Degenerate(m, face) == Cardinality(Corners(face)) < 3 \/ DoubledArea(m, face) <= DegenerateArea

(* The faces of these numbers, in order.                                   *)
Chosen(m, numbers) ==
  LET at == Sorted(numbers) IN [i \in DOMAIN at |-> m.faces[at[i]]]
(* Some triangles with the points that they use (_submesh).                *)
Submesh(m, faces) == Renumbered(m, faces, Used(faces))

-----------------------------------------------------------------------------
(* Clearing.                                                               *)

(* _merge_vertices: the points in order, each standing for itself unless   *)
(* one that is kept is near; the first that is near stands for it.         *)
Near(p, q) == (p[1] - q[1]) * (p[1] - q[1]) + (p[2] - q[2]) * (p[2] - q[2]) <= MergeSquared
Keep(kept, p) == IF \E q \in ToSet(kept) : Near(p, q) THEN kept ELSE Append(kept, p)
First(S) == CHOOSE i \in S : \A j \in S : i <= j
Keeping(points) ==
  LET kept[n \in 0 .. Len(points)] == IF n = 0 THEN <<>> ELSE Keep(kept[n - 1], points[n])
  IN  kept[Len(points)]
MergeVertices(m) ==
  LET places == ToSet(m.points)
      kept == Keeping(InOrder(places, [p \in places |-> {q \in places : Before(q, p)}]))
      stands(p) == First({i \in DOMAIN kept : Near(kept[i], p)})
  IN  MeshOf(kept, [i \in DOMAIN m.faces |-> [k \in 1 .. 3 |-> stands(m.points[m.faces[i][k]])]])

RemoveDegenerate(m) ==
  MeshOf(m.points, Chosen(m, {i \in DOMAIN m.faces : ~Degenerate(m, m.faces[i])}))

(* Of the triangles with the same corners the first.                       *)
RemoveDuplicateFaces(m) ==
  MeshOf(m.points,
       Chosen(m, {i \in DOMAIN m.faces :
                    \A j \in 1 .. i - 1 : Corners(m.faces[j]) # Corners(m.faces[i])}))

RemoveUnreferenced(m) == Submesh(m, m.faces)

(* trimesh.repair turns some of the triangles round.                       *)
Turned(face) == <<face[3], face[2], face[1]>>
Flipped(m, numbers) ==
  MeshOf(m.points, [i \in DOMAIN m.faces |->
                    IF i \in numbers THEN Turned(m.faces[i]) ELSE m.faces[i]])

-----------------------------------------------------------------------------
(* Components: triangles that share an edge.                               *)
Edge(face, k) == {face[k], face[(k % 3) + 1]}
EdgesOf(face) == {Edge(face, k) : k \in 1 .. 3}

(* _face_component_indices: the first triangle of an edge owns it, and the *)
(* lower of two roots becomes the root of both.                            *)
United(root, i, j) ==
  LET low == IF root[i] < root[j] THEN root[i] ELSE root[j]
  IN  [n \in DOMAIN root |-> IF root[n] \in {root[i], root[j]} THEN low ELSE root[n]]
OwnerOf(m, edge, i) == First({j \in 1 .. i : edge \in EdgesOf(m.faces[j])})
Rooted(m, root, i) ==
  LET owner(k) == OwnerOf(m, Edge(m.faces[i], k), i)
  IN  United(United(United(root, owner(1), i), owner(2), i), owner(3), i)
Roots(m) ==
  LET root[n \in 0 .. Len(m.faces)] ==
        IF n = 0 THEN [i \in DOMAIN m.faces |-> i] ELSE Rooted(m, root[n - 1], n)
  IN  root[Len(m.faces)]
Components(m) ==
  LET roots == Roots(m) IN {{i \in DOMAIN m.faces : roots[i] = r} : r \in ToSet(roots)}

ComponentArea(m, c) ==
  LET at == Sorted(c) IN Total([n \in DOMAIN at |-> DoubledArea(m, m.faces[at[n]])])
TotalArea(m) == ComponentArea(m, DOMAIN m.faces)

(* _keep_largest: by area, then by the number of triangles; of equals one  *)
(* is chosen by a digest.                                                  *)
Larger(m, c, d) ==
  \/ ComponentArea(m, c) > ComponentArea(m, d)
  \/ ComponentArea(m, c) = ComponentArea(m, d) /\ Cardinality(c) > Cardinality(d)
LargestComponents(m) ==
  LET components == Components(m)
  IN  {c \in components : ~(\E d \in components : Larger(m, d, c))}
KeepLargest(m, c) == IF Cardinality(Components(m)) <= 1 THEN m ELSE Submesh(m, Chosen(m, c))

(* _drop_tiny: the largest stays, of equals the first.                     *)
FirstLargest(m) ==
  CHOOSE c \in LargestComponents(m) : \A d \in LargestComponents(m) : First(c) <= First(d)
DropTiny(m) ==
  LET tiny(c) == ComponentArea(m, c) * TinyParts < TotalArea(m)
      components == Components(m)
      kept == {c \in components : ~tiny(c)} \cup {FirstLargest(m)}
  IN  IF Cardinality(components) <= 1 \/ kept = components THEN m
      ELSE Submesh(m, Chosen(m, UNION kept))

-----------------------------------------------------------------------------
(* Holes.                                                                  *)

(* The edges of the triangles, as they run, and how often each is used.    *)
Runs(faces) == {<<i, k>> : i \in DOMAIN faces, k \in 1 .. 3}
Run(faces, r) == <<faces[r[1]][r[2]], faces[r[1]][(r[2] % 3) + 1]>>
Uses(faces, edge) == {r \in Runs(faces) : ToSet(Run(faces, r)) = edge}
Boundary(faces) ==
  {Run(faces, r) : r \in {x \in Runs(faces) :
                            Cardinality(Uses(faces, ToSet(Run(faces, x)))) = 1}}

(* _boundary_loops: what of the boundary hangs together is a loop when     *)
(* every corner has two neighbours and its edges all run the same way.     *)
Neighbors(b, v) == {w \in UNION {ToSet(e) : e \in b} : <<v, w>> \in b \/ <<w, v>> \in b}
Reached(b, v) ==
  LET within[n \in 0 .. Cardinality(b)] ==
        IF n = 0 THEN {v}
        ELSE LET S == within[n - 1] IN S \cup UNION {Neighbors(b, w) : w \in S}
  IN  within[Cardinality(b)]
Rings(b) == {Reached(b, v) : v \in UNION {ToSet(e) : e \in b}}
IsLoop(b, ring) ==
  \A v \in ring : /\ Cardinality(Neighbors(b, v)) = 2
                  /\ Cardinality({w \in ring : <<v, w>> \in b}) = 1
                  /\ Cardinality({w \in ring : <<w, v>> \in b}) = 1

(* A loop is walked from its lowest corner against its edges.              *)
Against_Along(b, v) == CHOOSE w \in Neighbors(b, v) : <<v, w>> \in b
Against(b, v) == CHOOSE w \in Neighbors(b, v) : <<w, v>> \in b
Loop(b, ring) ==
  LET walk[n \in 1 .. Cardinality(ring)] ==
        IF n = 1 THEN <<First(ring)>>
        ELSE LET w == walk[n - 1] IN Append(w, Against(b, Last(w)))
  IN  walk[Cardinality(ring)]
SmallLoops(b) ==
  {Loop(b, ring) : ring \in {r \in Rings(b) : IsLoop(b, r) /\ Cardinality(r) <= MaxHoleEdges}}

(* _triangulate_loop: the first corner that is convex and whose triangle   *)
(* holds no other corner is cut off, until three are left.                 *)
Ring(seq, i) == seq[((i - 1) % Len(seq)) + 1]
SignedArea(m, loop) ==
  Total([i \in DOMAIN loop |-> Turn(<<0, 0>>, m.points[loop[i]], m.points[Ring(loop, i + 1)])])
Inside(m, p, a, b, c, sign) ==
  /\ sign * Turn(m.points[a], m.points[b], m.points[p]) >= 0
  /\ sign * Turn(m.points[b], m.points[c], m.points[p]) >= 0
  /\ sign * Turn(m.points[c], m.points[a], m.points[p]) >= 0
Ears(m, rest, sign) ==
  {i \in DOMAIN rest :
     LET a == Ring(rest, i + Len(rest) - 1)
         b == rest[i]
         c == Ring(rest, i + 1)
     IN  /\ sign * Turn(m.points[a], m.points[b], m.points[c]) > 0
         /\ \A p \in ToSet(rest) \ {a, b, c} : ~Inside(m, p, a, b, c, sign)}
Ear(rest, i) == <<Ring(rest, i + Len(rest) - 1), rest[i], Ring(rest, i + 1)>>
Clipped(m, loop, sign) ==
  LET cuts == Len(loop) - 3
      rest[n \in 0 .. cuts] ==
        IF n = 0 THEN loop
        ELSE LET s == rest[n - 1]
                 ears == Ears(m, s, sign)
             IN  IF ears = {} THEN s ELSE RemoveAt(s, First(ears))
      stuck(n) == Ears(m, rest[n], sign) = {}
  IN  IF \E n \in 0 .. cuts - 1 : stuck(n) THEN <<>>
      ELSE Append([n \in 1 .. cuts |-> Ear(rest[n - 1], First(Ears(m, rest[n - 1], sign)))],
                  rest[cuts])
CutIntoEars(m, loop) ==
  CASE Len(loop) < 3 \/ SignedArea(m, loop) = 0 -> <<>>
    [] Len(loop) >= 3 /\ SignedArea(m, loop) > 0 -> Clipped(m, loop, 1)
    [] Len(loop) >= 3 /\ SignedArea(m, loop) < 0 -> Clipped(m, loop, -1)

(* _fill_small_holes: the loops in the order of their corners.             *)
SeqBefore(s, t) ==
  \E n \in 0 .. Len(s) :
    /\ n < Len(t)
    /\ \A i \in 1 .. n : s[i] = t[i]
    /\ n = Len(s) \/ s[n + 1] < t[n + 1]
FillSmallHoles(m) ==
  LET small == SmallLoops(Boundary(m.faces))
      loops == InOrder(small, [s \in small |-> {t \in small : SeqBefore(t, s)}])
  IN  MeshOf(m.points, m.faces \o FlattenSeq([i \in DOMAIN loops |-> CutIntoEars(m, loops[i])]))

-----------------------------------------------------------------------------
(* diagnose_mesh: the counts that are published, after points of the same  *)
(* place are welded.                                                       *)
Diagnosis(m) ==
  LET weld(i) == First({j \in DOMAIN m.points : m.points[j] = m.points[i]})
      welded == [n \in DOMAIN m.faces |-> [k \in 1 .. 3 |-> weld(m.faces[n][k])]]
      proper == {e \in UNION {EdgesOf(welded[n]) : n \in DOMAIN welded} : Cardinality(e) = 2}
      times(e) == Cardinality(Uses(welded, e))
  IN  [duplicatePoints |-> Len(m.points) - Cardinality(ToSet(m.points)),
       degenerate |-> Cardinality({n \in DOMAIN welded : Degenerate(m, welded[n])}),
       duplicateFaces |-> Len(welded) - Cardinality({Corners(welded[n]) : n \in DOMAIN welded}),
       components |-> Cardinality(Components(MeshOf(m.points, welded))),
       nonManifold |-> Cardinality({e \in proper : times(e) > 2}),
       open |-> Cardinality({e \in proper : times(e) = 1}),
       watertight |-> proper # {} /\ \A e \in proper : times(e) = 2]
=============================================================================
