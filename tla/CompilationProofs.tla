------------------------- MODULE CompilationProofs --------------------------
(***************************************************************************)
(* Theorems about the compilation of a graph of any length, of any         *)
(* features that the assumptions of Compilation allow.                     *)
(*                                                                         *)
(* A body is an interval with two faces and two edges, so that the records *)
(* made for a feature all find a shape (Whole, NthIsThere).  Between two   *)
(* features every record that resolves names a shape of the body           *)
(* (Consistent); within one, what was saved is still consistent, and the   *)
(* records have kept their places since (Tracks), which is what a rollback *)
(* in the middle of a feature needs.  The last part is the refinement of   *)
(* CompilationContract.                                                    *)
(***************************************************************************)
EXTENDS Compilation, FiniteSetTheorems, TLAPS

Interval(cells) == \E a, b \in Int : a <= b /\ cells = a..b

(* The shapes of a body: one in each of its places.                        *)
Whole(cells, sh) ==
  /\ \A s \in sh : Place(s) \in Places(cells)
  /\ \A p \in Places(cells) : \E s \in sh : Place(s) = p
  /\ \A s, t \in sh : Place(s) = Place(t) => s = t
BodyOK(cells, sh) ==
  \/ cells = NoBody /\ sh = {}
  \/ Interval(cells) /\ Whole(cells, sh)

(* A record of the registry.                                               *)
RecordOK(r) ==
  /\ r = [kind |-> r.kind, producer |-> r.producer, shape |-> r.shape, status |-> r.status,
          descriptor |-> r.descriptor]
  /\ r.kind \in {"solid", "face", "edge"} /\ r.status \in {"resolved", "unresolved"}
  /\ r.status = "resolved" <=> r.shape # NoShape
  /\ r.kind # "solid" /\ r.shape # NoShape =>
       r.descriptor.place = Place(r.shape) /\ r.shape.kind = r.kind
RecordsOK(reg) == \A id \in DOMAIN reg : RecordOK(reg[id]) /\ reg[id].producer = id[1]
OnBody(cells, sh, reg) ==
  \A id \in DOMAIN reg :
    reg[id].status = "resolved" =>
      /\ cells # NoBody
      /\ reg[id].kind # "solid" => reg[id].shape \in sh
Consistent(cells, sh, reg) == BodyOK(cells, sh) /\ RecordsOK(reg) /\ OnBody(cells, sh, reg)

(* Two registries of which the second has kept the places of the first.    *)
Tracks(old, new) ==
  /\ DOMAIN old \subseteq DOMAIN new
  /\ \A id \in DOMAIN old :
       /\ new[id].kind = old[id].kind
       /\ new[id].status = "resolved" =>
            /\ old[id].status = "resolved"
            /\ old[id].kind # "solid" => Place(new[id].shape) = Place(old[id].shape)

-----------------------------------------------------------------------------
(* Bodies.                                                                 *)

LEMMA Extremes ==
  ASSUME NEW c, Interval(c)
  PROVE  /\ Min(c) \in Int /\ Max(c) \in Int /\ Min(c) <= Max(c)
         /\ Min(c) \in c /\ Max(c) \in c /\ c \subseteq Int /\ c # {}
         /\ \A x \in c : Min(c) <= x /\ x <= Max(c)
<1>1. PICK a \in Int, b \in Int : a <= b /\ c = a..b
  BY DEF Interval
<1>2. a \in c /\ (\A y \in c : a <= y) /\ b \in c /\ (\A y \in c : b >= y)
  BY <1>1
<1>3. Min(c) \in c /\ \A y \in c : Min(c) <= y
  BY <1>2 DEF Min
<1>4. Max(c) \in c /\ \A y \in c : Max(c) >= y
  BY <1>2 DEF Max
<1> QED
  BY <1>1, <1>2, <1>3, <1>4

LEMMA SolidIsInterval ==
  ASSUME NEW c \in SUBSET Int, OneSolid(c) PROVE Interval(c)
<1>1. PICK a \in c, b \in c : c = a..b
  BY DEF OneSolid
<1> QED
  BY <1>1 DEF Interval

(* The places of a body, spelled out.                                      *)
LEMMA PlacesAre ==
  ASSUME NEW c, Interval(c), NEW p
  PROVE  p \in Places(c) <=>
           \E k \in {"face", "edge"} :
             \/ p = [kind |-> k, at |-> Min(c), side |-> -1]
             \/ p = [kind |-> k, at |-> Max(c) + 1, side |-> 1]
<1>1. ASSUME p \in Places(c)
      PROVE  \E k \in {"face", "edge"} :
               \/ p = [kind |-> k, at |-> Min(c), side |-> -1]
               \/ p = [kind |-> k, at |-> Max(c) + 1, side |-> 1]
  <2>1. PICK k \in {"face", "edge"}, e \in Ends(c) : p = [kind |-> k, at |-> e.at, side |-> e.side]
    BY <1>1 DEF Places
  <2>2. e = [at |-> Min(c), side |-> -1] \/ e = [at |-> Max(c) + 1, side |-> 1]
    BY <2>1 DEF Ends
  <2>3. CASE e = [at |-> Min(c), side |-> -1]
    BY <2>1, <2>3
  <2>4. CASE e = [at |-> Max(c) + 1, side |-> 1]
    BY <2>1, <2>4
  <2> QED
    BY <2>2, <2>3, <2>4
<1>2. ASSUME NEW k \in {"face", "edge"}, NEW e \in Ends(c),
             p = [kind |-> k, at |-> e.at, side |-> e.side]
      PROVE  p \in Places(c)
  BY <1>2 DEF Places
<1>3. /\ [at |-> Min(c), side |-> -1] \in Ends(c)
      /\ [at |-> Max(c) + 1, side |-> 1] \in Ends(c)
  BY DEF Ends
<1>4. ASSUME NEW k \in {"face", "edge"}, p = [kind |-> k, at |-> Min(c), side |-> -1]
      PROVE  p \in Places(c)
  <2>1. PICK e : e = [at |-> Min(c), side |-> -1]
    OBVIOUS
  <2> QED
    BY <2>1, <1>2, <1>3, <1>4
<1>5. ASSUME NEW k \in {"face", "edge"}, p = [kind |-> k, at |-> Max(c) + 1, side |-> 1]
      PROVE  p \in Places(c)
  <2>1. PICK e : e = [at |-> Max(c) + 1, side |-> 1]
    OBVIOUS
  <2> QED
    BY <2>1, <1>2, <1>3, <1>5
<1> QED
  BY <1>1, <1>4, <1>5

(* Either end of a kind, by its number.                                    *)
LEMMA NthIsThere ==
  ASSUME Interval(body), Whole(body, shapes), NEW k \in {"face", "edge"}, NEW n \in 1..2
  PROVE  Nth(k, n) \in shapes /\ Nth(k, n).kind = k
<1>1. /\ Min(body) \in Int /\ Max(body) \in Int /\ Min(body) <= Max(body)
  BY Extremes
<1>2. PICK p, q : /\ p = [kind |-> k, at |-> Min(body), side |-> -1]
                  /\ q = [kind |-> k, at |-> Max(body) + 1, side |-> 1]
  OBVIOUS
<1>3. p \in Places(body) /\ q \in Places(body)
  BY <1>2, PlacesAre
<1>4. PICK s \in shapes, t \in shapes : Place(s) = p /\ Place(t) = q
  BY <1>3 DEF Whole
<1>5. /\ s.kind = k /\ s.at = Min(body) /\ t.kind = k /\ t.at = Max(body) + 1
  BY <1>2, <1>4 DEF Place
<1>6. s \in OfKind(k) /\ t \in OfKind(k)
  BY <1>4, <1>5 DEF OfKind
<1>7. ASSUME NEW u \in OfKind(k) PROVE u = s \/ u = t
  <2>1. u \in shapes /\ u.kind = k /\ Place(u) \in Places(body)
    BY DEF OfKind, Whole
  <2>2. PICK m \in {"face", "edge"} :
          \/ Place(u) = [kind |-> m, at |-> Min(body), side |-> -1]
          \/ Place(u) = [kind |-> m, at |-> Max(body) + 1, side |-> 1]
    BY <2>1, PlacesAre
  <2>3. m = k
    BY <2>1, <2>2 DEF Place
  <2>4. Place(u) = p \/ Place(u) = q
    BY <2>2, <2>3, <1>2
  <2> QED
    BY <2>1, <2>4, <1>4 DEF Whole
<1>8. {u \in OfKind(k) : u.at < s.at} = {}
  BY <1>1, <1>5, <1>7
<1>9. {u \in OfKind(k) : u.at < t.at} = {s}
  BY <1>1, <1>5, <1>6, <1>7
<1>10. \E u \in OfKind(k) : Cardinality({w \in OfKind(k) : w.at < u.at}) = n - 1
  <2>1. CASE n = 1
    BY <2>1, <1>6, <1>8, FS_EmptySet
  <2>2. CASE n = 2
    <3>1. Cardinality({s}) = n - 1
      BY <2>2, FS_Singleton
    <3>2. Cardinality({u \in OfKind(k) : u.at < t.at}) = n - 1
      BY <3>1, <1>9
    <3> QED
      BY <3>2, <1>6
  <2> QED
    BY <2>1, <2>2
<1>11. Nth(k, n) \in OfKind(k)
  BY <1>10 DEF Nth
<1> QED
  BY <1>11 DEF OfKind

(* The shapes of a new body are one in each place.                         *)
LEMMA ShapedIsWhole ==
  ASSUME BodyOK(body, shapes), NEW c, Interval(c), NEW kept \in SUBSET Kept(c)
  PROVE  Whole(c, Shaped(c, kept))
<1> DEFINE New(p) == [kind |-> p.kind, at |-> p.at, side |-> p.side, made |-> at]
<1>1. \A s, t \in kept : Place(s) = Place(t) => s = t
  BY DEF Kept, BodyOK, Whole
<1>2. \A s \in kept : Place(s) \in Places(c)
  BY DEF Kept
<1>3. \A p \in Places(c) : Place(New(p)) = p
  <2> TAKE p \in Places(c)
  <2>1. PICK k, e : p = [kind |-> k, at |-> e.at, side |-> e.side]
    BY DEF Places
  <2> QED
    BY <2>1 DEF Place
<1>4. \A s : s \in Shaped(c, kept) <=>
        \/ s \in kept
        \/ \E p \in Places(c) : p \notin {Place(u) : u \in kept} /\ s = New(p)
  BY DEF Shaped
<1> HIDE DEF New
<1>5. \A s \in Shaped(c, kept) : Place(s) \in Places(c)
  BY <1>2, <1>3, <1>4
<1>6. \A p \in Places(c) : \E s \in Shaped(c, kept) : Place(s) = p
  <2> TAKE p \in Places(c)
  <2>1. CASE p \in {Place(u) : u \in kept}
    BY <2>1, <1>4
  <2>2. CASE p \notin {Place(u) : u \in kept}
    BY <2>2, <1>3, <1>4
  <2> QED
    BY <2>1, <2>2
<1>7. \A s, t \in Shaped(c, kept) : Place(s) = Place(t) => s = t
  <2> SUFFICES ASSUME NEW s \in Shaped(c, kept), NEW t \in Shaped(c, kept), Place(s) = Place(t)
               PROVE  s = t
    OBVIOUS
  <2>1. CASE s \in kept /\ t \in kept
    BY <2>1, <1>1
  <2>2. CASE s \notin kept /\ t \notin kept
    BY <2>2, <1>3, <1>4
  <2>3. CASE s \in kept /\ t \notin kept
    BY <2>3, <1>3, <1>4
  <2>4. CASE s \notin kept /\ t \in kept
    BY <2>4, <1>3, <1>4
  <2> QED
    BY <2>1, <2>2, <2>3, <2>4
<1> QED
  BY <1>5, <1>6, <1>7 DEF Whole

-----------------------------------------------------------------------------
(* What a feature builds.                                                  *)

Cells(tool) == tool.ok => tool.cells \in SUBSET Int
Outcome(result) ==
  result.ok =>
    /\ Interval(result.cells)
    /\ result.work.tool \in SUBSET Int /\ result.work.mode \in BooleanModes
    /\ result.work.dir \in {-1, 0, 1}
(* What the valid features left.                                           *)
StatesOK ==
  \A i \in DOMAIN states :
    /\ states[i].tool \in SUBSET Int /\ states[i].mode \in BooleanModes
    /\ states[i].before = NoBody \/ Interval(states[i].before)

LEMMA SweptCells ==
  ASSUME NEW from \in Int, NEW dir, NEW length \in Int PROVE Cells(Swept(from, dir, length))
  BY DEF Swept, Cells, Makes, Fails

LEMMA BooleanOutcome ==
  ASSUME NEW old, old = NoBody \/ Interval(old), NEW tool \in SUBSET Int, NEW mode \in BooleanModes,
         NEW dir \in {-1, 0, 1}
  PROVE  Outcome(ApplyBoolean(old, tool, mode, dir))
<1>1. old \in SUBSET Int
  BY Extremes DEF NoBody
<1>2. PICK new : new = CASE mode = "base" -> tool
                         [] mode = "additive" -> old \cup tool
                         [] mode = "subtractive" -> old \ tool
  OBVIOUS
<1>3. new \in SUBSET Int
  BY <1>1, <1>2 DEF BooleanModes
<1>4. CASE ~ApplyBoolean(old, tool, mode, dir).ok
  BY <1>4 DEF Outcome
<1>5. CASE ApplyBoolean(old, tool, mode, dir).ok
  <2>1. OneSolid(new) /\ ApplyBoolean(old, tool, mode, dir) = Built(new, tool, mode, dir)
    BY <1>2, <1>5 DEF ApplyBoolean, Fails
  <2>2. PICK r : r = ApplyBoolean(old, tool, mode, dir)
    OBVIOUS
  <2>3. r.cells = new /\ r.work.tool = tool /\ r.work.mode = mode /\ r.work.dir = dir
    BY <2>1, <2>2 DEF Built
  <2>4. Interval(new)
    BY <1>3, <2>1, SolidIsInterval
  <2>5. Outcome(r)
    BY <2>3, <2>4 DEF Outcome
  <2> QED
    BY <2>2, <2>5
<1> QED
  BY <1>4, <1>5

LEMMA ToolOutcome ==
  ASSUME body = NoBody \/ Interval(body), NEW tool, Cells(tool), tool.ok \in BOOLEAN,
         NEW mode \in BooleanModes, NEW dir \in {-1, 0, 1}
  PROVE  Outcome(WithTool(tool, mode, dir))
<1>1. CASE tool.ok
  BY <1>1, BooleanOutcome DEF WithTool, Cells
<1>2. CASE ~tool.ok
  BY <1>2 DEF WithTool, Outcome
<1> QED
  BY <1>1, <1>2

LEMMA ThroughCells ==
  ASSUME Interval(body) PROVE Cells(Through) /\ Through.ok \in BOOLEAN
  BY Extremes DEF Through, Cells, Makes

LEMMA ToFaceCells ==
  ASSUME Consistent(body, shapes, registry), NEW f \in Menu
  PROVE  Cells(ToFace(f)) /\ ToFace(f).ok \in BOOLEAN
<1>1. f.at \in Int /\ f.dir \in {-1, 1}
  BY MenuAssumption
<1>2. CASE body = NoBody
  BY <1>2 DEF ToFace, Cells, Fails
<1>3. CASE ~Required(f.target, "face")
  BY <1>3 DEF ToFace, Cells, Fails
<1>4. CASE body # NoBody /\ Required(f.target, "face")
  <2>1. PICK s \in shapes : registry[f.target].shape = s
    BY <1>4 DEF Required, Consistent, OnBody
  <2>2. Interval(body) /\ Place(s) \in Places(body)
    BY <1>4, <2>1 DEF Consistent, BodyOK, Whole
  <2>3. Min(body) \in Int /\ Max(body) \in Int
    BY <2>2, Extremes
  <2>4. s.at \in Int
    BY <2>2, <2>3, PlacesAre DEF Place
  <2>5. PICK d \in Int : d = (s.at - f.at) * f.dir
    BY <1>1, <2>4
  <2>6. ToFace(f) = IF d <= 0 THEN Fails("to_face_behind_profile") ELSE Swept(f.at, f.dir, d)
    BY <1>4, <2>1, <2>5 DEF ToFace
  <2>7. Swept(f.at, f.dir, d).ok \in BOOLEAN
    BY DEF Swept, Fails, Makes
  <2>8. Cells(Swept(f.at, f.dir, d))
    BY <1>1, SweptCells
  <2>9. CASE d <= 0
    BY <2>6, <2>9 DEF Cells, Fails
  <2>10. CASE ~(d <= 0)
    BY <2>6, <2>7, <2>8, <2>10
  <2> QED
    BY <2>9, <2>10
<1> QED
  BY <1>2, <1>3, <1>4

LEMMA ExtrusionCells ==
  ASSUME Consistent(body, shapes, registry), NEW f \in Menu
  PROVE  Cells(ExtrusionTool(f)) /\ ExtrusionTool(f).ok \in BOOLEAN
<1>1. f.at \in Int /\ f.dir \in {-1, 1} /\ f.distance \in Int /\ f.extent \in Extents
  BY MenuAssumption
<1>2. CASE f.extent = "blind"
  BY <1>1, <1>2 DEF ExtrusionTool, Swept, Cells, Makes, Fails
<1>3. CASE f.extent = "symmetric"
  <2>1. PICK from \in Int : from = f.at - f.dir * (f.distance \div 2)
    BY <1>1
  <2>2. ExtrusionTool(f) = Swept(from, f.dir, f.distance)
    BY <1>3, <2>1 DEF ExtrusionTool
  <2> QED
    BY <1>1, <2>2 DEF Swept, Cells, Makes, Fails
<1>4. CASE f.extent = "throughAll"
  <2>1. CASE body = NoBody
    BY <1>4, <2>1 DEF ExtrusionTool, Cells, Fails
  <2>2. CASE body # NoBody
    <3>1. ExtrusionTool(f) = Through
      BY <1>4, <2>2 DEF ExtrusionTool
    <3> QED
      BY <2>2, <3>1, ThroughCells DEF Consistent, BodyOK
  <2> QED
    BY <2>1, <2>2
<1>5. CASE f.extent = "toFace"
  <2>1. ExtrusionTool(f) = ToFace(f)
    BY <1>5 DEF ExtrusionTool
  <2> QED
    BY <2>1, ToFaceCells
<1> QED
  BY <1>1, <1>2, <1>3, <1>4, <1>5 DEF Extents

LEMMA ArtifactCells ==
  ASSUME NEW f \in Menu
  PROVE  Cells(ArtifactTool(f)) /\ ArtifactTool(f).ok \in BOOLEAN
  BY MenuAssumption DEF ArtifactTool, Swept, Cells, Makes, Fails

LEMMA HoleCells ==
  ASSUME Interval(body), NEW f \in Menu
  PROVE  Cells(HoleTool(f)) /\ HoleTool(f).ok \in BOOLEAN
<1>1. CASE f.extent = "throughAll"
  BY <1>1, ThroughCells DEF HoleTool
<1>2. CASE f.extent # "throughAll"
  BY <1>2, MenuAssumption DEF HoleTool, Swept, Cells, Makes, Fails
<1> QED
  BY <1>1, <1>2

(* Sources are valid features of one mode.                                 *)
LEMMA OneMode ==
  ASSUME StatesOK, NEW f, Available(f), Cardinality(Modes(f)) = 1
  PROVE  ModeOf(f) \in BooleanModes /\ f.sources # {}
<1>1. Modes(f) # {}
  <2> SUFFICES ASSUME Modes(f) = {} PROVE FALSE
    OBVIOUS
  <2>1. Cardinality(Modes(f)) = 0
    BY FS_EmptySet
  <2> QED
    BY <2>1
<1>2. ModeOf(f) \in Modes(f)
  BY <1>1 DEF ModeOf
<1> QED
  BY <1>1, <1>2 DEF Modes, Available, StatesOK

LEMMA PatternOutcome ==
  ASSUME StatesOK, body = NoBody \/ Interval(body), NEW f \in Menu
  PROVE  Outcome(PatternFeature(f))
<1>1. f.shift \in Int /\ f.dir \in {-1, 0, 1}
  BY MenuAssumption
<1>2. CASE ~Available(f)
  BY <1>2 DEF PatternFeature, Outcome, Fails
<1>3. CASE Cardinality(Modes(f)) # 1 \/ "base" \in Modes(f)
  BY <1>3 DEF PatternFeature, Outcome, Fails
<1>4. CASE Available(f) /\ Cardinality(Modes(f)) = 1 /\ "base" \notin Modes(f)
  <2>1. PICK tool : tool = UNION {Shifted(states[i].tool, f.shift) : i \in f.sources}
    OBVIOUS
  <2>2. \A i \in f.sources : states[i].tool \in SUBSET Int
    BY <1>4 DEF Available, StatesOK
  <2>3. \A i \in f.sources : Shifted(states[i].tool, f.shift) \in SUBSET Int
    BY <1>1, <2>2 DEF Shifted
  <2>4. tool \in SUBSET Int
    BY <2>1, <2>3
  <2>5. ModeOf(f) \in BooleanModes
    BY <1>4, OneMode
  <2>6. PatternFeature(f) = ApplyBoolean(body, tool, ModeOf(f), f.dir)
    BY <1>4, <2>1 DEF PatternFeature
  <2>7. PICK mode \in BooleanModes : mode = ModeOf(f)
    BY <2>5
  <2>8. Outcome(ApplyBoolean(body, tool, mode, f.dir))
    BY <1>1, <2>4, BooleanOutcome
  <2> QED
    BY <2>6, <2>7, <2>8
<1> QED
  BY <1>2, <1>3, <1>4

LEMMA MirrorOutcome ==
  ASSUME StatesOK, body = NoBody \/ Interval(body), NEW f \in Menu
  PROVE  Outcome(MirrorFeature(f))
<1>1. f.at \in Int /\ f.dir \in {-1, 0, 1}
  BY MenuAssumption
<1>2. CASE ~MirrorFeature(f).ok
  BY <1>2 DEF Outcome
<1>3. CASE MirrorFeature(f).ok
  <2>1. Available(f) /\ Cardinality(Modes(f)) = 1 /\ MirrorFeature(f) = Mirrored(f)
    BY <1>3 DEF MirrorFeature, Fails
  <2>2. PICK tool : tool = UNION {Reflected(states[i].tool, f.at) : i \in f.sources}
    OBVIOUS
  <2>3. \A i \in f.sources : states[i].tool \in SUBSET Int
    BY <2>1 DEF Available, StatesOK
  <2>4. \A i \in f.sources : Reflected(states[i].tool, f.at) \in SUBSET Int
    BY <1>1, <2>3 DEF Reflected
  <2>5. tool \in SUBSET Int
    BY <2>2, <2>4
  <2>6. PICK mode \in BooleanModes : mode = ModeOf(f)
    BY <2>1, OneMode
  <2>7. PICK only : only = CHOOSE i \in f.sources : TRUE
    OBVIOUS
  <2>8. only \in f.sources
    BY <2>1, <2>7, OneMode
  <2>9. PICK before : before = states[only].before
    OBVIOUS
  <2>10. before = NoBody \/ Interval(before)
    BY <2>1, <2>8, <2>9 DEF Available, StatesOK
  <2>11. PICK m \in BooleanModes : m = IF mode = "base" THEN "additive" ELSE mode
    BY DEF BooleanModes
  <2>12. \/ Mirrored(f) = ApplyBoolean(NoBody, tool, "base", f.dir)
         \/ Mirrored(f) = ApplyBoolean(before, tool, mode, f.dir)
         \/ Mirrored(f) = ApplyBoolean(body, tool, m, f.dir)
    BY <2>2, <2>6, <2>7, <2>9, <2>11 DEF Mirrored
  <2>13. Outcome(ApplyBoolean(NoBody, tool, "base", f.dir))
    BY <1>1, <2>5, BooleanOutcome DEF BooleanModes
  <2>14. Outcome(ApplyBoolean(before, tool, mode, f.dir))
    BY <1>1, <2>5, <2>10, BooleanOutcome
  <2>15. Outcome(ApplyBoolean(body, tool, m, f.dir))
    BY <1>1, <2>5, BooleanOutcome
  <2> QED
    BY <2>1, <2>12, <2>13, <2>14, <2>15
<1> QED
  BY <1>2, <1>3

LEMMA FinishingOutcome ==
  ASSUME Interval(body), NEW f PROVE Outcome(FinishingFeature(f))
<1>1. body \in SUBSET Int
  BY Extremes
<1>2. PICK took : took = {IF registry[f.target].shape.side = 1 THEN registry[f.target].shape.at - 1
                          ELSE registry[f.target].shape.at}
  OBVIOUS
<1>3. CASE ~Required(f.target, "edge") \/ ~OneSolid(body \ took)
  BY <1>2, <1>3 DEF FinishingFeature, Outcome, Fails
<1>4. CASE Required(f.target, "edge") /\ OneSolid(body \ took)
  <2>1. PICK r : r = FinishingFeature(f)
    OBVIOUS
  <2>2. r.cells = body \ took /\ r.work.tool = took \cap body
        /\ r.work.mode = "subtractive" /\ r.work.dir = 0
    BY <1>2, <1>4, <2>1 DEF FinishingFeature, Built
  <2>3. Interval(body \ took)
    BY <1>1, <1>4, SolidIsInterval
  <2>4. Outcome(r)
    BY <1>1, <2>2, <2>3 DEF Outcome, BooleanModes
  <2> QED
    BY <2>1, <2>4
<1> QED
  BY <1>3, <1>4

LEMMA BuildOutcome ==
  ASSUME Consistent(body, shapes, registry), StatesOK, NEW f \in Menu
  PROVE  Outcome(BuildFeature(f))
<1>1. /\ f.op \in Operations /\ f.mode \in BooleanModes /\ f.dir \in {-1, 0, 1} /\ f.at \in Int
      /\ f.distance \in Int /\ (body = NoBody \/ Interval(body))
  BY MenuAssumption DEF Consistent, BodyOK
<1>2. CASE body = NoBody /\ f.op \notin {"extrusion", "revolution", "imported", "network"}
  <2>1. BuildFeature(f) = Fails("missing_base_body")
    BY <1>2 DEF BuildFeature
  <2> QED
    BY <2>1 DEF Outcome, Fails
<1>3. CASE f.op = "extrusion"
  BY <1>1, <1>3, ExtrusionCells, ToolOutcome DEF BuildFeature
<1>4. CASE f.op = "revolution"
  <2>1. PICK t : t = Swept(f.at, f.dir, f.distance)
    OBVIOUS
  <2>2. Cells(t) /\ t.ok \in BOOLEAN
    BY <1>1, <2>1 DEF Swept, Cells, Makes, Fails
  <2>3. BuildFeature(f) = WithTool(t, f.mode, f.dir)
    BY <1>4, <2>1 DEF BuildFeature
  <2> QED
    BY <1>1, <2>2, <2>3, ToolOutcome
<1>5. CASE f.op = "pocket" /\ body # NoBody
  BY <1>1, <1>5, ExtrusionCells, ToolOutcome DEF BuildFeature, BooleanModes
<1>6. CASE f.op = "hole" /\ body # NoBody
  BY <1>1, <1>6, HoleCells, ToolOutcome DEF BuildFeature, BooleanModes
<1>7. CASE f.op = "pattern" /\ body # NoBody
  BY <1>1, <1>7, PatternOutcome DEF BuildFeature
<1>8. CASE f.op = "mirror" /\ body # NoBody
  BY <1>1, <1>8, MirrorOutcome DEF BuildFeature
<1>9. CASE f.op = "finish" /\ body # NoBody
  BY <1>1, <1>9, FinishingOutcome DEF BuildFeature
<1>10. CASE f.op = "imported"
  BY <1>1, <1>10, ArtifactCells, ToolOutcome DEF BuildFeature
<1>11. CASE f.op = "network"
  BY <1>1, <1>11, ArtifactCells, ToolOutcome DEF BuildFeature, BooleanModes
<1> QED
  BY <1>1, <1>2, <1>3, <1>4, <1>5, <1>6, <1>7, <1>8, <1>9, <1>10, <1>11 DEF Operations

-----------------------------------------------------------------------------
(* The invariant.                                                          *)

Entries == [feature : Nat, status : {"valid", "suppressed", "failed"}]
Producers(reg) == {reg[id].producer : id \in DOMAIN reg}
ValidSoFar == {i \in DOMAIN records : Valid(i)}
Working == phase \in {"built", "validated", "remapped", "registered"}

GraphOK == at \in Nat \ {0} /\ \A i \in DOMAIN graph : graph[i] \in Menu
RecordsInOrder ==
  /\ phase \in {"next", "built", "validated", "remapped", "registered", "failed", "stopped"}
  /\ records \in Seq(Entries)
  /\ Len(records) = IF phase = "stopped" THEN at ELSE at - 1
  /\ \A i \in DOMAIN records :
       records[i].status = "failed" => phase = "stopped" /\ i = Len(records)
(* What the feature in hand is working on.                                 *)
InHand ==
  Working => at \in DOMAIN graph /\ work.tool \in SUBSET Int /\ work.mode \in BooleanModes
             /\ work.dir \in {-1, 0, 1}
StatesInOrder ==
  /\ StatesOK
  /\ \A i \in DOMAIN states : i \in Nat \ {0} /\ i <= lastValid
  /\ lastValid \in 0..(at - 1)
  /\ lastValid # 0 => lastValid \in DOMAIN states
LastBody == IF lastValid = 0 THEN NoBody ELSE states[lastValid].after
(* The body and the registry, between two features and within one.         *)
Settled(cells, sh, reg) ==
  Consistent(cells, sh, reg) /\ cells = LastBody /\ Producers(reg) = ValidSoFar
Current ==
  /\ Between => Settled(body, shapes, registry)
  /\ ~Between => Settled(saved.body, saved.shapes, saved.registry)
                   /\ Tracks(saved.registry, registry)
  /\ Working => Interval(body) /\ Whole(body, shapes)
  /\ phase \in {"built", "validated"} => registry = saved.registry
  /\ phase = "remapped" =>
       RecordsOK(registry) /\ OnBody(body, shapes, registry) /\ Producers(registry) = ValidSoFar
  /\ phase = "registered" =>
       /\ RecordsOK(registry) /\ OnBody(body, shapes, registry)
       /\ Producers(registry) = ValidSoFar \cup {at}
Replacing ==
  Working /\ This.op = "mirror" /\ ~This.keep => This.sources = {lastValid}

CompilationInv ==
  GraphOK /\ RecordsInOrder /\ InHand /\ StatesInOrder /\ Current /\ Replacing
    /\ NothingElseIsUndone

-----------------------------------------------------------------------------
(* Records.                                                                *)

LEMMA TracksItself ==
  ASSUME NEW reg PROVE Tracks(reg, reg)
  BY DEF Tracks

(* A remapped record is still in its place, or does not resolve.           *)
LEMMA RemappedStays ==
  ASSUME NEW r, RecordOK(r), NEW now, NEW m, m = Remapped(r, now)
  PROVE  /\ RecordOK(m) /\ m.kind = r.kind /\ m.producer = r.producer
         /\ m.status = "resolved" =>
              /\ r.status = "resolved"
              /\ r.kind # "solid" => Place(m.shape) = Place(r.shape) /\ m.shape \in now
<1> DEFINE same  == {s \in now : s = r.shape}
           exact == {s \in now : Descriptor(s, TRUE) = r.descriptor}
<1>1. r = [kind |-> r.kind, producer |-> r.producer, shape |-> r.shape, status |-> r.status,
           descriptor |-> r.descriptor]
  BY DEF RecordOK
<1>2. CASE r.shape = NoShape \/ r.kind = "solid"
  <2>1. m = r
    BY <1>2 DEF Remapped
  <2> QED
    BY <1>2, <2>1 DEF RecordOK
<1>3. CASE r.shape # NoShape /\ r.kind # "solid" /\ same # {}
  <2>1. m = [r EXCEPT !.descriptor = Descriptor(r.shape, TRUE)]
    BY <1>3 DEF Remapped
  <2>2. PICK d : d = Descriptor(r.shape, TRUE)
    OBVIOUS
  <2>3. d.place = Place(r.shape)
    BY <2>2 DEF Descriptor
  <2>6. m = [kind |-> r.kind, producer |-> r.producer, shape |-> r.shape, status |-> r.status,
             descriptor |-> d]
    BY <1>1, <2>1, <2>2
  <2>4. r.shape \in now
    BY <1>3
  <2>5. /\ m.kind = r.kind /\ m.producer = r.producer /\ m.shape = r.shape
        /\ m.status = r.status /\ m.descriptor.place = Place(r.shape)
        /\ m = [kind |-> m.kind, producer |-> m.producer, shape |-> m.shape,
                status |-> m.status, descriptor |-> m.descriptor]
    BY <2>6, <2>3
  <2> QED
    BY <1>3, <2>4, <2>5 DEF RecordOK
<1>4. CASE r.shape # NoShape /\ r.kind # "solid" /\ same = {} /\ Cardinality(exact) = 1
  <2>1. exact # {}
    <3> SUFFICES ASSUME exact = {} PROVE FALSE
      OBVIOUS
    <3>1. Cardinality(exact) = 0
      BY FS_EmptySet
    <3> QED
      BY <3>1, <1>4
  <2>2. PICK s : s = CHOOSE u \in exact : TRUE
    OBVIOUS
  <2>3. s \in now /\ Descriptor(s, TRUE) = r.descriptor
    BY <2>1, <2>2
  <2>4. m = [r EXCEPT !.shape = s]
    BY <1>4, <2>2 DEF Remapped
  <2>5. m = [kind |-> r.kind, producer |-> r.producer, shape |-> s, status |-> r.status,
             descriptor |-> r.descriptor]
    BY <1>1, <2>4
  <2>6. Place(s) = r.descriptor.place /\ Place(s) = Place(r.shape)
    BY <1>4, <2>3 DEF Descriptor, RecordOK
  <2>7. s.kind = r.shape.kind /\ r.shape.kind = r.kind
    BY <1>4, <2>6 DEF Place, RecordOK
  <2>8. s # NoShape /\ r.status = "resolved"
    BY <1>4, <2>7 DEF RecordOK, NoShape
  <2>9. /\ m.kind = r.kind /\ m.producer = r.producer /\ m.shape = s
        /\ m.status = r.status /\ m.descriptor = r.descriptor
        /\ m = [kind |-> m.kind, producer |-> m.producer, shape |-> m.shape,
                status |-> m.status, descriptor |-> m.descriptor]
    BY <2>5
  <2> QED
    BY <1>4, <2>3, <2>6, <2>7, <2>8, <2>9 DEF RecordOK
<1>5. CASE r.shape # NoShape /\ r.kind # "solid" /\ same = {} /\ Cardinality(exact) # 1
  <2>1. m = [r EXCEPT !.shape = NoShape, !.status = "unresolved"]
    BY <1>5 DEF Remapped
  <2>2. PICK d : d = [r EXCEPT !.shape = NoShape]
    OBVIOUS
  <2>3. d = [kind |-> r.kind, producer |-> r.producer, shape |-> NoShape, status |-> r.status,
             descriptor |-> r.descriptor]
    BY <1>1, <2>2
  <2>4. m = [kind |-> r.kind, producer |-> r.producer, shape |-> NoShape,
             status |-> "unresolved", descriptor |-> r.descriptor]
    BY <2>1, <2>2, <2>3
  <2> QED
    BY <2>4 DEF RecordOK
<1> QED
  BY <1>2, <1>3, <1>4, <1>5

LEMMA RecordMade ==
  ASSUME NEW kind, NEW shape,
         \/ kind = "solid" /\ shape = Solid
         \/ kind \in {"face", "edge"} /\ (shape = NoShape \/ shape.kind = kind)
  PROVE  RecordOK(Record(kind, shape)) /\ Record(kind, shape).producer = at
           /\ Record(kind, shape).kind = kind /\ Record(kind, shape).shape = shape
<1>1. PICK d : d = IF shape.kind \in {"face", "edge"} THEN Descriptor(shape, FALSE)
                   ELSE [place |-> NoShape, neighbours |-> FALSE]
  OBVIOUS
<1>2. PICK t : t = IF shape = NoShape THEN "unresolved" ELSE "resolved"
  OBVIOUS
<1>3. Record(kind, shape) =
        [kind |-> kind, producer |-> at, shape |-> shape, status |-> t, descriptor |-> d]
  BY <1>1, <1>2 DEF Record
<1>4. kind # "solid" /\ shape # NoShape => d.place = Place(shape) /\ shape.kind = kind
  BY <1>1 DEF Descriptor
<1> QED
  BY <1>2, <1>3, <1>4 DEF RecordOK

(* The face at either end.                                                 *)
LEMMA FaceAt ==
  ASSUME Interval(body), Whole(body, shapes), NEW side \in {-1, 1}
  PROVE  \E s \in OfKind("face") : s.side = side
<1>1. PICK p : p = IF side = 1 THEN [kind |-> "face", at |-> Max(body) + 1, side |-> 1]
                   ELSE [kind |-> "face", at |-> Min(body), side |-> -1]
  OBVIOUS
<1>2. p \in Places(body)
  BY <1>1, PlacesAre
<1>3. PICK s \in shapes : Place(s) = p
  BY <1>2 DEF Whole
<1>4. s.kind = "face" /\ s.side = side
  BY <1>1, <1>3 DEF Place
<1> QED
  BY <1>3, <1>4 DEF OfKind

LEMMA SelectedIsThere ==
  ASSUME Interval(body), Whole(body, shapes), NEW f \in Menu, f.kind # "solid",
         work.dir \in {-1, 0, 1}
  PROVE  \/ Selected(f) = NoShape
         \/ Selected(f) \in shapes /\ Selected(f).kind = f.kind
<1>1. f.kind \in {"face", "edge"}
  BY MenuAssumption
<1>2. CASE f.kind = "face" /\ f.declares = "top" /\ work.dir # 0
  <2>1. \E s : s \in Along(work.dir, 1)
    BY <1>2, FaceAt DEF Along
  <2>2. Selected(f) \in Along(work.dir, 1)
    BY <1>2, <2>1 DEF Selected
  <2> QED
    BY <1>2, <2>2 DEF Along, OfKind
<1>3. CASE f.kind = "face" /\ f.declares = "bottom" /\ work.dir # 0
  <2>1. \E s : s \in Along(work.dir, -1)
    BY <1>3, FaceAt DEF Along
  <2>2. Selected(f) \in Along(work.dir, -1)
    BY <1>3, <2>1 DEF Selected
  <2> QED
    BY <1>3, <2>2 DEF Along, OfKind
<1>4. CASE /\ ~(f.kind = "face" /\ f.declares \in {"top", "bottom"} /\ work.dir # 0)
           /\ f.declares = "second"
  <2>1. Selected(f) = Nth(f.kind, 2)
    BY <1>4 DEF Selected
  <2> QED
    BY <1>1, <2>1, NthIsThere
<1>5. CASE /\ ~(f.kind = "face" /\ f.declares \in {"top", "bottom"} /\ work.dir # 0)
           /\ f.declares # "second"
  BY <1>5 DEF Selected
<1> QED
  BY <1>2, <1>3, <1>4, <1>5

(* The records of a feature.                                               *)
LEMMA RegisteredIsThere ==
  ASSUME Interval(body), Whole(body, shapes), NEW f \in Menu, work.dir \in {-1, 0, 1}
  PROVE  /\ <<at, "solid">> \in DOMAIN Registered(f)
         /\ \A id \in DOMAIN Registered(f) :
              /\ RecordOK(Registered(f)[id])
              /\ Registered(f)[id].producer = at /\ id[1] = at
              /\ Registered(f)[id].status = "resolved" /\ Registered(f)[id].kind # "solid" =>
                   Registered(f)[id].shape \in shapes
<1>0. f.kind # "solid" =>
        Selected(f) = NoShape \/ (Selected(f) \in shapes /\ Selected(f).kind = f.kind)
  BY SelectedIsThere
<1> DEFINE numbered == IF Faceted(f) THEN {} ELSE {<<at, k, n>> : k \in {"face", "edge"}, n \in 1..2}
           declared == IF f.declares = NoRole THEN {} ELSE {<<at, "declared">>}
           ids == {<<at, "solid">>} \cup numbered \cup declared
           rec(id) == IF id = <<at, "solid">> THEN Record("solid", Solid)
                      ELSE IF id \in declared THEN Record(f.kind, Selected(f))
                      ELSE Record(id[2], Nth(id[2], id[3]))
<1>1. Registered(f) = [id \in ids |-> rec(id)]
  BY DEF Registered
<1>2. ASSUME NEW id \in ids
      PROVE  /\ RecordOK(rec(id)) /\ rec(id).producer = at /\ id[1] = at
             /\ rec(id).status = "resolved" /\ rec(id).kind # "solid" => rec(id).shape \in shapes
  <2>1. CASE id = <<at, "solid">>
    <3>1. rec(id) = Record("solid", Solid)
      BY <2>1
    <3> QED
      BY <2>1, <3>1, RecordMade
  <2>2. CASE id # <<at, "solid">> /\ id \in declared
    <3>1. rec(id) = Record(f.kind, Selected(f)) /\ id[1] = at
      BY <2>2
    <3>2. CASE f.kind = "solid"
      <4>1. Selected(f) = Solid
        BY <3>2 DEF Selected
      <4> QED
        BY <3>1, <3>2, <4>1, RecordMade
    <3>3. CASE f.kind # "solid"
      <4>1. f.kind \in {"face", "edge"}
        BY <3>3, MenuAssumption
      <4>2. Selected(f) = NoShape \/ (Selected(f) \in shapes /\ Selected(f).kind = f.kind)
        BY <3>3, <1>0
      <4>3. /\ RecordOK(rec(id)) /\ rec(id).producer = at /\ rec(id).shape = Selected(f)
        BY <3>1, <4>1, <4>2, RecordMade
      <4> QED
        BY <3>1, <4>2, <4>3 DEF RecordOK
    <3> QED
      BY <3>2, <3>3
  <2>3. CASE id # <<at, "solid">> /\ id \notin declared
    <3>1. PICK k \in {"face", "edge"}, n \in 1..2 : id = <<at, k, n>>
      BY <2>3
    <3>2. rec(id) = Record(k, Nth(k, n)) /\ id[1] = at
      BY <2>3, <3>1
    <3>3. Nth(k, n) \in shapes /\ Nth(k, n).kind = k
      BY NthIsThere
    <3> QED
      BY <3>2, <3>3, RecordMade
  <2> QED
    BY <2>1, <2>2, <2>3
<1>3. <<at, "solid">> \in ids
  OBVIOUS
<1> HIDE DEF ids, rec
<1> QED
  BY <1>1, <1>2, <1>3

-----------------------------------------------------------------------------
(* What the steps of a feature have in common.                             *)

Frame == UNCHANGED <<graph, at, states, records, lastValid>>

LEMMA FrameKeeps ==
  ASSUME CompilationInv, Frame, phase # "stopped",
         phase' \in {"next", "built", "validated", "remapped", "registered", "failed"}
  PROVE  /\ GraphOK' /\ RecordsInOrder' /\ StatesInOrder' /\ NothingElseIsUndone'
         /\ LastBody' = LastBody /\ ValidSoFar' = ValidSoFar
<1>1. graph' = graph /\ at' = at /\ states' = states /\ records' = records
      /\ lastValid' = lastValid
  BY DEF Frame
<1>2. GraphOK'
  BY <1>1 DEF CompilationInv, GraphOK
<1>3. RecordsInOrder'
  BY <1>1 DEF CompilationInv, RecordsInOrder
<1>4. StatesInOrder'
  BY <1>1 DEF CompilationInv, StatesInOrder, StatesOK
<1>5. NothingElseIsUndone'
  BY <1>1 DEF CompilationInv, NothingElseIsUndone
<1>6. LastBody' = LastBody
  BY <1>1 DEF LastBody
<1>7. ValidSoFar' = ValidSoFar
  BY <1>1 DEF ValidSoFar, Valid
<1> QED
  BY <1>2, <1>3, <1>4, <1>5, <1>6, <1>7

(* One more record.                                                        *)
LEMMA EntryAdded ==
  ASSUME CompilationInv, phase # "stopped", NEW status \in {"valid", "suppressed", "failed"},
         records' = Entry(status)
  PROVE  /\ records' \in Seq(Entries) /\ Len(records') = at /\ DOMAIN records' = 1..at
         /\ \A i \in 1..(at - 1) : records'[i] = records[i]
         /\ records'[at] = [feature |-> at, status |-> status]
         /\ ValidSoFar \in SUBSET (1..(at - 1))
         /\ ValidSoFar' = IF status = "valid" THEN ValidSoFar \cup {at} ELSE ValidSoFar
<1>1. /\ at \in Nat \ {0} /\ records \in Seq(Entries) /\ Len(records) = at - 1
  BY DEF CompilationInv, GraphOK, RecordsInOrder
<1>2. PICK e : e = [feature |-> at, status |-> status]
  OBVIOUS
<1>3. e \in Entries /\ records' = Append(records, e) /\ e.status = status
  BY <1>1, <1>2 DEF Entries, Entry
<1>4. /\ records' \in Seq(Entries) /\ Len(records') = at /\ DOMAIN records' = 1..at
      /\ DOMAIN records = 1..(at - 1)
      /\ \A i \in 1..(at - 1) : records'[i] = records[i]
      /\ records'[at] = e
  BY <1>1, <1>3
<1>5. ValidSoFar = {i \in 1..(at - 1) : records[i].status = "valid"}
  BY <1>4 DEF ValidSoFar, Valid
<1>6. ValidSoFar' = {i \in 1..at : records'[i].status = "valid"}
  BY <1>4 DEF ValidSoFar, Valid
<1>7. \A i : i \in 1..at <=> i \in 1..(at - 1) \/ i = at
  BY <1>1
<1>8. ASSUME NEW i
      PROVE  i \in ValidSoFar' <=> i \in ValidSoFar \/ (i = at /\ status = "valid")
  <2>1. CASE i \in 1..(at - 1)
    <3>1. i \in 1..at /\ i # at /\ records'[i] = records[i]
      BY <1>1, <1>4, <2>1
    <3> QED
      BY <1>5, <1>6, <2>1, <3>1
  <2>2. CASE i = at
    <3>1. i \in 1..at /\ i \notin 1..(at - 1) /\ records'[i].status = status
      BY <1>1, <1>3, <1>4, <2>2
    <3> QED
      BY <1>5, <1>6, <2>2, <3>1
  <2>3. CASE i \notin 1..at
    BY <1>5, <1>6, <1>7, <2>3
  <2> QED
    BY <1>7, <2>1, <2>2, <2>3
<1>9. ValidSoFar' = IF status = "valid" THEN ValidSoFar \cup {at} ELSE ValidSoFar
  BY <1>8
<1> QED
  BY <1>2, <1>4, <1>5, <1>9

LEMMA NoFailureYet ==
  ASSUME CompilationInv, phase # "stopped", NEW i \in DOMAIN records
  PROVE  records[i].status # "failed"
  BY DEF CompilationInv, RecordsInOrder

(* What is registered belongs to a feature before this one.                *)
LEMMA IdsAreBefore ==
  ASSUME NEW n \in Nat, NEW reg, RecordsOK(reg), Producers(reg) \in SUBSET (1..(n - 1)),
         NEW id \in DOMAIN reg
  PROVE  id[1] # n
  BY DEF RecordsOK, Producers

-----------------------------------------------------------------------------
(* The steps.                                                              *)

LEMMA StepSuppressed == CompilationInv /\ Suppressed => CompilationInv'
<1> SUFFICES ASSUME CompilationInv, Suppressed PROVE CompilationInv'
  OBVIOUS
<1>1. /\ phase = "next" /\ phase' = "next" /\ at' = at + 1 /\ at \in Nat \ {0}
      /\ records' = Entry("suppressed")
      /\ UNCHANGED <<graph, work, body, shapes, registry, saved, states, lastValid>>
  BY DEF Suppressed, held, CompilationInv, GraphOK
<1>2. /\ records' \in Seq(Entries) /\ Len(records') = at /\ DOMAIN records' = 1..at
      /\ \A i \in 1..(at - 1) : records'[i] = records[i]
      /\ records'[at] = [feature |-> at, status |-> "suppressed"]
      /\ ValidSoFar' = ValidSoFar
  BY <1>1, EntryAdded
<1>3. GraphOK'
  BY <1>1 DEF CompilationInv, GraphOK
<1>4. RecordsInOrder'
  <2>1. \A i \in DOMAIN records' : records'[i].status # "failed"
    <3> TAKE i \in DOMAIN records'
    <3>1. CASE i = at
      BY <3>1, <1>2
    <3>2. CASE i # at
      <4>1. i \in 1..(at - 1) /\ i \in DOMAIN records
        BY <3>2, <1>1, <1>2 DEF CompilationInv, RecordsInOrder
      <4> QED
        BY <4>1, <1>1, <1>2, NoFailureYet
    <3> QED
      BY <3>1, <3>2
  <2> QED
    BY <2>1, <1>1, <1>2 DEF RecordsInOrder
<1>5. InHand' /\ Replacing'
  BY <1>1 DEF InHand, Replacing, Working
<1>6. StatesInOrder'
  BY <1>1 DEF CompilationInv, StatesInOrder, StatesOK
<1>7. Current'
  BY <1>1, <1>2 DEF CompilationInv, Current, Between, Working, Settled, LastBody
<1>8. NothingElseIsUndone'
  BY <1>1 DEF CompilationInv, NothingElseIsUndone
<1> QED
  BY <1>3, <1>4, <1>5, <1>6, <1>7, <1>8 DEF CompilationInv

LEMMA StepBuild == CompilationInv /\ Build => CompilationInv'
<1> SUFFICES ASSUME CompilationInv, Build PROVE CompilationInv'
  OBVIOUS
<1>1. /\ phase = "next" /\ at \in DOMAIN graph /\ This \in Menu
      /\ UNCHANGED <<graph, at, registry, issues, states, records, lastValid>>
      /\ saved'.body = body /\ saved'.shapes = shapes /\ saved'.registry = registry
  BY DEF Build, CompilationInv, GraphOK, This
<1>2. phase' \in {"built", "failed"}
  BY DEF Build, Fail
<1>3. /\ GraphOK' /\ RecordsInOrder' /\ StatesInOrder' /\ NothingElseIsUndone'
      /\ LastBody' = LastBody /\ ValidSoFar' = ValidSoFar
  BY <1>1, <1>2, FrameKeeps DEF Frame
<1>4. Settled(body, shapes, registry)
  BY <1>1 DEF CompilationInv, Current, Between
<1>5. Settled(saved.body, saved.shapes, saved.registry)' /\ Tracks(saved.registry, registry)'
  BY <1>1, <1>3, <1>4, TracksItself DEF Settled
<1>6. PICK r : r = BuildFeature(This)
  OBVIOUS
<1>7. Outcome(r)
  BY <1>1, <1>4, <1>6, BuildOutcome DEF Settled, CompilationInv, StatesInOrder
<1>8. CASE phase' = "built"
  <2>1. /\ r.ok /\ body' = r.cells /\ work' = r.work
        /\ \E kept \in SUBSET Kept(r.cells) : shapes' = Shaped(r.cells, kept)
    BY <1>6, <1>8 DEF Build, Fail
  <2>2. Interval(body') /\ Whole(body', shapes')
    BY <2>1, <1>4, <1>7, ShapedIsWhole DEF Outcome, Settled, Consistent
  <2>3. InHand'
    BY <2>1, <1>1, <1>7 DEF InHand, Outcome
  <2>4. Current'
    BY <2>2, <1>1, <1>5, <1>8 DEF Current, Between, Working
  <2>5. Replacing'
    <3> SUFFICES ASSUME This.op = "mirror", ~This.keep PROVE This.sources = {lastValid}
      BY <1>1 DEF Replacing, This
    <3>1. r = MirrorFeature(This)
      BY <2>1, <1>6 DEF BuildFeature, Fails
    <3> QED
      BY <3>1, <2>1 DEF MirrorFeature, Fails
  <2> QED
    BY <1>3, <2>3, <2>4, <2>5 DEF CompilationInv
<1>9. CASE phase' = "failed"
  <2>1. InHand' /\ Replacing'
    BY <1>9 DEF InHand, Replacing, Working
  <2>2. Current'
    BY <1>5, <1>9 DEF Current, Between, Working
  <2> QED
    BY <1>3, <2>1, <2>2 DEF CompilationInv
<1> QED
  BY <1>2, <1>8, <1>9

LEMMA StepValidate == CompilationInv /\ Validate => CompilationInv'
<1> SUFFICES ASSUME CompilationInv, Validate PROVE CompilationInv'
  OBVIOUS
<1>1. /\ phase = "built" /\ phase' \in {"validated", "failed"}
      /\ UNCHANGED <<graph, at, work, body, shapes, registry, saved, states, records, lastValid>>
  BY DEF Validate, Fail, held
<1>2. /\ GraphOK' /\ RecordsInOrder' /\ StatesInOrder' /\ NothingElseIsUndone'
      /\ LastBody' = LastBody /\ ValidSoFar' = ValidSoFar
  BY <1>1, FrameKeeps DEF Frame
<1>3. InHand' /\ Replacing'
  BY <1>1 DEF CompilationInv, InHand, Replacing, Working, This
<1>4. Current'
  BY <1>1, <1>2 DEF CompilationInv, Current, Between, Working, Settled
<1> QED
  BY <1>2, <1>3, <1>4 DEF CompilationInv

LEMMA RemapTracks ==
  ASSUME CompilationInv, Remap
  PROVE  /\ Tracks(registry, registry') /\ RecordsOK(registry')
         /\ OnBody(body, shapes, registry') /\ Producers(registry') = Producers(registry)
<1>1. /\ phase = "validated"
      /\ registry' = [id \in DOMAIN registry |-> Remapped(registry[id], shapes)]
  BY DEF Remap
<1>2. Interval(body) /\ RecordsOK(registry)
  BY <1>1 DEF CompilationInv, Current, Between, Working, Settled, Consistent
<1>3. DOMAIN registry' = DOMAIN registry
  BY <1>1
<1>4. ASSUME NEW id \in DOMAIN registry
      PROVE  /\ RecordOK(registry'[id]) /\ registry'[id].kind = registry[id].kind
             /\ registry'[id].producer = registry[id].producer
             /\ registry'[id].status = "resolved" =>
                  /\ registry[id].status = "resolved"
                  /\ registry[id].kind # "solid" =>
                       /\ Place(registry'[id].shape) = Place(registry[id].shape)
                       /\ registry'[id].shape \in shapes
  <2>1. PICK r, m : r = registry[id] /\ m = Remapped(r, shapes)
    OBVIOUS
  <2>2. RecordOK(r) /\ registry'[id] = m
    BY <2>1, <1>1, <1>2 DEF RecordsOK
  <2>3. /\ RecordOK(m) /\ m.kind = r.kind /\ m.producer = r.producer
        /\ m.status = "resolved" =>
             /\ r.status = "resolved"
             /\ r.kind # "solid" => Place(m.shape) = Place(r.shape) /\ m.shape \in shapes
    BY <2>1, <2>2, RemappedStays
  <2> QED
    BY <2>1, <2>2, <2>3
<1>5. body # NoBody
  BY <1>2, Extremes DEF NoBody
<1>6. Tracks(registry, registry')
  BY <1>3, <1>4 DEF Tracks
<1>7. RecordsOK(registry')
  BY <1>2, <1>3, <1>4 DEF RecordsOK
<1>8. OnBody(body, shapes, registry')
  BY <1>3, <1>4, <1>5 DEF OnBody
<1>9. Producers(registry') = Producers(registry)
  BY <1>3, <1>4 DEF Producers
<1> QED
  BY <1>6, <1>7, <1>8, <1>9

LEMMA StepRemap == CompilationInv /\ Remap => CompilationInv'
<1> SUFFICES ASSUME CompilationInv, Remap PROVE CompilationInv'
  OBVIOUS
<1>1. /\ phase = "validated" /\ phase' = "remapped"
      /\ UNCHANGED <<graph, at, work, body, shapes, saved, states, records, lastValid>>
  BY DEF Remap
<1>2. /\ GraphOK' /\ RecordsInOrder' /\ StatesInOrder' /\ NothingElseIsUndone'
      /\ LastBody' = LastBody /\ ValidSoFar' = ValidSoFar
  BY <1>1, FrameKeeps DEF Frame
<1>3. InHand' /\ Replacing'
  BY <1>1 DEF CompilationInv, InHand, Replacing, Working, This
<1>4. /\ registry = saved.registry /\ Interval(body) /\ Whole(body, shapes)
      /\ Settled(saved.body, saved.shapes, saved.registry)
  BY <1>1 DEF CompilationInv, Current, Between, Working
<1>5. Settled(saved.body, saved.shapes, saved.registry)'
  BY <1>1, <1>2, <1>4 DEF Settled
<1>6. Tracks(saved.registry, registry)' /\ RecordsOK(registry') /\ OnBody(body, shapes, registry)'
      /\ Producers(registry') = ValidSoFar'
  BY <1>1, <1>2, <1>4, RemapTracks DEF Settled
<1>7. Current'
  BY <1>1, <1>4, <1>5, <1>6 DEF Current, Between, Working
<1> QED
  BY <1>2, <1>3, <1>7 DEF CompilationInv

LEMMA StepRegister == CompilationInv /\ Register => CompilationInv'
<1> SUFFICES ASSUME CompilationInv, Register PROVE CompilationInv'
  OBVIOUS
<1>1. /\ phase = "remapped" /\ phase' \in {"registered", "failed"}
      /\ UNCHANGED <<graph, at, work, body, shapes, saved, states, records, lastValid>>
      /\ at \in Nat \ {0} /\ Working
  BY DEF Register, Fail, Working, CompilationInv, GraphOK
<1>2. /\ GraphOK' /\ RecordsInOrder' /\ StatesInOrder' /\ NothingElseIsUndone'
      /\ LastBody' = LastBody /\ ValidSoFar' = ValidSoFar
  BY <1>1, FrameKeeps DEF Frame
<1>3. InHand' /\ Replacing'
  BY <1>1 DEF CompilationInv, InHand, Replacing, Working, This
<1>4. /\ Interval(body) /\ Whole(body, shapes) /\ Tracks(saved.registry, registry)
      /\ Settled(saved.body, saved.shapes, saved.registry)
      /\ RecordsOK(registry) /\ OnBody(body, shapes, registry) /\ Producers(registry) = ValidSoFar
  BY <1>1 DEF CompilationInv, Current, Between
<1>5. Settled(saved.body, saved.shapes, saved.registry)'
  BY <1>1, <1>2, <1>4 DEF Settled
<1>6. This \in Menu /\ work.dir \in {-1, 0, 1}
  BY <1>1 DEF CompilationInv, InHand, GraphOK, This
<1>7. PICK new : new = Registered(This)
  OBVIOUS
<1>8. /\ <<at, "solid">> \in DOMAIN new
      /\ \A id \in DOMAIN new :
           /\ RecordOK(new[id]) /\ new[id].producer = at /\ id[1] = at
           /\ new[id].status = "resolved" /\ new[id].kind # "solid" => new[id].shape \in shapes
  BY <1>4, <1>6, <1>7, RegisteredIsThere
<1>9. registry' = [id \in DOMAIN registry \cup DOMAIN new |->
                     IF id \in DOMAIN new THEN new[id] ELSE registry[id]]
  BY <1>7 DEF Register
<1>10. ValidSoFar \in SUBSET (1..(at - 1))
  BY <1>1 DEF ValidSoFar, CompilationInv, RecordsInOrder
<1>11. \A id \in DOMAIN registry : id \notin DOMAIN new
  BY <1>1, <1>4, <1>8, <1>10, IdsAreBefore
<1>12. /\ DOMAIN registry' = DOMAIN registry \cup DOMAIN new
       /\ \A id \in DOMAIN registry : registry'[id] = registry[id]
       /\ \A id \in DOMAIN new : registry'[id] = new[id]
  BY <1>9, <1>11
<1>13. Tracks(saved.registry, registry')
  BY <1>4, <1>12 DEF Tracks
<1>14. RecordsOK(registry')
  BY <1>4, <1>8, <1>12 DEF RecordsOK
<1>15. body # NoBody
  BY <1>4, Extremes DEF NoBody
<1>16. OnBody(body, shapes, registry')
  <2> SUFFICES ASSUME NEW id \in DOMAIN registry', registry'[id].status = "resolved"
               PROVE  registry'[id].kind # "solid" => registry'[id].shape \in shapes
    BY <1>15 DEF OnBody
  <2>1. CASE id \in DOMAIN registry
    BY <2>1, <1>4, <1>12 DEF OnBody
  <2>2. CASE id \in DOMAIN new
    BY <2>2, <1>8, <1>12
  <2> QED
    BY <2>1, <2>2, <1>12
<1>17. Producers(registry') = ValidSoFar \cup {at}
  <2>1. Producers(registry') = Producers(registry) \cup Producers(new)
    BY <1>12 DEF Producers
  <2>2. Producers(new) = {at}
    BY <1>8 DEF Producers
  <2> QED
    BY <2>1, <2>2, <1>4
<1>18. Current'
  BY <1>1, <1>2, <1>4, <1>5, <1>13, <1>14, <1>16, <1>17 DEF Current, Between, Working
<1> QED
  BY <1>2, <1>3, <1>18 DEF CompilationInv

LEMMA StepCommit == CompilationInv /\ Commit => CompilationInv'
<1> SUFFICES ASSUME CompilationInv, Commit PROVE CompilationInv'
  OBVIOUS
<1>1. /\ phase = "registered" /\ phase' = "next" /\ at' = at + 1 /\ at \in Nat \ {0} /\ Working
      /\ records' = Entry("valid") /\ lastValid' = at
      /\ UNCHANGED <<graph, work, body, shapes, registry, saved>>
  BY DEF Commit, held, Working, CompilationInv, GraphOK
<1>2. /\ records' \in Seq(Entries) /\ Len(records') = at /\ DOMAIN records' = 1..at
      /\ \A i \in 1..(at - 1) : records'[i] = records[i]
      /\ records'[at] = [feature |-> at, status |-> "valid"]
      /\ ValidSoFar' = ValidSoFar \cup {at}
  BY <1>1, EntryAdded
<1>3. PICK s : s = [mode |-> work.mode, tool |-> work.tool, before |-> saved.body, after |-> body]
  OBVIOUS
<1>4. /\ DOMAIN states' = DOMAIN states \cup {at} /\ states'[at] = s
      /\ \A i \in DOMAIN states : i # at => states'[i] = states[i]
  BY <1>3 DEF Commit
<1>5. /\ Settled(saved.body, saved.shapes, saved.registry) /\ Interval(body) /\ Whole(body, shapes)
      /\ RecordsOK(registry) /\ OnBody(body, shapes, registry)
      /\ Producers(registry) = ValidSoFar \cup {at}
  BY <1>1 DEF CompilationInv, Current, Between
<1>6. /\ work.tool \in SUBSET Int /\ work.mode \in BooleanModes /\ StatesOK
      /\ lastValid \in 0..(at - 1) /\ \A i \in DOMAIN states : i \in Nat \ {0} /\ i <= lastValid
  BY <1>1 DEF CompilationInv, InHand, StatesInOrder
<1>7. GraphOK'
  BY <1>1 DEF CompilationInv, GraphOK
<1>8. RecordsInOrder'
  <2>1. \A i \in DOMAIN records' : records'[i].status # "failed"
    <3> TAKE i \in DOMAIN records'
    <3>1. CASE i = at
      BY <3>1, <1>2
    <3>2. CASE i # at
      <4>1. i \in 1..(at - 1) /\ i \in DOMAIN records
        BY <3>2, <1>1, <1>2 DEF CompilationInv, RecordsInOrder
      <4> QED
        BY <4>1, <1>1, <1>2, NoFailureYet
    <3> QED
      BY <3>1, <3>2
  <2> QED
    BY <2>1, <1>1, <1>2 DEF RecordsInOrder
<1>9. InHand' /\ Replacing'
  BY <1>1 DEF InHand, Replacing, Working
<1>10. StatesInOrder'
  <2>1. s.tool \in SUBSET Int /\ s.mode \in BooleanModes /\ (s.before = NoBody \/ Interval(s.before))
    BY <1>3, <1>5, <1>6 DEF Settled, Consistent, BodyOK
  <2>2. StatesOK'
    BY <2>1, <1>4, <1>6 DEF StatesOK
  <2> QED
    BY <2>2, <1>1, <1>4, <1>6 DEF StatesInOrder
<1>11. Current'
  <2>1. LastBody' = body
    BY <1>1, <1>3, <1>4 DEF LastBody
  <2>2. Settled(body, shapes, registry)'
    BY <2>1, <1>1, <1>2, <1>5 DEF Settled, Consistent, BodyOK
  <2> QED
    BY <2>2, <1>1 DEF Current, Between, Working
<1>12. NothingElseIsUndone'
  <2> SUFFICES ASSUME NEW i \in DOMAIN states', graph[i].op = "mirror", ~graph[i].keep,
                      NEW j \in DOMAIN states', j < i
               PROVE  \E source \in graph[i].sources : j <= source
    BY <1>1 DEF NothingElseIsUndone
  <2>1. CASE i = at
    <3>1. graph[i].sources = {lastValid}
      BY <2>1, <1>1 DEF CompilationInv, Replacing, This
    <3>2. j \in DOMAIN states
      BY <2>1, <1>1, <1>4
    <3> QED
      BY <3>1, <3>2, <1>6
  <2>2. CASE i # at
    <3>1. i \in DOMAIN states /\ i <= lastValid /\ i \in Nat
      BY <2>2, <1>4, <1>6
    <3>2. j \in DOMAIN states
      BY <3>1, <1>1, <1>4, <1>6
    <3> QED
      BY <3>1, <3>2 DEF CompilationInv, NothingElseIsUndone
  <2> QED
    BY <2>1, <2>2
<1> QED
  BY <1>7, <1>8, <1>9, <1>10, <1>11, <1>12 DEF CompilationInv

LEMMA StepRollback == CompilationInv /\ Rollback => CompilationInv'
<1> SUFFICES ASSUME CompilationInv, Rollback PROVE CompilationInv'
  OBVIOUS
<1>1. /\ phase = "failed" /\ phase' = "stopped" /\ at \in Nat \ {0}
      /\ records' = Entry("failed")
      /\ body' = saved.body /\ shapes' = saved.shapes /\ registry' = saved.registry
      /\ UNCHANGED <<graph, at, work, saved, states, lastValid>>
  BY DEF Rollback, CompilationInv, GraphOK
<1>2. /\ records' \in Seq(Entries) /\ Len(records') = at /\ DOMAIN records' = 1..at
      /\ \A i \in 1..(at - 1) : records'[i] = records[i]
      /\ ValidSoFar' = ValidSoFar
  BY <1>1, EntryAdded
<1>3. GraphOK'
  BY <1>1 DEF CompilationInv, GraphOK
<1>4. RecordsInOrder'
  <2>1. \A i \in DOMAIN records' : records'[i].status = "failed" => i = at
    <3> SUFFICES ASSUME NEW i \in DOMAIN records', i # at PROVE records'[i].status # "failed"
      OBVIOUS
    <3>1. i \in 1..(at - 1) /\ i \in DOMAIN records
      BY <1>1, <1>2 DEF CompilationInv, RecordsInOrder
    <3> QED
      BY <3>1, <1>1, <1>2, NoFailureYet
  <2> QED
    BY <2>1, <1>1, <1>2 DEF RecordsInOrder
<1>5. InHand' /\ Replacing'
  BY <1>1 DEF InHand, Replacing, Working
<1>6. StatesInOrder'
  BY <1>1 DEF CompilationInv, StatesInOrder, StatesOK
<1>7. Settled(body, shapes, registry)'
  <2>1. Settled(saved.body, saved.shapes, saved.registry)
    BY <1>1 DEF CompilationInv, Current, Between
  <2>2. LastBody' = LastBody
    BY <1>1 DEF LastBody
  <2> QED
    BY <2>1, <2>2, <1>1, <1>2 DEF Settled
<1>8. Current'
  BY <1>7, <1>1 DEF Current, Between, Working
<1>9. NothingElseIsUndone'
  BY <1>1 DEF CompilationInv, NothingElseIsUndone
<1> QED
  BY <1>3, <1>4, <1>5, <1>6, <1>8, <1>9 DEF CompilationInv

-----------------------------------------------------------------------------
LEMMA InitCompilation == Init => CompilationInv
<1> SUFFICES ASSUME Init PROVE CompilationInv
  OBVIOUS
<1>1. /\ at = 1 /\ phase = "next" /\ body = NoBody /\ shapes = {} /\ records = <<>>
      /\ DOMAIN registry = {} /\ DOMAIN states = {} /\ lastValid = 0
  BY DEF Init
<1>2. GraphOK
  <2>1. PICK n \in 1..MaxFeatures : graph \in [1..n -> Menu]
    BY DEF Init
  <2> QED
    BY <2>1, <1>1 DEF GraphOK
<1>3. RecordsInOrder /\ Producers(registry) = {} /\ ValidSoFar = {}
  BY <1>1 DEF RecordsInOrder, Producers, ValidSoFar
<1>4. InHand /\ Replacing
  BY <1>1 DEF InHand, Replacing, Working
<1>5. StatesInOrder /\ NothingElseIsUndone
  BY <1>1 DEF StatesInOrder, StatesOK, NothingElseIsUndone
<1>6. Current
  BY <1>1, <1>3 DEF Current, Between, Working, Settled, Consistent, BodyOK, RecordsOK, OnBody,
                    LastBody
<1> QED
  BY <1>2, <1>3, <1>4, <1>5, <1>6 DEF CompilationInv

LEMMA Stutter == CompilationInv /\ UNCHANGED vars => CompilationInv'
<1> SUFFICES ASSUME CompilationInv, UNCHANGED vars PROVE CompilationInv'
  OBVIOUS
<1> USE DEF vars, held
<1>1. GraphOK' /\ RecordsInOrder' /\ InHand' /\ StatesInOrder' /\ Replacing' /\ NothingElseIsUndone'
  BY DEF CompilationInv, GraphOK, RecordsInOrder, InHand, StatesInOrder, StatesOK, Replacing,
         NothingElseIsUndone, Working, This
<1>2. LastBody' = LastBody /\ ValidSoFar' = ValidSoFar
  BY DEF LastBody, ValidSoFar, Valid
<1>3. Current'
  BY <1>2 DEF CompilationInv, Current, Between, Working, Settled
<1> QED
  BY <1>1, <1>3 DEF CompilationInv

LEMMA CompilationInvariant == Spec => []CompilationInv
<1>1. CompilationInv /\ [Next]_vars => CompilationInv'
  BY StepSuppressed, StepBuild, StepValidate, StepRemap, StepRegister, StepCommit, StepRollback,
     Stutter DEF Next
<1> QED
  BY <1>1, InitCompilation, PTL DEF Spec

(* A reference that resolves names a face or an edge of the body as it is  *)
(* now, after any operations and whatever the kernel makes anew.           *)
THEOREM ResolvedIsOnBodyHolds == Spec => []ResolvedIsOnBody
<1>1. CompilationInv => ResolvedIsOnBody
  <2> SUFFICES ASSUME CompilationInv, Between, NEW id \in DOMAIN registry,
                      registry[id].status = "resolved"
               PROVE  /\ body # NoBody
                      /\ registry[id].kind # "solid" =>
                           registry[id].shape \in OfKind(registry[id].kind)
    BY DEF ResolvedIsOnBody
  <2>1. RecordsOK(registry) /\ OnBody(body, shapes, registry)
    BY DEF CompilationInv, Current, Settled, Consistent
  <2> QED
    BY <2>1 DEF RecordsOK, RecordOK, OnBody, OfKind
<1> QED
  BY <1>1, CompilationInvariant, PTL

(* A failure leaves the body and the registry of the last valid feature,   *)
(* at whichever step of a feature it comes.                                *)
THEOREM FailureKeepsTheLastValidHolds == Spec => []FailureKeepsTheLastValid
<1>1. CompilationInv => FailureKeepsTheLastValid
  BY DEF CompilationInv, Current, Settled, LastBody, Producers, ValidSoFar, RecordsInOrder,
         FailureKeepsTheLastValid
<1> QED
  BY <1>1, CompilationInvariant, PTL

(* A mirror that replaces its source undoes no other feature.              *)
THEOREM NothingElseIsUndoneHolds == Spec => []NothingElseIsUndone
<1>1. CompilationInv => NothingElseIsUndone
  BY DEF CompilationInv
<1> QED
  BY <1>1, CompilationInvariant, PTL

(* A reference never comes to name a face or an edge in another place, in  *)
(* a remapping or in the rollback of one.                                  *)
THEOREM NeverAnotherFaceHolds == Spec => NeverAnotherFace
<1> DEFINE Same ==
      \A id \in DOMAIN registry \cap DOMAIN registry' :
        (registry[id].status = "resolved" /\ registry'[id].status = "resolved"
           /\ registry[id].kind # "solid")
          => Place(registry'[id].shape) = Place(registry[id].shape)
<1>1. CompilationInv /\ [Next]_vars => [Same]_vars
  <2> SUFFICES ASSUME CompilationInv, Next PROVE Same
    OBVIOUS
  <2>1. ASSUME registry' = registry PROVE Same
    BY <2>1
  <2>2. CASE Suppressed \/ Build \/ Validate \/ Commit
    BY <2>1, <2>2 DEF Suppressed, Build, Validate, Commit, held
  <2>3. CASE Remap
    BY <2>3, RemapTracks DEF Tracks
  <2>4. CASE Register
    <3>1. Producers(registry) \in SUBSET (1..(at - 1)) /\ RecordsOK(registry) /\ at \in Nat
      BY <2>4 DEF Register, CompilationInv, Current, Between, ValidSoFar, RecordsInOrder, GraphOK
    <3>2. ASSUME NEW id \in DOMAIN registry PROVE registry'[id] = registry[id]
      <4>1. id[1] # at
        BY <3>1, IdsAreBefore
      <4>2. /\ Interval(body) /\ Whole(body, shapes) /\ This \in Menu /\ work.dir \in {-1, 0, 1}
        BY <2>4 DEF Register, CompilationInv, Current, Working, InHand, GraphOK, This
      <4>3. id \notin DOMAIN Registered(This)
        BY <4>1, <4>2, RegisteredIsThere
      <4> QED
        BY <2>4, <4>3 DEF Register
    <3> QED
      BY <3>2
  <2>5. CASE Rollback
    <3>1. Tracks(saved.registry, registry) /\ registry' = saved.registry
      BY <2>5 DEF Rollback, CompilationInv, Current, Between
    <3> QED
      BY <3>1 DEF Tracks
  <2> QED
    BY <2>2, <2>3, <2>4, <2>5 DEF Next
<1> QED
  BY <1>1, CompilationInvariant, PTL DEF Spec, NeverAnotherFace
-----------------------------------------------------------------------------
(* Material.                                                               *)

Follows(mode, old, new) == Contract!Follows(mode, old, new)
(* What a result does to the body that it was made from.                   *)
EffectOn(old, result) == result.ok => Follows(result.work.mode, old, result.cells)
Effect(result) == EffectOn(body, result)

LEMMA BooleanEffect ==
  ASSUME NEW old, NEW tool, NEW mode \in BooleanModes, NEW dir,
         NEW r, r = ApplyBoolean(old, tool, mode, dir)
  PROVE  EffectOn(old, r) /\ (r.ok => r.work.mode = mode)
<1>1. PICK new : new = CASE mode = "base" -> tool
                         [] mode = "additive" -> old \cup tool
                         [] mode = "subtractive" -> old \ tool
  OBVIOUS
<1>2. CASE ~r.ok
  BY <1>2 DEF EffectOn
<1>3. CASE r.ok
  <2>1. /\ r = Built(new, tool, mode, dir)
        /\ mode = "base" => old = NoBody
        /\ mode # "base" => new # old
    BY <1>1, <1>3 DEF ApplyBoolean, Fails
  <2>2. r.cells = new /\ r.work.mode = mode
    BY <2>1 DEF Built
  <2>3. Follows(mode, old, new)
    BY <1>1, <2>1 DEF Follows, Contract!Follows, NoBody
  <2> QED
    BY <2>2, <2>3 DEF EffectOn
<1> QED
  BY <1>2, <1>3

LEMMA ToolEffect ==
  ASSUME NEW tool, NEW mode \in BooleanModes, NEW dir
  PROVE  Effect(WithTool(tool, mode, dir))
<1>1. CASE tool.ok
  <2>1. WithTool(tool, mode, dir) = ApplyBoolean(body, tool.cells, mode, dir)
    BY <1>1 DEF WithTool
  <2> QED
    BY <2>1, BooleanEffect DEF Effect
<1>2. CASE ~tool.ok
  BY <1>2 DEF WithTool, Effect, EffectOn
<1> QED
  BY <1>1, <1>2

LEMMA PatternEffect ==
  ASSUME StatesOK, NEW f PROVE Effect(PatternFeature(f))
<1>1. CASE ~PatternFeature(f).ok
  BY <1>1 DEF Effect, EffectOn
<1>2. CASE PatternFeature(f).ok
  <2>1. PICK tool : tool = UNION {Shifted(states[i].tool, f.shift) : i \in f.sources}
    OBVIOUS
  <2>2. /\ Available(f) /\ Cardinality(Modes(f)) = 1
        /\ PatternFeature(f) = ApplyBoolean(body, tool, ModeOf(f), f.dir)
    BY <1>2, <2>1 DEF PatternFeature, Fails
  <2>3. PICK mode \in BooleanModes : mode = ModeOf(f)
    BY <2>2, OneMode
  <2>4. Effect(ApplyBoolean(body, tool, mode, f.dir))
    BY BooleanEffect DEF Effect
  <2> QED
    BY <2>2, <2>3, <2>4
<1> QED
  BY <1>1, <1>2

(* A mirror that keeps its source works on the body as it is, and what     *)
(* mirrors a base adds.                                                    *)
LEMMA MirrorEffect ==
  ASSUME StatesOK, NEW f, f.keep PROVE Effect(MirrorFeature(f))
<1>1. CASE ~MirrorFeature(f).ok
  BY <1>1 DEF Effect, EffectOn
<1>2. CASE MirrorFeature(f).ok
  <2>1. Available(f) /\ Cardinality(Modes(f)) = 1 /\ MirrorFeature(f) = Mirrored(f)
    BY <1>2 DEF MirrorFeature, Fails
  <2>2. PICK tool : tool = UNION {Reflected(states[i].tool, f.at) : i \in f.sources}
    OBVIOUS
  <2>3. PICK mode \in BooleanModes : mode = ModeOf(f)
    BY <2>1, OneMode
  <2>4. PICK m \in BooleanModes : m = IF mode = "base" THEN "additive" ELSE mode
    BY DEF BooleanModes
  <2>5. Mirrored(f) = ApplyBoolean(body, tool, m, f.dir)
    BY <2>2, <2>3, <2>4 DEF Mirrored
  <2>6. Effect(ApplyBoolean(body, tool, m, f.dir))
    BY BooleanEffect DEF Effect
  <2> QED
    BY <2>1, <2>5, <2>6
<1> QED
  BY <1>1, <1>2

(* An edge that resolves is at an end of the body, so that a fillet or a   *)
(* chamfer takes something.                                                *)
LEMMA FinishingEffect ==
  ASSUME Consistent(body, shapes, registry), body # NoBody, NEW f
  PROVE  Effect(FinishingFeature(f))
<1>1. Interval(body) /\ Whole(body, shapes)
  BY DEF Consistent, BodyOK
<1>2. PICK edge : edge = registry[f.target].shape
  OBVIOUS
<1>3. PICK cell : cell = IF edge.side = 1 THEN edge.at - 1 ELSE edge.at
  OBVIOUS
<1>4. CASE ~FinishingFeature(f).ok
  BY <1>4 DEF Effect, EffectOn
<1>5. CASE FinishingFeature(f).ok
  <2>1. /\ Required(f.target, "edge")
        /\ FinishingFeature(f) = Built(body \ {cell}, {cell} \cap body, "subtractive", 0)
    BY <1>2, <1>3, <1>5 DEF FinishingFeature, Fails
  <2>2. edge \in shapes
    BY <1>2, <2>1 DEF Required, Consistent, OnBody
  <2>3. Place(edge) \in Places(body)
    BY <1>1, <2>2 DEF Whole
  <2>4. PICK k \in {"face", "edge"} :
          \/ Place(edge) = [kind |-> k, at |-> Min(body), side |-> -1]
          \/ Place(edge) = [kind |-> k, at |-> Max(body) + 1, side |-> 1]
    BY <1>1, <2>3, PlacesAre
  <2>5. \/ edge.at = Min(body) /\ edge.side = -1
        \/ edge.at = Max(body) + 1 /\ edge.side = 1
    BY <2>4 DEF Place
  <2>6. cell \in body
    BY <1>1, <1>3, <2>5, Extremes
  <2>7. PICK r : r = FinishingFeature(f)
    OBVIOUS
  <2>8. r.cells = body \ {cell} /\ r.work.mode = "subtractive"
    BY <2>1, <2>7 DEF Built
  <2>9. Effect(r)
    BY <2>6, <2>8 DEF Effect, EffectOn, Follows, Contract!Follows
  <2> QED
    BY <2>7, <2>9
<1> QED
  BY <1>4, <1>5

LEMMA BuildEffect ==
  ASSUME Consistent(body, shapes, registry), StatesOK, NEW f \in Menu,
         f.op = "mirror" => f.keep
  PROVE  Effect(BuildFeature(f))
<1>1. f.op \in Operations /\ f.mode \in BooleanModes
  BY MenuAssumption
<1>2. CASE body = NoBody /\ f.op \notin {"extrusion", "revolution", "imported", "network"}
  <2>1. BuildFeature(f) = Fails("missing_base_body")
    BY <1>2 DEF BuildFeature
  <2> QED
    BY <2>1 DEF Effect, EffectOn, Fails
<1>3. CASE f.op = "extrusion"
  BY <1>1, <1>3, ToolEffect DEF BuildFeature
<1>4. CASE f.op = "revolution"
  BY <1>1, <1>4, ToolEffect DEF BuildFeature
<1>5. CASE f.op = "pocket" /\ body # NoBody
  BY <1>5, ToolEffect DEF BuildFeature, BooleanModes
<1>6. CASE f.op = "hole" /\ body # NoBody
  BY <1>6, ToolEffect DEF BuildFeature, BooleanModes
<1>7. CASE f.op = "pattern" /\ body # NoBody
  BY <1>7, PatternEffect DEF BuildFeature
<1>8. CASE f.op = "mirror" /\ body # NoBody
  BY <1>8, MirrorEffect DEF BuildFeature
<1>9. CASE f.op = "finish" /\ body # NoBody
  BY <1>9, FinishingEffect DEF BuildFeature
<1>10. CASE f.op = "imported"
  BY <1>1, <1>10, ToolEffect DEF BuildFeature
<1>11. CASE f.op = "network"
  BY <1>11, ToolEffect DEF BuildFeature, BooleanModes
<1> QED
  BY <1>1, <1>2, <1>3, <1>4, <1>5, <1>6, <1>7, <1>8, <1>9, <1>10, <1>11 DEF Operations

(* A mirror that replaces its source has the source's mode and does to the *)
(* body from before it what that mode says.                                *)
Instead(mode, new) ==
  /\ lastValid \in DOMAIN states /\ mode = states[lastValid].mode
  /\ mode # "base" => Follows(mode, states[lastValid].before, new)

LEMMA ReplacedEffect ==
  ASSUME StatesOK, NEW f, ~f.keep, NEW r, r = MirrorFeature(f), r.ok
  PROVE  Instead(r.work.mode, r.cells)
<1>1. /\ Available(f) /\ Cardinality(Modes(f)) = 1 /\ f.sources = {lastValid} /\ r = Mirrored(f)
  BY DEF MirrorFeature, Fails
<1>2. PICK tool : tool = UNION {Reflected(states[i].tool, f.at) : i \in f.sources}
  OBVIOUS
<1>3. PICK mode \in BooleanModes : mode = ModeOf(f)
  BY <1>1, OneMode
<1>4. lastValid \in DOMAIN states /\ Modes(f) = {states[lastValid].mode}
  BY <1>1 DEF Available, Modes
<1>5. mode = states[lastValid].mode
  BY <1>3, <1>4 DEF ModeOf
<1>6. PICK only : only = CHOOSE i \in f.sources : TRUE
  OBVIOUS
<1>7. only = lastValid
  BY <1>1, <1>6
<1>8. PICK before : before = states[lastValid].before
  OBVIOUS
<1>9. CASE mode = "base"
  <2>1. r = ApplyBoolean(NoBody, tool, mode, f.dir)
    BY <1>1, <1>2, <1>3, <1>9 DEF Mirrored
  <2>2. r.work.mode = mode
    BY <2>1, BooleanEffect
  <2> QED
    BY <1>4, <1>5, <1>9, <2>2 DEF Instead
<1>10. CASE mode # "base"
  <2>1. r = ApplyBoolean(before, tool, mode, f.dir)
    BY <1>1, <1>2, <1>3, <1>6, <1>7, <1>8, <1>10 DEF Mirrored
  <2>2. EffectOn(before, r) /\ r.work.mode = mode
    BY <2>1, BooleanEffect
  <2> QED
    BY <1>4, <1>5, <1>8, <2>2 DEF Instead, EffectOn
<1> QED
  BY <1>9, <1>10

(* What is built keeps the promise of its mode until it is committed, and  *)
(* what it registers until then is its own.                                *)
Promised ==
  Working =>
    IF This.op = "mirror" /\ ~This.keep THEN Instead(work.mode, body)
    ELSE Follows(work.mode, saved.body, body)
Fresh == Working => \A id \in DOMAIN registry : id \in DOMAIN saved.registry \/ id[1] = at
MaterialInv == Promised /\ Fresh /\ MaterialFollowsMode

LEMMA MaterialStep == CompilationInv /\ MaterialInv /\ [Next]_vars => MaterialInv'
<1> SUFFICES ASSUME CompilationInv, MaterialInv, [Next]_vars PROVE MaterialInv'
  OBVIOUS
<1>1. ASSUME UNCHANGED <<states, graph>> PROVE MaterialFollowsMode'
  BY <1>1 DEF MaterialInv, MaterialFollowsMode
<1>2. CASE Suppressed \/ Rollback
  <2>1. UNCHANGED <<states, graph>> /\ ~Working'
    BY <1>2 DEF Suppressed, Rollback, Working
  <2> QED
    BY <1>1, <2>1 DEF MaterialInv, Promised, Fresh
<1>3. CASE Build
  <2>1. /\ UNCHANGED <<states, graph, at, lastValid, registry>> /\ phase = "next"
        /\ saved'.body = body /\ saved'.registry = registry
        /\ This \in Menu
    BY <1>3 DEF Build, CompilationInv, GraphOK, This
  <2>2. PICK r : r = BuildFeature(This)
    OBVIOUS
  <2>3. Consistent(body, shapes, registry) /\ StatesOK
    BY <2>1 DEF CompilationInv, Current, Between, Settled, StatesInOrder
  <2>4. Working' => r.ok /\ body' = r.cells /\ work' = r.work
    BY <1>3, <2>2 DEF Build, Fail, Working
  <2>5. This' = This
    BY <2>1 DEF This
  <2>6. ASSUME This.op = "mirror", ~This.keep PROVE Promised'
    <3>1. r.ok => r = MirrorFeature(This)
      BY <2>2, <2>6 DEF BuildFeature, Fails
    <3>2. r.ok => Instead(r.work.mode, r.cells)
      BY <2>3, <2>6, <3>1, ReplacedEffect
    <3>3. Working' => Instead(work.mode, body)'
      BY <2>1, <2>4, <3>2 DEF Instead
    <3> QED
      BY <2>5, <2>6, <3>3 DEF Promised
  <2>7. ASSUME ~(This.op = "mirror" /\ ~This.keep) PROVE Promised'
    <3>1. Effect(r)
      BY <2>1, <2>2, <2>3, <2>7, BuildEffect
    <3>2. Working' => Follows(work.mode, saved.body, body)'
      BY <2>1, <2>4, <3>1 DEF Effect, EffectOn, Follows
    <3> QED
      BY <2>5, <2>7, <3>2 DEF Promised
  <2>8. Fresh'
    BY <2>1 DEF Fresh
  <2> QED
    BY <1>1, <2>1, <2>6, <2>7, <2>8 DEF MaterialInv
<1>4. CASE Validate \/ Remap \/ Register \/ UNCHANGED vars
  <2>1. /\ UNCHANGED <<states, graph, at, work, body, saved, lastValid>>
        /\ Working' => Working
    BY <1>4 DEF Validate, Remap, Register, Fail, held, vars, Working
  <2>2. Promised'
    BY <2>1 DEF MaterialInv, Promised, Instead, This
  <2>3. ASSUME Working', NEW id \in DOMAIN registry'
        PROVE  id \in DOMAIN registry \/ id[1] = at
    <3>1. CASE Validate \/ Remap \/ UNCHANGED vars
      BY <3>1 DEF Validate, Remap, held, vars
    <3>2. CASE Register
      <4>1. /\ Interval(body) /\ Whole(body, shapes) /\ This \in Menu /\ work.dir \in {-1, 0, 1}
        BY <3>2 DEF Register, CompilationInv, Current, Working, InHand, GraphOK, This
      <4>2. id \in DOMAIN registry \/ id \in DOMAIN Registered(This)
        BY <3>2 DEF Register
      <4> QED
        BY <4>1, <4>2, RegisteredIsThere
    <3> QED
      BY <1>4, <3>1, <3>2
  <2>4. Fresh'
    BY <2>1, <2>3 DEF MaterialInv, Fresh
  <2> QED
    BY <1>1, <2>1, <2>2, <2>4 DEF MaterialInv
<1>5. CASE Commit
  <2>1. /\ Working /\ ~Working' /\ UNCHANGED graph
        /\ \A i \in DOMAIN states' : i = at \/ (i \in DOMAIN states /\ states'[i] = states[i])
    BY <1>5 DEF Commit, Working
  <2>2. PICK s : s = [mode |-> work.mode, tool |-> work.tool, before |-> saved.body, after |-> body]
    OBVIOUS
  <2>3. states'[at] = s
    BY <1>5, <2>2 DEF Commit
  <2>4. graph[at].keep => Follows(s.mode, s.before, s.after)
    BY <2>1, <2>2 DEF MaterialInv, Promised, This
  <2>5. MaterialFollowsMode'
    <3> SUFFICES ASSUME NEW i \in DOMAIN states', graph[i].keep
                 PROVE  Follows(states'[i].mode, states'[i].before, states'[i].after)
      BY <2>1 DEF MaterialFollowsMode, Follows, Contract!Follows, NoBody
    <3>1. CASE i = at
      BY <3>1, <2>3, <2>4
    <3>2. CASE i # at
      BY <3>2, <2>1 DEF MaterialInv, MaterialFollowsMode, Follows, Contract!Follows, NoBody
    <3> QED
      BY <3>1, <3>2
  <2> QED
    BY <2>1, <2>5 DEF MaterialInv, Promised, Fresh
<1> QED
  BY <1>2, <1>3, <1>4, <1>5 DEF Next

LEMMA MaterialInvariant == Spec => []MaterialInv
<1>1. Init => MaterialInv
  BY DEF Init, MaterialInv, Promised, Fresh, Working, MaterialFollowsMode
<1> QED
  BY <1>1, MaterialStep, CompilationInvariant, PTL DEF Spec

(* A valid cut takes material away and adds none, a boss adds some and     *)
(* takes none away, and a base is the first of its body: of every feature  *)
(* but a mirror that replaces its source.                                  *)
THEOREM MaterialFollowsModeHolds == Spec => []MaterialFollowsMode
<1>1. MaterialInv => MaterialFollowsMode
  BY DEF MaterialInv
<1> QED
  BY <1>1, MaterialInvariant, PTL

-----------------------------------------------------------------------------
(* The refinement of CompilationContract.  Its state is that before the    *)
(* feature in hand: the steps of a feature change nothing of it until the  *)
(* commit, which moves it, or the rollback, which ends it where it was.    *)

ContractUnchanged ==
  /\ at' = at /\ (phase' = "stopped") = (phase = "stopped")
  /\ SolidSoFar' = SolidSoFar /\ NamesSoFar' = NamesSoFar
  /\ PriorSolid' = PriorSolid /\ LastMode' = LastMode

LEMMA InitContract == Init => Contract!Init
<1> SUFFICES ASSUME Init PROVE Contract!Init
  OBVIOUS
<1>1. /\ at = 1 /\ phase = "next" /\ body = NoBody /\ lastValid = 0
      /\ DOMAIN registry = {}
  BY DEF Init
<1>2. NamesSoFar = [id \in {} |-> NoShape]
  BY <1>1 DEF NamesSoFar, Names, Between
<1>3. SolidSoFar = {} /\ PriorSolid = {} /\ LastMode = "none"
  BY <1>1 DEF SolidSoFar, PriorSolid, LastMode, Between, NoBody
<1> QED
  BY <1>1, <1>2, <1>3 DEF Contract!Init

(* Building, validating, remapping and registering show nothing yet.       *)
LEMMA WithinIsNothing ==
  ASSUME CompilationInv, Build \/ Validate \/ Remap \/ Register
  PROVE  ContractUnchanged
<1>1. UNCHANGED <<at, states, lastValid>> /\ phase # "stopped" /\ phase' # "stopped" /\ ~Between'
  BY DEF Build, Validate, Remap, Register, Fail, Between
<1>2. PriorSolid' = PriorSolid /\ LastMode' = LastMode
  BY <1>1 DEF PriorSolid, LastMode
<1>3. CASE Build
  <2>1. saved'.body = body /\ saved'.registry = registry /\ Between
    BY <1>3 DEF Build, Between
  <2>2. SolidSoFar' = SolidSoFar /\ NamesSoFar' = NamesSoFar
    BY <1>1, <2>1 DEF SolidSoFar, NamesSoFar, Names, NameOf
  <2> QED
    BY <1>1, <1>2, <2>2 DEF ContractUnchanged
<1>4. CASE Validate \/ Remap \/ Register
  <2>1. saved' = saved /\ ~Between
    BY <1>4 DEF Validate, Remap, Register, Between
  <2>2. SolidSoFar' = SolidSoFar /\ NamesSoFar' = NamesSoFar
    BY <1>1, <2>1 DEF SolidSoFar, NamesSoFar, Names, NameOf
  <2> QED
    BY <1>1, <1>2, <2>2 DEF ContractUnchanged
<1> QED
  BY <1>3, <1>4

LEMMA SuppressedIsSuppress ==
  ASSUME CompilationInv, Suppressed PROVE Contract!Suppress
<1>1. /\ phase = "next" /\ phase' = "next" /\ at' = at + 1 /\ at \in Nat \ {0}
      /\ UNCHANGED <<body, registry, saved, states, lastValid>>
  BY DEF Suppressed, held, CompilationInv, GraphOK
<1>2. /\ SolidSoFar' = SolidSoFar /\ NamesSoFar' = NamesSoFar
      /\ PriorSolid' = PriorSolid /\ LastMode' = LastMode
  BY <1>1 DEF SolidSoFar, NamesSoFar, Names, NameOf, PriorSolid, LastMode, Between
<1> QED
  BY <1>1, <1>2 DEF Contract!Suppress

LEMMA RollbackIsStop ==
  ASSUME CompilationInv, Rollback PROVE Contract!Stop
<1>1. /\ phase = "failed" /\ phase' = "stopped"
      /\ body' = saved.body /\ registry' = saved.registry
      /\ UNCHANGED <<at, states, lastValid>>
  BY DEF Rollback
<1>2. /\ SolidSoFar' = SolidSoFar /\ NamesSoFar' = NamesSoFar
      /\ PriorSolid' = PriorSolid /\ LastMode' = LastMode
  BY <1>1 DEF SolidSoFar, NamesSoFar, Names, NameOf, PriorSolid, LastMode, Between
<1> QED
  BY <1>1, <1>2 DEF Contract!Stop

(* What has been remapped since keeps its place or is lost.                *)
LEMMA NamesAreKept ==
  ASSUME NEW old, NEW new, Tracks(old, new), NEW id \in DOMAIN old
  PROVE  Names(new)[id] \in {Names(old)[id], NoShape}
<1>1. id \in DOMAIN new /\ Names(new)[id] = NameOf(new[id]) /\ Names(old)[id] = NameOf(old[id])
  BY DEF Tracks, Names
<1>2. PICK r, m : r = old[id] /\ m = new[id]
  OBVIOUS
<1>3. /\ m.kind = r.kind
      /\ m.status = "resolved" =>
           r.status = "resolved" /\ (r.kind # "solid" => Place(m.shape) = Place(r.shape))
  BY <1>2 DEF Tracks
<1>4. NameOf(m) \in {NameOf(r), NoShape}
  BY <1>3 DEF NameOf
<1> QED
  BY <1>1, <1>2, <1>4

LEMMA CommitIsCompile ==
  ASSUME CompilationInv, MaterialInv, Commit PROVE Contract!Compile(work.mode)
<1>1. /\ phase = "registered" /\ phase' = "next" /\ at' = at + 1 /\ at \in Nat \ {0} /\ Working
      /\ lastValid' = at /\ UNCHANGED <<body, registry, saved>>
  BY DEF Commit, held, Working, CompilationInv, GraphOK
<1>2. PICK s : s = [mode |-> work.mode, tool |-> work.tool, before |-> saved.body, after |-> body]
  OBVIOUS
<1>3. states'[at] = s
  BY <1>2 DEF Commit
<1>4. PriorSolid' = saved.body /\ LastMode' = work.mode
  BY <1>1, <1>2, <1>3 DEF PriorSolid, LastMode
<1>5. SolidSoFar = saved.body /\ SolidSoFar' = body
  BY <1>1 DEF SolidSoFar, Between
<1>6. NamesSoFar = Names(saved.registry) /\ NamesSoFar' = Names(registry)
  BY <1>1 DEF NamesSoFar, Between, Names, NameOf
<1>7. body # {}
  BY <1>1, Extremes DEF CompilationInv, Current
<1>8. \/ Contract!Follows(work.mode, SolidSoFar, SolidSoFar')
      \/ Contract!Replaces(work.mode, SolidSoFar')
  <2>1. CASE This.op = "mirror" /\ ~This.keep
    <3>1. Instead(work.mode, body)
      BY <1>1, <2>1 DEF MaterialInv, Promised
    <3>2. lastValid # 0
      BY <3>1 DEF Instead, CompilationInv, StatesInOrder
    <3>3. LastMode = work.mode /\ PriorSolid = states[lastValid].before
      BY <3>1, <3>2 DEF Instead, LastMode, PriorSolid
    <3> QED
      BY <3>1, <3>3, <1>5 DEF Instead, Follows, Contract!Replaces
  <2>2. CASE ~(This.op = "mirror" /\ ~This.keep)
    BY <1>1, <1>5, <2>2 DEF MaterialInv, Promised, Follows
  <2> QED
    BY <2>1, <2>2
<1>9. /\ Tracks(saved.registry, registry) /\ RecordsOK(saved.registry) /\ RecordsOK(registry)
      /\ Producers(saved.registry) = ValidSoFar /\ Producers(registry) = ValidSoFar \cup {at}
      /\ ValidSoFar \in SUBSET (1..(at - 1))
  BY <1>1 DEF CompilationInv, Current, Between, Settled, Consistent, ValidSoFar, RecordsInOrder
<1>10. DOMAIN NamesSoFar = DOMAIN saved.registry /\ DOMAIN NamesSoFar' = DOMAIN registry
  BY <1>6 DEF Names
<1>11. Contract!NamesSurvive
  <2>1. \A id \in DOMAIN NamesSoFar : NamesSoFar'[id] \in {NamesSoFar[id], NoShape}
    BY <1>6, <1>9, <1>10, NamesAreKept
  <2> QED
    BY <2>1, <1>9, <1>10 DEF Contract!NamesSurvive, Tracks
<1>12. Contract!NamesItsOwn
  <2>1. \A id \in DOMAIN registry : id \in DOMAIN saved.registry \/ id[1] = at
    BY <1>1 DEF MaterialInv, Fresh
  <2>2. PICK id \in DOMAIN registry : registry[id].producer = at
    BY <1>9 DEF Producers
  <2>3. id[1] = at
    BY <1>9, <2>2 DEF RecordsOK
  <2>4. id \notin DOMAIN saved.registry
    BY <1>1, <1>9, <2>3, IdsAreBefore
  <2>5. at' - 1 = at
    BY <1>1
  <2> QED
    BY <1>10, <2>1, <2>2, <2>4, <2>5 DEF Contract!NamesItsOwn
<1> QED
  BY <1>1, <1>4, <1>5, <1>7, <1>8, <1>11, <1>12 DEF Contract!Compile

LEMMA ContractStep ==
  CompilationInv /\ MaterialInv /\ [Next]_vars => [Contract!Next]_(Contract!contractVars)
<1> SUFFICES ASSUME CompilationInv, MaterialInv, [Next]_vars
             PROVE  Contract!Next \/ UNCHANGED Contract!contractVars
  OBVIOUS
<1>1. ASSUME ContractUnchanged PROVE UNCHANGED Contract!contractVars
  BY <1>1 DEF ContractUnchanged, Contract!contractVars
<1>2. CASE Suppressed \/ Rollback
  BY <1>2, SuppressedIsSuppress, RollbackIsStop DEF Contract!Next
<1>3. CASE Build \/ Validate \/ Remap \/ Register
  BY <1>1, <1>3, WithinIsNothing
<1>4. CASE Commit
  <2>1. work.mode \in Contract!Modes
    BY <1>4 DEF Commit, CompilationInv, InHand, Working, BooleanModes, Contract!Modes
  <2> QED
    BY <1>4, <2>1, CommitIsCompile DEF Contract!Next
<1>5. CASE UNCHANGED vars
  <2>1. ContractUnchanged
    BY <1>5 DEF vars, held, ContractUnchanged, SolidSoFar, NamesSoFar, Names, NameOf, PriorSolid,
                LastMode, Between
  <2> QED
    BY <1>1, <2>1
<1> QED
  BY <1>2, <1>3, <1>4, <1>5 DEF Next

(* Compilation implements CompilationContract: a feature that fails at any *)
(* step leaves no trace, and one that does not moves the material and the  *)
(* names at once.                                                          *)
THEOREM FeaturesAreAtomicHolds == Spec => FeaturesAreAtomic
<1> QED
  BY InitContract, ContractStep, CompilationInvariant, MaterialInvariant, PTL
     DEF Spec, FeaturesAreAtomic, Contract!Spec
=============================================================================
