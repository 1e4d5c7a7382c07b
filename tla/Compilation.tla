---------------------------- MODULE Compilation ----------------------------
(***************************************************************************)
(* The compilation of a CADGraph to a solid, feature by feature in the     *)
(* authored order, with the registry of the faces and edges that later     *)
(* features may name.                                                      *)
(*   engine/mesh2param/compiler.py   compile_cadgraph                      *)
(*   engine/mesh2param/topology.py   TopologyRegistry                      *)
(*                                                                         *)
(* The geometry is that of a line: a body is a set of unit cells, one      *)
(* solid when it is an interval, and has a face and an edge at either end. *)
(* Boolean operations, translations and reflections are exact.  What only  *)
(* the kernel knows is left open: whether an operation fails, and whether  *)
(* a face that keeps its place is still the same object afterwards.        *)
(* Definitions named X_Y that stand before X are deliberate defects of X.  *)
(***************************************************************************)
EXTENDS Integers, Sequences, FiniteSetsExt

CONSTANTS
  Menu,         \* the features a graph may be made of
  MaxFeatures   \* bound on the number of features of a graph

Operations == {"extrusion", "revolution", "pocket", "hole", "pattern", "mirror", "finish",
               "imported", "network"}
BooleanModes == {"base", "additive", "subtractive"}
Extents == {"blind", "symmetric", "throughAll", "toFace"}
ASSUME MenuAssumption ==
  \A f \in Menu :
    /\ f.op \in Operations /\ f.mode \in BooleanModes /\ f.extent \in Extents
    /\ f.at \in Int /\ f.dir \in {-1, 1} /\ f.distance \in Int /\ f.shift \in Int
    /\ f.kind \in {"face", "edge", "solid"}
ASSUME MaxFeaturesAssumption == MaxFeatures \in Nat

NoBody  == {}
NoShape == [kind |-> "none"]
NoId    == <<>>
NoRole  == "none"

(* A feature that has no effect but for the fields that a menu changes.    *)
Feature ==
  [op |-> "extrusion", mode |-> "base", at |-> 0, dir |-> 1, extent |-> "blind", distance |-> 1,
   target |-> NoId, sources |-> {}, shift |-> 1, keep |-> TRUE, suppressed |-> FALSE,
   declares |-> NoRole, kind |-> "face", required |-> FALSE]

VARIABLES
  graph,      \* the features, in their order
  artifact,   \* what the artifact resolver finds: present, changed, missing or none
  at,         \* the feature that is being compiled
  phase,      \* how far it is
  work,       \* its tool, boolean mode and direction
  body,       \* the cells of the body
  shapes,     \* its faces and edges, as objects of the kernel
  registry,   \* id -> record, of every id registered so far
  issues,     \* the ids with a topology issue
  saved,      \* body, shapes, registry and issues before the feature
  states,     \* id -> what a valid feature leaves for patterns and mirrors
  records,    \* one per feature that was reached
  lastValid,  \* the last valid feature, or 0
  failure     \* the code of the error that stopped the compilation
vars == <<graph, artifact, at, phase, work, body, shapes, registry, issues, saved, states,
          records, lastValid, failure>>
held == <<body, shapes, registry, issues>>

NoWork == [tool |-> {}, mode |-> "none", dir |-> 0]
NoFailure == "none"
This == graph[at]

(* validate_graph: what a feature is built from comes earlier.             *)
WellFormed(g) == \A i \in DOMAIN g : g[i].sources \subseteq 1..(i - 1)

Init ==
  /\ graph \in {g \in UNION {[1..n -> Menu] : n \in 1..MaxFeatures} : WellFormed(g)}
  /\ artifact \in {"present", "changed", "missing", "none"}
  /\ (artifact # "present" => \E i \in DOMAIN graph : graph[i].op \in {"imported", "network"})
  /\ at = 1
  /\ phase = "next"
  /\ work = NoWork
  /\ body = NoBody
  /\ shapes = {}
  /\ registry = [id \in {} |-> NoShape]
  /\ issues = {}
  /\ saved = [body |-> NoBody, shapes |-> {}, registry |-> registry, issues |-> {}]
  /\ states = [i \in {} |-> NoWork]
  /\ records = <<>>
  /\ lastValid = 0
  /\ failure = NoFailure

-----------------------------------------------------------------------------
(* Geometry.                                                               *)

OneSolid(cells) == \E low, high \in cells : cells = low..high

Ends(cells) == {[at |-> Min(cells), side |-> -1], [at |-> Max(cells) + 1, side |-> 1]}

(* The faces and edges of a new body.  What keeps its place may be the     *)
(* same object (kept) or have been made anew.                              *)
Places(cells) == {[kind |-> k, at |-> e.at, side |-> e.side] : k \in {"face", "edge"},
                                                              e \in Ends(cells)}
Place(shape) == [kind |-> shape.kind, at |-> shape.at, side |-> shape.side]
Kept(cells) == {s \in shapes : Place(s) \in Places(cells)}
Shaped(cells, kept) ==
  kept \cup {[kind |-> p.kind, at |-> p.at, side |-> p.side, made |-> at] :
               p \in Places(cells) \ {Place(s) : s \in kept}}

(* A descriptor of a face has the kinds of its neighbours when it is made  *)
(* with the body that owns the face.                                       *)
Descriptor(shape, owned) ==
  [place |-> Place(shape), neighbours |-> owned /\ shape.kind = "face"]

-----------------------------------------------------------------------------
(* Tools.  A tool that cannot be built is a failure with its code.         *)
Fails(code) == [ok |-> FALSE, code |-> code]
Makes(cells) == [ok |-> TRUE, cells |-> cells]

Swept(from, dir, length) ==
  IF length <= 0 THEN Fails("invalid_distance")
  ELSE Makes(IF dir = 1 THEN from..(from + length - 1) ELSE (from - length)..(from - 1))
(* Beyond the body on both sides.                                          *)
Through == Makes((Min(body) - 1)..(Max(body) + 1))

(* require_shape                                                           *)
Required(id, kind) ==
  id \in DOMAIN registry /\ registry[id].kind = kind /\ registry[id].status = "resolved"

(* The distance to a face is along the direction of the feature.           *)
ToFace(f) ==
  IF body = NoBody THEN Fails("to_face_target_missing")
  ELSE IF ~Required(f.target, "face") THEN Fails("unresolved_semantic_reference")
  ELSE LET distance == (registry[f.target].shape.at - f.at) * f.dir
       IN  IF distance <= 0 THEN Fails("to_face_behind_profile")
           ELSE Swept(f.at, f.dir, distance)

ExtrusionTool(f) ==
  CASE f.extent = "blind"      -> Swept(f.at, f.dir, f.distance)
    [] f.extent = "symmetric"  -> Swept(f.at - f.dir * (f.distance \div 2), f.dir, f.distance)
    [] f.extent = "throughAll" -> IF body = NoBody THEN Fails("through_all_without_body")
                                  ELSE Through
    [] f.extent = "toFace"     -> ToFace(f)

HoleTool(f) == IF f.extent = "throughAll" THEN Through ELSE Swept(f.at, f.dir, f.distance)

(* The resolved artifact must be the one the graph names.                  *)
ArtifactTool(f) ==
  CASE artifact = "none"    -> Fails("artifact_resolver_missing")
    [] artifact = "missing" -> Fails("artifact_missing")
    [] artifact = "changed" -> Fails("artifact_hash_mismatch")
    [] OTHER                -> Swept(f.at, f.dir, f.distance)

-----------------------------------------------------------------------------
(* A body, the tool it was made with, the mode and the direction.          *)
Built(cells, tool, mode, dir) ==
  [ok |-> TRUE, cells |-> cells, work |-> [tool |-> tool, mode |-> mode, dir |-> dir]]

(* _apply_boolean: one solid, and more or less material than before.       *)
ApplyBoolean(old, tool, mode, dir) ==
  LET new == CASE mode = "base" -> tool
               [] mode = "additive" -> old \cup tool
               [] mode = "subtractive" -> old \ tool
  IN  IF mode = "base" /\ old # NoBody THEN Fails("second_base_feature")
      ELSE IF mode # "base" /\ old = NoBody THEN Fails("missing_base_body")
      ELSE IF ~OneSolid(new) THEN Fails("solid_count")
      ELSE IF mode # "base" /\ new = old THEN Fails("boolean_no_effect")
      ELSE Built(new, tool, mode, dir)
WithTool(tool, mode, dir) == IF ~tool.ok THEN tool ELSE ApplyBoolean(body, tool.cells, mode, dir)

(* The sources of a pattern or a mirror left their tools when they were    *)
(* built; a suppressed feature left nothing.                               *)
Available(f) == f.sources \subseteq DOMAIN states
Modes(f) == {states[i].mode : i \in f.sources}
ModeOf(f) == CHOOSE m \in Modes(f) : TRUE

Shifted(cells, by) == {c + by : c \in cells}
PatternFeature(f) ==
  IF ~Available(f) THEN Fails("pattern_source_unavailable")
  ELSE IF Cardinality(Modes(f)) # 1 \/ "base" \in Modes(f) THEN Fails("mixed_pattern_modes")
  ELSE ApplyBoolean(body, UNION {Shifted(states[i].tool, f.shift) : i \in f.sources},
                    ModeOf(f), f.dir)

(* A mirror that replaces its source works on the body from before it.     *)
Reflected(cells, plane) == {2 * plane - 1 - c : c \in cells}
Mirrored(f) ==
  LET tool == UNION {Reflected(states[i].tool, f.at) : i \in f.sources}
      only == CHOOSE i \in f.sources : TRUE
  IN  CASE ~f.keep /\ ModeOf(f) = "base" -> ApplyBoolean(NoBody, tool, "base", f.dir)
        [] ~f.keep /\ ModeOf(f) # "base" ->
             ApplyBoolean(states[only].before, tool, ModeOf(f), f.dir)
        [] OTHER -> ApplyBoolean(body, tool, IF ModeOf(f) = "base" THEN "additive" ELSE ModeOf(f),
                                 f.dir)
MirrorFeature_AnySource(f) ==
  IF ~Available(f) THEN Fails("pattern_source_unavailable")
  ELSE IF Cardinality(Modes(f)) # 1 THEN Fails("mixed_mirror_modes")
  ELSE Mirrored(f)
MirrorFeature(f) ==
  IF ~Available(f) THEN Fails("pattern_source_unavailable")
  ELSE IF Cardinality(Modes(f)) # 1 THEN Fails("mixed_mirror_modes")
  ELSE IF ~f.keep /\ f.sources # {lastValid} THEN Fails("mirror_replace_requires_adjacent_source")
  ELSE Mirrored(f)

(* A fillet or a chamfer takes the cell at the end that the edge names;    *)
(* its tool is what it took.                                               *)
FinishingFeature(f) ==
  IF ~Required(f.target, "edge") THEN Fails("unresolved_semantic_reference")
  ELSE LET edge == registry[f.target].shape
           took == {IF edge.side = 1 THEN edge.at - 1 ELSE edge.at}
       IN  IF ~OneSolid(body \ took) THEN Fails("solid_count")
           ELSE Built(body \ took, took \cap body, "subtractive", 0)

BuildFeature(f) ==
  IF body = NoBody /\ f.op \notin {"extrusion", "revolution", "imported", "network"}
  THEN Fails("missing_base_body")
  ELSE CASE f.op = "extrusion"  -> WithTool(ExtrusionTool(f), f.mode, f.dir)
         [] f.op = "revolution" -> WithTool(Swept(f.at, f.dir, f.distance), f.mode, f.dir)
         [] f.op = "pocket"     -> WithTool(ExtrusionTool(f), "subtractive", f.dir)
         [] f.op = "hole"       -> WithTool(HoleTool(f), "subtractive", f.dir)
         [] f.op = "pattern"    -> PatternFeature(f)
         [] f.op = "mirror"     -> MirrorFeature(f)
         [] f.op = "finish"     -> FinishingFeature(f)
         [] f.op = "imported"   -> WithTool(ArtifactTool(f), f.mode, 0)
         [] f.op = "network"    -> WithTool(ArtifactTool(f), "base", 0)

-----------------------------------------------------------------------------
(* The registry.                                                           *)

(* A solid is whatever the body is; its shape is not told apart.           *)
Solid == [kind |-> "solid"]

(* remap_against: the same object, or the one shape with its descriptor,   *)
(* or nothing: no other shape is ever taken in its place.                  *)
Remapped_Nearest(r, now) ==
  LET same  == {s \in now : s = r.shape}
      near  == {s \in now : s.kind = r.kind /\ s.side = r.shape.side}
  IN  IF r.shape = NoShape \/ r.kind = "solid" THEN r
      ELSE IF same # {} THEN [r EXCEPT !.descriptor = Descriptor(r.shape, TRUE)]
      ELSE [r EXCEPT !.shape = CHOOSE s \in near : TRUE]
Remapped_Stale(r, now) ==
  LET same  == {s \in now : s = r.shape}
      exact == {s \in now : Descriptor(s, TRUE) = r.descriptor}
  IN  IF same # {} THEN [r EXCEPT !.descriptor = Descriptor(r.shape, TRUE)]
      ELSE IF Cardinality(exact) = 1 THEN [r EXCEPT !.shape = CHOOSE s \in exact : TRUE]
      ELSE r
Remapped(r, now) ==
  LET same  == {s \in now : s = r.shape}
      exact == {s \in now : Descriptor(s, TRUE) = r.descriptor}
  IN  IF r.shape = NoShape \/ r.kind = "solid" THEN r
      ELSE IF same # {} THEN [r EXCEPT !.descriptor = Descriptor(r.shape, TRUE)]
      ELSE IF Cardinality(exact) = 1 THEN [r EXCEPT !.shape = CHOOSE s \in exact : TRUE]
      ELSE [r EXCEPT !.shape = NoShape, !.status = "unresolved"]

(* A new record is described without the body that owns it.                *)
Record(kind, shape) ==
  [kind |-> kind, producer |-> at, shape |-> shape,
   status |-> IF shape = NoShape THEN "unresolved" ELSE "resolved",
   descriptor |-> IF shape.kind \in {"face", "edge"} THEN Descriptor(shape, FALSE)
                  ELSE [place |-> NoShape, neighbours |-> FALSE]]

OfKind(kind) == {s \in shapes : s.kind = kind}
(* The shapes of a kind in the order of their descriptors.                 *)
Nth(kind, n) == CHOOSE s \in OfKind(kind) :
                  Cardinality({t \in OfKind(kind) : t.at < s.at}) = n - 1

(* _select_reference, for a role that names a result, an end along the     *)
(* direction of the feature, or a number.                                  *)
Along(dir, side) == {s \in OfKind("face") : s.side = side * dir}
Selected(f) ==
  IF f.kind = "solid" THEN Solid
  ELSE IF f.kind = "face" /\ f.declares = "top" /\ work.dir # 0 THEN
         CHOOSE s \in Along(work.dir, 1) : TRUE
  ELSE IF f.kind = "face" /\ f.declares = "bottom" /\ work.dir # 0 THEN
         CHOOSE s \in Along(work.dir, -1) : TRUE
  ELSE IF f.declares = "second" THEN Nth(f.kind, 2)
  ELSE NoShape

(* The records of a feature: its solid, its faces and edges by number      *)
(* (none for the facets of a mesh), and the reference that it declares.    *)
Faceted(f) == f.op = "imported" /\ f.mode = "base" /\ saved.body = NoBody
Registered(f) ==
  LET numbered == IF Faceted(f) THEN {} ELSE {<<at, k, n>> : k \in {"face", "edge"}, n \in 1..2}
      declared == IF f.declares = NoRole THEN {} ELSE {<<at, "declared">>}
  IN  [id \in {<<at, "solid">>} \cup numbered \cup declared |->
         IF id = <<at, "solid">> THEN Record("solid", Solid)
         ELSE IF id \in declared THEN Record(f.kind, Selected(f))
         ELSE Record(id[2], Nth(id[2], id[3]))]

-----------------------------------------------------------------------------
(* compile_cadgraph                                                        *)

Entry(status) == Append(records, [feature |-> at, status |-> status])

Suppressed ==
  /\ phase = "next" /\ at \in DOMAIN graph /\ This.suppressed
  /\ records' = Entry("suppressed")
  /\ at' = at + 1
  /\ UNCHANGED <<graph, artifact, phase, work, held, saved, states, lastValid, failure>>

Fail(code) ==
  /\ failure' = code
  /\ phase' = "failed"

Build ==
  /\ phase = "next" /\ at \in DOMAIN graph /\ ~This.suppressed
  /\ saved' = [body |-> body, shapes |-> shapes, registry |-> registry, issues |-> issues]
  /\ LET result == BuildFeature(This)
     IN  \/ /\ result.ok
            /\ body' = result.cells
            /\ \E kept \in SUBSET Kept(result.cells) : shapes' = Shaped(result.cells, kept)
            /\ work' = result.work
            /\ phase' = "built"
            /\ UNCHANGED failure
         \/ /\ Fail(IF result.ok THEN "kernel_exception" ELSE result.code)
            /\ UNCHANGED <<body, shapes, work>>
  /\ UNCHANGED <<graph, artifact, at, registry, issues, states, records, lastValid>>

Validate ==
  /\ phase = "built"
  /\ \/ phase' = "validated" /\ UNCHANGED failure
     \/ Fail("invalid_brep")
  /\ UNCHANGED <<graph, artifact, at, work, held, saved, states, records, lastValid>>

Remap ==
  /\ phase = "validated"
  /\ registry' = [id \in DOMAIN registry |-> Remapped(registry[id], shapes)]
  /\ issues' = issues \cup {id \in DOMAIN registry : /\ registry[id].shape # NoShape
                                                     /\ registry'[id].shape = NoShape}
  /\ phase' = "remapped"
  /\ UNCHANGED <<graph, artifact, at, work, body, shapes, saved, states, records, lastValid,
                 failure>>

(* An output that the feature promises and that does not resolve fails it, *)
(* with its records already in the registry.                               *)
Register ==
  /\ phase = "remapped"
  /\ LET new  == Registered(This)
         lost == {id \in DOMAIN new : new[id].status = "unresolved"}
     IN  /\ registry' = [id \in DOMAIN registry \cup DOMAIN new |->
                           IF id \in DOMAIN new THEN new[id] ELSE registry[id]]
         /\ issues' = issues \cup lost
         /\ IF This.required /\ lost # {} THEN Fail("unresolved_semantic_reference")
            ELSE phase' = "registered" /\ UNCHANGED failure
  /\ UNCHANGED <<graph, artifact, at, work, body, shapes, saved, states, records, lastValid>>

Commit ==
  /\ phase = "registered"
  /\ states' = [i \in DOMAIN states \cup {at} |->
                  IF i = at THEN [mode |-> work.mode, tool |-> work.tool,
                                  before |-> saved.body, after |-> body]
                  ELSE states[i]]
  /\ lastValid' = at
  /\ records' = Entry("valid")
  /\ at' = at + 1
  /\ phase' = "next"
  /\ UNCHANGED <<graph, artifact, work, held, saved, failure>>

(* The first failure ends the compilation.                                 *)
Rollback_BodyOnly ==
  /\ phase = "failed"
  /\ body' = saved.body /\ shapes' = saved.shapes
  /\ records' = Entry("failed")
  /\ phase' = "stopped"
  /\ UNCHANGED <<graph, artifact, at, work, registry, issues, saved, states, lastValid, failure>>
Rollback ==
  /\ phase = "failed"
  /\ body' = saved.body /\ shapes' = saved.shapes
  /\ registry' = saved.registry /\ issues' = saved.issues
  /\ records' = Entry("failed")
  /\ phase' = "stopped"
  /\ UNCHANGED <<graph, artifact, at, work, saved, states, lastValid, failure>>

Next == Suppressed \/ Build \/ Validate \/ Remap \/ Register \/ Commit \/ Rollback
Spec == Init /\ [][Next]_vars

-----------------------------------------------------------------------------
(* Properties.                                                             *)

Between == phase \in {"next", "stopped"}
Valid(i) == i \in DOMAIN records /\ records[i].status = "valid"

(* A reference that resolves names a face or an edge of the body as it is  *)
(* now: an operation never works on one that an earlier operation removed. *)
ResolvedIsOnBody ==
  Between =>
    \A id \in DOMAIN registry :
      registry[id].status = "resolved" =>
        /\ body # NoBody
        /\ registry[id].kind # "solid" => registry[id].shape \in OfKind(registry[id].kind)

(* After a failure the body and the registry are those of the last valid   *)
(* feature, and nothing after the failure is compiled.                     *)
FailureKeepsTheLastValid ==
  Between =>
    /\ body = IF lastValid = 0 THEN NoBody ELSE states[lastValid].after
    /\ {registry[id].producer : id \in DOMAIN registry} = {i \in DOMAIN records : Valid(i)}
    /\ \A i \in DOMAIN records : records[i].status = "failed" => i = Len(records)

(* What a feature does to the material is what its mode says: a cut takes  *)
(* some away and adds nothing, a boss adds some and takes nothing away.    *)
MaterialFollowsMode ==
  \A i \in DOMAIN states :
    LET s == states[i]
    IN  graph[i].keep =>
          /\ s.mode = "additive" => s.before \subseteq s.after /\ s.before # s.after
          /\ s.mode = "subtractive" => s.after \subseteq s.before /\ s.before # s.after
          /\ s.mode = "base" => s.before = NoBody

(* A mirror that replaces its source undoes that source and no other       *)
(* feature: no valid one stands between them.                              *)
NothingElseIsUndone ==
  \A i \in DOMAIN states :
    (graph[i].op = "mirror" /\ ~graph[i].keep) =>
      \A j \in DOMAIN states : j < i => \E source \in graph[i].sources : j <= source

(* A reference never comes to name a face or an edge in another place.     *)
NeverAnotherFace ==
  [][\A id \in DOMAIN registry \cap DOMAIN registry' :
       (registry[id].status = "resolved" /\ registry'[id].status = "resolved"
          /\ registry[id].kind # "solid")
         => Place(registry'[id].shape) = Place(registry[id].shape)]_vars

(* "or one exact descriptor match": a reference whose face is still there, *)
(* and is the only one that looks like it, still resolves.                 *)
IdenticalFaceIsFound ==
  [][Remap =>
       \A id \in DOMAIN registry :
         (registry[id].status = "resolved" /\ registry[id].kind # "solid"
            /\ Place(registry[id].shape) \in {Place(s) : s \in shapes})
           => registry'[id].status = "resolved"]_vars

(* Whatever step of a feature fails, and whatever the steps before it had  *)
(* done, features happen at once or not at all, as CompilationContract     *)
(* says: until one is committed or rolled back, the compilation is where   *)
(* it was before that feature.                                             *)
NameOf(r) ==
  IF r.status # "resolved" THEN NoShape ELSE IF r.kind = "solid" THEN Solid ELSE Place(r.shape)
Names(reg) == [id \in DOMAIN reg |-> NameOf(reg[id])]
SolidSoFar == IF Between THEN body ELSE saved.body
NamesSoFar == Names(IF Between THEN registry ELSE saved.registry)
PriorSolid == IF lastValid = 0 THEN NoBody ELSE states[lastValid].before
LastMode   == IF lastValid = 0 THEN "none" ELSE states[lastValid].mode
Contract == INSTANCE CompilationContract WITH
  Lost <- NoShape, done <- at - 1, over <- phase = "stopped", solid <- SolidSoFar,
  prior <- PriorSolid, last <- LastMode, named <- NamesSoFar
FeaturesAreAtomic == Contract!Spec
=============================================================================
