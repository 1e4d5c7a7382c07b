------------------------------ MODULE MeshSource ------------------------------
(***************************************************************************)
(* A mesh file on its way into a project: the preflight of the upload, the *)
(* ingestion by a job, and the repair, operation by operation.             *)
(*   services/api/mesh2param_api/api/routes/operations.py  upload_source   *)
(*   services/api/mesh2param_api/jobs/handlers.py  _repair_settings        *)
(*   engine/mesh2param/repair.py  repair_mesh                              *)
(* The parsers are in MeshFormats and the operations in MeshRepair.        *)
(***************************************************************************)
EXTENDS MeshRepair

CONSTANTS
  Files,     \* the files that are uploaded
  RepairAsks \* the settings of repairs that clients ask for: lists of operations

ASSUME FilesAssumption == \A f \in Files : Taken(f)

VARIABLES
  file,     \* the file
  phase,    \* what has become of it
  upload,   \* what the preflight said
  read,     \* what the ingestion said
  mesh,     \* the mesh the job works on
  wanted,   \* the operations that are enabled
  order     \* the operation that is due
sourceVars == <<file, phase, upload, read, mesh, wanted, order>>

Nothing == [refusal |-> "not_asked"]
NoMesh  == MeshOf(<<>>, <<>>)
(* The settings without a list of operations.                              *)
Absent  == <<"absent">>

SourceInit ==
  /\ file \in Files
  /\ phase = "staged"
  /\ upload = Nothing /\ read = Nothing
  /\ mesh = NoMesh
  /\ wanted = {} /\ order = 0

(* upload_source: a file that passes is the source from here on.           *)
Upload ==
  /\ phase = "staged"
  /\ upload' = Preflight(file)
  /\ phase' = IF upload'.refusal = "none" THEN "source" ELSE "refused"
  /\ UNCHANGED <<file, read, mesh, wanted, order>>

(* ingest_mesh, at the start of the job of the upload and of every other.  *)
(* A file with a line break that only the engine sees may be another to    *)
(* the mesh library, which has its own: then the triangles do not match.   *)
Unreadable(reply) ==
  /\ read' = reply /\ phase' = "unreadable"
  /\ UNCHANGED <<file, upload, mesh, wanted, order>>
Ingest ==
  /\ phase = "source"
  /\ \/ Checked(file).refusal # "none" /\ Unreadable(Checked(file))
     \/ /\ Checked(file).refusal = "none" /\ Broken(file)
        /\ Unreadable(Rejected("malformed_geometry"))
     \/ /\ Checked(file).refusal = "none"
        /\ \E m \in Loadings(file) :
             IF Ingestion(file, m).refusal # "none" THEN Unreadable(Ingestion(file, m))
             ELSE /\ mesh' = m /\ phase' = "mesh" /\ read' = Ingestion(file, m)
                  /\ UNCHANGED <<file, upload, wanted, order>>

-----------------------------------------------------------------------------
(* Repair.                                                                 *)

Operations_UnreferencedFirst ==
  << "merge_duplicate_vertices", "remove_unreferenced_vertices", "remove_degenerate_faces",
     "remove_duplicate_faces", "orient_winding", "repair_normals",
     "keep_largest_component", "drop_tiny_components", "fill_small_holes" >>
Operations ==
  << "merge_duplicate_vertices", "remove_degenerate_faces", "remove_duplicate_faces",
     "remove_unreferenced_vertices", "orient_winding", "repair_normals",
     "keep_largest_component", "drop_tiny_components", "fill_small_holes" >>
Default == ToSet(SubSeq(Operations, 1, 6))

(* _repair_settings: operations of a list, none of them twice.             *)
Valid(ask) ==
  /\ Len(ask) <= Len(Operations)
  /\ ToSet(ask) \subseteq ToSet(Operations)
  /\ Cardinality(ToSet(ask)) = Len(ask)
AskRepair(ask) ==
  /\ phase = "mesh"
  /\ IF ask = Absent \/ Valid(ask)
     THEN /\ phase' = "repairing" /\ order' = 1
          /\ wanted' = IF ask = Absent THEN Default ELSE ToSet(ask)
     ELSE phase' = "failed" /\ UNCHANGED <<wanted, order>>
  /\ UNCHANGED <<file, upload, read, mesh>>

(* repair_mesh: every operation has its turn, enabled or not.              *)
Due(name) == phase = "repairing" /\ order <= Len(Operations) /\ Operations[order] = name
Becomes(m) ==
  /\ mesh' = m
  /\ order' = order + 1
  /\ UNCHANGED <<file, phase, upload, read, wanted>>

Skip ==
  /\ phase = "repairing" /\ order <= Len(Operations)
  /\ Operations[order] \notin wanted
  /\ Becomes(mesh)

HasTurn(name) == Due(name) /\ name \in wanted
Merge == HasTurn("merge_duplicate_vertices") /\ Becomes(MergeVertices(mesh))
ClearDegenerate ==
  /\ HasTurn("remove_degenerate_faces")
  /\ IF RemoveDegenerate(mesh).faces = <<>>
     THEN phase' = "failed" /\ UNCHANGED <<file, upload, read, mesh, wanted, order>>
     ELSE Becomes(RemoveDegenerate(mesh))
ClearDuplicates == HasTurn("remove_duplicate_faces") /\ Becomes(RemoveDuplicateFaces(mesh))
ClearUnreferenced ==
  HasTurn("remove_unreferenced_vertices") /\ Becomes(RemoveUnreferenced(mesh))
Orient ==
  /\ HasTurn("orient_winding") \/ HasTurn("repair_normals")
  /\ \E numbers \in SUBSET DOMAIN mesh.faces : Becomes(Flipped(mesh, numbers))
KeepOne ==
  /\ HasTurn("keep_largest_component")
  /\ \E c \in LargestComponents(mesh) : Becomes(KeepLargest(mesh, c))
(* Nothing is left to drop when only the largest has been kept.            *)
Drop ==
  /\ HasTurn("drop_tiny_components")
  /\ Becomes(IF "keep_largest_component" \in wanted THEN mesh ELSE DropTiny(mesh))
Fill == HasTurn("fill_small_holes") /\ Becomes(FillSmallHoles(mesh))

Finish ==
  /\ phase = "repairing" /\ order > Len(Operations)
  /\ phase' = "repaired"
  /\ UNCHANGED <<file, upload, read, mesh, wanted, order>>

SourceNext ==
  \/ Upload \/ Ingest
  \/ \E ask \in RepairAsks : AskRepair(ask)
  \/ Skip \/ Merge \/ ClearDegenerate \/ ClearDuplicates \/ ClearUnreferenced
  \/ Orient \/ KeepOne \/ Drop \/ Fill \/ Finish
SourceSpec == SourceInit /\ [][SourceNext]_sourceVars

-----------------------------------------------------------------------------
(* Properties.                                                             *)

(* What the preflight accepts and the engine may refuse: polygons, numbers *)
(* of vertices, textures and normals that come below, faces beyond what    *)
(* the engine looks at, so many that their corners are too many points, a  *)
(* comment before the format, a list longer than there are vertices, SOLID *)
(* in capitals, and a line break that only the engine sees.                *)
PreflightOnly ==
  \/ Broken(file)
  \/ file.kind = "text" /\ file.lines[1].word = "SOLID"
  \/ /\ file.kind = "obj"
     /\ \/ Sniff(file) # "obj"
        \/ 3 * Count(file.lines, "f") > MaxVertices
        \/ \E i \in Where(file.lines, "f") :
             \/ Len(file.lines[i].refs) > 3
             \/ \E n \in References(file.lines[i]) : n[2] > Above(file.lines, n[1], i)
  \/ /\ file.kind = "ply"
     /\ \/ file.header[1] = "comment"
        \/ \E n \in ListLengths(file) : n > 3

(* A file that was accepted is read as it was counted: the engine finds    *)
(* the triangles and vertices of the preflight, unless a line break that   *)
(* only it sees tears a line apart, the mesh has those triangles with      *)
(* corners that exist, and nothing is refused but what is listed above.    *)
ReadersAgree ==
  /\ phase = "mesh" =>
       /\ ~Broken(file) => read.triangles = upload.triangles /\ read.vertices = upload.vertices
       /\ Len(mesh.faces) = read.triangles
       /\ \A f \in ToSet(mesh.faces) : Corners(f) \subseteq DOMAIN mesh.points
  /\ phase = "unreadable" => PreflightOnly

(* The inventory of the upload says every accepted file is one the engine  *)
(* can read: "Upload preflight streams and structurally validates".        *)
AcceptedIsReadable == phase # "unreadable"

(* A repair that clears the mesh leaves nothing of what it clears: each of *)
(* its operations makes work for the next, and their order leaves none     *)
(* undone.  Filling comes after all of them; whatever is left then is in   *)
(* the triangles it has added to a mesh that was clear.                    *)
Clearing == {"merge_duplicate_vertices", "remove_degenerate_faces", "remove_duplicate_faces",
             "remove_unreferenced_vertices"}
Clean(m) ==
  LET found == Diagnosis(m) IN
  /\ found.degenerate = 0 /\ found.duplicateFaces = 0 /\ found.duplicatePoints = 0
  /\ Used(m.faces) = DOMAIN m.points
  /\ \A i, j \in DOMAIN m.points : Near(m.points[i], m.points[j]) => i = j
ClearedBefore(n) ==
  LET before == MeshOf(mesh.points, SubSeq(mesh.faces, 1, n))
  IN  Clean(before) /\ mesh = FillSmallHoles(before)
NoLeftovers ==
  (phase = "repaired" /\ Clearing \subseteq wanted) =>
    IF "fill_small_holes" \in wanted THEN \E n \in 0 .. Len(mesh.faces) : ClearedBefore(n)
    ELSE Clean(mesh)

(* Nothing comes back with the filling.  It does: an open triangle with no *)
(* neighbours is a hole of three edges, and is filled with itself, turned. *)
NothingReturns == (phase = "repaired" /\ Clearing \subseteq wanted) => Clean(mesh)

(* The components that union-find makes are those of the mesh: triangles   *)
(* that share an edge are in one, and none can be split without cutting an *)
(* edge that two triangles share.                                          *)
Touch(i, j) == EdgesOf(mesh.faces[i]) \cap EdgesOf(mesh.faces[j]) # {}
ComponentsAreConnectivity ==
  phase = "repairing" =>
    LET components == Components(mesh) IN
    /\ UNION components = DOMAIN mesh.faces
    /\ \A c, d \in components : \A i \in c, j \in d : Touch(i, j) => c = d
    /\ \A c \in components : \A part \in (SUBSET c) \ {{}, c} :
         \E i \in part, j \in c \ part : Touch(i, j)

(* A hole is closed as a whole or not at all, and what closes it runs      *)
(* against the triangles around it, so that the winding stays consistent.  *)
FilledLoopsClose ==
  [][(order <= Len(Operations) /\ Fill) =>
       LET open == Boundary(mesh.faces)
           left == Boundary(mesh'.faces)
           directed == {Run(mesh'.faces, r) : r \in Runs(mesh'.faces)}
       IN  /\ left \subseteq open
           /\ \A ring \in Rings(open) :
                LET edges == {e \in open : ToSet(e) \subseteq ring} IN
                \/ edges \subseteq left
                \/ \A e \in edges : e \notin left /\ <<e[2], e[1]>> \in directed]_sourceVars
=============================================================================
