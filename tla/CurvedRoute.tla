---------------------------- MODULE CurvedRoute ----------------------------
(***************************************************************************)
(* Curved reconstruction: a plate with a freeform top is fitted as one     *)
(* surface patch, as two that join smoothly along a cut, or as two that    *)
(* meet at a crease; recognized holes, caps, cones and torus beads are     *)
(* cut into the solid or fused to it.                                      *)
(*   engine/mesh2param/curved_patch.py       reconstruct_plate_network     *)
(*   engine/mesh2param/curved_conversion.py  create_curved_conversion      *)
(* The fit cache belongs to the command line: a job has none.              *)
(***************************************************************************)
EXTENDS EngineSteps

Openings == {"holes", "caps", "cones", "tori"}
(* What is on record of an opening: that it was recognized in the mesh,    *)
(* and that the solid has it.                                              *)
Recognized == [holes |-> "hole loops", caps |-> "cap loops",
               cones |-> "cone loops", tori |-> "torus loops"]
Made == [holes |-> "holes cut", caps |-> "caps fused",
         cones |-> "cones fused", tori |-> "tori fused"]
Find(openings) == KeepAll({Recognized[o] : o \in openings})

Curved(codes) == May("CurvedPatchError", codes)
Deny(code)    == Raise("CurvedPatchError", code)

(* The guard of a stage looks at the clock before it reports; the fraction *)
(* of the engine becomes 5 to 90 percent of the job.                       *)
Clock == Curved({"curved_patch_time_budget"})
Stage(fraction) == Clock \o ReportAt(500 + 85 * fraction)

-----------------------------------------------------------------------------
(* segment_mesh, then the reclassifications, locks and smooth boundaries   *)
(* of the user, which must name patches of this segmentation and satisfy   *)
(* the tolerance of the kind that is asked for.                            *)
SegmentWithOverrides ==
  Segment
    \o Curved({"curved_patch_override_unknown", "curved_patch_override_rejected"})

(* Every inner loop of the freeform region is a cylinder that runs through *)
(* it, a sphere, a cone or a torus.                                        *)
PlateOpenings(openings) == Curved({"curved_patch_hole_unrecognized"}) \o Find(openings)

ChartRefusals == {"chart_empty", "chart_corner_count", "chart_uv_folded", "chart_cut_boundary"}

(* One freeform region over a plane, bounded by four straight lines.       *)
PlateContext(openings) ==
  Curved({"curved_patch_unsupported_topology", "curved_patch_not_disk"})
    \o Curved({"curved_patch_no_bottom_plane"})
    \o PlateOpenings(openings)
    \o Curved({"curved_patch_boundary_mismatch"})
    \o Try(May("ChartParameterizationError", ChartRefusals),
           << On("ChartParameterizationError", RaiseAs("CurvedPatchError")) >>)
    \o Curved({"curved_patch_boundary_not_straight"})
    \o Curved({"curved_patch_degenerate_rectangle", "curved_patch_boundary_not_planar"})
    \o Curved({"curved_patch_bottom_not_parallel", "curved_patch_zero_height"})
    \o (IF "holes" \in openings THEN Curved({"curved_patch_hole_not_normal"}) ELSE <<>>)
    \o (IF "tori" \in openings
        THEN Curved({"curved_patch_torus_not_normal", "curved_patch_torus_not_vertical"})
        ELSE <<>>)

(* An outer annulus and an inner disk with one torus between them: the     *)
(* disk is projected into the chart of the annulus.                        *)
TorusContext(openings) ==
  Curved({"curved_patch_torus_topology_unsupported", "curved_patch_not_disk"})
    \o PlateContext(openings)
    \o Curved({"curved_patch_torus_topology_unsupported"})
    \o Curved({"curved_patch_torus_uv_degenerate", "curved_patch_torus_uv_outside",
               "curved_patch_torus_uv_folded"})

(* Two disks that share one boundary chain between two corners.            *)
CreaseContext(openings) ==
  Curved({"curved_patch_regions_detached", "curved_patch_not_disk"})
    \o PlateOpenings(openings)
    \o (IF "caps" \in openings THEN Deny("curved_patch_multiregion_caps") ELSE <<>>)
    \o (IF "tori" \in openings THEN Deny("curved_patch_multiregion_tori") ELSE <<>>)
    \o Try(May("ChartParameterizationError", ChartRefusals),
           << On("ChartParameterizationError", RaiseAs("CurvedPatchError")) >>)
    \o Curved({"curved_patch_crease_corners"})
    \o Curved({"curved_patch_boundary_not_straight"})
    \o Curved({"curved_patch_degenerate_rectangle", "curved_patch_boundary_not_planar",
               "curved_patch_crease_off_wall"})
    \o (IF "holes" \in openings THEN Curved({"curved_patch_hole_not_normal"}) ELSE <<>>)
    \o Curved({"curved_patch_no_bottom_plane"})
    \o Curved({"curved_patch_bottom_not_parallel", "curved_patch_zero_height"})
    \o Try(May("ChartParameterizationError", ChartRefusals),
           << On("ChartParameterizationError", RaiseAs("CurvedPatchError")) >>)

-----------------------------------------------------------------------------
NetworkRefusals == {"network_boundary_mismatch", "network_wire_failed", "network_face_failed"}

(* One boolean operation of the kernel for every opening of the kind, each *)
(* of which must leave one solid.                                          *)
Boolean(kind, openings, code) ==
  IF kind \in openings THEN Curved({code}) \o Keep(Made[kind]) ELSE <<>>

(* _plate_solid_from_network                                               *)
PlateSolid(openings) ==
  May("SurfaceNetworkError", NetworkRefusals)
    \o Curved({"curved_patch_sewing_incomplete", "curved_patch_not_closed"})
    \o Boolean("caps", openings, "curved_patch_cap_boolean_failed")
    \o Boolean("cones", openings, "curved_patch_cone_boolean_failed")
    \o Boolean("tori", openings, "curved_patch_torus_boolean_failed")
    \o Boolean("holes", openings, "curved_patch_hole_boolean_failed")

(* The faces that were asked for, the joins, and the distance to the mesh. *)
NetworkGates(openings, joined) ==
  Curved({"curved_patch_invalid_brep", "curved_patch_no_bspline_face"})
    \o Curved({"curved_patch_hole_faces_mismatch", "curved_patch_cap_faces_mismatch",
               "curved_patch_cone_faces_mismatch", "curved_patch_torus_faces_mismatch"})
    \o (IF "cones" \in openings THEN Curved({"curved_patch_cone_face_count_mismatch"}) ELSE <<>>)
    \o (IF joined THEN Curved({"curved_patch_g0_gap", "curved_patch_g1_angle",
                               "curved_patch_crease_lost"}) ELSE <<>>)
    \o Curved({"curved_patch_deviation_exceeded"})

(* The stages that follow every fit.                                       *)
AssembleAndGate(openings, joined) ==
  Stage(70) \o PlateSolid(openings) \o Stage(90) \o NetworkGates(openings, joined) \o Stage(100)

-----------------------------------------------------------------------------
(* The fit of both halves of a region that has no openings, coupled along  *)
(* the cut.                                                                *)
SplitNetwork ==
  Stage(45)
    \o Try(May("ChartParameterizationError", ChartRefusals),
           << On("ChartParameterizationError", RaiseAs("CurvedPatchError")) >>)
    \o Curved({"curved_patch_degenerate_cut"})
    \o Clock \o May("ValueError", Plain)
    \o Curved({"curved_patch_tolerance_not_met"})
    \o Keep("split")
    \o AssembleAndGate({}, TRUE)

CreaseNetwork(openings, forceSplit) ==
  IF forceSplit THEN Deny("curved_patch_force_split_unsupported")
  ELSE CreaseContext(openings)
         \o Stage(20) \o Stage(35)
         \o Clock \o May("ValueError", Plain)
         \o Curved({"curved_patch_tolerance_not_met"})
         \o AssembleAndGate(openings, TRUE)

(* A region is split when its single patch does not converge or when that  *)
(* is asked for, and never one with openings or one that the user locked.  *)
SplitRefusal_HolesOnly(openings, locked) ==
  IF "holes" \in openings THEN Deny("curved_patch_holes_unsupported_split")
  ELSE IF locked THEN Deny("curved_patch_locked_split") ELSE <<>>
SplitRefusal(openings, locked) ==
  IF openings # {} THEN Deny("curved_patch_holes_unsupported_split")
  ELSE IF locked THEN Deny("curved_patch_locked_split") ELSE <<>>

FitPlate(openings, locked, forceSplit) ==
  Stage(20) \o Stage(35) \o Clock \o May("ValueError", Plain)
    \o (IF locked THEN Keep("locked") ELSE <<>>)
    \o Choose(IF forceSplit THEN << SplitRefusal(openings, locked) \o SplitNetwork >>
              ELSE << AssembleAndGate(openings, FALSE),
                      SplitRefusal(openings, locked) \o SplitNetwork >>)

(* reconstruct_plate_network: one freeform region, two that a torus        *)
(* separates, or two that meet; a cone asks for one region.                *)
PlateNetwork ==
  Stage(5) \o SegmentWithOverrides
    \o Choose([c \in [openings : SUBSET Openings, locked : BOOLEAN, forceSplit : BOOLEAN,
                      regions : {"one", "torus", "crease"}] |->
         IF c.regions # "one" /\ "cones" \in c.openings
         THEN Deny("curved_patch_cone_multiregion_unsupported")
         ELSE CASE c.regions = "one"    -> PlateContext(c.openings)
                                             \o FitPlate(c.openings, c.locked, c.forceSplit)
                [] c.regions = "torus"  -> TorusContext(c.openings \cup {"tori"})
                                             \o FitPlate(c.openings \cup {"tori"}, c.locked,
                                                         c.forceSplit)
                [] c.regions = "crease" -> CreaseNetwork(c.openings, c.forceSplit)])

-----------------------------------------------------------------------------
CurvedFiles == {"analysis.json", "source.original.stl", "source.glb", "repair.json",
                "curved-plate.json", "model.cadgraph.json", "model.cq.py", "model.step",
                "reconstructed.glb", "reconstructed.stl", "reconstructed.obj",
                "validation.json", "curved-reconstruction.json"}

Conversion(code) == May("CurvedConversionError", code)

(* create_curved_conversion; its manifest names the files and no more.     *)
CurvedConversion ==
  Call(IngestMesh
    \o Conversion({"unsupported_curved_format"})
    \o Conversion({"curved_source_metadata_mismatch", "curved_source_transform_unsupported"})
    \o Write({"source.original.stl"}) \o RepairMesh
    \o Write({"analysis.json", "repair.json", "source.glb"})
    \o Try(PlateNetwork, << On("CurvedPatchError", RaiseAs("CurvedConversionError")) >>)
    \o Write({"curved-plate.json"})
    \o Conversion({"curved_compile_failed"})
    \o Try(ExportStep, << On("ValueError",
                             Raise("CurvedConversionError", "curved_step_validation_failed")) >>)
    \o May("StepAuditError", Plain) \o Conversion({"curved_step_audit_failed"})
    \o Tessellate
    \o WriteMeshes({"reconstructed.glb", "reconstructed.stl", "reconstructed.obj"})
    \o May("ValueError", Plain) \o Write({"model.cadgraph.json"}) \o WriteSource
    \o Write({"validation.json", "curved-reconstruction.json"})
    \o Write({"manifest.json"})
    \o Return(CurvedFiles))

(* _curved_reconstruct                                                     *)
CurvedReconstruct ==
  May("JobFailure", {"curved_source_metadata_required"})
    \o May("JobFailure", {"source_missing"})
    \o Try(CurvedConversion, << On("CurvedConversionError", RaiseAs("JobFailure")) >>)
    \o Report(96)
    \o Hand([f \in CurvedFiles |-> f], {"manifest.json"})
=============================================================================
