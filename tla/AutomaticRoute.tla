--------------------------- MODULE AutomaticRoute ---------------------------
(***************************************************************************)
(* Automatic reconstruction: three hypotheses about the part are tried in  *)
(* turn, an analytic extrusion, an extrusion with fillets read from        *)
(* sections, and a bracket with four holes.                                *)
(*   engine/mesh2param/reconstruction.py  reconstruct_file                 *)
(*   engine/mesh2param/sections.py, fillets.py, details.py                 *)
(*   engine/mesh2param/prismatic.py, inference.py, sketches.py, frame.py   *)
(* mode is "functional" (shallow details are suppressed) or "full" (they   *)
(* are recovered).  Definitions named X_Y that stand before X are          *)
(* deliberate defects of X.                                                *)
(***************************************************************************)
EXTENDS EngineSteps

Refuse(codes) == May("ReconstructionError", codes)
Reject(code)  == Raise("ReconstructionError", code)

(* What is written of every mesh, and of every result.                     *)
MeshFiles == {"analysis.json", "source.glb", "repair.json", "repaired.stl", "repaired.glb",
              "analysis-proxy.glb", "patches.json", "source.original"}
ModelFiles == {"model.cadgraph.json", "model.cq.py", "model.step", "model.glb", "model.stl",
               "model.obj", "residual-heatmap.glb", "patches.glb", "selection-map.json",
               "comparison.json", "candidates.json", "reconstruction.json"}

-----------------------------------------------------------------------------
(* What is built of the evidence.  A bracket is one sketched plate, its    *)
(* upright and two pairs of holes; an extrusion has at most as many        *)
(* vertices as a document may hold; a fillet needs the edges of the        *)
(* profile to have directions; a recovered detail needs a closed profile   *)
(* and a depth.  inference.py                                              *)
LBracketGraph   == May("ValueError", Plain)
PrismaticGraph  == May("ValueError", Plain)
ProfileEdges    == May("ValueError", Plain)
FilletedGraph   == May("ValueError", Plain)
DetailGraph     == May("ValueError", Plain)

(* A document with more features than its settings allow is not compiled;  *)
(* one that does not compile is a candidate that is not valid.             *)
CompileCandidate == May("ValueError", Plain)

(* The surfaces of the mesh and of the shape, sampled and compared both    *)
(* ways.  A mesh that is not watertight has no relative volume, and the    *)
(* score converts it to a float before anyone looks.                       *)
Compare         == May("ValueError", Plain)
Score           == May("TypeError", Plain)
CompareAndScore == Compare \o Score

(* The cap of a suppressed detail is closed by its support plane.          *)
FunctionalReference == May("ValueError", Plain)

(* The document with its measures, and what is drawn of it: the residual   *)
(* of every vertex as a color, and the triangles of every patch.           *)
FinalGraph == May("ValueError", Plain)
Heatmap == May("ValueError", Plain) \o Write({"residual-heatmap.glb"})
Materialize ==
  FinalGraph \o Write({"model.cadgraph.json"}) \o WriteSource
    \o Tessellate \o WriteMeshes({"model.glb", "model.stl", "model.obj"})
    \o Heatmap \o PatchSelection
    \o Write({"comparison.json"})

-----------------------------------------------------------------------------
(* The hypothesis of an extrusion: two opposite planar caps with the same  *)
(* loops, and a chain of lines and arcs through each.  prismatic.py        *)
CapLoops == May("PrismaticFitError", {"invalid_boundary_topology"})
ClassifyLoops ==
  May("PrismaticFitError", {"invalid_boundary_topology", "self_intersecting_profile"})
MatchLoops == May("PrismaticFitError", {"cap_boundary_mismatch"})
FitAxis == May("ValueError", Plain)

(* One pair of caps: a pair with no side has no loops to compare.          *)
CandidateForPair == FitAxis \o CapLoops \o ClassifyLoops \o MatchLoops
DetectExtrusion == May("ValueError", Plain) \o CandidateForPair

FitProfile == May("PrismaticFitError",
  {"no_valid_line_arc_decomposition", "profile_vertex_limit", "self_intersecting_profile"})
(* A regular hole and one spline in the outer loop are taken when they fit.*)
FitPolygon == Try(May("ValueError", Plain), << On("ValueError", <<>>) >>)
FitSpline ==
  Try(May("PrismaticFitError", {"spline_endpoint_mismatch", "no_valid_spline_decomposition"}),
      << On("PrismaticFitError", <<>>) >>)
ValidatePrismatic ==
  FitProfile \o Choose(<< FitPolygon, FitSpline >>)
    \o May("PrismaticFitError", {"profile_not_closed"})

-----------------------------------------------------------------------------
(* The STEP of an extrusion is made from a second compilation, which must  *)
(* reproduce the topology of the first.                                    *)
PrismaticStep ==
  Try(May("ValueError", Plain) \o ExportStep,
      << On("ValueError", Reject("step_reimport_failure")) >>)

(* The report is the last file but the manifest; the last report of        *)
(* progress is still inside the hypothesis that is being tried.            *)
Finish(names) ==
  Write({"reconstruction.json"}) \o Manifest(names) \o Report(99) \o Return(names)

(* The end of both extrusion hypotheses; extra are the files of the        *)
(* details and of the sections.  _complete_prismatic_reconstruction        *)
CompletePrismatic(mode, details, extra) ==
  Refuse({"invalid_compiled_brep"})
    \o (IF details /\ mode = "functional" THEN FunctionalReference ELSE <<>>)
    \o CompareAndScore
    \o Refuse({"geometric_validation_failure"})
    \o PrismaticStep
    \o Materialize
    \o (IF ~details THEN <<>>
        ELSE Write({IF mode = "functional" THEN "suppressed-regions.json"
                    ELSE "detail-regions.json"}))
    \o Write({"prismatic.json", "candidates.json"})
    \o Finish(MeshFiles \cup ModelFiles \cup {"prismatic.json"} \cup extra
                \cup (IF ~details THEN {}
                      ELSE {IF mode = "functional" THEN "suppressed-regions.json"
                            ELSE "detail-regions.json"}))

(* The extrusion as it was fitted, with no details.                        *)
PrismaticAttempt(mode) ==
  PrismaticGraph \o CompileCandidate \o CompletePrismatic(mode, FALSE, {})

-----------------------------------------------------------------------------
(* extract_section_stack: two separated caps along the dominant normal,    *)
(* and closed bounded loops in every section between them.                 *)
PrimaryCaps == May("SectionExtractionError",
  {"empty-section-source", "insufficient-section-evidence", "invalid-section-axis",
   "no-primary-caps"})
SectionLoops == May("SectionExtractionError",
  {"empty-section", "section-loop-limit", "invalid-section-loop", "open-section-loop",
   "degenerate-section-loop"})
ExtractSections == PrimaryCaps \o SectionLoops
                     \o May("SectionExtractionError", {"section-evidence-limit"})

(* analyze_fillet_bands: one pair of bands at the outer loop, of a radius  *)
(* that both caps support.                                                 *)
FilletRouting ==
  May("ValueError", Plain) \o Write({"fillets.json"})
    \o Refuse({"incomplete-fillet-band-routing", "variable-fillet-radius"})
    \o Refuse({"unsupported-fillet-group-count"})

(* analyze_shallow_cap_details: any component that is not a shallow emboss *)
(* refuses the part.                                                       *)
DetailRefusals == {"detail-depth-limit", "nonconstant-detail-depth", "invalid-detail-boundary",
                   "detail-area-limit", "detail-volume-limit", "detail-evidence-limit",
                   "detail-outside-declared-region", "detail-region-limit"}

SectionFiles == {"sections.json", "sections.glb", "fillets.json"}

(* The middle section as an extrusion, _section_prismatic_candidate.       *)
SharpParent ==
  Try(ValidatePrismatic,
      << On("PrismaticFitError", Reject("invalid-sharp-parent-profile")) >>)

(* The sharp parent must fail the agreement gates that the filleted part   *)
(* has to pass.  _complete_filleted_section_reconstruction                 *)
FilletedAttempt(mode, details) ==
  FilletRouting
    \o Refuse(DetailRefusals)
    \o SharpParent
    \o PrismaticGraph \o CompileCandidate
    \o Refuse({"invalid-sharp-parent-brep"})
    \o CompareAndScore
    \o Refuse({"ambiguous-fillet-improvement"})
    \o ProfileEdges \o FilletedGraph
    \o (IF details /\ mode = "full" THEN DetailGraph ELSE <<>>)
    \o CompileCandidate
    \o CompletePrismatic(mode, details, SectionFiles)

-----------------------------------------------------------------------------
(* The bracket: frame, sketches, profile, holes, one or two candidates.    *)
(* Three families of planes at right angles give the frame, the two ends   *)
(* of one family the profile; the sketches of the planes, and the holes    *)
(* through them, are whatever is found.                                    *)
InferFrame == May("FrameInferenceError", Plain)
               \o Keep("coordinateFrame") \o Write({"frame.json"})
Sketches   == Keep("sketchExtraction") \o Write({"sketches.json"})
LProfile   == May("ValueError", Plain)
ThroughHoles == Report(60) \o Refuse({"unsupported-hole-count"})

BracketEvidence ==
  InferFrame
    \o Report(50) \o Sketches
    \o Refuse({"open-patch-boundary"})
    \o LProfile \o ThroughHoles

BracketCandidates ==
  Report(68) \o LBracketGraph \o CompileCandidate
    \o Report(76) \o CompareAndScore
    \o Refuse({"no-valid-brep"})
    \o Keep("candidates") \o Write({"candidates.json"})

BracketAttempt_NoStep ==
  BracketEvidence \o BracketCandidates
    \o Report(86) \o Report(94)
    \o Report(96) \o Materialize
    \o Finish(MeshFiles \cup ModelFiles \cup {"frame.json", "sketches.json"})
BracketAttempt ==
  BracketEvidence \o BracketCandidates
    \o Report(86) \o ExportStep \o Report(94)
    \o Report(96) \o Materialize
    \o Finish(MeshFiles \cup ModelFiles \cup {"frame.json", "sketches.json"})

-----------------------------------------------------------------------------
(* reconstruct_file                                                        *)

PrepareMesh ==
  Report(2) \o IngestMesh \o Write({"source.original", "source.glb"})
    \o Keep("source") \o Write({"analysis.json"})
    \o Report(10) \o Report(12) \o RepairMesh
    \o Keep("repair") \o Write({"repair.json", "repaired.stl", "repaired.glb",
                                "analysis-proxy.glb"})
    \o Report(22) \o Report(25) \o Segment
    \o Keep("segmentation") \o Write({"patches.json"})
    \o Report(42)

(* A hypothesis that fails is only rejected: the next one is tried.        *)
TryPrismatic_Everything(mode) ==
  Try(PrismaticAttempt(mode), << On("Exception", Write({"prismatic.json"})) >>)
TryPrismatic(mode) ==
  Try(PrismaticAttempt(mode), << On("ValueError", Write({"prismatic.json"})) >>)

(* The search for an extrusion: without two opposite caps, or when they do *)
(* not match or a profile does not fit, it is on record as rejected and    *)
(* nothing is attempted; an axis that cannot be fitted ends the whole.     *)
PrismaticSearch(mode) ==
  LET record == Keep("prismaticReconstruction") \o Write({"prismatic.json"}) IN
  Report(45)
    \o Choose(<< record,
                 TryElse(DetectExtrusion \o ValidatePrismatic,
                         << On("PrismaticFitError", record) >>,
                         record \o TryPrismatic(mode)) >>)

(* A part with freeform patches ends here, one way or the other.           *)
FreeformRemainder(mode) ==
  TryElse(ExtractSections,
          << On("SectionExtractionError", Keep("sectionStack")) >>,
          Keep("sectionStack") \o Write({"sections.json"})
            \o May("SectionExtractionError", {"empty-section-debug"})
            \o Write({"sections.glb"})
            \o Choose(<< FilletedAttempt(mode, FALSE), FilletedAttempt(mode, TRUE),
                         Refuse({"unsupported-blind-feature",
                                 "unsupported-tapered-extrusion"}) >>))
    \o Reject("unsupported-freeform-remainder")

(* Whatever the search refuses is explained by a partial report.           *)
ReconstructFile_NoFrameReport(mode) ==
  Call(Try(PrepareMesh \o PrismaticSearch(mode)
             \o Choose(<< FreeformRemainder(mode), BracketAttempt >>),
           << On("ReconstructionError", Write({"reconstruction.partial.json"}) \o Reraise),
              On("FrameInferenceError", Reject("ambiguous-frame")),
              On("ValueError", Write({"reconstruction.partial.json"})
                                 \o Reject("bounded-inference-failed")) >>))
ReconstructFile(mode) ==
  Call(Try(PrepareMesh \o PrismaticSearch(mode)
             \o Choose(<< FreeformRemainder(mode), BracketAttempt >>),
           << On("ReconstructionError", Write({"reconstruction.partial.json"}) \o Reraise),
              On("FrameInferenceError", Write({"reconstruction.partial.json"})
                                          \o Reject("ambiguous-frame")),
              On("ValueError", Write({"reconstruction.partial.json"})
                                 \o Reject("bounded-inference-failed")) >>))
=============================================================================
