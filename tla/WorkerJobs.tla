----------------------------- MODULE WorkerJobs -----------------------------
(***************************************************************************)
(* The jobs of the geometry worker, one procedure per kind of job.         *)
(*   services/api/mesh2param_api/jobs/handlers.py                          *)
(*   engine/mesh2param/faceted.py  create_faceted_fallback                 *)
(*   engine/mesh2param/samples.py  generate_sample                         *)
(* The procedures of the automatic and the curved conversion are in        *)
(* AutomaticRoute and CurvedRoute.                                         *)
(***************************************************************************)
EXTENDS AutomaticRoute, CurvedRoute

Failing(codes) == May("JobFailure", codes)
(* A file under its own name.                                              *)
AsIs(names) == [f \in names |-> f]

UploadJob ==
  Report(5) \o Failing({"source_missing"}) \o IngestMesh
    \o Report(85) \o Write({"analysis.json"})
    \o Return({"analysis.json"}) \o Hand(AsIs({"analysis.json"}), {})

RepairedFiles == {"analysis.json", "source.glb", "repair.json", "repaired.stl", "repaired.glb"}

RepairJob ==
  Failing({"source_missing"}) \o IngestMesh
    \o Report(25) \o Failing({"invalid_repair_settings"}) \o RepairMesh
    \o Write(RepairedFiles) \o Report(95)
    \o Return(RepairedFiles) \o Hand(AsIs(RepairedFiles), {})

AnalysisFiles == RepairedFiles \cup {"analysis-proxy.glb", "patches.json", "patches.glb",
                                     "selection-map.json"}

(* Analysis repairs with the default settings; patches with coincident     *)
(* triangles have no selection map.                                        *)
AnalyzeJob ==
  Failing({"source_missing"}) \o IngestMesh \o Report(15) \o RepairMesh
    \o Write({"source.glb", "repaired.stl", "repaired.glb", "analysis-proxy.glb"})
    \o Report(35) \o Failing({"invalid_segmentation_settings"}) \o Segment
    \o Report(65) \o May("ValueError", Plain) \o Report(75)
    \o PatchSelection
    \o Write({"analysis.json", "repair.json", "patches.json"})
    \o Return(AnalysisFiles) \o Hand(AsIs(AnalysisFiles), {})

-----------------------------------------------------------------------------
(* What the engine calls its files, and the names they are published       *)
(* under; the others of its manifest stay in the directory of the job.     *)
Published ==
  [f \in {"analysis.json", "source.glb", "repair.json", "repaired.stl", "repaired.glb",
          "analysis-proxy.glb", "patches.json", "patches.glb", "selection-map.json",
          "frame.json", "sketches.json", "candidates.json", "model.cadgraph.json",
          "model.cq.py", "model.step", "model.glb", "model.stl", "model.obj",
          "comparison.json", "residual-heatmap.glb", "suppressed-regions.json",
          "detail-regions.json", "reconstruction.json"} |->
     CASE f = "model.glb"            -> "reconstructed.glb"
       [] f = "model.stl"            -> "reconstructed.stl"
       [] f = "model.obj"            -> "reconstructed.obj"
       [] f = "comparison.json"      -> "metrics.json"
       [] f = "residual-heatmap.glb" -> "residual.glb"
       [] OTHER                      -> f]

(* _reconstruct, for a payload that asks for no other mode.                *)
AutomaticJob(mode) ==
  Failing({"invalid_reconstruction_settings", "invalid_reconstruction_mode",
           "invalid_detail_mode"})
    \o Try(Failing({"analysis_settings_missing", "invalid_analysis_settings"})
             \o Failing({"source_missing"})
             \o ReconstructFile(mode),
           << On("ReconstructionError", RaiseAs("JobFailure")) >>)
    \o Hand(Published, {"manifest.json"})

CurvedJob == Failing({"invalid_curved_settings"}) \o CurvedReconstruct

-----------------------------------------------------------------------------
FacetedFiles == {"analysis.json", "source.original.stl", "source.glb", "repair.json",
                 "repaired.stl", "repaired.glb", "model.cadgraph.json", "model.cq.py",
                 "model.step", "reconstructed.glb", "reconstructed.stl", "reconstructed.obj",
                 "validation.json", "faceted-fallback.json"}

Fallback(code) == May("FacetedFallbackError", code)

(* create_faceted_fallback: the facets of the source, sewn.                *)
FacetedFallback_EarlyManifest ==
  Call(Fallback({"invalid_sewing_tolerance"}) \o IngestMesh
    \o Fallback({"unsupported_faceted_format"})
    \o Fallback({"faceted_source_metadata_mismatch", "faceted_source_transform_unsupported"})
    \o Write({"source.original.stl"}) \o RepairMesh
    \o Write({"analysis.json", "repair.json", "source.glb", "repaired.stl", "repaired.glb"})
    \o WriteMeshes({"reconstructed.glb", "reconstructed.stl", "reconstructed.obj"})
    \o Fallback({"faceted_compile_failed"})
    \o Try(ExportStep, << On("ValueError",
                             Raise("FacetedFallbackError", "faceted_step_validation_failed")) >>)
    \o May("ValueError", Plain) \o Write({"model.cadgraph.json"}) \o WriteSource
    \o Write({"validation.json"})
    \o Manifest(FacetedFiles \ {"faceted-fallback.json"}) \o Write({"faceted-fallback.json"})
    \o Return(FacetedFiles))
FacetedFallback ==
  Call(Fallback({"invalid_sewing_tolerance"}) \o IngestMesh
    \o Fallback({"unsupported_faceted_format"})
    \o Fallback({"faceted_source_metadata_mismatch", "faceted_source_transform_unsupported"})
    \o Write({"source.original.stl"}) \o RepairMesh
    \o Write({"analysis.json", "repair.json", "source.glb", "repaired.stl", "repaired.glb"})
    \o WriteMeshes({"reconstructed.glb", "reconstructed.stl", "reconstructed.obj"})
    \o Fallback({"faceted_compile_failed"})
    \o Try(ExportStep, << On("ValueError",
                             Raise("FacetedFallbackError", "faceted_step_validation_failed")) >>)
    \o May("ValueError", Plain) \o Write({"model.cadgraph.json"}) \o WriteSource
    \o Write({"validation.json"})
    \o Write({"faceted-fallback.json"}) \o Manifest(FacetedFiles)
    \o Return(FacetedFiles))

(* _faceted_reconstruct                                                    *)
FacetedJob ==
  Failing({"invalid_faceted_settings"}) \o Failing({"faceted_source_metadata_required"})
    \o Report(12) \o Failing({"source_missing"})
    \o Try(FacetedFallback, << On("FacetedFallbackError", RaiseAs("JobFailure")) >>)
    \o Report(94) \o Hand(AsIs(FacetedFiles), {"manifest.json"})

-----------------------------------------------------------------------------
BuiltFiles(faceted) ==
  {"model.step", "model.cadgraph.json", "model.cq.py", "reconstructed.glb",
   "reconstructed.stl", "reconstructed.obj", "validation.json"}
    \cup (IF faceted THEN {"source.original.stl"} ELSE {})

(* What rebuild, validation and export have in common: the document is     *)
(* compiled, exported and read back.                                       *)
CompileAndExport(faceted) ==
  Failing({"cadgraph_missing", "invalid_validation_settings"}) \o May("ValueError", Plain)
    \o (IF faceted THEN Failing({"source_missing"}) ELSE <<>>)
    \o Report(30) \o Failing({"boolean_failure", "invalid_brep"})
    \o Report(65) \o ExportStep \o Report(82)
    \o May("ValueError", Plain) \o Write({"model.cadgraph.json"}) \o WriteSource
    \o (IF faceted THEN Write({"source.original.stl"}) \o Optionally(IngestMesh) ELSE <<>>)
    \o Tessellate
    \o WriteMeshes({"reconstructed.glb", "reconstructed.stl", "reconstructed.obj"})
    \o Write({"validation.json"})

(* The files of earlier jobs that the supervisor puts beside an export;    *)
(* one of a name that the export makes itself is left out.                 *)
PriorFiles == {"repair.json", "metrics.json", "model.step"}
Carried(faceted) == (PriorFiles \ BuiltFiles(faceted))

BundleFiles(faceted) ==
  BuiltFiles(faceted) \cup Carried(faceted) \cup {"project.mesh2param.json"}

(* The manifest is over everything but itself and the bundle.              *)
WriteBundle(faceted) ==
  Failing({"invalid_prior_artifacts"}) \o May("ValueError", Plain)
    \o Failing({"unsafe_prior_artifact", "prior_artifact_missing"})
    \o Write({"project.mesh2param.json"})
    \o Manifest(BundleFiles(faceted))
    \o Write({"mesh2param-export.zip"})

BuildJob(faceted) ==
  CompileAndExport(faceted) \o Report(98)
    \o Return(BuiltFiles(faceted)) \o Hand(AsIs(BuiltFiles(faceted)), {})

ExportJob(faceted) ==
  Write({"repair.json", "metrics.json"})
    \o CompileAndExport(faceted) \o WriteBundle(faceted) \o Report(98)
    \o Return(BundleFiles(faceted))
    \o Hand(AsIs(BundleFiles(faceted)), {"manifest.json", "mesh2param-export.zip"})

-----------------------------------------------------------------------------
SampleFiles == {"source-high.stl", "source-low.stl", "source-random.stl", "model.step",
                "model.cadgraph.json", "model.cq.py", "model.glb", "model.stl", "model.obj",
                "metadata.json"}

(* generate_sample: a model of known shape, measured after it is compiled. *)
GenerateSample ==
  May("ValueError", Plain)
    \o Write({"source-high.stl", "source-low.stl", "source-random.stl"})
    \o Write({"model.glb", "model.stl", "model.obj"})
    \o ExportStep
    \o May("ValueError", Plain) \o Write({"model.cadgraph.json", "model.cq.py"})
    \o Write({"thumbnail.svg"}) \o Write({"metadata.json"})
    \o Manifest(SampleFiles \cup {"thumbnail.svg"})

(* The preview of the source is written after the manifest of the sample.  *)
SampleJob ==
  May("KeyError", Plain) \o Report(15) \o GenerateSample
    \o IngestMesh \o IngestMesh \o Write({"source.glb"})
    \o Report(98)
    \o Return(SampleFiles \cup {"source.glb"})
    \o Hand([f \in SampleFiles \cup {"source.glb"} |->
               CASE f = "model.glb" -> "reconstructed.glb"
                 [] f = "model.stl" -> "reconstructed.stl"
                 [] f = "model.obj" -> "reconstructed.obj"
                 [] OTHER           -> f], {"manifest.json"})

-----------------------------------------------------------------------------
(* run_handler                                                             *)
Kinds == {"upload", "repair", "analyze", "automatic", "faceted", "curved", "rebuild",
          "export", "sample_open"}

Procedures(kind) ==
  CASE kind = "upload"      -> << UploadJob >>
    [] kind = "repair"      -> << RepairJob >>
    [] kind = "analyze"     -> << AnalyzeJob >>
    [] kind = "automatic"   -> << AutomaticJob("functional"), AutomaticJob("full") >>
    [] kind = "faceted"     -> << FacetedJob >>
    [] kind = "curved"      -> << CurvedJob >>
    [] kind = "rebuild"     -> << BuildJob(FALSE), BuildJob(TRUE) >>
    [] kind = "export"      -> << ExportJob(FALSE), ExportJob(TRUE) >>
    [] kind = "sample_open" -> << SampleJob >>
=============================================================================
