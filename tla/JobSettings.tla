----------------------------- MODULE JobSettings -----------------------------
(***************************************************************************)
(* The settings of analysis and reconstruction: what a request may ask     *)
(* for, what an analysis leaves in the document, and what a later          *)
(* reconstruction replays of it.                                           *)
(*   services/api/mesh2param_api/jobs/handlers.py                          *)
(*   services/api/mesh2param_api/api/routes/operations.py                  *)
(*   engine/mesh2param/segmentation.py  SegmentationSettings               *)
(*   apps/web/src/workspace/automaticReconstruction.ts                     *)
(*                                                                         *)
(* A JSON object is a function of the names of its fields.  Lengths are in *)
(* hundredths of a micrometre, angles in degrees, areas in units of the    *)
(* default least area, the component in hundredths, and the number of      *)
(* sides, which may come as a fraction, in halves.                         *)
(***************************************************************************)
EXTENDS Integers

CONSTANTS
  Other,      \* a JSON value that is neither a number nor an object
  NotFinite,  \* a number that is not finite
  Longest,    \* the greatest length that is accepted, 10^6 mm
  Largest     \* the greatest area that is accepted, 10^12 mm^2

ASSUME SettingsAssumption ==
  /\ Longest \in Nat /\ Longest >= 10000
  /\ Largest \in Nat /\ Largest >= 1
  /\ {Other, NotFinite} \cap Int = {}

(* raw.get(name, default)                                                  *)
Get(raw, name, default) == IF name \in DOMAIN raw THEN raw[name] ELSE default
Object(raw, names) == raw # Other /\ DOMAIN raw \subseteq names

(* A number in [low, high], without the ends that are open.                *)
BoundedNumber(v, low, high, open) ==
  /\ v \notin {Other, NotFinite}
  /\ low <= v /\ v <= high
  /\ "low" \in open => v # low
  /\ "high" \in open => v # high

Length(v)    == BoundedNumber(v, 0, Longest, {"low"})
Area(v)      == BoundedNumber(v, 0, Largest, {})
Angle(v)     == BoundedNumber(v, 0, 90, {"low", "high"})
Coverage(v)  == BoundedNumber(v, 0, 360, {"low"})
Component(v) == BoundedNumber(v, 0, 100, {})
Sides(v)     == BoundedNumber(v, 12, 20000, {}) /\ v % 2 = 0

-----------------------------------------------------------------------------
(* Segmentation.                                                           *)

SegmentationSettings ==
  [smoothAngleDeg |-> 12, planarFitToleranceMm |-> 500, cylinderFitToleranceMm |-> 1000,
   minimumCylinderCoverageDeg |-> 300, maximumCylinderAxisNormalComponent |-> 5,
   minimumFacetedCylinderSideCount |-> 16, maximumFacetedCylinderSagittaMm |-> 10000,
   minimumPatchAreaMm2 |-> 1, stableIdResolutionMm |-> 1]

(* _segmentation_settings: the deviation stands for both tolerances.       *)
AnalysisAccepts(raw) ==
  LET d == SegmentationSettings IN
  /\ Object(raw, {"maxDeviation", "minPatchArea", "maxAngleDeg"})
  /\ Length(Get(raw, "maxDeviation", d.planarFitToleranceMm))
  /\ Area(Get(raw, "minPatchArea", d.minimumPatchAreaMm2))
  /\ Angle(Get(raw, "maxAngleDeg", d.smoothAngleDeg))
AnalysisSettings(raw) ==
  [SegmentationSettings EXCEPT
     !.smoothAngleDeg = Get(raw, "maxAngleDeg", @),
     !.planarFitToleranceMm = Get(raw, "maxDeviation", @),
     !.cylinderFitToleranceMm = Get(raw, "maxDeviation", @),
     !.minimumPatchAreaMm2 = Get(raw, "minPatchArea", @)]

(* The fields that were not always written, and those that always are.     *)
Optional == {"minimumFacetedCylinderSideCount", "maximumFacetedCylinderSagittaMm"}
Required == DOMAIN SegmentationSettings \ Optional

(* What is demanded of settings that a document carries.                   *)
Bounded(s) ==
  /\ Angle(s["smoothAngleDeg"])
  /\ Length(s["planarFitToleranceMm"]) /\ Length(s["cylinderFitToleranceMm"])
  /\ Coverage(s["minimumCylinderCoverageDeg"])
  /\ Component(s["maximumCylinderAxisNormalComponent"])
  /\ Area(s["minimumPatchAreaMm2"]) /\ Length(s["stableIdResolutionMm"])
BoundedOptions(s) ==
  /\ Sides(Get(s, "minimumFacetedCylinderSideCount", 16))
  /\ Length(Get(s, "maximumFacetedCylinderSagittaMm", 10000))

(* _replayable_analysis_patches: asked before the job is made.  A field    *)
(* that is missing reads as null, which is not a number.                   *)
Replayable(settings, patches) ==
  /\ settings # Other /\ patches # <<>>
  /\ Required \subseteq DOMAIN settings
  /\ Bounded(settings) /\ BoundedOptions(settings)

(* automaticReconstructionCapability: asked by the page before it offers   *)
(* a reconstruction, with bounds of its own.  It does not know the options *)
(* of the service, admits the settings of the core that runs in a browser, *)
(* and offers the one supported sample whatever was analysed.  The graph   *)
(* is known by what its extensions say; the candidate is the one that the  *)
(* browser's core has left in the analysis, if any.                        *)
ServiceSettings(s) == Required \subseteq DOMAIN s /\ Bounded(s)
BrowserCoreSettings(s) ==
  /\ {"engine", "angleDeg", "triangleBudget", "tolerance"} \subseteq DOMAIN s
  /\ s["engine"] = Other
  /\ Angle(s["angleDeg"]) /\ Length(s["tolerance"])
  /\ BoundedNumber(s["triangleBudget"], 1, 100000000, {})
Offer(graph, candidate, settings, patches) ==
  CASE graph = "supported sample" -> "sample"
    [] /\ graph \notin {"supported sample", "sample", "faceted"} /\ candidate # "refused"
       /\ settings # Other /\ patches # <<>> ->
         IF ServiceSettings(settings) THEN "analysis"
         ELSE IF BrowserCoreSettings(settings) THEN "browser core" ELSE "no"
    [] OTHER -> "no"

(* _unsupported_sample_reconstruction_reason, _replayable_analysis_patches *)
Admission(graph, settings, patches) ==
  CASE graph = "sample" -> "automatic_reconstruction_unsupported"
    [] graph # "sample" /\ ~Replayable(settings, patches) -> "analysis_required"
    [] OTHER -> "none"

(* _reconstruction_segmentation_settings: asked by the job, of the         *)
(* settings of the analysis and the patches of the document.               *)
ReplayRefusal(settings, patches) ==
  CASE settings = Other /\ patches # <<>>          -> "analysis_settings_missing"
    [] settings = Other /\ patches = <<>>          -> "none"
    [] settings # Other ->
         IF /\ Required \subseteq DOMAIN settings
            /\ Bounded(settings) /\ BoundedOptions(settings)
         THEN "none" ELSE "invalid_analysis_settings"
Replayed_Tolerance(settings) ==
  IF settings = Other THEN SegmentationSettings
  ELSE [f \in DOMAIN SegmentationSettings |->
          IF f = "cylinderFitToleranceMm" THEN SegmentationSettings[f]
          ELSE Get(settings, f, SegmentationSettings[f])]
Replayed(settings) ==
  IF settings = Other THEN SegmentationSettings
  ELSE [f \in DOMAIN SegmentationSettings |-> Get(settings, f, SegmentationSettings[f])]

-----------------------------------------------------------------------------
(* Reconstruction: the mode that is asked for, and its own settings, in    *)
(* the order _reconstruct tries them.                                      *)

(* A tolerance is in units of the project, and counted in 10^-5 of one:    *)
(* none exceeds 10 mm.  The units of a project are always known.           *)
Unit == {"mm", "cm", "m", "in", "ft"}
(* A unit in tenths of a millimetre.                                       *)
TENTHS_OF_MILLIMETERS_PER_UNIT == [mm |-> 10, cm |-> 100, m |-> 10000, in |-> 254, ft |-> 3048]
MaximumTolerance(units) == (10 * 1000000) \div TENTHS_OF_MILLIMETERS_PER_UNIT[units]
DefaultTolerance(micrometres, units) ==
  (micrometres * 1000) \div TENTHS_OF_MILLIMETERS_PER_UNIT[units]
Tolerance(raw, name, default, units) ==
  BoundedNumber(Get(raw, name, DefaultTolerance(default, units)),
                0, MaximumTolerance(units), {"low"})

CurvedRefusal(raw, units) ==
  IF /\ DOMAIN raw \subseteq {"mode", "fitTolerance", "surfaceDeviationTolerance", "forceSplit"}
     /\ Tolerance(raw, "fitTolerance", 250, units)
     /\ Tolerance(raw, "surfaceDeviationTolerance", 300, units)
     /\ Get(raw, "forceSplit", FALSE) # Other
  THEN "none" ELSE "invalid_curved_settings"

FacetedRefusal(raw, units) ==
  IF /\ DOMAIN raw \subseteq {"mode", "sewingTolerance"}
     /\ Tolerance(raw, "sewingTolerance", 50, units)
  THEN "none" ELSE "invalid_faceted_settings"

AutomaticRefusal(raw) ==
  IF "mode" \in DOMAIN raw THEN "invalid_reconstruction_mode"
  ELSE IF ~(DOMAIN raw \subseteq {"mode", "detailMode"}) THEN "invalid_reconstruction_settings"
  ELSE IF Get(raw, "detailMode", "functional") \in {"functional", "full"}
                THEN "none" ELSE "invalid_detail_mode"

Mode(raw) ==
  LET mode == Get(raw, "mode", "automatic") IN
  IF mode \in {"curved", "faceted"} THEN mode ELSE "automatic"
SettingsRefusal(raw, units) ==
  CASE Mode(raw) = "curved"    -> CurvedRefusal(raw, units)
    [] Mode(raw) = "faceted"   -> FacetedRefusal(raw, units)
    [] Mode(raw) = "automatic" -> AutomaticRefusal(raw)
=============================================================================
