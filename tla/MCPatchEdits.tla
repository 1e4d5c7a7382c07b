----------------------------- MODULE MCPatchEdits -----------------------------
(* Two freeform regions and a plane, all of them neighbours; with another   *)
(* deviation the plane joins the second region, with only one of the two    *)
(* tolerances changed everything is one region.                             *)
EXTENDS PatchEdits

MCMesh == 1 .. 3
Id(triangles) == {triangles}
Regions ==
  << Patch({1}, "freeform", {Id({2}), Id({3})}),
     Patch({2}, "freeform", {Id({1}), Id({3})}),
     Patch({3}, "plane", {Id({1}), Id({2})}) >>
MCSegmented(s) ==
  LET same(f) == s[f] = SegmentationSettings[f] IN
  CASE same("planarFitToleranceMm") /\ same("cylinderFitToleranceMm")
         /\ same("smoothAngleDeg") -> Regions
    [] ~same("planarFitToleranceMm") /\ ~same("cylinderFitToleranceMm")
         /\ same("smoothAngleDeg") ->
         << Patch({1}, "freeform", {Id({2, 3})}), Patch({2, 3}, "freeform", {Id({1})}) >>
    [] OTHER -> << Patch({1, 2, 3}, "freeform", {}) >>

None == [f \in {} |-> 0]
MCAnalysisAsks ==
  {None, [maxDeviation |-> 700], [maxDeviation |-> Longest], [maxAngleDeg |-> 89],
   [maxDeviation |-> 0], [maxAngleDeg |-> 90], [minPatchArea |-> 0], [maxDeviation |-> NotFinite],
   [detail |-> 1]}
MCAsks ==
  {None, [detailMode |-> "full"], [detailMode |-> "all"], [mode |-> "other"], [detail |-> 1],
   [mode |-> "curved"], [mode |-> "curved", fitTolerance |-> 0],
   [mode |-> "curved", forceSplit |-> Other],
   [mode |-> "faceted"], [mode |-> "faceted", sewingTolerance |-> 1000000],
   [mode |-> "faceted", sewingTolerance |-> 1000001]}
Smooth(ids) == [smooth |-> ids]
MCUpdates ==
  {[locked |-> TRUE], [locked |-> FALSE], [kind |-> "plane"], [kind |-> "freeform"],
   [fit |-> GivenFit], [kind |-> "plane", locked |-> TRUE],
   Smooth({}), Smooth({Id({1})}), Smooth({Id({2})}), Smooth({Id({1}), Id({3})}),
   [locked |-> TRUE, smooth |-> {Id({2})}], [locked |-> FALSE, smooth |-> {}]}
MCOlder == {[f \in Required |-> SegmentationSettings[f]],
            [f \in Required \ {"stableIdResolutionMm"} |-> SegmentationSettings[f]],
            [f \in DOMAIN SegmentationSettings |->
               IF f = "minimumFacetedCylinderSideCount" THEN 24 ELSE SegmentationSettings[f]],
            Other}
=============================================================================
