------------------------------ MODULE PatchEdits ------------------------------
(***************************************************************************)
(* The surface patches of a project: an analysis finds them, users lock,   *)
(* reclassify, join and merge them, and a reconstruction segments the mesh *)
(* again and must find the same patches to apply the edits to.             *)
(*   api/routes/patches.py      update_patch, merge_patches                *)
(*   jobs/handlers.py           _analyze, _reconstruct, _user_patch_overrides *)
(*   engine/mesh2param/curved_patch.py  _apply_patch_overrides             *)
(*   engine/mesh2param/segmentation.py  PatchEditSession                   *)
(*                                                                         *)
(* Every request compares the revision it names with the project's         *)
(* (ProjectStore), and so does a completion (Conversion); each is one step *)
(* here, as it is unless two cross.  A restored version brings back what   *)
(* this module had before, and is left to Conversion.                      *)
(*                                                                         *)
(* Data.  The id of a patch is a digest of what it covers, so a patch of   *)
(* an analysis is named by the set of its triangles, and a merged one by   *)
(* the names it was merged from.                                           *)
(* Definitions named X_Y that stand before X are deliberate defects of X.  *)
(***************************************************************************)
EXTENDS JobSettings, SequencesExt

CONSTANTS
  Mesh,         \* the triangles of the source
  Segmented(_), \* settings -> the patches segment_mesh finds, a sequence
  AnalysisAsks, \* settings of analyses that clients ask for
  Asks,         \* settings of reconstructions that clients ask for
  Updates,      \* bodies of patch updates, see update_patch
  Older,        \* settings in documents of earlier versions, with patches
  MaxEdits      \* bound on the number of edits and uploads

VARIABLES
  graph,      \* the document's graph: a sample, faceted, or a plain one or none
  analysis,   \* the settings the document's analysis names, or Other
  found,      \* the patches of the document's analysis
  patches,    \* the document's patches, which users edit
  conversion, \* the last reconstruction
  edits       \* how many edits there were
vars == <<graph, analysis, found, patches, conversion, edits>>

NoConversion == [mode |-> "none"]
Freeform == {"freeform", "unknown"}
Ids(ps) == {ps[i].id : i \in DOMAIN ps}
Named(ps, id) == ps[CHOOSE i \in DOMAIN ps : ps[i].id = id]

(* A fit is known by the triangles it was made for; NoFit has none, and    *)
(* GivenFit is one that a user wrote.                                      *)
NoFit    == {}
GivenFit == {{}}

(* SurfacePatch, as the document has it.                                   *)
PatchKind == {"plane", "cylinder", "sphere", "cone", "torus", "freeform", "unknown"}
PatchId == SUBSET SUBSET Mesh
SurfacePatch ==
  [id : PatchId, triangles : SUBSET Mesh, kind : PatchKind, fit : PatchId,
   neighbors : SUBSET PatchId, smooth : SUBSET PatchId, locked : BOOLEAN, overridden : BOOLEAN]
Distinct(ps) ==
  \A i \in DOMAIN ps : ps[i].id # {} /\ \A j \in DOMAIN ps \ {i} : ps[i].id \cap ps[j].id = {}

(* A segmentation names its patches apart, the API admits values of these  *)
(* types, and no version has written an option that is out of its bounds.  *)
ASSUME SegmentationAssumption ==
  \A s \in {AnalysisSettings(raw) : raw \in {r \in AnalysisAsks : AnalysisAccepts(r)}}
           \cup {Replayed(settings) : settings \in Older} :
    Segmented(s) \in Seq(SurfacePatch) /\ Distinct(Segmented(s))
ASSUME UpdatesAssumption ==
  \A body \in Updates :
    /\ "locked" \in DOMAIN body => body.locked \in BOOLEAN
    /\ "kind" \in DOMAIN body => body.kind \in PatchKind
    /\ "fit" \in DOMAIN body => body.fit \in PatchId
    /\ "smooth" \in DOMAIN body => body.smooth \in SUBSET PatchId
ASSUME OlderAssumption == \A s \in Older : s # Other => BoundedOptions(s)

(* A patch as an analysis publishes it.                                    *)
Patch(triangles, kind, neighbors) ==
  [id |-> {triangles}, triangles |-> triangles, kind |-> kind,
   fit |-> IF kind \in Freeform THEN NoFit ELSE {triangles},
   neighbors |-> neighbors, smooth |-> {}, locked |-> FALSE, overridden |-> FALSE]

(* A mesh that was uploaded, a sample, or a document of an earlier version *)
(* with the patches of the settings it names.                              *)
Init ==
  /\ \/ /\ graph \in {"plain", "supported sample", "sample"}
        /\ analysis = Other /\ found = <<>>
     \/ /\ graph = "plain"
        /\ analysis \in Older /\ found = Segmented(Replayed(analysis))
  /\ patches = found
  /\ conversion = NoConversion /\ edits = 0

(* upload_source: the document starts anew.                                *)
UploadSource ==
  /\ edits < MaxEdits /\ edits' = edits + 1
  /\ graph' = "plain" /\ analysis' = Other
  /\ found' = <<>> /\ patches' = <<>>
  /\ UNCHANGED conversion

(* _analyze: what users had edited is replaced.                            *)
Analyze(raw) ==
  /\ edits < MaxEdits /\ edits' = edits + 1
  /\ AnalysisAccepts(raw)
  /\ analysis' = AnalysisSettings(raw)
  /\ found' = Segmented(AnalysisSettings(raw)) /\ patches' = found'
  /\ UNCHANGED <<graph, conversion>>

AnalysisRefused(raw) ==
  /\ edits < MaxEdits /\ edits' = edits + 1
  /\ ~AnalysisAccepts(raw)
  /\ UNCHANGED <<graph, analysis, found, patches, conversion>>

-----------------------------------------------------------------------------
(* Edits.                                                                  *)

(* A body names the fields it changes: locked, kind, fit, smooth.          *)
Changed(p, body) ==
  [p EXCEPT !.locked = Get(body, "locked", @),
            !.kind = Get(body, "kind", @),
            !.fit = Get(body, "fit", @),
            !.overridden = @ \/ "kind" \in DOMAIN body \/ "fit" \in DOMAIN body]

(* _apply_smooth_boundaries: what is declared of a patch is declared of    *)
(* the neighbours that are joined or separated.                            *)
Toggled(p, wanted) == (wanted \ p.smooth) \cup (p.smooth \ wanted)
BoundaryAllowed(p, wanted) ==
  /\ wanted \subseteq Ids(patches) \cap p.neighbors
  /\ ~p.locked
  /\ \A n \in Toggled(p, wanted) \cap Ids(patches) : ~Named(patches, n).locked
Joined(q, p, wanted) ==
  CASE q.id = p.id -> [q EXCEPT !.smooth = wanted]
    [] q.id # p.id /\ q.id \in Toggled(p, wanted) ->
         [q EXCEPT !.smooth = IF q.id \in wanted THEN @ \cup {p.id} ELSE @ \ {p.id}]
    [] OTHER -> q

(* update_patch: the other fields are changed before the boundaries are    *)
(* looked at, and nothing is written when these are refused.               *)
UpdatePatch(id, body) ==
  LET p == Changed(Named(patches, id), body)
      wanted == Get(body, "smooth", p.smooth)
  IN
  /\ edits < MaxEdits /\ edits' = edits + 1
  /\ "smooth" \in DOMAIN body => BoundaryAllowed(p, wanted)
  /\ patches' = [i \in DOMAIN patches |->
       Joined(IF patches[i].id = id THEN p ELSE patches[i], p, wanted)]
  /\ UNCHANGED <<graph, analysis, found, conversion>>

(* merge_patches: the first of the two, in the order of the document, gets *)
(* the triangles of both and goes to the end; its neighbours and smooth    *)
(* boundaries stay what they were, and the other patches name it no less   *)
(* than before.                                                            *)
MergeAllowed_Locked(a, b) == a.kind = b.kind /\ a.fit = b.fit
MergeAllowed(a, b) == ~a.locked /\ ~b.locked /\ a.kind = b.kind /\ a.fit = b.fit
Merged(a, b) ==
  [a EXCEPT !.id = a.id \cup b.id, !.triangles = a.triangles \cup b.triangles]
Without(i, j) == RemoveAt(RemoveAt(patches, j), i)

MergePatches(i, j) ==
  LET a == patches[i]
      b == patches[j]
  IN
  /\ edits < MaxEdits /\ edits' = edits + 1
  /\ i < j /\ MergeAllowed(a, b)
  /\ patches' = Append(Without(i, j), Merged(a, b))
  /\ UNCHANGED <<graph, analysis, found, conversion>>

-----------------------------------------------------------------------------
(* Reconstruction.                                                         *)

(* _user_patch_overrides                                                   *)
Override(p) ==
  [kind |-> IF p.overridden THEN p.kind ELSE "none", locked |-> p.locked, smooth |-> p.smooth]
Overrides ==
  {[id |-> p.id, what |-> Override(p)] :
     p \in {q \in ToSet(patches) : q.overridden \/ q.locked \/ q.smooth # {}}}

(* The curved conversion segments with the default settings.  Every        *)
(* override names a patch of this segmentation, and every smooth boundary  *)
(* two freeform ones that touch.                                           *)
Curved == Segmented(SegmentationSettings)
AllKnown_Skipped == \A o \in Overrides : o.id \in Ids(Curved) => o.what.smooth \subseteq Ids(Curved)
AllKnown == \A o \in Overrides : o.id \in Ids(Curved) /\ o.what.smooth \subseteq Ids(Curved)
SmoothAllowed ==
  \A o \in {x \in Overrides : x.id \in Ids(Curved)} : \A n \in o.what.smooth :
     /\ n \in Named(Curved, o.id).neighbors
     /\ Named(Curved, o.id).kind \in Freeform
     /\ Named(Curved, n).kind \in Freeform

(* PatchEditSession.reclassify: the triangles must fit an analytic kind    *)
(* again, and the fit is the one that the segmentation made.               *)
KindsFit ==
  \A o \in {x \in Overrides : x.id \in Ids(Curved)} :
     o.what.kind \in {"none", Named(Curved, o.id).kind} \cup Freeform

(* _apply_patch_overrides                                                  *)
Applied ==
  {[id |-> o.id, kind |-> IF o.what.kind = "none" THEN Named(Curved, o.id).kind ELSE o.what.kind,
    locked |-> o.what.locked] : o \in {x \in Overrides : x.id \in Ids(Curved)}}
SmoothPairs ==
  UNION {{{o.id, n} : n \in o.what.smooth} : o \in {x \in Overrides : x.id \in Ids(Curved)}}

CurvedOutcome ==
  CASE ~AllKnown -> [mode |-> "curved", refusal |-> "curved_patch_override_unknown"]
    [] AllKnown /\ ~(SmoothAllowed /\ KindsFit) ->
         [mode |-> "curved", refusal |-> "curved_patch_override_rejected"]
    [] OTHER -> [mode |-> "curved", refusal |-> "none", applied |-> Applied, pairs |-> SmoothPairs,
                 asked |-> patches]

(* _reconstruct, once the API has let the request pass: an automatic one   *)
(* needs an analysis it can replay, and uses no edit.                      *)
Outcome(raw) ==
  CASE SettingsRefusal(raw, "mm") # "none" ->
         [mode |-> Mode(raw), refusal |-> SettingsRefusal(raw, "mm")]
    [] OTHER ->
         CASE Mode(raw) = "faceted" -> [mode |-> "faceted", refusal |-> "none"]
           [] Mode(raw) = "curved"  -> CurvedOutcome
           [] Mode(raw) = "automatic" ->
                IF ReplayRefusal(analysis, patches) # "none"
                THEN [mode |-> "automatic", refusal |-> ReplayRefusal(analysis, patches)]
                ELSE [mode |-> "automatic", refusal |-> "none", shown |-> found,
                      segmented |-> Segmented(Replayed(analysis))]

(* What a job leaves when the engine has succeeded: an automatic one puts  *)
(* its own analysis and its own patches in the document, and what users    *)
(* had locked, classified, joined or merged is gone.                       *)
Completed(mode) ==
  /\ graph' = IF mode = "faceted" THEN "faceted" ELSE "plain"
  /\ IF mode = "automatic"
     THEN /\ analysis' = Replayed(analysis)
          /\ found' = Segmented(Replayed(analysis)) /\ patches' = found'
     ELSE UNCHANGED <<analysis, found, patches>>

Refused(raw) ==
  /\ Mode(raw) = "automatic" /\ Admission(graph, analysis, found) # "none"
  /\ conversion' = [mode |-> "automatic", refusal |-> Admission(graph, analysis, found),
                    offer |-> Offer(graph, "none", analysis, found)]
  /\ UNCHANGED <<graph, analysis, found, patches, edits>>

Reconstruct(raw) ==
  /\ Mode(raw) # "automatic" \/ Admission(graph, analysis, found) = "none"
  /\ conversion' = Outcome(raw)
  /\ \/ conversion'.refusal = "none" /\ Completed(Mode(raw))
     \/ UNCHANGED <<graph, analysis, found, patches>>
  /\ UNCHANGED edits

Next ==
  \/ UploadSource
  \/ \E raw \in AnalysisAsks : Analyze(raw) \/ AnalysisRefused(raw)
  \/ \E id \in Ids(patches), body \in Updates : UpdatePatch(id, body)
  \/ \E i, j \in DOMAIN patches : MergePatches(i, j)
  \/ \E raw \in Asks : Refused(raw) \/ Reconstruct(raw)

Spec == Init /\ [][Next]_vars

-----------------------------------------------------------------------------
(* Properties.                                                             *)

(* Whatever is merged or edited, patches that divide the mesh, as those of *)
(* a segmentation should, still do: every triangle is in one patch and in  *)
(* no other.                                                               *)
Divides(ps) ==
  \A t \in Mesh : \E i \in DOMAIN ps :
    t \in ps[i].triangles /\ \A j \in DOMAIN ps \ {i} : t \notin ps[j].triangles
EveryTriangleOnce == Divides(found) => Divides(patches)

(* A locked patch keeps its triangles, its lock and its joins, on its own  *)
(* side and on the neighbours', through every edit of any patch.  The lock *)
(* goes by an update that says so, and the patch with all others when they *)
(* are replaced: by an upload, an analysis or an automatic reconstruction. *)
KeepsIts(p, fields) ==
  \E q \in ToSet(patches') : \A f \in fields : q[f] = p[f]
KeepsItsJoins(p) ==
  \A n \in Ids(patches) \cap Ids(patches') :
    p.id \in Named(patches, n).smooth <=> p.id \in Named(patches', n).smooth
Unlocks(p) ==
  \E body \in Updates :
    "locked" \in DOMAIN body /\ ~body.locked /\ UpdatePatch(p.id, body)
Replaces ==
  \/ UploadSource
  \/ \E raw \in AnalysisAsks : Analyze(raw)
  \/ \E raw \in Asks : Mode(raw) = "automatic" /\ Reconstruct(raw)
LockHolds ==
  [][\A p \in ToSet(patches) : p.locked =>
       \/ KeepsIts(p, {"id", "triangles", "locked", "smooth"}) /\ KeepsItsJoins(p)
       \/ Unlocks(p) /\ KeepsIts(p, {"id", "triangles"})
       \/ Replaces]_vars

(* A curved conversion that succeeds honours every edit that is on record  *)
(* in the document it was made from: each lock, each classification and    *)
(* each join is applied to the patch the user gave it to.  An edit it      *)
(* cannot place refuses the conversion instead.                            *)
IntentIsApplied ==
  conversion.mode = "curved" /\ conversion.refusal = "none" =>
    \A i \in DOMAIN conversion.asked :
      LET p == conversion.asked[i] IN
      /\ p.locked \/ p.overridden =>
           \E a \in conversion.applied :
             a.id = p.id /\ (p.overridden => a.kind = p.kind) /\ (p.locked => a.locked)
      /\ \A n \in p.smooth : {p.id, n} \in conversion.pairs

(* The three readers of the settings of an analysis agree: what the page   *)
(* offers on account of an analysis by the service the API admits, an      *)
(* automatic reconstruction that the API admits is never refused for the   *)
(* settings it replays, and it segments the mesh into exactly the patches  *)
(* that the analysis showed.                                               *)
ReplayIsExact ==
  conversion.mode = "automatic" =>
    /\ conversion.refusal \in {"analysis_required", "automatic_reconstruction_unsupported"} =>
         conversion.offer # "analysis"
    /\ conversion.refusal \notin {"analysis_settings_missing", "invalid_analysis_settings"}
    /\ conversion.refusal = "none" => conversion.segmented = conversion.shown

(* automaticReconstruction.ts, of its own check: a project may only be     *)
(* reconstructed when the settings that analysis recorded are present.     *)
OfferIsAdmitted ==
  conversion.mode = "automatic" /\ conversion.refusal = "analysis_required" =>
    conversion.offer = "no"

(* What patches.py says of smooth joins: reading either patch shows the    *)
(* same declaration.                                                       *)
SmoothIsMutual ==
  \A i, j \in DOMAIN patches :
    patches[j].id \in patches[i].smooth => patches[i].id \in patches[j].smooth
=============================================================================
