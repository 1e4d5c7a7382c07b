--------------------------- MODULE ConversionProofs ---------------------------
(***************************************************************************)
(* Theorems about Conversion for any sources, samples and bounds.          *)
(*                                                                         *)
(* Two invariants.  Lasting holds always: types, labels that name their    *)
(* geometry, and what the API demanded of a document being kept with the   *)
(* request and the job.  Current holds until a commit replaces another     *)
(* document than the one its comparison had read.  Until then a revision   *)
(* names one document: a request or job of the present revision has seen   *)
(* the present document, so that comparing revisions is enough.            *)
(***************************************************************************)
EXTENDS Conversion, TLAPS

Fresh == [source |-> None, diagnostics |-> None, repair |-> None, analysis |-> None,
          replayable |-> FALSE, patches |-> None, graph |-> None, label |-> None,
          settings |-> {}, files |-> NoFiles]

OfSource(d) ==
  /\ \A e \in Evidence : d[e] \in {None, d.source}
  /\ \A f \in File : d.files[f] # None => d.files[f].source = d.source
Labelled(d) ==
  d.label # None /\ d.label.status # "not-run" =>
    d.graph # None /\ d.label.shape = d.graph.shape

(* What the API demanded of the document a request has seen.               *)
Demanded(p) ==
  /\ p.kind \in Build => p.seen.graph # None /\ BoundToSource(p.seen)
  /\ p.kind \notin Build => p.seen.source # None
  /\ p.kind = "sample_open" => p.seen.source \in Sample

Lasting ==
  /\ TypeOK
  /\ Labelled(doc)
  /\ saved # None => Labelled(saved)
  /\ \A w \in writes : Labelled(w.next) /\ (w.kind = "upload" => w.next.source # None)
  /\ \A p \in requests : Demanded(p)
  /\ job # Idle => Demanded(job) /\ job.stage = "compared"
  /\ completion # Idle => job # Idle /\ Labelled(completion.read)

(* The files that a request or a job takes along from a document.          *)
PriorOf(p, d) ==
  IF p.kind = "export" THEN [f \in File |-> IF f \in Unlisted THEN None ELSE d.files[f]]
  ELSE NoFiles

(* A request or a job is of the present revision only if it has seen the   *)
(* present document.                                                       *)
Saw(p, d) ==
  /\ p.kind # "sample_open" => p.seen = d
  /\ p.stage # "read" => p.prior = PriorOf(p, d)
Snapshot(p) ==
  /\ p.revision <= revision
  /\ p.kind = "sample_open" => p.revision = 1
  /\ p.kind # "export" => p.stage # "read"
  /\ p.revision = revision => Saw(p, doc)

Current ==
  /\ OfSource(doc)
  /\ saved # None => OfSource(saved)
  /\ \A w \in writes : OfSource(w.next)
  /\ revision = 1 => doc = Fresh
  /\ \A p \in requests : Snapshot(p)
  /\ job # Idle => Snapshot(job)
  /\ completion # Idle => completion.revision = job.revision /\ Saw(job, completion.read)

ConversionInv == Lasting /\ (~crossed => Current)

-----------------------------------------------------------------------------
(* Documents as functions of their fields.                                 *)

Field == {"source", "diagnostics", "repair", "analysis", "replayable", "patches", "graph",
          "label", "settings", "files"}

LEMMA DocumentDomain == ASSUME NEW d \in Document PROVE DOMAIN d = Field
  BY DEF Document, Field
NewField(d, out, x) ==
  IF x \in DOMAIN out.patch THEN out.patch[x] ELSE d[x]
LEMMA PatchedFields ==
  ASSUME NEW d \in Document, NEW out
  PROVE  /\ Patched(d, out).files =
              [f \in File |-> IF f \in DOMAIN out.files THEN out.files[f] ELSE d.files[f]]
         /\ \A x \in Field \ {"files"} : Patched(d, out)[x] = NewField(d, out, x)
         /\ DOMAIN Patched(d, out) = Field
         /\ Patched(d, out) = [x \in Field |-> Patched(d, out)[x]]
<1>1. DOMAIN d = Field
  BY DocumentDomain
<1>2. DOMAIN Patched(d, out) = Field
  BY <1>1 DEF Patched
<1>3. Patched(d, out) = [x \in Field |-> Patched(d, out)[x]]
  BY <1>1 DEF Patched
<1>4. Patched(d, out).files =
        [f \in File |-> IF f \in DOMAIN out.files THEN out.files[f] ELSE d.files[f]]
  BY <1>1 DEF Patched, Field
<1>5. \A x \in Field \ {"files"} : Patched(d, out)[x] = NewField(d, out, x)
  BY <1>1 DEF Patched, NewField
<1> QED
  BY <1>2, <1>3, <1>4, <1>5
(* A function with the fields of a document, each in its set, is one.      *)
LEMMA FieldsMakeDocument ==
  ASSUME NEW p, p = [x \in Field |-> p[x]],
         p.source \in Mesh \cup {None}, p.diagnostics \in Mesh \cup {None},
         p.repair \in Mesh \cup {None}, p.analysis \in Mesh \cup {None},
         p.replayable \in BOOLEAN, p.patches \in Mesh \cup {None},
         p.graph \in Graph \cup {None}, p.label \in Label \cup {None},
         p.settings \in SUBSET {"supported", "unsupported", "candidates", "faceted", "curved"},
         p.files \in [File -> Made \cup {None}]
  PROVE  p \in Document
<1> DEFINE M == Mesh \cup {None}
           G == Graph \cup {None}
           L == Label \cup {None}
           S == SUBSET {"supported", "unsupported", "candidates", "faceted", "curved"}
           F == [File -> Made \cup {None}]
<1>1. /\ p.source \in M /\ p.diagnostics \in M /\ p.repair \in M /\ p.analysis \in M
      /\ p.replayable \in BOOLEAN /\ p.patches \in M
      /\ p.graph \in G /\ p.label \in L /\ p.settings \in S /\ p.files \in F
  OBVIOUS
<1> HIDE DEF M, G, L, S, F
<1>2. p \in  [source : M, diagnostics : M, repair : M,
   analysis : M, replayable : BOOLEAN, patches : M,
   graph : G, label : L, settings : S, files : F]
  BY <1>1 DEF Field
<1> QED
  BY <1>2 DEF M, G, L, S, F, Document

(* The fields of a document that a result changes.                         *)
LEMMA PatchedRecord ==
  ASSUME NEW d \in Document, NEW out
  PROVE  /\ Patched(d, out).source = NewField(d, out, "source")
         /\ Patched(d, out).diagnostics = NewField(d, out, "diagnostics")
         /\ Patched(d, out).repair = NewField(d, out, "repair")
         /\ Patched(d, out).analysis = NewField(d, out, "analysis")
         /\ Patched(d, out).replayable = NewField(d, out, "replayable")
         /\ Patched(d, out).patches = NewField(d, out, "patches")
         /\ Patched(d, out).graph = NewField(d, out, "graph")
         /\ Patched(d, out).label = NewField(d, out, "label")
         /\ Patched(d, out).settings = NewField(d, out, "settings")
<1>1. \A x \in Field \ {"files"} : Patched(d, out)[x] = NewField(d, out, x)
  BY PatchedFields
<1>2. Patched(d, out)["source"] = NewField(d, out, "source")
  BY <1>1 DEF Field
<1>3. Patched(d, out)["diagnostics"] = NewField(d, out, "diagnostics")
  BY <1>1 DEF Field
<1>4. Patched(d, out)["repair"] = NewField(d, out, "repair")
  BY <1>1 DEF Field
<1>5. Patched(d, out)["analysis"] = NewField(d, out, "analysis")
  BY <1>1 DEF Field
<1>6. Patched(d, out)["replayable"] = NewField(d, out, "replayable")
  BY <1>1 DEF Field
<1>7. Patched(d, out)["patches"] = NewField(d, out, "patches")
  BY <1>1 DEF Field
<1>8. Patched(d, out)["graph"] = NewField(d, out, "graph")
  BY <1>1 DEF Field
<1>9. Patched(d, out)["label"] = NewField(d, out, "label")
  BY <1>1 DEF Field
<1>10. Patched(d, out)["settings"] = NewField(d, out, "settings")
  BY <1>1 DEF Field
<1> QED
  BY <1>2, <1>3, <1>4, <1>5, <1>6, <1>7, <1>8, <1>9, <1>10

-----------------------------------------------------------------------------
(* What a handler makes of a snapshot.                                     *)

Setting == {"supported", "unsupported", "candidates", "faceted", "curved"}

GoodPatch(patch, s) ==
  /\ "source" \in DOMAIN patch => patch["source"] = s
  /\ \A e \in Evidence : e \in DOMAIN patch => patch[e] = s
  /\ "replayable" \in DOMAIN patch => patch["replayable"] \in BOOLEAN
  /\ "settings" \in DOMAIN patch => patch["settings"] \in SUBSET Setting
  /\ "graph" \in DOMAIN patch <=> "label" \in DOMAIN patch
  /\ "graph" \in DOMAIN patch =>
       /\ patch["graph"] \in Graph /\ patch["label"] \in Label
       /\ patch["label"].shape = patch["graph"].shape
Good(out, s) == (\A f \in DOMAIN out.files : out.files[f] \in Made) /\ GoodPatch(out.patch, s)
FilesOf(out, s) == \A f \in DOMAIN out.files : out.files[f].source = s

(* A document stays a labelled document when a good result is put into it. *)
LEMMA PatchedIsDocument ==
  ASSUME NEW d \in Document, Labelled(d), NEW out, NEW s \in Mesh \cup {None}, Good(out, s)
  PROVE  Patched(d, out) \in Document /\ Labelled(Patched(d, out))
<1> DEFINE p == Patched(d, out)
<1> USE ConversionAssumption
<1>2. /\ p.source = NewField(d, out, "source")
      /\ p.diagnostics = NewField(d, out, "diagnostics")
      /\ p.repair = NewField(d, out, "repair")
      /\ p.analysis = NewField(d, out, "analysis")
      /\ p.replayable = NewField(d, out, "replayable")
      /\ p.patches = NewField(d, out, "patches")
      /\ p.graph = NewField(d, out, "graph")
      /\ p.label = NewField(d, out, "label")
      /\ p.settings = NewField(d, out, "settings")
  BY PatchedRecord
<1>3. /\ p.files =
           [f \in File |-> IF f \in DOMAIN out.files THEN out.files[f] ELSE d.files[f]]
      /\ p = [x \in Field |-> p[x]]
  BY PatchedFields
<1> HIDE DEF p
<1>4. p.source \in Mesh \cup {None}
  BY <1>2 DEF NewField, Good, GoodPatch, Document
<1>5. /\ p.diagnostics \in Mesh \cup {None} /\ p.repair \in Mesh \cup {None}
      /\ p.analysis \in Mesh \cup {None} /\ p.patches \in Mesh \cup {None}
  BY <1>2 DEF NewField, Good, GoodPatch, Document, Evidence
<1>6. p.files \in [File -> Made \cup {None}]
  BY <1>3 DEF Document, Good
<1>7. /\ p.graph \in Graph \cup {None} /\ p.label \in Label \cup {None}
      /\ p.replayable \in BOOLEAN
      /\ p.settings \in SUBSET {"supported", "unsupported", "candidates", "faceted", "curved"}
  BY <1>2 DEF NewField, Good, GoodPatch, Document, Setting
<1>8. p \in Document
  BY <1>3, <1>4, <1>5, <1>6, <1>7, FieldsMakeDocument
<1>9. Labelled(p)
  BY <1>2, NoneIsNoGraph DEF NewField, Good, GoodPatch, Labelled
<1> QED
  BY <1>8, <1>9 DEF p

(* Its evidence stays of its source when the result is of that source.     *)
LEMMA PatchedIsOfSource ==
  ASSUME NEW d \in Document, OfSource(d), NEW out, NEW s, Good(out, s), FilesOf(out, s),
         \/ d.source = s
         \/ d = Fresh /\ "source" \in DOMAIN out.patch
  PROVE  OfSource(Patched(d, out))
<1> DEFINE p == Patched(d, out)
<1>1. /\ p.source = NewField(d, out, "source")
      /\ p.diagnostics = NewField(d, out, "diagnostics")
      /\ p.repair = NewField(d, out, "repair")
      /\ p.analysis = NewField(d, out, "analysis")
      /\ p.patches = NewField(d, out, "patches")
  BY PatchedRecord
<1>2. p.files = [f \in File |-> IF f \in DOMAIN out.files THEN out.files[f] ELSE d.files[f]]
  BY PatchedFields
<1>3. Fresh.source = None /\ Fresh.files = NoFiles /\ \A e \in Evidence : Fresh[e] = None
  BY DEF Fresh, Evidence
<1> HIDE DEF p
<1>4. p.source = s
  BY <1>1 DEF NewField, Good, GoodPatch
<1>5. \A e \in Evidence : p[e] \in {None, s}
  <2>1. \A e \in Evidence : d[e] \in {None, s}
    BY <1>3 DEF OfSource
  <2> QED
    BY <1>1, <2>1 DEF NewField, Good, GoodPatch, Evidence
<1>6. \A f \in File : p.files[f] # None => p.files[f].source = s
  <2>1. \A f \in File : d.files[f] # None => d.files[f].source = s
    BY <1>3 DEF OfSource, NoFiles
  <2> QED
    BY <1>2, <2>1 DEF FilesOf
<1> QED
  BY <1>4, <1>5, <1>6 DEF OfSource, p

Shaping == {"automatic", "faceted", "curved", "sample_open"}

LEMMA OutputParts ==
  ASSUME NEW patch, NEW s \in Mesh, NEW n \in Shape, NEW files, NEW state
  PROVE  /\ Output(patch, s, n, files, state).patch = patch
         /\ \A f \in DOMAIN Output(patch, s, n, files, state).files :
              Output(patch, s, n, files, state).files[f] \in Made
         /\ FilesOf(Output(patch, s, n, files, state), s)
  BY DEF Output, FilesOf, Made

LEMMA MeshPatches ==
  ASSUME NEW s \in Mesh
  PROVE  /\ GoodPatch([diagnostics |-> s, analysis |-> s, replayable |-> FALSE], s)
         /\ GoodPatch([diagnostics |-> s, repair |-> s], s)
         /\ GoodPatch([diagnostics |-> s, repair |-> s, analysis |-> s, replayable |-> TRUE,
                       patches |-> s], s)
<1>1. GoodPatch([diagnostics |-> s, analysis |-> s, replayable |-> FALSE], s)
  <2> DEFINE p == [diagnostics |-> s, analysis |-> s, replayable |-> FALSE]
  <2>1. /\ DOMAIN p = {"diagnostics", "analysis", "replayable"}
        /\ p["diagnostics"] = s /\ p["analysis"] = s /\ p["replayable"] \in BOOLEAN
    OBVIOUS
  <2> HIDE DEF p
  <2> QED
    BY <2>1 DEF GoodPatch, Evidence
<1>2. GoodPatch([diagnostics |-> s, repair |-> s], s)
  <2> DEFINE p == [diagnostics |-> s, repair |-> s]
  <2>1. /\ DOMAIN p = {"diagnostics", "repair"}
        /\ p["diagnostics"] = s /\ p["repair"] = s
    OBVIOUS
  <2> HIDE DEF p
  <2> QED
    BY <2>1 DEF GoodPatch, Evidence
<1>3. GoodPatch([diagnostics |-> s, repair |-> s, analysis |-> s, replayable |-> TRUE,
                 patches |-> s], s)
  <2> DEFINE p == [diagnostics |-> s, repair |-> s, analysis |-> s, replayable |-> TRUE,
                   patches |-> s]
  <2>1. /\ DOMAIN p = {"diagnostics", "repair", "analysis", "replayable", "patches"}
        /\ p["diagnostics"] = s /\ p["repair"] = s /\ p["analysis"] = s
        /\ p["replayable"] \in BOOLEAN /\ p["patches"] = s
    OBVIOUS
  <2> HIDE DEF p
  <2> QED
    BY <2>1 DEF GoodPatch, Evidence
<1> QED
  BY <1>1, <1>2, <1>3

LEMMA MeshOutputs ==
  ASSUME NEW j, NEW out, j.seen.source \in Mesh,
         out \in {UploadOutput(j), RepairOutput(j), AnalyzeOutput(j)}
  PROVE  Good(out, j.seen.source) /\ FilesOf(out, j.seen.source)
<1>1. 0 \in Shape
  BY ConversionAssumption DEF Shape
<1> QED
  BY <1>1, OutputParts, MeshPatches
     DEF UploadOutput, RepairOutput, AnalyzeOutput, Good

(* What every handler that makes a geometry has in common.                 *)
LEMMA ShapePatch ==
  ASSUME NEW p, NEW s, NEW n \in Nat,
         {"graph", "label", "settings"} \subseteq DOMAIN p,
         p["graph"] \in Graph, p["graph"].shape = n,
         p["label"] \in Label, p["label"].shape = n, p["settings"] \in SUBSET Setting,
         "source" \in DOMAIN p => p["source"] = s,
         \A e \in Evidence : e \in DOMAIN p => p[e] = s,
         "replayable" \in DOMAIN p => p["replayable"] \in BOOLEAN
  PROVE  GoodPatch(p, s)
  BY DEF GoodPatch

LEMMA ShapeOutputs ==
  ASSUME NEW j, NEW out, j.seen \in Document, j.seen.source \in Mesh,
         NEW n \in Shape, NEW fits \in BOOLEAN, NEW framed \in BOOLEAN,
         \/ out \in {AutomaticOutput(j, n, fits, framed), FacetedOutput(j, n),
                     CurvedOutput(j, n)}
         \/ out = SampleOutput(j, n) /\ j.seen.source \in Sample
  PROVE  Good(out, j.seen.source) /\ FilesOf(out, j.seen.source)
<1> USE ConversionAssumption
<1> DEFINE s == j.seen.source
<1>0. n \in Nat
  BY DEF Shape
<1>1. j.seen.settings \in SUBSET Setting
  BY DEF Document, Setting
<1>2. ASSUME NEW kind \in {"exact", "faceted", "curved"}, NEW p \in Sample \cup {None},
             NEW b \in BOOLEAN
      PROVE  /\ NewGraph(kind, p, s, n, b) \in Graph
             /\ NewGraph(kind, p, s, n, b).shape = n
  BY DEF NewGraph, Graph
<1>3. ASSUME NEW st \in {"not-run", "valid", "invalid", "partial"}
      PROVE  [status |-> st, shape |-> n] \in Label /\ [status |-> st, shape |-> n].shape = n
  BY DEF Label
<1>4. Within(fits) \in {"valid", "invalid"}
  BY DEF Within
<1>s. s \in Mesh
  OBVIOUS
<1> HIDE DEF s
<1>5. ASSUME NEW g \in Graph, g.shape = n, NEW l \in Label, l.shape = n,
             NEW t \in SUBSET Setting
      PROVE  /\ GoodPatch([diagnostics |-> s, repair |-> s, analysis |-> s,
                           replayable |-> TRUE, patches |-> s, graph |-> g, label |-> l,
                           settings |-> t], s)
             /\ GoodPatch([diagnostics |-> s, repair |-> s, graph |-> g, label |-> l,
                           settings |-> t], s)
             /\ GoodPatch([source |-> s, graph |-> g, label |-> l, settings |-> t], s)
  <2>1. GoodPatch([diagnostics |-> s, repair |-> s, analysis |-> s, replayable |-> TRUE,
                   patches |-> s, graph |-> g, label |-> l, settings |-> t], s)
    <3> DEFINE p == [diagnostics |-> s, repair |-> s, analysis |-> s, replayable |-> TRUE,
                     patches |-> s, graph |-> g, label |-> l, settings |-> t]
    <3>1. /\ DOMAIN p = {"diagnostics", "repair", "analysis", "replayable", "patches",
                         "graph", "label", "settings"}
          /\ p["diagnostics"] = s /\ p["repair"] = s /\ p["analysis"] = s
          /\ p["replayable"] \in BOOLEAN /\ p["patches"] = s
          /\ p["graph"] = g /\ p["label"] = l /\ p["settings"] = t
      OBVIOUS
    <3> HIDE DEF p
    <3>2. \A e \in Evidence : p[e] = s
      BY <3>1 DEF Evidence
    <3>3. {"graph", "label", "settings"} \subseteq DOMAIN p /\ "source" \notin DOMAIN p
      BY <3>1
    <3>4. GoodPatch(p, s)
      BY <1>0, <1>5, <3>1, <3>2, <3>3 DEF GoodPatch
    <3> QED
      BY <3>4 DEF p
  <2>2. GoodPatch([diagnostics |-> s, repair |-> s, graph |-> g, label |-> l,
                   settings |-> t], s)
    <3> DEFINE p == [diagnostics |-> s, repair |-> s, graph |-> g, label |-> l, settings |-> t]
    <3>1. /\ DOMAIN p = {"diagnostics", "repair", "graph", "label", "settings"}
          /\ p["diagnostics"] = s /\ p["repair"] = s
          /\ p["graph"] = g /\ p["label"] = l /\ p["settings"] = t
      OBVIOUS
    <3> HIDE DEF p
    <3> QED
      BY <1>0, <1>5, <3>1, ShapePatch DEF Evidence
  <2>3. GoodPatch([source |-> s, graph |-> g, label |-> l, settings |-> t], s)
    <3> DEFINE p == [source |-> s, graph |-> g, label |-> l, settings |-> t]
    <3>1. /\ DOMAIN p = {"source", "graph", "label", "settings"}
          /\ p["source"] = s /\ p["graph"] = g /\ p["label"] = l /\ p["settings"] = t
      OBVIOUS
    <3> HIDE DEF p
    <3> QED
      BY <1>0, <1>5, <3>1, ShapePatch DEF Evidence
  <2> QED
    BY <2>1, <2>2, <2>3
<1>6. CASE out = AutomaticOutput(j, n, fits, framed)
  <2> DEFINE g == NewGraph("exact", None, s, n, fits)
             l == [status |-> Within(fits), shape |-> n]
             t == j.seen.settings \cup {"candidates"}
             p == [diagnostics |-> s, repair |-> s,
               analysis |-> s, replayable |-> TRUE, patches |-> s, graph |-> g, label |-> l,
               settings |-> t]
  <2>1. t \in SUBSET Setting
    BY <1>1 DEF Setting
  <2>2. g \in Graph /\ g.shape = n /\ l \in Label /\ l.shape = n
    BY <1>2, <1>3, <1>4
  <2>3. PICK files, state : out = Output(p, s, n, files, state)
    BY <1>6 DEF AutomaticOutput, s
  <2> HIDE DEF g, l, t
  <2>4. GoodPatch(p, s)
    BY <1>5, <2>1, <2>2
  <2> HIDE DEF p
  <2> QED
    BY <1>s, <2>3, <2>4, OutputParts DEF Good, s
<1>7. CASE out = FacetedOutput(j, n)
  <2> DEFINE g == NewGraph("faceted", None, s, n, TRUE)
             l == [status |-> "partial", shape |-> n]
             t == (j.seen.settings \ {"candidates"}) \cup {"faceted"}
             p == [diagnostics |-> s, repair |-> s, graph |-> g,
               label |-> l, settings |-> t]
  <2>1. t \in SUBSET Setting
    BY <1>1 DEF Setting
  <2>2. g \in Graph /\ g.shape = n /\ l \in Label /\ l.shape = n
    BY <1>2, <1>3
  <2>3. PICK files, state : out = Output(p, s, n, files, state)
    BY <1>7 DEF FacetedOutput, s
  <2> HIDE DEF g, l, t
  <2>4. GoodPatch(p, s)
    BY <1>5, <2>1, <2>2
  <2> HIDE DEF p
  <2> QED
    BY <1>s, <2>3, <2>4, OutputParts DEF Good, s
<1>8. CASE out = CurvedOutput(j, n)
  <2> DEFINE g == NewGraph("curved", None, s, n, TRUE)
             l == [status |-> "valid", shape |-> n]
             t == (j.seen.settings \ {"candidates"}) \cup {"curved"}
             p == [diagnostics |-> s, repair |-> s, graph |-> g,
               label |-> l, settings |-> t]
  <2>1. t \in SUBSET Setting
    BY <1>1 DEF Setting
  <2>2. g \in Graph /\ g.shape = n /\ l \in Label /\ l.shape = n
    BY <1>2, <1>3
  <2>3. PICK files, state : out = Output(p, s, n, files, state)
    BY <1>8 DEF CurvedOutput, s
  <2> HIDE DEF g, l, t
  <2>4. GoodPatch(p, s)
    BY <1>5, <2>1, <2>2
  <2> HIDE DEF p
  <2> QED
    BY <1>s, <2>3, <2>4, OutputParts DEF Good, s
<1>9. CASE out = SampleOutput(j, n) /\ s \in Sample
  <2> DEFINE g == NewGraph("exact", s, s, n, TRUE)
             l == [status |-> "valid", shape |-> n]
             t == {IF s \in Supported THEN "supported" ELSE "unsupported"}
             p == [source |-> s, graph |-> g, label |-> l,
               settings |-> t]
  <2>1. t \in SUBSET Setting
    BY <1>1 DEF Setting
  <2>2. g \in Graph /\ g.shape = n /\ l \in Label /\ l.shape = n
    BY <1>2, <1>3, <1>9
  <2>3. PICK files, state : out = Output(p, s, n, files, state)
    BY <1>9 DEF SampleOutput, s
  <2> HIDE DEF g, l, t
  <2>4. GoodPatch(p, s)
    BY <1>5, <2>1, <2>2
  <2> HIDE DEF p
  <2> QED
    BY <1>s, <2>3, <2>4, OutputParts DEF Good, s
<1> QED
  BY <1>6, <1>7, <1>8, <1>9 DEF s

LEMMA BuildOutputs ==
  ASSUME NEW j, NEW out, NEW fits \in BOOLEAN, j \in Payload, j.seen.graph \in Graph,
         out = BuildOutput(j, fits)
  PROVE  /\ Good(out, j.seen.source)
         /\ (\A f \in File : j.prior[f] # None => j.prior[f].source = j.seen.source)
              => FilesOf(out, j.seen.source)
<1> USE ConversionAssumption
<1> DEFINE g == [j.seen.graph EXCEPT !.fits = fits]
           own == {"model.step", "validation.json"}
                    \cup (IF g.kind = "faceted" THEN {"source.original.stl"} ELSE {})
           made == [source |-> j.seen.source, shape |-> g.shape]
           taken == {f \in File \ own : j.prior[f] # None}
           written == IF j.kind # "export" THEN own
                      ELSE own \cup {"project.mesh2param.json", "manifest.json",
                                     "mesh2param-export.zip"}
<1>1. g \in Graph /\ g.shape = j.seen.graph.shape
  BY DEF Graph
<1>2. [status |-> Status(g), shape |-> g.shape] \in Label
  BY <1>1 DEF Label, Status, Within, Graph
<1>3. made \in Made /\ made.source = j.seen.source
  BY <1>1 DEF Made, Graph, Payload, Document
<1>4. /\ out.patch = [graph |-> g, label |-> [status |-> Status(g), shape |-> g.shape]]
      /\ out.files = [f \in written \cup taken |-> IF f \in taken THEN j.prior[f] ELSE made]
  BY DEF BuildOutput
<1>5. \A f \in taken : f \in File /\ j.prior[f] # None /\ j.prior[f] \in Made
  BY DEF Payload
<1> HIDE DEF g, made, written, taken
<1>6. \A f \in DOMAIN out.files : out.files[f] \in Made
  BY <1>3, <1>4, <1>5
<1>7. ASSUME \A f \in File : j.prior[f] # None => j.prior[f].source = j.seen.source
      PROVE  FilesOf(out, j.seen.source)
  BY <1>3, <1>4, <1>5, <1>7 DEF FilesOf
<1>8. /\ DOMAIN out.patch = {"graph", "label"}
      /\ out.patch["graph"] = g /\ out.patch["label"].shape = g.shape
      /\ out.patch["label"] \in Label
  BY <1>2, <1>4
<1>9. GoodPatch(out.patch, j.seen.source)
  BY <1>1, <1>8 DEF GoodPatch, Evidence
<1> QED
  BY <1>6, <1>7, <1>9 DEF Good

(* What a job with a result has to publish.                                *)
LEMMA PendingOutputs ==
  ASSUME Lasting, HasResult, NEW out \in Outputs(job)
  PROVE  /\ Good(out, job.seen.source)
         /\ \/ FilesOf(out, job.seen.source)
            \/ \E f \in File : job.prior[f] # None /\ job.prior[f].source # job.seen.source
<1> USE ConversionAssumption
<1>1. /\ job \in Payload /\ job.seen \in Document /\ job.kind \in Kind /\ shapes \in Shape
      /\ job.kind \notin Build => job.seen.source \in Mesh
      /\ job.kind = "sample_open" => job.seen.source \in Sample
  BY DEF Lasting, TypeOK, HasResult, Demanded, Payload, Document
<1>2. CASE job.kind \in {"upload", "repair", "analyze"}
  <2>1. out \in {UploadOutput(job), RepairOutput(job), AnalyzeOutput(job)}
    BY <1>2 DEF Outputs
  <2>2. job.seen.source \in Mesh
    BY <1>1, <1>2 DEF Build
  <2> QED
    BY <2>1, <2>2, MeshOutputs
<1>3. CASE job.kind \in Shaping
  <2> DEFINE n == shapes + 1
  <2>1. n \in Shape /\ job.seen.source \in Mesh
    BY <1>1, <1>3 DEF HasResult, Shaping, Shape, Build
  <2> HIDE DEF n
  <2>2. CASE job.kind = "automatic"
    <3>1. PICK fits \in BOOLEAN, framed \in BOOLEAN :
            out = AutomaticOutput(job, n, fits, framed)
      BY <2>2 DEF Outputs, n
    <3> QED
      BY <1>1, <2>1, <3>1, ShapeOutputs
  <2>3. PICK b \in BOOLEAN : TRUE
    OBVIOUS
  <2>4. CASE job.kind # "automatic"
    <3>1. \/ out \in {FacetedOutput(job, n), CurvedOutput(job, n)}
          \/ out = SampleOutput(job, n) /\ job.kind = "sample_open"
      BY <1>3, <2>4 DEF Outputs, Shaping, n
    <3> QED
      BY <1>1, <2>1, <2>3, <3>1, ShapeOutputs
  <2> QED
    BY <2>2, <2>4
<1>4. CASE job.kind \in Build
  <2>1. job.seen.graph \in Graph
    BY <1>1, <1>4 DEF Lasting, HasResult, Demanded, Document
  <2>2. PICK fits \in BOOLEAN : out = BuildOutput(job, fits)
    BY <1>4, <2>1 DEF Outputs, Build, Graph
  <2> QED
    BY <1>1, <2>1, <2>2, BuildOutputs
<1> QED
  BY <1>1, <1>2, <1>3, <1>4 DEF Kind, Build, Shaping

-----------------------------------------------------------------------------
(* The steps and what lasts.                                               *)

LEMMA RestartedIsFresh ==
  ASSUME NEW d \in Document, NEW s \in Mesh
  PROVE  /\ Restarted(d, s) \in Document /\ Restarted(d, s).source = s
         /\ Labelled(Restarted(d, s)) /\ OfSource(Restarted(d, s))
<1> DEFINE r == Restarted(d, s)
<1>2. /\ r.source = s /\ r.diagnostics = None /\ r.repair = None /\ r.analysis = None
      /\ r.replayable = FALSE /\ r.patches = None /\ r.graph = None /\ r.label = None
      /\ r.files = NoFiles
      /\ r.settings = d.settings \ {"supported", "unsupported"}
  BY DEF Restarted, Document
<1>3. r = [x \in Field |-> r[x]]
  BY DocumentDomain DEF Restarted, Field
<1>4. r.settings \in SUBSET {"supported", "unsupported", "candidates", "faceted", "curved"}
  BY <1>2 DEF Document
<1>5. NoFiles \in [File -> Made \cup {None}]
  BY DEF NoFiles
<1> HIDE DEF r
<1>6. r \in Document
  BY <1>2, <1>3, <1>4, <1>5, FieldsMakeDocument
<1>7. OfSource(r) /\ Labelled(r)
  BY <1>2 DEF OfSource, Labelled, Evidence, NoFiles
<1> QED
  BY <1>2, <1>6, <1>7 DEF r

(* The document a PATCH makes of the one it read.                          *)
Edited(d, g, n) == [d EXCEPT !.graph = [g EXCEPT !.shape = n], !.label = Relabelled(d)]
LEMMA EditedIsDocument ==
  ASSUME NEW d \in Document, NEW g \in Graph, NEW n \in Shape
  PROVE  /\ Edited(d, g, n) \in Document /\ Labelled(Edited(d, g, n))
         /\ OfSource(d) => OfSource(Edited(d, g, n))
<1> DEFINE h == [g EXCEPT !.shape = n]
           next == Edited(d, g, n)
<1>1. h \in Graph
  BY DEF Graph
<1>2. Relabelled(d) \in Label /\ Relabelled(d).status = "not-run"
  BY ConversionAssumption DEF Relabelled, Label, Shape
<1>3. next = [d EXCEPT !.graph = h, !.label = Relabelled(d)]
  BY DEF Edited
<1> HIDE DEF h, next
<1>4. next \in Document
  BY <1>1, <1>2, <1>3 DEF Document
<1>5. /\ next.label = Relabelled(d) /\ next.source = d.source
      /\ next.files = d.files /\ \A e \in Evidence : next[e] = d[e]
  BY <1>3 DEF Document, Evidence
<1>6. Labelled(next) /\ (OfSource(d) => OfSource(next))
  BY <1>2, <1>5 DEF Labelled, OfSource
<1> QED
  BY <1>4, <1>6 DEF next

(* A request that has read the document and is to replace it.              *)
LEMMA ReadsLasting ==
  ASSUME Lasting, NEW kind \in {"upload", "patch", "version", "restore"},
         NEW next \in Document, Labelled(next), kind = "upload" => next.source # None,
         Reads(kind, next), shapes' \in Shape
  PROVE  Lasting'
<1> DEFINE w == [kind |-> kind, read |-> doc, revision |-> revision, next |-> next]
<1>1. w \in Write /\ w.kind = kind /\ w.next = next
  BY ConversionAssumption DEF Lasting, TypeOK, Reads, Write
<1>2. /\ writes' = writes \cup {w}
      /\ UNCHANGED <<doc, revision, saved, requests, job, completion, ended, bundle, crossed>>
  BY DEF Reads
<1> HIDE DEF w
<1>3. TypeOK'
  BY <1>1, <1>2 DEF Lasting, TypeOK
<1> QED
  BY <1>1, <1>2, <1>3 DEF Lasting, Labelled, Demanded, BoundToSource

LEMMA AskedIsPayload ==
  ASSUME NEW kind \in Kind, NEW seen \in Document, NEW rev \in 1 .. MaxRevision
  PROVE  /\ Asked(kind, seen, rev) \in Payload
         /\ Asked(kind, seen, rev).kind = kind /\ Asked(kind, seen, rev).seen = seen
         /\ Asked(kind, seen, rev).revision = rev
         /\ Asked(kind, seen, rev).prior = NoFiles
         /\ Asked(kind, seen, rev).stage = IF kind = "export" THEN "read" ELSE "built"
  BY DEF Asked, Payload, NoFiles

(* A request on its way keeps what was demanded for it.                    *)
LEMMA BecomesLasting ==
  ASSUME Lasting, NEW p \in requests, NEW q \in Payload, Becomes(p, q),
         q.kind = p.kind, q.seen = p.seen,
         UNCHANGED <<doc, revision, saved, shapes, writes, job, completion, ended, bundle, crossed>>
  PROVE  Lasting'
<1>1. TypeOK'
  BY DEF Lasting, TypeOK, Becomes
<1>2. Demanded(q)
  BY DEF Lasting, Demanded
<1> QED
  BY <1>1, <1>2 DEF Lasting, Becomes, Labelled, Demanded, BoundToSource

(* A result that is published leaves a labelled document.                  *)
LEMMA PublishLasting ==
  ASSUME Lasting, Publish PROVE Lasting'
<1> USE ConversionAssumption
<1>1. PICK out \in Outputs(job) :
        /\ doc' = Patched(completion.read, out)
        /\ shapes' = IF "graph" \in DOMAIN out.patch /\ out.patch.graph.shape > shapes
                     THEN shapes + 1 ELSE shapes
        /\ bundle' = IF job.kind # "export" THEN bundle
                     ELSE [f \in File |-> IF f \in DOMAIN out.files \ {"mesh2param-export.zip"}
                                          THEN out.files[f] ELSE None]
  BY DEF Publish
<1>2. /\ completion.read \in Document /\ Labelled(completion.read)
      /\ completion.revision \in 1 .. MaxRevision - 1
      /\ job \in Payload /\ shapes \in Shape
  BY DEF Publish, Lasting, TypeOK, Reading, HasResult
<1>3. Good(out, job.seen.source)
  BY <1>1, PendingOutputs DEF Publish
<1>4. job.seen.source \in Mesh \cup {None}
  BY <1>2 DEF Payload, Document
<1>5. doc' \in Document /\ Labelled(doc)'
  <2>1. Patched(completion.read, out) \in Document /\ Labelled(Patched(completion.read, out))
    BY <1>2, <1>3, <1>4, PatchedIsDocument
  <2> QED
    BY <1>1, <2>1 DEF Labelled
<1>6. shapes' \in Shape
  <2>1. "graph" \in DOMAIN out.patch => out.patch.graph \in Graph
    BY <1>3 DEF Good, GoodPatch
  <2>2. "graph" \in DOMAIN out.patch => out.patch.graph.shape \in Shape
    BY <2>1 DEF Graph
  <2> QED
    BY <1>1, <1>2, <2>2 DEF Shape
<1>7. bundle' \in [File -> Made \cup {None}]
  BY <1>1, <1>3 DEF Good, Lasting, TypeOK
<1>8. /\ revision' \in 1 .. MaxRevision /\ job' = Idle /\ completion' = Idle
      /\ ended' = "completed" /\ crossed' \in BOOLEAN
      /\ UNCHANGED <<saved, writes, requests>>
  BY <1>2 DEF Publish, End, Overwrites
<1>9. TypeOK'
  BY <1>5, <1>6, <1>7, <1>8 DEF Lasting, TypeOK
<1> QED
  BY <1>5, <1>8, <1>9 DEF Lasting, Labelled, Demanded, BoundToSource

LEMMA CommitLasting ==
  ASSUME Lasting, NEW w \in writes, Commit(w) PROVE Lasting'
<1>1. /\ w \in Write /\ w.next \in Document /\ Labelled(w.next)
      /\ w.revision \in 1 .. MaxRevision - 1
      /\ w.kind = "upload" => w.next.source # None
  BY DEF Lasting, TypeOK, Write
<1> DEFINE q == Asked("upload", w.next, w.revision + 1)
<1>2. w.revision + 1 \in 1 .. MaxRevision
  BY <1>1, ConversionAssumption
<1>3. q \in Payload /\ q.kind = "upload" /\ q.seen = w.next
  BY <1>1, <1>2, AskedIsPayload DEF Kind
<1> HIDE DEF q
<1>4. /\ doc' = w.next /\ revision' = w.revision + 1
      /\ saved' \in {saved, w.next} /\ writes' \subseteq writes
      /\ requests' \subseteq requests \cup {q}
      /\ q \in requests' => q \in requests \/ w.kind = "upload"
      /\ crossed' = (crossed \/ Overwrites(w))
      /\ UNCHANGED <<shapes, job, completion, ended, bundle>>
  BY DEF Commit, q
<1>5. TypeOK'
  BY <1>1, <1>2, <1>3, <1>4 DEF Lasting, TypeOK, Overwrites
<1>6. q \in requests' => Demanded(q)
  BY <1>1, <1>3, <1>4 DEF Lasting, Demanded, Build
<1> QED
  BY <1>1, <1>4, <1>5, <1>6 DEF Lasting, Labelled, Demanded, BoundToSource

LEMMA LastingStep ==
  ASSUME Lasting, [Next]_vars PROVE Lasting'
<1> USE ConversionAssumption
<1>0. /\ doc \in Document /\ Labelled(doc) /\ revision \in 1 .. MaxRevision
      /\ saved # None => saved \in Document /\ Labelled(saved)
      /\ shapes \in Shape
  BY DEF Lasting, TypeOK
<1>1. ASSUME NEW kind \in Kind, Ask(kind) PROVE Lasting'
  <2> DEFINE q == Asked(kind, doc, revision)
  <2>1. q \in Payload /\ q.kind = kind /\ q.seen = doc
    BY <1>0, AskedIsPayload
  <2>2. /\ requests' = requests \cup {q} /\ Accepted(kind, doc)
        /\ UNCHANGED <<doc, revision, saved, shapes, writes, job, completion, ended, bundle,
                       crossed>>
    BY <1>1 DEF Ask
  <2> HIDE DEF q
  <2>3. Demanded(q)
    BY <1>0, <2>1, <2>2 DEF Demanded, Accepted, Build, Mesh
  <2>4. TypeOK'
    BY <2>1, <2>2 DEF Lasting, TypeOK
  <2> QED
    BY <2>2, <2>3, <2>4 DEF Lasting, Labelled, Demanded, BoundToSource
<1>2. ASSUME NEW p \in requests, ListFiles(p) PROVE Lasting'
  <2> DEFINE prior == [f \in File |-> IF f \in Unlisted THEN None ELSE doc.files[f]]
             q == [p EXCEPT !.stage = "built", !.prior = prior]
  <2>1. p \in Payload
    BY DEF Lasting, TypeOK
  <2>2. prior \in [File -> Made \cup {None}]
    BY <1>0 DEF Document
  <2>3. Becomes(p, q)
    BY <1>2 DEF ListFiles
  <2> HIDE DEF prior
  <2>4. q \in Payload /\ q.kind = p.kind /\ q.seen = p.seen
    BY <2>1, <2>2 DEF Payload
  <2> HIDE DEF q
  <2> QED
    BY <1>2, <2>3, <2>4, BecomesLasting DEF ListFiles
<1>3. ASSUME NEW p \in requests, Compare(p) PROVE Lasting'
  <2> DEFINE q == [p EXCEPT !.stage = "compared"]
  <2>1. p \in Payload
    BY DEF Lasting, TypeOK
  <2>2. q \in Payload /\ q.kind = p.kind /\ q.seen = p.seen
    BY <2>1 DEF Payload
  <2>3. Becomes(p, q)
    BY <1>3 DEF Compare
  <2> HIDE DEF q
  <2> QED
    BY <1>3, <2>2, <2>3, BecomesLasting DEF Compare
<1>4. ASSUME NEW p \in requests, CreateJob(p) PROVE Lasting'
  <2>1. TypeOK'
    BY <1>4 DEF CreateJob, Lasting, TypeOK
  <2>2. Demanded(p) /\ p.stage = "compared" /\ job = Idle
    BY <1>4 DEF CreateJob, Lasting
  <2>3. completion = Idle
    BY <2>2 DEF Lasting
  <2>4. /\ job' = p /\ requests' \subseteq requests
        /\ UNCHANGED <<doc, saved, writes, completion>>
    BY <1>4 DEF CreateJob
  <2> QED
    BY <2>1, <2>2, <2>3, <2>4 DEF Lasting, Labelled, Demanded, BoundToSource
<1>5. ASSUME NEW p \in requests, Refuse(p) PROVE Lasting'
  BY <1>5 DEF Refuse, Lasting, TypeOK, Labelled, Demanded, BoundToSource
<1>6. ASSUME NEW s \in Source, Upload(s) PROVE Lasting'
  <2>1. /\ Restarted(doc, s) \in Document /\ Labelled(Restarted(doc, s))
        /\ Restarted(doc, s).source # None
    BY <1>0, RestartedIsFresh DEF Mesh
  <2>2. Reads("upload", Restarted(doc, s)) /\ shapes' = shapes
    BY <1>6 DEF Upload
  <2> QED
    BY <1>0, <2>1, <2>2, ReadsLasting
<1>7. ASSUME NEW s \in Sample, OpenSample(s) PROVE Lasting'
  <2> DEFINE d == [doc EXCEPT !.source = s]
             q == [Asked("sample_open", d, revision) EXCEPT !.stage = "compared"]
  <2>1. d \in Document /\ d.source = s /\ s # None
    BY <1>0 DEF Document, Mesh
  <2> HIDE DEF d
  <2>2. /\ Asked("sample_open", d, revision) \in Payload
        /\ Asked("sample_open", d, revision).kind = "sample_open"
        /\ Asked("sample_open", d, revision).seen = d
    BY <1>0, <2>1, AskedIsPayload DEF Kind
  <2>3. q \in Payload /\ q.kind = "sample_open" /\ q.seen = d /\ q.stage = "compared"
    BY <2>2 DEF Payload
  <2>4. /\ job' = q /\ job = Idle
        /\ UNCHANGED <<doc, revision, saved, shapes, writes, requests, completion, ended, bundle,
                       crossed>>
    BY <1>7 DEF OpenSample, d
  <2> HIDE DEF q
  <2>5. Demanded(q)
    BY <2>1, <2>3 DEF Demanded, Build
  <2>6. TypeOK'
    BY <2>3, <2>4 DEF Lasting, TypeOK
  <2> QED
    BY <2>3, <2>4, <2>5, <2>6 DEF Lasting, Labelled, Demanded, BoundToSource
<1>8. CASE PatchGraph
  <2>1. PICK g \in {doc.graph, IF saved = None THEN None ELSE saved.graph} \ {None} :
          Reads("patch", Edited(doc, g, shapes + 1))
    BY <1>8 DEF PatchGraph, Edited
  <2>2. g \in Graph
    BY <1>0, <2>1 DEF Document
  <2>3. shapes + 1 \in Shape /\ shapes' = shapes + 1
    BY <1>0, <1>8 DEF PatchGraph, Shape
  <2>4. /\ Edited(doc, g, shapes + 1) \in Document
        /\ Labelled(Edited(doc, g, shapes + 1))
    BY <1>0, <2>2, <2>3, EditedIsDocument
  <2> QED
    BY <2>1, <2>3, <2>4, ReadsLasting
<1>9. CASE CreateVersion
  BY <1>0, <1>9, ReadsLasting DEF CreateVersion
<1>10. CASE RestoreVersion
  BY <1>0, <1>10, ReadsLasting DEF RestoreVersion
<1>11. ASSUME NEW w \in writes, Commit(w) PROVE Lasting'
  BY <1>11, CommitLasting
<1>12. CASE CompareForCompletion
  <2>1. TypeOK'
    <3>1. [read |-> doc, revision |-> revision] \in Reading
      BY <1>0, <1>12 DEF CompareForCompletion, Reading
    <3> QED
      BY <1>12, <3>1 DEF CompareForCompletion, Lasting, TypeOK
  <2> QED
    BY <1>0, <1>12, <2>1 DEF CompareForCompletion, HasResult, Lasting, Labelled, Demanded,
       BoundToSource
<1>13. CASE Conflict \/ PublicationFails \/ JobFails
  BY <1>13 DEF Conflict, PublicationFails, JobFails, End, Lasting, TypeOK, Labelled, Demanded,
     BoundToSource
<1>14. CASE UNCHANGED vars
  BY <1>14 DEF vars, Lasting, TypeOK, Labelled, Demanded, BoundToSource
<1> QED
  BY <1>1, <1>2, <1>3, <1>4, <1>5, <1>6, <1>7, <1>8, <1>9, <1>10, <1>11, <1>12, <1>13, <1>14,
     PublishLasting DEF Next

-----------------------------------------------------------------------------
(* The steps up to the first crossing.                                     *)

(* Of two revisions, what was a snapshot of the earlier is none of the     *)
(* later.                                                                  *)
LEMMA OlderSnapshot ==
  ASSUME NEW p, Snapshot(p), p.revision \in Nat, revision \in Nat, revision' = revision + 1
  PROVE  Snapshot(p)'
  BY DEF Snapshot

LEMMA SameSnapshot ==
  ASSUME NEW p, Snapshot(p), UNCHANGED <<doc, revision>> PROVE Snapshot(p)'
  BY DEF Snapshot

(* A request that becomes another of the same document.                    *)
LEMMA BecomesCurrent ==
  ASSUME Current, NEW p, NEW q, Becomes(p, q), Snapshot(q),
         UNCHANGED <<doc, revision, saved, writes, job, completion>>
  PROVE  Current'
<1>1. \A r \in requests : Snapshot(r)'
  BY SameSnapshot DEF Current
<1>2. job # Idle => Snapshot(job)'
  <2>1. PICK j : j = job
    OBVIOUS
  <2>2. job # Idle => Snapshot(j)'
    BY <2>1, SameSnapshot DEF Current
  <2> QED
    BY <2>1, <2>2
<1>3. Snapshot(q)'
  BY SameSnapshot
<1>4. \A r \in requests' : Snapshot(r)'
  BY <1>1, <1>3 DEF Becomes
<1>5. job' # Idle => Snapshot(job)'
  BY <1>2
<1> QED
  BY <1>4, <1>5 DEF Current, OfSource, Saw, PriorOf

(* A commit on the document that was read: every older request is of an    *)
(* earlier revision.                                                       *)
LEMMA CommitCurrent ==
  ASSUME Lasting, Current, revision' = revision + 1, job' \in {job, Idle},
         OfSource(doc)', saved' \in {saved, doc'}, writes' \subseteq writes,
         \A p \in requests' : p \in requests \/ Snapshot(p)',
         completion' = IF job' = Idle THEN Idle ELSE completion
  PROVE  Current'
<1>1. revision \in Nat /\ revision >= 1
  BY ConversionAssumption DEF Lasting, TypeOK
<1>2. /\ \A p \in requests : p.revision \in Nat
      /\ job # Idle => job.revision \in Nat
  BY DEF Lasting, TypeOK, Payload
<1>3. \A p \in requests' : Snapshot(p)'
  BY <1>1, <1>2, OlderSnapshot DEF Current
<1>4. job' # Idle => Snapshot(job)'
  <2>1. PICK j : j = job
    OBVIOUS
  <2>2. job # Idle => Snapshot(j)'
    BY <1>1, <1>2, <2>1, OlderSnapshot DEF Current
  <2> QED
    BY <2>1, <2>2
<1>5. completion' # Idle =>
        (completion.revision = job.revision /\ Saw(job, completion.read))'
  BY DEF Current, Saw, PriorOf
<1>6. saved' # None => OfSource(saved)'
  BY DEF Current, OfSource
<1> QED
  BY <1>1, <1>3, <1>4, <1>5, <1>6 DEF Current, OfSource

(* A result that is published on the document it was computed from leaves  *)
(* a document of one source.                                               *)
LEMMA PublishedIsOfSource ==
  ASSUME Lasting, Current, Publish, ~Overwrites(completion)
  PROVE  OfSource(doc)' /\ revision' = revision + 1
<1> USE ConversionAssumption
<1>1. PICK out \in Outputs(job) : doc' = Patched(completion.read, out)
  BY DEF Publish
<1>2. /\ completion # Idle /\ completion.read = doc /\ completion.revision = revision
      /\ job # Idle /\ job.revision = revision /\ job.stage = "compared"
      /\ Saw(job, doc) /\ Snapshot(job) /\ revision' = revision + 1
  BY DEF Publish, Overwrites, Lasting, Current
<1>3. doc \in Document /\ OfSource(doc) /\ job \in Payload
  BY <1>2 DEF Lasting, Current, TypeOK
<1>4. Good(out, job.seen.source)
  BY <1>1, PendingOutputs DEF Publish
<1>5. CASE job.kind # "sample_open"
  <2>1. job.seen = doc /\ job.prior = PriorOf(job, doc)
    BY <1>2, <1>5 DEF Saw
  <2>2. \A f \in File : job.prior[f] \in {None, doc.files[f]}
    BY <2>1 DEF PriorOf, NoFiles
  <2>3. FilesOf(out, job.seen.source)
    BY <1>1, <1>3, <2>1, <2>2, PendingOutputs DEF Publish, OfSource
  <2> QED
    BY <1>1, <1>2, <1>3, <1>4, <2>1, <2>3, PatchedIsOfSource DEF OfSource
<1>6. CASE job.kind = "sample_open"
  <2>1. doc = Fresh
    BY <1>2, <1>6 DEF Snapshot, Current
  <2>2. "source" \in DOMAIN out.patch
    BY <1>1, <1>6 DEF Outputs, SampleOutput, Output
  <2>3. job.prior = NoFiles
    BY <1>2, <1>6 DEF Saw, PriorOf
  <2>4. FilesOf(out, job.seen.source)
    BY <1>1, <2>3, PendingOutputs DEF Publish, NoFiles
  <2> QED
    BY <1>1, <1>2, <1>3, <1>4, <2>1, <2>2, <2>4, PatchedIsOfSource DEF OfSource
<1> QED
  BY <1>2, <1>5, <1>6

LEMMA CurrentStep ==
  ASSUME Lasting, Current, ~crossed', [Next]_vars PROVE Current'
<1> USE ConversionAssumption
<1>0. /\ doc \in Document /\ OfSource(doc) /\ revision \in 1 .. MaxRevision /\ revision \in Nat
      /\ shapes \in Shape
      /\ \A p \in requests : p \in Payload /\ Snapshot(p)
  BY DEF Lasting, TypeOK, Current
(* The steps that leave the document.                                      *)
<1>1. ASSUME UNCHANGED <<doc, revision, saved>>,
             \A w \in writes' : w \in writes \/ OfSource(w.next),
             \A p \in requests' : p \in requests \/ Snapshot(p),
             job' # Idle => job' = job \/ Snapshot(job'),
             completion' # Idle => /\ completion' = completion \/ completion'.revision = job.revision
                                   /\ completion' = completion \/ Saw(job, completion'.read)
                                   /\ job' = job
      PROVE  Current'
  <2>1. \A p \in requests' : Snapshot(p)'
    BY <1>1, SameSnapshot DEF Current
  <2>2. job' # Idle => Snapshot(job)'
    <3>1. PICK j : j = job'
      OBVIOUS
    <3>2. j # Idle => Snapshot(j)'
      BY <1>1, <3>1, SameSnapshot DEF Current
    <3> QED
      BY <3>1, <3>2
  <2>3. completion' # Idle => (completion.revision = job.revision /\ Saw(job, completion.read))'
    BY <1>1 DEF Current, Saw, PriorOf
  <2>4. \A w \in writes' : OfSource(w.next)'
    BY <1>1 DEF Current, OfSource
  <2> QED
    BY <1>1, <2>1, <2>2, <2>3, <2>4 DEF Current, OfSource
<1>2. ASSUME NEW kind \in Kind, Ask(kind) PROVE Current'
  <2> DEFINE q == Asked(kind, doc, revision)
  <2>1. /\ q.kind = kind /\ q.seen = doc /\ q.revision = revision
        /\ q.prior = NoFiles /\ q.stage = IF kind = "export" THEN "read" ELSE "built"
    BY <1>0, AskedIsPayload
  <2>2. requests' = requests \cup {q} /\ Accepted(kind, doc)
    BY <1>2 DEF Ask
  <2> HIDE DEF q
  <2>3. kind # "sample_open"
    BY <2>2 DEF Accepted, Build
  <2>4. Snapshot(q)
    BY <1>0, <2>1, <2>3 DEF Snapshot, Saw, PriorOf
  <2> QED
    BY <1>1, <1>2, <2>2, <2>4 DEF Ask
<1>3. ASSUME NEW p \in requests, ListFiles(p) PROVE Current'
  <2> DEFINE prior == [f \in File |-> IF f \in Unlisted THEN None ELSE doc.files[f]]
             q == [p EXCEPT !.stage = "built", !.prior = prior]
  <2>1. Becomes(p, q) /\ p.stage = "read"
    BY <1>3 DEF ListFiles
  <2>2. p.kind = "export"
    BY <1>0, <2>1 DEF Snapshot
  <2>3. prior = PriorOf(p, doc)
    BY <2>2 DEF PriorOf
  <2> HIDE DEF prior
  <2>4. /\ q.kind = p.kind /\ q.seen = p.seen /\ q.revision = p.revision
        /\ q.prior = prior /\ q.stage = "built"
    BY <1>0 DEF Payload
  <2> HIDE DEF q
  <2>5. Snapshot(q)
    BY <1>0, <2>2, <2>3, <2>4 DEF Snapshot, Saw, PriorOf
  <2> QED
    BY <1>3, <2>1, <2>5, BecomesCurrent DEF ListFiles
<1>4. ASSUME NEW p \in requests, Compare(p) PROVE Current'
  <2> DEFINE q == [p EXCEPT !.stage = "compared"]
  <2>1. Becomes(p, q) /\ p.stage = "built"
    BY <1>4 DEF Compare
  <2>2. /\ q.kind = p.kind /\ q.seen = p.seen /\ q.revision = p.revision
        /\ q.prior = p.prior /\ q.stage = "compared"
    BY <1>0 DEF Payload
  <2> HIDE DEF q
  <2>3. Snapshot(q)
    BY <1>0, <2>1, <2>2 DEF Snapshot, Saw, PriorOf
  <2> QED
    BY <1>4, <2>1, <2>3, BecomesCurrent DEF Compare
<1>5. ASSUME NEW p \in requests, CreateJob(p) PROVE Current'
  <2>1. completion = Idle /\ completion' = Idle /\ job' = p
    BY <1>5 DEF CreateJob, Lasting
  <2> QED
    BY <1>0, <1>1, <1>5, <2>1 DEF CreateJob
<1>6. ASSUME NEW p \in requests, Refuse(p) PROVE Current'
  BY <1>1, <1>6 DEF Refuse
<1>7. ASSUME NEW kind, NEW next, OfSource(next), Reads(kind, next) PROVE Current'
  BY <1>1, <1>7 DEF Reads
<1>8. ASSUME NEW s \in Source, Upload(s) PROVE Current'
  <2>1. OfSource(Restarted(doc, s))
    BY <1>0, RestartedIsFresh DEF Mesh
  <2> QED
    BY <1>7, <1>8, <2>1 DEF Upload
<1>9. ASSUME NEW s \in Sample, OpenSample(s) PROVE Current'
  <2> DEFINE d == [doc EXCEPT !.source = s]
             q == [Asked("sample_open", d, revision) EXCEPT !.stage = "compared"]
  <2>1. d \in Document
    BY <1>0 DEF Document, Mesh
  <2> HIDE DEF d
  <2>2. LET a == Asked("sample_open", d, revision)
        IN  a \in Payload /\ a.kind = "sample_open" /\ a.revision = revision /\ a.prior = NoFiles
    BY <1>0, <2>1, AskedIsPayload DEF Kind
  <2>3. /\ q.kind = "sample_open" /\ q.revision = revision /\ q.prior = NoFiles
        /\ q.stage = "compared"
    BY <2>2 DEF Payload
  <2>4. /\ job' = q /\ job = Idle /\ revision = 1
        /\ UNCHANGED <<doc, revision, saved, writes, requests, completion>>
    BY <1>9 DEF OpenSample, d
  <2> HIDE DEF q
  <2>5. Snapshot(q)
    BY <1>0, <2>3, <2>4 DEF Snapshot, Saw, PriorOf
  <2>6. completion' = Idle
    BY <2>4 DEF Lasting
  <2> QED
    BY <1>1, <2>4, <2>5, <2>6
<1>10. CASE PatchGraph
  <2>1. PICK g \in {doc.graph, IF saved = None THEN None ELSE saved.graph} \ {None} :
          Reads("patch", Edited(doc, g, shapes + 1))
    BY <1>10 DEF PatchGraph, Edited
  <2>2. g \in Graph
    BY <1>0, <2>1 DEF Document, Lasting, TypeOK
  <2>3. shapes + 1 \in Shape
    BY <1>0, <1>10 DEF PatchGraph, Shape
  <2>4. OfSource(Edited(doc, g, shapes + 1))
    BY <1>0, <2>2, <2>3, EditedIsDocument
  <2> QED
    BY <1>7, <2>1, <2>4
<1>11. CASE CreateVersion
  BY <1>0, <1>7, <1>11 DEF CreateVersion
<1>12. CASE RestoreVersion
  BY <1>7, <1>12 DEF RestoreVersion, Current
<1>13. ASSUME NEW w \in writes, Commit(w) PROVE Current'
  <2> DEFINE q == Asked("upload", w.next, w.revision + 1)
  <2>1. w.revision = revision /\ doc' = w.next /\ revision' = revision + 1
    BY <1>13 DEF Commit, Overwrites
  <2>2. w.next \in Document /\ w.revision + 1 \in 1 .. MaxRevision
    <3>1. w \in Write
      BY DEF Lasting, TypeOK
    <3> QED
      BY <3>1 DEF Write
  <2>3. /\ q.kind = "upload" /\ q.seen = w.next /\ q.revision = w.revision + 1
        /\ q.prior = NoFiles /\ q.stage = "built"
    BY <2>2, AskedIsPayload DEF Kind
  <2>4. /\ requests' \subseteq requests \cup {q} /\ writes' \subseteq writes
        /\ saved' \in {saved, w.next} /\ job' = job /\ completion' = completion
    BY <1>13 DEF Commit
  <2> HIDE DEF q
  <2>5. Snapshot(q)'
    BY <1>0, <2>1, <2>3 DEF Snapshot, Saw, PriorOf
  <2>6. OfSource(doc)'
    BY <2>1 DEF Current, OfSource
  <2>7. completion' = IF job' = Idle THEN Idle ELSE completion
    BY <2>4 DEF Lasting
  <2> QED
    BY <2>1, <2>4, <2>5, <2>6, <2>7, CommitCurrent
<1>14. CASE CompareForCompletion
  <2>1. job # Idle /\ job.revision = revision /\ Snapshot(job) /\ job.stage = "compared"
    BY <1>14 DEF CompareForCompletion, HasResult, SameRevision, Lasting, Current
  <2>2. Saw(job, doc)
    BY <2>1 DEF Snapshot
  <2>3. /\ completion'.revision = job.revision /\ Saw(job, completion'.read)
        /\ UNCHANGED <<doc, revision, saved, writes, requests, job>>
    BY <1>14, <2>1, <2>2 DEF CompareForCompletion
  <2> QED
    BY <1>1, <2>3
<1>15. CASE Publish
  <2>1. ~Overwrites(completion)
    BY <1>15 DEF Publish
  <2>2. OfSource(doc)' /\ revision' = revision + 1
    BY <1>15, <2>1, PublishedIsOfSource
  <2> QED
    BY <1>15, <2>2, CommitCurrent DEF Publish, End
<1>16. CASE Conflict \/ PublicationFails \/ JobFails
  BY <1>1, <1>16 DEF Conflict, PublicationFails, JobFails, End
<1>17. CASE UNCHANGED vars
  BY <1>1, <1>17 DEF vars
<1> QED
  BY <1>2, <1>3, <1>4, <1>5, <1>6, <1>8, <1>9, <1>10, <1>11, <1>12, <1>13, <1>14, <1>15,
     <1>16, <1>17 DEF Next

-----------------------------------------------------------------------------
(* The theorems.                                                           *)

LEMMA ConversionInit == Init => ConversionInv
<1> SUFFICES ASSUME Init PROVE ConversionInv
  OBVIOUS
<1> USE ConversionAssumption
<1>1. /\ doc = Fresh /\ revision = 1 /\ saved = None /\ shapes = 0 /\ writes = {}
      /\ requests = {} /\ job = Idle /\ completion = Idle /\ ended = "none"
      /\ bundle = NoFiles /\ crossed = FALSE
  BY DEF Init, Fresh
<1>2. NoFiles \in [File -> Made \cup {None}]
  BY DEF NoFiles
<1>3. Fresh \in Document
  BY <1>2 DEF Fresh, Document
<1>4. Labelled(Fresh) /\ OfSource(Fresh)
  BY DEF OfSource, Labelled, Fresh, Evidence, NoFiles
<1>5. TypeOK
  <2>1. doc \in Document /\ saved \in Document \cup {None}
    BY <1>1, <1>3
  <2>2. revision \in 1 .. MaxRevision /\ shapes \in Shape
    BY <1>1 DEF Shape
  <2>3. bundle \in [File -> Made \cup {None}] /\ crossed \in BOOLEAN
    BY <1>1, <1>2
  <2> QED
    BY <1>1, <2>1, <2>2, <2>3 DEF TypeOK
<1>6. Lasting
  BY <1>1, <1>4, <1>5 DEF Lasting
<1>7. Current
  BY <1>1, <1>4 DEF Current
<1> QED
  BY <1>6, <1>7 DEF ConversionInv

(* Once crossed, always crossed.                                           *)
LEMMA CrossedStays == ASSUME [Next]_vars, crossed PROVE crossed'
  BY DEF Next, Ask, ListFiles, Compare, CreateJob, Refuse, Upload, OpenSample, PatchGraph,
     CreateVersion, RestoreVersion, Reads, Commit, CompareForCompletion, Publish, Conflict,
     PublicationFails, JobFails, End, vars

LEMMA ConversionStep == ConversionInv /\ [Next]_vars => ConversionInv'
<1> SUFFICES ASSUME ConversionInv, [Next]_vars PROVE ConversionInv'
  OBVIOUS
<1>1. Lasting'
  BY LastingStep DEF ConversionInv
<1>2. ~crossed' => Current'
  BY CrossedStays, CurrentStep DEF ConversionInv
<1> QED
  BY <1>1, <1>2 DEF ConversionInv

LEMMA ConversionInvariance == Spec => []ConversionInv
  BY ConversionInit, ConversionStep, PTL DEF Spec

(* Documents, payloads and bundles keep their types: what a handler returns*)
(* and what a client patches are documents again.                          *)
THEOREM ConversionTypes == Spec => []TypeOK
<1>1. ConversionInv => TypeOK
  BY DEF ConversionInv, Lasting
<1> QED
  BY <1>1, ConversionInvariance, PTL

(* Every piece of evidence and every file of the current set was made from *)
(* the current source, for any number of requests under way, until a       *)
(* commit replaces another document than the one it had read.              *)
THEOREM EvidenceIsOfSourceHolds == Spec => []EvidenceIsOfSource
<1>1. ConversionInv => EvidenceIsOfSource
  BY DEF ConversionInv, Current, OfSource, EvidenceIsOfSource
<1> QED
  BY <1>1, ConversionInvariance, PTL

(* A label that says more than not-run is about the current geometry,      *)
(* whatever crosses.                                                       *)
THEOREM LabelIsOfGraphHolds == Spec => []LabelIsOfGraph
<1>1. ConversionInv => LabelIsOfGraph
  BY DEF ConversionInv, Lasting, Labelled, LabelIsOfGraph
<1> QED
  BY <1>1, ConversionInvariance, PTL

(* A job that compiles a faceted feature has the mesh it was made from,    *)
(* whatever crosses.                                                       *)
THEOREM FacetsHaveTheirMeshHolds == Spec => []FacetsHaveTheirMesh
<1>1. ConversionInv => FacetsHaveTheirMesh
  BY DEF ConversionInv, Lasting, Demanded, BoundToSource, FacetsHaveTheirMesh
<1> QED
  BY <1>1, ConversionInvariance, PTL

(* Only Publish ends a job as completed: every other step that ends one    *)
(* names another end, and no other step that leaves "ended" clears the job.*)
LEMMA CompletedByPublish ==
  ASSUME Next, ended' = "completed", job # Idle, job' = Idle PROVE Publish
  BY DEF Next, Ask, ListFiles, Compare, CreateJob, Refuse, Upload, OpenSample, PatchGraph,
     CreateVersion, RestoreVersion, Reads, Commit, CompareForCompletion, Conflict,
     PublicationFails, JobFails, End

Unstale ==
  ended' = "completed" /\ job # Idle /\ job' = Idle /\ job.kind # "sample_open" /\ ~crossed'
    => job.seen = doc

(* A result is put into the document it was computed from, and replaces    *)
(* that document and no other, for any number of requests under way, until *)
(* a commit replaces another document than the one it had read.            *)
THEOREM NothingStaleIsPublishedHolds == Spec => NothingStaleIsPublished
<1>1. ASSUME ConversionInv, Next PROVE Unstale
  <2> SUFFICES ASSUME ended' = "completed", job # Idle, job' = Idle,
                      job.kind # "sample_open", ~crossed'
               PROVE  job.seen = doc
    BY DEF Unstale
  <2>1. Publish
    BY <1>1, CompletedByPublish
  <2>2. ~crossed /\ completion # Idle /\ ~Overwrites(completion)
    BY <2>1 DEF Publish
  <2>3. completion.read = doc /\ Saw(job, completion.read)
    BY <1>1, <2>2 DEF Overwrites, ConversionInv, Current
  <2> QED
    BY <2>3 DEF Saw
<1>2. ConversionInv /\ [Next]_vars => [Unstale]_vars
  BY <1>1
<1>3. Spec => [][Unstale]_vars
  BY <1>2, ConversionInvariance, PTL DEF Spec
<1> QED
  BY <1>3 DEF NothingStaleIsPublished, Unstale

Bundled ==
  job # Idle /\ job' = Idle /\ ended' = "completed" /\ job.kind = "export" /\ ~crossed
    => \A f \in File \ {"mesh2param-export.zip"} : bundle'[f] = doc'.files[f]

(* The zip of an export has the files of the set published with it, also   *)
(* when this publication is the first commit that replaces another         *)
(* document than the one it had read.                                      *)
THEOREM BundleIsTheSetHolds == Spec => BundleIsTheSet
<1>1. ASSUME ConversionInv, Next PROVE Bundled
  <2> SUFFICES ASSUME ended' = "completed", job # Idle, job' = Idle, job.kind = "export",
                      ~crossed, NEW f \in File \ {"mesh2param-export.zip"}
               PROVE  bundle'[f] = doc'.files[f]
    BY DEF Bundled
  <2>1. Publish
    BY <1>1, CompletedByPublish
  <2>2. PICK out \in Outputs(job) :
          /\ doc' = Patched(completion.read, out)
          /\ bundle' = [g \in File |-> IF g \in DOMAIN out.files \ {"mesh2param-export.zip"}
                                       THEN out.files[g] ELSE None]
    BY <2>1 DEF Publish
  <2>3. out = BuildOutput(job, job.seen.graph.fits)
    BY <2>2 DEF Outputs
  <2>4. /\ completion # Idle /\ completion.read \in Document
        /\ job.prior = PriorOf(job, completion.read)
    BY <1>1, <2>1 DEF Publish, ConversionInv, Current, Saw, Lasting, TypeOK, Reading
  <2>5. doc'.files[f] = IF f \in DOMAIN out.files THEN out.files[f] ELSE completion.read.files[f]
    <3>1. doc'.files = [g \in File |-> IF g \in DOMAIN out.files THEN out.files[g]
                                      ELSE completion.read.files[g]]
      BY <2>2, <2>4, PatchedFields
    <3> QED
      BY <3>1
  <2>6. CASE f \in DOMAIN out.files
    BY <2>2, <2>5, <2>6
  <2>7. CASE f \notin DOMAIN out.files
    <3>1. f \notin Unlisted /\ job.prior[f] = None
      BY <2>3, <2>7 DEF BuildOutput, Unlisted
    <3>2. completion.read.files[f] = None
      BY <2>4, <3>1 DEF PriorOf
    <3> QED
      BY <2>2, <2>5, <2>7, <3>2
  <2> QED
    BY <2>6, <2>7
<1>2. ConversionInv /\ [Next]_vars => [Bundled]_vars
  BY <1>1
<1>3. Spec => [][Bundled]_vars
  BY <1>2, ConversionInvariance, PTL DEF Spec
<1> QED
  BY <1>3 DEF BundleIsTheSet, Bundled
=============================================================================
