--------------------------- MODULE MCCompilation ---------------------------
(* Graphs of up to three features on a line of a few cells.                *)
EXTENDS Compilation

Base(d)   == [Feature EXCEPT !.distance = d]
Boss      == [Feature EXCEPT !.mode = "additive", !.at = 3, !.distance = 2]
Cut       == [Feature EXCEPT !.op = "pocket", !.at = 3, !.dir = -1, !.distance = 1]

MCMenu ==
  { [Base(3) EXCEPT !.declares = "top", !.required = TRUE],
    [Base(2) EXCEPT !.at = 1, !.extent = "symmetric", !.declares = "second", !.kind = "edge"],
    [Base(3) EXCEPT !.op = "revolution", !.declares = "bottom", !.suppressed = TRUE],
    [Base(3) EXCEPT !.op = "imported", !.declares = "result", !.kind = "solid"],
    [Base(3) EXCEPT !.op = "network"],
    Boss,
    [Boss EXCEPT !.suppressed = TRUE],
    [Boss EXCEPT !.op = "imported", !.declares = "result", !.required = TRUE],
    [Boss EXCEPT !.at = 1, !.extent = "toFace", !.target = <<1, "declared">>],
    Cut,
    [Cut EXCEPT !.extent = "toFace", !.target = <<1, "face", 1>>],
    [Cut EXCEPT !.extent = "throughAll"],
    [Cut EXCEPT !.op = "hole", !.declares = "top"],
    [Cut EXCEPT !.op = "hole", !.at = 0, !.dir = 1, !.distance = 1],
    [Feature EXCEPT !.op = "pattern", !.sources = {2}, !.shift = -1],
    [Feature EXCEPT !.op = "pattern", !.sources = {1, 2}, !.shift = 1],
    [Feature EXCEPT !.op = "mirror", !.sources = {1}, !.at = 3, !.keep = FALSE],
    [Feature EXCEPT !.op = "mirror", !.sources = {2}, !.at = 1, !.keep = FALSE],
    [Feature EXCEPT !.op = "mirror", !.sources = {1}, !.at = 3],
    [Feature EXCEPT !.op = "finish", !.target = <<1, "edge", 2>>],
    [Feature EXCEPT !.op = "finish", !.target = <<1, "declared">>] }
=============================================================================
