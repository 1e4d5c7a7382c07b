------------------------ MODULE CompilationContract ------------------------
(***************************************************************************)
(* What the compilation of a graph promises the editor that shows its      *)
(* result: each feature happens at once or not at all.  A feature changes  *)
(* the material the way its mode says, names something of its own, and     *)
(* leaves every earlier name where it was or loses it; the first that      *)
(* cannot be built ends the compilation and leaves no trace.               *)
(***************************************************************************)
EXTENDS Naturals

CONSTANT Lost  \* what a name means whose face or edge is gone

VARIABLES
  done,   \* the number of features behind
  over,   \* a feature could not be built
  solid,  \* the material
  prior,  \* the material before the last feature
  last,   \* the mode of the last feature
  named   \* id -> the place of what it names, or Lost

Modes == {"base", "additive", "subtractive"}

Init ==
  /\ done = 0
  /\ over = FALSE
  /\ solid = {} /\ prior = {}
  /\ last = "none"
  /\ named = [id \in {} |-> Lost]

(* A boss adds some material and takes none away, a cut takes some away and*)
(* adds none, a base is the first material of its solid.                   *)
Follows(mode, old, new) ==
  /\ mode = "additive" => old \subseteq new /\ old # new
  /\ mode = "subtractive" => new \subseteq old /\ old # new
  /\ mode = "base" => old = {}

(* A mirror may stand in the place of the feature right before it.         *)
Replaces(mode, new) ==
  /\ mode = last
  /\ mode # "base" => Follows(mode, prior, new)

(* An id starts with the number of the feature that introduces it.         *)
NamesSurvive ==
  /\ DOMAIN named \subseteq DOMAIN named'
  /\ \A id \in DOMAIN named : named'[id] \in {named[id], Lost}
NamesItsOwn ==
  LET new == DOMAIN named' \ DOMAIN named
  IN  new # {} /\ \A id \in new : id[1] = done'

Compile(mode) ==
  /\ ~over
  /\ done' = done + 1
  /\ Follows(mode, solid, solid') \/ Replaces(mode, solid')
  /\ solid' # {}
  /\ prior' = solid
  /\ last' = mode
  /\ NamesSurvive /\ NamesItsOwn
  /\ UNCHANGED over

Suppress ==
  /\ ~over
  /\ done' = done + 1
  /\ UNCHANGED <<over, solid, prior, last, named>>

Stop ==
  /\ ~over
  /\ over' = TRUE
  /\ UNCHANGED <<done, solid, prior, last, named>>

Next == Suppress \/ Stop \/ \E mode \in Modes : Compile(mode)
contractVars == <<done, over, solid, prior, last, named>>
Spec == Init /\ [][Next]_contractVars
=============================================================================
