----------------------------- MODULE MCWorkspace ----------------------------
(* A history of two entries, three revisions, and two graph updates on     *)
(* their way at a time.  Two small entries fit in the history; a larger    *)
(* one leaves no room for those before it, and one of three not for itself.*)
EXTENDS Workspace

MCSize(entry) == ((entry.after + 1) % 3) + 1
=============================================================================
