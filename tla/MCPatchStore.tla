---------------------------- MODULE MCPatchStore ----------------------------
(***************************************************************************)
(* A small instance of PatchStore: a file the converter writes, and one it *)
(* may come to write that the agent made first.                            *)
(***************************************************************************)
EXTENDS PatchStore, TLC

CONSTANTS phases, helper,   \* files
          top, end          \* hunks

Text(x, y) == [h \in Hunks |-> IF h = top THEN x ELSE y]
Two(f, g) == [file \in Files |-> IF file = phases THEN f ELSE g]

\* The converter's output before and after its sources changed.
MCOutputs == {Two(Text(0, 0), Absent), Two(Text(2, 0), Text(0, 0))}

\* One hunk of the one file, the other file, or a change of both.
MCMakes(t) ==
  (IF t[phases] = Absent THEN {}
   ELSE {[t EXCEPT ![phases][top] = 2], [t EXCEPT ![phases][end] = 1],
         [t EXCEPT ![phases][top] = 1, ![helper] = Text(1, 0)]})
  \cup {[t EXCEPT ![helper] = Text(1, 0)]}

=============================================================================
