--------------------------- MODULE MCProjectFiles ---------------------------
(* Contents that can all be stored and are of one size: the history run      *)
(* covers the others.  A legacy file may be there before the first start.    *)
EXTENDS ProjectFiles, FiniteSets, TLC

CONSTANTS older, old, new

MCBytes == [content \in Contents |-> 1]

\* Loading turns both old contents into new, and marks the older one.
MCMigrated == [content \in Contents |-> new]
MCFirstFiles == [id : Ids, content : Storable \ {new}]

Symmetry == Permutations(Ids) \cup Permutations(Paths)

\* Several crashes and failed writes, or else a second project or a second file.  Nobody
\* makes the older content any more.
Bound ==
  LET stored == {f \in Paths : files[f] # NoFile}
      aged == {f \in stored : files[f].content = older}
  IN /\ IsOpen => project.content # older
     /\ \/ /\ crashes + faults <= 2
           /\ Cardinality(known) <= 1 /\ Cardinality(stored) <= 1
        \/ /\ crashes + faults = 0 /\ autosaves <= 1
           /\ Cardinality(known) + Cardinality(stored) <= 3 /\ aged = {}
=============================================================================
