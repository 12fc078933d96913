-------------------------- MODULE MCProjectHistory --------------------------
(* One project, a small and a large content, and one that cannot be stored:  *)
(* the byte limit holds two large snapshots with a small one.               *)
EXTENDS ProjectHistory

MCContents == {"small", "large", "unstorable"}
MCStorable == {"small", "large"}
MCBytes == [content \in MCContents |-> IF content = "large" THEN 2 ELSE 1]
=============================================================================
