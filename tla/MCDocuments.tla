------------------------------ MODULE MCDocuments ------------------------------
(* Documents for TLC: requests, uploads, verdicts, types and keys are alike.       *)
EXTENDS Documents, TLC

Symmetry == Permutations(Request) \cup Permutations(Upload)
            \cup Permutations(Scan) \cup Permutations(DocType)
            \cup Permutations(Key)
================================================================================
