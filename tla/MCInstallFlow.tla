--------------------------- MODULE MCInstallFlow ---------------------------
(***************************************************************************)
(* InstallFlow for TLC: clusters of the same kind, valid answers and flags *)
(* are interchangeable.                                                    *)
(***************************************************************************)
EXTENDS InstallFlow, TLC

Symmetry == Permutations(Clusters \ (Failing \cup Blocked))
            \cup Permutations(Answers \ Invalid)
            \cup Permutations(Flags)

============================================================================
