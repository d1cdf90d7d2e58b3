--------------------------- MODULE MCKernelInstall ---------------------------
(* The instance of KernelInstall for TLC: version 2 may come bundled, with  *)
(* or without its version.txt, and version 4, which compares with no other. *)
EXTENDS KernelInstall, TLC

CONSTANTS j1, j2
Symmetry == Permutations({j1, j2})
MCBundles == {[file |-> 0, label |-> 0], [file |-> 2, label |-> 2], [file |-> 2, label |-> 0],
              [file |-> 4, label |-> 4]}
=============================================================================
