----------------------- MODULE MCWorkspaceConfiguration -----------------------
(* Finite instances of WorkspaceConfiguration; the values, the images and the *)
(* modules are interchangeable.                                               *)
EXTENDS WorkspaceConfiguration, TLC

Interchangeable == Permutations(Values) \cup Permutations(Images)
                     \cup Permutations(Modules)
=============================================================================
