-------------------------- MODULE MCDirectoryTraversal --------------------------
(* A small tree of lists: files before and after directories, an empty        *)
(* directory, one with a single file, one with a file and a directory that    *)
(* may be passed over, a list which holds directories only, and one that is   *)
(* too deep to be entered from the root.                                      *)
EXTENDS DirectoryTraversal

CONSTANTS A, B, C, D, E, F, G

MCEntries ==
    A :> <<File, B, File>> @@ B :> <<G, D, C, E>> @@ C :> <<File, F>> @@ D :> <<>> @@
    E :> <<File>> @@ F :> <<File, File>> @@ G :> <<File, File>>
=============================================================================
