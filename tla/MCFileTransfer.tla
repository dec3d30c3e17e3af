---------------------------- MODULE MCFileTransfer ----------------------------
(***************************************************************************)
(* FileTransfer for TLC: apps may be exchanged with each other, and the    *)
(* two types too; where files cannot be written every app gives a checksum.*)
(***************************************************************************)
EXTENDS FileTransfer, TLC

Symmetry == Permutations(App) \cup Permutations(Type)

\* Bound: what is not checked on a disk that fails.
SumsOnBadDisk == disk = "bad" => \A a \in App : upload[a].sum # "none"
==============================================================================
