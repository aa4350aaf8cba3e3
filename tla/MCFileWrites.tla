---------------------------- MODULE MCFileWrites ----------------------------
(***************************************************************************)
(* An instance of FileWrites with two paths: "f", and its backup "f.bak".  *)
(* Callers are interchangeable: no definition orders or names them.        *)
(***************************************************************************)
EXTENDS FileWrites, TLC

Paths == {"f", "f.bak"}
Backups == [p \in Paths |-> IF p = "f" THEN "f.bak" ELSE "f"]
Symmetry == Permutations(Caller)

=============================================================================
