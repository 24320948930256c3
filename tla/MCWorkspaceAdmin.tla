--------------------------- MODULE MCWorkspaceAdmin ---------------------------
(* WorkspaceAdmin with a repository that has a main working tree, a linked  *)
(* worktree of it whose Git directory lies below the main one, and a clone  *)
(* Git does not know to be related, and a checkout of another repository.   *)
EXTENDS WorkspaceAdmin

CONSTANTS alpha, beta, main, worktree, clone, other, git

MCIdentityOf == [p \in Checkouts |-> IF p = other THEN beta ELSE alpha]

MCLinked == [p \in Checkouts |->
    IF p \in {main, worktree} THEN {main, worktree} ELSE {}]

(* Path, mode, and the base the path lies below.                            *)
MCAdministrative == [p \in Checkouts |->
    IF p = worktree THEN {<<git, "non_recursive", main>>} ELSE {}]

MCSelections == {<<worktree>>, <<clone>>, <<other, clone, worktree>>}
=============================================================================
