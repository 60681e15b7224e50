---------------------------- MODULE MCRepoWrite ----------------------------
(* A small instance of RepoWrite: a row with two files, of any modes, and   *)
(* another one that pushes to one of them.  All render the same content,    *)
(* and both files start with the same one: they are told apart by their     *)
(* modes and by what is pushed.  Rows, files and contents are               *)
(* interchangeable.                                                         *)
EXTENDS RepoWrite, TLC

Beside(r, other) ==
    /\ r # other
    /\ Files(r) = Paths
    /\ Cardinality(Files(other)) = 1
    /\ strategy[other] = "DIRECT_COMMIT"
    /\ \A p \in Files(other) : mode[other][p] = "UPSERT"

MCInit ==
    /\ Init
    /\ \E r, other \in Rows : Beside(r, other)
    /\ \E t \in Texts : \A r \in Rows : \A p \in Files(r) : rendered[r][p] = t
    /\ \A p, q \in Paths : Tree(tip)[p] = Tree(tip)[q]

MCSpec == MCInit /\ [][Next]_vars

Symmetry == Permutations(Rows) \cup Permutations(Paths) \cup Permutations(Texts)
=============================================================================
