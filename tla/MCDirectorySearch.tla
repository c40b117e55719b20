-------------------------- MODULE MCDirectorySearch --------------------------
EXTENDS DirectorySearch, TLC

CONSTANTS root, a, d, b, e, c

MCOrder == <<a, d, b, e, c>>
MCParent == (a :> root) @@ (d :> root) @@ (b :> d) @@ (e :> d) @@ (c :> root)
MCSize == (a :> 2) @@ (d :> 2) @@ (b :> 1) @@ (e :> 0) @@ (c :> 4)
\* One full tree, one to be filled, and nothing at all.
MCTrees == { (root :> "dir") @@ (a :> "file") @@ (d :> "dir") @@ (b :> "file") @@ (e :> "dir") @@ (c :> "file"),
             (root :> "dir") @@ (a :> "file") @@ (d :> "file") @@ (b :> "none") @@ (e :> "none") @@ (c :> "file"),
             (root :> "none") @@ (a :> "none") @@ (d :> "none") @@ (b :> "none") @@ (e :> "none") @@ (c :> "none") }
MCMatching == {a, b, d}
MCLimits == {-1, 0, 1, 2}
==============================================================================
