----------------------------- MODULE MCFileTrees -----------------------------
(* An instance of Archives, and so of FileTrees: every small tree onto, or *)
(* extracted over, every small tree.                                       *)
EXTENDS Archives, SmallTrees

MCFileSystems == {Around @@ s @@ d : s \in NewTree, d \in {<<>>} \cup OldTree}

MCSources == {share \o <<"ls">>}
MCTargets == {dst, share \o <<"lo">>, share \o <<"lo", "n">>, src \o <<"n">>,
              share \o <<"ls", "n">>, share \o <<"d", "m", "n">>, out \o <<"n">>}

MCArchivable == {src, src \o <<"a">>, share \o <<"ls">>}
MCArchived == {[path |-> p, format |-> f] : p \in {share \o <<"z">>, share \o <<"lo", "z">>, dst}, f \in {"zip", "tar"}}
MCExtractTo == {new, dst, share \o <<"ls", "n">>, out}

Ask(action, path, to) == [action |-> action, path |-> path, target |-> to, recursive |-> FALSE]
AskAll(action, path) == [action |-> action, path |-> path, target |-> <<>>, recursive |-> TRUE]

MCRequests ==
    {Ask("delete", src \o <<"b">>, <<>>), AskAll("delete", src \o <<"a">>), AskAll("delete", dst \o <<"a">>),
     Ask("truncate", src \o <<"b">>, <<>>), Ask("touch", src \o <<"a", "b">>, <<>>),
     Ask("truncate", share \o <<"lo", "a">>, <<>>),
     Ask("mkdir", dst \o <<"b">>, <<>>), Ask("symlink", dst \o <<"b">>, src), Ask("symlink", dst \o <<"a">>, dst \o <<"b">>),
     Ask("copy", src \o <<"b">>, dst \o <<"a">>),
     Ask("move", dst \o <<"a">>, dst \o <<"b">>), AskAll("delete", Parent(dst)),
     Ask("move", share \o <<"d">>, new)}

=============================================================================
