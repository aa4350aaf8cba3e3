----------------------------- MODULE SmallTrees -----------------------------
(* File systems for TLC: one share with a tree of two levels to read and   *)
(* one to write, a file outside, and links to all of them.                 *)
EXTENDS FileSystem, TLC

names == <<"a", "b", "d", "dst", "lo", "ls", "m", "n", "out", "share", "src", "x", "z">>

share == <<"share">>
src == share \o <<"src">>
dst == share \o <<"x", "dst">>
out == <<"out">>
new == share \o <<"n">>

(* What may stand at an entry: nothing, a file, a link, a directory with   *)
(* at most one entry.                                                      *)
Some(p, data, to) ==
    {<<>>} \cup {p :> n : n \in {File(data), Link(to)}}
    \cup {(p :> Dir) @@ q : q \in {<<>>, Append(p, "a") :> File(data), Append(p, "a") :> Link(to)}}

NewTree ==
    {(src :> Dir) @@ a @@ b : a \in Some(src \o <<"a">>, <<"new">>, out \o <<"a">>),
                              b \in {<<>>} \cup {src \o <<"b">> :> n : n \in {File(<<"new">>), Dir}}}

OldTree ==
    {(Parent(dst) :> Dir) @@ (dst :> Dir) @@ a @@ b :
         a \in Some(dst \o <<"a">>, <<"old">>, out),
         b \in {<<>>, (dst \o <<"b">> :> Dir) @@ (dst \o <<"b", "a">> :> File(<<"old">>))}}

Around ==
    (<<>> :> Dir) @@ (share :> Dir) @@ (out :> Dir) @@ (out \o <<"a">> :> File(<<"secret">>))
    @@ (share \o <<"lo">> :> Link(out)) @@ (share \o <<"ls">> :> Link(src))
    @@ (share \o <<"d">> :> Dir) @@ (share \o <<"d", "m">> :> Link(share \o <<"lo">>))

=============================================================================
