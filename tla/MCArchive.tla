------------------------------ MODULE MCArchive ------------------------------
(* Archive with two names and a directory of two more, blocks of two units,  *)
(* files of up to three, and every name called "b" too long for its field.   *)
EXTENDS Archive

MCNameOrder == <<"a", "b">>
MCPaths == {<<"a">>, <<"b">>, <<"a", "a">>, <<"a", "b">>}
MCLong == {<<"b">>, <<"a", "b">>}
MCHides == [n \in {".wh.a", ".wh.b"} |-> IF n = ".wh.a" THEN "a" ELSE "b"]

(* Inodes a tree to pack is made of: 1 is a directory, the others may have   *)
(* several names.                                                            *)
MCNodes == <<
    Node("dir", << >>, 1, {"own"}, 1),
    Node("file", Contents([attr |-> 2, size |-> 3]), 2, {}, 2),
    Node("symlink", <<"b">>, 3, {}, 3),
    Node("device", << >>, 4, {"own"}, 4)>>
Of(a, b, aa, ab) ==
    LET names == [p \in MCPaths |-> CASE p = <<"a">> -> a [] p = <<"b">> -> b
                                      [] p = <<"a", "a">> -> aa [] OTHER -> ab]
    IN  [names |-> names,
         inodes |-> [i \in 1..4 |-> IF \E p \in MCPaths : names[p] = i THEN MCNodes[i] ELSE Free]]
MCSourceTrees ==
    {Of(a, b, aa, ab) : a \in {Absent, 1, 2, 3}, b \in {Absent, 1, 2, 3, 4},
                        aa \in {Absent, 2, 3, 4}, ab \in {Absent, 2, 4}}
MCPackable ==
    {v \in MCSourceTrees :
        /\ v.names[<<"a">>] # 1 => \A p \in MCPaths : Len(p) > 1 => v.names[p] = Absent
        /\ v.names[<<"b">>] = 1 => v.names[<<"a">>] # 1}

MCLowerTrees == {EmptyVolume, Of(1, 2, 2, Absent), Of(2, 1, Absent, Absent)}

Tool(path, kind, time, size, link) == Header(path, kind, 0, time, size, link, {})
MCToolHeaders ==
    {Tool(p, "dir", 1, 0, << >>) : p \in MCPaths}
    \cup {Tool(p, "file", 1, 1, << >>) : p \in MCPaths}
    \cup {Tool(<<"b">>, "file", 0, n, << >>) : n \in {0, 2, 3}}
    \cup {Tool(p, "symlink", 0, 0, <<"b">>) : p \in {<<"a">>, <<"b">>}}
    \cup {Tool(p, "hardlink", 0, 0, q) : p \in {<<"b">>, <<"a", "b">>},
                                         q \in {<<"b">>, <<"a", "a">>}}
    \cup {Tool(p, "file", 0, 1, << >>) : p \in {<<".wh.a">>, <<"a", ".wh.a">>, <<"a", ".wh..wh.plnk">>}}
    \cup {Tool(<<"a", ".wh..wh..opq">>, "file", 0, 0, << >>)}
    \cup {Tool(<< >>, "dir", 0, 0, << >>)}
=============================================================================
