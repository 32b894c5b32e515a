---------------------------- MODULE MCFileLayout ----------------------------
EXTENDS FileLayout, TLC

\* Directories of one to three files, with empty ones in all places, that fit or do
\* not fit into MaxInt; one file, one file under an unsafe path, a path used twice,
\* a path that is a directory of another, and a name that is unsafe.
a == <<"a">>
b == <<"b">>
c == <<"c">>
MCPath == {a, b, c, <<"a", "b">>, <<"..">>, <<>>}

Dict(name, multi, paths, lengths, size, pieces) ==
    [name |-> name, multi |-> multi, pieceLength |-> size, pieces |-> pieces,
     entries |-> [i \in DOMAIN lengths |-> [path |-> paths[i], length |-> lengths[i]]]]

MCTorrents ==
    {Dict("t", TRUE, <<a, b, c>>, <<k, l, m>>, s, n) :
        k \in 0 .. 2, l \in 0 .. 2, m \in 0 .. 2, s \in 2 .. 3, n \in {2, 4, 6}}
    \cup {Dict("t", TRUE, <<p, q>>, <<1, 2>>, 2, 4) : p \in MCPath, q \in MCPath}
    \cup {Dict(x, y, <<a, b, c>>, l, s, n) :
             x \in {"a", ".."}, y \in BOOLEAN, l \in {<<-1>>, <<0>>, <<3>>},
             s \in {0, 2, 4}, n \in {0, 3, 4}}
    \cup {Dict("t", TRUE, <<>>, <<>>, 1, 2)}

\* Nothing, something else, or a copy of the bytes 1, 2 and 3.
MCPrior == {<<>>, <<-2, -2, -2>>, <<1, 2, 3>>}
=============================================================================
