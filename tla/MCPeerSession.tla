---------------------------- MODULE MCPeerSession ----------------------------
EXTENDS PeerSession

MCString == {"info", "announce", "announce-list", "comment", "created by",
             "name", "length", "piece length", "pieces", "none", "one", "three"}
MCNumber == {"i1"}
MCHashes == [s \in MCString |-> CASE s = "one" -> 1 [] s = "three" -> 3 [] OTHER -> 0]

\* An info dictionary.
Info(pieces) ==
    <<"d", "info", "i1", "length", "i1", "name", "info", "piece length", "i1",
      "pieces", pieces, "e">>

\* Entries of a root, good ones and bad ones.
Entry ==
    {<<"info">> \o Info(p) : p \in {"none", "one", "three"}}
    \cup {<<"info", "i1">>}
    \cup {<<"announce", "info">>, <<"announce", "i1">>, <<"comment", "info">>,
          <<"created by", "one">>, <<"created by", "i1">>}
    \cup {<<"announce-list", "l", "l", "one", "info", "e", "e">>,
          <<"announce-list", "l", "one", "e">>}

Root(entries) == <<"d">> \o FlattenSeq(entries) \o <<"e">>

\* Every short sequence of tokens, roots of up to three entries, a root that lacks
\* its end, that goes on after its end, and that is too large.
MCFile ==
    SeqOf({"d", "l", "e", "name", "i1", "?"}, 6)
    \cup {Root(entries) : entries \in SeqOf(Entry, 2)}
    \cup {Root(<<x, y, z>>) : x \in Entry, y \in {<<"info">> \o Info("three")},
                              z \in {<<"comment", "info">>, <<"info">> \o Info("one")}}
    \cup {<<"d", "info">> \o Info("three"), Root(<<<<"info">> \o Info("one")>>) \o <<"e">>,
          [i \in 1 .. 42 |-> "e"]}

MCPeerHash == {Info("one"), Info("three")}
=============================================================================
