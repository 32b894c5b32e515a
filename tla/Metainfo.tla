------------------------------ MODULE Metainfo ------------------------------
(***************************************************************************)
(* Reading a torrent file: the bencode decoder and the two walks that      *)
(* torrent.Parse makes over the same bytes, Unmarshal for the fields and   *)
(* findInfoBytes for the info hash.                                        *)
(*                                                                         *)
(* A document is a sequence of tokens: "d", "l", "e", a whole byte string, *)
(* a whole integer, or anything else for a malformed one (leading zero, no *)
(* digits, a length beyond the end).  A value is <<kind, content>>, where  *)
(* a dictionary is a function on its keys.                                 *)
(***************************************************************************)
EXTENDS Integers, Sequences

CONSTANTS
    String, Number,  \* the tokens that are byte strings and integers
    Malformed,       \* the tokens that are nothing
    Hashes,          \* number of hashes in a "pieces" string, 0 if not whole
    MaxParseDepth,   \* maxParseDepth (1000 in the code)
    MaxFileSize      \* maxTorrentFileSize

ASSUME TokensAssumption ==
    /\ {"d", "l", "e"} \cap (String \cup Number \cup Malformed) = {}
    /\ String \cap Number = {} /\ Malformed \cap (String \cup Number) = {}
    /\ Hashes \in [String -> Nat]
    /\ MaxParseDepth \in Nat /\ MaxFileSize \in Nat

-----------------------------------------------------------------------------
(***************************************************************************)
(* bencode.  A parser is called at a place of the document, and returns    *)
(* the value there and how many tokens it has; a list or dictionary begins *)
(* after its first token.  Decoder is the function of all these calls.     *)
(***************************************************************************)
Failed == [ok |-> FALSE, value |-> <<>>, size |-> 0]
Parsed(value, size) == [ok |-> TRUE, value |-> value, size |-> size]

Calls(b) == [kind : {"value", "list", "dict"}, at : 0 .. Len(b), depth : 0 .. MaxParseDepth]
Call(kind, at, depth) == [kind |-> kind, at |-> at, depth |-> depth]

ReadString(b, at) ==
    IF at < Len(b) /\ b[at + 1] \in String THEN Parsed(<<"string", b[at + 1]>>, 1) ELSE Failed

ParseList(b, parse, c) ==
    LET item == parse[Call("value", c.at, c.depth)]
        rest == parse[Call("list", c.at + item.size, c.depth)]
    IN  IF c.at = Len(b) THEN Failed
        ELSE IF b[c.at + 1] = "e" THEN Parsed(<<>>, 1)
        ELSE IF item.ok /\ rest.ok
             THEN Parsed(<<item.value>> \o rest.value, item.size + rest.size)
             ELSE Failed

\* An entry before those of dict: of two equal keys the last wins.
PutBefore(dict, key, value) ==
    [k \in DOMAIN dict \cup {key} |-> IF k \in DOMAIN dict THEN dict[k] ELSE value]

\* A key that "e" or the end of the input follows has no value: the value fails.
ParseDict(b, parse, c) ==
    LET key   == ReadString(b, c.at)
        value == parse[Call("value", c.at + 1, c.depth)]
        rest  == parse[Call("dict", c.at + 1 + value.size, c.depth)]
    IN  IF c.at = Len(b) THEN Failed
        ELSE IF b[c.at + 1] = "e" THEN Parsed(<<>>, 1)
        ELSE IF key.ok /\ value.ok /\ rest.ok
             THEN Parsed(PutBefore(rest.value, key.value[2], value.value),
                         1 + value.size + rest.size)
             ELSE Failed

Inside(parse, kind, c) ==
    LET content == parse[Call(kind, c.at + 1, c.depth + 1)]
    IN  IF c.depth < MaxParseDepth /\ content.ok
        THEN Parsed(<<kind, content.value>>, 1 + content.size)
        ELSE Failed

ParseValue(b, parse, c) ==
    IF c.at = Len(b) THEN Failed
    ELSE LET token == b[c.at + 1]
         IN  CASE token \in Number -> Parsed(<<"int", token>>, 1)
               [] token \in String -> ReadString(b, c.at)
               [] token = "l" -> Inside(parse, "list", c)
               [] token = "d" -> Inside(parse, "dict", c)
               [] OTHER -> Failed

Parse(b, parse, c) ==
    CASE c.kind = "value" -> ParseValue(b, parse, c)
      [] c.kind = "list" -> ParseList(b, parse, c)
      [] c.kind = "dict" -> ParseDict(b, parse, c)

Decoder(b) ==
    LET parse[c \in Calls(b)] == Parse(b, parse, c)
    IN  parse

ParseAt(b, at) == Decoder(b)[Call("value", at, 0)]

\* Mutant: what follows the first value is not looked at.
IgnoresTheRest(b) == ParseAt(b, 0)
Unmarshal(b) == IF ParseAt(b, 0).size = Len(b) THEN ParseAt(b, 0) ELSE Failed

-----------------------------------------------------------------------------
(***************************************************************************)
(* torrent.Parse.  Of the info dictionary only what the session needs; its *)
(* lengths and paths are the subject of FileLayout.                        *)
(***************************************************************************)
\* getString, getInt and getDict: the field has its type, or is not there.
Field(dict, key, kind, required) ==
    IF key \in DOMAIN dict THEN dict[key][1] = kind ELSE ~required

IsTier(tier) ==
    tier[1] = "list" /\ \A i \in DOMAIN tier[2] : tier[2][i][1] = "string"
IsAnnounceList(value) ==
    value[1] = "list" /\ \A i \in DOMAIN value[2] : IsTier(value[2][i])

IsInfo(info) ==
    /\ Field(info, "name", "string", TRUE)
    /\ "files" \notin DOMAIN info => Field(info, "length", "int", TRUE)
    /\ Field(info, "piece length", "int", TRUE)
    /\ Field(info, "pieces", "string", TRUE) /\ Hashes[info["pieces"][2]] > 0

IsRoot(root) ==
    /\ Field(root, "announce", "string", FALSE)
    /\ "announce-list" \in DOMAIN root => IsAnnounceList(root["announce-list"])
    /\ Field(root, "created by", "string", FALSE)
    /\ Field(root, "creation date", "int", FALSE)
    /\ Field(root, "comment", "string", FALSE)
    /\ Field(root, "info", "dict", TRUE) /\ IsInfo(root["info"][2])

\* The value of the first key "info" at this place or after it, or nothing.
InfoFrom(b, infoFrom, at) ==
    LET key   == ReadString(b, at)
        value == ParseAt(b, at + 1)
    IN  IF ~key.ok \/ ~value.ok THEN <<>>
        ELSE IF key.value[2] = "info"
             THEN SubSeq(b, at + 2, at + 1 + value.size)
             ELSE infoFrom[at + 1 + value.size]

\* Mutant: the first string "info" is taken for the key.
FirstInfoString(b) ==
    LET at == CHOOSE i \in 2 .. Len(b) :
                  b[i] = "info" /\ \A j \in 2 .. i - 1 : b[j] # "info"
    IN  SubSeq(b, at + 1, at + ParseAt(b, at).size)
FindInfoBytes(b) ==
    LET infoFrom[at \in 1 .. Len(b)] == InfoFrom(b, infoFrom, at)
    IN  infoFrom[1]

\* The info hash is SHA-1 of those bytes, told apart by the bytes themselves.
Torrent(b) ==
    LET info == Unmarshal(b).value[2]["info"][2]
    IN  [info |-> info, pieces |-> Hashes[info["pieces"][2]], hash |-> FindInfoBytes(b)]

IsTorrent(b) ==
    LET root == Unmarshal(b).value
    IN  root[1] = "dict" /\ IsRoot(root[2]) /\ FindInfoBytes(b) # <<>>
=============================================================================
