---------------------------- MODULE PeerSession ----------------------------
(***************************************************************************)
(* A torrent file that is opened, a peer that is shaken hands with under   *)
(* its info hash, and what readLoop learns of the pieces this peer has:    *)
(* Bitfield and Have messages, well-formed or not, in any order.  Chokes   *)
(* and blocks are the subject of PieceTransfer, and keep-alives and other  *)
(* message ids change nothing.                                             *)
(***************************************************************************)
EXTENDS Metainfo, SequencesExt

CONSTANTS
    File,             \* what the torrent file may contain
    PeerHash,         \* info hashes that peers answer with
    B,                \* bits of a byte (8)
    MaxMessageLength, \* maxMessageLength in bytes
    MaxBitfield,      \* bound: bytes of a bitfield on the wire
    MaxHave,          \* bound: the largest index in a Have
    Nil               \* c.bitfield before the first Bitfield or Have

ASSUME SessionAssumption ==
    /\ B \in Nat \ {0} /\ MaxMessageLength \in Nat
    /\ MaxBitfield \in Nat /\ MaxHave \in Nat
    /\ File \subseteq Seq({"d", "l", "e"} \cup String \cup Number \cup Malformed)
    /\ Nil \notin Seq(SUBSET (0 .. B - 1))

VARIABLES
    file,      \* the bytes of the torrent file
    pc,        \* where the program is
    torrent,   \* the opened torrent
    bitfield,  \* c.bitfield
    announced, \* pieces this peer has said it has
    orderly    \* a Bitfield came first if at all, and was of the right length

vars == <<file, pc, torrent, bitfield, announced, orderly>>
peerVars == <<bitfield, announced, orderly>>

Init ==
    /\ file \in File
    /\ pc = "start" /\ torrent = <<>>
    /\ bitfield = Nil /\ announced = {} /\ orderly = TRUE

-----------------------------------------------------------------------------
OpenTorrent ==
    /\ pc = "start"
    /\ \/ Len(file) > MaxFileSize /\ pc' = "tooLarge" /\ UNCHANGED torrent
       \/ /\ Len(file) <= MaxFileSize
          /\ IF ~Unmarshal(file).ok
             THEN pc' = "undecodable" /\ UNCHANGED torrent
             ELSE IF ~IsTorrent(file)
                  THEN pc' = "rejected" /\ UNCHANGED torrent
                  ELSE pc' = "opened" /\ torrent' = Torrent(file)
    /\ UNCHANGED <<file, peerVars>>

\* The peer answers with its own info hash, with something else or not at all.
Handshake ==
    /\ pc = "opened"
    /\ \/ torrent.hash \in PeerHash /\ pc' = "connected"
       \/ pc' = "closed"
    /\ UNCHANGED <<file, torrent, peerVars>>

-----------------------------------------------------------------------------
(***************************************************************************)
(* Bitfields: the highest bit of the first byte is piece 0.  A byte is the *)
(* set of its bits that are one.                                           *)
(***************************************************************************)
Bit(p) == B - 1 - (p % B)

HasPiece(p) ==
    /\ bitfield # Nil
    /\ p \in 0 .. Len(bitfield) * B - 1
    /\ Bit(p) \in bitfield[p \div B + 1]

\* The bitfield that setPiece makes when there is none.
\* Mutant: the last, incomplete byte is forgotten.
WholeBytes == torrent.pieces \div B
BytesNeeded == (torrent.pieces + B - 1) \div B

SetPiece(p) ==
    LET bytes == IF bitfield = Nil THEN [i \in 1 .. BytesNeeded |-> {}] ELSE bitfield
    IN  bitfield' = IF p \div B < Len(bytes)
                    THEN [bytes EXCEPT ![p \div B + 1] = @ \cup {Bit(p)}]
                    ELSE bytes

\* What a peer that has the pieces s sends, in n bytes.
Pack(s, n) ==
    [k \in 1 .. n |-> {Bit(p) : p \in {q \in s : q \div B = k - 1}}]

-----------------------------------------------------------------------------
(***************************************************************************)
(* readLoop.                                                               *)
(***************************************************************************)
\* Message id and bitfield have to fit into maxMessageLength.
ReceiveBitfield(n, s) ==
    /\ pc = "connected"
    /\ n + 1 <= MaxMessageLength
    /\ bitfield' = Pack(s, n)
    /\ announced' = announced \cup s
    /\ orderly' = (bitfield = Nil /\ n = BytesNeeded)
    /\ UNCHANGED <<file, pc, torrent>>

ReceiveHave(p) ==
    /\ pc = "connected"
    /\ SetPiece(p)
    /\ announced' = announced \cup {p}
    /\ UNCHANGED <<file, pc, torrent, orderly>>

\* A message that is too long, a Have whose index is not of four bytes, the end of
\* the stream or two and a half minutes of silence.
ReadFails ==
    /\ pc = "connected"
    /\ pc' = "closed"
    /\ UNCHANGED <<file, torrent, peerVars>>

Next ==
    \/ OpenTorrent \/ Handshake \/ ReadFails
    \/ \E n \in 0 .. MaxBitfield : \E s \in SUBSET (0 .. n * B - 1) : ReceiveBitfield(n, s)
    \/ \E p \in 0 .. MaxHave : ReceiveHave(p)

Spec == Init /\ [][Next]_vars

-----------------------------------------------------------------------------
(***************************************************************************)
(* Bencode once more, as an automaton with a stack of what it expects: one *)
(* value, the rest of a list, a key, or the value of a key.                *)
(***************************************************************************)
Stuck == <<"stuck">>

AfterValue(stack) ==
    CASE Last(stack) = "list" -> stack
      [] Last(stack) = "value" -> Append(Front(stack), "key")
      [] Last(stack) = "one" -> Front(stack)

Read(stack, token) ==
    IF stack \in {<<>>, Stuck} THEN Stuck
    ELSE CASE Last(stack) = "key" /\ token \in String -> Append(Front(stack), "value")
           [] Last(stack) \in {"key", "list"} /\ token = "e" -> Front(stack)
           [] Last(stack) # "key" /\ token \in String \cup Number -> AfterValue(stack)
           [] /\ Last(stack) # "key" /\ token \in {"l", "d"}
              /\ Len(AfterValue(stack)) < MaxParseDepth ->
                 Append(AfterValue(stack), IF token = "l" THEN "list" ELSE "key")
           [] OTHER -> Stuck

StackAfter(n) ==
    LET stack[i \in 0 .. Len(file)] ==
            IF i = 0 THEN <<"one">> ELSE Read(stack[i - 1], file[i])
    IN  stack[n]

\* The recursive decoder accepts what the automaton accepts, no more and no less:
\* nothing after the value, no key without a value, no list without an end.
DecodesExactly ==
    pc \in {"undecodable", "rejected", "opened"} =>
        (pc # "undecodable" <=> StackAfter(Len(file)) = <<>>)

\* If the root has one key "info", the bytes that are hashed are its value, to the
\* last token, and the fields that were read are those of these bytes: the two walks
\* over the file agree, and who shakes hands has the pieces we look for.
HashCoversInfo ==
    pc = "opened" =>
        LET inRoot == {i \in DOMAIN file : StackAfter(i) = <<"key">>}
            infoAt == {i \in DOMAIN file : file[i] = "info" /\ StackAfter(i) = <<"value">>}
        IN  \A i \in infoAt :
                infoAt = {i} =>
                    /\ \E j \in inRoot : /\ torrent.hash = SubSeq(file, i + 1, j)
                                         /\ \A k \in i + 1 .. j - 1 : k \notin inRoot
                    /\ Unmarshal(torrent.hash).value = <<"dict", torrent.info>>

\* A piece is taken to be with a peer only if the peer said so, and every piece that
\* an orderly peer announced, by its Bitfield or any Have after or without one, is
\* found.  A peer with a short or late Bitfield may be underestimated.
HasPieceIsAnnounced ==
    pc \in {"connected", "closed"} =>
        \A p \in 0 .. torrent.pieces - 1 :
            /\ HasPiece(p) => p \in announced
            /\ orderly /\ p \in announced => HasPiece(p)
=============================================================================
