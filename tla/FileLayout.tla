----------------------------- MODULE FileLayout -----------------------------
(***************************************************************************)
(* From the info dictionary of a torrent to bytes in files: what parseInfo *)
(* accepts, the files that newFileWriter opens, the scan that finds the    *)
(* pieces on disk, and pieces written over file boundaries, with writes    *)
(* that fail half-way, kills and restarts.                                 *)
(*                                                                         *)
(* The bytes of a torrent are told apart by their position: the right byte *)
(* of position q is q itself, so that the hash of a piece matches if and   *)
(* only if each of its bytes is the right one.  A path that does not exist *)
(* is an empty file, which is what opening it makes of it.                 *)
(***************************************************************************)
EXTENDS Integers, Sequences

CONSTANTS
    Component, Unsafe,  \* names, and those that isSafePathComponent refuses
    Path,               \* paths of files below the output directory
    Torrents,           \* info dictionaries
    Prior,              \* what may be at the paths before the first start
    HashSize,           \* bytes of a hash in "pieces" (20)
    MaxPieceLength, MaxFileCount,
    MaxInt,             \* the largest int64
    MaxRuns             \* bound: starts of the daemon

\* A byte that is none of the torrent: a hole that Truncate makes.
Blank == -1

InfoDict == [name : Component, multi : BOOLEAN,
             entries : Seq([length : Int, path : Path]),
             pieceLength : Int, pieces : Nat]

ASSUME ConstantsAssumption ==
    /\ Path \subseteq Seq(Component)
    /\ Torrents \subseteq InfoDict
    /\ Prior \subseteq Seq(Int)
    /\ HashSize \in Nat \ {0} /\ MaxPieceLength \in Nat /\ MaxFileCount \in Nat
    /\ MaxInt \in Nat /\ MaxRuns \in Nat \ {0}

VARIABLES
    meta,     \* the info dictionary
    pc,       \* where the program is
    files,    \* t.Files, or the one file of FileList
    total,    \* offset in parseFiles, in the end t.Length
    disk,     \* content of each path
    opened,   \* files opened by newFileWriter
    pending,  \* d.PendingPieces
    unread,   \* pieces that this run could not read and has not written since
    io,       \* the ReadAt or WriteAt in progress
    runs      \* starts so far

vars == <<meta, pc, files, total, disk, opened, pending, unread, io, runs>>
torrentVars == <<meta, files, total>>

Lesser(a, b) == IF a < b THEN a ELSE b

-----------------------------------------------------------------------------
(***************************************************************************)
(* parseInfo.  A single file is an entry whose path is the name.           *)
(***************************************************************************)
PieceLength == meta.pieceLength
PieceCount == meta.pieces \div HashSize
Piece == 0 .. PieceCount - 1

Init ==
    /\ meta \in Torrents
    /\ pc = "parse" /\ files = <<>> /\ total = 0
    /\ \E content \in Prior : disk = [p \in Path |-> content]
    /\ opened = 0 /\ pending = {} /\ unread = {} /\ runs = 1
    /\ io = [piece |-> 0, pos |-> 0, done |-> 0, same |-> TRUE]

BadHeader ==
    \/ meta.name \in Unsafe
    \/ meta.multi /\ Len(meta.entries) \notin 1 .. MaxFileCount

\* Mutant: the check of the sum is missing.
NeverOverflows(length) == FALSE
Overflows(length) == total > MaxInt - length

BadEntry(e) ==
    \/ e.length < 0
    \/ Overflows(e.length)
    \/ e.path = <<>> \/ \E i \in DOMAIN e.path : e.path[i] \in Unsafe
    \/ \E i \in DOMAIN files : files[i].path = e.path

ExpectedPieces(length) ==
    length \div PieceLength + (IF length % PieceLength # 0 THEN 1 ELSE 0)

BadPieces ==
    \/ PieceLength \notin 1 .. MaxPieceLength
    \/ meta.pieces % HashSize # 0 \/ meta.pieces = 0
    \/ PieceLength > 0 /\ PieceCount # ExpectedPieces(total)

ParseEntry ==
    /\ pc = "parse" /\ ~BadHeader /\ Len(files) < Len(meta.entries)
    /\ LET e == meta.entries[Len(files) + 1]
       IN  /\ ~BadEntry(e)
           /\ files' = Append(files, [path |-> e.path, length |-> e.length, offset |-> total])
           /\ total' = total + e.length
    /\ UNCHANGED <<meta, pc, disk, opened, pending, unread, io, runs>>

Accept ==
    /\ pc = "parse" /\ ~BadHeader /\ Len(files) = Len(meta.entries) /\ ~BadPieces
    /\ pc' = "open"
    /\ UNCHANGED <<torrentVars, disk, opened, pending, unread, io, runs>>

Reject ==
    /\ pc = "parse"
    /\ \/ BadHeader
       \/ Len(files) < Len(meta.entries) /\ BadEntry(meta.entries[Len(files) + 1])
       \/ Len(files) = Len(meta.entries) /\ BadPieces
    /\ pc' = "rejected"
    /\ UNCHANGED <<torrentVars, disk, opened, pending, unread, io, runs>>

-----------------------------------------------------------------------------
(***************************************************************************)
(* Places: of a piece in the torrent, and of a position in the files.      *)
(***************************************************************************)
\* Mutant: the last piece is as long as the others.
AllPiecesFull(p) == PieceLength
PieceByteLength(p) ==
    IF p = PieceCount - 1 /\ total % PieceLength # 0 THEN total % PieceLength
                                                     ELSE PieceLength

Origin(p) == p * PieceLength

\* Mutant: the end of a file is taken for a position in it.
HoldsItsEnd(i, pos) == pos >= files[i].offset /\ pos <= files[i].offset + files[i].length
Holds(i, pos) == pos >= files[i].offset /\ pos < files[i].offset + files[i].length

\* The first file of the list that holds the position.  (An error of locate has no
\* action: NeverOutOfRange shows that there is none.)
Locates(i, pos) == Holds(i, pos) /\ \A j \in 1 .. i - 1 : ~Holds(j, pos)

\* Where a position is in its file, counting from 1.
LocalIndex(i, pos) == pos - files[i].offset + 1

\* Byte k of piece p, as a peer sends it and as the hashes of the torrent say.
DataByte(p, k) == Origin(p) + k

-----------------------------------------------------------------------------
(***************************************************************************)
(* newFileWriter.                                                          *)
(***************************************************************************)
IsDirOf(p, q) == Len(p) < Len(q) /\ \A k \in DOMAIN p : p[k] = q[k]

\* A path that is a file of the torrent and a directory of another of its files.
DirectoryClash(i) ==
    \E j \in 1 .. i - 1 :
        \/ IsDirOf(files[i].path, files[j].path)
        \/ IsDirOf(files[j].path, files[i].path)

\* Mutant: files are emptied when they are opened.
Emptied(content, length) == [k \in 1 .. length |-> Blank]
Truncated(content, length) ==
    [k \in 1 .. length |-> IF k <= Len(content) THEN content[k] ELSE Blank]

OpenFile ==
    /\ pc = "open" /\ opened < Len(files) /\ ~DirectoryClash(opened + 1)
    /\ LET f == files[opened + 1]
       IN  disk' = [disk EXCEPT ![f.path] = Truncated(@, f.length)]
    /\ opened' = opened + 1
    /\ UNCHANGED <<torrentVars, pc, pending, unread, io, runs>>

StartCall(p) == io' = [piece |-> p, pos |-> Origin(p), done |-> 0, same |-> TRUE]

FilesOpen ==
    /\ pc = "open" /\ opened = Len(files)
    /\ pc' = "scan"
    /\ StartCall(0)
    /\ UNCHANGED <<torrentVars, disk, opened, pending, unread, runs>>

-----------------------------------------------------------------------------
(***************************************************************************)
(* ReadAt and WriteAt, one round of their loops at a time.                 *)
(***************************************************************************)
Left == PieceByteLength(io.piece) - io.done

Chunk(i) == Lesser(Left, files[i].length - (io.pos - files[i].offset))

\* Mutant: only the last chunk decides.
LastMatches(was, matches) == matches
StillSame(was, matches) == was /\ matches

ReadChunk ==
    /\ pc = "scan" /\ Left > 0
    /\ \E i \in DOMAIN files :
        /\ Locates(i, io.pos)
        /\ LET n == Chunk(i)
               at == LocalIndex(i, io.pos)
               matches == \A k \in 0 .. n - 1 :
                   disk[files[i].path][at + k] = DataByte(io.piece, io.done + k)
           IN  io' = [io EXCEPT !.pos = @ + n, !.done = @ + n, !.same = StillSame(@, matches)]
    /\ UNCHANGED <<torrentVars, pc, disk, opened, pending, unread, runs>>

NextPiece ==
    \/ io.piece + 1 \in Piece /\ StartCall(io.piece + 1) /\ UNCHANGED pc
    \/ io.piece + 1 \notin Piece /\ pc' = "loop" /\ UNCHANGED io

\* initializePendingPieces compares the hash and goes on.
PieceScanned ==
    /\ pc = "scan" /\ Left = 0
    /\ pending' = IF io.same THEN pending ELSE pending \cup {io.piece}
    /\ NextPiece
    /\ UNCHANGED <<torrentVars, disk, opened, unread, runs>>

\* A piece that cannot be read is fetched.
ReadFails ==
    /\ pc = "scan" /\ Left > 0
    /\ pending' = pending \cup {io.piece}
    /\ unread' = unread \cup {io.piece}
    /\ NextPiece
    /\ UNCHANGED <<torrentVars, disk, opened, runs>>

\* A verified piece arrives, in any order.
TakePiece(p) ==
    /\ pc = "loop" /\ p \in pending
    /\ pc' = "write"
    /\ StartCall(p)
    /\ UNCHANGED <<torrentVars, disk, opened, pending, unread, runs>>

\* The first n bytes of what is left go to file i.
Put(i, n) ==
    LET at == LocalIndex(i, io.pos)
    IN  disk' = [disk EXCEPT ![files[i].path] =
                    [k \in DOMAIN @ |-> IF k \in at .. at + n - 1
                                        THEN DataByte(io.piece, io.done + (k - at))
                                        ELSE @[k]]]

WriteChunk ==
    /\ pc = "write" /\ Left > 0
    /\ \E i \in DOMAIN files :
        /\ Locates(i, io.pos)
        /\ Put(i, Chunk(i))
        /\ io' = [io EXCEPT !.pos = @ + Chunk(i), !.done = @ + Chunk(i)]
    /\ UNCHANGED <<torrentVars, pc, opened, pending, unread, runs>>

PieceWritten ==
    /\ pc = "write" /\ Left = 0
    /\ pending' = pending \ {io.piece} /\ unread' = unread \ {io.piece}
    /\ pc' = "loop"
    /\ UNCHANGED <<torrentVars, disk, opened, io, runs>>

Finish ==
    /\ pc = "loop" /\ pending = {}
    /\ pc' = "done"
    /\ UNCHANGED <<torrentVars, disk, opened, pending, unread, io, runs>>

-----------------------------------------------------------------------------
(***************************************************************************)
(* What goes wrong, and the next start.                                    *)
(***************************************************************************)
\* A write fails, or the process is killed in it: any part of it is on disk.
WriteInterrupted ==
    /\ pc = "write" /\ Left > 0
    /\ \E i \in DOMAIN files :
        /\ Locates(i, io.pos)
        /\ \E n \in 0 .. Chunk(i) - 1 : Put(i, n)
    /\ pc' = "stopped"
    /\ UNCHANGED <<torrentVars, opened, pending, unread, io, runs>>

\* A file cannot be opened, the final Sync fails, a stop or a kill.
Interrupted ==
    /\ pc \in {"open", "scan", "loop", "write"}
    /\ pc' = "stopped"
    /\ UNCHANGED <<torrentVars, disk, opened, pending, unread, io, runs>>

\* Parsing the same file again gives the same files.
Restart ==
    /\ pc \in {"stopped", "done"} /\ runs < MaxRuns
    /\ pc' = "open" /\ opened' = 0 /\ pending' = {} /\ unread' = {} /\ runs' = runs + 1
    /\ UNCHANGED <<torrentVars, disk, io>>

Step ==
    \/ ParseEntry \/ Accept \/ Reject
    \/ OpenFile \/ FilesOpen
    \/ ReadChunk \/ PieceScanned
    \/ (\E p \in pending : TakePiece(p)) \/ WriteChunk \/ PieceWritten \/ Finish

Next == Step \/ ReadFails \/ WriteInterrupted \/ Interrupted \/ Restart

Spec == Init /\ [][Next]_vars

\* The goroutine of Download runs.
FairSpec == Spec /\ WF_vars(Step)

-----------------------------------------------------------------------------
(***************************************************************************)
(* Properties.                                                             *)
(***************************************************************************)
Accepted == pc \notin {"parse", "rejected"}

\* The right byte of position q is in its place.
Right(q) ==
    \E i \in DOMAIN files :
        /\ Holds(i, q)
        /\ LocalIndex(i, q) \in DOMAIN disk[files[i].path]
        /\ disk[files[i].path][LocalIndex(i, q)] = q

Span(p) == Origin(p) .. Origin(p) + PieceByteLength(p) - 1
PieceRight(p) == \A q \in Span(p) : Right(q)

\* Every variable keeps its type; a sum of lengths is an int64.
TypeOK ==
    /\ meta \in Torrents
    /\ pc \in {"parse", "rejected", "open", "scan", "loop", "write", "stopped", "done"}
    /\ files \in Seq([path : Path, length : Nat, offset : Nat])
    /\ total \in 0 .. MaxInt
    /\ disk \in [Path -> Seq(Int)]
    /\ opened \in 0 .. Len(files)
    /\ pending \subseteq Piece /\ unread \subseteq Piece
    /\ io \in [piece : Nat, pos : Nat, done : Nat, same : BOOLEAN]
    /\ runs \in 1 .. MaxRuns

\* The files of an accepted torrent, empty ones included, tile it: each position is
\* in exactly one of them, and different files have different paths.
FilesTile ==
    /\ \A q \in 0 .. total - 1 :
          \E i \in DOMAIN files : Holds(i, q) /\ \A j \in DOMAIN files : Holds(j, q) => j = i
    /\ \A i, j \in DOMAIN files : files[i].path = files[j].path => i = j

\* So do its pieces: none is empty, none ends behind the last file, and each
\* position is in exactly one.
PiecesTile ==
    /\ \A p \in Piece : PieceByteLength(p) >= 1 /\ Span(p) \subseteq 0 .. total - 1
    /\ \A q \in 0 .. total - 1 :
          \E p \in Piece : q \in Span(p) /\ \A r \in Piece : q \in Span(r) => r = p

\* Every byte of a torrent that is accepted has one place in the pieces and one in
\* the files, whatever lengths the info dictionary declares.
LayoutTiles == Accepted => FilesTile /\ PiecesTile

\* locate never fails.
NeverOutOfRange ==
    pc \in {"scan", "write"} /\ Left > 0 => \E i \in DOMAIN files : Locates(i, io.pos)

\* The pieces still to fetch are exactly those with a wrong byte on disk, or with one
\* that could not be read, after the scan of what an earlier, interrupted run left,
\* after each write and in the end, when there are none.
PendingIsExact ==
    pc \in {"loop", "done"} => pending = {p \in Piece : ~PieceRight(p) \/ p \in unread}

\* A finished download has every byte in its place, and files of the right length.
DoneIsWhole ==
    pc = "done" =>
        /\ \A q \in 0 .. total - 1 : Right(q)
        /\ \A i \in DOMAIN files : Len(disk[files[i].path]) = files[i].length

\* A byte that is right stays right, over writes of other pieces, over writes that
\* stop half-way and over restarts: no progress is lost.
RightBytesStay ==
    [][Accepted => \A q \in 0 .. total - 1 : Right(q) => Right(q)']_vars

\* Neither loop runs on the spot, for instance at an empty file.
CallsEnd == pc \in {"scan", "write"} ~> pc \notin {"scan", "write"}
=============================================================================
