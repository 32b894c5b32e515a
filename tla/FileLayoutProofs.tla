-------------------------- MODULE FileLayoutProofs --------------------------
(***************************************************************************)
(* Proofs about FileLayout, for torrents of any size.                      *)
(***************************************************************************)
EXTENDS FileLayout, NatFacts

-----------------------------------------------------------------------------
(***************************************************************************)
(* The inductive invariant.                                                *)
(***************************************************************************)
\* Files lie one behind the other, without a gap, under different paths; an
\* accepted torrent has as many pieces as its length asks for.
LayoutInv ==
    /\ \A i \in DOMAIN files : files[i].offset + files[i].length <= total
    /\ \A i, j \in DOMAIN files : i < j => files[i].offset + files[i].length <= files[j].offset
    /\ \A q \in 0 .. total - 1 : \E i \in DOMAIN files : Holds(i, q)
    /\ \A i, j \in DOMAIN files : files[i].path = files[j].path => i = j
    /\ Accepted => /\ PieceLength >= 1 /\ PieceCount >= 1
                   /\ PieceCount = ExpectedPieces(total)

\* Opened files have their length.
DiskInv ==
    /\ \A i \in 1 .. opened : Len(disk[files[i].path]) = files[i].length
    /\ pc \in {"scan", "loop", "write", "done"} => opened = Len(files)

\* A call is within its piece, and only a piece that is missing is written.
CallInv ==
    /\ pc \in {"scan", "write"} =>
          /\ io.piece \in Piece /\ io.done \in 0 .. PieceByteLength(io.piece)
          /\ io.pos = Origin(io.piece) + io.done
    /\ pc = "write" => io.piece \in pending

\* A piece that has to be fetched.
Wanted(p) == ~PieceRight(p) \/ p \in unread

\* What the scan knows so far.
ScanInv ==
    /\ pc \in {"parse", "open"} => pending = {} /\ unread = {}
    /\ pc = "scan" =>
          /\ \A p \in unread : p < io.piece
          /\ io.same <=> \A q \in Origin(io.piece) .. io.pos - 1 : Right(q)
          /\ \A p \in Piece : p \in pending <=> p < io.piece /\ Wanted(p)

\* What the loop knows; of the piece that is being written, what is done.
LoopInv ==
    /\ pc \in {"loop", "done"} => \A p \in Piece : p \in pending <=> Wanted(p)
    /\ pc = "done" => pending = {}
    /\ pc = "write" =>
          /\ \A q \in Origin(io.piece) .. io.pos - 1 : Right(q)
          /\ \A p \in Piece : p # io.piece => (p \in pending <=> Wanted(p))

IInv == TypeOK /\ LayoutInv /\ DiskInv /\ CallInv /\ ScanInv /\ LoopInv

-----------------------------------------------------------------------------
(***************************************************************************)
(* Places.                                                                 *)
(***************************************************************************)
LEMMA ElementOf ==
    ASSUME NEW S, NEW s \in Seq(S), NEW i \in DOMAIN s
    PROVE  i \in 1 .. Len(s) /\ s[i] \in S
  OBVIOUS

LEMMA IsSequence ==
    ASSUME NEW S, NEW n \in Nat, NEW f \in [1 .. n -> S]
    PROVE  f \in Seq(S) /\ Len(f) = n /\ DOMAIN f = 1 .. n
  OBVIOUS

LEMMA TorrentFacts ==
    ASSUME TypeOK
    PROVE  /\ PieceLength \in Int /\ meta.pieces \in Nat
           /\ PieceCount \in Nat /\ total \in Nat
           /\ meta.entries \in Seq([length : Int, path : Path])
           /\ DOMAIN files = 1 .. Len(files) /\ Len(files) \in Nat
           /\ \A i \in DOMAIN files :
                 files[i].path \in Path /\ files[i].length \in Nat /\ files[i].offset \in Nat
<1>1. meta \in InfoDict /\ HashSize \in Nat \ {0} /\ MaxInt \in Nat
  BY ConstantsAssumption DEF TypeOK
<1>2. PieceLength \in Int /\ meta.pieces \in Nat /\ meta.entries \in Seq([length : Int, path : Path])
  BY <1>1 DEF InfoDict, PieceLength
<1>3. PieceCount \in Nat
  BY <1>1, <1>2, Division DEF PieceCount
<1>4. total \in Nat
  BY <1>1 DEF TypeOK
<1>5. \A i \in DOMAIN files : files[i] \in [path : Path, length : Nat, offset : Nat]
  <2>1. files \in Seq([path : Path, length : Nat, offset : Nat])
    BY DEF TypeOK
  <2> QED
    BY <2>1, ElementOf
<1>6. DOMAIN files = 1 .. Len(files) /\ Len(files) \in Nat
  <2>1. files \in Seq([path : Path, length : Nat, offset : Nat])
    BY DEF TypeOK
  <2> QED
    BY <2>1
<1> QED
  BY <1>2, <1>3, <1>4, <1>5, <1>6

\* A position is in one file only.
LEMMA OneFile ==
    ASSUME TypeOK, LayoutInv, NEW q \in Int,
           NEW i \in DOMAIN files, NEW j \in DOMAIN files, Holds(i, q), Holds(j, q)
    PROVE  i = j
<1>1. i \in Int /\ j \in Int
  <2>1. files \in Seq([path : Path, length : Nat, offset : Nat])
    BY DEF TypeOK
  <2> QED
    BY <2>1
<1>2. ASSUME NEW x \in DOMAIN files, NEW y \in DOMAIN files, x < y  PROVE ~(Holds(x, q) /\ Holds(y, q))
  <2>1. files[x].offset + files[x].length <= files[y].offset
    BY <1>2 DEF LayoutInv
  <2>2. /\ files[x].offset \in Nat /\ files[x].length \in Nat
        /\ files[y].offset \in Nat /\ files[y].length \in Nat
    BY TorrentFacts
  <2> QED
    BY <2>1, <2>2 DEF Holds
<1> QED
  BY <1>1, <1>2

\* In a file of full length the byte at a position is right or not.
LEMMA RightInFile ==
    ASSUME TypeOK, LayoutInv, NEW q \in Int, NEW i \in DOMAIN files, Holds(i, q),
           Len(disk[files[i].path]) = files[i].length
    PROVE  /\ LocalIndex(i, q) \in DOMAIN disk[files[i].path]
           /\ Right(q) <=> disk[files[i].path][LocalIndex(i, q)] = q
<1>1. disk[files[i].path] \in Seq(Int) /\ files[i].offset \in Nat /\ files[i].length \in Nat
  BY TorrentFacts DEF TypeOK
<1>2. LocalIndex(i, q) \in 1 .. files[i].length
  BY <1>1 DEF LocalIndex, Holds
<1>3. LocalIndex(i, q) \in DOMAIN disk[files[i].path]
  BY <1>1, <1>2
<1> QED
  BY <1>3, OneFile DEF Right

\* Pieces: none is empty or too long, they follow each other up to the end, and
\* together they have every position.
LEMMA PieceFacts ==
    ASSUME TypeOK, LayoutInv, Accepted
    PROVE  /\ \A p \in Piece : /\ Origin(p) \in Nat /\ PieceByteLength(p) \in 1 .. PieceLength
                               /\ Origin(p) + PieceByteLength(p) <= total
           /\ \A p, r \in Piece : p < r => Origin(p) + PieceByteLength(p) <= Origin(r)
           /\ \A q \in 0 .. total - 1 : \E p \in Piece : q \in Span(p)
<1> DEFINE d == total \div PieceLength
           m == total % PieceLength
<1>1. PieceLength \in Nat \ {0} /\ total \in Nat /\ PieceCount \in Nat
  BY TorrentFacts DEF LayoutInv
<1>2. d \in Nat /\ m \in 0 .. PieceLength - 1 /\ total = (d * PieceLength) + m
  BY <1>1, Division
<1>3. PieceCount = d + (IF m # 0 THEN 1 ELSE 0)
  BY DEF LayoutInv, ExpectedPieces
<1>4. \A p : PieceByteLength(p) = IF p = PieceCount - 1 /\ m # 0 THEN m ELSE PieceLength
  BY DEF PieceByteLength
<1> HIDE DEF d, m
<1>5. d * PieceLength \in Nat
  BY <1>1, <1>2, ProductGrows
<1>6. ASSUME NEW p \in Piece
      PROVE  /\ Origin(p) \in Nat /\ PieceByteLength(p) \in 1 .. PieceLength
             /\ Origin(p) + PieceByteLength(p) <= total
  <2>1. p \in Nat /\ p <= PieceCount - 1
    BY <1>1 DEF Piece
  <2>2. Origin(p) \in Nat
    BY <1>1, <2>1, ProductGrows DEF Origin
  <2>3. PieceByteLength(p) \in 1 .. PieceLength
    BY <1>1, <1>2, <1>4
  <2>4. CASE p = d
    <3>1. m # 0 /\ p = PieceCount - 1
      BY <1>1, <1>2, <1>3, <2>1, <2>4
    <3>2. PieceByteLength(p) = m
      BY <3>1, <1>4
    <3> QED
      BY <2>2, <2>3, <2>4, <3>2, <1>2 DEF Origin
  <2>5. CASE p # d
    <3>1. p + 1 <= d
      BY <1>1, <1>2, <1>3, <2>1, <2>5
    <3>2. (p + 1) * PieceLength <= d * PieceLength
      BY <3>1, <2>1, <1>1, <1>2, ProductGrows
    <3>3. (p + 1) * PieceLength = p * PieceLength + PieceLength
      BY <2>1, <1>1, SuccessorProduct
    <3> QED
      BY <3>2, <3>3, <2>2, <2>3, <1>1, <1>2, <1>5 DEF Origin
  <2> QED
    BY <2>4, <2>5
<1>7. ASSUME NEW p \in Piece, NEW r \in Piece, p < r
      PROVE  Origin(p) + PieceByteLength(p) <= Origin(r)
  <2>1. p \in Nat /\ r \in Nat /\ p + 1 <= r
    BY <1>1, <1>7 DEF Piece
  <2>2. (p + 1) * PieceLength <= r * PieceLength
    BY <2>1, <1>1, ProductGrows
  <2>3. (p + 1) * PieceLength = p * PieceLength + PieceLength
    BY <2>1, <1>1, SuccessorProduct
  <2>4. /\ Origin(p) \in Nat /\ Origin(r) \in Nat /\ PieceByteLength(p) \in 1 .. PieceLength
        /\ Origin(p) = p * PieceLength /\ Origin(r) = r * PieceLength
    BY <1>6 DEF Origin
  <2> QED
    BY <2>2, <2>3, <2>4, <1>1
<1>8. ASSUME NEW q \in 0 .. total - 1
      PROVE  \E p \in Piece : q \in Span(p)
  <2> DEFINE p == q \div PieceLength
             k == q % PieceLength
  <2>1. q \in Nat /\ q < total
    BY <1>1
  <2>2. p \in Nat /\ k \in 0 .. PieceLength - 1 /\ q = (p * PieceLength) + k
    BY <1>1, <2>1, Division
  <2> HIDE DEF p, k
  <2>3. p * PieceLength \in Nat
    BY <1>1, <2>2, ProductGrows
  <2>4. p * PieceLength < d * PieceLength + m
    BY <1>1, <1>2, <1>5, <2>1, <2>2, <2>3
  <2>5. p <= d /\ (m = 0 => p < d)
    BY <2>2, <2>4, <1>1, <1>2, QuotientBelow
  <2>6. p \in Piece
    BY <2>2, <2>5, <1>1, <1>2, <1>3 DEF Piece
  <2>7. q <= Origin(p) + PieceByteLength(p) - 1
    <3>1. CASE p = PieceCount - 1 /\ m # 0
      <4>1. p = d /\ PieceByteLength(p) = m
        BY <3>1, <1>1, <1>2, <1>3, <1>4
      <4> QED
        BY <4>1, <2>1, <1>1, <1>2, <1>5 DEF Origin
    <3>2. CASE ~(p = PieceCount - 1 /\ m # 0)
      <4>1. PieceByteLength(p) = PieceLength
        BY <3>2, <1>4
      <4> QED
        BY <4>1, <1>1, <2>2, <2>3 DEF Origin
    <3> QED
      BY <3>1, <3>2
  <2>8. q >= Origin(p)
    BY <2>2, <2>3, <1>1 DEF Origin
  <2>9. Origin(p) \in Nat /\ PieceByteLength(p) \in Nat
    BY <2>6, <1>6, <1>1
  <2> QED
    BY <2>1, <2>6, <2>7, <2>8, <2>9 DEF Span
<1> QED
  BY <1>6, <1>7, <1>8

\* A position is in one piece only.
LEMMA OnePiece ==
    ASSUME TypeOK, LayoutInv, Accepted, NEW q \in Int,
           NEW p \in Piece, NEW r \in Piece, q \in Span(p), q \in Span(r)
    PROVE  p = r
<1>1. p \in Int /\ r \in Int
  BY DEF Piece
<1>2. \A x \in Piece : Origin(x) \in Nat /\ PieceByteLength(x) \in Nat
  BY PieceFacts, TorrentFacts
<1>3. ~(p < r) /\ ~(r < p)
  BY <1>2, PieceFacts DEF Span
<1> QED
  BY <1>1, <1>3

-----------------------------------------------------------------------------
(***************************************************************************)
(* What steps do to the bytes.                                             *)
(***************************************************************************)
LEMMA SameTorrent ==
    ASSUME UNCHANGED torrentVars
    PROVE  /\ Piece' = Piece /\ PieceLength' = PieceLength /\ PieceCount' = PieceCount
           /\ \A p : /\ PieceByteLength(p)' = PieceByteLength(p)
                     /\ Origin(p)' = Origin(p) /\ Span(p)' = Span(p)
           /\ \A i, q : (Holds(i, q)' <=> Holds(i, q)) /\ LocalIndex(i, q)' = LocalIndex(i, q)
  BY DEF torrentVars, Piece, PieceLength, PieceCount, PieceByteLength, Origin, Span, Holds, LocalIndex

LEMMA SameBytes ==
    ASSUME UNCHANGED torrentVars, UNCHANGED disk
    PROVE  /\ \A q : Right(q)' <=> Right(q)
           /\ \A p : PieceRight(p)' <=> PieceRight(p)
<1>1. ASSUME NEW q  PROVE Right(q)' <=> Right(q)
  BY SameTorrent DEF Right, torrentVars
<1>2. ASSUME NEW p  PROVE PieceRight(p)' <=> PieceRight(p)
  BY <1>1, SameTorrent DEF PieceRight
<1> QED
  BY <1>1, <1>2

LEMMA LayoutStays ==
    ASSUME LayoutInv, UNCHANGED torrentVars, Accepted' => Accepted
    PROVE  LayoutInv'
<1>1. UNCHANGED <<files, total>>
  BY DEF torrentVars
<1>2. ExpectedPieces(total)' = ExpectedPieces(total)
  BY <1>1, SameTorrent DEF ExpectedPieces
<1> QED
  BY <1>1, <1>2, SameTorrent DEF LayoutInv

\* A call that is not over is at a position of the torrent, in one file.
LEMMA CallFacts ==
    ASSUME TypeOK, LayoutInv, CallInv, pc \in {"scan", "write"}, Left > 0
    PROVE  /\ io.piece \in Piece /\ Left \in Nat
           /\ io.pos \in 0 .. total - 1 /\ io.pos + Left <= total
           /\ \E i \in DOMAIN files : Locates(i, io.pos)
           /\ \A i \in DOMAIN files : Locates(i, io.pos) =>
                 /\ Holds(i, io.pos) /\ Chunk(i) \in Nat \ {0} /\ Chunk(i) <= Left
                 /\ \A q \in io.pos .. io.pos + Chunk(i) - 1 : Holds(i, q)
<1>1. /\ io.piece \in Piece /\ io.done \in 0 .. PieceByteLength(io.piece)
      /\ io.pos = Origin(io.piece) + io.done
  BY DEF CallInv
<1>2. /\ Origin(io.piece) \in Nat /\ PieceByteLength(io.piece) \in Nat
      /\ Origin(io.piece) + PieceByteLength(io.piece) <= total
  BY <1>1, PieceFacts, TorrentFacts DEF Accepted
<1>3. Left \in Nat /\ io.pos \in 0 .. total - 1 /\ io.pos + Left <= total
  BY <1>1, <1>2, TorrentFacts DEF Left
<1>4. PICK h \in DOMAIN files : Holds(h, io.pos)
  BY <1>3 DEF LayoutInv
<1>5. \A j \in 1 .. h - 1 : ~Holds(j, io.pos)
  <2>1. h \in 1 .. Len(files)
    BY <1>4, ElementOf DEF TypeOK
  <2>2. \A j \in 1 .. h - 1 : j \in DOMAIN files /\ j # h
    BY <2>1, TorrentFacts
  <2> QED
    BY <2>2, <1>3, <1>4, OneFile
<1>6. ASSUME NEW i \in DOMAIN files, Locates(i, io.pos)
      PROVE  /\ Holds(i, io.pos) /\ Chunk(i) \in Nat \ {0} /\ Chunk(i) <= Left
             /\ \A q \in io.pos .. io.pos + Chunk(i) - 1 : Holds(i, q)
  <2>1. Holds(i, io.pos) /\ files[i].length \in Nat /\ files[i].offset \in Nat
    BY <1>6, TorrentFacts DEF Locates
  <2> QED
    BY <2>1, <1>3 DEF Holds, Chunk, Lesser
<1> QED
  BY <1>1, <1>3, <1>4, <1>5, <1>6 DEF Locates

\* A write of n bytes makes those right, and changes no other byte.
LEMMA WriteEffect ==
    ASSUME TypeOK, LayoutInv, DiskInv, CallInv, pc = "write", Left > 0,
           NEW h \in DOMAIN files, Locates(h, io.pos), NEW n \in 0 .. Chunk(h), Put(h, n),
           UNCHANGED torrentVars
    PROVE  /\ disk' \in [Path -> Seq(Int)]
           /\ \A x \in Path : Len(disk'[x]) = Len(disk[x])
           /\ \A q \in Int : Right(q)' <=> Right(q) \/ q \in io.pos .. io.pos + n - 1
<1> DEFINE at == LocalIndex(h, io.pos)
           path == files[h].path
           New == [k \in DOMAIN disk[path] |->
                      IF k \in at .. at + n - 1 THEN DataByte(io.piece, io.done + (k - at))
                                                ELSE disk[path][k]]
<1>1. /\ io.pos \in Nat /\ io.done \in Nat /\ Origin(io.piece) \in Nat
      /\ io.pos = Origin(io.piece) + io.done
  BY CallFacts, PieceFacts, TorrentFacts DEF CallInv, Accepted, TypeOK
<1>2. /\ path \in Path /\ files[h].offset \in Nat /\ disk \in [Path -> Seq(Int)]
      /\ at \in Int /\ n \in Int /\ h \in 1 .. Len(files)
  <2>1. path \in Path /\ files[h].offset \in Nat /\ disk \in [Path -> Seq(Int)]
    BY TorrentFacts DEF TypeOK
  <2>2. n \in Int
    BY CallFacts
  <2>3. h \in 1 .. Len(files)
    BY ElementOf DEF TypeOK
  <2> QED
    BY <2>1, <2>2, <2>3, <1>1 DEF LocalIndex
<1>3. disk[path] \in Seq(Int) /\ DOMAIN disk[path] = 1 .. Len(disk[path])
  BY <1>2
<1>4. \A k \in at .. at + n - 1 : DataByte(io.piece, io.done + (k - at)) = io.pos + (k - at)
  BY <1>1, <1>2 DEF DataByte
<1>5. disk' = [disk EXCEPT ![path] = New]
  BY DEF Put
<1>6. \A k \in DOMAIN disk[path] :
         New[k] = IF k \in at .. at + n - 1 THEN io.pos + (k - at) ELSE disk[path][k]
  BY <1>4
<1>7. \A k \in DOMAIN disk[path] : New[k] \in Int
  <2> HIDE DEF New, at, path
  <2>1. ASSUME NEW k \in DOMAIN disk[path]  PROVE New[k] \in Int
    <3>1. k \in Int /\ disk[path][k] \in Int
      BY <1>3, ElementOf
    <3>2. io.pos \in Int /\ at \in Int
      BY <1>1, <1>2
    <3> QED
      BY <3>1, <3>2, <1>6
  <2> QED
    BY <2>1
<1>8. New \in Seq(Int) /\ Len(New) = Len(disk[path]) /\ DOMAIN New = DOMAIN disk[path]
  <2>1. New = [k \in DOMAIN disk[path] |-> New[k]]
    OBVIOUS
  <2>2. Len(disk[path]) \in Nat
    BY <1>3
  <2> HIDE DEF New, at, path
  <2>3. New \in [1 .. Len(disk[path]) -> Int]
    BY <2>1, <1>3, <1>7
  <2> QED
    BY <2>2, <2>3, <1>3, IsSequence
<1> HIDE DEF New, at, path
<1>9. disk' \in [Path -> Seq(Int)]
  BY <1>2, <1>5, <1>8
<1>10. disk'[path] = New /\ \A x \in Path : x # path => disk'[x] = disk[x]
  BY <1>2, <1>5
<1>11. \A x \in Path : Len(disk'[x]) = Len(disk[x])
  BY <1>8, <1>10
<1>12. Len(disk[path]) = files[h].length
  BY <1>2 DEF DiskInv, path
<1>13. ASSUME NEW q \in Int
       PROVE  Right(q)' <=> Right(q) \/ q \in io.pos .. io.pos + n - 1
  <2>1. files' = files
    BY DEF torrentVars
  <2>2. Right(q)' <=> \E i \in DOMAIN files :
                        /\ Holds(i, q) /\ LocalIndex(i, q) \in DOMAIN disk'[files[i].path]
                        /\ disk'[files[i].path][LocalIndex(i, q)] = q
    BY <2>1, SameTorrent DEF Right
  <2>3. CASE Holds(h, q)
    <3>1. LocalIndex(h, q) \in DOMAIN disk[path] /\ (Right(q) <=> disk[path][LocalIndex(h, q)] = q)
      BY <2>3, <1>12, RightInFile DEF path
    <3>2. Right(q)' <=> New[LocalIndex(h, q)] = q
      BY <2>2, <2>3, <3>1, <1>8, <1>10, OneFile DEF path
    <3>3. files[h].offset \in Int /\ io.pos \in Int /\ n \in Int
      BY <1>1, <1>2
    <3>4. LocalIndex(h, q) - at = q - io.pos
      BY <3>3 DEF LocalIndex, at
    <3>5. LocalIndex(h, q) \in at .. at + n - 1 <=> q \in io.pos .. io.pos + n - 1
      BY <3>3 DEF LocalIndex, at
    <3>6. New[LocalIndex(h, q)] = IF q \in io.pos .. io.pos + n - 1
                                  THEN q ELSE disk[path][LocalIndex(h, q)]
      <4>1. New[LocalIndex(h, q)] = IF LocalIndex(h, q) \in at .. at + n - 1
                                    THEN io.pos + (LocalIndex(h, q) - at)
                                    ELSE disk[path][LocalIndex(h, q)]
        BY <3>1, <1>6
      <4>2. io.pos + (LocalIndex(h, q) - at) = q
        BY <3>3, <3>4
      <4> QED
        BY <4>1, <4>2, <3>5
    <3> QED
      BY <3>1, <3>2, <3>6
  <2>4. CASE ~Holds(h, q)
    <3>1. q \notin io.pos .. io.pos + n - 1
      BY <2>4, <1>1, <1>2, CallFacts
    <3>2. \A i \in DOMAIN files : i # h => files[i].path \in Path /\ files[i].path # path
      BY TorrentFacts DEF LayoutInv, path
    <3>3. \A i \in DOMAIN files : i # h => disk'[files[i].path] = disk[files[i].path]
      BY <3>2, <1>10
    <3> QED
      BY <2>2, <2>4, <3>1, <3>3 DEF Right
  <2> QED
    BY <2>3, <2>4
<1> QED
  BY <1>9, <1>11, <1>13

\* Opening a file keeps the right bytes that are in it.
LEMMA OpenEffect ==
    ASSUME TypeOK, LayoutInv, OpenFile
    PROVE  /\ disk' \in [Path -> Seq(Int)]
           /\ Len(disk'[files[opened + 1].path]) = files[opened + 1].length
           /\ \A i \in DOMAIN files : i # opened + 1 => disk'[files[i].path] = disk[files[i].path]
           /\ \A q \in Int : Right(q) => Right(q)'
<1> DEFINE h == opened + 1
           path == files[h].path
           n == files[h].length
           New == Truncated(disk[path], n)
<1>1. /\ h \in DOMAIN files /\ path \in Path /\ n \in Nat /\ disk \in [Path -> Seq(Int)]
      /\ disk[path] \in Seq(Int)
  <2>1. opened \in 0 .. Len(files) /\ opened < Len(files) /\ disk \in [Path -> Seq(Int)]
    BY DEF OpenFile, TypeOK
  <2>2. h \in DOMAIN files
    BY <2>1, TorrentFacts
  <2>3. path \in Path /\ n \in Nat
    BY <2>2, TorrentFacts
  <2> QED
    BY <2>1, <2>2, <2>3
<1>2. New \in [1 .. n -> Int]
  <2>1. \A k \in 1 .. n : k <= Len(disk[path]) => disk[path][k] \in Int
    BY <1>1
  <2> HIDE DEF path, n
  <2> QED
    BY <2>1 DEF Truncated, Blank
<1>3. New \in Seq(Int) /\ Len(New) = n /\ DOMAIN New = 1 .. n
  BY <1>1, <1>2, IsSequence
<1>4. disk' = [disk EXCEPT ![path] = New] /\ UNCHANGED torrentVars /\ files' = files
  BY DEF OpenFile, torrentVars
<1>5. \A k \in 1 .. n : k \in DOMAIN disk[path] => New[k] = disk[path][k]
  <2>1. \A k \in DOMAIN disk[path] : k <= Len(disk[path])
    BY <1>1, ElementOf
  <2> HIDE DEF path, n
  <2> QED
    BY <2>1 DEF Truncated
<1> HIDE DEF New
<1>6. disk' \in [Path -> Seq(Int)] /\ disk'[path] = New
  BY <1>1, <1>3, <1>4
<1>7. \A i \in DOMAIN files : i # h => disk'[files[i].path] = disk[files[i].path]
  <2>1. \A i \in DOMAIN files : i # h => files[i].path \in Path /\ files[i].path # path
    BY <1>1, TorrentFacts DEF LayoutInv
  <2> QED
    BY <2>1, <1>1, <1>4
<1>8. ASSUME NEW q \in Int, Right(q)  PROVE Right(q)'
  <2>1. PICK i \in DOMAIN files : /\ Holds(i, q) /\ LocalIndex(i, q) \in DOMAIN disk[files[i].path]
                                  /\ disk[files[i].path][LocalIndex(i, q)] = q
    BY <1>8 DEF Right
  <2>2. LocalIndex(i, q) \in 1 .. files[i].length
    <3>1. files[i].offset \in Nat /\ files[i].length \in Nat
      BY TorrentFacts
    <3> QED
      BY <2>1, <3>1 DEF Holds, LocalIndex
  <2>3. /\ LocalIndex(i, q) \in DOMAIN disk'[files[i].path]
        /\ disk'[files[i].path][LocalIndex(i, q)] = q
    <3>1. CASE i = h
      BY <3>1, <2>1, <2>2, <1>3, <1>5, <1>6
    <3>2. CASE i # h
      BY <3>2, <2>1, <1>7
    <3> QED
      BY <3>1, <3>2
  <2> QED
    BY <2>1, <2>3, <1>4, SameTorrent DEF Right
<1> QED
  BY <1>3, <1>6, <1>7, <1>8

-----------------------------------------------------------------------------
(***************************************************************************)
(* The invariant: parsing.                                                 *)
(***************************************************************************)
LEMMA InitInv ==
    ASSUME Init  PROVE IInv
<1>1. TypeOK
  <2>1. disk \in [Path -> Seq(Int)]
    BY ConstantsAssumption DEF Init
  <2> QED
    BY <2>1, ConstantsAssumption DEF Init, TypeOK
<1> QED
  BY <1>1 DEF IInv, Init, LayoutInv, DiskInv, CallInv, ScanInv, LoopInv, Accepted

LEMMA ParseEntryInv ==
    ASSUME IInv, ParseEntry  PROVE IInv'
<1> DEFINE n == Len(files)
           e == meta.entries[n + 1]
           f == [path |-> e.path, length |-> e.length, offset |-> total]
<1>1. /\ TypeOK /\ n \in Nat /\ DOMAIN files = 1 .. n /\ total \in Nat
      /\ pc = "parse" /\ pc' = "parse"
  BY TorrentFacts DEF IInv, ParseEntry
<1>2. e.length \in Nat /\ e.path \in Path /\ total + e.length <= MaxInt
  <2>1. meta.entries \in Seq([length : Int, path : Path]) /\ n + 1 \in DOMAIN meta.entries
    BY <1>1, TorrentFacts DEF ParseEntry
  <2>2. e \in [length : Int, path : Path]
    BY <2>1, ElementOf
  <2>3. MaxInt \in Nat /\ e.length >= 0 /\ ~(total > MaxInt - e.length)
    BY <2>2, ConstantsAssumption DEF ParseEntry, BadEntry, Overflows
  <2> QED
    BY <2>2, <2>3, <1>1
<1>3. \A i \in DOMAIN files : files[i].path # e.path
  BY DEF ParseEntry, BadEntry
<1>4. /\ files' = Append(files, f) /\ total' = total + e.length
      /\ UNCHANGED <<meta, pc, disk, opened, pending, unread, io, runs>>
  BY DEF ParseEntry
<1> HIDE DEF e
<1>5. files \in Seq([path : Path, length : Nat, offset : Nat])
  BY <1>1 DEF TypeOK
<1>6. /\ f \in [path : Path, length : Nat, offset : Nat]
      /\ f.path = e.path /\ f.length = e.length /\ f.offset = total
  BY <1>1, <1>2
<1> HIDE DEF f
<1>7. /\ files' \in Seq([path : Path, length : Nat, offset : Nat])
      /\ Len(files') = n + 1 /\ DOMAIN files' = 1 .. n + 1
      /\ files'[n + 1] = f /\ \A i \in 1 .. n : files'[i] = files[i]
  BY <1>4, <1>5, <1>6
<1>8. TypeOK'
  <2>1. total' \in 0 .. MaxInt
    BY <1>1, <1>2, <1>4, ConstantsAssumption
  <2>2. opened' \in 0 .. Len(files')
    BY <1>1, <1>4, <1>7 DEF TypeOK
  <2>3. Piece' = Piece
    BY <1>4 DEF Piece, PieceCount
  <2> QED
    BY <1>1, <1>4, <1>7, <2>1, <2>2, <2>3 DEF TypeOK
<1> HIDE DEF n
<1>9. LayoutInv'
  <2>0. /\ \A i \in 1 .. n : files[i].offset + files[i].length <= total
        /\ \A i, j \in 1 .. n : i < j => files[i].offset + files[i].length <= files[j].offset
        /\ \A q \in 0 .. total - 1 : \E i \in 1 .. n : Holds(i, q)
        /\ \A i, j \in 1 .. n : files[i].path = files[j].path => i = j
        /\ \A i \in 1 .. n : files[i].length \in Nat /\ files[i].offset \in Nat
    <3>1. LayoutInv
      BY DEF IInv
    <3>2. \A i \in DOMAIN files : files[i].length \in Nat /\ files[i].offset \in Nat
      BY <1>1, TorrentFacts
    <3> QED
      BY <3>1, <3>2, <1>1 DEF LayoutInv
  <2>1. ASSUME NEW i \in 1 .. n + 1
        PROVE  files'[i].offset + files'[i].length <= total'
    <3>1. CASE i = n + 1
      BY <3>1, <1>2, <1>4, <1>6, <1>7
    <3>2. CASE i # n + 1
      <4>1. i \in 1 .. n /\ files'[i] = files[i]
        BY <3>2, <1>1, <1>7
      <4> QED
        BY <4>1, <2>0, <1>1, <1>2, <1>4
    <3> QED
      BY <3>1, <3>2
  <2>2. ASSUME NEW i \in 1 .. n + 1, NEW j \in 1 .. n + 1, i < j
        PROVE  files'[i].offset + files'[i].length <= files'[j].offset
    <3>1. i \in 1 .. n /\ files'[i] = files[i]
      BY <2>2, <1>1, <1>7
    <3>2. CASE j = n + 1
      BY <3>1, <3>2, <2>0, <1>6, <1>7
    <3>3. CASE j # n + 1
      <4>1. j \in 1 .. n /\ files'[j] = files[j]
        BY <3>3, <1>1, <1>7
      <4> QED
        BY <4>1, <3>1, <2>0, <2>2
    <3> QED
      BY <3>2, <3>3
  <2>3. ASSUME NEW q \in 0 .. total' - 1
        PROVE  \E i \in DOMAIN files' : Holds(i, q)'
    <3>1. CASE q < total
      <4>1. q \in 0 .. total - 1
        BY <3>1, <1>1, <1>2, <1>4
      <4>2. PICK i \in 1 .. n : Holds(i, q)
        BY <4>1, <2>0
      <4>3. i \in DOMAIN files' /\ files'[i] = files[i]
        BY <4>2, <1>1, <1>7
      <4>4. Holds(i, q)'
        BY <4>2, <4>3 DEF Holds
      <4> QED
        BY <4>3, <4>4
    <3>2. CASE q >= total
      <4>1. n + 1 \in DOMAIN files'
        BY <1>1, <1>7
      <4>2. ASSUME NEW m, m = n + 1  PROVE Holds(m, q)'
        BY <4>2, <3>2, <1>1, <1>2, <1>4, <1>6, <1>7 DEF Holds
      <4> QED
        BY <4>1, <4>2
    <3> QED
      BY <3>1, <3>2, <1>1, <1>2, <1>4
  <2>4. ASSUME NEW i \in 1 .. n + 1, NEW j \in 1 .. n + 1, files'[i].path = files'[j].path
        PROVE  i = j
    <3>1. \A k \in 1 .. n + 1 : k = n + 1 \/ (k \in 1 .. n /\ files'[k] = files[k])
      BY <1>1, <1>7
    <3>2. \A k \in 1 .. n : files[k].path # files'[n + 1].path
      BY <1>1, <1>3, <1>6, <1>7
    <3> QED
      BY <3>1, <3>2, <2>0, <2>4
  <2> QED
    BY <2>1, <2>2, <2>3, <2>4, <1>1, <1>7 DEF LayoutInv, Accepted
<1>10. DiskInv'
  <2>1. \A i \in 1 .. opened : i \in 1 .. n
    BY <1>1 DEF TypeOK
  <2> QED
    BY <2>1, <1>1, <1>4, <1>7 DEF IInv, DiskInv
<1> QED
  BY <1>1, <1>4, <1>8, <1>9, <1>10 DEF IInv, CallInv, ScanInv, LoopInv

LEMMA VerdictInv ==
    ASSUME IInv, Accept \/ Reject  PROVE IInv'
<1>1. /\ pc = "parse" /\ pc' \in {"open", "rejected"} /\ UNCHANGED torrentVars
      /\ UNCHANGED <<disk, opened, pending, unread, io, runs>>
  BY DEF Accept, Reject
<1>2. TypeOK'
  BY <1>1, SameTorrent DEF IInv, TypeOK, torrentVars
<1>3. LayoutInv'
  <2>1. CASE pc' = "rejected"
    <3>1. ~Accepted'
      BY <2>1 DEF Accepted
    <3> QED
      BY <3>1, <1>1, LayoutStays DEF IInv
  <2>2. CASE pc' = "open"
    <3>1. ~BadPieces
      BY <2>2 DEF Accept, Reject
    <3>2. /\ PieceLength \in 1 .. MaxPieceLength /\ PieceCount = ExpectedPieces(total)
          /\ meta.pieces % HashSize = 0 /\ meta.pieces # 0
      BY <3>1, ConstantsAssumption DEF BadPieces
    <3>3. PieceCount >= 1
      <4>1. /\ PieceCount \in Nat /\ meta.pieces = (PieceCount * HashSize) + (meta.pieces % HashSize)
            /\ meta.pieces \in Nat
        BY TorrentFacts, Division, ConstantsAssumption DEF IInv, PieceCount
      <4>2. ASSUME PieceCount = 0  PROVE FALSE
        BY <4>1, <4>2, <3>2, ConstantsAssumption
      <4> QED
        BY <4>1, <4>2
    <3>4. UNCHANGED <<files, total, PieceLength, PieceCount, ExpectedPieces(total)>>
      BY <1>1, SameTorrent DEF torrentVars, ExpectedPieces
    <3> QED
      BY <3>2, <3>3, <3>4, <1>1, SameTorrent, ConstantsAssumption DEF IInv, LayoutInv
  <2> QED
    BY <1>1, <2>1, <2>2
<1>4. DiskInv'
  BY <1>1 DEF IInv, DiskInv, torrentVars
<1> QED
  BY <1>1, <1>2, <1>3, <1>4 DEF IInv, CallInv, ScanInv, LoopInv

-----------------------------------------------------------------------------
(***************************************************************************)
(* The invariant: files, scan and writes.                                  *)
(***************************************************************************)
LEMMA OpenFileInv ==
    ASSUME IInv, OpenFile  PROVE IInv'
<1>1. /\ pc = "open" /\ pc' = "open" /\ opened < Len(files) /\ opened' = opened + 1
      /\ UNCHANGED torrentVars /\ files' = files /\ UNCHANGED <<pending, unread, io, runs>>
      /\ TypeOK /\ LayoutInv
  BY DEF OpenFile, torrentVars, IInv
<1>2. TypeOK'
  <2>1. disk' \in [Path -> Seq(Int)]
    BY <1>1, OpenEffect
  <2>2. opened' \in 0 .. Len(files)
    BY <1>1, TorrentFacts DEF TypeOK
  <2> QED
    BY <1>1, <2>1, <2>2, SameTorrent DEF TypeOK, torrentVars
<1>3. LayoutInv'
  BY <1>1, LayoutStays DEF Accepted
<1>4. DiskInv'
  <2>1. opened \in Nat /\ opened + 1 \in DOMAIN files /\ 1 .. opened \subseteq DOMAIN files
    <3>1. opened \in 0 .. Len(files)
      BY <1>1 DEF TypeOK
    <3>2. DOMAIN files = 1 .. Len(files) /\ Len(files) \in Nat
      BY <1>1, TorrentFacts
    <3> QED
      BY <3>1, <3>2, <1>1
  <2>2. ASSUME NEW i \in 1 .. opened + 1
        PROVE  Len(disk'[files[i].path]) = files[i].length
    <3>1. CASE i = opened + 1
      BY <3>1, <1>1, OpenEffect
    <3>2. CASE i # opened + 1
      <4>1. i \in 1 .. opened
        BY <3>2, <2>1
      <4>2. disk'[files[i].path] = disk[files[i].path]
        BY <4>1, <3>2, <2>1, <1>1, OpenEffect
      <4> QED
        BY <4>1, <4>2 DEF IInv, DiskInv
    <3> QED
      BY <3>1, <3>2
  <2> QED
    BY <2>2, <1>1 DEF DiskInv
<1> QED
  BY <1>1, <1>2, <1>3, <1>4 DEF IInv, CallInv, ScanInv, LoopInv

\* What a call for piece p starts with.
LEMMA StartCallFacts ==
    ASSUME IInv, Accepted, NEW p \in Piece, StartCall(p), UNCHANGED torrentVars
    PROVE  /\ io' \in [piece : Nat, pos : Nat, done : Nat, same : BOOLEAN]
           /\ io'.piece = p /\ io'.done = 0 /\ io'.pos = Origin(p) /\ io'.same = TRUE
           /\ PieceByteLength(io.piece)' = PieceByteLength(p) /\ Origin(io.piece)' = Origin(p)
           /\ (io.piece \in Piece)' /\ (io.done \in 0 .. PieceByteLength(io.piece))'
           /\ (io.pos = Origin(io.piece) + io.done)'
<1>1. /\ p \in Nat /\ Origin(p) \in Nat /\ PieceByteLength(p) \in Nat
      /\ PieceByteLength(p)' = PieceByteLength(p) /\ Origin(p)' = Origin(p) /\ Piece' = Piece
  BY PieceFacts, TorrentFacts, SameTorrent DEF IInv, Piece
<1>2. io' = [piece |-> p, pos |-> Origin(p), done |-> 0, same |-> TRUE]
  BY DEF StartCall
<1>3. io'.piece = p /\ io'.done = 0 /\ io'.pos = Origin(p) /\ io'.same = TRUE
  BY <1>2
<1>4. PieceByteLength(io.piece)' = PieceByteLength(p) /\ Origin(io.piece)' = Origin(p)
  BY <1>3, SameTorrent DEF PieceByteLength, Origin, torrentVars
<1> QED
  BY <1>1, <1>2, <1>3, <1>4

LEMMA FilesOpenInv ==
    ASSUME IInv, FilesOpen  PROVE IInv'
<1>1. /\ pc = "open" /\ pc' = "scan" /\ opened = Len(files)
      /\ UNCHANGED torrentVars /\ files' = files
      /\ UNCHANGED <<disk, opened, pending, unread, runs>>
      /\ StartCall(0) /\ TypeOK /\ LayoutInv /\ Accepted
  BY DEF FilesOpen, torrentVars, IInv, Accepted
<1>2. 0 \in Piece
  BY <1>1, TorrentFacts DEF LayoutInv, Piece
<1>3. /\ io' \in [piece : Nat, pos : Nat, done : Nat, same : BOOLEAN]
      /\ io'.piece = 0 /\ io'.pos = Origin(0) /\ io'.same = TRUE /\ Origin(io.piece)' = Origin(0)
  BY <1>1, <1>2, StartCallFacts
<1>4. TypeOK'
  BY <1>1, <1>3, SameTorrent DEF TypeOK, torrentVars
<1>5. LayoutInv'
  BY <1>1, LayoutStays
<1>6. DiskInv' 
  BY <1>1 DEF IInv, DiskInv
<1>7. CallInv'
  BY <1>1, <1>2, StartCallFacts DEF CallInv
<1>8. ScanInv'
  <2>1. pending' = {} /\ unread' = {}
    BY <1>1 DEF IInv, ScanInv
  <2>2. Piece' = Piece /\ \A p \in Piece : ~(p < 0)
    BY <1>1, TorrentFacts, SameTorrent DEF Piece
  <2>3. Origin(io.piece)' = io'.pos /\ io'.pos \in Int
    BY <1>3
  <2>4. \A q : q \notin (Origin(io.piece) .. io.pos - 1)'
    BY <2>3
  <2> QED
    BY <1>1, <1>3, <2>1, <2>2, <2>4 DEF ScanInv
<1> QED
  BY <1>1, <1>4, <1>5, <1>6, <1>7, <1>8 DEF IInv, LoopInv

\* What a round of a call does to io.
LEMMA RoundFacts ==
    ASSUME IInv, pc \in {"scan", "write"}, Left > 0, UNCHANGED torrentVars,
           NEW n \in Nat, n <= Left, NEW same \in BOOLEAN,
           io' = [piece |-> io.piece, pos |-> io.pos + n, done |-> io.done + n, same |-> same]
    PROVE  /\ io' \in [piece : Nat, pos : Nat, done : Nat, same : BOOLEAN]
           /\ io'.piece = io.piece /\ io'.pos = io.pos + n /\ io'.same = same
           /\ Origin(io.piece)' = Origin(io.piece)
           /\ (io.piece \in Piece)' /\ (io.done \in 0 .. PieceByteLength(io.piece))'
           /\ (io.pos = Origin(io.piece) + io.done)'
<1>1. /\ io \in [piece : Nat, pos : Nat, done : Nat, same : BOOLEAN]
      /\ io.piece \in Piece /\ io.done \in 0 .. PieceByteLength(io.piece)
      /\ io.pos = Origin(io.piece) + io.done
  BY DEF IInv, TypeOK, CallInv
<1>2. /\ Origin(io.piece) \in Nat /\ PieceByteLength(io.piece) \in Nat
  BY <1>1, PieceFacts, TorrentFacts DEF IInv, Accepted
<1>3. /\ io'.piece = io.piece /\ io'.pos = io.pos + n /\ io'.done = io.done + n /\ io'.same = same
      /\ io' \in [piece : Nat, pos : Nat, done : Nat, same : BOOLEAN]
  BY <1>1
<1>4. PieceByteLength(io.piece)' = PieceByteLength(io.piece) /\ Origin(io.piece)' = Origin(io.piece)
  BY <1>3, SameTorrent DEF PieceByteLength, Origin, torrentVars
<1> QED
  BY <1>1, <1>2, <1>3, <1>4, SameTorrent DEF Left

LEMMA ReadChunkInv ==
    ASSUME IInv, ReadChunk  PROVE IInv'
<1> DEFINE Matches(i) == \A k \in 0 .. Chunk(i) - 1 :
               disk[files[i].path][LocalIndex(i, io.pos) + k] = DataByte(io.piece, io.done + k)
<1>1. /\ pc = "scan" /\ Left > 0 /\ TypeOK /\ LayoutInv /\ CallInv /\ Accepted
      /\ UNCHANGED torrentVars /\ UNCHANGED <<pc, disk, opened, pending, unread, runs>> /\ files' = files
  BY DEF ReadChunk, IInv, Accepted, torrentVars
<1>2. PICK i \in DOMAIN files :
         /\ Locates(i, io.pos)
         /\ io' = [io EXCEPT !.pos = @ + Chunk(i), !.done = @ + Chunk(i),
                             !.same = StillSame(@, Matches(i))]
  BY DEF ReadChunk
<1> DEFINE n == Chunk(i)
           same == StillSame(io.same, Matches(i))
<1>3. /\ n \in Nat \ {0} /\ n <= Left /\ Left \in Nat
      /\ io.pos \in Nat /\ io.pos + Left <= total
      /\ \A q \in io.pos .. io.pos + n - 1 : Holds(i, q)
  BY <1>1, <1>2, CallFacts, TorrentFacts
<1>4. same \in BOOLEAN /\ (same <=> io.same /\ Matches(i))
  BY DEF StillSame
<1>5. io' = [piece |-> io.piece, pos |-> io.pos + n, done |-> io.done + n, same |-> same]
  <2>1. io \in [piece : Nat, pos : Nat, done : Nat, same : BOOLEAN]
    BY <1>1 DEF TypeOK
  <2>2. io' = [io EXCEPT !.pos = io.pos + n, !.done = io.done + n, !.same = same]
    BY <1>2
  <2> HIDE DEF n, same
  <2> QED
    BY <2>1, <2>2
<1>6. Matches(i) <=> \A q \in io.pos .. io.pos + n - 1 : Right(q)
  <2>1. Len(disk[files[i].path]) = files[i].length
    BY <1>1, TorrentFacts DEF IInv, DiskInv
  <2>2. /\ io.done \in Nat /\ Origin(io.piece) \in Nat /\ io.pos = Origin(io.piece) + io.done
        /\ files[i].offset \in Nat
    BY <1>1, PieceFacts, TorrentFacts DEF CallInv, TypeOK
  <2>3. ASSUME NEW k \in 0 .. n - 1
        PROVE  /\ io.pos + k \in io.pos .. io.pos + n - 1
               /\ LocalIndex(i, io.pos) + k = LocalIndex(i, io.pos + k)
               /\ DataByte(io.piece, io.done + k) = io.pos + k
    BY <1>3, <2>2 DEF LocalIndex, DataByte
  <2>4. \A q \in io.pos .. io.pos + n - 1 : q - io.pos \in 0 .. n - 1 /\ io.pos + (q - io.pos) = q
    BY <1>3
  <2>5. \A q \in io.pos .. io.pos + n - 1 : 
           Right(q) <=> disk[files[i].path][LocalIndex(i, q)] = q
    BY <1>1, <1>3, <2>1, RightInFile
  <2>6. ASSUME Matches(i), NEW q \in io.pos .. io.pos + n - 1  PROVE Right(q)
    <3> DEFINE k == q - io.pos
    <3>1. k \in 0 .. n - 1 /\ io.pos + k = q
      BY <2>4
    <3>2. disk[files[i].path][LocalIndex(i, io.pos) + k] = DataByte(io.piece, io.done + k)
      BY <2>6, <3>1
    <3> HIDE DEF k, n
    <3> QED
      BY <2>3, <2>5, <3>1, <3>2
  <2>7. ASSUME \A q \in io.pos .. io.pos + n - 1 : Right(q), NEW k \in 0 .. n - 1
        PROVE  disk[files[i].path][LocalIndex(i, io.pos) + k] = DataByte(io.piece, io.done + k)
    <3> HIDE DEF n
    <3> QED
      BY <2>3, <2>5, <2>7
  <2> QED
    BY <2>6, <2>7
<1> HIDE DEF n, same, Matches
<1>7. /\ io' \in [piece : Nat, pos : Nat, done : Nat, same : BOOLEAN]
      /\ io'.piece = io.piece /\ io'.pos = io.pos + n /\ io'.same = same
      /\ Origin(io.piece)' = Origin(io.piece)
      /\ CallInv'
  BY <1>1, <1>3, <1>4, <1>5, RoundFacts DEF CallInv
<1>8. TypeOK' /\ LayoutInv' /\ DiskInv'
  <2>1. TypeOK'
    BY <1>1, <1>7, SameTorrent DEF TypeOK, torrentVars
  <2>2. LayoutInv'
    BY <1>1, LayoutStays
  <2>3. DiskInv'
    BY <1>1 DEF IInv, DiskInv
  <2> QED
    BY <2>1, <2>2, <2>3
<1>9. ScanInv'
  <2>1. Origin(io.piece) \in Nat /\ Origin(io.piece) <= io.pos
    <3>1. /\ io.piece \in Piece /\ io.done \in 0 .. PieceByteLength(io.piece)
          /\ io.pos = Origin(io.piece) + io.done
      BY <1>1 DEF CallInv
    <3>2. Origin(io.piece) \in Nat /\ PieceByteLength(io.piece) \in 1 .. PieceLength
      BY <1>1, <3>1, PieceFacts
    <3> QED
      BY <3>1, <3>2
  <2>2. io.same <=> \A q \in Origin(io.piece) .. io.pos - 1 : Right(q)
    BY <1>1 DEF IInv, ScanInv
  <2>3. same <=> \A q \in Origin(io.piece) .. io.pos + n - 1 : Right(q)
    BY <2>1, <2>2, <1>3, <1>4, <1>6
  <2>4. (io.same <=> \A q \in Origin(io.piece) .. io.pos - 1 : Right(q))'
    <3>1. (Origin(io.piece) .. io.pos - 1)' = Origin(io.piece) .. io.pos + n - 1
      BY <1>3, <1>7
    <3>2. (\A q \in Origin(io.piece) .. io.pos - 1 : Right(q))'
             <=> \A q \in Origin(io.piece) .. io.pos + n - 1 : Right(q)
      BY <1>1, <3>1, SameBytes
    <3>3. io'.same = same
      BY <1>7
    <3> QED
      BY <2>3, <3>2, <3>3, Zenon
  <2>5. \A p \in Piece : p \in pending <=> p < io.piece /\ Wanted(p)
    BY <1>1 DEF IInv, ScanInv
  <2>6. (\A p \in Piece : p \in pending <=> p < io.piece /\ Wanted(p))'
    BY <1>1, <1>7, <2>5, SameBytes, SameTorrent DEF Wanted
  <2> QED
    BY <1>1, <1>7, <2>4, <2>6 DEF IInv, ScanInv
<1> QED
  BY <1>1, <1>7, <1>8, <1>9 DEF IInv, LoopInv

\* At the end of a call its piece is behind it.
LEMMA CallOver ==
    ASSUME IInv, pc \in {"scan", "write"}, Left = 0
    PROVE  /\ io.piece \in Piece /\ io.piece \in Nat
           /\ Span(io.piece) = Origin(io.piece) .. io.pos - 1
<1>1. /\ io.piece \in Piece /\ io.done \in 0 .. PieceByteLength(io.piece)
      /\ io.pos = Origin(io.piece) + io.done
  BY DEF IInv, CallInv
<1>2. Origin(io.piece) \in Nat /\ PieceByteLength(io.piece) \in Nat /\ io.piece \in Nat
  BY <1>1, PieceFacts, TorrentFacts DEF IInv, Accepted, Piece
<1>3. io.pos - 1 = Origin(io.piece) + PieceByteLength(io.piece) - 1
  BY <1>1, <1>2 DEF Left
<1> QED
  BY <1>1, <1>2, <1>3 DEF Span

\* The scan goes on with the next piece, or it is over.
LEMMA NextPieceInv ==
    ASSUME IInv, pc = "scan", NextPiece, UNCHANGED torrentVars, UNCHANGED <<disk, opened, runs>>,
           pending' \subseteq Piece, unread' \subseteq Piece,
           \A p \in unread' : p < io.piece + 1,
           \A p \in Piece : p \in pending' <=> p < io.piece + 1 /\ Wanted(p)'
    PROVE  IInv'
<1>1. /\ TypeOK /\ LayoutInv /\ Accepted /\ files' = files
      /\ io.piece \in Nat /\ io.piece \in Piece
  BY DEF IInv, Accepted, torrentVars, TypeOK, CallInv
<1>2. Piece = 0 .. PieceCount - 1 /\ PieceCount \in Nat
  BY <1>1, TorrentFacts DEF Piece
<1>3. LayoutInv' /\ Piece' = Piece
  <2>1. Accepted'
    BY DEF NextPiece, Accepted
  <2> QED
    BY <2>1, <1>1, LayoutStays, SameTorrent
<1>4. CASE io.piece + 1 \in Piece
  <2>1. StartCall(io.piece + 1) /\ pc' = "scan"
    BY <1>4 DEF NextPiece
  <2>2. ASSUME NEW p \in Piece, p = io.piece + 1, StartCall(p)
        PROVE  IInv'
    <3>1. /\ io' \in [piece : Nat, pos : Nat, done : Nat, same : BOOLEAN]
          /\ io'.piece = p /\ io'.pos = Origin(p) /\ io'.same = TRUE
          /\ Origin(io.piece)' = Origin(p) /\ CallInv'
      BY <1>1, <2>1, <2>2, StartCallFacts DEF CallInv
    <3>2. TypeOK'
      BY <1>1, <1>3, <2>1, <3>1 DEF TypeOK, torrentVars
    <3>3. DiskInv'
      BY <1>1, <2>1 DEF IInv, DiskInv
    <3>4. ScanInv'
      <4>1. (\A q \in Origin(io.piece) .. io.pos - 1 : Right(q))'
        <5>1. io'.pos \in Int /\ Origin(io.piece)' = io'.pos
          BY <3>1
        <5> QED
          BY <5>1
      <4> QED
        BY <1>3, <2>1, <2>2, <3>1, <4>1 DEF ScanInv
    <3> QED
      BY <1>3, <2>1, <3>1, <3>2, <3>3, <3>4 DEF IInv, LoopInv
  <2> QED
    BY <1>4, <2>1, <2>2
<1>5. CASE io.piece + 1 \notin Piece
  <2>1. io' = io /\ pc' = "loop"
    BY <1>5 DEF NextPiece
  <2>2. \A p \in Piece : p < io.piece + 1
    BY <1>1, <1>2, <1>5
  <2>3. TypeOK'
    BY <1>1, <1>3, <2>1 DEF TypeOK, torrentVars
  <2>4. DiskInv'
    BY <1>1, <2>1 DEF IInv, DiskInv
  <2>5. LoopInv'
    BY <1>3, <2>1, <2>2 DEF LoopInv
  <2> QED
    BY <1>3, <2>1, <2>3, <2>4, <2>5 DEF IInv, CallInv, ScanInv
<1> QED
  BY <1>4, <1>5

\* The pieces before the next one.
LEMMA ScannedPieces ==
    ASSUME IInv, pc = "scan"
    PROVE  /\ pending \subseteq Piece /\ unread \subseteq Piece /\ io.piece \in Piece
           /\ io.piece \notin unread /\ io.piece \notin pending
           /\ \A p \in unread : p < io.piece
           /\ \A p \in Piece : /\ p < io.piece + 1 <=> p < io.piece \/ p = io.piece
                               /\ p \in pending <=> p < io.piece /\ Wanted(p)
<1>1. TypeOK /\ io.piece \in Piece /\ io.piece \in Nat /\ pending \subseteq Piece /\ unread \subseteq Piece
  BY DEF IInv, CallInv, TypeOK
<1>2. \A p \in Piece : p \in Nat
  BY <1>1, TorrentFacts DEF Piece
<1>3. \A p \in Piece : p < io.piece + 1 <=> p < io.piece \/ p = io.piece
  BY <1>1, <1>2
<1>4. ~(io.piece < io.piece)
  BY <1>1
<1> QED
  BY <1>1, <1>3, <1>4 DEF IInv, ScanInv

LEMMA PieceScannedInv ==
    ASSUME IInv, PieceScanned  PROVE IInv'
<1>1. /\ pc = "scan" /\ Left = 0 /\ UNCHANGED torrentVars
      /\ UNCHANGED <<disk, opened, unread, runs>> /\ NextPiece
      /\ pending' = IF io.same THEN pending ELSE pending \cup {io.piece}
  BY DEF PieceScanned
<1>2. io.same <=> PieceRight(io.piece)
  <2>1. io.same <=> \A q \in Origin(io.piece) .. io.pos - 1 : Right(q)
    BY <1>1 DEF IInv, ScanInv
  <2> QED
    BY <2>1, <1>1, CallOver DEF PieceRight
<1>3. pending' = IF PieceRight(io.piece) THEN pending ELSE pending \cup {io.piece}
  BY <1>1, <1>2, Zenon
<1>4. \A p : Wanted(p)' <=> Wanted(p)
  BY <1>1, SameBytes DEF Wanted
<1>5. /\ pending' \subseteq Piece /\ unread' \subseteq Piece
      /\ \A p \in unread' : p < io.piece + 1
      /\ \A p \in Piece : p \in pending' <=> p < io.piece + 1 /\ Wanted(p)
  BY <1>1, <1>3, ScannedPieces DEF Wanted
<1> QED
  BY <1>1, <1>4, <1>5, NextPieceInv

LEMMA ReadFailsInv ==
    ASSUME IInv, ReadFails  PROVE IInv'
<1>1. /\ pc = "scan" /\ UNCHANGED torrentVars /\ UNCHANGED <<disk, opened, runs>> /\ NextPiece
      /\ pending' = pending \cup {io.piece} /\ unread' = unread \cup {io.piece}
  BY DEF ReadFails
<1>2. \A p : Wanted(p)' <=> Wanted(p) \/ p = io.piece
  BY <1>1, SameBytes DEF Wanted
<1>3. /\ pending' \subseteq Piece /\ unread' \subseteq Piece
      /\ \A p \in unread' : p < io.piece + 1
      /\ \A p \in Piece : p \in pending' <=> p < io.piece + 1 /\ (Wanted(p) \/ p = io.piece)
  BY <1>1, ScannedPieces
<1> QED
  BY <1>1, <1>2, <1>3, NextPieceInv

LEMMA TakePieceInv ==
    ASSUME IInv, NEW p \in pending, TakePiece(p)  PROVE IInv'
<1>1. /\ pc = "loop" /\ pc' = "write" /\ StartCall(p) /\ TypeOK /\ LayoutInv /\ Accepted
      /\ UNCHANGED torrentVars /\ UNCHANGED <<disk, opened, pending, unread, runs>> /\ files' = files
  BY DEF TakePiece, IInv, Accepted, torrentVars
<1>2. p \in Piece
  BY <1>1 DEF TypeOK
<1>3. /\ io' \in [piece : Nat, pos : Nat, done : Nat, same : BOOLEAN]
      /\ io'.piece = p /\ io'.pos = Origin(p) /\ Origin(io.piece)' = Origin(p)
      /\ (io.piece \in Piece)' /\ (io.done \in 0 .. PieceByteLength(io.piece))'
      /\ (io.pos = Origin(io.piece) + io.done)'
  BY <1>1, <1>2, StartCallFacts
<1>4. TypeOK'
  BY <1>1, <1>3, SameTorrent DEF TypeOK, torrentVars
<1>5. LayoutInv' /\ Piece' = Piece /\ \A r : PieceRight(r)' <=> PieceRight(r)
  BY <1>1, LayoutStays, SameTorrent, SameBytes
<1>6. DiskInv'
  BY <1>1 DEF IInv, DiskInv
<1>7. CallInv'
  BY <1>1, <1>3 DEF CallInv
<1>8. LoopInv'
  <2>1. (\A q \in Origin(io.piece) .. io.pos - 1 : Right(q))'
    <3>1. io'.pos \in Int /\ Origin(io.piece)' = io'.pos
      BY <1>3
    <3> QED
      BY <3>1
  <2>2. \A r \in Piece : r \in pending <=> Wanted(r)
    BY <1>1 DEF IInv, LoopInv
  <2> QED
    BY <1>1, <1>5, <2>1, <2>2 DEF LoopInv, Wanted
<1> QED
  BY <1>1, <1>4, <1>5, <1>6, <1>7, <1>8 DEF IInv, ScanInv

LEMMA WriteChunkInv ==
    ASSUME IInv, WriteChunk  PROVE IInv'
<1>1. /\ pc = "write" /\ Left > 0 /\ TypeOK /\ LayoutInv /\ DiskInv /\ CallInv /\ Accepted
      /\ UNCHANGED torrentVars /\ UNCHANGED <<pc, opened, pending, unread, runs>> /\ files' = files
  BY DEF WriteChunk, IInv, Accepted, torrentVars
<1>2. PICK i \in DOMAIN files :
         /\ Locates(i, io.pos) /\ Put(i, Chunk(i))
         /\ io' = [io EXCEPT !.pos = @ + Chunk(i), !.done = @ + Chunk(i)]
  BY DEF WriteChunk
<1> DEFINE n == Chunk(i)
<1>3. /\ n \in Nat \ {0} /\ n <= Left /\ Left \in Nat /\ n \in 0 .. Chunk(i)
      /\ io.pos \in Nat /\ io.piece \in Piece
  BY <1>1, <1>2, CallFacts, TorrentFacts
<1>4. /\ io.same \in BOOLEAN
      /\ io' = [piece |-> io.piece, pos |-> io.pos + n, done |-> io.done + n, same |-> io.same]
  <2>1. io \in [piece : Nat, pos : Nat, done : Nat, same : BOOLEAN]
    BY <1>1 DEF TypeOK
  <2>2. io' = [io EXCEPT !.pos = io.pos + n, !.done = io.done + n]
    BY <1>2
  <2> HIDE DEF n
  <2> QED
    BY <2>1, <2>2
<1>5. /\ disk' \in [Path -> Seq(Int)]
      /\ \A x \in Path : Len(disk'[x]) = Len(disk[x])
      /\ \A q \in Int : Right(q)' <=> Right(q) \/ q \in io.pos .. io.pos + n - 1
  BY <1>1, <1>2, <1>3, WriteEffect
<1> HIDE DEF n
<1>6. /\ io' \in [piece : Nat, pos : Nat, done : Nat, same : BOOLEAN]
      /\ io'.piece = io.piece /\ io'.pos = io.pos + n
      /\ Origin(io.piece)' = Origin(io.piece)
      /\ (io.piece \in Piece)' /\ (io.done \in 0 .. PieceByteLength(io.piece))'
      /\ (io.pos = Origin(io.piece) + io.done)'
  BY <1>1, <1>3, <1>4, RoundFacts
<1>7. TypeOK'
  BY <1>1, <1>5, <1>6, SameTorrent DEF TypeOK, torrentVars
<1>8. LayoutInv'
  BY <1>1, LayoutStays
<1>9. DiskInv'
  <2>1. \A k \in 1 .. opened : files[k].path \in Path
    <3>1. opened \in 0 .. Len(files)
      BY <1>1 DEF TypeOK
    <3> QED
      BY <3>1, <1>1, TorrentFacts
  <2> QED
    BY <2>1, <1>1, <1>5 DEF DiskInv
<1>10. CallInv'
  BY <1>1, <1>6 DEF IInv, CallInv
<1>11. LoopInv'
  <2>1. /\ Origin(io.piece) \in Nat /\ PieceByteLength(io.piece) \in Nat
        /\ io.done \in 0 .. PieceByteLength(io.piece) /\ io.pos = Origin(io.piece) + io.done
    BY <1>1, <1>3, PieceFacts, TorrentFacts DEF CallInv
  <2>2. (\A q \in Origin(io.piece) .. io.pos - 1 : Right(q))'
    <3>1. \A q \in Origin(io.piece) .. io.pos - 1 : Right(q)
      BY <1>1 DEF IInv, LoopInv
    <3>2. (Origin(io.piece) .. io.pos - 1)' = Origin(io.piece) .. (io.pos + n) - 1
      BY <1>6
    <3>3. \A q \in Origin(io.piece) .. (io.pos + n) - 1 : Right(q)'
      BY <1>3, <1>5, <2>1, <3>1
    <3> QED
      BY <3>2, <3>3
  <2>3. \A q \in io.pos .. io.pos + n - 1 : q \in Span(io.piece)
    BY <2>1, <1>3 DEF Span, Left
  <2>4. ASSUME NEW p \in Piece, p # io.piece
        PROVE  PieceRight(p)' <=> PieceRight(p)
    <3>1. Origin(p) \in Nat /\ PieceByteLength(p) \in Nat
      BY <1>1, PieceFacts, TorrentFacts
    <3>2. \A q \in Span(p) : q \in Int /\ q \notin io.pos .. io.pos + n - 1
      BY <1>1, <1>3, <2>3, <2>4, <3>1, OnePiece DEF Span
    <3>3. \A q \in Span(p) : Right(q)' <=> Right(q)
      BY <3>2, <1>5
    <3> QED
      BY <3>3, <1>1, SameTorrent DEF PieceRight
  <2>5. \A p \in Piece : p # io.piece => (p \in pending <=> Wanted(p))
    BY <1>1 DEF IInv, LoopInv
  <2> QED
    BY <1>1, <1>6, <2>2, <2>4, <2>5, SameTorrent DEF LoopInv, Wanted
<1> QED
  BY <1>1, <1>7, <1>8, <1>9, <1>10, <1>11 DEF IInv, ScanInv

LEMMA PieceWrittenInv ==
    ASSUME IInv, PieceWritten  PROVE IInv'
<1>1. /\ pc = "write" /\ pc' = "loop" /\ Left = 0 /\ TypeOK /\ LayoutInv /\ Accepted
      /\ UNCHANGED torrentVars /\ UNCHANGED <<disk, opened, io, runs>> /\ files' = files
      /\ pending' = pending \ {io.piece} /\ pending \subseteq Piece
      /\ unread' = unread \ {io.piece} /\ unread \subseteq Piece
  BY DEF PieceWritten, IInv, Accepted, torrentVars, TypeOK
<1>2. TypeOK'
  BY <1>1, SameTorrent DEF TypeOK, torrentVars
<1>3. LayoutInv' /\ Piece' = Piece /\ \A r : PieceRight(r)' <=> PieceRight(r)
  BY <1>1, LayoutStays, SameTorrent, SameBytes
<1>4. DiskInv'
  BY <1>1 DEF IInv, DiskInv
<1>5. PieceRight(io.piece)
  BY <1>1, CallOver DEF IInv, LoopInv, PieceRight
<1>6. \A p \in Piece : p # io.piece => (p \in pending <=> Wanted(p))
  BY <1>1 DEF IInv, LoopInv
<1>7. LoopInv'
  BY <1>1, <1>3, <1>5, <1>6 DEF LoopInv, Wanted
<1> QED
  BY <1>1, <1>2, <1>3, <1>4, <1>7 DEF IInv, CallInv, ScanInv

LEMMA FinishInv ==
    ASSUME IInv, Finish  PROVE IInv'
<1>1. /\ pc = "loop" /\ pc' = "done" /\ pending = {} /\ TypeOK /\ LayoutInv /\ Accepted
      /\ UNCHANGED torrentVars /\ UNCHANGED <<disk, opened, pending, unread, io, runs>> /\ files' = files
  BY DEF Finish, IInv, Accepted, torrentVars
<1>2. TypeOK'
  BY <1>1, SameTorrent DEF TypeOK, torrentVars
<1>3. LayoutInv' /\ Piece' = Piece /\ \A r : PieceRight(r)' <=> PieceRight(r)
  BY <1>1, LayoutStays, SameTorrent, SameBytes
<1>4. DiskInv'
  BY <1>1 DEF IInv, DiskInv
<1>5. LoopInv'
  BY <1>1, <1>3 DEF IInv, LoopInv, Wanted
<1> QED
  BY <1>1, <1>2, <1>3, <1>4, <1>5 DEF IInv, CallInv, ScanInv

\* A write that stops half-way, as far as the bytes are concerned.
LEMMA InterruptedWrite ==
    ASSUME IInv, WriteInterrupted
    PROVE  /\ disk' \in [Path -> Seq(Int)]
           /\ \A x \in Path : Len(disk'[x]) = Len(disk[x])
           /\ \A q \in Int : Right(q) => Right(q)'
<1>1. /\ pc = "write" /\ Left > 0 /\ TypeOK /\ LayoutInv /\ DiskInv /\ CallInv
      /\ UNCHANGED torrentVars
  BY DEF WriteInterrupted, IInv
<1>2. PICK i \in DOMAIN files : Locates(i, io.pos) /\ \E n \in 0 .. Chunk(i) - 1 : Put(i, n)
  BY DEF WriteInterrupted
<1>3. PICK n \in 0 .. Chunk(i) - 1 : Put(i, n)
  BY <1>2
<1>4. n \in 0 .. Chunk(i)
  BY <1>1, <1>2, CallFacts
<1> QED
  BY <1>1, <1>2, <1>3, <1>4, WriteEffect

LEMMA StoppedInv ==
    ASSUME IInv, WriteInterrupted \/ Interrupted  PROVE IInv'
<1>1. /\ pc \in {"open", "scan", "loop", "write"} /\ pc' = "stopped"
      /\ TypeOK /\ LayoutInv /\ Accepted /\ UNCHANGED torrentVars /\ files' = files
      /\ UNCHANGED <<opened, pending, unread, io, runs>>
  BY DEF WriteInterrupted, Interrupted, IInv, Accepted, torrentVars
<1>2. disk' \in [Path -> Seq(Int)] /\ \A x \in Path : Len(disk'[x]) = Len(disk[x])
  BY <1>1, InterruptedWrite DEF Interrupted, TypeOK
<1>3. TypeOK'
  BY <1>1, <1>2, SameTorrent DEF TypeOK, torrentVars
<1>4. LayoutInv'
  BY <1>1, LayoutStays
<1>5. DiskInv'
  <2>1. opened \in 0 .. Len(files)
    BY <1>1 DEF TypeOK
  <2>2. \A k \in 1 .. opened : files[k].path \in Path
    BY <2>1, <1>1, TorrentFacts
  <2> QED
    BY <2>2, <1>1, <1>2 DEF IInv, DiskInv
<1> QED
  BY <1>1, <1>3, <1>4, <1>5 DEF IInv, CallInv, ScanInv, LoopInv

LEMMA RestartInv ==
    ASSUME IInv, Restart  PROVE IInv'
<1>1. /\ pc' = "open" /\ opened' = 0 /\ pending' = {} /\ unread' = {} /\ runs < MaxRuns /\ runs' = runs + 1
      /\ TypeOK /\ LayoutInv /\ Accepted /\ UNCHANGED torrentVars /\ files' = files
      /\ UNCHANGED <<disk, io>>
  BY DEF Restart, IInv, Accepted, torrentVars
<1>2. TypeOK'
  <2>1. opened' \in 0 .. Len(files)
    BY <1>1, TorrentFacts
  <2>2. runs' \in 1 .. MaxRuns
    BY <1>1, ConstantsAssumption DEF TypeOK
  <2> QED
    BY <1>1, <2>1, <2>2 DEF TypeOK, torrentVars
<1>3. LayoutInv'
  BY <1>1, LayoutStays
<1>4. DiskInv'
  BY <1>1 DEF DiskInv
<1> QED
  BY <1>1, <1>2, <1>3, <1>4 DEF IInv, CallInv, ScanInv, LoopInv

LEMMA StutterInv ==
    ASSUME IInv, UNCHANGED vars  PROVE IInv'
<1>1. /\ UNCHANGED torrentVars
      /\ UNCHANGED <<meta, pc, files, total, disk, opened, pending, unread, io, runs>>
  BY DEF vars, torrentVars
<1>2. TypeOK'
  BY <1>1, SameTorrent DEF IInv, TypeOK
<1>3. LayoutInv'
  BY <1>1, LayoutStays DEF IInv, Accepted
<1>4. DiskInv'
  BY <1>1 DEF IInv, DiskInv
<1>5. CallInv'
  <2>1. PieceByteLength(io.piece)' = PieceByteLength(io.piece) /\ Origin(io.piece)' = Origin(io.piece)
    BY <1>1 DEF PieceByteLength, PieceLength, PieceCount, Origin
  <2> QED
    BY <2>1, <1>1, SameTorrent DEF IInv, CallInv
<1>6. ScanInv' /\ LoopInv'
  <2>1. Origin(io.piece)' = Origin(io.piece)
    BY <1>1 DEF PieceLength, Origin
  <2> QED
    BY <2>1, <1>1, SameTorrent, SameBytes DEF IInv, ScanInv, LoopInv, Wanted
<1> QED
  BY <1>2, <1>3, <1>4, <1>5, <1>6 DEF IInv

\* The inductive invariant holds in every state, for any torrents, sizes and runs.
THEOREM Invariant == Spec => []IInv
<1>1. Init => IInv
  BY InitInv
<1>2. IInv /\ [Next]_vars => IInv'
  <2> SUFFICES ASSUME IInv, [Next]_vars  PROVE IInv'
    OBVIOUS
  <2>1. CASE ParseEntry
    BY <2>1, ParseEntryInv
  <2>2. CASE Accept \/ Reject
    BY <2>2, VerdictInv
  <2>3. CASE OpenFile
    BY <2>3, OpenFileInv
  <2>4. CASE FilesOpen
    BY <2>4, FilesOpenInv
  <2>5. CASE ReadChunk
    BY <2>5, ReadChunkInv
  <2>6. CASE PieceScanned
    BY <2>6, PieceScannedInv
  <2>7. CASE \E p \in pending : TakePiece(p)
    BY <2>7, TakePieceInv
  <2>8. CASE WriteChunk
    BY <2>8, WriteChunkInv
  <2>9. CASE PieceWritten
    BY <2>9, PieceWrittenInv
  <2>10. CASE Finish
    BY <2>10, FinishInv
  <2>11. CASE WriteInterrupted \/ Interrupted
    BY <2>11, StoppedInv
  <2>12. CASE Restart
    BY <2>12, RestartInv
  <2>13. CASE ReadFails
    BY <2>13, ReadFailsInv
  <2>14. CASE UNCHANGED vars
    BY <2>14, StutterInv
  <2> QED
    BY <2>1, <2>2, <2>3, <2>4, <2>5, <2>6, <2>7, <2>8, <2>9, <2>10, <2>11, <2>12, <2>13, <2>14
       DEF Next, Step
<1> QED
  BY <1>1, <1>2, PTL DEF Spec

-----------------------------------------------------------------------------
(***************************************************************************)
(* What follows.                                                           *)
(***************************************************************************)
\* Every variable keeps its type; the sum of the lengths never leaves int64.
THEOREM TypeCorrect == Spec => []TypeOK
<1>1. IInv => TypeOK
  BY DEF IInv
<1> QED
  BY <1>1, Invariant, PTL

\* The files of an accepted torrent, and its pieces, tile its bytes.
THEOREM LayoutIsTiled == Spec => []LayoutTiles
<1>1. IInv => LayoutTiles
  <2> SUFFICES ASSUME IInv, Accepted  PROVE FilesTile /\ PiecesTile
    BY DEF LayoutTiles
  <2>0. TypeOK /\ LayoutInv /\ total \in Nat /\ \A q \in 0 .. total - 1 : q \in Int
    BY TorrentFacts DEF IInv
  <2>1. FilesTile
    <3>1. ASSUME NEW q \in 0 .. total - 1
          PROVE  \E i \in DOMAIN files :
                    Holds(i, q) /\ \A j \in DOMAIN files : Holds(j, q) => j = i
      <4>1. PICK i \in DOMAIN files : Holds(i, q)
        BY <2>0 DEF LayoutInv
      <4> QED
        BY <2>0, <4>1, OneFile
    <3> QED
      BY <2>0, <3>1 DEF FilesTile, LayoutInv
  <2>2. PiecesTile
    <3>1. ASSUME NEW p \in Piece
          PROVE  PieceByteLength(p) >= 1 /\ Span(p) \subseteq 0 .. total - 1
      <4>1. /\ Origin(p) \in Nat /\ PieceByteLength(p) \in 1 .. PieceLength /\ PieceLength \in Int
            /\ Origin(p) + PieceByteLength(p) <= total
        BY <2>0, PieceFacts, TorrentFacts
      <4> QED
        BY <4>1, <2>0 DEF Span
    <3>2. ASSUME NEW q \in 0 .. total - 1
          PROVE  \E p \in Piece : q \in Span(p) /\ \A r \in Piece : q \in Span(r) => r = p
      <4>1. PICK p \in Piece : q \in Span(p)
        BY <2>0, PieceFacts
      <4> QED
        BY <2>0, <4>1, OnePiece
    <3> QED
      BY <3>1, <3>2 DEF PiecesTile
  <2> QED
    BY <2>1, <2>2
<1> QED
  BY <1>1, Invariant, PTL

\* locate never fails: each position of a read or a write has a file.
THEOREM LocateSucceeds == Spec => []NeverOutOfRange
<1>1. IInv => NeverOutOfRange
  BY CallFacts DEF IInv, NeverOutOfRange
<1> QED
  BY <1>1, Invariant, PTL

\* What is still to fetch is what is wrong on disk, after any interruption.
THEOREM PendingIsWrong == Spec => []PendingIsExact
<1>1. IInv => PendingIsExact
  BY DEF IInv, TypeOK, LoopInv, PendingIsExact, Wanted
<1> QED
  BY <1>1, Invariant, PTL

\* A finished download has all bytes in their places and files of the right length.
THEOREM DoneIsComplete == Spec => []DoneIsWhole
<1>1. IInv => DoneIsWhole
  <2> SUFFICES ASSUME IInv, pc = "done"
               PROVE  /\ \A q \in 0 .. total - 1 : Right(q)
                      /\ \A i \in DOMAIN files : Len(disk[files[i].path]) = files[i].length
    BY DEF DoneIsWhole
  <2>1. \A p \in Piece : PieceRight(p)
    BY DEF IInv, LoopInv, Wanted
  <2>2. \A q \in 0 .. total - 1 : \E p \in Piece : q \in Span(p)
    BY PieceFacts DEF IInv, Accepted
  <2>3. opened = Len(files) /\ DOMAIN files = 1 .. Len(files)
    BY TorrentFacts DEF IInv, DiskInv
  <2> QED
    BY <2>1, <2>2, <2>3 DEF PieceRight, IInv, DiskInv
<1> QED
  BY <1>1, Invariant, PTL

\* No step, opening the files again after a kill included, spoils a right byte.
THEOREM NoByteIsSpoilt == Spec => RightBytesStay
<1>1. IInv /\ [Next]_vars => [Accepted => \A q \in 0 .. total - 1 : Right(q) => Right(q)']_vars
  <2> SUFFICES ASSUME IInv, Next, Accepted, NEW q \in 0 .. total - 1, Right(q)
               PROVE  Right(q)'
    OBVIOUS
  <2>0. q \in Int
    BY TorrentFacts DEF IInv
  <2>1. CASE OpenFile
    BY <2>0, <2>1, OpenEffect DEF IInv
  <2>2. CASE WriteChunk
    <3>1. /\ pc = "write" /\ Left > 0 /\ UNCHANGED torrentVars
          /\ \E i \in DOMAIN files : Locates(i, io.pos) /\ Put(i, Chunk(i))
      BY <2>2 DEF WriteChunk
    <3>2. PICK i \in DOMAIN files : Locates(i, io.pos) /\ Put(i, Chunk(i))
      BY <3>1
    <3>3. Chunk(i) \in 0 .. Chunk(i)
      BY <3>1, <3>2, CallFacts DEF IInv
    <3> QED
      BY <2>0, <3>1, <3>2, <3>3, WriteEffect DEF IInv
  <2>3. CASE WriteInterrupted
    BY <2>0, <2>3, InterruptedWrite
  <2>4. CASE ~OpenFile /\ ~WriteChunk /\ ~WriteInterrupted
    <3>1. UNCHANGED torrentVars /\ UNCHANGED disk
      BY <2>4 DEF Next, Step, Accepted, ParseEntry, Accept, Reject, FilesOpen, ReadChunk,
                  PieceScanned, ReadFails, TakePiece, PieceWritten, Finish, Interrupted, Restart
    <3> QED
      BY <3>1, SameBytes
  <2> QED
    BY <2>1, <2>2, <2>3, <2>4
<1> QED
  BY <1>1, Invariant, PTL DEF Spec, RightBytesStay
\* A round of ReadAt or WriteAt moves on, and not beyond the end of its piece.
RoundsMoveOn ==
    [][ReadChunk \/ WriteChunk =>
           io'.piece = io.piece /\ io'.done \in io.done + 1 .. PieceByteLength(io.piece)]_vars

\* filewriter.go ReadAt, WriteAt: no round runs on the spot, so that each call ends after
\* at most as many rounds as its piece has bytes, empty files or not.
THEOREM RoundsEnd == Spec => RoundsMoveOn
<1>1. ASSUME IInv, ReadChunk \/ WriteChunk
      PROVE  io'.piece = io.piece /\ io'.done \in io.done + 1 .. PieceByteLength(io.piece)
  <2>1. /\ pc \in {"scan", "write"} /\ Left > 0
        /\ TypeOK /\ LayoutInv /\ CallInv /\ Accepted
    BY <1>1 DEF ReadChunk, WriteChunk, IInv, Accepted
  <2>2. /\ io \in [piece : Nat, pos : Nat, done : Nat, same : BOOLEAN]
        /\ io.piece \in Piece /\ io.done \in Nat
        /\ PieceByteLength(io.piece) \in Nat
    BY <2>1, PieceFacts, TorrentFacts DEF TypeOK, CallInv
  <2>3. PICK i \in DOMAIN files :
           /\ Locates(i, io.pos)
           /\ io'.piece = io.piece /\ io'.done = io.done + Chunk(i)
    BY <1>1, <2>2 DEF ReadChunk, WriteChunk
  <2>4. Chunk(i) \in Nat \ {0} /\ Chunk(i) <= Left
    BY <2>1, <2>3, CallFacts
  <2> QED
    BY <2>2, <2>3, <2>4 DEF Left
<1>2. IInv /\ [Next]_vars =>
         [ReadChunk \/ WriteChunk =>
             io'.piece = io.piece /\ io'.done \in io.done + 1 .. PieceByteLength(io.piece)]_vars
  BY <1>1
<1> QED
  BY <1>2, Invariant, PTL DEF Spec, RoundsMoveOn
=============================================================================
