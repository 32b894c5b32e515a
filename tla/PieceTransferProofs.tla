------------------------ MODULE PieceTransferProofs ------------------------
(***************************************************************************)
(* Proofs about PieceTransfer, for any peer (WildSpec), any pieces and any *)
(* capacities.                                                             *)
(***************************************************************************)
EXTENDS PieceTransfer, FiniteSetTheorems, SequenceTheorems, TLAPS

-----------------------------------------------------------------------------
(***************************************************************************)
(* The channels.                                                           *)
(***************************************************************************)

Elements(s) == {s[i] : i \in DOMAIN s}

\* What Append does to a channel.
LEMMA AppendElements ==
    ASSUME NEW S, NEW s \in Seq(S), NEW x \in S
    PROVE  /\ Append(s, x) \in Seq(S) /\ Len(Append(s, x)) = Len(s) + 1
           /\ Elements(Append(s, x)) = Elements(s) \cup {x}
<1>1. /\ Append(s, x) \in Seq(S) /\ Len(Append(s, x)) = Len(s) + 1
      /\ \A i \in 1 .. Len(s) : Append(s, x)[i] = s[i]
      /\ Append(s, x)[Len(s) + 1] = x
  BY AppendProperties
<1>2. /\ Len(s) \in Nat /\ DOMAIN s = 1 .. Len(s)
      /\ DOMAIN Append(s, x) = 1 .. Len(s) + 1
  BY <1>1, LenProperties
<1>3. \A i \in 1 .. Len(s) + 1 : i \in 1 .. Len(s) \/ i = Len(s) + 1
  BY <1>2
<1>4. 1 .. Len(s) \subseteq 1 .. Len(s) + 1 /\ Len(s) + 1 \in 1 .. Len(s) + 1
  BY <1>2
<1> QED
  BY <1>1, <1>2, <1>3, <1>4, Zenon DEF Elements

\* What a receive does to a channel.
LEMMA TailElements ==
    ASSUME NEW S, NEW s \in Seq(S), s # << >>
    PROVE  /\ Head(s) \in S /\ Tail(s) \in Seq(S) /\ Len(Tail(s)) = Len(s) - 1
           /\ Elements(s) = Elements(Tail(s)) \cup {Head(s)}
<1>1. /\ Head(s) \in S /\ Tail(s) \in Seq(S) /\ Len(Tail(s)) = Len(s) - 1
      /\ \A i \in 1 .. Len(s) - 1 : Tail(s)[i] = s[i + 1]
  BY HeadTailProperties
<1>2. /\ Len(s) \in Nat \ {0} /\ DOMAIN s = 1 .. Len(s)
      /\ DOMAIN Tail(s) = 1 .. Len(s) - 1 /\ Head(s) = s[1]
  BY <1>1, LenProperties, EmptySeq
<1>3. ASSUME NEW i \in 1 .. Len(s)
      PROVE  s[i] \in Elements(Tail(s)) \cup {Head(s)}
  <2>1. CASE i = 1
    BY <1>2, <2>1
  <2>2. CASE i # 1
    <3>1. i - 1 \in 1 .. Len(s) - 1 /\ i - 1 + 1 = i
      BY <1>2, <2>2
    <3> QED
      BY <1>1, <1>2, <3>1 DEF Elements
  <2> QED
    BY <2>1, <2>2
<1>4. ASSUME NEW i \in 1 .. Len(s) - 1
      PROVE  Tail(s)[i] \in Elements(s)
  <2>1. i + 1 \in 1 .. Len(s)
    BY <1>2
  <2> QED
    BY <1>1, <1>2, <2>1 DEF Elements
<1>5. 1 \in 1 .. Len(s)
  BY <1>2
<1>6. Elements(s) \subseteq Elements(Tail(s)) \cup {Head(s)}
  BY <1>2, <1>3 DEF Elements
<1>7. Elements(Tail(s)) \subseteq Elements(s)
  BY <1>2, <1>4 DEF Elements
<1>8. Head(s) \in Elements(s)
  BY <1>2, <1>5 DEF Elements
<1> QED
  BY <1>1, <1>6, <1>7, <1>8

\* A block is not a choke or an unchoke.
LEMMA BlockIsPiece ==
    /\ \A b \in Block : b.type = "piece" /\ b.piece \in Piece /\ b.begin \in Nat
    /\ \A m \in Message : m.type = "piece" => m \in Block
    /\ NoBlock \notin Block
BY DEF Block, Message, NoBlock, Offset

\* InTransit, channel by channel.
LEMMA Transit ==
    InTransit = (Elements(wire) \cap Block) \cup Elements(blocks) \cup ({hand} \cap Block)
BY DEF InTransit, Elements

-----------------------------------------------------------------------------
(***************************************************************************)
(* The inductive invariant.                                                *)
(***************************************************************************)

\* readLoop holds a block exactly while it sends it, and ends only after a close.
ReaderInv ==
    /\ IF reader = "sending" THEN hand \in Block ELSE hand = NoBlock
    /\ reader = "ended" => shut

\* What GetPiece has requested before its first wait.
FillInv ==
    pc = "request" => received = {} /\ corrupt = {} /\ next <= FirstRequests

\* TypeOK in two parts, for two provers.
Flags ==
    /\ choked \in BOOLEAN /\ notify \in BOOLEAN /\ shut \in BOOLEAN
    /\ cancelled \in BOOLEAN /\ retired \in BOOLEAN /\ choking \in BOOLEAN
Rest ==
    /\ blocks \in Seq(Block) /\ Len(blocks) <= BlocksCap
    /\ reader \in {"reading", "signalling", "sending", "ended"}
    /\ hand \in Block \cup {NoBlock}
    /\ pc \in {"check", "wait", "idle", "request", "test", "select", "failed", "ended"}
    /\ piece \in Piece /\ next \in 0 .. Blocks[piece]
    /\ received \subseteq 0 .. Blocks[piece] - 1 /\ corrupt \subseteq received
    /\ result \in {"none", "ok", "refused", "write", "hash", "choked", "offset", "length",
                   "closed", "cancelled", "timeout"}
    /\ asked \subseteq Piece \X Offset /\ dropped \subseteq Piece \X Offset
    /\ wire \in Seq(Message) /\ Len(wire) <= WireCap
    /\ turns \in 0 .. MaxTurns

IInv == TypeOK /\ ReaderInv /\ FillInv /\ NoLostWakeup /\ PipelineIsFull /\ NoBlockLost

LEMMA Initially == Init => IInv
<1> SUFFICES ASSUME Init
             PROVE  IInv
  OBVIOUS
<1>1. << >> \in Seq(Block) /\ << >> \in Seq(Message) /\ Len(<< >>) = 0
  BY EmptySeq
<1>2. Flags
  BY Zenon DEF Init, Flags
<1>3. Rest
  BY <1>1, ConstantsAssumption DEF Init, Rest
<1>4. TypeOK
  BY <1>2, <1>3, Zenon DEF TypeOK, Flags, Rest
<1> QED
  BY <1>4 DEF Init, IInv, ReaderInv, FillInv, NoLostWakeup, PipelineIsFull, NoBlockLost,
              Downloading

\* The messages that the peer puts on the wire.
LEMMA SentTypes ==
    ASSUME TypeOK, NEW m \in Message, PeerSends(m)
    PROVE  wire' \in Seq(Message) /\ Len(wire') <= WireCap
<1>1. wire' \in Seq(Message) /\ Len(wire') = Len(wire) + 1
  BY AppendElements DEF TypeOK, PeerSends
<1> QED
  BY <1>1, ConstantsAssumption, LenProperties DEF TypeOK, PeerSends

LEMMA PieceMessageIsBlock ==
    ASSUME NEW p \in Piece, NEW i \in Nat, NEW d \in {"good", "corrupt", "badLength"}
    PROVE  PieceMessage(p, i, d) \in Block /\ PieceMessage(p, i, d) \in Message
BY DEF PieceMessage, Block, Message, Offset

LEMMA RestStep ==
    ASSUME IInv, [Next \/ PeerForges]_vars
    PROVE  Rest'
<1> USE DEF IInv
<1>c. /\ Blocks[piece] \in Nat /\ PipelineDepth \in Nat /\ BlocksCap \in Nat /\ WireCap \in Nat
      /\ Len(wire) \in Nat /\ Len(blocks) \in Nat
      /\ FirstRequests \in Nat /\ FirstRequests <= Blocks[piece]
  BY ConstantsAssumption, LenProperties DEF TypeOK, Rest, FirstRequests, Lesser
<1>1. CASE ReadChoke \/ ReadBlock
  <2>1. wire # << >>
    BY <1>1 DEF ReadChoke, ReadBlock
  <2>2. Head(wire) \in Message /\ Tail(wire) \in Seq(Message) /\ Len(Tail(wire)) = Len(wire) - 1
    BY <2>1, TailElements DEF TypeOK, Rest
  <2>3. CASE ReadChoke
    BY <1>c, <2>2, <2>3 DEF TypeOK, Rest, ReadChoke, jobVars, peerVars
  <2>4. CASE ReadBlock
    BY <1>c, <2>2, <2>4, BlockIsPiece DEF TypeOK, Rest, ReadBlock, clientVars, jobVars, peerVars
  <2> QED
    BY <1>1, <2>3, <2>4
<1>2. CASE Signal
  BY <1>2 DEF TypeOK, Rest, Signal, PutToken, jobVars, peerVars
<1>3. CASE DeliverBlock
  <2>1. hand \in Block /\ blocks' = Append(blocks, hand) /\ Len(blocks) < BlocksCap
    BY <1>3 DEF DeliverBlock, PutBlock, ReaderInv
  <2>2. blocks' \in Seq(Block) /\ Len(blocks') = Len(blocks) + 1
    BY <2>1, AppendElements DEF TypeOK, Rest
  <2>3. Len(blocks') <= BlocksCap
    BY <1>c, <2>1, <2>2
  <2> QED
    BY <1>3, <2>2, <2>3 DEF TypeOK, Rest, DeliverBlock, jobVars, peerVars
<1>4. CASE AbandonBlock \/ ReadFails
  BY <1>4 DEF TypeOK, Rest, AbandonBlock, ReadFails, clientVars, jobVars, peerVars
<1>5. CASE CheckUnchoked \/ WakeUp \/ WaitFails
  BY <1>5 DEF TypeOK, Rest, CheckUnchoked, WakeUp, WaitFails, clientVars, readerVars, jobVars, peerVars
<1>6. ASSUME NEW p \in Piece, TakeJob(p)
      PROVE  Rest'
  <2>1. Blocks[p] \in Nat
    BY ConstantsAssumption
  <2> QED
    BY <1>6, <2>1 DEF TypeOK, Rest, TakeJob, clientVars, readerVars, peerVars
<1>7. ASSUME WriteRequest, next < Blocks[piece]
      PROVE  /\ next' \in 0 .. Blocks[piece]
             /\ asked' \subseteq Piece \X Offset /\ dropped' \subseteq Piece \X Offset
             /\ turns' \in 0 .. MaxTurns
  BY <1>7, <1>c DEF TypeOK, Rest, WriteRequest, Offset
<1>8. CASE FillPipeline
  <2>1. next < Blocks[piece]
    BY <1>8, <1>c DEF FillPipeline, TypeOK
  <2> QED
    BY <1>7, <1>8, <2>1 DEF TypeOK, Rest, FillPipeline, RequestFails, Fail, clientVars, readerVars, peerVars
<1>9. CASE PipelineFilled \/ FinishPiece \/ TestChoked
  BY <1>9 DEF TypeOK, Rest, PipelineFilled, FinishPiece, TestChoked, Fail, clientVars, readerVars,
              jobVars, peerVars
<1>10. CASE TakeBlock
  <2> DEFINE b == Head(blocks)
  <2>1. b \in Block /\ blocks' \in Seq(Block) /\ Len(blocks') = Len(blocks) - 1
    BY <1>10, TailElements DEF TypeOK, Rest, TakeBlock
  <2>2. b.begin \in Nat
    BY <2>1, BlockIsPiece
  <2>u. UNCHANGED <<reader, hand, piece, wire>>
    BY <1>10 DEF TakeBlock, readerVars
  <2>r. /\ Rest /\ blocks' \in Seq(Block) /\ Len(blocks') <= BlocksCap
    BY <1>c, <2>1 DEF TypeOK, Rest
  <2> HIDE DEF b
  <2>3. ASSUME RequestNext
        PROVE  /\ next' \in 0 .. Blocks[piece]
               /\ asked' \subseteq Piece \X Offset /\ dropped' \subseteq Piece \X Offset
               /\ turns' \in 0 .. MaxTurns
               /\ pc' \in {"test", "failed"} /\ result' \in {result, "write"}
    BY <2>3, <1>7 DEF RequestNext, RequestFails, Fail, TypeOK, peerVars
  <2>4. CASE Foreign(b) /\ pc' = "test" /\ UNCHANGED <<received, corrupt, next, result, peerVars>>
    BY <2>u, <2>r, <2>4 DEF Rest, peerVars
  <2>5. CASE RejectBlock("offset") \/ RejectBlock("length")
    BY <2>u, <2>r, <2>5 DEF Rest, RejectBlock, Fail, peerVars
  <2>6. CASE b.begin <= LastBegin(piece) /\ AcceptBlock(b)
    <3>1. b.begin \in 0 .. Blocks[piece] - 1
      BY <1>c, <2>2, <2>6 DEF LastBegin
    <3>2. CASE b.begin \in received
      BY <2>u, <2>r, <2>6, <3>2 DEF Rest, AcceptBlock, peerVars
    <3>3. CASE b.begin \notin received
      <4>1. RequestNext /\ received' \subseteq 0 .. Blocks[piece] - 1 /\ corrupt' \subseteq received'
        BY <2>6, <3>1, <3>3 DEF AcceptBlock, TypeOK
      <4> QED
        BY <2>u, <2>r, <2>3, <4>1 DEF Rest
    <3> QED
      BY <3>2, <3>3
  <2> QED
    BY <1>10, <2>4, <2>5, <2>6 DEF TakeBlock, b
<1>11. CASE SeeClosed \/ SeeCancel \/ TimeOut
  BY <1>11 DEF TypeOK, Rest, SeeClosed, SeeCancel, TimeOut, SelectFails, Fail, clientVars, readerVars,
               jobVars, peerVars
<1>12. CASE WorkerEnds \/ Retire \/ Cancel
  <2>1. CASE WorkerEnds
    BY <2>1 DEF TypeOK, Rest, WorkerEnds, clientVars, readerVars, jobVars, peerVars
  <2>2. CASE Retire
    BY <2>2 DEF TypeOK, Rest, Retire, clientVars, readerVars, jobVars, peerVars
  <2>3. CASE Cancel
    BY <2>3 DEF TypeOK, Rest, Cancel, clientVars, readerVars, jobVars, peerVars
  <2> QED
    BY <1>12, <2>1, <2>2, <2>3
<1>13. ASSUME NEW m \in Message, PeerSends(m), asked' \subseteq Piece \X Offset,
              dropped' \subseteq Piece \X Offset, turns' \in 0 .. MaxTurns
       PROVE  Rest'
  BY <1>13, <1>c, SentTypes DEF TypeOK, Rest, PeerSends, clientVars, readerVars, jobVars
<1>14. CASE PeerUnchokes \/ PeerChokes
  <2>1. [type |-> "unchoke"] \in Message /\ [type |-> "choke"] \in Message
    BY DEF Message
  <2>2. asked' \subseteq Piece \X Offset /\ dropped' \subseteq Piece \X Offset
    BY <1>14 DEF PeerUnchokes, PeerChokes, TypeOK
  <2>3. turns' \in 0 .. MaxTurns
    BY <1>14, ConstantsAssumption DEF PeerUnchokes, PeerChokes, TypeOK
  <2> QED
    BY <1>13, <1>14, <2>1, <2>2, <2>3 DEF PeerUnchokes, PeerChokes
<1>15. CASE PeerAnswers
  <2>1. PICK r \in asked : /\ asked' = asked \ {r}
                           /\ UNCHANGED <<choking, dropped, turns>>
                           /\ PeerSends(PieceMessage(r[1], r[2], "good"))
    BY <1>15 DEF PeerAnswers
  <2>2. r[1] \in Piece /\ r[2] \in Nat
    BY DEF TypeOK, Rest, Offset
  <2>3. PieceMessage(r[1], r[2], "good") \in Message
    BY <2>2, PieceMessageIsBlock
  <2> QED
    BY <1>13, <2>1, <2>3 DEF TypeOK, Rest
<1>16. CASE PeerForges
  <2>1. PICK p \in Piece, d \in {"good", "corrupt", "badLength"} : \E i \in 0 .. Blocks[p] :
          PeerSends(PieceMessage(p, i, d))
    BY <1>16 DEF PeerForges
  <2> PICK i \in 0 .. Blocks[p] : PeerSends(PieceMessage(p, i, d))
    BY <2>1
  <2>2. i \in Nat
    BY ConstantsAssumption
  <2>3. PieceMessage(p, i, d) \in Message
    BY <2>2, PieceMessageIsBlock
  <2>4. asked' \subseteq Piece \X Offset /\ dropped' \subseteq Piece \X Offset
        /\ turns' \in 0 .. MaxTurns
    BY <1>16, ConstantsAssumption DEF PeerForges, TypeOK
  <2> QED
    BY <1>13, <2>1, <2>3, <2>4
<1>17. CASE UNCHANGED vars
  BY <1>17 DEF TypeOK, Rest, vars, clientVars, readerVars, jobVars, peerVars
<1> QED
  BY <1>1, <1>2, <1>3, <1>4, <1>5, <1>6, <1>8, <1>9, <1>10, <1>11, <1>12, <1>14, <1>15, <1>16,
     <1>17
  DEF Next, ClientStep, ReaderStep, WorkerStep, GetPieceStep, Honest

LEMMA FlagStep ==
    ASSUME TypeOK, [Next \/ PeerForges]_vars
    PROVE  Flags'
<1> USE DEF TypeOK, Flags, clientVars, readerVars, jobVars, peerVars
<1>1. CASE ReadChoke
  BY <1>1, Zenon DEF ReadChoke
<1>2. CASE Signal
  BY <1>2, Zenon DEF Signal, PutToken
<1>3. CASE ReadBlock
  BY <1>3, Zenon DEF ReadBlock
<1>4. CASE DeliverBlock
  BY <1>4, Zenon DEF DeliverBlock
<1>5. CASE AbandonBlock
  BY <1>5, Zenon DEF AbandonBlock
<1>6. CASE CheckUnchoked
  BY <1>6, Zenon DEF CheckUnchoked
<1>7. CASE WakeUp
  BY <1>7, Zenon DEF WakeUp
<1>8. CASE FillPipeline
  BY <1>8, Zenon DEF FillPipeline, WriteRequest, RequestFails
<1>9. CASE PipelineFilled
  BY <1>9, Zenon DEF PipelineFilled
<1>10. CASE FinishPiece
  BY <1>10, Zenon DEF FinishPiece
<1>11. CASE TestChoked
  BY <1>11, Zenon DEF TestChoked
<1>12. CASE TakeBlock
  BY <1>12, Zenon DEF TakeBlock, AcceptBlock, RejectBlock, RequestNext, WriteRequest, RequestFails
<1>13. CASE SeeClosed
  BY <1>13, Zenon DEF SeeClosed, SelectFails
<1>14. CASE SeeCancel
  BY <1>14, Zenon DEF SeeCancel, SelectFails
<1>15. CASE WorkerEnds
  BY <1>15, Zenon DEF WorkerEnds
<1>16. ASSUME NEW p \in Piece, TakeJob(p)
       PROVE  Flags'
  BY <1>16, Zenon DEF TakeJob
<1>17. CASE ReadFails
  BY <1>17, Zenon DEF ReadFails
<1>18. CASE WaitFails
  BY <1>18, Zenon DEF WaitFails
<1>19. CASE TimeOut
  BY <1>19, Zenon DEF TimeOut, SelectFails
<1>20. CASE Retire
  BY <1>20, Zenon DEF Retire
<1>21. CASE Cancel
  BY <1>21, Zenon DEF Cancel
<1>22. CASE PeerUnchokes
  BY <1>22, Zenon DEF PeerUnchokes, PeerSends
<1>23. CASE PeerChokes
  BY <1>23, Zenon DEF PeerChokes, PeerSends
<1>24. CASE PeerAnswers
  BY <1>24, Zenon DEF PeerAnswers, PeerSends
<1>25. CASE PeerForges
  BY <1>25, Zenon DEF PeerForges, PeerSends
<1>26. CASE UNCHANGED vars
  BY <1>26, Zenon DEF vars
<1> QED
  BY <1>1, <1>2, <1>3, <1>4, <1>5, <1>6, <1>7, <1>8, <1>9, <1>10, <1>11, <1>12, <1>13,
     <1>14, <1>15, <1>16, <1>17, <1>18, <1>19, <1>20, <1>21, <1>22, <1>23, <1>24, <1>25,
     <1>26
  DEF Next, ClientStep, ReaderStep, WorkerStep, GetPieceStep, Honest

LEMMA TypeStep ==
    ASSUME IInv, [Next \/ PeerForges]_vars
    PROVE  TypeOK'
<1>1. Flags'
  BY FlagStep DEF IInv
<1>2. Rest'
  BY RestStep
<1> QED
  BY <1>1, <1>2, Zenon DEF TypeOK, Flags, Rest

LEMMA ReaderStepKeeps ==
    ASSUME IInv, [Next \/ PeerForges]_vars
    PROVE  ReaderInv'
<1> USE DEF IInv, ReaderInv
<1>1. CASE ReadChoke
  BY <1>1 DEF ReadChoke
<1>2. CASE Signal
  BY <1>2 DEF Signal
<1>3. CASE ReadBlock
  <2>1. Head(wire) \in Message
    BY <1>3, TailElements DEF ReadBlock, TypeOK
  <2> QED
    BY <1>3, <2>1, BlockIsPiece DEF ReadBlock
<1>4. CASE DeliverBlock \/ AbandonBlock \/ ReadFails
  BY <1>4 DEF DeliverBlock, AbandonBlock, SendAborts, ReadFails, clientVars
<1>5. ASSUME UNCHANGED readerVars, shut => shut'
      PROVE  ReaderInv'
  BY <1>5 DEF readerVars
<1>6. CASE WorkerStep \/ WaitFails \/ TimeOut \/ Retire \/ Cancel
  BY <1>5, <1>6
  DEF WorkerStep, CheckUnchoked, WakeUp, GetPieceStep, FillPipeline, PipelineFilled, FinishPiece,
      TestChoked, TakeBlock, SeeClosed, SeeCancel, SelectFails, WorkerEnds, WaitFails, TimeOut,
      Retire, Cancel, clientVars
<1>7. ASSUME NEW p \in Piece, TakeJob(p)
      PROVE  ReaderInv'
  BY <1>5, <1>7 DEF TakeJob, clientVars
<1>8. CASE Honest \/ PeerForges
  BY <1>5, <1>8 DEF Honest, PeerUnchokes, PeerChokes, PeerAnswers, PeerForges, PeerSends, clientVars
<1>9. CASE UNCHANGED vars
  BY <1>5, <1>9 DEF vars, clientVars
<1> QED
  BY <1>1, <1>2, <1>3, <1>4, <1>6, <1>7, <1>8, <1>9
  DEF Next, ClientStep, ReaderStep

LEMMA WakeupStep ==
    ASSUME NoLostWakeup, [Next \/ PeerForges]_vars
    PROVE  NoLostWakeup'
<1> USE DEF NoLostWakeup
<1>1. CASE ReadChoke
  BY <1>1 DEF ReadChoke
<1>2. CASE Signal
  BY <1>2 DEF Signal, PutToken
<1>3. CASE ReadBlock \/ DeliverBlock \/ AbandonBlock \/ ReadFails
  BY <1>3 DEF ReadBlock, DeliverBlock, AbandonBlock, ReadFails, clientVars
<1>4. CASE CheckUnchoked
  BY <1>4 DEF CheckUnchoked, clientVars, readerVars
<1>5. CASE WakeUp \/ WaitFails
  BY <1>5 DEF WakeUp, WaitFails
<1>6. CASE GetPieceStep \/ WorkerEnds \/ TimeOut
  BY <1>6
  DEF GetPieceStep, FillPipeline, PipelineFilled, FinishPiece, TestChoked, TakeBlock, AcceptBlock,
      RejectBlock, RequestNext, RequestFails, SeeClosed, SeeCancel, TimeOut, SelectFails, Fail, WorkerEnds
<1>7. ASSUME NEW p \in Piece, TakeJob(p)
      PROVE  NoLostWakeup'
  BY <1>7 DEF TakeJob
<1>8. CASE Retire \/ Cancel
  BY <1>8 DEF Retire, Cancel, clientVars, readerVars
<1>9. CASE Honest \/ PeerForges
  BY <1>9 DEF Honest, PeerUnchokes, PeerChokes, PeerAnswers, PeerForges, PeerSends, clientVars,
              readerVars
<1>10. CASE UNCHANGED vars
  BY <1>10 DEF vars, clientVars, readerVars
<1> QED
  BY <1>1, <1>2, <1>3, <1>4, <1>5, <1>6, <1>7, <1>8, <1>9, <1>10
  DEF Next, ClientStep, ReaderStep, WorkerStep

LEMMA PipelineStep ==
    ASSUME IInv, [Next \/ PeerForges]_vars
    PROVE  FillInv' /\ PipelineIsFull'
<1> USE DEF IInv, FillInv, PipelineIsFull
<1>c. /\ Blocks[piece] \in Nat /\ PipelineDepth \in Nat /\ next \in 0 .. Blocks[piece]
      /\ IsFiniteSet(received) /\ Cardinality(received) \in Nat
  <2>1. IsFiniteSet(received)
    <3>1. received \subseteq 0 .. Blocks[piece] - 1 /\ Blocks[piece] - 1 \in Int
      BY ConstantsAssumption DEF TypeOK
    <3>2. IsFiniteSet(0 .. Blocks[piece] - 1)
      BY <3>1, FS_Interval
    <3> QED
      BY <3>1, <3>2, FS_Subset
  <2> QED
    BY <2>1, ConstantsAssumption, FS_CardinalityType DEF TypeOK
<1>1. ASSUME UNCHANGED <<pc, jobVars>>
      PROVE  FillInv' /\ PipelineIsFull'
  BY <1>1 DEF jobVars, FirstRequests
<1>2. CASE ReaderStep \/ ReadFails \/ Retire \/ Cancel \/ Honest \/ PeerForges \/ UNCHANGED vars
  BY <1>1, <1>2
  DEF ReaderStep, ReadChoke, Signal, ReadBlock, DeliverBlock, AbandonBlock, ReadFails, Retire,
      Cancel, Honest, PeerUnchokes, PeerChokes, PeerAnswers, PeerForges, PeerSends, vars
<1>3. CASE CheckUnchoked \/ WakeUp \/ WaitFails \/ SeeClosed \/ SeeCancel \/ TimeOut \/ WorkerEnds
  BY <1>3 DEF CheckUnchoked, WakeUp, WaitFails, SeeClosed, SeeCancel, TimeOut, SelectFails, Fail,
              WorkerEnds
<1>4. ASSUME NEW p \in Piece, TakeJob(p)
      PROVE  FillInv' /\ PipelineIsFull'
  <2>1. Blocks[p] \in Nat
    BY ConstantsAssumption
  <2> QED
    BY <1>4, <1>c, <2>1 DEF TakeJob, FirstRequests, Lesser
<1>5. CASE FillPipeline
  BY <1>5, <1>c DEF FillPipeline, WriteRequest, RequestFails, Fail, FirstRequests, Lesser
<1>6. CASE PipelineFilled
  <2>1. next = FirstRequests /\ received = {} /\ Cardinality(received) = 0
    BY <1>6, <1>c, FS_EmptySet DEF PipelineFilled, FirstRequests, Lesser
  <2> QED
    BY <1>6, <1>c, <2>1 DEF PipelineFilled, jobVars, FirstRequests, Lesser
<1>7. CASE FinishPiece \/ TestChoked
  BY <1>7 DEF FinishPiece, TestChoked, Fail, jobVars
<1>8. CASE TakeBlock
  <2> DEFINE b == Head(blocks)
  <2>1. pc = "select" /\ piece' = piece
    BY <1>8 DEF TakeBlock
  <2>2. next = Lesser(Blocks[piece], PipelineDepth + Cardinality(received))
    BY <2>1
  <2>3. CASE pc' = "failed"
    BY <2>3
  <2>4. CASE pc' = "test" /\ UNCHANGED <<received, next>>
    BY <2>1, <2>2, <2>4
  <2>5. CASE b.begin \notin received /\ received' = received \cup {b.begin} /\ RequestNext
    <3>1. Cardinality(received') = Cardinality(received) + 1
      BY <1>c, <2>5, FS_AddElement
    <3> HIDE DEF b
    <3>2. CASE next < Blocks[piece] /\ WriteRequest /\ pc' = "test"
      BY <1>c, <2>1, <2>2, <3>1, <3>2 DEF WriteRequest, Lesser
    <3>3. CASE RequestFails
      BY <3>3 DEF RequestFails, Fail
    <3>4. CASE next >= Blocks[piece] /\ pc' = "test" /\ UNCHANGED next
      BY <1>c, <2>1, <2>2, <3>1, <3>4 DEF Lesser
    <3> QED
      BY <2>5, <3>2, <3>3, <3>4 DEF RequestNext
  <2> QED
    BY <1>8, <2>3, <2>4, <2>5 DEF TakeBlock, AcceptBlock, RejectBlock, Fail
<1> QED
  BY <1>2, <1>3, <1>4, <1>5, <1>6, <1>7, <1>8
  DEF Next, ClientStep, WorkerStep, GetPieceStep

\* Where a block that was requested may be.
Accounted(i) ==
    \/ i \in received
    \/ <<piece, i>> \in asked \cup dropped
    \/ \E b \in InTransit : b.piece = piece /\ b.begin = i

\* No step but the receive of GetPiece takes a block off the way, unless closed.
LEMMA TransitGrows ==
    ASSUME IInv, [Next \/ PeerForges]_vars, ~TakeBlock, ~shut'
    PROVE  InTransit \subseteq InTransit'
<1> USE DEF IInv
<1>t. InTransit' = (Elements(wire') \cap Block) \cup Elements(blocks') \cup ({hand'} \cap Block)
  BY DEF InTransit, Elements
<1>1. CASE UNCHANGED <<wire, blocks, hand>>
  BY <1>1, <1>t, Transit
<1>2. CASE ReadChoke
  <2>1. wire # << >> /\ wire' = Tail(wire) /\ UNCHANGED <<blocks, hand>>
        /\ Head(wire).type \in {"choke", "unchoke"}
    BY <1>2 DEF ReadChoke
  <2>2. Elements(wire) = Elements(wire') \cup {Head(wire)}
    BY <2>1, TailElements DEF TypeOK
  <2>3. Head(wire) \notin Block
    BY <2>1, BlockIsPiece
  <2> QED
    BY <1>t, <2>1, <2>2, <2>3, Transit
<1>3. CASE ReadBlock
  <2>1. wire # << >> /\ wire' = Tail(wire) /\ blocks' = blocks /\ hand' = Head(wire)
        /\ hand = NoBlock
    BY <1>3 DEF ReadBlock, clientVars, ReaderInv
  <2>2. Elements(wire) = Elements(wire') \cup {Head(wire)}
    BY <2>1, TailElements DEF TypeOK
  <2> QED
    BY <1>t, <2>1, <2>2, Transit, BlockIsPiece
<1>4. CASE DeliverBlock
  <2>1. wire' = wire /\ blocks' = Append(blocks, hand) /\ hand \in Block
    BY <1>4 DEF DeliverBlock, PutBlock, ReaderInv
  <2>2. Elements(blocks') = Elements(blocks) \cup {hand}
    BY <2>1, AppendElements DEF TypeOK
  <2> QED
    BY <1>t, <2>1, <2>2, Transit
<1>5. CASE AbandonBlock \/ ReadFails
  BY <1>5 DEF AbandonBlock, SendAborts, ReadFails, clientVars
<1>6. ASSUME NEW m \in Message, PeerSends(m)
      PROVE  InTransit \subseteq InTransit'
  <2>1. Elements(wire') = Elements(wire) \cup {m} /\ UNCHANGED <<blocks, hand>>
    BY <1>6, AppendElements DEF TypeOK, PeerSends, clientVars, readerVars
  <2> QED
    BY <1>t, <2>1, Transit
<1>7. CASE PeerUnchokes \/ PeerChokes
  <2>1. [type |-> "unchoke"] \in Message /\ [type |-> "choke"] \in Message
    BY DEF Message
  <2> QED
    BY <1>6, <1>7, <2>1 DEF PeerUnchokes, PeerChokes
<1>8. CASE PeerAnswers
  <2>1. PICK r \in asked : PeerSends(PieceMessage(r[1], r[2], "good"))
    BY <1>8 DEF PeerAnswers
  <2>2. PieceMessage(r[1], r[2], "good") \in Message
    BY PieceMessageIsBlock DEF TypeOK, Offset
  <2> QED
    BY <1>6, <2>1, <2>2
<1>9. CASE PeerForges
  <2>1. PICK p \in Piece, d \in {"good", "corrupt", "badLength"} : \E i \in 0 .. Blocks[p] :
          PeerSends(PieceMessage(p, i, d))
    BY <1>9 DEF PeerForges
  <2> PICK i \in 0 .. Blocks[p] : PeerSends(PieceMessage(p, i, d))
    BY <2>1
  <2>2. i \in Nat
    BY ConstantsAssumption
  <2>3. PieceMessage(p, i, d) \in Message
    BY <2>2, PieceMessageIsBlock
  <2> QED
    BY <1>6, <2>3
<1>10. CASE Signal \/ WorkerStep \/ WaitFails \/ TimeOut \/ Retire \/ Cancel
  BY <1>1, <1>10
  DEF Signal, WorkerStep, CheckUnchoked, WakeUp, GetPieceStep, FillPipeline, PipelineFilled,
      FinishPiece, TestChoked, SeeClosed, SeeCancel, SelectFails, WorkerEnds, WaitFails,
      TimeOut, Retire, Cancel, clientVars, readerVars
<1>11. ASSUME NEW p \in Piece, TakeJob(p)
       PROVE  InTransit \subseteq InTransit'
  BY <1>1, <1>11 DEF TakeJob, clientVars, readerVars
<1> QED
  BY <1>1, <1>2, <1>3, <1>4, <1>5, <1>7, <1>8, <1>9, <1>10, <1>11
  DEF Next, ClientStep, ReaderStep, Honest, vars, clientVars, readerVars

LEMMA LostStep ==
    ASSUME IInv, [Next \/ PeerForges]_vars
    PROVE  NoBlockLost'
<1> USE DEF IInv
<1> SUFFICES ASSUME Downloading', ~shut', NEW i \in 0 .. next' - 1
             PROVE  Accounted(i)'
  BY DEF NoBlockLost, Accounted
<1>a. ASSUME Downloading, ~shut, NEW j \in 0 .. next - 1
      PROVE  Accounted(j)
  BY <1>a DEF NoBlockLost, Accounted
<1>n. next \in Nat
  BY DEF TypeOK
<1>1. ASSUME Accounted(i), piece' = piece, received \subseteq received',
             asked \cup dropped \subseteq asked' \cup dropped', InTransit \subseteq InTransit'
      PROVE  Accounted(i)'
  BY <1>1 DEF Accounted
<1>2. ASSUME UNCHANGED <<jobVars, peerVars>>, ~TakeBlock, Downloading, ~shut
      PROVE  Accounted(i)'
  <2>1. Accounted(i)
    BY <1>2, <1>a DEF jobVars
  <2>2. UNCHANGED <<piece, received, asked, dropped>>
    BY <1>2 DEF jobVars, peerVars
  <2> QED
    BY <1>1, <1>2, <2>1, <2>2, TransitGrows
<1>3. CASE ReaderStep \/ ReadFails \/ Cancel \/ UNCHANGED vars
  <2>1. UNCHANGED <<jobVars, peerVars, pc>> /\ (shut => shut')
    BY <1>3 DEF ReaderStep, ReadChoke, Signal, ReadBlock, DeliverBlock, AbandonBlock, ReadFails,
                Cancel, vars, clientVars
  <2>2. ~TakeBlock
    BY <2>1 DEF TakeBlock, Downloading, AcceptBlock, RejectBlock, RequestNext, RequestFails, Fail
  <2> QED
    BY <1>2, <2>1, <2>2 DEF Downloading
<1>4. CASE \/ CheckUnchoked \/ WakeUp \/ WaitFails \/ FinishPiece \/ SeeClosed \/ SeeCancel
           \/ TimeOut \/ WorkerEnds \/ Retire
  BY <1>4 DEF CheckUnchoked, WakeUp, WaitFails, FinishPiece, SeeClosed, SeeCancel, TimeOut,
              SelectFails, Fail, WorkerEnds, Retire, Downloading
<1>5. CASE PipelineFilled \/ TestChoked
  <2>1. UNCHANGED <<jobVars, peerVars, shut>> /\ Downloading
    BY <1>5 DEF PipelineFilled, TestChoked, clientVars, Downloading
  <2>2. pc # "select"
    BY <1>5 DEF PipelineFilled, TestChoked
  <2> QED
    BY <1>2, <2>1, <2>2 DEF TakeBlock
<1>6. ASSUME NEW p \in Piece, TakeJob(p)
      PROVE  Accounted(i)'
  BY <1>6 DEF TakeJob
<1>7. ASSUME Honest \/ PeerForges
      PROVE  Accounted(i)'
  <2>1. UNCHANGED <<jobVars, pc, shut>>
    BY <1>7 DEF Honest, PeerUnchokes, PeerChokes, PeerAnswers, PeerForges, PeerSends, clientVars
  <2>2. Accounted(i)
    BY <1>a, <2>1 DEF Downloading, jobVars
  <2>3. ~TakeBlock
    BY <2>1 DEF TakeBlock, AcceptBlock, RejectBlock, RequestNext, RequestFails, Fail
  <2>4. InTransit \subseteq InTransit'
    BY <2>3, TransitGrows
  <2>5. CASE PeerUnchokes \/ PeerChokes \/ PeerForges
    <3>1. asked \cup dropped \subseteq asked' \cup dropped'
      BY <2>5 DEF PeerUnchokes, PeerChokes, PeerForges
    <3> QED
      BY <1>1, <2>1, <2>2, <2>4, <3>1 DEF jobVars
  <2>6. CASE PeerAnswers
    <3>1. PICK r \in asked : /\ asked' = asked \ {r} /\ dropped' = dropped
                             /\ PeerSends(PieceMessage(r[1], r[2], "good"))
      BY <2>6 DEF PeerAnswers
    <3> DEFINE m == PieceMessage(r[1], r[2], "good")
    <3>2. r \in Piece \X Nat
      BY DEF TypeOK, Offset
    <3>3. m \in Block /\ m \in Message /\ m.piece = r[1] /\ m.begin = r[2]
      BY <3>2, PieceMessageIsBlock DEF PieceMessage
    <3>4. wire' = Append(wire, m)
      BY <3>1 DEF PeerSends
    <3> HIDE DEF m
    <3>5. m \in Elements(wire')
      BY <3>3, <3>4, AppendElements DEF TypeOK
    <3>6. m \in InTransit'
      BY <3>3, <3>5 DEF InTransit, Elements
    <3>7. CASE <<piece, i>> = r
      BY <2>1, <3>2, <3>3, <3>6, <3>7 DEF Accounted, jobVars
    <3>8. CASE <<piece, i>> # r
      BY <2>1, <2>2, <2>4, <3>1, <3>8 DEF Accounted, jobVars
    <3> QED
      BY <3>7, <3>8
  <2> QED
    BY <1>7, <2>5, <2>6 DEF Honest
<1>8. ASSUME WriteRequest, Downloading, ~shut, piece' = piece, received \subseteq received',
             \A j \in 0 .. next - 1 : Accounted(j) =>
                 \/ j \in received'
                 \/ <<piece, j>> \in asked \cup dropped
                 \/ \E b \in InTransit' : b.piece = piece /\ b.begin = j
      PROVE  Accounted(i)'
  <2>1. asked \cup dropped \cup {<<piece, next>>} \subseteq asked' \cup dropped'
    BY <1>8 DEF WriteRequest
  <2>2. next' = next + 1
    BY <1>8 DEF WriteRequest
  <2>3. CASE i = next
    BY <1>8, <2>1, <2>3 DEF Accounted
  <2>4. CASE i # next
    <3>1. i \in 0 .. next - 1
      BY <1>n, <2>2, <2>4
    <3> QED
      BY <1>8, <1>a, <2>1, <3>1 DEF Accounted
  <2> QED
    BY <2>3, <2>4
<1>9. CASE FillPipeline
  <2>1. WriteRequest /\ UNCHANGED <<shut, piece, received>> /\ pc = "request"
    BY <1>9 DEF FillPipeline, RequestFails, Fail, Downloading, clientVars
  <2>2. InTransit \subseteq InTransit'
    BY <2>1, TransitGrows DEF TakeBlock
  <2> QED
    BY <1>8, <2>1, <2>2 DEF Downloading, Accounted
<1>10. CASE TakeBlock
  <2> DEFINE b == Head(blocks)
  <2>1. /\ blocks # << >> /\ blocks' = Tail(blocks) /\ pc = "select"
        /\ UNCHANGED <<shut, piece, wire, hand>>
    BY <1>10 DEF TakeBlock, readerVars
  <2>2. Elements(blocks) = Elements(blocks') \cup {b}
    BY <2>1, TailElements DEF TypeOK
  <2>3. InTransit' = (Elements(wire') \cap Block) \cup Elements(blocks') \cup ({hand'} \cap Block)
    BY DEF InTransit, Elements
  <2>4. InTransit \subseteq InTransit' \cup {b}
    BY <2>1, <2>2, <2>3, Transit
  <2> HIDE DEF b
  <2>5. Downloading /\ ~shut
    BY <2>1 DEF Downloading
  <2>6. ASSUME received \subseteq received', b.piece = piece => b.begin \in received',
               NEW j \in 0 .. next - 1
        PROVE  \/ j \in received'
               \/ <<piece, j>> \in asked \cup dropped
               \/ \E c \in InTransit' : c.piece = piece /\ c.begin = j
    BY <1>a, <2>4, <2>5, <2>6 DEF Accounted
  <2>7. CASE /\ received \subseteq received' /\ (b.piece = piece => b.begin \in received')
             /\ UNCHANGED <<next, peerVars>>
    BY <2>1, <2>6, <2>7 DEF Accounted, peerVars
  <2>8. CASE /\ received \subseteq received' /\ (b.piece = piece => b.begin \in received')
             /\ WriteRequest
    BY <1>8, <2>1, <2>5, <2>6, <2>8
  <2>9. CASE pc' = "failed"
    BY <2>9 DEF Downloading
  <2>10. CASE Foreign(b) /\ UNCHANGED <<received, next, peerVars>>
    BY <2>7, <2>10 DEF Foreign
  <2>11. CASE AcceptBlock(b)
    <3>1. CASE b.begin \in received /\ UNCHANGED <<received, next, peerVars>>
      BY <2>7, <3>1
    <3>2. CASE received' = received \cup {b.begin} /\ RequestNext
      BY <2>7, <2>8, <2>9, <3>2 DEF RequestNext, RequestFails, Fail
    <3> QED
      BY <2>11, <3>1, <3>2 DEF AcceptBlock
  <2> QED
    BY <1>10, <2>9, <2>10, <2>11 DEF TakeBlock, RejectBlock, Fail, b
<1> QED
  BY <1>3, <1>4, <1>5, <1>6, <1>7, <1>9, <1>10
  DEF Next, ClientStep, WorkerStep, GetPieceStep

LEMMA Inductive == IInv /\ [Next \/ PeerForges]_vars => IInv'
BY TypeStep, ReaderStepKeeps, WakeupStep, PipelineStep, LostStep DEF IInv

\* The inductive invariant holds with any peer.
THEOREM Invariant == WildSpec => []IInv
BY Initially, Inductive, PTL DEF WildSpec

\* A peer that keeps to the protocol is one of them.
LEMMA HonestIsWild == Spec => WildSpec
<1>1. [Next]_vars => [Next \/ PeerForges]_vars
  OBVIOUS
<1> QED
  BY <1>1, PTL DEF Spec, WildSpec

\* Every variable keeps its type: the blocks channel and the window stay in bounds.
THEOREM TypeCorrect == WildSpec => []TypeOK
<1>1. IInv => TypeOK
  BY DEF IInv
<1> QED
  BY <1>1, Invariant, PTL

\* conn.go signal, state.go WaitForUnchoke: an unchoke always wakes the waiting
\* goroutine, though notify has one slot and choked is read outside of it.
THEOREM NoWakeupIsLost == WildSpec => []NoLostWakeup
<1>1. IInv => NoLostWakeup
  BY DEF IInv
<1> QED
  BY <1>1, Invariant, PTL

\* piece.go downloadPiece: whatever a peer sends, the requests stay exactly
\* pipelineDepth ahead of the copied blocks.
THEOREM PipelineStaysFull == WildSpec => []PipelineIsFull
<1>1. IInv => PipelineIsFull
  BY DEF IInv
<1> QED
  BY <1>1, Invariant, PTL

\* reader.go, piece.go: between the request of a block and its copy neither
\* goroutine of the client drops it, for any capacities.
THEOREM NoBlockIsLost == WildSpec => []NoBlockLost
<1>1. IInv => NoBlockLost
  BY DEF IInv
<1> QED
  BY <1>1, Invariant, PTL

-----------------------------------------------------------------------------
(***************************************************************************)
(* What liveness rests on, and what a piece consists of.                   *)
(***************************************************************************)

\* A block of the current piece that is still to be copied was asked for, and the peer is
\* going to answer, has discarded the request as it chokes us, or has answered.
SomethingToWaitFor ==
    \E i \in 0 .. Blocks[piece] - 1 :
        /\ i \notin received
        /\ \/ <<piece, i>> \in asked \cup dropped
           \/ \E b \in InTransit : b.piece = piece /\ b.begin = i

\* piece.go downloadPiece: GetPiece never waits for a block without a request that was
\* sent for one it still lacks, whatever came before, twice, unasked or of other pieces.
NeverWaitsForNothing ==
    pc \in {"test", "select"} /\ ~shut /\ ~Complete => SomethingToWaitFor

\* What was copied is a finite number of blocks; all of them if the piece is complete.
LEMMA CountedBlocks ==
    ASSUME TypeOK
    PROVE  /\ Blocks[piece] \in Nat /\ IsFiniteSet(received) /\ Cardinality(received) \in Nat
           /\ Cardinality(0 .. Blocks[piece] - 1) = Blocks[piece]
           /\ Complete => received = 0 .. Blocks[piece] - 1
<1>1. Blocks[piece] \in Nat /\ received \subseteq 0 .. Blocks[piece] - 1
  BY ConstantsAssumption DEF TypeOK
<1>2. /\ IsFiniteSet(0 .. Blocks[piece] - 1)
      /\ Cardinality(0 .. Blocks[piece] - 1) = Blocks[piece]
  <2>1. 0 \in Int /\ Blocks[piece] - 1 \in Int
    BY <1>1
  <2>2. /\ IsFiniteSet(0 .. Blocks[piece] - 1)
        /\ Cardinality(0 .. Blocks[piece] - 1) =
              IF 0 > Blocks[piece] - 1 THEN 0 ELSE Blocks[piece] - 1 - 0 + 1
    BY <2>1, FS_Interval
  <2> QED
    BY <1>1, <2>2
<1>3. IsFiniteSet(received) /\ Cardinality(received) \in Nat
  BY <1>1, <1>2, FS_Subset, FS_CardinalityType
<1>4. ASSUME Complete
      PROVE  received = 0 .. Blocks[piece] - 1
  <2>1. /\ Cardinality(received) <= Cardinality(0 .. Blocks[piece] - 1)
        /\ Cardinality(0 .. Blocks[piece] - 1) = Cardinality(received) =>
              0 .. Blocks[piece] - 1 = received
    BY <1>1, <1>2, FS_Subset
  <2> QED
    BY <1>1, <1>2, <1>3, <1>4, <2>1 DEF Complete
<1> QED
  BY <1>1, <1>2, <1>3, <1>4

\* Neither goroutine can wait for a block that nobody was asked for, with any peer.
THEOREM NeverStalls == WildSpec => []NeverWaitsForNothing
<1>1. ASSUME IInv, pc \in {"test", "select"}, ~shut, ~Complete
      PROVE  SomethingToWaitFor
  <2>1. /\ Blocks[piece] \in Nat /\ IsFiniteSet(received) /\ Cardinality(received) \in Nat
        /\ Cardinality(received) < Blocks[piece]
    BY <1>1, CountedBlocks DEF IInv, Complete
  <2>2. next = Lesser(Blocks[piece], PipelineDepth + Cardinality(received))
    BY <1>1 DEF IInv, PipelineIsFull
  <2>3. next \in Nat /\ Cardinality(received) < next /\ next <= Blocks[piece]
    BY <2>1, <2>2, ConstantsAssumption DEF Lesser
  <2>4. ~(0 .. next - 1 \subseteq received)
    <3>1. SUFFICES ASSUME 0 .. next - 1 \subseteq received
                   PROVE  FALSE
      OBVIOUS
    <3>2. Cardinality(0 .. next - 1) = next
      <4>1. 0 \in Int /\ next - 1 \in Int
        BY <2>3
      <4>2. Cardinality(0 .. next - 1) = IF 0 > next - 1 THEN 0 ELSE next - 1 - 0 + 1
        BY <4>1, FS_Interval
      <4> QED
        BY <2>3, <4>2
    <3>3. Cardinality(0 .. next - 1) <= Cardinality(received)
      BY <2>1, <3>1, FS_Subset
    <3> QED
      BY <2>1, <2>3, <3>2, <3>3
  <2>5. PICK i \in 0 .. next - 1 : i \notin received
    BY <2>4
  <2>6. \/ <<piece, i>> \in asked \cup dropped
        \/ \E b \in InTransit : b.piece = piece /\ b.begin = i
    BY <1>1, <2>5 DEF IInv, NoBlockLost, Downloading
  <2>7. i \in 0 .. Blocks[piece] - 1
    BY <2>1, <2>3, <2>5
  <2> QED
    BY <2>5, <2>6, <2>7 DEF SomethingToWaitFor
<1>2. IInv => NeverWaitsForNothing
  BY <1>1 DEF NeverWaitsForNothing
<1> QED
  BY <1>2, Invariant, PTL

\* piece.go GetPiece: what it returns without an error is the piece, every block of it and
\* nothing of another content, until the next job.
PieceIsWhole ==
    result = "ok" =>
        pc \in {"idle", "ended"} /\ received = 0 .. Blocks[piece] - 1 /\ corrupt = {}

\* A step that leaves the job and the result alone, or gives another result.
LEMMA WholeStep ==
    ASSUME IInv, PieceIsWhole, [Next \/ PeerForges]_vars
    PROVE  PieceIsWhole'
<1> USE DEF PieceIsWhole
<1>1. ASSUME UNCHANGED <<pc, jobVars, result>>
      PROVE  PieceIsWhole'
  BY <1>1 DEF jobVars
<1>2. CASE ReaderStep \/ ReadFails \/ Retire \/ Cancel \/ Honest \/ PeerForges \/ UNCHANGED vars
  BY <1>1, <1>2
  DEF ReaderStep, ReadChoke, Signal, ReadBlock, DeliverBlock, AbandonBlock, ReadFails, Retire,
      Cancel, Honest, PeerUnchokes, PeerChokes, PeerAnswers, PeerForges, PeerSends, vars
<1>3. CASE WaitFails \/ SeeClosed \/ SeeCancel \/ TimeOut
  BY <1>3 DEF WaitFails, SeeClosed, SeeCancel, TimeOut, SelectFails, Fail
<1>4. CASE CheckUnchoked \/ WakeUp \/ PipelineFilled
  BY <1>4 DEF CheckUnchoked, WakeUp, PipelineFilled
<1>5. CASE WorkerEnds
  BY <1>5 DEF WorkerEnds, jobVars
<1>6. ASSUME NEW p \in Piece, TakeJob(p)
      PROVE  PieceIsWhole'
  BY <1>6 DEF TakeJob
<1>7. CASE FillPipeline
  BY <1>7 DEF FillPipeline, RequestFails, Fail
<1>8. CASE FinishPiece
  <2>1. received = 0 .. Blocks[piece] - 1
    BY <1>8, CountedBlocks DEF FinishPiece, IInv
  <2> QED
    BY <1>8, <2>1 DEF FinishPiece, Fail, jobVars
<1>9. CASE TestChoked
  BY <1>9 DEF TestChoked, Fail
<1>10. CASE TakeBlock
  <2>1. pc = "select" /\ result # "ok"
    BY <1>10 DEF TakeBlock
  <2> QED
    BY <1>10, <2>1
    DEF TakeBlock, AcceptBlock, RejectBlock, RequestNext, RequestFails, Fail
<1> QED
  BY <1>2, <1>3, <1>4, <1>5, <1>6, <1>7, <1>8, <1>9, <1>10
  DEF Next, ClientStep, WorkerStep, GetPieceStep

\* With any peer, a piece that GetPiece returns has every block, in its right content.
THEOREM PieceIsComplete == WildSpec => []PieceIsWhole
<1>1. Init => PieceIsWhole
  BY DEF Init, PieceIsWhole
<1>2. IInv /\ PieceIsWhole /\ [Next \/ PeerForges]_vars => PieceIsWhole'
  BY WholeStep
<1> QED
  BY <1>1, <1>2, Invariant, PTL DEF WildSpec

-----------------------------------------------------------------------------
(***************************************************************************)
(* A peer that keeps to the protocol.                                      *)
(***************************************************************************)

\* Everything on its way to GetPiece is a good block of its piece, and so is the
\* answer to every request that the peer may still answer.
HonestInv ==
    /\ \A b \in InTransit : b.data = "good" /\ b.begin <= LastBegin(b.piece)
    /\ \A r \in asked : r[2] <= LastBegin(r[1])
    /\ corrupt = {}
    /\ HonestNotRejected

\* The client makes no blocks up.
LEMMA TransitShrinks ==
    ASSUME IInv, ClientStep \/ ReadFails \/ WaitFails \/ TimeOut \/ Retire \/ Cancel
    PROVE  InTransit' \subseteq InTransit
<1> USE DEF IInv
<1>t. InTransit' = (Elements(wire') \cap Block) \cup Elements(blocks') \cup ({hand'} \cap Block)
  BY DEF InTransit, Elements
<1>1. CASE UNCHANGED <<wire, blocks, hand>>
  BY <1>1, <1>t, Transit
<1>2. CASE ReadChoke
  <2>1. wire # << >> /\ wire' = Tail(wire) /\ UNCHANGED <<blocks, hand>>
    BY <1>2 DEF ReadChoke
  <2>2. Elements(wire') \subseteq Elements(wire)
    BY <2>1, TailElements DEF TypeOK
  <2> QED
    BY <1>t, <2>1, <2>2, Transit
<1>3. CASE ReadBlock
  <2>1. wire # << >> /\ wire' = Tail(wire) /\ blocks' = blocks /\ hand' = Head(wire)
    BY <1>3 DEF ReadBlock, clientVars
  <2>2. Elements(wire) = Elements(wire') \cup {hand'}
    BY <2>1, TailElements DEF TypeOK
  <2> QED
    BY <1>t, <2>1, <2>2, Transit
<1>4. CASE DeliverBlock
  <2>1. wire' = wire /\ blocks' = Append(blocks, hand) /\ hand \in Block /\ hand' = NoBlock
    BY <1>4 DEF DeliverBlock, PutBlock, ReaderInv
  <2>2. Elements(blocks') = Elements(blocks) \cup {hand}
    BY <2>1, AppendElements DEF TypeOK
  <2> QED
    BY <1>t, <2>1, <2>2, Transit, BlockIsPiece
<1>5. CASE AbandonBlock
  <2>1. hand' = NoBlock /\ UNCHANGED <<wire, blocks>>
    BY <1>5 DEF AbandonBlock, clientVars
  <2> QED
    BY <1>t, <2>1, Transit, BlockIsPiece
<1>6. CASE TakeBlock
  <2>1. blocks # << >> /\ blocks' = Tail(blocks) /\ UNCHANGED <<wire, hand>>
    BY <1>6 DEF TakeBlock, readerVars
  <2>2. Elements(blocks') \subseteq Elements(blocks)
    BY <2>1, TailElements DEF TypeOK
  <2> QED
    BY <1>t, <2>1, <2>2, Transit
<1>7. ASSUME NEW p \in Piece, TakeJob(p)
      PROVE  InTransit' \subseteq InTransit
  BY <1>1, <1>7 DEF TakeJob, clientVars, readerVars
<1>8. CASE \/ Signal \/ CheckUnchoked \/ WakeUp \/ FillPipeline \/ PipelineFilled \/ FinishPiece
           \/ TestChoked \/ SeeClosed \/ SeeCancel \/ WorkerEnds \/ ReadFails \/ WaitFails
           \/ TimeOut \/ Retire \/ Cancel
  BY <1>1, <1>8
  DEF Signal, CheckUnchoked, WakeUp, FillPipeline, PipelineFilled, FinishPiece, TestChoked,
      SeeClosed, SeeCancel, SelectFails, WorkerEnds, ReadFails, WaitFails, TimeOut, Retire, Cancel,
      clientVars, readerVars
<1> QED
  BY <1>2, <1>3, <1>4, <1>5, <1>6, <1>7, <1>8
  DEF ClientStep, ReaderStep, WorkerStep, GetPieceStep

\* The receive of GetPiece meets only blocks that it accepts.
LEMMA TakesGoodBlock ==
    ASSUME IInv, HonestInv, TakeBlock
    PROVE  /\ corrupt' = {}
           /\ result' \in {result, "write"}
           /\ UNCHANGED asked \/ (next < Blocks[piece] /\ WriteRequest)
<1> DEFINE b == Head(blocks)
<1>1. blocks # << >> /\ b \in Elements(blocks) /\ b \in Block
  BY TailElements DEF TakeBlock, IInv, TypeOK
<1>2. b.data = "good" /\ b.begin <= LastBegin(b.piece)
  BY <1>1, Transit DEF HonestInv
<1>3. b.begin \in Nat /\ b.piece \in Piece /\ Blocks[b.piece] \in Nat
  BY <1>1, BlockIsPiece, ConstantsAssumption
<1>4. corrupt = {}
  BY DEF HonestInv
<1> HIDE DEF b
<1>5. ~(b.begin > LastBegin(b.piece))
  BY <1>2, <1>3 DEF LastBegin
<1>6. CASE Foreign(b) /\ UNCHANGED <<corrupt, result, peerVars>>
  BY <1>4, <1>6 DEF peerVars
<1>7. CASE AcceptBlock(b)
  <2>1. CASE UNCHANGED <<corrupt, result, peerVars>>
    BY <1>4, <2>1 DEF peerVars
  <2>2. CASE corrupt' = {} /\ RequestNext
    BY <2>2 DEF RequestNext, RequestFails, Fail, peerVars
  <2> QED
    BY <1>2, <1>4, <1>7, <2>1, <2>2 DEF AcceptBlock
<1> QED
  BY <1>2, <1>5, <1>6, <1>7 DEF TakeBlock, Foreign, b

LEMMA HonestStep ==
    ASSUME IInv, HonestInv, [Next]_vars
    PROVE  HonestInv'
<1> USE DEF HonestInv, HonestNotRejected
<1>w. ASSUME WriteRequest, next < Blocks[piece]
      PROVE  \A r \in asked' : r[2] <= LastBegin(r[1])
  <2>1. asked' \subseteq asked \cup {<<piece, next>>}
    BY <1>w DEF WriteRequest
  <2>2. next <= LastBegin(piece)
    BY <1>w, ConstantsAssumption DEF LastBegin, IInv, TypeOK
  <2> QED
    BY <2>1, <2>2
<1>t. ASSUME ClientStep \/ ReadFails \/ WaitFails \/ TimeOut \/ Retire \/ Cancel
      PROVE  \A b \in InTransit' : b.data = "good" /\ b.begin <= LastBegin(b.piece)
  BY <1>t, TransitShrinks
<1>1. CASE ReaderStep \/ ReadFails \/ Retire \/ Cancel \/ CheckUnchoked \/ WakeUp \/ PipelineFilled
           \/ WorkerEnds
  <2>1. UNCHANGED <<corrupt, asked, result>>
    BY <1>1 DEF ReaderStep, ReadChoke, Signal, ReadBlock, DeliverBlock, AbandonBlock, ReadFails,
                Retire, Cancel, CheckUnchoked, WakeUp, PipelineFilled, WorkerEnds, jobVars, peerVars
  <2> QED
    BY <1>1, <1>t, <2>1 DEF ClientStep, WorkerStep, GetPieceStep
<1>2. CASE WaitFails \/ SeeClosed \/ SeeCancel \/ TimeOut \/ TestChoked \/ FinishPiece
  <2>1. /\ UNCHANGED <<corrupt, asked>>
        /\ result' \in {result, "ok", "refused", "closed", "cancelled", "timeout", "choked"}
    BY <1>2 DEF WaitFails, SeeClosed, SeeCancel, TimeOut, SelectFails, Fail, TestChoked, FinishPiece,
                jobVars, peerVars
  <2> QED
    BY <1>2, <1>t, <2>1 DEF ClientStep, WorkerStep, GetPieceStep
<1>3. ASSUME NEW p \in Piece, TakeJob(p)
      PROVE  HonestInv'
  <2>1. corrupt' = {} /\ result' = "none" /\ UNCHANGED asked
    BY <1>3 DEF TakeJob, peerVars
  <2> QED
    BY <1>3, <1>t, <2>1 DEF ClientStep
<1>4. CASE FillPipeline
  <2>1. /\ UNCHANGED corrupt /\ result' \in {result, "write"}
        /\ UNCHANGED asked \/ WriteRequest
    BY <1>4 DEF FillPipeline, RequestFails, Fail, peerVars
  <2>2. next < Blocks[piece]
    BY <1>4, ConstantsAssumption DEF FillPipeline, FirstRequests, Lesser, IInv, TypeOK
  <2> QED
    BY <1>4, <1>t, <1>w, <2>1, <2>2 DEF ClientStep, WorkerStep, GetPieceStep
<1>5. CASE TakeBlock
  BY <1>5, <1>t, <1>w, TakesGoodBlock DEF ClientStep, WorkerStep, GetPieceStep
<1>6. ASSUME NEW m \in Message, PeerSends(m), asked' \subseteq asked,
             m \in Block => m.data = "good" /\ m.begin <= LastBegin(m.piece)
      PROVE  HonestInv'
  <2>1. Elements(wire') = Elements(wire) \cup {m} /\ UNCHANGED <<blocks, hand, corrupt, result>>
    BY <1>6, AppendElements DEF PeerSends, clientVars, readerVars, jobVars, IInv, TypeOK
  <2>2. InTransit' = (Elements(wire') \cap Block) \cup Elements(blocks') \cup ({hand'} \cap Block)
    BY DEF InTransit, Elements
  <2>3. InTransit' \subseteq InTransit \cup ({m} \cap Block)
    BY <2>1, <2>2, Transit
  <2> QED
    BY <1>6, <2>1, <2>3
<1>7. CASE PeerUnchokes \/ PeerChokes
  <2>1. /\ [type |-> "unchoke"] \in Message /\ [type |-> "choke"] \in Message
        /\ [type |-> "unchoke"] \notin Block /\ [type |-> "choke"] \notin Block
    BY DEF Message, Block
  <2> QED
    BY <1>6, <1>7, <2>1 DEF PeerUnchokes, PeerChokes
<1>8. CASE PeerAnswers
  <2>1. PICK r \in asked : /\ asked' = asked \ {r}
                           /\ PeerSends(PieceMessage(r[1], r[2], "good"))
    BY <1>8 DEF PeerAnswers
  <2>2. r \in Piece \X Nat
    BY DEF IInv, TypeOK, Offset
  <2>3. PieceMessage(r[1], r[2], "good") \in Message
    BY <2>2, PieceMessageIsBlock
  <2>4. /\ PieceMessage(r[1], r[2], "good").data = "good"
        /\ PieceMessage(r[1], r[2], "good").piece = r[1]
        /\ PieceMessage(r[1], r[2], "good").begin = r[2]
    BY DEF PieceMessage
  <2> QED
    BY <1>6, <2>1, <2>3, <2>4
<1>9. CASE UNCHANGED vars
  <2>1. InTransit' = InTransit
    BY <1>9 DEF InTransit, vars, clientVars, readerVars
  <2> QED
    BY <1>9, <2>1 DEF vars, jobVars, peerVars
<1> QED
  BY <1>1, <1>2, <1>3, <1>4, <1>5, <1>7, <1>8, <1>9
  DEF Next, ClientStep, WorkerStep, GetPieceStep, Honest

\* piece.go downloadPiece, GetPiece: a peer that answers what it was asked, in any
\* order, with any chokes in between and over any number of pieces, is never
\* dropped for a wrong offset, length or hash.
THEOREM HonestPeerIsNotBlamed == Spec => []HonestNotRejected
<1>1. Init => HonestInv
  BY DEF Init, HonestInv, HonestNotRejected, InTransit, NoBlock, Block
<1>2. IInv /\ HonestInv /\ [Next]_vars => HonestInv'
  BY HonestStep
<1>3. Spec => []IInv
  BY Invariant, HonestIsWild, PTL
<1>4. HonestInv => HonestNotRejected
  BY DEF HonestInv
<1> QED
  BY <1>1, <1>2, <1>3, <1>4, PTL DEF Spec
=============================================================================
