--------------------------- MODULE PieceTransfer ---------------------------
(***************************************************************************)
(* One connected peer of internal/peer: the goroutine of readLoop takes    *)
(* messages off the connection and shares choked, the one-slot notify      *)
(* channel, the blocks channel and closeCh with the goroutine that first   *)
(* runs WaitForUnchoke (a dial of ConnectPeers) and then GetPiece, once    *)
(* per job (Worker.Run).  Download may close the client at any time.       *)
(*                                                                         *)
(* In a piece message begin counts blocks, and equals the number of blocks *)
(* for an offset that is none of the piece's; data tells whether length    *)
(* and content are right.  Have and Bitfield messages only change what     *)
(* HasPiece answers and are left out.                                      *)
(***************************************************************************)
EXTENDS Integers, Sequences, FiniteSets

CONSTANTS
    Piece,          \* piece indices
    Blocks,         \* number of blocks of each piece
    PipelineDepth,  \* pipelineDepth (5 in the code)
    BlocksCap,      \* capacity of the blocks channel (20 in the code)
    WireCap,        \* bound: messages on their way from the peer
    MaxTurns        \* bound: chokes, unchokes and forged messages of the peer

ASSUME ConstantsAssumption ==
    /\ Blocks \in [Piece -> Nat]
    /\ PipelineDepth \in Nat \ {0}
    /\ BlocksCap \in Nat \ {0}
    /\ WireCap \in Nat \ {0}
    /\ MaxTurns \in Nat

VARIABLES
    \* --- the client
    choked,    \* c.choked
    notify,    \* c.notify holds a token
    blocks,    \* c.blocks
    shut,      \* c.closeCh is closed, and with it the connection
    \* --- readLoop
    reader,    \* where it is
    hand,      \* the block it is sending on c.blocks
    \* --- the goroutine of WaitForUnchoke and of Worker.Run
    pc,        \* where it is
    piece,     \* piece of the current job
    next,      \* number of blocks requested
    received,  \* blocks of the piece that were copied
    corrupt,   \* those among them with wrong content
    result,    \* why the last GetPiece or WaitForUnchoke returned
    \* --- Download
    cancelled, \* the context is cancelled
    retired,   \* Download has closed Jobs and the client
    \* --- the peer and the network
    choking,   \* the peer chokes us
    asked,     \* requests it is going to answer
    dropped,   \* requests it discarded because it chokes us
    wire,      \* messages under way to us
    turns      \* chokes, unchokes and forged messages so far

clientVars == <<choked, notify, blocks, shut>>
readerVars == <<reader, hand>>
jobVars    == <<piece, next, received, corrupt>>
peerVars   == <<choking, asked, dropped, turns>>
vars == <<clientVars, readerVars, pc, jobVars, result, cancelled, retired, peerVars, wire>>

Offset == Nat
Block == [type : {"piece"}, piece : Piece, begin : Offset,
          data : {"good", "corrupt", "badLength"}]
NoBlock == [type |-> "none"]
Message == [type : {"choke", "unchoke"}] \cup Block
PieceMessage(p, i, d) == [type |-> "piece", piece |-> p, begin |-> i, data |-> d]

Downloading == pc \in {"request", "test", "select"}
Lesser(a, b) == IF a <= b THEN a ELSE b

\* Mutant: the offset of the last block is not valid.
LastOffsetMissing(p) == Blocks[p] - 2
\* The last of validOffsets.
LastBegin(p) == Blocks[p] - 1

\* Connect, Handshake, Start and Interested are done; the peer got nothing else.
Init ==
    /\ choked = TRUE /\ notify = FALSE /\ blocks = <<>> /\ shut = FALSE
    /\ reader = "reading" /\ hand = NoBlock
    /\ pc = "check" /\ piece \in Piece /\ next = 0
    /\ received = {} /\ corrupt = {} /\ result = "none"
    /\ cancelled = FALSE /\ retired = FALSE
    /\ choking = TRUE /\ asked = {} /\ dropped = {} /\ wire = <<>> /\ turns = 0

-----------------------------------------------------------------------------
(***************************************************************************)
(* readLoop.                                                               *)
(***************************************************************************)

\* setChoked stores the value under the lock and signals after the unlock.
ReadChoke ==
    /\ reader = "reading" /\ ~shut
    /\ wire # <<>> /\ Head(wire).type \in {"choke", "unchoke"}
    /\ choked' = (Head(wire).type = "choke")
    /\ wire' = Tail(wire)
    /\ reader' = "signalling"
    /\ UNCHANGED <<notify, blocks, shut, hand, pc, jobVars, result, cancelled, retired,
                   peerVars>>

\* Mutant: a token is only put when the peer chokes us.
SignalChokeOnly == notify' = (notify \/ choked)
\* A full notify channel already holds the wake-up.
PutToken == notify' = TRUE

Signal ==
    /\ reader = "signalling"
    /\ PutToken
    /\ reader' = "reading"
    /\ UNCHANGED <<choked, blocks, shut, hand, pc, jobVars, result, cancelled, retired,
                   peerVars, wire>>

ReadBlock ==
    /\ reader = "reading" /\ ~shut
    /\ wire # <<>> /\ Head(wire).type = "piece"
    /\ hand' = Head(wire)
    /\ wire' = Tail(wire)
    /\ reader' = "sending"
    /\ UNCHANGED <<clientVars, pc, jobVars, result, cancelled, retired, peerVars>>

\* Mutant: the channel has no capacity limit.
PutAlways == blocks' = Append(blocks, hand)
\* Mutant: a block that finds the channel full is dropped.
DropWhenFull == blocks' = IF Len(blocks) < BlocksCap THEN Append(blocks, hand) ELSE blocks
\* The send on c.blocks waits for room.
PutBlock == Len(blocks) < BlocksCap /\ blocks' = Append(blocks, hand)

DeliverBlock ==
    /\ reader = "sending"
    /\ PutBlock
    /\ hand' = NoBlock
    /\ reader' = "reading"
    /\ UNCHANGED <<choked, notify, shut, pc, jobVars, result, cancelled, retired,
                   peerVars, wire>>

\* Mutant: the send has no closeCh case.
SendForEver == FALSE
SendAborts == shut

AbandonBlock ==
    /\ reader = "sending" /\ SendAborts
    /\ hand' = NoBlock
    /\ reader' = "ended"
    /\ UNCHANGED <<clientVars, pc, jobVars, result, cancelled, retired, peerVars, wire>>

\* The connection was closed by us or the peer, readIdleTimeout passed, or the
\* message is malformed: the client is closed.
ReadFails ==
    /\ reader = "reading"
    /\ shut' = TRUE
    /\ reader' = "ended"
    /\ UNCHANGED <<choked, notify, blocks, hand, pc, jobVars, result, cancelled, retired,
                   peerVars, wire>>

ReaderStep == ReadChoke \/ Signal \/ ReadBlock \/ DeliverBlock \/ AbandonBlock

-----------------------------------------------------------------------------
(***************************************************************************)
(* WaitForUnchoke.                                                         *)
(***************************************************************************)

CheckUnchoked ==
    /\ pc = "check"
    /\ pc' = IF choked THEN "wait" ELSE "idle"
    /\ UNCHANGED <<clientVars, readerVars, jobVars, result, cancelled, retired, peerVars,
                   wire>>

WakeUp ==
    /\ pc = "wait" /\ notify
    /\ notify' = FALSE
    /\ pc' = "check"
    /\ UNCHANGED <<choked, blocks, shut, readerVars, jobVars, result, cancelled, retired,
                   peerVars, wire>>

\* closeCh, ctx.Done() or the deadline: the dial goroutine closes the client.
WaitFails ==
    /\ pc = "wait"
    /\ shut' = TRUE
    /\ pc' = "ended"
    /\ result' = "refused"
    /\ UNCHANGED <<choked, notify, blocks, readerVars, jobVars, cancelled, retired,
                   peerVars, wire>>

-----------------------------------------------------------------------------
(***************************************************************************)
(* GetPiece.                                                               *)
(***************************************************************************)

\* GetPiece returns an error; Download is going to remove the worker.
Fail(why) ==
    /\ pc' = "failed"
    /\ result' = why

TakeJob(p) ==
    /\ pc = "idle" /\ ~retired
    /\ pc' = "request"
    /\ piece' = p
    /\ next' = 0 /\ received' = {} /\ corrupt' = {}
    /\ result' = "none"
    /\ UNCHANGED <<clientVars, readerVars, cancelled, retired, peerVars, wire>>

\* A request gets through.  A peer that chokes us discards it.
WriteRequest ==
    /\ ~shut
    /\ next' = next + 1
    /\ IF choking
       THEN dropped' = dropped \cup {<<piece, next>>} /\ UNCHANGED asked
       ELSE asked' = asked \cup {<<piece, next>>} /\ UNCHANGED dropped
    /\ UNCHANGED <<choking, turns>>

RequestFails ==
    /\ Fail("write")
    /\ UNCHANGED <<next, peerVars>>

\* requestNext, also when there is nothing left to request.
RequestNext ==
    \/ next < Blocks[piece] /\ WriteRequest /\ pc' = "test" /\ UNCHANGED result
    \/ next < Blocks[piece] /\ RequestFails
    \/ next >= Blocks[piece] /\ pc' = "test" /\ UNCHANGED <<next, result, peerVars>>

FirstRequests == Lesser(Blocks[piece], PipelineDepth)

\* The requests before the first wait, one at a time.
FillPipeline ==
    /\ pc = "request" /\ next < FirstRequests
    /\ \/ WriteRequest /\ UNCHANGED <<pc, result>>
       \/ RequestFails
    /\ UNCHANGED <<clientVars, readerVars, piece, received, corrupt, cancelled, retired,
                   wire>>

PipelineFilled ==
    /\ pc = "request" /\ next >= FirstRequests
    /\ pc' = "test"
    /\ UNCHANGED <<clientVars, readerVars, jobVars, result, cancelled, retired, peerVars,
                   wire>>

Complete == Cardinality(received) >= Blocks[piece]

\* Every block was copied: the hash of the piece decides.
FinishPiece ==
    /\ pc = "test" /\ Complete
    /\ IF corrupt = {}
       THEN pc' = "idle" /\ result' = "ok"
       ELSE Fail("hash")
    /\ UNCHANGED <<clientVars, readerVars, jobVars, cancelled, retired, peerVars, wire>>

\* The check at the top of the loop; the select below it does not see a choke.
TestChoked ==
    /\ pc = "test" /\ ~Complete
    /\ IF choked THEN Fail("choked") ELSE pc' = "select" /\ UNCHANGED result
    /\ UNCHANGED <<clientVars, readerVars, jobVars, cancelled, retired, peerVars, wire>>

\* Mutant: a second copy of a block leads to another request.
RequestOnEveryBlock(b) ==
    /\ received' = received \cup {b.begin}
    /\ corrupt' = IF b.data = "corrupt" THEN corrupt \cup {b.begin} ELSE corrupt
    /\ RequestNext
\* A block with valid offset and length: the first copy counts.
AcceptBlock(b) ==
    IF b.begin \in received
    THEN pc' = "test" /\ UNCHANGED <<received, corrupt, next, result, peerVars>>
    ELSE /\ received' = received \cup {b.begin}
         /\ corrupt' = IF b.data = "corrupt" THEN corrupt \cup {b.begin} ELSE corrupt
         /\ RequestNext

Foreign(b) == b.piece # piece

RejectBlock(why) == Fail(why) /\ UNCHANGED <<received, corrupt, next, peerVars>>

\* The select takes a block.  validOffsets holds every offset of the piece, those
\* not requested yet included.
TakeBlock ==
    /\ pc = "select" /\ blocks # <<>>
    /\ blocks' = Tail(blocks)
    /\ LET b == Head(blocks) IN
        \/ /\ Foreign(b)
           /\ pc' = "test"
           /\ UNCHANGED <<received, corrupt, next, result, peerVars>>
        \/ ~Foreign(b) /\ b.begin > LastBegin(piece) /\ RejectBlock("offset")
        \/ /\ ~Foreign(b) /\ b.begin <= LastBegin(piece)
           /\ IF b.data = "badLength" THEN RejectBlock("length") ELSE AcceptBlock(b)
    /\ UNCHANGED <<choked, notify, shut, readerVars, piece, cancelled, retired, wire>>

SelectFails(why) ==
    /\ pc = "select"
    /\ Fail(why)
    /\ UNCHANGED <<clientVars, readerVars, jobVars, cancelled, retired, peerVars, wire>>

SeeClosed == shut /\ SelectFails("closed")
SeeCancel == cancelled /\ SelectFails("cancelled")

\* Mutant: no timer runs while waiting for a block.
NeverTimesOut == FALSE
\* blockTimeout passes without a block.
TimerExpires == blocks = <<>>
TimeOut == TimerExpires /\ SelectFails("timeout")

\* The range over Jobs ends.
WorkerEnds ==
    /\ pc \in {"idle", "failed"} /\ retired
    /\ pc' = "ended"
    /\ UNCHANGED <<clientVars, readerVars, jobVars, result, cancelled, retired, peerVars,
                   wire>>

GetPieceStep ==
    \/ FillPipeline \/ PipelineFilled \/ FinishPiece \/ TestChoked
    \/ TakeBlock \/ SeeClosed \/ SeeCancel
WorkerStep == CheckUnchoked \/ WakeUp \/ GetPieceStep \/ WorkerEnds

-----------------------------------------------------------------------------
(***************************************************************************)
(* Download, the user and the peer.                                        *)
(***************************************************************************)

\* removeWorker or closeWorkerList: Jobs and the client are closed.  The client is
\* not known to Download before WaitForUnchoke succeeded.
Retire ==
    /\ ~retired /\ pc \notin {"check", "wait", "ended"}
    /\ retired' = TRUE
    /\ shut' = TRUE
    /\ UNCHANGED <<choked, notify, blocks, readerVars, pc, jobVars, result, cancelled,
                   peerVars, wire>>

Cancel ==
    /\ ~cancelled
    /\ cancelled' = TRUE
    /\ UNCHANGED <<clientVars, readerVars, pc, jobVars, result, retired, peerVars, wire>>

PeerSends(m) ==
    /\ Len(wire) < WireCap
    /\ wire' = Append(wire, m)
    /\ UNCHANGED <<clientVars, readerVars, pc, jobVars, result, cancelled, retired>>

PeerUnchokes ==
    /\ choking /\ turns < MaxTurns
    /\ choking' = FALSE /\ turns' = turns + 1
    /\ UNCHANGED <<asked, dropped>>
    /\ PeerSends([type |-> "unchoke"])

\* The requests it has not answered are discarded.
PeerChokes ==
    /\ ~choking /\ turns < MaxTurns
    /\ choking' = TRUE /\ turns' = turns + 1
    /\ asked' = {} /\ dropped' = dropped \cup asked
    /\ PeerSends([type |-> "choke"])

PeerAnswers ==
    \E r \in asked :
        /\ asked' = asked \ {r}
        /\ UNCHANGED <<choking, dropped, turns>>
        /\ PeerSends(PieceMessage(r[1], r[2], "good"))

\* A peer that sends what it likes.
PeerForges ==
    /\ turns < MaxTurns
    /\ turns' = turns + 1
    /\ UNCHANGED <<choking, asked, dropped>>
    /\ \E p \in Piece, d \in {"good", "corrupt", "badLength"} :
        \E i \in 0 .. Blocks[p] :
            PeerSends(PieceMessage(p, i, d))

ClientStep ==
    \/ ReaderStep \/ WorkerStep
    \/ \E p \in Piece : TakeJob(p)

Honest == PeerUnchokes \/ PeerChokes \/ PeerAnswers

Next ==
    \/ ClientStep \/ ReadFails \/ WaitFails \/ TimeOut
    \/ Retire \/ Cancel
    \/ Honest

\* The peer keeps to the protocol: it answers each request once or discards it.
Spec == Init /\ [][Next]_vars

\* Any peer.
WildSpec == Init /\ [][Next \/ PeerForges]_vars

\* The goroutines run; the read of a closed connection and the timers end.
ClientFairness ==
    /\ WF_vars(ReaderStep \/ (shut /\ ReadFails))
    /\ WF_vars(WorkerStep \/ WaitFails \/ TimeOut)
    /\ WF_vars(pc = "failed" /\ Retire)
FairWildSpec == WildSpec /\ ClientFairness

\* The same with a client whose goroutines run and a peer that unchokes and answers;
\* no timer has to fire.
HonestSpec ==
    /\ Spec
    /\ WF_vars(ReaderStep) /\ WF_vars(WorkerStep)
    /\ WF_vars(PeerUnchokes) /\ WF_vars(PeerAnswers)

-----------------------------------------------------------------------------
(***************************************************************************)
(* Properties.                                                             *)
(***************************************************************************)

\* Every variable keeps its type; the channel and the window stay in bounds.
TypeOK ==
    /\ choked \in BOOLEAN /\ notify \in BOOLEAN /\ shut \in BOOLEAN
    /\ blocks \in Seq(Block) /\ Len(blocks) <= BlocksCap
    /\ reader \in {"reading", "signalling", "sending", "ended"}
    /\ hand \in Block \cup {NoBlock}
    /\ pc \in {"check", "wait", "idle", "request", "test", "select", "failed", "ended"}
    /\ piece \in Piece /\ next \in 0 .. Blocks[piece]
    /\ received \subseteq 0 .. Blocks[piece] - 1 /\ corrupt \subseteq received
    /\ result \in {"none", "ok", "refused", "write", "hash", "choked", "offset", "length",
                   "closed", "cancelled", "timeout"}
    /\ cancelled \in BOOLEAN /\ retired \in BOOLEAN /\ choking \in BOOLEAN
    /\ asked \subseteq Piece \X Offset /\ dropped \subseteq Piece \X Offset
    /\ wire \in Seq(Message) /\ Len(wire) <= WireCap
    /\ turns \in 0 .. MaxTurns

\* No wake-up is lost between the check of choked and the wait on the one-slot
\* notify channel: once we are unchoked, a waiting goroutine has a token or is
\* about to get one, whatever chokes and unchokes came before.
NoLostWakeup == pc = "wait" /\ ~choked => notify \/ reader = "signalling"

\* Whatever order blocks arrive in, repeated, forged or of earlier pieces: before
\* each wait the requests are exactly pipelineDepth ahead of the copied blocks, so
\* the loop can neither stall with nothing requested nor ask beyond its window.
PipelineIsFull ==
    pc \in {"test", "select"} =>
        next = Lesser(Blocks[piece], PipelineDepth + Cardinality(received))

\* The blocks of requests that are on their way from the peer to the worker.
InTransit ==
    {wire[i] : i \in {j \in DOMAIN wire : wire[j] \in Block}}
        \cup {blocks[i] : i \in DOMAIN blocks}
        \cup ({hand} \cap Block)

\* While the connection lasts, a block that was requested and has not been copied
\* is with the peer, discarded by it, or on its way, in readLoop's hand and the
\* full channel included: the client loses none.
NoBlockLost ==
    Downloading /\ ~shut =>
        \A i \in 0 .. next - 1 :
            \/ i \in received
            \/ <<piece, i>> \in asked \cup dropped
            \/ \E b \in InTransit : b.piece = piece /\ b.begin = i

\* GetPiece never blames a peer that keeps to the protocol, whatever chokes come in
\* between and over as many pieces as the connection lasts: the requests it sends
\* are exactly for blocks that it accepts.
HonestNotRejected == result \notin {"offset", "length", "hash"}

\* With any peer GetPiece returns: useless blocks run out, then a timer fires.
GetPieceEnds == Downloading ~> ~Downloading

\* readLoop ends after a close, also when it is stuck on a full blocks channel
\* that nobody reads.
ReaderEnds == shut ~> reader = "ended"

\* What may end a job other than the piece.
Trouble ==
    \/ shut \/ cancelled \/ retired \/ dropped # {}
    \/ result \in {"write", "choked", "timeout"}

\* With a peer that answers, a job that meets no trouble brings its piece: neither
\* the full channel nor the pipeline makes readLoop and the worker wait for each other.
PieceArrives == Downloading ~> result = "ok" \/ Trouble
=============================================================================
