----------------------------- MODULE Downloader -----------------------------
(***************************************************************************)
(* The download loop of internal/downloader: one goroutine runs Download   *)
(* (initial connect, reconnectWithBackoff, the select over results, the    *)
(* deferred clean-up), one goroutine per connected peer runs Worker.Run,   *)
(* and one goroutine per dialled address runs inside ConnectPeers.  They   *)
(* share the unbuffered Results and Jobs channels and a context.           *)
(*                                                                         *)
(* What a peer, a tracker, the disk and the user do is nondeterministic:   *)
(* a dial succeeds or not, a client answers HasPiece with any set, GetPiece *)
(* returns verified data or an error, a file operation fails, the user     *)
(* stops the daemon, the machine crashes and the user starts it again.     *)
(***************************************************************************)
EXTENDS Integers, SequencesExt, FiniteSets

CONSTANTS
    Worker,            \* slots for workers; a slot is used again by a later round
    N,                 \* number of pieces of the torrent
    MaxPieceFailures,  \* failures of one piece that are tolerated (8 in the code)
    MaxAttempts,       \* bound: reconnect attempts that fit in MaxElapsed
    MaxRuns            \* bound: times the program is started

ASSUME ConstantsAssumption ==
    /\ IsFiniteSet(Worker)
    /\ N \in Nat
    /\ MaxPieceFailures \in Nat
    /\ MaxAttempts \in Nat \ {0}
    /\ MaxRuns \in Nat \ {0}

Piece == 0 .. N - 1
NoJob == -1

VARIABLES
    \* --- the Download goroutine
    pc,        \* where it is
    armed,     \* "defer d.closeWorkers()" has been executed
    retrying,  \* it is inside reconnectWithBackoff
    attempt,   \* attempt of reconnectWithBackoff
    pending,   \* d.PendingPieces
    completed, \* completed
    active,    \* activeWorkers
    failures,  \* d.pieceFailures
    workers,   \* d.Workers (in any order)
    idle,      \* idleWorkers
    todo,      \* workers the current "for range" has not visited yet
    outcome,   \* how Download returns, "running" before
    progress,  \* the last Progress given to OnProgress
    \* --- shared with the workers
    ctx,       \* the context of Download
    wst,       \* where the goroutine of each worker is
    job,       \* piece each worker is downloading or reporting
    closed,    \* workers whose Jobs channel and connection Download closed
    \* --- the disk
    good,      \* pieces whose bytes on disk have the right hash
    durable,   \* good pieces that survive a crash for sure
    \* --- the environment
    runs       \* times the program has been started

mainVars   == <<armed, retrying, attempt, todo>>
queueVars  == <<pending, completed, active, failures>>
workerVars == <<wst, job>>
connVars   == <<workers, idle, closed>>
worldVars  == <<ctx, good, durable, runs>>
\* everything but the position in the code and how it returns
dataVars   == <<queueVars, workerVars, connVars, progress, worldVars>>
vars == <<pc, outcome, mainVars, dataVars>>

\* A worker holds a piece from the send on Jobs until Download takes its result;
\* one that quit on a stop (WorkerQuits) keeps it for the rest of the run.
Assigned == {w \in Worker : wst[w] \in {"busy", "gotPiece", "failed", "quit"}}
InFlight == {job[w] : w \in Assigned}

\* The process has just been started: nothing connected, nothing in memory.
Init ==
    /\ pc = "init" /\ outcome = "running" /\ ctx = "live"
    /\ armed = FALSE /\ retrying = FALSE /\ attempt = 0
    /\ pending = <<>> /\ completed = 0 /\ active = 0
    /\ failures = [p \in Piece |-> 0]
    /\ workers = {} /\ idle = {} /\ todo = {} /\ closed = {}
    /\ wst = [w \in Worker |-> "none"]
    /\ job = [w \in Worker |-> NoJob]
    /\ progress = [completed |-> 0, pending |-> 0, active |-> 0, total |-> 0]
    /\ good \in SUBSET Piece
    /\ durable = good
    /\ runs = 1

-----------------------------------------------------------------------------
(***************************************************************************)
(* Helpers.                                                                *)
(***************************************************************************)

EmitProgress(done, left, busy) ==
    progress' = [completed |-> done, pending |-> left, active |-> busy, total |-> N]

\* Mutant: Download watches the cancel it defers, not its caller's context.
OwnCancelSeen == ctx = "released"
StopSeen == ctx # "live"

\* A "return" in Download: its deferred calls run next (RunDefers).
Return(how) ==
    /\ pc' = "returning"
    /\ outcome' = how

\* The piece sequence of initializePendingPieces: the set in ascending order.
Ascending(S) ==
    {s \in [1 .. Cardinality(S) -> S] :
        \A i, j \in 1 .. Cardinality(S) : i < j => s[i] < s[j]}

\* Mutant: nextJob leaves the piece it hands out in the queue.
DequeueForgotten(i) == UNCHANGED pending
Dequeue(i) == pending' = RemoveAt(pending, i)

\* nextJob(w) found the first pending piece w's client holds and the caller
\* sent it on w.Jobs.  The receiver is the goroutine of w, at its "range".
SendJob(w, held) ==
    \E i \in 1 .. Len(pending) :
        /\ pending[i] \in held
        /\ \A j \in 1 .. i - 1 : pending[j] \notin held
        /\ Dequeue(i)
        /\ wst' = [wst EXCEPT ![w] = "busy"]
        /\ job' = [job EXCEPT ![w] = pending[i]]

\* Mutant: the worker is not counted as active.
GiveJobUncounted(w, held) == SendJob(w, held) /\ UNCHANGED active
GiveJob(w, held) == SendJob(w, held) /\ active' = active + 1

\* nextJob(w) found nothing: no pending piece is in w's bitfield.
NoJobFor(w, held) ==
    /\ ToSet(pending) \cap held = {}
    /\ wst' = [wst EXCEPT ![w] = "ready"]
    /\ job' = [job EXCEPT ![w] = NoJob]
    /\ UNCHANGED pending

\* closeWorkerList on workers whose channel is open (ChannelsOpen says they are).
CloseWorkerList(list) == closed' = closed \cup list

\* Where Download goes after a result: the loop over idleWorkers, if any.
OfferIdle ==
    /\ todo' = idle'
    /\ pc' = IF idle' = {} THEN "loop" ELSE "offering"

-----------------------------------------------------------------------------
(***************************************************************************)
(* Download, up to its loop.                                               *)
(***************************************************************************)

\* newFileWriter fails: nothing but the context is released.
OpenFilesFails ==
    /\ pc = "init"
    /\ Return("diskError")
    /\ UNCHANGED <<mainVars, dataVars>>

\* The deferred clean-up is registered and the first Progress emitted.
EnterLoop ==
    /\ armed' = TRUE
    /\ EmitProgress(completed', Len(pending'), active)
    /\ pc' = "loop"

\* The pieces that can be read back and have the right hash.
FoundOnDisk == SUBSET good

\* newFileWriter, then initializePendingPieces: a piece that cannot be read
\* back, or whose hash differs, is pending.
InitializePendingPieces ==
    /\ pc = "init"
    /\ \E found \in FoundOnDisk : pending' \in Ascending(Piece \ found)
    /\ completed' = N - Len(pending')
    /\ failures' = [p \in Piece |-> 0]
    /\ IF completed' < N
       THEN pc' = "connect" /\ UNCHANGED <<armed, progress>>
       ELSE EnterLoop
    /\ UNCHANGED <<retrying, attempt, todo, active, workerVars, connVars, outcome,
                   worldVars>>

(***************************************************************************)
(* ConnectPeers.                                                           *)
(***************************************************************************)

\* Every address of d.Peers gets a goroutine; with the context already
\* cancelled each of them gives up (pc "joining").
ConnectPeers ==
    /\ pc = "connect"
    /\ workers' = {}
    /\ pc' = IF ctx = "live" THEN "dialing" ELSE "joining"
    /\ UNCHANGED <<mainVars, queueVars, workerVars, idle, closed, outcome, progress,
                   worldVars>>

\* One dial goroutine got through handshake, interested and unchoke, and
\* appends its worker under the lock; a dial begun before a stop still may.
PeerConnects(w) ==
    /\ pc = "dialing"
    /\ wst[w] = "none" /\ w \notin workers
    /\ wst' = [wst EXCEPT ![w] = "connected"]
    /\ workers' = workers \cup {w}
    /\ closed' = closed \ {w}
    /\ UNCHANGED <<pc, mainVars, queueVars, job, idle, outcome, progress, worldVars>>

\* The first round has no active worker: forget its workers, start to reconnect.
EnterReconnect ==
    /\ workers' = {}
    /\ retrying' = TRUE
    /\ attempt' = 1
    /\ pc' = "announce"

\* Mutant: idleWorkers keeps the workers that were closed.
DropIdleKeepsList == CloseWorkerList(idle) /\ UNCHANGED idle
DropIdle == CloseWorkerList(idle) /\ idle' = {}

\* A round without an active worker.  reconnectWithBackoff keeps d.Workers.
RoundFailed ==
    /\ DropIdle
    /\ IF retrying
       THEN pc' = "attemptFailed" /\ UNCHANGED <<workers, retrying, attempt>>
       ELSE EnterReconnect

\* wg.Wait returns and ConnectPeers reports the context's error, or that no
\* peer connected.
ConnectFails ==
    /\ pc \in {"dialing", "joining"}
    /\ ctx # "live" \/ workers = {}
    /\ RoundFailed
    /\ UNCHANGED <<armed, todo, queueVars, workerVars, outcome, progress, worldVars>>

ConnectSucceeds ==
    /\ pc = "dialing"
    /\ ctx = "live" /\ workers # {}
    /\ pc' = "starting"
    /\ todo' = workers
    /\ UNCHANGED <<armed, retrying, attempt, outcome, dataVars>>

(***************************************************************************)
(* startWorkers.                                                           *)
(***************************************************************************)

\* go worker.Run, then a first job for it if its client has a pending piece.
StartWorker(w) ==
    /\ pc = "starting"
    /\ w \in todo
    /\ todo' = todo \ {w}
    /\ \E held \in SUBSET Piece :
        \/ GiveJob(w, held) /\ UNCHANGED idle
        \/ NoJobFor(w, held) /\ idle' = idle \cup {w} /\ UNCHANGED active
    /\ UNCHANGED <<pc, armed, retrying, attempt, completed, failures, workers,
                   closed, outcome, progress, worldVars>>

\* At least one worker is active: Download enters or re-enters its loop.
RoundSucceeds ==
    /\ pc = "starting" /\ todo = {} /\ active > 0
    /\ retrying' = FALSE
    /\ attempt' = 0
    /\ UNCHANGED queueVars
    /\ IF armed
       THEN pc' = "loop" /\ UNCHANGED <<armed, progress>>
       ELSE EnterLoop
    /\ UNCHANGED <<todo, workerVars, connVars, outcome, worldVars>>

\* Nobody holds a pending piece: the idle workers are closed.
RoundIsBarren ==
    /\ pc = "starting" /\ todo = {} /\ active = 0
    /\ RoundFailed
    /\ UNCHANGED <<armed, todo, queueVars, workerVars, outcome, progress, worldVars>>

(***************************************************************************)
(* reconnectWithBackoff.                                                   *)
(***************************************************************************)

\* The tracker answered before the context was cancelled.
AnnounceSucceeds ==
    /\ pc = "announce"
    /\ ctx = "live"
    /\ pc' = "connect"
    /\ UNCHANGED <<mainVars, outcome, dataVars>>

\* No tracker answers, or AnnounceTimeout or the context ends the announce.
AnnounceFails ==
    /\ pc = "announce"
    /\ pc' = "attemptFailed"
    /\ UNCHANGED <<mainVars, outcome, dataVars>>

\* The check of ctx.Err() after a failed attempt, or ctx.Done() in the wait.
ReconnectStopped ==
    /\ pc \in {"attemptFailed", "backoff"}
    /\ StopSeen
    /\ Return("stopped")
    /\ UNCHANGED <<mainVars, dataVars>>

\* MaxElapsed is over: at any attempt, at the latest after MaxAttempts.
GiveUpReconnecting ==
    /\ pc = "attemptFailed"
    /\ ctx = "live"
    /\ Return("connectFailed")
    /\ UNCHANGED <<mainVars, dataVars>>

WaitBeforeRetry ==
    /\ pc = "attemptFailed"
    /\ ctx = "live"
    /\ attempt < MaxAttempts
    /\ pc' = "backoff"
    /\ UNCHANGED <<mainVars, outcome, dataVars>>

RetryAfterWait ==
    /\ pc = "backoff"
    /\ pc' = "announce"
    /\ attempt' = attempt + 1
    /\ UNCHANGED <<armed, retrying, todo, outcome, dataVars>>

-----------------------------------------------------------------------------
(***************************************************************************)
(* The loop of Download.                                                   *)
(***************************************************************************)

\* No worker is active: close the idle ones and reconnect.
LoseAllWorkers ==
    /\ pc = "loop" /\ completed < N /\ active = 0
    /\ DropIdle
    /\ EnterReconnect
    /\ UNCHANGED <<armed, todo, queueVars, workerVars, outcome, progress, worldVars>>

\* The select takes ctx.Done().
SeeStop ==
    /\ pc = "loop" /\ completed < N /\ active > 0
    /\ StopSeen
    /\ Return("stopped")
    /\ UNCHANGED <<mainVars, dataVars>>

\* The select takes the result of worker w.
TakesResult(w, kind) ==
    /\ pc = "loop" /\ completed < N /\ active > 0
    /\ wst[w] = kind

RemoveWorker(w) == CloseWorkerList({w}) /\ workers' = workers \ {w}

\* Mutant: failures are not counted.
FailureNotCounted(p) == UNCHANGED failures
CountFailure(p) == failures' = [failures EXCEPT ![p] = @ + 1]

\* Mutant: one failure more is tolerated.
GivesUpLate(p) == failures'[p] > MaxPieceFailures + 1
GivesUpOn(p) == failures'[p] > MaxPieceFailures

\* Mutant: the failed piece is dropped.
RequeueForgotten(p) == UNCHANGED pending
Requeue(p) == pending' = Append(pending, p)

\* A failed piece: drop the worker, put the piece back at the end of the queue.
\* The goroutine of the worker goes on to its "range" over a closed channel.
ReceiveFailure(w) ==
    /\ TakesResult(w, "failed")
    /\ wst' = [wst EXCEPT ![w] = "ready"]
    /\ job' = [job EXCEPT ![w] = NoJob]
    /\ RemoveWorker(w)
    /\ CountFailure(job[w])
    /\ active' = active - 1
    /\ UNCHANGED <<idle, completed>>
    /\ IF GivesUpOn(job[w])
       THEN Return("pieceFailed") /\ UNCHANGED <<pending, todo>>
       ELSE /\ Requeue(job[w])
            /\ OfferIdle
            /\ UNCHANGED outcome
    /\ UNCHANGED <<armed, retrying, attempt, progress, worldVars>>

\* Mutant: the reporting worker is still counted as active.
PieceProgressTooEarly == EmitProgress(completed + 1, Len(pending), active)
PieceProgress == EmitProgress(completed + 1, Len(pending), active - 1)

\* A verified piece is written, counted and announced to OnProgress before the
\* worker gets its next job or becomes idle.
ReceivePiece(w) ==
    /\ TakesResult(w, "gotPiece")
    /\ good' = good \cup {job[w]}
    /\ completed' = completed + 1
    /\ PieceProgress
    /\ \E held \in SUBSET Piece :
        \/ SendJob(w, held) /\ UNCHANGED <<active, idle>>
        \/ NoJobFor(w, held) /\ active' = active - 1 /\ idle' = idle \cup {w}
    /\ OfferIdle
    /\ UNCHANGED <<armed, retrying, attempt, failures, workers, closed, outcome,
                   ctx, durable, runs>>

\* fw.WriteAt fails: Download returns with the piece neither pending nor written.
WritePieceFails(w) ==
    /\ TakesResult(w, "gotPiece")
    /\ wst' = [wst EXCEPT ![w] = "ready"]
    /\ job' = [job EXCEPT ![w] = NoJob]
    /\ active' = active - 1
    /\ Return("diskError")
    /\ UNCHANGED <<mainVars, pending, completed, failures, connVars, progress,
                   worldVars>>

\* One turn of the loop over idleWorkers: the client may have learnt of pieces
\* (Have, Bitfield) since it was last asked.
OfferJob(w) ==
    /\ pc = "offering"
    /\ w \in todo
    /\ todo' = todo \ {w}
    /\ pc' = IF todo' = {} THEN "loop" ELSE "offering"
    /\ \E held \in SUBSET Piece :
        \/ GiveJob(w, held) /\ idle' = idle \ {w}
        \/ NoJobFor(w, held) /\ UNCHANGED <<active, idle>>
    /\ UNCHANGED <<armed, retrying, attempt, completed, failures, workers, closed,
                   outcome, progress, worldVars>>

\* Mutant: the data is not flushed.
NoSync == UNCHANGED durable
Sync == durable' = good

\* All pieces are counted: flush them.
SyncSucceeds ==
    /\ pc = "loop" /\ completed = N
    /\ Sync
    /\ Return("ok")
    /\ UNCHANGED <<mainVars, queueVars, workerVars, connVars, progress, ctx, good,
                   runs>>

SyncFails ==
    /\ pc = "loop" /\ completed = N
    /\ Return("diskError")
    /\ UNCHANGED <<mainVars, dataVars>>

(***************************************************************************)
(* The deferred calls, last registered first: emitProgress, closeWorkers,   *)
(* fw.Close, cancel.                                                       *)
(***************************************************************************)
ReleaseContext == ctx' = IF ctx = "live" THEN "released" ELSE ctx

\* A return from before the loop only releases the context.
ReturnBeforeLoop ==
    /\ pc = "returning" /\ ~armed
    /\ pc' = "done"
    /\ ReleaseContext
    /\ UNCHANGED <<mainVars, queueVars, workerVars, connVars, outcome, progress,
                   good, durable, runs>>

\* Mutant: only the idle workers are closed.
DeferredCloseIdle == CloseWorkerList(idle)
DeferredClose == CloseWorkerList(workers)

ReturnFromLoop ==
    /\ pc = "returning" /\ armed
    /\ workers \cap closed = {}
    /\ DeferredClose
    /\ EmitProgress(completed, Len(pending), active)
    /\ ReleaseContext
    /\ pc' = "done"
    /\ UNCHANGED <<mainVars, queueVars, workerVars, workers, idle, outcome, good,
                   durable, runs>>

\* closeWorkers meets a Jobs channel that is closed already: "close of closed
\* channel", after it has closed the open ones that come before it in the list.
CloseWorkersPanics ==
    /\ pc = "returning" /\ armed
    /\ workers \cap closed # {}
    /\ \E before \in SUBSET (workers \ closed) : CloseWorkerList(before)
    /\ EmitProgress(completed, Len(pending), active)
    /\ ReleaseContext
    /\ outcome' = "panic"
    /\ pc' = "done"
    /\ UNCHANGED <<mainVars, queueVars, workerVars, workers, idle, good, durable, runs>>

-----------------------------------------------------------------------------
(***************************************************************************)
(* Worker.Run.                                                             *)
(***************************************************************************)

\* GetPiece returns verified data, or an error: choke, time-out, closed
\* connection, bad block, wrong hash, cancelled context.
WorkerFinishes(w) ==
    /\ wst[w] = "busy"
    /\ \E result \in {"gotPiece", "failed"} : wst' = [wst EXCEPT ![w] = result]
    /\ UNCHANGED <<pc, mainVars, queueVars, job, connVars, outcome, progress,
                   worldVars>>

\* The select of Run takes ctx.Done() and the result is dropped.
WorkerQuits(w) ==
    /\ wst[w] \in {"gotPiece", "failed"}
    /\ ctx # "live"
    /\ wst' = [wst EXCEPT ![w] = "quit"]
    /\ UNCHANGED <<pc, mainVars, queueVars, job, connVars, outcome, progress,
                   worldVars>>

\* The range over w.Jobs ends.
WorkerEnds(w) ==
    /\ wst[w] = "ready" /\ w \in closed
    /\ wst' = [wst EXCEPT ![w] = "none"]
    /\ UNCHANGED <<pc, mainVars, queueVars, job, connVars, outcome, progress,
                   worldVars>>

-----------------------------------------------------------------------------
(***************************************************************************)
(* The user and the machine.                                               *)
(***************************************************************************)

\* swrm stop, or a signal: the parent context is cancelled.
Stop ==
    /\ pc # "done"
    /\ ctx = "live"
    /\ ctx' = "stopped"
    /\ UNCHANGED <<pc, mainVars, queueVars, workerVars, connVars, outcome, progress,
                   good, durable, runs>>

\* The process ends, by a kill, a power failure or after Download returned, and
\* the user starts it again on the same directory.  Writes that were not synced
\* may be lost.
Restart ==
    /\ runs < MaxRuns
    /\ runs' = runs + 1
    /\ \E lost \in SUBSET (good \ durable) : good' = good \ lost
    /\ durable' = good'
    /\ pc' = "init" /\ outcome' = "running" /\ ctx' = "live"
    /\ armed' = FALSE /\ retrying' = FALSE /\ attempt' = 0
    /\ pending' = <<>> /\ completed' = 0 /\ active' = 0
    /\ failures' = [p \in Piece |-> 0]
    /\ workers' = {} /\ idle' = {} /\ todo' = {} /\ closed' = {}
    /\ wst' = [w \in Worker |-> "none"]
    /\ job' = [w \in Worker |-> NoJob]
    /\ progress' = [completed |-> 0, pending |-> 0, active |-> 0, total |-> 0]

DownloadStep ==
    \/ OpenFilesFails \/ InitializePendingPieces
    \/ ConnectPeers \/ ConnectFails \/ ConnectSucceeds
    \/ \E w \in Worker : StartWorker(w)
    \/ RoundSucceeds \/ RoundIsBarren
    \/ AnnounceSucceeds \/ AnnounceFails
    \/ ReconnectStopped \/ GiveUpReconnecting \/ WaitBeforeRetry \/ RetryAfterWait
    \/ LoseAllWorkers \/ SeeStop
    \/ \E w \in Worker : ReceiveFailure(w) \/ ReceivePiece(w) \/ WritePieceFails(w)
    \/ \E w \in Worker : OfferJob(w)
    \/ SyncSucceeds \/ SyncFails
    \/ ReturnBeforeLoop \/ ReturnFromLoop \/ CloseWorkersPanics

WorkerStep(w) == WorkerFinishes(w) \/ WorkerQuits(w) \/ WorkerEnds(w)

Environment == Stop \/ Restart \/ \E w \in Worker : PeerConnects(w)

Next == DownloadStep \/ (\E w \in Worker : WorkerStep(w)) \/ Environment

Spec == Init /\ [][Next]_vars

\* The Download goroutine is never starved by the Go scheduler; every wait it
\* does outside the select over results has a timer.
DownloadFairness == WF_vars(DownloadStep)

\* GetPiece returns: blockTimeout bounds the wait for each block.  This assumes
\* that no peer sends useless blocks of the right piece for ever, because each
\* of them restarts the timer; only properties that say so rely on it.
WorkerFairness == \A w \in Worker : WF_vars(WorkerStep(w))

FairSpec == Spec /\ DownloadFairness

-----------------------------------------------------------------------------
(***************************************************************************)
(* Properties.                                                             *)
(***************************************************************************)

\* Every variable keeps its type; the counters stay in bounds.
TypeOK ==
    /\ pc \in {"init", "connect", "dialing", "joining", "starting", "announce",
               "attemptFailed", "backoff", "loop", "offering", "returning", "done"}
    /\ armed \in BOOLEAN /\ retrying \in BOOLEAN
    /\ attempt \in 0 .. MaxAttempts
    /\ pending \in Seq(Piece)
    /\ completed \in 0 .. N
    /\ active \in 0 .. Cardinality(Worker)
    /\ failures \in [Piece -> 0 .. MaxPieceFailures + 1]
    /\ workers \in SUBSET Worker /\ idle \in SUBSET Worker
    /\ todo \in SUBSET Worker /\ closed \in SUBSET Worker
    /\ outcome \in {"running", "ok", "stopped", "connectFailed", "pieceFailed",
                    "diskError", "panic"}
    /\ progress \in [completed : 0 .. N, pending : 0 .. N, active : 0 .. Cardinality(Worker),
                     total : {0, N}]
    /\ ctx \in {"live", "stopped", "released"}
    /\ wst \in [Worker -> {"none", "connected", "ready", "busy", "gotPiece",
                        "failed", "quit"}]
    /\ job \in [Worker -> Piece \cup {NoJob}]
    /\ good \in SUBSET Piece /\ durable \in SUBSET good
    /\ runs \in 1 .. MaxRuns

Downloading == outcome = "running" /\ pc # "init"

\* The pieces Download believes to be on disk: neither queued nor handed out.
Counted == Piece \ (ToSet(pending) \cup InFlight)

\* "download completed" (downloader.go:539-545) is never claimed for a torrent
\* of which a piece is missing on disk or not flushed, whatever was resumed,
\* failed, retried or lost in a crash before.
CompletionSound == outcome = "ok" => good = Piece /\ durable = Piece

\* The counter that ends the loop counts exactly the pieces that are neither in
\* d.PendingPieces nor with a worker, and each of those has verified bytes on
\* disk: no failure path drops a piece or counts one twice.
CountedPiecesAreOnDisk ==
    Downloading => completed = Cardinality(Counted) /\ Counted \subseteq good

\* A piece is queued once or is with one worker, never both and never with two
\* workers, across failures, idle offers and reconnects.
EveryPieceInOnePlace ==
    Downloading =>
        /\ IsInjective(pending)
        /\ ToSet(pending) \cap InFlight = {}
        /\ \A u, v \in Assigned : job[u] = job[v] => u = v

\* activeWorkers, which decides between waiting for a result and reconnecting,
\* is the number of workers that owe a result.  Were it too high, Download would
\* wait for ever; too low, it would close the channels of busy workers.
ActiveIsExact == Downloading => active = Cardinality(Assigned)

\* Every send on a Jobs channel meets a worker at its range over an open channel
\* (it neither blocks nor panics), and every close outside the deferred
\* closeWorkers meets an open channel of a worker that is in d.Workers.
ChannelsOpen ==
    /\ pc = "starting" => \A w \in todo : wst[w] = "connected" /\ w \notin closed
    /\ pc = "offering" => \A w \in todo : wst[w] = "ready" /\ w \notin closed
    /\ pc \in {"starting", "loop", "offering"} =>
          \A w \in idle \cup Assigned : w \in workers \ closed
    /\ pc \notin {"starting", "loop", "offering", "returning", "done"} => idle = {}

\* No return of Download leaves a worker whose Jobs channel and connection stay
\* open (its goroutines would outlive the download), with one exception: a stop
\* that interrupts the dialling before the deferred closeWorkers is registered
\* leaves the clients that were connected, none of which has started to work.
ConnectionsReleased ==
    pc = "done" => \A w \in Worker : \/ wst[w] = "none" \/ w \in closed
                                     \/ /\ ~armed /\ outcome = "stopped"
                                        /\ wst[w] = "connected"

\* Every Progress given to OnProgress accounts for every piece, except that the
\* last one of a download that gives up lacks the piece it gave up on.
ProgressAddsUp ==
    LET accounted == progress.completed + progress.pending + progress.active
    IN  \/ accounted = progress.total
        \/ /\ pc = "done" /\ outcome \in {"pieceFailed", "diskError"}
           /\ accounted = progress.total - 1

\* The deferred closeWorkers can only panic on a return out of
\* reconnectWithBackoff: every other return leaves d.Workers fully open.
PanicOnlyInReconnect == outcome = "panic" => retrying

\* A download never panics, as the regression test of the double close says.
NoPanic == outcome # "panic"

\* Within one run a piece that is on disk and counted is never queued or handed
\* out again, so no piece is fetched twice.
NothingIsFetchedTwice ==
    [][Downloading /\ Downloading' => Counted \subseteq Counted']_vars

\* If GetPiece always returns, Download returns: dead peers, silent trackers and
\* useless rounds end in an error after MaxElapsed, failing pieces after
\* maxPieceFailures.
DownloadTerminates ==
    WorkerFairness => (outcome = "running" ~> outcome # "running")

\* After a return from the loop every worker goroutine whose GetPiece returns ends.
Finished(w) == wst[w] \in {"none", "quit"} \/ (wst[w] = "connected" /\ w \in closed)
WorkersExit ==
    WorkerFairness => (pc = "done" /\ armed ~> pc # "done" \/ \A w \in Worker : Finished(w))

\* A stop ends the download from wherever it is, even if no peer ever answers.
StopEndsDownload == ctx = "stopped" ~> pc = "done" \/ ctx = "live"

-----------------------------------------------------------------------------
(***************************************************************************)
(* The contract a download implements.                                     *)
(***************************************************************************)
Status == CASE outcome = "running" -> "running"
            [] outcome = "ok" -> "ok"
            [] OTHER -> "failed"

Contract == INSTANCE DownloadContract WITH verified <- good, status <- Status

\* Every behaviour of the downloader is one of the contract: pieces are only
\* added while it runs, success means everything is flushed, a crash loses at
\* most what was not flushed.
ImplementsContract == Contract!Spec
=============================================================================
