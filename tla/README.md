# A formal model of swrm

TLA+ modules, TLC configurations and TLAPS proofs for swrm, the BitTorrent client in this
repository. Everything here is translated from the Go source. Paths such as
`downloader.go:240` are relative to `src/` and shortened where the file name is unique.

| module | what it is |
|---|---|
| `Downloader` | the download loop, its workers, reconnects, the disk, stops, crashes and restarts |
| `DownloadContract` | what a download promises; `Downloader` implements it |
| `DownloaderProofs` | TLAPS proofs about `Downloader` |
| `PieceTransfer` | one connected peer: `readLoop`, `WaitForUnchoke`, `GetPiece` and their channels |
| `PieceTransferProofs` | TLAPS proofs about `PieceTransfer` |
| `Daemon` | several `swrmd` processes on one socket path, `daemon.Run`, `swrm start/stop/list -clean` |
| `DaemonProofs` | TLAPS proofs about `Daemon` |
| `TrackerAnnounce` | one `tracker.Announce` over HTTP and UDP trackers, with its deadline |
| `TrackerAnnounceProofs` | TLAPS proofs about `TrackerAnnounce` |
| `FileLayout` | `parseInfo`, the files of a torrent, the scan of what is on disk, pieces written over file boundaries |
| `FileLayoutProofs` | TLAPS proofs about `FileLayout` |
| `Metainfo` | the bencode decoder and `torrent.Parse`, as functions of the tokens of a document |
| `MetainfoProofs` | TLAPS proofs about the decoder: it exists, is exact about lengths, reads a part as the whole does |
| `PeerSession` | a torrent file opened with `Metainfo`, the handshake under its info hash, the bitfield of a peer |
| `PeerSessionProofs` | TLAPS proofs about `PeerSession` |
| `NatFacts` | TLAPS proofs: induction and recursion over natural numbers, products and quotients |
| `MCDownloader`, `MCPieceTransfer`, `MCDaemon`, `MCTrackerAnnounce`, `MCFileLayout`, `MCPeerSession` | instances for TLC: symmetry, function-valued constants, torrents and files |

`PROJECT.json` maps every definition that models code to its lines, and lists the runs, the
mutants, the findings, the hazards and the theorems.

## 1. The system

| component | state | operations | talks to |
|---|---|---|---|
| download loop (`downloader.go`) | `PendingPieces`, `completed`, `activeWorkers`, `pieceFailures`, `Workers`, `idleWorkers` | `Announce`, `ConnectPeers`, `startWorkers`, `nextJob`, `reconnectWithBackoff`, the loop of `Download`, `closeWorkers` | workers over `Jobs`/`Results`, tracker, fileWriter, callbacks into the daemon |
| worker (`downloadjob.go`) | its goroutine and the job in hand | `Worker.Run` | the loop, the peer client |
| fileWriter (`filewriter.go`) | open files, offsets | `WritePiece`, `ReadPiece`, `Sync`, `Close` | the disk |
| peer client (`piece.go`, `reader.go`, `conn.go`, `state.go`, `request.go`) | `choked`, `bitfield`, `blocks`, `notify`, `closeCh` | `readLoop`, `WaitForUnchoke`, `GetPiece`, `Close` | the remote peer; one goroutine reads, one works |
| wire format (`message.go`, `handshake.go`, `bitfield.go`) | the bitfield of the peer | `Handshake`, `ReadMessage`, `HasPiece`, `SetPiece` | written by `readLoop`, read by the loop of `Download` |
| tracker (`tracker.go`, `udp.go`) | one announce: tracker in turn, connection id, retry count | `Announce`, HTTP and UDP announces | trackers |
| metainfo (`torrent.go`, `info.go`) | none | `Open`, `Parse`, `parseInfo`, `findInfoBytes`, `PieceByteLength`, `FileList`, `Trackers` | bencode; its result is read by all others |
| bencode (`bencode.go`) | none | `Unmarshal`, `parseValue` | |
| tracker replies (`response.go`, `peers.go`) | none | parse and validate | bencode |
| daemon (`run.go`, `daemon/state.go`) | status, progress, last error | `Run`, setters, `Snapshot` | downloader, API |
| swrmd (`cmd/swrmd/main.go`) | the listener, the context, the socket file | `listenUnix`, serve, shut down | other processes through the file system |
| API (`internal/api`) | none | `GET /status`, `POST /stop` | State, the context of main |
| CLI (`cmd/swrm/main.go`) | none | `start`, `status`, `stop`, `list [-clean]` | sockets |

**What is hard.** One goroutine owns the bookkeeping of `Download`, but a piece is in a
queue, in a channel, with a worker or on disk, and each failure path has to move it
exactly once. Sends on unbuffered channels have no context case. A reconnect replaces the
set of workers inside the loop while deferred calls refer to it. `readLoop` and the worker
share a bounded channel, a one-slot wake-up and a flag. A crash may lose anything that was
not flushed. Several processes share a path in the file system. The list, each at its line,
is "hazards" in `PROJECT.json`.

**What makes each part correct.**

- Loop: success only with every piece verified and flushed; a piece is in one place; the
  counters that decide what to wait for are exact; no send blocks, no channel is closed
  twice; nothing leaks after the return; every download and every stop ends.
- Peer client: no wake-up and no requested block is lost, the request window stays full, an
  honest peer is never blamed, both goroutines end.
- Daemon: a serving daemon is the one behind its socket, one daemon serves a path, no stale
  file, a stop ends the process, status and tracker event agree.
- Tracker: a success is one that the tracker knows of; one announce stays in its deadline,
  keeps the order of the tiers and finds a tracker that is up.
- fileWriter and metainfo: files and pieces tile the torrent without gap or overlap, whatever
  lengths are declared; what is fetched is what is wrong on disk; a right byte stays right.
- Bencode and info hash: the decoder accepts whole documents and nothing else; the bytes that
  are hashed are those that were read.
- Bitfield: a peer has exactly the pieces that it announced.

## 2. Downloader

**Correspondence.** `pc` is where `Download` is:

| pc | code |
|---|---|
| `init` | `newFileWriter`, `initializePendingPieces` |
| `connect`, `dialing`, `joining` | `ConnectPeers`: dial goroutines run, are joined, workers are made |
| `starting` | `startWorkers`, one `nextJob` per worker (`todo` is what the range has left) |
| `announce`, `attemptFailed`, `backoff` | `reconnectWithBackoff` |
| `loop`, `offering` | the select over results; the range that offers jobs to idle workers |
| `returning`, `done` | the deferred calls, returned |

`wst[w]` is the goroutine of a worker (`ready` at its range over Jobs, `busy` in `GetPiece`,
`gotPiece`/`failed` with a result in hand, `quit` after it took `ctx.Done()`). A send on
`Jobs` or `Results` is one step of both sides, as the channels are unbuffered. `good` is the
set of pieces whose bytes have the right hash, `durable` those that survive a crash.
`Restart` ends the process wherever it is and keeps any set between `durable` and `good`.
Hashes are abstract: a piece is right on disk or not, and `FoundOnDisk` is the resume check.
Rates, ETA and the lengths of waits are left out; `MaxAttempts` stands for the reconnect
attempts that fit into the total time.

**Bounds.** Two workers and three pieces (two for liveness): enough for a worker that
fails while another reports, for an idle worker without a job, for a queue that is neither
empty nor full, and for a round in which one worker is useful and the other is not.
`MaxPieceFailures = 1` reaches "tolerated" and "one too many"; two attempts reach
a retry after a wait and the deadline; two runs reach one crash and resume. What a peer
holds is any set at every question, so nothing depends on which pieces a peer has.

| run | shows |
|---|---|
| `downloader_safety` | the type invariant, `CountedPiecesAreOnDisk`, `EveryPieceInOnePlace`, `ActiveIsExact`, `ChannelsOpen`, `ConnectionsReleased`, `ProgressAddsUp` and `ImplementsContract` (refinement) over one restart |
| `downloader_live` | `DownloadTerminates`, `WorkersExit`, and `StopEndsDownload` with peers that may never answer |
| `downloader_double_close` | finding: `NoPanic` is violated |

`ConnectionsReleased` names the one leak of the code: when `Download` has returned, a worker
was never made, is closed, or is a client of a dial round that a stop interrupted before the
loop was reached (`downloader.go:416-427`). `CompletionSound`, `PanicOnlyInReconnect` and
`NothingIsFetchedTwice` are stated in the module and proved (section 9); no run repeats them.

**Fairness.** `DownloadFairness`: the goroutine of `Download` is scheduled, and every wait it
does outside the select over results has a timer (dials, announces and backoff have
time-outs). `WorkerFairness`, the premise of `DownloadTerminates` and `WorkersExit` only:
`GetPiece` returns. The code bounds each wait for a block (`blockTimeout`), so this assumes
that a peer does not send useless blocks for ever; `StopEndsDownload` does without it.

Deadlock is not checked in the Downloader runs: a download that returned and is not started
again is at its end. That nothing stops earlier is `DownloadTerminates`.

## 3. PieceTransfer

**Correspondence.** `choked`, `notify`, `blocks`, `shut` are the fields of `Client` (`shut`:
`closeCh` closed and the connection with it). `reader` is `readLoop`: `reading`,
`signalling` between the unlock in `setChoked` and the send in `signal`, `sending` in the select
at `reader.go:56`. `pc` is the other goroutine: `check`/`wait` in `WaitForUnchoke`, `idle`
between jobs, `request` in the loop of first requests, `test` at the top of the
loop (`piece.go:80`), `select` in the select, `failed`, `ended`. The steps are cut where the
other goroutine can come in between: the check of `choked` and the wait are two.
Offsets count blocks, and the offset equal to the number of blocks stands for every offset
that is none of the piece's; `data` tells a good block from one with wrong content or length.

The peer is one of two. In `Spec` it keeps to the protocol: it answers a request
once or discards it when it chokes us, and may choke at any time. In `WildSpec` it
also sends any block of any piece. The network keeps the order (TCP).

**Bounds.** A piece of four blocks and one of one block, so that a piece is longer than
the window and one is shorter; a window of 2, a channel of one slot (the code has
5 and 20, but only "full" and "not full" matter, and the proofs hold for all), two
messages under way, four turns of the peer (two in the wild runs).

| run | shows |
|---|---|
| `transfer_honest` | types, `NoLostWakeup`, `NoBlockLost`, `HonestNotRejected`, `PieceArrives` (`HonestSpec`) |
| `transfer_any_peer` | `PipelineIsFull`, `GetPieceEnds`, `ReaderEnds` (`FairWildSpec`) |

**Fairness.** `ClientFairness`: both goroutines are scheduled, a read of a closed connection
fails, `blockTimeout` fires when no block comes (the timer is a step that needs an empty
channel), and `Download` removes a worker whose job failed. No fairness of the peer: that
useless messages run out is the bound `MaxTurns`. `HonestSpec` is fair to the two goroutines
and to a peer that unchokes and answers, and to nothing else: no timer and no close has to
happen. `PieceArrives` says that a job then brings its piece, unless it meets one of the
troubles that `Trouble` lists: the connection is closed or the download stopped, a write
fails, or the peer chokes and drops requests. So the full channel and the window never make
`readLoop` and the worker wait for each other.

Deadlock is not checked: the client ends, or the peer falls silent within its bounds. That it
does not stop earlier is `PieceArrives` and `GetPieceEnds`.

## 4. Daemon

**Correspondence.** `pc[d]` is the place of `main` in each process: `stat`, `dial`,
`removeStale`, `bind`, `listen`, `chmod`, `abandon` in `listenUnix` (`net.Listen` is two
system calls), `serving` until `<-ctx.Done()`, `waiting` in the select at `main.go:109`, `removing`
before `os.Remove`. `file` is the process that bound what is at the path. `run`, `outcome`,
`status`, `told` are `daemon.Run`, how `Download` returned, what `GET /status` shows and
the last event the tracker got. The kernel and `net.UnixListener` (whose `Close` unlinks the path,
whoever bound it) are modelled as `main.go` uses them. `server.Shutdown` and the close of
the listener are one step.

`Waits` says what the user lets end before the next command: `"start"`, a start or a
clean-up (both commands return only then), `"stop"`, the end of a stopped process (`swrm
stop` returns before it).

**Bounds.** Three processes: one leaving, one serving, one starting; the finding needs all
three. Two in `daemon_waiting_user`, where the user never has two under way and the proofs
cover any number; there one kill, besides the file that a killed daemon left
before, and one clean-up.

| run | shows |
|---|---|
| `daemon_concurrent` | types, `NoStaleFile`, `EndIsConsistent` for any crossing of commands |
| `daemon_waiting_user` | `ServingIsReachable` (two daemons that serve would both own the file at the path, so it includes `OneServes`), `StopEnds`, `StartServes` (`FairSpec`) for a user who waits for both |
| `daemon_serves_twice` | finding: for a user who waits for commands only, `OneServes` fails |

**Fairness.** Only `main` is fair: its steps have no wait without a timer once it is
stopped (`main.go:103`, `111`). Nothing is assumed of `Run`, so `StopEnds` holds even if
`Download` never returns.

Deadlock is not checked: when all processes have ended there is nothing to do.

## 5. TrackerAnnounce

**Correspondence.** One call of `tracker.Announce`, the part that `Downloader` takes as
`AnnounceSucceeds` and `AnnounceFails`. `pc`: `next` is the top of the loop over trackers,
`trackerFailed` its `continue`; `http` the wait in `announceHTTP`, `dial` the one in
`DialContext`; `attempt`, `write`, `read` the three steps of the loop in `udpRoundTrip`, which
serves both round trips (`phase`). `urls` is what `Trackers()` makes of the torrent, url after
url and tier after tier (`AddUrl`, `AddTier`, `AddTiers`); `Shifted` is the `1 << n` of the
doubled timers. `net` counts the datagrams that may still arrive on the socket: an answer is put
there when the request is written and is read at any later time or never. `closed` is the work
of the goroutine of `context.AfterFunc`. `heard` and `excuse` are history: which tracker
registered the announce, and whether the second round trip met anything worse than late connect
replies.

A datagram has a transaction id (that of a round trip, or a foreign one), an action and the
length of the rest, as the lengths decide: a short one is asked for again (`udp.go:184`), a
long one is cut by the buffer (`udp.go:160`), a list must be whole peers. Random ids do not
collide, and each tracker has a socket of its own, so nothing comes from an earlier tracker.

Only waits take time. A wait takes a time of `Delay` or its timer; the deadline ends it
earlier. `Live` are trackers that answer everything at once and correctly, the others do
what they like within `Answers`, or nothing.

**Bounds.** One unit is five seconds, and the times are those of the code; so are the sizes.
One retry instead of three in `announce` (two attempts per round trip show a retry, a late
reply of an attempt given up and the doubled timer), three in `announce_falls_back`. One
repeated datagram; lists of 1, 1001 (cut by `Announce`) and 1086 peers (cut by the buffer),
an error text of 11 bytes (long enough for a connect reply, too short for an announce reply).

| run | shows |
|---|---|
| `announce` | types, `SuccessIsRegistered`, `TierOrder`, `InTime`, `LateRepliesLeaveAnAttempt`, `FallsBackInTime`, `AnnounceReturns` |
| `announce_falls_back` | finding: `FallsBack` is violated |

**Fairness.** `Announce` and the goroutine of `AfterFunc` are scheduled; every wait has a
timer. Deadlock is not checked: an announce that returned is at its end.

## 6. FileLayout

**Correspondence.** From an info dictionary to bytes in files. `pc = "parse"` is `parseInfo`
with `parseFiles`, one entry per step (a single file is an entry whose path is the name);
`open` is the loop of `newFileWriter`; `scan` the one of `initializePendingPieces`, which
reads each piece; `loop` and `write` are `WritePiece` for pieces that arrive in any order.
`ReadAt` and `WriteAt` go chunk by chunk, `locate` choosing the file (`Locates`: the first
that holds the position, so that empty files are passed over). `disk` is the content of each
path; the right byte of position q is q, which makes the comparison of a hash the comparison
of the bytes. `WriteInterrupted` leaves any part of a write on disk and `Interrupted` stops
anywhere else; `Restart` opens and scans again. At the start each path
has nothing, something else, or bytes that are right for some files at some places, and may
be longer than it should be.

`Accepted` torrents satisfy `LayoutTiles`: files and pieces each cover every position once,
whatever lengths were declared. The sum of the lengths never exceeds an int64 (`total` in
`TypeOK`; the check at `info.go:108`). `unread` holds the pieces that a run could not read:
they are fetched although they may be right, and nothing else is (`PendingIsExact`).

**Bounds.** One to three files of 0 to 2 bytes, pieces of 1 to 3 and of illegal lengths,
right and wrong numbers of hashes, `MaxInt = 5` so that sums overflow, unsafe, equal and
nested paths. So a piece spans three files, files are empty in all places, the last piece is
short or full. Two starts: one interruption and what the next scan makes of it.

| run | shows |
|---|---|
| `file_layout` | types with the overflow check, `LayoutTiles`, `PendingIsExact`, `RightBytesStay` and `CallsEnd` (`FairSpec`) |

**Fairness.** The goroutine of `Download` is scheduled (`WF` of `Step`); errors and kills need
not happen. Deadlock is not checked: a torrent that is refused or done is at its end.

`Downloader` takes a piece to be right on disk or not; `PendingIsExact` and `RightBytesStay`
are what justifies it, and that a crash keeps what was flushed is the assumption of its own
(`FileLayout` loses only the write in progress).

## 7. Metainfo and PeerSession

**Correspondence.** A file is a sequence of tokens: `d`, `l`, `e`, a whole byte string
(`String`), a whole integer (`Number`), or one of the `Malformed` tokens. `ParseValue`,
`ParseList`, `ParseDict` and `ReadString` are the functions of `bencode.go`. A call is a kind, a
place in the document and a depth; `Decoder` is the function of all calls, so that each body
reads the calls it makes (`Inside` opens a list or dictionary within the depth limit). Of two
equal keys the last wins, as in a Go map (`PutBefore`). `IsTorrent` and `Torrent` are `Parse`;
`FindInfoBytes` is its second walk over the same bytes, entry after entry of the root
(`InfoFrom`). The info hash is told apart by the bytes it is made of.

`PeerSession` opens a file, shakes hands with a peer that answers with some info hash, and
takes its Bitfield and Have messages in any order and of any length that fits
(`maxMessageLength`); `bitfield` is `c.bitfield`, byte for byte; a byte is the set
of its bits that are one. `DecodesExactly` compares
the decoder with an automaton that keeps a stack of what it expects. `HashCoversInfo` holds
for a root with one key `info`: with two, the fields are those of the last and the hash is
that of the first (`info.go:217`). `HasPieceIsAnnounced` is exact for a peer whose Bitfield
comes first and has the right length; with a short one, later Haves beyond its end are
ignored (`bitfield.go:30`), so the peer is underestimated and never overestimated.

**Bounds.** Every document of up to six tokens with depth limit 2; roots of up to three
entries, good and bad, with strings `info` in places that are not keys; trailing bytes,
a missing end, a file that is too large. One or three pieces in bytes of two bits, so that the
last byte is whole or not; bitfields of 0, 1 and 2 bytes, a third does not fit.

| run | shows |
|---|---|
| `open_and_announce` | `DecodesExactly`, `HashCoversInfo`, `HasPieceIsAnnounced` |

No liveness is claimed, so no fairness is assumed. Deadlock is not checked: a session ends
where its file is refused or its connection closed.

## 8. Findings

1. `downloader.go:240`: a reconnect round in which no peer has a piece we need closes its
   workers and leaves them in `d.Workers`; a return before the next successful `ConnectPeers`
   closes their channels again and panics (run `downloader_double_close`). The panic is recovered in
   `run.go:28`, and the download ends as an error even if it was stopped.
2. `main.go:115`: the second removal of the socket path hits the file of a daemon started
   in the meantime. It can no longer be reached, and the next start on the path succeeds
   beside it (`daemon_serves_twice`): two downloads write to the same place, which the
   end-to-end test says must not happen.
3. `tracker.go:69`: all trackers share the deadline of the caller. A silent UDP tracker takes
   225 s, a reconnect allows 90 s for the whole announce, so in no round is the next tracker
   asked (`announce_falls_back`, against "falls back across trackers if one is down").

Met while reading and not shown by a run of its own: clients of an interrupted first
`ConnectPeers` are not closed (`downloader.go:416-427`; the exception in
`ConnectionsReleased`), a block that was not asked for is copied if its offset is one of the
piece (`piece.go:95`; its bytes are still covered by the hash), a torrent with two keys `info`
is hashed by the first and read by the last (`info.go:217`), the status stays `reconnecting`
(`state.go:57`), a UDP list of more than 1085 peers is rejected where a shorter one
would be truncated (`udp.go:29`, `tracker.go:99`), and a short error text of a UDP
tracker is taken for a broken datagram and asked for again (`udp.go:184`).

The socket path is lost by two more crossings than that of finding 2. Of two concurrent starts
the second can remove the file that the first has bound and does not listen on yet
(`cmd/swrmd/main.go:129`), and `list -clean` removes it in the same way
(`cmd/swrm/main.go:198`), after which the next start serves beside the first. A user who waits
for stops only (`Waits = {"stop"}`) has both, and `OneServes` fails by each; the runs keep to
finding 2, and `WaitingKeepsOne` proves that waiting for starts and stops is enough.

## 9. What is proved

All proofs are checked by TLAPS for every value of the constants, from the assumptions that the
modules name, which TLC evaluates in the runs. `ConstantsAssumption`: `Worker` is finite, `N` and
`MaxPieceFailures` are natural numbers, `MaxAttempts`, `MaxRuns` and the capacities are positive,
piece lengths are natural, `NoFile` and `Leftover` are no processes, retries, sizes and delays are
natural and the timers positive, announce lists are lists of lists of urls, info dictionaries have
the fields of their types and sizes are natural. `TokensAssumption` of `Metainfo`: the kinds of
tokens are disjoint, and each string has a number of hashes. `SessionAssumption` of `PeerSession`:
files are documents of such tokens, a byte has at least one bit, and `Nil` is no bitfield.

Every safety property of the passing runs is stated by a theorem.

**DownloaderProofs.** `Invariant` proves `IInv`, a conjunction of seven parts, each needed
because the checked invariants are not inductive:
`TypeInv` (types without the bounds that follow from the rest), `ControlInv` (which
places go with `armed`, `retrying` and an outcome), `RosterInv` (which worker is in which
list, in which goroutine state, open or closed: without it a result could come from a closed
worker), `LeakInv` (no worker is out of `Download`'s sight before it is closed), `SumInv`
(completed + queued + active = N, except for the piece given up on), `PlaceInv` (each piece
queued, with a worker, or counted and on disk) and `BoundInv` (no more active workers than
workers). From it follow `TypeCorrect`, `SuccessIsSound`, `CountIsSound`, `OnePlace`,
`ActiveCount`, `ChannelsStayOpen`, `NoConnectionLeaks`, `ProgressIsExact`,
`PanicsOnlyInReconnect`, the action property `FetchedOnce`, and `ContractHolds`, the
refinement: every step is a step of `DownloadContract` or a stutter.
Lemmas state once what the shared parts of actions do (a dequeue, a piece given to a worker,
a worker list closed). `WaitCanEnd` adds that a worker drops its result only after a stop
(`QuitAfterStop`): while `Download` waits for a result, a worker that is open owes it, or the
stop ends the wait. It is the part of `DownloadTerminates` that needs no fairness.

**PieceTransferProofs.** `IInv` is `TypeOK`, what `readLoop` holds (`ReaderInv`), what was
requested before the first wait (`FillInv`), and the three properties; it is proved for
`WildSpec`, any peer. `NoBlockLost` goes through two lemmas: nothing but the receive in
`GetPiece` takes a block off the way, and that receive copies, refuses or rightly ignores it.
From the full window and the blocks not lost, by counting, `NeverStalls`: `GetPiece` waits only
if it has sent a request for a block that it lacks. `PieceIsComplete`: as what was copied is a
set of offsets of the piece, as many as it has are all of them. `HonestPeerIsNotBlamed` adds
`HonestInv` for `Spec`: everything that was asked for and everything on the way is acceptable.

**DaemonProofs.** Under `{"start", "stop"} \subseteq Waits`, `IInv` says that the user waits
for at most one process, that nothing else lives during a clean-up, and whose file is at
the path in each place of `main`. `WaitingKeepsReachable` and `WaitingKeepsOne` follow for
any number of processes, kills and clean-ups.

For a user who waits for nothing, `AnyInv` is `TypeOK`, `EndIsConsistent`, that a file at the
path belongs to a process that will still unlink it (`OwnerInv`), and what `Run` has told the
tracker in each of its places (`EventInv`); `TypeCorrect`, `NothingStaleIsLeft` and `EndsAgree`
follow, with any crossing of commands.

**FileLayoutProofs.** `IInv` has three arguments. `LayoutInv`: files lie one behind the other
without a gap, and the number of pieces is that of the length, which with a few lemmas on
division gives `LayoutIsTiled`. `CallInv` and `DiskInv`: a call in progress is as far in the
files as in the piece, and an opened file has its length. `ScanInv` and `LoopInv`: what the scan
has compared, and a write has put so far, is exactly the bytes from the origin of the piece to
`io.pos`; with it `PendingIsWrong` is inductive over scans, writes, interruptions and restarts.
`WriteEffect` and `OpenEffect` say what a chunk and a truncation change on disk, in terms of
positions: `NoByteIsSpoilt` rests on them. `LocateSucceeds` shows that the error of `locate`,
which has no action, cannot happen; `DoneIsComplete` that a finished download has every byte;
`RoundsEnd` that each round of a call moves on, which is what `CallsEnd` needs besides fairness.

**TrackerAnnounceProofs.** `IInv` is `NetInv` (types), `HeardInv` (a peer list under way was
registered before) and `LateInv`, a count: in the first round trip there are no more connect
replies than requests written, in the second no more than attempts left. From it follow
`SuccessIsReal` and `LateRepliesAreHarmless` for any number of retries, trackers and datagrams.
`TrackerThatIsUpIsFound` is the fallback, for networks that repeat no more datagrams than
there are retries: `LiveInv` adds that no tracker passed so far was up (while the context
lives), and for one that is up and in turn, that attempts and connect replies still to be read
are no more than the repeated datagrams (`LiveSocket`), so that its answer is read in time.

`TypeCorrect` adds that the doubled timers are natural numbers, by induction.
`TrackersAreAskedInTurn` is about the loops of `Trackers()`, which add what is new and keep the
order: for one url (`AddUrl`), by induction for a tier and for all tiers. `AnnounceIsInTime`
rests on `TimeInv`: the time so far is at most that of the trackers passed (`Past`) and what the
one in turn has spent in its attempts (`Spent`), and at most the deadline; the timers of a round
trip add up to `RoundTripTime` (`WaitedFacts`).

**NatFacts.** The theorems on induction of the library take an operator as a parameter, which the
provers cannot instantiate. So induction is stated for sets (`SetInduction`, `StrongInduction`,
from the least element of a set), and `RecursionExists` constructs the solution of a recursion
along the natural numbers. `TrackerAnnounceProofs`, `MetainfoProofs` and `FileLayoutProofs` use
them, so what their recursive functions compute is proved for inputs of any length.

**MetainfoProofs.** Every call that a parser makes is at a later place, or that of a list for
the value at its own: its `Rank` is less. By induction along the rank the decoder exists and
satisfies its own definition (`Decodes`), and results fit into the document (`Fits`: no parser
returns more tokens than there are). `SameAsTwin`: a part of a document that holds a value is
read as this value is read in the whole. The walk of `findInfoBytes` exists in the same way
(`Walks`).

**PeerSessionProofs.** `Follows` relates a call of the decoder to the automaton: if the
automaton, at the place of the call, expects what the call reads (`Ready`), then a result takes
it to the stack with this one thing done (`Behind`), never below it on the way (`Above`), and a
failure means that the automaton does not accept the file. By induction along the rank it holds
for all calls, which for the whole file is `DecoderIsExact`. `Walked`, by induction along the
entries of the root from the last to the first: if there is one key `info`, the walk and the
decoder take the same value for it. With `SameAsTwin` the fields are those of the hashed bytes
(`HashIsOfTheInfo`). `SessionInv` is `FileInv` (what is known of the file in each place, and the
torrent that was opened) and `BitfieldInv` (the bitfield has bytes; its bits are announced, and
those of an orderly peer are all that fit): `PiecesAreAnnounced`, for any number of pieces and
bits per byte.

**Only model-checked.** Liveness under fairness, and everything with ENABLED in it, is out of
the prover's reach: `DownloadTerminates`, `WorkersExit`, `StopEndsDownload`, `PieceArrives`,
`GetPieceEnds`, `ReaderEnds`, `StopEnds`, `StartServes`, `AnnounceReturns`, `CallsEnd`. The
findings are counterexamples that TLC shows.

## 10. Not modelled

The digits of bencode (lengths, signs, leading zeros), the length header and the fixed fields of
the handshake, the fields of tracker requests and the parse of HTTP replies; rates, ETA,
logging, flags, the terminal, HTTP and JSON of the API, `SetProgress` and the text of the
last error; time itself outside `TrackerAnnounce` (timers fire at any moment they could).
`Downloader` lets `HasPiece` answer anything, so nothing proved about it depends on bitfields.

## 11. Plan

1. `Downloader`, `DownloadContract`, `PieceTransfer`, `Daemon`, `TrackerAnnounce`, `FileLayout`,
   `Metainfo` and `PeerSession` with their proofs: done.
2. `DialPeers`: `ConnectPeers` in detail, the dial semaphore and stops while dialling.
3. `PieceTransfer` as the refinement of the `GetPiece` that `Downloader` assumes.
4. The watching CLI (`watch` ends when a terminal status is seen) with the progress in `State`.
5. The parse of HTTP tracker replies over `Metainfo`.
