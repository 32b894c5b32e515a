-------------------------- MODULE TrackerAnnounce --------------------------
(***************************************************************************)
(* One call of tracker.Announce: the trackers of the torrent are asked in  *)
(* turn, over HTTP or UDP, until one answers, the trackers are used up, or *)
(* the context is done.  The context is that of the caller: the first      *)
(* announce has no deadline, one of a reconnect has AnnounceTimeout        *)
(* (downloader.go:225), the notice of the end has ten seconds (run.go:36). *)
(*                                                                         *)
(* A UDP announce is two round trips on one socket.  Datagrams are lost,   *)
(* late, reordered and (up to MaxCopies) repeated.  The socket is new for  *)
(* each tracker, so that nothing of an earlier one arrives on it.  Random  *)
(* transaction ids do not collide: one stands for each round trip and one  *)
(* for every id that is not ours.                                          *)
(*                                                                         *)
(* Time is counted in any unit; only waits take time.  A wait takes a time *)
(* of Delay or runs into its timer, and the deadline ends it.              *)
(***************************************************************************)
EXTENDS Integers, Sequences, SequencesExt

CONSTANTS
    Url, NoUrl,        \* tracker urls, and the empty one
    Scheme,            \* their schemes; "other" also stands for an invalid url
    Torrents,          \* announce-list and announce of the torrents
    Live,              \* trackers that answer all we ask at once and correctly
    Callers,           \* who may call: "first", "reconnect", "notify"
    AnnounceTimeout, NotifyTimeout,         \* the deadlines of the last two
    HttpTimeout, DialTimeout, BaseTimeout,  \* httpClient, udpDialTimeout, udpBaseTimeout
    UdpMaxRetries,     \* udpMaxRetries
    MaxPeers,          \* maxPeersPerAnnounce
    PeerLoads,         \* lengths of the peer lists that trackers send, in bytes
    ErrorLoads,        \* lengths of their error messages
    Delay,             \* how long an answer may be on its way
    MaxCopies          \* bound: datagrams that the network repeats

ASSUME ConstantsAssumption ==
    /\ NoUrl \notin Url /\ Live \subseteq Url
    /\ Scheme \in [Url -> {"http", "udp", "other"}]
    /\ \A u \in Live : Scheme[u] # "other"
    /\ Torrents \subseteq [announceList : Seq(Seq(Url \cup {NoUrl})), announce : Url \cup {NoUrl}]
    /\ Callers \subseteq {"first", "reconnect", "notify"}
    /\ {AnnounceTimeout, NotifyTimeout, HttpTimeout, DialTimeout, BaseTimeout} \subseteq Nat \ {0}
    /\ {UdpMaxRetries, MaxPeers, MaxCopies} \subseteq Nat
    /\ PeerLoads \subseteq Nat /\ ErrorLoads \subseteq Nat /\ Delay \subseteq Nat

VARIABLES
    torrent,  \* the torrent of the download
    caller,   \* who called
    pc,       \* where Announce is
    at,       \* index of the tracker in turn
    phase,    \* round trip of the UDP announce
    attempt,  \* its attempts so far
    net,      \* how many of each datagram may still arrive on the socket
    copies,   \* datagrams repeated so far
    closed,   \* the socket is closed
    ctx,      \* the context: "live", "cancelled" or "expired"
    elapsed,  \* time since the call
    result,   \* how Announce returned
    peers,    \* number of peers returned
    \* --- history
    heard,    \* trackers that registered the announce
    excuse    \* the announce round trip met more than late connect replies

socketVars == <<phase, attempt, net, copies, closed, excuse>>
callVars   == <<torrent, caller>>
returnVars == <<result, peers>>
vars == <<callVars, pc, at, socketVars, ctx, elapsed, returnVars, heard>>

-----------------------------------------------------------------------------
(***************************************************************************)
(* The trackers of a torrent, and the datagrams they send.                 *)
(***************************************************************************)

\* Mutant: add does not look at seen.
AddAgain(ordered, u) == IF u = NoUrl THEN ordered ELSE Append(ordered, u)
\* add of Trackers.
AddUrl(ordered, u) ==
    IF u = NoUrl \/ Contains(ordered, u) THEN ordered ELSE Append(ordered, u)

AddTier(ordered, tier) ==
    LET added[i \in 0 .. Len(tier)] ==
            IF i = 0 THEN ordered ELSE AddUrl(added[i - 1], tier[i])
    IN  added[Len(tier)]

AddTiers(tiers) ==
    LET added[k \in 0 .. Len(tiers)] ==
            IF k = 0 THEN <<>> ELSE AddTier(added[k - 1], tiers[k])
    IN  added[Len(tiers)]

\* Mutant: the announce url goes before the tiers.
AnnounceFirst(t) == AddTiers(<<<<t.announce>>>> \o t.announceList)
Trackers(t) == AddUrl(AddTiers(t.announceList), t.announce)

trackersOf == [t \in Torrents |-> Trackers(t)]
urls == trackersOf[torrent]
url  == urls[at]

\* load: the bytes after the header, a peer list or the text of an error.
Replies(ph, tx) ==
    [tx : {tx}, action : {ph}, load : IF ph = "connect" THEN {0} ELSE PeerLoads]
Errors(tx) == [tx : {tx}, action : {"error"}, load : ErrorLoads]
ConnectReply == [tx |-> "connect", action |-> "connect", load |-> 0]
Datagram ==
    UNION {Replies(ph, ph) \cup Replies(ph, "foreign") \cup Errors(ph) :
            ph \in {"connect", "announce"}}
Header(action) == CASE action = "connect" -> 16 [] action = "announce" -> 20 [] OTHER -> 8

RecvBufferSize == 20 + MaxPeers * 6 + 512
\* n of conn.Read: a longer datagram is cut.
Received(d) ==
    LET size == Header(d.action) + d.load
    IN  IF size > RecvBufferSize THEN RecvBufferSize ELSE size

\* Mutant: an announce reply is taken from the length of a connect reply on.
ConnectLength(ph) == 16
MinRespLen(ph) == Header(ph)

\* What a tracker may answer.  A live one sends whole peers that fit the buffer.
Answers(u, ph) ==
    IF u \in Live
    THEN {d \in Replies(ph, ph) :
            d.load % 6 = 0 /\ Header(d.action) + d.load <= RecvBufferSize}
    ELSE Replies(ph, ph) \cup Replies(ph, "foreign") \cup Errors(ph)

NoDatagrams == [d \in Datagram |-> 0]

Lesser(a, b) == IF a <= b THEN a ELSE b

-----------------------------------------------------------------------------
(***************************************************************************)
(* Time and the context.                                                   *)
(***************************************************************************)

Deadline == IF caller = "reconnect" THEN AnnounceTimeout ELSE NotifyTimeout
HasDeadline == caller # "first"

\* 1 << n
Shifted[n \in 0 .. UdpMaxRetries + 1] == IF n = 0 THEN 1 ELSE 2 * Shifted[n - 1]
\* The timer of an attempt.
ReadTimeout == BaseTimeout * Shifted[attempt]

\* Mutant: nothing closes the socket when the context is done.
NeverCloses == FALSE
\* context.AfterFunc is hung on the context, so that it also ends a read.
ClosesWhenDone == TRUE

\* A wait takes t, and does not last when the context is done.
Takes(t) ==
    /\ t > 0 /\ (pc # "read" \/ ClosesWhenDone) =>
           ctx = "live" /\ (HasDeadline => elapsed + t < Deadline)
    /\ elapsed' = elapsed + t

\* How long the tracker in turn may take.
Delays == IF url \in Live THEN {0} ELSE Delay

Timer ==
    CASE pc = "http" -> HttpTimeout [] pc = "dial" -> DialTimeout [] OTHER -> ReadTimeout

\* The timer of the caller's context fires during a wait, before that of the wait.
Expire ==
    /\ pc \in {"http", "dial", "read"} /\ url \notin Live
    /\ ctx = "live" /\ HasDeadline /\ elapsed + Timer >= Deadline
    /\ ctx' = "expired" /\ elapsed' = Deadline
    /\ UNCHANGED <<callVars, pc, at, socketVars, returnVars, heard>>

\* swrm stop, or a signal: the notice of the end has a context of its own.
Cancel ==
    /\ pc # "returned" /\ caller # "notify" /\ ctx = "live"
    /\ ctx' = "cancelled"
    /\ UNCHANGED <<callVars, pc, at, socketVars, elapsed, returnVars, heard>>

\* The function of context.AfterFunc runs, in a goroutine of its own.
CloseSocket ==
    /\ pc \in {"attempt", "write", "read"} /\ ~closed
    /\ ctx # "live" /\ ClosesWhenDone
    /\ closed' = TRUE
    /\ UNCHANGED <<callVars, pc, at, phase, attempt, net, copies, excuse, ctx, elapsed,
                   returnVars, heard>>

-----------------------------------------------------------------------------
(***************************************************************************)
(* The loop of Announce.                                                   *)
(***************************************************************************)

Init ==
    /\ torrent \in Torrents /\ caller \in Callers
    /\ pc = "next" /\ at = 1
    /\ phase = "connect" /\ attempt = 0 /\ net = NoDatagrams /\ copies = 0
    /\ closed = FALSE /\ ctx = "live" /\ elapsed = 0
    /\ result = "none" /\ peers = 0
    /\ heard = {} /\ excuse = FALSE

\* The switch over the scheme.
AskTracker ==
    /\ pc = "next" /\ at <= Len(urls) /\ ctx = "live"
    /\ pc' = CASE Scheme[url] = "http" -> "http"
               [] Scheme[url] = "udp"  -> "dial"
               [] OTHER                -> "trackerFailed"
    /\ UNCHANGED <<callVars, at, socketVars, ctx, elapsed, returnVars, heard>>

\* Mutant: a tracker that failed is tried again.
SameTracker(i) == i
\* Mutant: the first tracker that fails ends the announce.
ReturnError(i) == Len(urls) + 1
\* The index after continue.
NextIndex(i) == i + 1

\* err is kept and the loop goes on; a socket is closed and forgotten.
NextTracker ==
    /\ pc = "trackerFailed"
    /\ pc' = "next" /\ at' = NextIndex(at)
    /\ phase' = "connect" /\ attempt' = 0 /\ net' = NoDatagrams /\ closed' = FALSE
    /\ excuse' = FALSE
    /\ UNCHANGED <<callVars, copies, ctx, elapsed, returnVars, heard>>

Return(how) ==
    /\ pc' = "returned" /\ result' = how
    /\ UNCHANGED <<callVars, at, phase, attempt, copies, closed, excuse, ctx>>

NoTrackers ==
    /\ pc = "next" /\ urls = <<>>
    /\ Return("noTrackers") /\ UNCHANGED <<net, elapsed, peers, heard>>

SeeDone ==
    /\ pc = "next" /\ at <= Len(urls) /\ ctx # "live"
    /\ Return("contextDone") /\ UNCHANGED <<net, elapsed, peers, heard>>

AllFailed ==
    /\ pc = "next" /\ urls # <<>> /\ at > Len(urls)
    /\ Return("allFailed") /\ UNCHANGED <<net, elapsed, peers, heard>>

\* parseCompactPeers takes whole peers only, Announce cuts a long list.
Whole(bytes) == bytes % 6 = 0
ReturnPeers(bytes) ==
    /\ Whole(bytes) /\ peers' = Lesser(bytes \div 6, MaxPeers)
    /\ Return("ok")

-----------------------------------------------------------------------------
(***************************************************************************)
(* announceHTTP.                                                           *)
(***************************************************************************)

HttpAnswers ==
    /\ pc = "http" /\ ctx = "live"
    /\ \E t \in Delays : t < HttpTimeout /\ Takes(t)
    /\ \E load \in PeerLoads : ReturnPeers(load)
    /\ heard' = heard \cup {url}
    /\ UNCHANGED net

\* No answer in time, a status that is not 200, a refusal, a reply that is too
\* long or does not parse; the tracker may have registered us all the same.
HttpFails ==
    /\ pc = "http" /\ (url \in Live => ctx # "live")
    /\ \E t \in Delay \cup {HttpTimeout} : t <= HttpTimeout /\ Takes(t)
    /\ pc' = "trackerFailed"
    /\ heard' \in {heard, heard \cup {url}}
    /\ UNCHANGED <<callVars, at, socketVars, ctx, returnVars>>

-----------------------------------------------------------------------------
(***************************************************************************)
(* announceUDP.                                                            *)
(***************************************************************************)

\* The host is resolved and the socket made; the function is not yet hung on ctx.
Dial ==
    /\ pc = "dial" /\ ctx = "live"
    /\ \E t \in Delays : t < DialTimeout /\ Takes(t)
    /\ pc' = "attempt"
    /\ UNCHANGED <<callVars, at, socketVars, ctx, returnVars, heard>>

DialFails ==
    /\ pc = "dial" /\ (url \in Live => ctx # "live")
    /\ \E t \in Delay \cup {DialTimeout} : t <= DialTimeout /\ Takes(t)
    /\ pc' = "trackerFailed"
    /\ UNCHANGED <<callVars, at, socketVars, ctx, returnVars, heard>>

\* Mutant: one attempt too many.
OneMoreTry == attempt <= UdpMaxRetries + 1
MoreAttempts == attempt <= UdpMaxRetries

FailTracker ==
    /\ pc' = "trackerFailed"
    /\ UNCHANGED <<callVars, at, phase, attempt, copies, closed, ctx, returnVars>>

\* The top of the loop of udpRoundTrip.
StartAttempt ==
    /\ pc = "attempt" /\ MoreAttempts /\ ctx = "live"
    /\ pc' = "write"
    /\ UNCHANGED <<callVars, at, socketVars, ctx, elapsed, returnVars, heard>>

\* The attempts are used up, or the context is done.
RoundTripEnds ==
    /\ pc = "attempt" /\ (~MoreAttempts \/ ctx # "live")
    /\ FailTracker
    /\ UNCHANGED <<net, excuse, elapsed, heard>>

\* The socket was closed after the look at ctx, or the host refused the last request.
WriteFails ==
    /\ pc = "write" /\ (closed \/ url \notin Live)
    /\ FailTracker
    /\ excuse' = TRUE
    /\ UNCHANGED <<net, elapsed, heard>>

\* A request is lost, or answered; the tracker registers an announce that it answers,
\* and the answer may be lost.
Write ==
    /\ pc = "write" /\ ~closed
    /\ pc' = "read"
    /\ \/ url \notin Live /\ UNCHANGED <<net, heard>>
       \/ \E d \in Answers(url, phase) :
            /\ net' = [net EXCEPT ![d] = @ + 1]
            /\ heard' = IF d \in Replies("announce", "announce") THEN heard \cup {url}
                        ELSE heard
       \/ /\ url \notin Live /\ phase = "announce"
          /\ heard' = heard \cup {url} /\ UNCHANGED net
    /\ UNCHANGED <<callVars, at, phase, attempt, copies, closed, excuse, ctx, elapsed, returnVars>>

\* The network repeats a datagram.
Repeat ==
    /\ pc = "read" /\ copies < MaxCopies
    /\ \E d \in Datagram : net[d] > 0 /\ net' = [net EXCEPT ![d] = @ + 1]
    /\ copies' = copies + 1
    /\ UNCHANGED <<callVars, pc, at, phase, attempt, closed, excuse, ctx, elapsed, returnVars,
                   heard>>

\* conn.Read takes datagram d off the socket after time t.
Read(d) ==
    /\ pc = "read" /\ ~closed /\ net[d] > 0
    /\ \E t \in Delays : t < ReadTimeout /\ Takes(t)
    /\ net' = [net EXCEPT ![d] = @ - 1]

Again ==
    /\ pc' = "attempt" /\ attempt' = attempt + 1
    /\ UNCHANGED <<callVars, at, phase, copies, closed, ctx, returnVars, heard>>

\* A datagram that is too short costs an attempt, and no wait.
ReadShort(d) ==
    /\ Received(d) < MinRespLen(phase)
    /\ Read(d) /\ Again
    /\ excuse' = (excuse \/ d # ConnectReply)

\* The checks of udpConnect and udpAnnounce, in one: every failure has the same end.
\* Mutant: the transaction id is not looked at.
AnyTransaction(d) == d.action = phase
Matches(d) == d.tx = phase /\ d.action = phase

ReadConnectReply(d) ==
    /\ phase = "connect" /\ Received(d) >= MinRespLen(phase) /\ Matches(d)
    /\ Read(d)
    /\ pc' = "attempt" /\ phase' = "announce" /\ attempt' = 0 /\ excuse' = FALSE
    /\ UNCHANGED <<callVars, at, copies, closed, ctx, returnVars, heard>>

ReadPeers(d) ==
    /\ phase = "announce" /\ Received(d) >= MinRespLen(phase) /\ Matches(d)
    /\ Read(d) /\ ReturnPeers(Received(d) - 20)
    /\ UNCHANGED heard

ReadRefusal(d) ==
    /\ Received(d) >= MinRespLen(phase)
    /\ ~Matches(d) \/ (phase = "announce" /\ ~Whole(Received(d) - 20))
    /\ Read(d) /\ FailTracker
    /\ excuse' = (excuse \/ d # ConnectReply)
    /\ UNCHANGED heard

\* The read timer fires, or the host reports (at once) that nobody listens.
ReadFails ==
    /\ pc = "read" /\ ~closed /\ ctx = "live"
    /\ url \notin Live \/ \A d \in Datagram : net[d] = 0
    /\ \E t \in {0, ReadTimeout} : Takes(t)
    /\ Again
    /\ excuse' = TRUE
    /\ UNCHANGED net

\* A read fails when the context is done: the socket is closed, or as above.
ReadFailsWhenDone ==
    /\ pc = "read" /\ ctx # "live" /\ (closed \/ url \notin Live)
    /\ \E t \in {0, ReadTimeout} : Takes(t)
    /\ FailTracker
    /\ UNCHANGED <<net, excuse, heard>>

-----------------------------------------------------------------------------
ReadDatagram ==
    \E d \in Datagram :
        ReadShort(d) \/ ReadConnectReply(d) \/ ReadPeers(d) \/ ReadRefusal(d)

AnnounceStep ==
    \/ NoTrackers \/ SeeDone \/ AllFailed \/ AskTracker \/ NextTracker
    \/ HttpAnswers \/ HttpFails \/ Dial \/ DialFails \/ Expire
    \/ StartAttempt \/ RoundTripEnds \/ WriteFails \/ Write
    \/ ReadDatagram \/ ReadFails \/ ReadFailsWhenDone

Next == AnnounceStep \/ CloseSocket \/ Cancel \/ Repeat
Spec == Init /\ [][Next]_vars

\* Both goroutines are scheduled, and every wait has a timer.
FairSpec == Spec /\ WF_vars(AnnounceStep) /\ WF_vars(CloseSocket)

-----------------------------------------------------------------------------
(***************************************************************************)
(* Properties.                                                             *)
(***************************************************************************)

\* Every variable keeps its type; the attempts stay in bounds.
TypeOK ==
    /\ torrent \in Torrents /\ caller \in Callers
    /\ pc \in {"next", "trackerFailed", "http", "dial", "attempt", "write", "read",
               "returned"}
    /\ at \in 1 .. Len(urls) + 1
    /\ pc \notin {"next", "returned"} => at <= Len(urls)
    /\ phase \in {"connect", "announce"} /\ attempt \in 0 .. UdpMaxRetries + 1
    /\ net \in [Datagram -> Nat] /\ copies \in 0 .. MaxCopies
    /\ closed \in BOOLEAN /\ excuse \in BOOLEAN
    /\ ctx \in {"live", "cancelled", "expired"} /\ elapsed \in Nat
    /\ result \in {"none", "ok", "noTrackers", "contextDone", "allFailed"}
    /\ peers \in 0 .. MaxPeers
    /\ heard \subseteq Url

\* A success is real: the tracker whose reply was taken has registered this
\* announce, whatever late, repeated, cut or foreign datagrams arrived before.
SuccessIsRegistered == result = "ok" => url \in heard

\* Each tracker is asked once, and only after every tracker of the tiers before
\* its own; the announce url comes after all tiers.
TierOrder ==
    pc \notin {"next", "returned"} =>
        LET tried == {urls[i] : i \in 1 .. at - 1}
            tiers == torrent.announceList
        IN  /\ url \notin tried \cup {NoUrl}
            /\ \/ \E k \in DOMAIN tiers :
                    /\ Contains(tiers[k], url)
                    /\ \A j \in 1 .. k - 1 : ToSet(tiers[j]) \subseteq tried \cup {NoUrl}
               \/ /\ url = torrent.announce
                  /\ \A j \in DOMAIN tiers : ToSet(tiers[j]) \subseteq tried \cup {NoUrl}

\* The time of a round trip in which every timer fires.
RoundTripTime == BaseTimeout * (Shifted[UdpMaxRetries + 1] - 1)
TrackerTime == {HttpTimeout, DialTimeout + 2 * RoundTripTime}
\* An announce ends by its deadline, also one that waits for a datagram, and is
\* never longer than the timers of the trackers it has come to, whatever they
\* answer: short and repeated datagrams give no more time.
InTime ==
    /\ HasDeadline => elapsed <= Deadline
    /\ \E longest \in TrackerTime :
        /\ \A t \in TrackerTime : t <= longest
        /\ elapsed <= at * longest

\* Late connect replies, which the announce round trip reads first, never use up
\* its attempts: with no repeated datagram the tracker fails there only if a
\* timer fired, or something else than a connect reply was met.
LateRepliesLeaveAnAttempt ==
    pc = "trackerFailed" /\ phase = "announce" /\ ctx = "live" /\ copies = 0 => excuse

\* "falls back across trackers if one is down": while there is time, an announce
\* fails only if no tracker of the torrent is up.
FallsBackInTime == result = "allFailed" /\ ctx = "live" => Live \cap ToSet(urls) = {}

\* Each announce returns, also one whose context ends while it waits for a datagram.
AnnounceReturns == <>(pc = "returned")

\* The same without the time: an announce that nobody stopped fails only if no
\* tracker of the torrent is up.
FallsBack ==
    result \in {"allFailed", "contextDone"} /\ ctx # "cancelled" =>
        Live \cap ToSet(urls) = {}
=============================================================================
