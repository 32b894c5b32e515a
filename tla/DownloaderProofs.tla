-------------------------- MODULE DownloaderProofs --------------------------
(***************************************************************************)
(* Proofs about Downloader, for any number of workers and pieces and any   *)
(* bounds.                                                                 *)
(***************************************************************************)
EXTENDS Downloader, FiniteSetTheorems, SequenceTheorems, TLAPS

-----------------------------------------------------------------------------
(***************************************************************************)
(* The queue of pieces.                                                    *)
(***************************************************************************)

\* nextJob takes exactly the piece at its position out of the queue.
LEMMA DequeueProperties ==
    ASSUME NEW S, NEW q \in Seq(S), NEW i \in 1 .. Len(q)
    PROVE  /\ RemoveAt(q, i) \in Seq(S)
           /\ Len(RemoveAt(q, i)) = Len(q) - 1
           /\ ToSet(RemoveAt(q, i)) \subseteq ToSet(q)
           /\ ToSet(q) \subseteq ToSet(RemoveAt(q, i)) \cup {q[i]}
           /\ IsInjective(q) => /\ IsInjective(RemoveAt(q, i))
                               /\ q[i] \notin ToSet(RemoveAt(q, i))
<1> DEFINE l == SubSeq(q, 1, i - 1)
           r == SubSeq(q, i + 1, Len(q))
           t == RemoveAt(q, i)
<1>1. Len(q) \in Nat /\ DOMAIN q = 1 .. Len(q) /\ \A k \in 1 .. Len(q) : q[k] \in S
  BY LenProperties, ElementOfSeq
<1>2. /\ l \in Seq(S) /\ Len(l) = i - 1
      /\ \A k \in 1 .. i - 1 : l[k] = q[k]
  <2>1. \A k \in 1 .. i - 1 : q[k] \in S
    BY <1>1
  <2> QED
    BY <1>1, <2>1, SubSeqProperties
<1>3. /\ r \in Seq(S) /\ Len(r) = Len(q) - i
      /\ \A k \in 1 .. Len(q) - i : r[k] = q[i + k]
  <2>1. \A k \in i + 1 .. Len(q) : q[k] \in S
    BY <1>1
  <2>2. /\ r \in Seq(S)
        /\ Len(r) = IF i + 1 <= Len(q) THEN Len(q) - (i + 1) + 1 ELSE 0
        /\ \A k \in 1 .. Len(q) - (i + 1) + 1 : r[k] = q[i + 1 + k - 1]
    BY <1>1, <2>1, SubSeqProperties
  <2> HIDE DEF r
  <2>3. Len(r) = Len(q) - i
    <3>1. CASE i + 1 <= Len(q)
      BY <1>1, <2>2, <3>1
    <3>2. CASE i = Len(q)
      BY <1>1, <2>2, <3>2
    <3>3. i + 1 <= Len(q) \/ i = Len(q)
      <4>1. \A n \in Nat : \A k \in 1 .. n : k + 1 <= n \/ k = n
        OBVIOUS
      <4> QED
        BY <1>1, <4>1
    <3> QED
      BY <3>1, <3>2, <3>3
  <2>4. ASSUME NEW k \in 1 .. Len(q) - i
        PROVE  r[k] = q[i + k]
    <3>1. k \in 1 .. Len(q) - (i + 1) + 1 /\ i + 1 + k - 1 = i + k
      BY <1>1
    <3> QED
      BY <2>2, <3>1
  <2> QED
    BY <2>2, <2>3, <2>4
<1>4. t = l \o r
  BY DEF RemoveAt
<1> HIDE DEF l, r, t
<1>5. /\ t \in Seq(S) /\ Len(t) = Len(q) - 1
      /\ \A k \in 1 .. Len(q) - 1 : t[k] = IF k < i THEN q[k] ELSE q[k + 1]
  <2>1. /\ t \in Seq(S) /\ Len(t) = Len(l) + Len(r)
        /\ \A k \in 1 .. Len(l) + Len(r) :
              t[k] = IF k <= Len(l) THEN l[k] ELSE r[k - Len(l)]
    BY <1>2, <1>3, <1>4, ConcatProperties
  <2>2. Len(l) = i - 1 /\ Len(r) = Len(q) - i /\ Len(l) + Len(r) = Len(q) - 1
    BY <1>1, <1>2, <1>3
  <2>3. ASSUME NEW k \in 1 .. Len(q) - 1
        PROVE  t[k] = IF k < i THEN q[k] ELSE q[k + 1]
    <3>1. CASE k < i
      BY <1>1, <1>2, <2>1, <2>2, <3>1
    <3>2. CASE k >= i
      <4>1. t[k] = r[k - (i - 1)]
        BY <1>1, <2>1, <2>2, <3>2
      <4>2. k - (i - 1) \in 1 .. Len(q) - i /\ i + (k - (i - 1)) = k + 1
        BY <1>1, <3>2
      <4>3. t[k] = q[k + 1]
        BY <1>3, <4>1, <4>2
      <4> QED
        BY <1>1, <3>2, <4>3
    <3> QED
      BY <1>1, <3>1, <3>2
  <2> QED
    BY <2>1, <2>2, <2>3
<1>6. DOMAIN t = 1 .. Len(q) - 1
  BY <1>5, LenProperties
<1>7. ToSet(t) \subseteq ToSet(q)
  BY <1>1, <1>5, <1>6 DEF ToSet
<1>8. ToSet(q) \subseteq ToSet(t) \cup {q[i]}
  <2> SUFFICES ASSUME NEW k \in 1 .. Len(q), k # i
               PROVE  \E m \in 1 .. Len(q) - 1 : t[m] = q[k]
    BY <1>1, <1>6 DEF ToSet
  <2>1. CASE k < i
    BY <1>1, <1>5, <2>1
  <2>2. CASE k > i
    <3>1. k - 1 \in 1 .. Len(q) - 1 /\ t[k - 1] = q[k]
      BY <1>1, <1>5, <2>2
    <3> QED
      BY <3>1
  <2> QED
    BY <1>1, <2>1, <2>2
<1>9. ASSUME IsInjective(q)
      PROVE  IsInjective(t) /\ q[i] \notin ToSet(t)
  <2>1. \A a, b \in 1 .. Len(q) : q[a] = q[b] => a = b
    BY <1>1, <1>9 DEF IsInjective
  <2>2. ASSUME NEW k \in 1 .. Len(q) - 1
        PROVE  \E m \in 1 .. Len(q) : m # i /\ t[k] = q[m]
                                     /\ m = IF k < i THEN k ELSE k + 1
    <3>1. CASE k < i
      BY <1>1, <1>5, <3>1
    <3>2. CASE k >= i
      <4>1. k + 1 \in 1 .. Len(q) /\ k + 1 # i /\ t[k] = q[k + 1]
        BY <1>1, <1>5, <3>2
      <4> QED
        BY <1>1, <3>2, <4>1
    <3> QED
      BY <1>1, <3>1, <3>2
  <2>3. IsInjective(t)
    <3> SUFFICES ASSUME NEW a \in 1 .. Len(q) - 1, NEW b \in 1 .. Len(q) - 1,
                        t[a] = t[b]
                 PROVE  a = b
      BY <1>6 DEF IsInjective
    <3>1. PICK m \in 1 .. Len(q) : t[a] = q[m] /\ m = IF a < i THEN a ELSE a + 1
      BY <2>2
    <3>2. PICK o \in 1 .. Len(q) : t[b] = q[o] /\ o = IF b < i THEN b ELSE b + 1
      BY <2>2
    <3>3. m = o
      BY <2>1, <3>1, <3>2
    <3> QED
      BY <1>1, <3>1, <3>2, <3>3
  <2>4. q[i] \notin ToSet(t)
    BY <1>6, <2>1, <2>2 DEF ToSet
  <2> QED
    BY <2>3, <2>4
<1> QED
  BY <1>5, <1>7, <1>8, <1>9 DEF t

\* A failed piece that is appended is queued once.
LEMMA RequeueProperties ==
    ASSUME NEW S, NEW q \in Seq(S), NEW p \in S
    PROVE  /\ Append(q, p) \in Seq(S)
           /\ Len(Append(q, p)) = Len(q) + 1
           /\ ToSet(Append(q, p)) = ToSet(q) \cup {p}
           /\ IsInjective(q) /\ p \notin ToSet(q) => IsInjective(Append(q, p))
<1> DEFINE t == Append(q, p)
<1>1. /\ t \in Seq(S) /\ Len(t) = Len(q) + 1
      /\ \A k \in 1 .. Len(q) : t[k] = q[k]
      /\ t[Len(q) + 1] = p
  BY AppendProperties
<1>2. Len(q) \in Nat /\ DOMAIN q = 1 .. Len(q) /\ DOMAIN t = 1 .. Len(q) + 1
  BY <1>1, LenProperties
<1> HIDE DEF t
<1>3. ToSet(t) = ToSet(q) \cup {p}
  <2>1. ToSet(t) \subseteq ToSet(q) \cup {p}
    BY <1>1, <1>2 DEF ToSet
  <2>2. ToSet(q) \subseteq ToSet(t)
    BY <1>1, <1>2 DEF ToSet
  <2>3. p \in ToSet(t)
    <3>1. Len(q) + 1 \in DOMAIN t
      BY <1>2
    <3> QED
      BY <1>1, <3>1 DEF ToSet
  <2> QED
    BY <2>1, <2>2, <2>3
<1>4. IsInjective(q) /\ p \notin ToSet(q) => IsInjective(t)
  BY <1>1, <1>2 DEF IsInjective, ToSet
<1> QED
  BY <1>1, <1>3, <1>4 DEF t

\* The queue of initializePendingPieces holds each missing piece once.
LEMMA AscendingProperties ==
    ASSUME NEW S, IsFiniteSet(S), S \subseteq Int, NEW q \in Ascending(S)
    PROVE  /\ q \in Seq(S)
           /\ Len(q) = Cardinality(S)
           /\ IsInjective(q)
           /\ ToSet(q) = S
<1> DEFINE n == Cardinality(S)
<1>1. n \in Nat
  BY FS_CardinalityType
<1> HIDE DEF n
<1>2. q \in [1 .. n -> S] /\ \A i, j \in 1 .. n : i < j => q[i] < q[j]
  BY DEF Ascending, n
<1>3. q \in Seq(S) /\ Len(q) = n
  BY <1>1, <1>2
<1>4. IsInjective(q)
  <2> SUFFICES ASSUME NEW i \in 1 .. n, NEW j \in 1 .. n, q[i] = q[j], i # j
               PROVE  FALSE
    BY <1>2 DEF IsInjective
  <2>1. q[i] \in Int /\ q[j] \in Int
    BY <1>2
  <2>2. i < j \/ j < i
    BY <1>1
  <2> QED
    BY <1>2, <2>1, <2>2
<1>5. q \in Surjection(1 .. n, S)
  <2>1. q \in Injection(1 .. n, S)
    BY <1>2, <1>4 DEF Injection
  <2>2. Cardinality(1 .. n) = n
    BY <1>1, FS_Interval
  <2> QED
    BY <2>1, <2>2, FS_Injection DEF n
<1>6. ToSet(q) = S
  BY <1>2, <1>5 DEF Surjection, ToSet
<1> QED
  BY <1>3, <1>4, <1>6 DEF n

-----------------------------------------------------------------------------
(***************************************************************************)
(* The inductive invariant.                                                *)
(***************************************************************************)

InRound == pc \in {"starting", "loop", "offering"}
Reconnecting == pc \in {"announce", "attemptFailed", "backoff"}
Accounted == completed + Len(pending) + active

\* The types, without the bounds that depend on the other parts.
TypeInv ==
    /\ pc \in {"init", "connect", "dialing", "joining", "starting", "announce",
               "attemptFailed", "backoff", "loop", "offering", "returning", "done"}
    /\ armed \in BOOLEAN /\ retrying \in BOOLEAN
    /\ attempt \in 0 .. MaxAttempts
    /\ pending \in Seq(Piece)
    /\ completed \in Int /\ active \in Int
    /\ failures \in [Piece -> 0 .. MaxPieceFailures + 1]
    /\ workers \in SUBSET Worker /\ idle \in SUBSET Worker
    /\ todo \in SUBSET Worker /\ closed \in SUBSET Worker
    /\ outcome \in {"running", "ok", "stopped", "connectFailed", "pieceFailed",
                    "diskError", "panic"}
    /\ progress \in [completed : Int, pending : Int, active : Int, total : {0, N}]
    /\ ctx \in {"live", "stopped", "released"}
    /\ wst \in [Worker -> {"none", "connected", "ready", "busy", "gotPiece",
                           "failed", "quit"}]
    /\ job \in [Worker -> Piece \cup {NoJob}]
    /\ good \in SUBSET Piece /\ durable \in SUBSET good
    /\ runs \in 1 .. MaxRuns
    /\ Downloading => \A p \in Piece : failures[p] <= MaxPieceFailures
    /\ pc = "backoff" => attempt < MaxAttempts

\* Where Download is, how it came there and how it returns.
ControlInv ==
    /\ outcome = "running" <=> pc \notin {"returning", "done"}
    /\ pc = "init" => ~armed /\ ~retrying
    /\ Reconnecting => retrying
    /\ pc \in {"connect", "dialing", "joining"} /\ armed => retrying
    /\ pc \in {"loop", "offering"} => armed /\ ~retrying
    /\ outcome \in {"ok", "pieceFailed"} => ~retrying
    /\ outcome = "diskError" => ~retrying
    /\ outcome = "panic" => retrying /\ pc = "done"

\* Which worker is in which list, in which state, with which channel open.
RosterInv ==
    /\ pc = "init" => /\ workers = {} /\ idle = {}
                      /\ \A w \in Worker : wst[w] = "none"
    /\ outcome = "running" =>
        /\ \A w \in idle : wst[w] = "ready"
        /\ \A w \in idle \cup Assigned : w \in workers /\ w \notin closed
        /\ ~InRound => idle = {} /\ Assigned = {}
    /\ pc = "starting" => \A w \in todo : w \in workers /\ wst[w] = "connected"
    /\ pc = "offering" => todo \subseteq idle
    /\ pc \in {"dialing", "joining"} => \A w \in workers : wst[w] = "connected"
    /\ InRound \/ pc \in {"dialing", "joining"} => workers \cap closed = {}
    /\ InRound => \A w \in workers : \/ w \in idle \cup Assigned
                                     \/ pc = "starting" /\ w \in todo
    /\ pc = "returning" => retrying \/ workers \cap closed = {}

\* No worker is out of Download's sight before its channel is closed.
Closed(w) == wst[w] = "none" \/ w \in closed
Known(w) == Closed(w) \/ w \in workers
LeakInv ==
    /\ InRound \/ pc \in {"dialing", "joining"} => \A w \in Worker : Known(w)
    /\ pc = "connect" => \A w \in Worker : Closed(w)
    /\ Reconnecting /\ ctx = "live" => \A w \in Worker : Closed(w)
    /\ (Reconnecting \/ pc = "returning") /\ armed =>
          /\ \A w \in Worker : Known(w)
          /\ workers \cap closed = {} \/ \A w \in Worker : Closed(w)
    /\ Reconnecting /\ ~armed => \A w \in Worker : Closed(w) \/ wst[w] = "connected"
    /\ pc = "returning" /\ ~armed =>
          \A w \in Worker : Closed(w) \/ (outcome = "stopped" /\ wst[w] = "connected")
    /\ ConnectionsReleased

\* The counters add up, and so does every Progress.
SumInv ==
    /\ pc = "init" => pending = <<>> /\ completed = 0 /\ active = 0
    /\ completed \in 0 .. N /\ active >= 0 /\ Accounted <= N
    /\ Downloading => Accounted = N
    /\ pc = "returning" /\ armed =>
          \/ Accounted = N
          \/ outcome \in {"pieceFailed", "diskError"} /\ Accounted = N - 1
    /\ ProgressAddsUp
    /\ progress.completed >= 0 /\ progress.pending >= 0 /\ progress.active >= 0

\* Every piece is queued, with one worker, or counted and on disk.
PlaceInv ==
    /\ Downloading =>
        /\ IsInjective(pending)
        /\ \A w \in Assigned : job[w] \in Piece /\ job[w] \notin ToSet(pending)
        /\ \A u, v \in Assigned : job[u] = job[v] => u = v
        /\ active = Cardinality(Assigned)
        /\ Counted \subseteq good
        /\ completed = Cardinality(Counted)
    /\ outcome = "ok" => good = Piece /\ durable = Piece

\* No more workers are active, or announced as active, than there are.
BoundInv ==
    /\ active <= Cardinality(Worker)
    /\ progress.active <= Cardinality(Worker)

\* What a step does to the two.
ActiveMove ==
    /\ active' <= active \/ active' = 0 \/ Downloading'
    /\ progress'.active \in {0, progress.active, active, active - 1}

\* What a step does to the pieces that are counted.
CountedStays == Downloading /\ Downloading' => Counted \subseteq Counted'

\* What a step of Downloader is for DownloadContract.
ContractMove == [Contract!Next]_Contract!vars

IInv ==
    /\ TypeInv /\ ControlInv /\ RosterInv /\ LeakInv
    /\ SumInv /\ PlaceInv /\ BoundInv

-----------------------------------------------------------------------------
(***************************************************************************)
(* What the shared parts of the actions do.                                *)
(***************************************************************************)

LEMMA PieceFinite ==
    /\ IsFiniteSet(Piece) /\ Cardinality(Piece) = N
    /\ Piece \subseteq Int /\ NoJob \notin Piece
<1>1. N \in Nat
  BY ConstantsAssumption
<1>2. IsFiniteSet(0 .. N - 1) /\ Cardinality(0 .. N - 1) = N
  BY <1>1, FS_Interval
<1> QED
  BY <1>1, <1>2 DEF Piece, NoJob

\* A piece that nextJob finds leaves the queue and goes to the worker.
LEMMA SendJobEffect ==
    ASSUME TypeInv, NEW w \in Worker, NEW held, SendJob(w, held)
    PROVE  \E p \in Piece :
             /\ p \in ToSet(pending)
             /\ pending' \in Seq(Piece)
             /\ Len(pending) \in Nat /\ Len(pending') = Len(pending) - 1
             /\ Len(pending') \in Nat
             /\ ToSet(pending') \subseteq ToSet(pending)
             /\ ToSet(pending) \subseteq ToSet(pending') \cup {p}
             /\ IsInjective(pending) => IsInjective(pending') /\ p \notin ToSet(pending')
             /\ wst' = [wst EXCEPT ![w] = "busy"]
             /\ job' = [job EXCEPT ![w] = p]
<1>1. PICK i \in 1 .. Len(pending) :
        /\ pending' = RemoveAt(pending, i)
        /\ wst' = [wst EXCEPT ![w] = "busy"]
        /\ job' = [job EXCEPT ![w] = pending[i]]
  BY DEF SendJob, Dequeue
<1>2. pending \in Seq(Piece)
  BY DEF TypeInv
<1>3. pending[i] \in Piece /\ Len(pending) \in Nat /\ i \in DOMAIN pending
  BY <1>2, ElementOfSeq, LenProperties
<1>4. pending[i] \in ToSet(pending)
  BY <1>3 DEF ToSet
<1>5. /\ pending' \in Seq(Piece)
      /\ Len(pending') = Len(pending) - 1
      /\ ToSet(pending') \subseteq ToSet(pending)
      /\ ToSet(pending) \subseteq ToSet(pending') \cup {pending[i]}
      /\ IsInjective(pending) => /\ IsInjective(pending')
                                 /\ pending[i] \notin ToSet(pending')
  BY <1>1, <1>2, DequeueProperties
<1>6. Len(pending') \in Nat
  BY <1>5, LenProperties
<1> QED
  BY <1>1, <1>3, <1>4, <1>5, <1>6

\* The queue after initializePendingPieces.
LEMMA InitializeEffect ==
    ASSUME TypeInv, InitializePendingPieces
    PROVE  \E found \in SUBSET good :
             /\ pending' \in Seq(Piece)
             /\ Len(pending') \in 0 .. N
             /\ IsInjective(pending')
             /\ ToSet(pending') = Piece \ found
             /\ completed' = N - Len(pending')
             /\ completed' = Cardinality(found)
<1>1. PICK found \in SUBSET good : pending' \in Ascending(Piece \ found)
  BY DEF InitializePendingPieces, FoundOnDisk
<1>2. /\ IsFiniteSet(Piece) /\ Cardinality(Piece) = N /\ Piece \subseteq Int
      /\ found \subseteq Piece /\ N \in Nat
  BY PieceFinite, ConstantsAssumption DEF TypeInv
<1> DEFINE missing == Piece \ found
<1>3. /\ IsFiniteSet(missing) /\ IsFiniteSet(found)
      /\ Cardinality(missing) \in Nat /\ Cardinality(missing) <= N
      /\ Cardinality(found) = N - Cardinality(missing)
  <2>1. missing \in SUBSET Piece /\ found \in SUBSET Piece /\ Piece \ missing = found
        /\ Piece \cap missing = missing
    BY <1>2
  <2>2. IsFiniteSet(missing) /\ IsFiniteSet(found) /\ Cardinality(missing) <= N
    BY <1>2, <2>1, FS_Subset
  <2>3. Cardinality(Piece \ missing) = Cardinality(Piece) - Cardinality(Piece \cap missing)
    BY <1>2, FS_Difference
  <2>4. Cardinality(missing) \in Nat
    BY <2>2, FS_CardinalityType
  <2> QED
    BY <1>2, <2>1, <2>2, <2>3, <2>4
<1>4. /\ pending' \in Seq(missing) /\ Len(pending') = Cardinality(missing)
      /\ IsInjective(pending') /\ ToSet(pending') = missing
  BY <1>1, <1>2, <1>3, AscendingProperties
<1>5. pending' \in Seq(Piece)
  BY <1>4, SeqMonotonic
<1>6. completed' = N - Len(pending')
  BY DEF InitializePendingPieces
<1>7. completed' = Cardinality(found)
  BY <1>3, <1>4, <1>6
<1>8. Len(pending') \in 0 .. N
  BY <1>2, <1>3, <1>4
<1> QED
  BY <1>4, <1>5, <1>6, <1>7, <1>8

\* With no active worker every worker of the round is idle.
LEMMA NoneAssigned ==
    ASSUME IInv, Downloading, active = 0
    PROVE  /\ Assigned = {}
           /\ ((pc = "starting" /\ todo = {}) \/ pc = "loop") => workers \subseteq idle
<1>1. Assigned \in SUBSET Worker /\ Cardinality(Assigned) = 0
  BY DEF IInv, PlaceInv, Assigned
<1>2. IsFiniteSet(Assigned)
  BY <1>1, ConstantsAssumption, FS_Subset
<1>3. Assigned = {}
  BY <1>1, <1>2, FS_EmptySet
<1>4. RosterInv
  BY DEF IInv
<1> QED
  BY <1>3, <1>4 DEF RosterInv, InRound

\* A worker whose result Download takes holds a piece of the running download.
LEMMA ReporterHoldsPiece ==
    ASSUME IInv, NEW w \in Worker, NEW kind \in {"gotPiece", "failed"},
           TakesResult(w, kind)
    PROVE  /\ Downloading /\ pc = "loop" /\ wst[w] = kind /\ active > 0
           /\ w \in Assigned /\ job[w] \in Piece /\ job[w] \notin ToSet(pending)
           /\ w \in workers /\ w \notin closed /\ w \notin idle
<1>1. pc = "loop" /\ wst[w] = kind /\ active > 0 /\ Downloading
  BY DEF IInv, ControlInv, TakesResult, Downloading
<1>2. w \in Assigned
  BY <1>1 DEF Assigned
<1> QED
  BY <1>1, <1>2 DEF IInv, PlaceInv, RosterInv, Downloading

\* A step that moves no piece.
LEMMA PlaceKept ==
    ASSUME PlaceInv, Assigned' = Assigned, pc = "init" <=> pc' = "init",
           UNCHANGED <<pending, job, completed, active, good, durable, outcome>>
    PROVE  PlaceInv'
<1>1. InFlight' = InFlight
  BY DEF InFlight
<1>2. Counted' = Counted
  BY <1>1 DEF Counted
<1> QED
  BY <1>2 DEF PlaceInv, Downloading

\* Worker w is given piece p of the queue, in place of the piece it reports, if any.
LEMMA PieceGiven ==
    ASSUME IInv, Downloading, NEW w \in Worker, NEW p \in Piece,
           p \in ToSet(pending), p \notin ToSet(pending'),
           ToSet(pending') \subseteq ToSet(pending),
           ToSet(pending) \subseteq ToSet(pending') \cup {p},
           wst' = [wst EXCEPT ![w] = "busy"],
           job' = [job EXCEPT ![w] = p]
    PROVE  /\ Assigned' = Assigned \cup {w}
           /\ \A v \in Assigned' : job'[v] \in Piece /\ job'[v] \notin ToSet(pending')
           /\ \A u, v \in Assigned' : job'[u] = job'[v] => u = v
           /\ w \notin Assigned => Counted' = Counted
           /\ w \in Assigned => Counted' = Counted \cup {job[w]}
<1>0. wst \in [Worker -> {"none", "connected", "ready", "busy", "gotPiece",
                          "failed", "quit"}]
      /\ job \in [Worker -> Piece \cup {NoJob}]
  BY DEF IInv, TypeInv
<1>1. Assigned' = Assigned \cup {w}
  BY <1>0 DEF Assigned
<1>2. /\ \A v \in Assigned : job[v] \in Piece /\ job[v] \notin ToSet(pending)
      /\ \A u, v \in Assigned : job[u] = job[v] => u = v
  BY DEF IInv, PlaceInv
<1>3. job'[w] = p /\ \A v \in Assigned : v # w => job'[v] = job[v]
  BY <1>0 DEF Assigned
<1>4. \A v \in Assigned' : job'[v] \in Piece /\ job'[v] \notin ToSet(pending')
  BY <1>1, <1>2, <1>3
<1>5. \A u, v \in Assigned' : job'[u] = job'[v] => u = v
  BY <1>1, <1>2, <1>3
<1>6. \A x \in Piece : x \in InFlight' <=> x = p \/ \E v \in Assigned : v # w /\ x = job[v]
  BY <1>1, <1>3 DEF InFlight
<1>7. \A x \in Piece : x \in InFlight <=> \E v \in Assigned : x = job[v]
  BY DEF InFlight
<1>8. ASSUME w \notin Assigned
      PROVE  Counted' = Counted
  BY <1>6, <1>7, <1>8 DEF Counted
<1>9. ASSUME w \in Assigned
      PROVE  Counted' = Counted \cup {job[w]}
  <2>1. \A v \in Assigned : v # w => job[v] # job[w]
    BY <1>2, <1>9
  <2>2. job[w] \in Piece /\ job[w] # p /\ job[w] \notin ToSet(pending')
    BY <1>2, <1>9
  <2> QED
    BY <1>6, <1>7, <1>9, <2>1, <2>2 DEF Counted
<1> QED
  BY <1>1, <1>4, <1>5, <1>8, <1>9

\* Worker w holds no piece any more; the queue gets the piece, or does not.
LEMMA PieceReleased ==
    ASSUME IInv, Downloading, NEW w \in Worker,
           wst' = [wst EXCEPT ![w] = "ready"],
           job' = [job EXCEPT ![w] = NoJob]
    PROVE  /\ Assigned' = Assigned \ {w}
           /\ \A v \in Assigned' : job'[v] = job[v]
           /\ \A u, v \in Assigned' : job'[u] = job'[v] => u = v
           /\ w \notin Assigned /\ ToSet(pending') = ToSet(pending) => Counted' = Counted
           /\ w \in Assigned /\ ToSet(pending') = ToSet(pending) =>
                Counted' = Counted \cup {job[w]}
           /\ w \in Assigned /\ ToSet(pending') = ToSet(pending) \cup {job[w]} =>
                Counted' = Counted
<1>0. wst \in [Worker -> {"none", "connected", "ready", "busy", "gotPiece",
                          "failed", "quit"}]
      /\ job \in [Worker -> Piece \cup {NoJob}]
  BY DEF IInv, TypeInv
<1>1. Assigned' = Assigned \ {w}
  BY <1>0 DEF Assigned
<1>2. /\ \A v \in Assigned : job[v] \in Piece /\ job[v] \notin ToSet(pending)
      /\ \A u, v \in Assigned : job[u] = job[v] => u = v
  BY DEF IInv, PlaceInv
<1>3. \A v \in Assigned : v # w => job'[v] = job[v]
  BY <1>0 DEF Assigned
<1>4. \A v \in Assigned' : job'[v] = job[v]
  BY <1>1, <1>3
<1>5. \A u, v \in Assigned' : job'[u] = job'[v] => u = v
  BY <1>1, <1>2, <1>4
<1>6. \A x \in Piece : x \in InFlight' <=> \E v \in Assigned : v # w /\ x = job[v]
  BY <1>1, <1>4 DEF InFlight
<1>7. \A x \in Piece : x \in InFlight <=> \E v \in Assigned : x = job[v]
  BY DEF InFlight
<1>8. ASSUME w \notin Assigned, ToSet(pending') = ToSet(pending)
      PROVE  Counted' = Counted
  BY <1>6, <1>7, <1>8 DEF Counted
<1>9. ASSUME w \in Assigned
      PROVE  \A v \in Assigned : v # w => job[v] # job[w]
  BY <1>2, <1>9
<1>10. ASSUME w \in Assigned, ToSet(pending') = ToSet(pending)
       PROVE  Counted' = Counted \cup {job[w]}
  BY <1>2, <1>6, <1>7, <1>9, <1>10 DEF Counted
<1>11. ASSUME w \in Assigned, ToSet(pending') = ToSet(pending) \cup {job[w]}
       PROVE  Counted' = Counted
  BY <1>2, <1>6, <1>7, <1>9, <1>11 DEF Counted
<1> QED
  BY <1>1, <1>4, <1>5, <1>8, <1>10, <1>11

\* The counters follow the sets they count.
LEMMA CountingWorkers ==
    ASSUME NEW w \in Worker
    PROVE  /\ Cardinality(Assigned) \in Nat
           /\ w \notin Assigned =>
                Cardinality(Assigned \cup {w}) = Cardinality(Assigned) + 1
           /\ w \in Assigned =>
                Cardinality(Assigned \ {w}) = Cardinality(Assigned) - 1
<1>1. IsFiniteSet(Assigned)
  <2>1. Assigned \in SUBSET Worker
    BY DEF Assigned
  <2> QED
    BY <2>1, ConstantsAssumption, FS_Subset
<1> QED
  BY <1>1, FS_CardinalityType, FS_AddElement, FS_RemoveElement

LEMMA CountingPieces ==
    ASSUME NEW p \in Piece \ Counted
    PROVE  Cardinality(Counted \cup {p}) = Cardinality(Counted) + 1
<1>1. IsFiniteSet(Counted)
  <2>1. Counted \in SUBSET Piece
    BY DEF Counted
  <2> QED
    BY <2>1, PieceFinite, FS_Subset
<1> QED
  BY <1>1, FS_AddElement

-----------------------------------------------------------------------------
(***************************************************************************)
(* Every step preserves each part of the invariant.                        *)
(***************************************************************************)

\* The types.
LEMMA TypeStep ==
    ASSUME IInv, [Next]_vars
    PROVE  TypeInv'
<1> USE DEF vars, mainVars, dataVars, queueVars, workerVars, connVars, worldVars
<1> USE DEF Downloading
<1>0. TypeInv
  BY DEF IInv
<1>1. CASE OpenFilesFails
  BY <1>1, <1>0, ConstantsAssumption DEF OpenFilesFails, Return, TypeInv
<1>2. CASE InitializePendingPieces
  <2>1. PICK found \in SUBSET good :
          /\ pending' \in Seq(Piece)
          /\ Len(pending') \in 0 .. N
          /\ IsInjective(pending')
          /\ ToSet(pending') = Piece \ found
          /\ completed' = N - Len(pending')
          /\ completed' = Cardinality(found)
    BY <1>2, <1>0, InitializeEffect
  <2>2. progress' \in [completed : Int, pending : Int, active : Int, total : {0, N}]
    BY <1>2, <1>0, <2>1, ConstantsAssumption
       DEF InitializePendingPieces, EnterLoop, EmitProgress, TypeInv
  <2>3. /\ failures' \in [Piece -> 0 .. MaxPieceFailures + 1]
        /\ \A p \in Piece : failures'[p] <= MaxPieceFailures
    BY <1>2, ConstantsAssumption DEF InitializePendingPieces
  <2>4. armed' \in BOOLEAN
    <3>1. armed' = TRUE \/ armed' = armed
      BY <1>2 DEF InitializePendingPieces, EnterLoop
    <3> QED
      BY <1>0, <3>1 DEF TypeInv
  <2>5. pc' \in {"connect", "loop"} /\ outcome' = outcome /\ retrying' = retrying
    BY <1>2 DEF InitializePendingPieces, EnterLoop
  <2>6. completed' \in Int /\ active' = active /\ attempt' = attempt
    BY <1>2, <2>1, ConstantsAssumption DEF InitializePendingPieces
  <2>7. /\ UNCHANGED <<workers, idle, todo, closed, ctx, wst, job>>
        /\ UNCHANGED <<good, durable, runs>>
    BY <1>2 DEF InitializePendingPieces
  <2> HIDE DEF vars, mainVars, dataVars, queueVars, workerVars, connVars, worldVars
  <2> QED
    BY <1>0, <2>1, <2>2, <2>3, <2>4, <2>5, <2>6, <2>7 DEF TypeInv
<1>3. CASE ConnectPeers
  BY <1>3, <1>0 DEF ConnectPeers, TypeInv
<1>4. ASSUME NEW w \in Worker, PeerConnects(w)
      PROVE  TypeInv'
  BY <1>4, <1>0 DEF PeerConnects, TypeInv
<1>5. CASE ConnectFails
  <2>1. CASE retrying
    BY <1>5, <1>0, <2>1, ConstantsAssumption
       DEF ConnectFails, RoundFailed, DropIdle, CloseWorkerList, EnterReconnect,
           TypeInv
  <2>2. CASE ~retrying
    BY <1>5, <1>0, <2>2, ConstantsAssumption
       DEF ConnectFails, RoundFailed, DropIdle, CloseWorkerList, EnterReconnect,
           TypeInv
  <2> QED
    BY <2>1, <2>2
<1>6. CASE ConnectSucceeds
  BY <1>6, <1>0 DEF ConnectSucceeds, TypeInv
<1>7. ASSUME NEW w \in Worker, StartWorker(w)
      PROVE  TypeInv'
  <2>1. PICK held \in SUBSET Piece :
          \/ SendJob(w, held) /\ active' = active + 1 /\ UNCHANGED idle
          \/ NoJobFor(w, held) /\ idle' = idle \cup {w} /\ UNCHANGED active
    BY <1>7 DEF StartWorker, GiveJob
  <2>2. ASSUME SendJob(w, held) /\ active' = active + 1 /\ UNCHANGED idle
        PROVE  TypeInv'
    <3>1. PICK p \in Piece :
            /\ p \in ToSet(pending)
            /\ pending' \in Seq(Piece)
            /\ Len(pending) \in Nat /\ Len(pending') = Len(pending) - 1
            /\ Len(pending') \in Nat
            /\ ToSet(pending') \subseteq ToSet(pending)
            /\ ToSet(pending) \subseteq ToSet(pending') \cup {p}
            /\ IsInjective(pending) => IsInjective(pending') /\ p \notin ToSet(pending')
            /\ wst' = [wst EXCEPT ![w] = "busy"]
            /\ job' = [job EXCEPT ![w] = p]
      BY <2>2, SendJobEffect DEF IInv
    <3> QED
      BY <1>7, <2>2, <3>1, <1>0 DEF StartWorker, GiveJob, NoJobFor, TypeInv
  <2>3. ASSUME NoJobFor(w, held) /\ idle' = idle \cup {w} /\ UNCHANGED active
        PROVE  TypeInv'
    BY <1>7, <2>3, <1>0 DEF StartWorker, GiveJob, NoJobFor, TypeInv
  <2> QED
    BY <2>1, <2>2, <2>3
<1>8. CASE RoundSucceeds
  <2>1. Len(pending) \in Nat
    BY <1>0, LenProperties DEF TypeInv
  <2>2. progress' \in [completed : Int, pending : Int, active : Int, total : {0, N}]
    BY <1>8, <1>0, <2>1 DEF RoundSucceeds, EnterLoop, EmitProgress, TypeInv
  <2>3. armed' \in BOOLEAN
    <3>1. armed' = TRUE \/ armed' = armed
      BY <1>8 DEF RoundSucceeds, EnterLoop
    <3> QED
      BY <1>0, <3>1 DEF TypeInv
  <2>4. pc' = "loop"
    BY <1>8 DEF RoundSucceeds, EnterLoop
  <2>5. attempt' \in 0 .. MaxAttempts
    BY <1>8, ConstantsAssumption DEF RoundSucceeds
  <2>6. retrying' \in BOOLEAN
    BY <1>8 DEF RoundSucceeds
  <2> QED
    BY <1>8, <1>0, <2>2, <2>3, <2>4, <2>5, <2>6 DEF RoundSucceeds, TypeInv
<1>9. CASE RoundIsBarren
  <2>1. CASE retrying
    BY <1>9, <1>0, <2>1, ConstantsAssumption
       DEF RoundIsBarren, RoundFailed, DropIdle, CloseWorkerList, EnterReconnect,
           TypeInv
  <2>2. CASE ~retrying
    BY <1>9, <1>0, <2>2, ConstantsAssumption
       DEF RoundIsBarren, RoundFailed, DropIdle, CloseWorkerList, EnterReconnect,
           TypeInv
  <2> QED
    BY <2>1, <2>2
<1>10. CASE AnnounceSucceeds
  BY <1>10, <1>0 DEF AnnounceSucceeds, TypeInv
<1>11. CASE AnnounceFails
  BY <1>11, <1>0 DEF AnnounceFails, TypeInv
<1>12. CASE ReconnectStopped
  BY <1>12, <1>0 DEF ReconnectStopped, Return, StopSeen, TypeInv
<1>13. CASE GiveUpReconnecting
  BY <1>13, <1>0 DEF GiveUpReconnecting, Return, TypeInv
<1>14. CASE WaitBeforeRetry
  BY <1>14, <1>0 DEF WaitBeforeRetry, TypeInv
<1>15. CASE RetryAfterWait
  BY <1>15, <1>0, ConstantsAssumption DEF RetryAfterWait, TypeInv
<1>16. CASE LoseAllWorkers
  BY <1>16, <1>0, ConstantsAssumption
     DEF LoseAllWorkers, DropIdle, CloseWorkerList, EnterReconnect, TypeInv
<1>17. CASE SeeStop
  BY <1>17, <1>0 DEF SeeStop, Return, StopSeen, TypeInv
<1>18. ASSUME NEW w \in Worker, ReceiveFailure(w)
      PROVE  TypeInv'
  <2>0. /\ Downloading /\ pc = "loop" /\ wst[w] = "failed" /\ active > 0
        /\ w \in Assigned /\ job[w] \in Piece /\ job[w] \notin ToSet(pending)
        /\ w \in workers /\ w \notin closed /\ w \notin idle
    BY <1>18, ReporterHoldsPiece DEF ReceiveFailure
  <2>1. /\ Append(pending, job[w]) \in Seq(Piece)
        /\ Len(Append(pending, job[w])) = Len(pending) + 1
        /\ ToSet(Append(pending, job[w])) = ToSet(pending) \cup {job[w]}
        /\ IsInjective(pending) => IsInjective(Append(pending, job[w]))
    BY <1>0, <2>0, RequeueProperties DEF TypeInv
  <2>2. /\ failures' \in [Piece -> 0 .. MaxPieceFailures + 1]
        /\ pc' # "returning" => \A p \in Piece : failures'[p] <= MaxPieceFailures
    BY <1>18, <1>0, <2>0, ConstantsAssumption
       DEF ReceiveFailure, CountFailure, GivesUpOn, Return, TypeInv
  <2>3. /\ pending' \in Seq(Piece)
        /\ wst' \in [Worker -> {"none", "connected", "ready", "busy", "gotPiece",
                                "failed", "quit"}]
        /\ job' \in [Worker -> Piece \cup {NoJob}]
    BY <1>18, <1>0, <2>1 DEF ReceiveFailure, Requeue, TypeInv
  <2>4. /\ pc' \in {"returning", "loop", "offering"}
        /\ outcome' \in {"running", "pieceFailed"}
        /\ todo' \in SUBSET Worker
    BY <1>18, <1>0, <2>0 DEF ReceiveFailure, Return, OfferIdle, TypeInv
  <2>5. /\ workers' \in SUBSET Worker /\ closed' \in SUBSET Worker /\ active' \in Int
        /\ outcome' = "running" => pc' # "returning"
    BY <1>18, <1>0, <2>0
       DEF ReceiveFailure, RemoveWorker, CloseWorkerList, Return, OfferIdle, TypeInv
  <2> QED
    BY <1>18, <1>0, <2>0, <2>2, <2>3, <2>4, <2>5 DEF ReceiveFailure, TypeInv
<1>19. ASSUME NEW w \in Worker, ReceivePiece(w)
      PROVE  TypeInv'
  <2>0. /\ Downloading /\ pc = "loop" /\ wst[w] = "gotPiece" /\ active > 0
        /\ w \in Assigned /\ job[w] \in Piece /\ job[w] \notin ToSet(pending)
        /\ w \in workers /\ w \notin closed /\ w \notin idle
    BY <1>19, ReporterHoldsPiece DEF ReceivePiece
  <2>1. PICK held \in SUBSET Piece :
          \/ SendJob(w, held) /\ UNCHANGED <<active, idle>>
          \/ NoJobFor(w, held) /\ active' = active - 1 /\ idle' = idle \cup {w}
    BY <1>19 DEF ReceivePiece, GiveJob
  <2>2. ASSUME SendJob(w, held) /\ UNCHANGED <<active, idle>>
        PROVE  TypeInv'
    <3>1. PICK p \in Piece :
            /\ p \in ToSet(pending)
            /\ pending' \in Seq(Piece)
            /\ Len(pending) \in Nat /\ Len(pending') = Len(pending) - 1
            /\ Len(pending') \in Nat
            /\ ToSet(pending') \subseteq ToSet(pending)
            /\ ToSet(pending) \subseteq ToSet(pending') \cup {p}
            /\ IsInjective(pending) => IsInjective(pending') /\ p \notin ToSet(pending')
            /\ wst' = [wst EXCEPT ![w] = "busy"]
            /\ job' = [job EXCEPT ![w] = p]
      BY <2>2, SendJobEffect DEF IInv
    <3>2. progress' \in [completed : Int, pending : Int, active : Int, total : {0, N}]
      BY <1>19, <3>1, <1>0 DEF ReceivePiece, PieceProgress, EmitProgress, TypeInv
    <3>3. /\ wst' \in [Worker -> {"none", "connected", "ready", "busy", "gotPiece",
                                  "failed", "quit"}]
          /\ job' \in [Worker -> Piece \cup {NoJob}]
      BY <3>1, <1>0 DEF TypeInv
    <3>4. /\ completed' \in Int /\ active' = active /\ idle' = idle
          /\ todo' = idle /\ pc' \in {"loop", "offering"}
          /\ good' = good \cup {job[w]}
          /\ UNCHANGED <<armed, retrying, attempt, failures, workers, closed, outcome,
                        ctx, durable, runs>>
      BY <1>19, <2>2, <1>0 DEF ReceivePiece, OfferIdle, TypeInv
    <3> QED
      BY <3>1, <3>2, <3>3, <3>4, <1>0, <2>0 DEF TypeInv
  <2>3. ASSUME NoJobFor(w, held) /\ active' = active - 1 /\ idle' = idle \cup {w}
        PROVE  TypeInv'
    BY <1>19, <2>3, <1>0, <2>0
       DEF ReceivePiece, TakesResult, PieceProgress, EmitProgress, NoJobFor,
           OfferIdle, TypeInv
  <2> QED
    BY <2>1, <2>2, <2>3
<1>20. ASSUME NEW w \in Worker, WritePieceFails(w)
      PROVE  TypeInv'
  BY <1>20, <1>0 DEF WritePieceFails, TakesResult, Return, TypeInv
<1>21. ASSUME NEW w \in Worker, OfferJob(w)
      PROVE  TypeInv'
  <2>1. PICK held \in SUBSET Piece :
          \/ SendJob(w, held) /\ active' = active + 1 /\ idle' = idle \ {w}
          \/ NoJobFor(w, held) /\ UNCHANGED <<active, idle>>
    BY <1>21 DEF OfferJob, GiveJob
  <2>2. ASSUME SendJob(w, held) /\ active' = active + 1 /\ idle' = idle \ {w}
        PROVE  TypeInv'
    <3>1. PICK p \in Piece :
            /\ p \in ToSet(pending)
            /\ pending' \in Seq(Piece)
            /\ Len(pending) \in Nat /\ Len(pending') = Len(pending) - 1
            /\ Len(pending') \in Nat
            /\ ToSet(pending') \subseteq ToSet(pending)
            /\ ToSet(pending) \subseteq ToSet(pending') \cup {p}
            /\ IsInjective(pending) => IsInjective(pending') /\ p \notin ToSet(pending')
            /\ wst' = [wst EXCEPT ![w] = "busy"]
            /\ job' = [job EXCEPT ![w] = p]
      BY <2>2, SendJobEffect DEF IInv
    <3> QED
      BY <1>21, <2>2, <3>1, <1>0 DEF OfferJob, GiveJob, NoJobFor, TypeInv
  <2>3. ASSUME NoJobFor(w, held) /\ UNCHANGED <<active, idle>>
        PROVE  TypeInv'
    BY <1>21, <2>3, <1>0 DEF OfferJob, GiveJob, NoJobFor, TypeInv
  <2> QED
    BY <2>1, <2>2, <2>3
<1>22. CASE SyncSucceeds
  BY <1>22, <1>0 DEF SyncSucceeds, Sync, Return, TypeInv
<1>23. CASE SyncFails
  BY <1>23, <1>0 DEF SyncFails, Return, TypeInv
<1>24. CASE ReturnBeforeLoop
  BY <1>24, <1>0 DEF ReturnBeforeLoop, ReleaseContext, TypeInv
<1>25. CASE ReturnFromLoop
  BY <1>25, <1>0
     DEF ReturnFromLoop, DeferredClose, CloseWorkerList, EmitProgress, ReleaseContext,
         TypeInv
<1>26. CASE CloseWorkersPanics
  BY <1>26, <1>0
     DEF CloseWorkersPanics, CloseWorkerList, EmitProgress, ReleaseContext, TypeInv
<1>27. ASSUME NEW w \in Worker, WorkerFinishes(w)
      PROVE  TypeInv'
  BY <1>27, <1>0 DEF WorkerFinishes, TypeInv
<1>28. ASSUME NEW w \in Worker, WorkerQuits(w)
      PROVE  TypeInv'
  BY <1>28, <1>0 DEF WorkerQuits, TypeInv
<1>29. ASSUME NEW w \in Worker, WorkerEnds(w)
      PROVE  TypeInv'
  BY <1>29, <1>0 DEF WorkerEnds, TypeInv
<1>30. CASE Stop
  BY <1>30, <1>0 DEF Stop, TypeInv
<1>31. CASE Restart
  <2>1. /\ failures' \in [Piece -> 0 .. MaxPieceFailures + 1]
        /\ wst' \in [Worker -> {"none"}] /\ job' \in [Worker -> {NoJob}]
        /\ progress' \in [completed : Int, pending : Int, active : Int, total : {0, N}]
        /\ pending' \in Seq(Piece)
    BY <1>31, ConstantsAssumption, EmptySeq DEF Restart
  <2>2. good' \in SUBSET Piece /\ durable' \in SUBSET good' /\ runs' \in 1 .. MaxRuns
    BY <1>31, <1>0, ConstantsAssumption DEF Restart, TypeInv
  <2>3. pc' = "init" /\ outcome' = "running" /\ ctx' = "live"
    BY <1>31 DEF Restart
  <2>4. armed' \in BOOLEAN /\ retrying' \in BOOLEAN
    BY <1>31 DEF Restart
  <2>5. attempt' \in 0 .. MaxAttempts
    BY <1>31, ConstantsAssumption DEF Restart
  <2>6. completed' \in Int /\ active' \in Int
    BY <1>31 DEF Restart
  <2>7. /\ workers' \in SUBSET Worker /\ idle' \in SUBSET Worker
        /\ todo' \in SUBSET Worker /\ closed' \in SUBSET Worker
    BY <1>31 DEF Restart
  <2>8. \A p \in Piece : failures'[p] <= MaxPieceFailures
    BY <1>31, ConstantsAssumption DEF Restart
  <2> QED
    BY <2>1, <2>2, <2>3, <2>4, <2>5, <2>6, <2>7, <2>8 DEF TypeInv
<1>32. CASE UNCHANGED vars
  BY <1>32, <1>0 DEF TypeInv
<1> QED
  BY <1>1, <1>2, <1>3, <1>4, <1>5, <1>6, <1>7, <1>8, <1>9, <1>10, <1>11,
     <1>12, <1>13, <1>14, <1>15, <1>16, <1>17, <1>18, <1>19, <1>20, <1>21,
     <1>22, <1>23, <1>24, <1>25, <1>26, <1>27, <1>28, <1>29, <1>30, <1>31,
     <1>32 DEF Next, DownloadStep, WorkerStep, Environment

\* Where Download is and how it returns.
LEMMA ControlStep ==
    ASSUME IInv, [Next]_vars
    PROVE  ControlInv'
<1> USE DEF vars, mainVars, dataVars, queueVars, workerVars, connVars, worldVars
<1> USE DEF Downloading, Reconnecting
<1>0. TypeInv /\ ControlInv /\ RosterInv
  BY DEF IInv
<1>1. CASE OpenFilesFails
  BY <1>1, <1>0 DEF OpenFilesFails, Return, TypeInv, ControlInv
<1>2. CASE InitializePendingPieces
  BY <1>2, <1>0
     DEF InitializePendingPieces, EnterLoop, EmitProgress, FoundOnDisk, TypeInv,
         ControlInv
<1>3. CASE ConnectPeers
  BY <1>3, <1>0 DEF ConnectPeers, TypeInv, ControlInv
<1>4. ASSUME NEW w \in Worker, PeerConnects(w)
      PROVE  ControlInv'
  BY <1>4, <1>0 DEF PeerConnects, TypeInv, ControlInv
<1>5. CASE ConnectFails
  BY <1>5, <1>0
     DEF ConnectFails, RoundFailed, DropIdle, CloseWorkerList, EnterReconnect,
         TypeInv, ControlInv
<1>6. CASE ConnectSucceeds
  BY <1>6, <1>0 DEF ConnectSucceeds, TypeInv, ControlInv
<1>7. ASSUME NEW w \in Worker, StartWorker(w)
      PROVE  ControlInv'
  BY <1>7, <1>0 DEF StartWorker, GiveJob, NoJobFor, TypeInv, ControlInv
<1>8. CASE RoundSucceeds
  BY <1>8, <1>0 DEF RoundSucceeds, EnterLoop, EmitProgress, TypeInv, ControlInv
<1>9. CASE RoundIsBarren
  BY <1>9, <1>0
     DEF RoundIsBarren, RoundFailed, DropIdle, CloseWorkerList, EnterReconnect,
         TypeInv, ControlInv
<1>10. CASE AnnounceSucceeds
  BY <1>10, <1>0 DEF AnnounceSucceeds, TypeInv, ControlInv
<1>11. CASE AnnounceFails
  BY <1>11, <1>0 DEF AnnounceFails, TypeInv, ControlInv
<1>12. CASE ReconnectStopped
  BY <1>12, <1>0 DEF ReconnectStopped, Return, StopSeen, TypeInv, ControlInv
<1>13. CASE GiveUpReconnecting
  BY <1>13, <1>0 DEF GiveUpReconnecting, Return, TypeInv, ControlInv
<1>14. CASE WaitBeforeRetry
  BY <1>14, <1>0 DEF WaitBeforeRetry, TypeInv, ControlInv
<1>15. CASE RetryAfterWait
  BY <1>15, <1>0 DEF RetryAfterWait, TypeInv, ControlInv
<1>16. CASE LoseAllWorkers
  BY <1>16, <1>0
     DEF LoseAllWorkers, DropIdle, CloseWorkerList, EnterReconnect, TypeInv,
         ControlInv
<1>17. CASE SeeStop
  BY <1>17, <1>0 DEF SeeStop, Return, StopSeen, TypeInv, ControlInv
<1>18. ASSUME NEW w \in Worker, ReceiveFailure(w)
      PROVE  ControlInv'
  BY <1>18, <1>0
     DEF ReceiveFailure, TakesResult, RemoveWorker, CountFailure, GivesUpOn, Requeue,
         Return, OfferIdle, CloseWorkerList, TypeInv, ControlInv
<1>19. ASSUME NEW w \in Worker, ReceivePiece(w)
      PROVE  ControlInv'
  BY <1>19, <1>0
     DEF ReceivePiece, TakesResult, PieceProgress, EmitProgress, NoJobFor, OfferIdle,
         TypeInv, ControlInv
<1>20. ASSUME NEW w \in Worker, WritePieceFails(w)
      PROVE  ControlInv'
  BY <1>20, <1>0 DEF WritePieceFails, TakesResult, Return, TypeInv, ControlInv
<1>21. ASSUME NEW w \in Worker, OfferJob(w)
      PROVE  ControlInv'
  BY <1>21, <1>0 DEF OfferJob, GiveJob, NoJobFor, TypeInv, ControlInv
<1>22. CASE SyncSucceeds
  BY <1>22, <1>0 DEF SyncSucceeds, Sync, Return, TypeInv, ControlInv
<1>23. CASE SyncFails
  BY <1>23, <1>0 DEF SyncFails, Return, TypeInv, ControlInv
<1>24. CASE ReturnBeforeLoop
  BY <1>24, <1>0 DEF ReturnBeforeLoop, ReleaseContext, TypeInv, ControlInv
<1>25. CASE ReturnFromLoop
  BY <1>25, <1>0
     DEF ReturnFromLoop, DeferredClose, CloseWorkerList, EmitProgress, ReleaseContext,
         TypeInv, ControlInv
<1>26. CASE CloseWorkersPanics
  BY <1>26, <1>0 DEF CloseWorkersPanics, ControlInv, RosterInv
<1>27. ASSUME NEW w \in Worker, WorkerFinishes(w)
      PROVE  ControlInv'
  BY <1>27, <1>0 DEF WorkerFinishes, TypeInv, ControlInv
<1>28. ASSUME NEW w \in Worker, WorkerQuits(w)
      PROVE  ControlInv'
  BY <1>28, <1>0 DEF WorkerQuits, TypeInv, ControlInv
<1>29. ASSUME NEW w \in Worker, WorkerEnds(w)
      PROVE  ControlInv'
  BY <1>29, <1>0 DEF WorkerEnds, TypeInv, ControlInv
<1>30. CASE Stop
  BY <1>30, <1>0 DEF Stop, TypeInv, ControlInv
<1>31. CASE Restart
  BY <1>31, <1>0 DEF Restart, TypeInv, ControlInv
<1>32. CASE UNCHANGED vars
  BY <1>32, <1>0 DEF ControlInv
<1> QED
  BY <1>1, <1>2, <1>3, <1>4, <1>5, <1>6, <1>7, <1>8, <1>9, <1>10, <1>11,
     <1>12, <1>13, <1>14, <1>15, <1>16, <1>17, <1>18, <1>19, <1>20, <1>21,
     <1>22, <1>23, <1>24, <1>25, <1>26, <1>27, <1>28, <1>29, <1>30, <1>31,
     <1>32 DEF Next, DownloadStep, WorkerStep, Environment

\* The lists of workers.
LEMMA RosterStep ==
    ASSUME IInv, [Next]_vars
    PROVE  RosterInv'
<1> USE DEF vars, mainVars, dataVars, queueVars, workerVars, connVars, worldVars
<1> USE DEF Downloading, InRound, Reconnecting, Assigned
<1>0. TypeInv /\ ControlInv /\ RosterInv
  BY DEF IInv
<1>1. CASE OpenFilesFails
  BY <1>1, <1>0 DEF OpenFilesFails, Return, TypeInv, ControlInv, RosterInv
<1>2. CASE InitializePendingPieces
  BY <1>2, <1>0
     DEF InitializePendingPieces, EnterLoop, EmitProgress, FoundOnDisk, TypeInv,
         ControlInv, RosterInv
<1>3. CASE ConnectPeers
  BY <1>3, <1>0 DEF ConnectPeers, TypeInv, ControlInv, RosterInv
<1>4. ASSUME NEW w \in Worker, PeerConnects(w)
      PROVE  RosterInv'
  BY <1>4, <1>0 DEF PeerConnects, TypeInv, ControlInv, RosterInv
<1>5. CASE ConnectFails
  BY <1>5, <1>0
     DEF ConnectFails, RoundFailed, DropIdle, CloseWorkerList, EnterReconnect,
         TypeInv, ControlInv, RosterInv
<1>6. CASE ConnectSucceeds
  BY <1>6, <1>0 DEF ConnectSucceeds, TypeInv, ControlInv, RosterInv
<1>7. ASSUME NEW w \in Worker, StartWorker(w)
      PROVE  RosterInv'
  <2>1. PICK held \in SUBSET Piece :
          \/ SendJob(w, held) /\ active' = active + 1 /\ UNCHANGED idle
          \/ NoJobFor(w, held) /\ idle' = idle \cup {w} /\ UNCHANGED active
    BY <1>7 DEF StartWorker, GiveJob
  <2>2. ASSUME SendJob(w, held) /\ active' = active + 1 /\ UNCHANGED idle
        PROVE  RosterInv'
    <3>1. PICK p \in Piece :
            /\ p \in ToSet(pending)
            /\ pending' \in Seq(Piece)
            /\ Len(pending) \in Nat /\ Len(pending') = Len(pending) - 1
            /\ Len(pending') \in Nat
            /\ ToSet(pending') \subseteq ToSet(pending)
            /\ ToSet(pending) \subseteq ToSet(pending') \cup {p}
            /\ IsInjective(pending) => IsInjective(pending') /\ p \notin ToSet(pending')
            /\ wst' = [wst EXCEPT ![w] = "busy"]
            /\ job' = [job EXCEPT ![w] = p]
      BY <2>2, SendJobEffect DEF IInv
    <3> QED
      BY <1>7, <2>2, <3>1, <1>0
         DEF StartWorker, GiveJob, NoJobFor, TypeInv, ControlInv, RosterInv
  <2>3. ASSUME NoJobFor(w, held) /\ idle' = idle \cup {w} /\ UNCHANGED active
        PROVE  RosterInv'
    BY <1>7, <2>3, <1>0
       DEF StartWorker, GiveJob, NoJobFor, TypeInv, ControlInv, RosterInv
  <2> QED
    BY <2>1, <2>2, <2>3
<1>8. CASE RoundSucceeds
  BY <1>8, <1>0
     DEF RoundSucceeds, EnterLoop, EmitProgress, TypeInv, ControlInv, RosterInv
<1>9. CASE RoundIsBarren
  <2>1. Assigned = {} /\ workers \subseteq idle
    BY <1>9, <1>0, NoneAssigned DEF RoundIsBarren, ControlInv, DropIdle
  <2>2. CASE retrying
    BY <1>9, <1>0, <2>1, <2>2
       DEF RoundIsBarren, RoundFailed, DropIdle, CloseWorkerList, EnterReconnect,
           TypeInv, ControlInv, RosterInv
  <2>3. CASE ~retrying
    BY <1>9, <1>0, <2>1, <2>3
       DEF RoundIsBarren, RoundFailed, DropIdle, CloseWorkerList, EnterReconnect,
           TypeInv, ControlInv, RosterInv
  <2> QED
    BY <2>2, <2>3
<1>10. CASE AnnounceSucceeds
  BY <1>10, <1>0 DEF AnnounceSucceeds, TypeInv, ControlInv, RosterInv
<1>11. CASE AnnounceFails
  BY <1>11, <1>0 DEF AnnounceFails, TypeInv, ControlInv, RosterInv
<1>12. CASE ReconnectStopped
  BY <1>12, <1>0
     DEF ReconnectStopped, Return, StopSeen, TypeInv, ControlInv, RosterInv
<1>13. CASE GiveUpReconnecting
  BY <1>13, <1>0 DEF GiveUpReconnecting, Return, TypeInv, ControlInv, RosterInv
<1>14. CASE WaitBeforeRetry
  BY <1>14, <1>0 DEF WaitBeforeRetry, TypeInv, ControlInv, RosterInv
<1>15. CASE RetryAfterWait
  BY <1>15, <1>0 DEF RetryAfterWait, TypeInv, ControlInv, RosterInv
<1>16. CASE LoseAllWorkers
  <2>1. Assigned = {} /\ workers \subseteq idle
    BY <1>16, <1>0, NoneAssigned DEF LoseAllWorkers, ControlInv, DropIdle
  <2> QED
    BY <1>16, <1>0, <2>1
       DEF LoseAllWorkers, DropIdle, CloseWorkerList, EnterReconnect, TypeInv,
           ControlInv, RosterInv
<1>17. CASE SeeStop
  BY <1>17, <1>0 DEF SeeStop, Return, StopSeen, TypeInv, ControlInv, RosterInv
<1>18. ASSUME NEW w \in Worker, ReceiveFailure(w)
      PROVE  RosterInv'
  BY <1>18, <1>0
     DEF ReceiveFailure, TakesResult, RemoveWorker, CountFailure, GivesUpOn, Requeue,
         Return, OfferIdle, CloseWorkerList, TypeInv, ControlInv, RosterInv
<1>19. ASSUME NEW w \in Worker, ReceivePiece(w)
      PROVE  RosterInv'
  <2>1. PICK held \in SUBSET Piece :
          \/ SendJob(w, held) /\ UNCHANGED <<active, idle>>
          \/ NoJobFor(w, held) /\ active' = active - 1 /\ idle' = idle \cup {w}
    BY <1>19 DEF ReceivePiece, GiveJob
  <2>2. ASSUME SendJob(w, held) /\ UNCHANGED <<active, idle>>
        PROVE  RosterInv'
    <3>1. PICK p \in Piece :
            /\ p \in ToSet(pending)
            /\ pending' \in Seq(Piece)
            /\ Len(pending) \in Nat /\ Len(pending') = Len(pending) - 1
            /\ Len(pending') \in Nat
            /\ ToSet(pending') \subseteq ToSet(pending)
            /\ ToSet(pending) \subseteq ToSet(pending') \cup {p}
            /\ IsInjective(pending) => IsInjective(pending') /\ p \notin ToSet(pending')
            /\ wst' = [wst EXCEPT ![w] = "busy"]
            /\ job' = [job EXCEPT ![w] = p]
      BY <2>2, SendJobEffect DEF IInv
    <3> QED
      BY <1>19, <2>2, <3>1, <1>0
         DEF ReceivePiece, TakesResult, PieceProgress, EmitProgress, NoJobFor,
             OfferIdle, TypeInv, ControlInv, RosterInv
  <2>3. ASSUME NoJobFor(w, held) /\ active' = active - 1 /\ idle' = idle \cup {w}
        PROVE  RosterInv'
    BY <1>19, <2>3, <1>0
       DEF ReceivePiece, TakesResult, PieceProgress, EmitProgress, NoJobFor,
           OfferIdle, TypeInv, ControlInv, RosterInv
  <2> QED
    BY <2>1, <2>2, <2>3
<1>20. ASSUME NEW w \in Worker, WritePieceFails(w)
      PROVE  RosterInv'
  BY <1>20, <1>0
     DEF WritePieceFails, TakesResult, Return, TypeInv, ControlInv, RosterInv
<1>21. ASSUME NEW w \in Worker, OfferJob(w)
      PROVE  RosterInv'
  <2>1. PICK held \in SUBSET Piece :
          \/ SendJob(w, held) /\ active' = active + 1 /\ idle' = idle \ {w}
          \/ NoJobFor(w, held) /\ UNCHANGED <<active, idle>>
    BY <1>21 DEF OfferJob, GiveJob
  <2>2. ASSUME SendJob(w, held) /\ active' = active + 1 /\ idle' = idle \ {w}
        PROVE  RosterInv'
    <3>1. PICK p \in Piece :
            /\ p \in ToSet(pending)
            /\ pending' \in Seq(Piece)
            /\ Len(pending) \in Nat /\ Len(pending') = Len(pending) - 1
            /\ Len(pending') \in Nat
            /\ ToSet(pending') \subseteq ToSet(pending)
            /\ ToSet(pending) \subseteq ToSet(pending') \cup {p}
            /\ IsInjective(pending) => IsInjective(pending') /\ p \notin ToSet(pending')
            /\ wst' = [wst EXCEPT ![w] = "busy"]
            /\ job' = [job EXCEPT ![w] = p]
      BY <2>2, SendJobEffect DEF IInv
    <3> QED
      BY <1>21, <2>2, <3>1, <1>0
         DEF OfferJob, GiveJob, NoJobFor, TypeInv, ControlInv, RosterInv
  <2>3. ASSUME NoJobFor(w, held) /\ UNCHANGED <<active, idle>>
        PROVE  RosterInv'
    BY <1>21, <2>3, <1>0
       DEF OfferJob, GiveJob, NoJobFor, TypeInv, ControlInv, RosterInv
  <2> QED
    BY <2>1, <2>2, <2>3
<1>22. CASE SyncSucceeds
  BY <1>22, <1>0 DEF SyncSucceeds, Sync, Return, TypeInv, ControlInv, RosterInv
<1>23. CASE SyncFails
  BY <1>23, <1>0 DEF SyncFails, Return, TypeInv, ControlInv, RosterInv
<1>24. CASE ReturnBeforeLoop
  BY <1>24, <1>0 DEF ReturnBeforeLoop, ReleaseContext, TypeInv, ControlInv, RosterInv
<1>25. CASE ReturnFromLoop
  BY <1>25, <1>0
     DEF ReturnFromLoop, DeferredClose, CloseWorkerList, EmitProgress, ReleaseContext,
         TypeInv, ControlInv, RosterInv
<1>26. CASE CloseWorkersPanics
  BY <1>26, <1>0
     DEF CloseWorkersPanics, CloseWorkerList, EmitProgress, ReleaseContext, TypeInv,
         ControlInv, RosterInv
<1>27. ASSUME NEW w \in Worker, WorkerFinishes(w)
      PROVE  RosterInv'
  BY <1>27, <1>0 DEF WorkerFinishes, TypeInv, ControlInv, RosterInv
<1>28. ASSUME NEW w \in Worker, WorkerQuits(w)
      PROVE  RosterInv'
  BY <1>28, <1>0 DEF WorkerQuits, TypeInv, ControlInv, RosterInv
<1>29. ASSUME NEW w \in Worker, WorkerEnds(w)
      PROVE  RosterInv'
  BY <1>29, <1>0 DEF WorkerEnds, TypeInv, ControlInv, RosterInv
<1>30. CASE Stop
  BY <1>30, <1>0 DEF Stop, TypeInv, ControlInv, RosterInv
<1>31. CASE Restart
  BY <1>31, <1>0 DEF Restart, TypeInv, ControlInv, RosterInv
<1>32. CASE UNCHANGED vars
  BY <1>32, <1>0 DEF TypeInv, ControlInv, RosterInv
<1> QED
  BY <1>1, <1>2, <1>3, <1>4, <1>5, <1>6, <1>7, <1>8, <1>9, <1>10, <1>11,
     <1>12, <1>13, <1>14, <1>15, <1>16, <1>17, <1>18, <1>19, <1>20, <1>21,
     <1>22, <1>23, <1>24, <1>25, <1>26, <1>27, <1>28, <1>29, <1>30, <1>31,
     <1>32 DEF Next, DownloadStep, WorkerStep, Environment

\* Nothing is left open.
LEMMA LeakStep ==
    ASSUME IInv, [Next]_vars
    PROVE  LeakInv'
<1> USE DEF vars, mainVars, dataVars, queueVars, workerVars, connVars, worldVars
<1> USE DEF Downloading, InRound, Assigned, Reconnecting, Known, Closed,
            ConnectionsReleased
<1>0. TypeInv /\ ControlInv /\ RosterInv /\ LeakInv
  BY DEF IInv
<1>1. CASE OpenFilesFails
  BY <1>1, <1>0 DEF OpenFilesFails, Return, TypeInv, ControlInv, RosterInv, LeakInv
<1>2. CASE InitializePendingPieces
  BY <1>2, <1>0
     DEF InitializePendingPieces, EnterLoop, EmitProgress, FoundOnDisk, TypeInv,
         ControlInv, RosterInv, LeakInv
<1>3. CASE ConnectPeers
  BY <1>3, <1>0 DEF ConnectPeers, TypeInv, ControlInv, RosterInv, LeakInv
<1>4. ASSUME NEW w \in Worker, PeerConnects(w)
      PROVE  LeakInv'
  BY <1>4, <1>0 DEF PeerConnects, TypeInv, ControlInv, RosterInv, LeakInv
<1>5. CASE ConnectFails
  <2>1. CASE retrying
    BY <1>5, <1>0, <2>1
       DEF ConnectFails, RoundFailed, DropIdle, CloseWorkerList, EnterReconnect,
           TypeInv, ControlInv, RosterInv, LeakInv
  <2>2. CASE ~retrying
    BY <1>5, <1>0, <2>2
       DEF ConnectFails, RoundFailed, DropIdle, CloseWorkerList, EnterReconnect,
           TypeInv, ControlInv, RosterInv, LeakInv
  <2> QED
    BY <2>1, <2>2
<1>6. CASE ConnectSucceeds
  BY <1>6, <1>0 DEF ConnectSucceeds, TypeInv, ControlInv, RosterInv, LeakInv
<1>7. ASSUME NEW w \in Worker, StartWorker(w)
      PROVE  LeakInv'
  <2>1. PICK held \in SUBSET Piece :
          \/ SendJob(w, held) /\ active' = active + 1 /\ UNCHANGED idle
          \/ NoJobFor(w, held) /\ idle' = idle \cup {w} /\ UNCHANGED active
    BY <1>7 DEF StartWorker, GiveJob
  <2>2. ASSUME SendJob(w, held) /\ active' = active + 1 /\ UNCHANGED idle
        PROVE  LeakInv'
    <3>1. PICK p \in Piece :
            /\ p \in ToSet(pending)
            /\ pending' \in Seq(Piece)
            /\ Len(pending) \in Nat /\ Len(pending') = Len(pending) - 1
            /\ Len(pending') \in Nat
            /\ ToSet(pending') \subseteq ToSet(pending)
            /\ ToSet(pending) \subseteq ToSet(pending') \cup {p}
            /\ IsInjective(pending) => IsInjective(pending') /\ p \notin ToSet(pending')
            /\ wst' = [wst EXCEPT ![w] = "busy"]
            /\ job' = [job EXCEPT ![w] = p]
      BY <2>2, SendJobEffect DEF IInv
    <3> QED
      BY <1>7, <2>2, <3>1, <1>0
         DEF StartWorker, GiveJob, NoJobFor, TypeInv, ControlInv, RosterInv, LeakInv
  <2>3. ASSUME NoJobFor(w, held) /\ idle' = idle \cup {w} /\ UNCHANGED active
        PROVE  LeakInv'
    BY <1>7, <2>3, <1>0
       DEF StartWorker, GiveJob, NoJobFor, TypeInv, ControlInv, RosterInv, LeakInv
  <2> QED
    BY <2>1, <2>2, <2>3
<1>8. CASE RoundSucceeds
  BY <1>8, <1>0
     DEF RoundSucceeds, EnterLoop, EmitProgress, TypeInv, ControlInv, RosterInv,
         LeakInv
<1>9. CASE RoundIsBarren
  <2>1. Assigned = {} /\ workers \subseteq idle
    BY <1>9, <1>0, NoneAssigned DEF RoundIsBarren, ControlInv, DropIdle
  <2>2. CASE retrying
    BY <1>9, <1>0, <2>1, <2>2
       DEF RoundIsBarren, RoundFailed, DropIdle, CloseWorkerList, EnterReconnect,
           TypeInv, ControlInv, RosterInv, LeakInv
  <2>3. CASE ~retrying
    BY <1>9, <1>0, <2>1, <2>3
       DEF RoundIsBarren, RoundFailed, DropIdle, CloseWorkerList, EnterReconnect,
           TypeInv, ControlInv, RosterInv, LeakInv
  <2> QED
    BY <2>2, <2>3
<1>10. CASE AnnounceSucceeds
  BY <1>10, <1>0 DEF AnnounceSucceeds, TypeInv, ControlInv, RosterInv, LeakInv
<1>11. CASE AnnounceFails
  BY <1>11, <1>0 DEF AnnounceFails, TypeInv, ControlInv, RosterInv, LeakInv
<1>12. CASE ReconnectStopped
  BY <1>12, <1>0
     DEF ReconnectStopped, Return, StopSeen, TypeInv, ControlInv, RosterInv, LeakInv
<1>13. CASE GiveUpReconnecting
  BY <1>13, <1>0
     DEF GiveUpReconnecting, Return, TypeInv, ControlInv, RosterInv, LeakInv
<1>14. CASE WaitBeforeRetry
  BY <1>14, <1>0 DEF WaitBeforeRetry, TypeInv, ControlInv, RosterInv, LeakInv
<1>15. CASE RetryAfterWait
  BY <1>15, <1>0 DEF RetryAfterWait, TypeInv, ControlInv, RosterInv, LeakInv
<1>16. CASE LoseAllWorkers
  <2>1. Assigned = {} /\ workers \subseteq idle
    BY <1>16, <1>0, NoneAssigned DEF LoseAllWorkers, ControlInv, DropIdle
  <2> QED
    BY <1>16, <1>0, <2>1
       DEF LoseAllWorkers, DropIdle, CloseWorkerList, EnterReconnect, TypeInv,
           ControlInv, RosterInv, LeakInv
<1>17. CASE SeeStop
  BY <1>17, <1>0
     DEF SeeStop, Return, StopSeen, TypeInv, ControlInv, RosterInv, LeakInv
<1>18. ASSUME NEW w \in Worker, ReceiveFailure(w)
      PROVE  LeakInv'
  BY <1>18, <1>0
     DEF ReceiveFailure, TakesResult, RemoveWorker, CountFailure, GivesUpOn, Requeue,
         Return, OfferIdle, CloseWorkerList, TypeInv, ControlInv, RosterInv, LeakInv
<1>19. ASSUME NEW w \in Worker, ReceivePiece(w)
      PROVE  LeakInv'
  <2>1. PICK held \in SUBSET Piece :
          \/ SendJob(w, held) /\ UNCHANGED <<active, idle>>
          \/ NoJobFor(w, held) /\ active' = active - 1 /\ idle' = idle \cup {w}
    BY <1>19 DEF ReceivePiece, GiveJob
  <2>2. ASSUME SendJob(w, held) /\ UNCHANGED <<active, idle>>
        PROVE  LeakInv'
    <3>1. PICK p \in Piece :
            /\ p \in ToSet(pending)
            /\ pending' \in Seq(Piece)
            /\ Len(pending) \in Nat /\ Len(pending') = Len(pending) - 1
            /\ Len(pending') \in Nat
            /\ ToSet(pending') \subseteq ToSet(pending)
            /\ ToSet(pending) \subseteq ToSet(pending') \cup {p}
            /\ IsInjective(pending) => IsInjective(pending') /\ p \notin ToSet(pending')
            /\ wst' = [wst EXCEPT ![w] = "busy"]
            /\ job' = [job EXCEPT ![w] = p]
      BY <2>2, SendJobEffect DEF IInv
    <3> QED
      BY <1>19, <2>2, <3>1, <1>0
         DEF ReceivePiece, TakesResult, PieceProgress, EmitProgress, NoJobFor,
             OfferIdle, TypeInv, ControlInv, RosterInv, LeakInv
  <2>3. ASSUME NoJobFor(w, held) /\ active' = active - 1 /\ idle' = idle \cup {w}
        PROVE  LeakInv'
    BY <1>19, <2>3, <1>0
       DEF ReceivePiece, TakesResult, PieceProgress, EmitProgress, NoJobFor,
           OfferIdle, TypeInv, ControlInv, RosterInv, LeakInv
  <2> QED
    BY <2>1, <2>2, <2>3
<1>20. ASSUME NEW w \in Worker, WritePieceFails(w)
      PROVE  LeakInv'
  BY <1>20, <1>0
     DEF WritePieceFails, TakesResult, Return, TypeInv, ControlInv, RosterInv, LeakInv
<1>21. ASSUME NEW w \in Worker, OfferJob(w)
      PROVE  LeakInv'
  <2>1. PICK held \in SUBSET Piece :
          \/ SendJob(w, held) /\ active' = active + 1 /\ idle' = idle \ {w}
          \/ NoJobFor(w, held) /\ UNCHANGED <<active, idle>>
    BY <1>21 DEF OfferJob, GiveJob
  <2>2. ASSUME SendJob(w, held) /\ active' = active + 1 /\ idle' = idle \ {w}
        PROVE  LeakInv'
    <3>1. PICK p \in Piece :
            /\ p \in ToSet(pending)
            /\ pending' \in Seq(Piece)
            /\ Len(pending) \in Nat /\ Len(pending') = Len(pending) - 1
            /\ Len(pending') \in Nat
            /\ ToSet(pending') \subseteq ToSet(pending)
            /\ ToSet(pending) \subseteq ToSet(pending') \cup {p}
            /\ IsInjective(pending) => IsInjective(pending') /\ p \notin ToSet(pending')
            /\ wst' = [wst EXCEPT ![w] = "busy"]
            /\ job' = [job EXCEPT ![w] = p]
      BY <2>2, SendJobEffect DEF IInv
    <3> QED
      BY <1>21, <2>2, <3>1, <1>0
         DEF OfferJob, GiveJob, NoJobFor, TypeInv, ControlInv, RosterInv, LeakInv
  <2>3. ASSUME NoJobFor(w, held) /\ UNCHANGED <<active, idle>>
        PROVE  LeakInv'
    BY <1>21, <2>3, <1>0
       DEF OfferJob, GiveJob, NoJobFor, TypeInv, ControlInv, RosterInv, LeakInv
  <2> QED
    BY <2>1, <2>2, <2>3
<1>22. CASE SyncSucceeds
  BY <1>22, <1>0
     DEF SyncSucceeds, Sync, Return, TypeInv, ControlInv, RosterInv, LeakInv
<1>23. CASE SyncFails
  BY <1>23, <1>0 DEF SyncFails, Return, TypeInv, ControlInv, RosterInv, LeakInv
<1>24. CASE ReturnBeforeLoop
  BY <1>24, <1>0
     DEF ReturnBeforeLoop, ReleaseContext, TypeInv, ControlInv, RosterInv, LeakInv
<1>25. CASE ReturnFromLoop
  BY <1>25, <1>0
     DEF ReturnFromLoop, DeferredClose, CloseWorkerList, EmitProgress, ReleaseContext,
         TypeInv, ControlInv, RosterInv, LeakInv
<1>26. CASE CloseWorkersPanics
  BY <1>26, <1>0
     DEF CloseWorkersPanics, CloseWorkerList, EmitProgress, ReleaseContext, TypeInv,
         ControlInv, RosterInv, LeakInv
<1>27. ASSUME NEW w \in Worker, WorkerFinishes(w)
      PROVE  LeakInv'
  BY <1>27, <1>0 DEF WorkerFinishes, TypeInv, ControlInv, RosterInv, LeakInv
<1>28. ASSUME NEW w \in Worker, WorkerQuits(w)
      PROVE  LeakInv'
  BY <1>28, <1>0 DEF WorkerQuits, TypeInv, ControlInv, RosterInv, LeakInv
<1>29. ASSUME NEW w \in Worker, WorkerEnds(w)
      PROVE  LeakInv'
  BY <1>29, <1>0 DEF WorkerEnds, TypeInv, ControlInv, RosterInv, LeakInv
<1>30. CASE Stop
  BY <1>30, <1>0 DEF Stop, TypeInv, ControlInv, RosterInv, LeakInv
<1>31. CASE Restart
  BY <1>31, <1>0 DEF Restart, TypeInv, ControlInv, RosterInv, LeakInv
<1>32. CASE UNCHANGED vars
  BY <1>32, <1>0 DEF TypeInv, ControlInv, RosterInv, LeakInv
<1> QED
  BY <1>1, <1>2, <1>3, <1>4, <1>5, <1>6, <1>7, <1>8, <1>9, <1>10, <1>11,
     <1>12, <1>13, <1>14, <1>15, <1>16, <1>17, <1>18, <1>19, <1>20, <1>21,
     <1>22, <1>23, <1>24, <1>25, <1>26, <1>27, <1>28, <1>29, <1>30, <1>31,
     <1>32 DEF Next, DownloadStep, WorkerStep, Environment

\* The counters and the announced progress add up.
LEMMA SumStep ==
    ASSUME IInv, [Next]_vars
    PROVE  SumInv'
<1> USE DEF vars, mainVars, dataVars, queueVars, workerVars, connVars, worldVars
<1> USE DEF Downloading, Accounted, ProgressAddsUp
<1>0. /\ TypeInv /\ ControlInv /\ RosterInv /\ SumInv
      /\ N \in Nat /\ Len(pending) \in Nat
  BY ConstantsAssumption, LenProperties DEF IInv, TypeInv
<1>1. CASE OpenFilesFails
  BY <1>1, <1>0 DEF OpenFilesFails, Return, TypeInv, ControlInv, SumInv
<1>2. CASE InitializePendingPieces
  <2>1. PICK found \in SUBSET good :
          /\ pending' \in Seq(Piece)
          /\ Len(pending') \in 0 .. N
          /\ IsInjective(pending')
          /\ ToSet(pending') = Piece \ found
          /\ completed' = N - Len(pending')
          /\ completed' = Cardinality(found)
    BY <1>2, <1>0, InitializeEffect
  <2> QED
    BY <1>2, <1>0, <2>1
       DEF InitializePendingPieces, EnterLoop, EmitProgress, TypeInv, ControlInv,
           SumInv
<1>3. CASE ConnectPeers
  BY <1>3, <1>0 DEF ConnectPeers, TypeInv, ControlInv, SumInv
<1>4. ASSUME NEW w \in Worker, PeerConnects(w)
      PROVE  SumInv'
  BY <1>4, <1>0 DEF PeerConnects, TypeInv, ControlInv, SumInv
<1>5. CASE ConnectFails
  BY <1>5, <1>0
     DEF ConnectFails, RoundFailed, DropIdle, CloseWorkerList, EnterReconnect,
         TypeInv, ControlInv, SumInv
<1>6. CASE ConnectSucceeds
  BY <1>6, <1>0 DEF ConnectSucceeds, TypeInv, ControlInv, SumInv
<1>7. ASSUME NEW w \in Worker, StartWorker(w)
      PROVE  SumInv'
  <2>1. PICK held \in SUBSET Piece :
          \/ SendJob(w, held) /\ active' = active + 1 /\ UNCHANGED idle
          \/ NoJobFor(w, held) /\ idle' = idle \cup {w} /\ UNCHANGED active
    BY <1>7 DEF StartWorker, GiveJob
  <2>2. ASSUME SendJob(w, held) /\ active' = active + 1 /\ UNCHANGED idle
        PROVE  SumInv'
    <3>1. PICK p \in Piece :
            /\ p \in ToSet(pending)
            /\ pending' \in Seq(Piece)
            /\ Len(pending) \in Nat /\ Len(pending') = Len(pending) - 1
            /\ Len(pending') \in Nat
            /\ ToSet(pending') \subseteq ToSet(pending)
            /\ ToSet(pending) \subseteq ToSet(pending') \cup {p}
            /\ IsInjective(pending) => IsInjective(pending') /\ p \notin ToSet(pending')
            /\ wst' = [wst EXCEPT ![w] = "busy"]
            /\ job' = [job EXCEPT ![w] = p]
      BY <2>2, SendJobEffect DEF IInv
    <3>2. Accounted' = Accounted /\ active' >= 0
      BY <1>7, <1>0, <2>2, <3>1 DEF StartWorker, TypeInv, SumInv
    <3>3. /\ pc' \in {"starting", "loop", "offering"}
          /\ UNCHANGED <<completed, progress, outcome>>
      BY <1>7, <2>2 DEF StartWorker
    <3>4. pc \in {"starting", "offering"} /\ Downloading
      BY <1>7, <1>0 DEF StartWorker, ControlInv
    <3> QED
      BY <1>0, <3>2, <3>3, <3>4 DEF SumInv
  <2>3. ASSUME NoJobFor(w, held) /\ idle' = idle \cup {w} /\ UNCHANGED active
        PROVE  SumInv'
    BY <1>7, <2>3, <1>0
       DEF StartWorker, GiveJob, NoJobFor, TypeInv, ControlInv, SumInv
  <2> QED
    BY <2>1, <2>2, <2>3
<1>8. CASE RoundSucceeds
  BY <1>8, <1>0
     DEF RoundSucceeds, EnterLoop, EmitProgress, TypeInv, ControlInv, SumInv
<1>9. CASE RoundIsBarren
  BY <1>9, <1>0
     DEF RoundIsBarren, RoundFailed, DropIdle, CloseWorkerList, EnterReconnect,
         TypeInv, ControlInv, SumInv
<1>10. CASE AnnounceSucceeds
  BY <1>10, <1>0 DEF AnnounceSucceeds, TypeInv, ControlInv, SumInv
<1>11. CASE AnnounceFails
  BY <1>11, <1>0 DEF AnnounceFails, TypeInv, ControlInv, SumInv
<1>12. CASE ReconnectStopped
  BY <1>12, <1>0 DEF ReconnectStopped, Return, StopSeen, TypeInv, ControlInv, SumInv
<1>13. CASE GiveUpReconnecting
  BY <1>13, <1>0 DEF GiveUpReconnecting, Return, TypeInv, ControlInv, SumInv
<1>14. CASE WaitBeforeRetry
  BY <1>14, <1>0 DEF WaitBeforeRetry, TypeInv, ControlInv, SumInv
<1>15. CASE RetryAfterWait
  BY <1>15, <1>0 DEF RetryAfterWait, TypeInv, ControlInv, SumInv
<1>16. CASE LoseAllWorkers
  BY <1>16, <1>0
     DEF LoseAllWorkers, DropIdle, CloseWorkerList, EnterReconnect, TypeInv,
         ControlInv, SumInv
<1>17. CASE SeeStop
  BY <1>17, <1>0 DEF SeeStop, Return, StopSeen, TypeInv, ControlInv, SumInv
<1>18. ASSUME NEW w \in Worker, ReceiveFailure(w)
      PROVE  SumInv'
  <2>0. /\ Downloading /\ pc = "loop" /\ wst[w] = "failed" /\ active > 0
        /\ w \in Assigned /\ job[w] \in Piece /\ job[w] \notin ToSet(pending)
        /\ w \in workers /\ w \notin closed /\ w \notin idle
    BY <1>18, ReporterHoldsPiece DEF ReceiveFailure
  <2>1. /\ Append(pending, job[w]) \in Seq(Piece)
        /\ Len(Append(pending, job[w])) = Len(pending) + 1
        /\ ToSet(Append(pending, job[w])) = ToSet(pending) \cup {job[w]}
        /\ IsInjective(pending) => IsInjective(Append(pending, job[w]))
    BY <1>0, <2>0, RequeueProperties DEF TypeInv
  <2>2. /\ active' = active - 1 /\ UNCHANGED <<completed, progress>>
        /\ Accounted = N /\ active' >= 0 /\ completed \in 0 .. N
    BY <1>18, <1>0, <2>0 DEF ReceiveFailure, TypeInv, SumInv
  <2>3. CASE GivesUpOn(job[w])
    <3>1. /\ pc' = "returning" /\ outcome' = "pieceFailed" /\ pending' = pending
      BY <1>18, <2>3 DEF ReceiveFailure, Return
    <3>2. Accounted' = N - 1
      BY <1>0, <2>2, <3>1 DEF TypeInv
    <3> QED
      BY <1>0, <2>0, <2>2, <3>1, <3>2 DEF SumInv
  <2>4. CASE ~GivesUpOn(job[w])
    <3>1. /\ pc' \in {"loop", "offering"} /\ outcome' = outcome
          /\ pending' = Append(pending, job[w])
      BY <1>18, <2>4 DEF ReceiveFailure, Requeue, OfferIdle
    <3>2. completed \in Int /\ active \in Int
      BY <1>0 DEF TypeInv
    <3>3. Len(pending') = Len(pending) + 1
      BY <2>1, <3>1
    <3>4. Accounted' = N
      BY <1>0, <2>2, <3>2, <3>3
    <3> QED
      BY <1>0, <2>0, <2>2, <3>1, <3>4 DEF SumInv
  <2> QED
    BY <2>3, <2>4
<1>19. ASSUME NEW w \in Worker, ReceivePiece(w)
      PROVE  SumInv'
  <2>0. /\ Downloading /\ pc = "loop" /\ wst[w] = "gotPiece" /\ active > 0
        /\ w \in Assigned /\ job[w] \in Piece /\ job[w] \notin ToSet(pending)
        /\ w \in workers /\ w \notin closed /\ w \notin idle
    BY <1>19, ReporterHoldsPiece DEF ReceivePiece
  <2>1. PICK held \in SUBSET Piece :
          \/ SendJob(w, held) /\ UNCHANGED <<active, idle>>
          \/ NoJobFor(w, held) /\ active' = active - 1 /\ idle' = idle \cup {w}
    BY <1>19 DEF ReceivePiece, GiveJob
  <2>2. ASSUME SendJob(w, held) /\ UNCHANGED <<active, idle>>
        PROVE  SumInv'
    <3>1. PICK p \in Piece :
            /\ p \in ToSet(pending)
            /\ pending' \in Seq(Piece)
            /\ Len(pending) \in Nat /\ Len(pending') = Len(pending) - 1
            /\ Len(pending') \in Nat
            /\ ToSet(pending') \subseteq ToSet(pending)
            /\ ToSet(pending) \subseteq ToSet(pending') \cup {p}
            /\ IsInjective(pending) => IsInjective(pending') /\ p \notin ToSet(pending')
            /\ wst' = [wst EXCEPT ![w] = "busy"]
            /\ job' = [job EXCEPT ![w] = p]
      BY <2>2, SendJobEffect DEF IInv
    <3>2. Accounted' = Accounted /\ active' >= 0 /\ completed' = completed + 1
      BY <1>19, <1>0, <2>0, <2>2, <3>1 DEF ReceivePiece, NoJobFor, TypeInv, SumInv
    <3>3. completed' \in 0 .. N
      BY <1>0, <2>0, <3>2 DEF TypeInv, SumInv
    <3>4. progress' = [completed |-> completed + 1, pending |-> Len(pending),
                       active |-> active - 1, total |-> N]
      BY <1>19 DEF ReceivePiece, PieceProgress, EmitProgress
    <3>5. /\ completed + 1 + Len(pending) + (active - 1) = N
          /\ completed + 1 >= 0 /\ Len(pending) >= 0 /\ active - 1 >= 0
      <4>1. /\ completed \in Nat /\ active \in Int /\ active > 0
            /\ completed + Len(pending) + active = N
        BY <1>0, <2>0 DEF TypeInv, SumInv
      <4> QED
        BY <1>0, <4>1
    <3>6. /\ progress'.completed = completed + 1 /\ progress'.pending = Len(pending)
          /\ progress'.active = active - 1 /\ progress'.total = N
      BY <3>4
    <3>7. pc' \in {"loop", "offering"} /\ outcome' = "running"
      BY <1>19, <2>0 DEF ReceivePiece, OfferIdle
    <3> QED
      BY <1>0, <2>0, <3>2, <3>3, <3>5, <3>6, <3>7 DEF SumInv
  <2>3. ASSUME NoJobFor(w, held) /\ active' = active - 1 /\ idle' = idle \cup {w}
        PROVE  SumInv'
    <3>2. Accounted' = Accounted /\ active' >= 0 /\ completed' = completed + 1
      BY <1>19, <1>0, <2>0, <2>3 DEF ReceivePiece, NoJobFor, TypeInv, SumInv
    <3>3. completed' \in 0 .. N
      BY <1>0, <2>0, <3>2 DEF TypeInv, SumInv
    <3>4. progress' = [completed |-> completed + 1, pending |-> Len(pending),
                       active |-> active - 1, total |-> N]
      BY <1>19 DEF ReceivePiece, PieceProgress, EmitProgress
    <3>5. /\ completed + 1 + Len(pending) + (active - 1) = N
          /\ completed + 1 >= 0 /\ Len(pending) >= 0 /\ active - 1 >= 0
      <4>1. /\ completed \in Nat /\ active \in Int /\ active > 0
            /\ completed + Len(pending) + active = N
        BY <1>0, <2>0 DEF TypeInv, SumInv
      <4> QED
        BY <1>0, <4>1
    <3>6. /\ progress'.completed = completed + 1 /\ progress'.pending = Len(pending)
          /\ progress'.active = active - 1 /\ progress'.total = N
      BY <3>4
    <3>7. pc' \in {"loop", "offering"} /\ outcome' = "running"
      BY <1>19, <2>0 DEF ReceivePiece, OfferIdle
    <3> QED
      BY <1>0, <2>0, <3>2, <3>3, <3>5, <3>6, <3>7 DEF SumInv
  <2> QED
    BY <2>1, <2>2, <2>3
<1>20. ASSUME NEW w \in Worker, WritePieceFails(w)
      PROVE  SumInv'
  BY <1>20, <1>0 DEF WritePieceFails, TakesResult, Return, TypeInv, ControlInv, SumInv
<1>21. ASSUME NEW w \in Worker, OfferJob(w)
      PROVE  SumInv'
  <2>1. PICK held \in SUBSET Piece :
          \/ SendJob(w, held) /\ active' = active + 1 /\ idle' = idle \ {w}
          \/ NoJobFor(w, held) /\ UNCHANGED <<active, idle>>
    BY <1>21 DEF OfferJob, GiveJob
  <2>2. ASSUME SendJob(w, held) /\ active' = active + 1 /\ idle' = idle \ {w}
        PROVE  SumInv'
    <3>1. PICK p \in Piece :
            /\ p \in ToSet(pending)
            /\ pending' \in Seq(Piece)
            /\ Len(pending) \in Nat /\ Len(pending') = Len(pending) - 1
            /\ Len(pending') \in Nat
            /\ ToSet(pending') \subseteq ToSet(pending)
            /\ ToSet(pending) \subseteq ToSet(pending') \cup {p}
            /\ IsInjective(pending) => IsInjective(pending') /\ p \notin ToSet(pending')
            /\ wst' = [wst EXCEPT ![w] = "busy"]
            /\ job' = [job EXCEPT ![w] = p]
      BY <2>2, SendJobEffect DEF IInv
    <3>2. Accounted' = Accounted /\ active' >= 0
      BY <1>21, <1>0, <2>2, <3>1 DEF OfferJob, TypeInv, SumInv
    <3>3. /\ pc' \in {"starting", "loop", "offering"}
          /\ UNCHANGED <<completed, progress, outcome>>
      BY <1>21, <2>2 DEF OfferJob
    <3>4. pc \in {"starting", "offering"} /\ Downloading
      BY <1>21, <1>0 DEF OfferJob, ControlInv
    <3> QED
      BY <1>0, <3>2, <3>3, <3>4 DEF SumInv
  <2>3. ASSUME NoJobFor(w, held) /\ UNCHANGED <<active, idle>>
        PROVE  SumInv'
    BY <1>21, <2>3, <1>0 DEF OfferJob, GiveJob, NoJobFor, TypeInv, ControlInv, SumInv
  <2> QED
    BY <2>1, <2>2, <2>3
<1>22. CASE SyncSucceeds
  BY <1>22, <1>0 DEF SyncSucceeds, Sync, Return, TypeInv, ControlInv, SumInv
<1>23. CASE SyncFails
  BY <1>23, <1>0 DEF SyncFails, Return, TypeInv, ControlInv, SumInv
<1>24. CASE ReturnBeforeLoop
  BY <1>24, <1>0 DEF ReturnBeforeLoop, ReleaseContext, TypeInv, ControlInv, SumInv
<1>25. CASE ReturnFromLoop
  BY <1>25, <1>0
     DEF ReturnFromLoop, DeferredClose, CloseWorkerList, EmitProgress, ReleaseContext,
         TypeInv, ControlInv, SumInv
<1>26. CASE CloseWorkersPanics
  <2>1. Accounted' = Accounted /\ UNCHANGED <<completed, active>> /\ pc' = "done"
        /\ progress' = [completed |-> completed, pending |-> Len(pending),
                        active |-> active, total |-> N]
    BY <1>26 DEF CloseWorkersPanics, EmitProgress
  <2>2. pc = "returning" /\ armed /\ outcome \notin {"pieceFailed", "diskError"}
    BY <1>26, <1>0 DEF CloseWorkersPanics, ControlInv, RosterInv
  <2>3. outcome' = "panic"
    BY <1>26 DEF CloseWorkersPanics
  <2> QED
    BY <1>0, <2>1, <2>2, <2>3 DEF SumInv, TypeInv
<1>27. ASSUME NEW w \in Worker, WorkerFinishes(w)
      PROVE  SumInv'
  BY <1>27, <1>0 DEF WorkerFinishes, TypeInv, ControlInv, SumInv
<1>28. ASSUME NEW w \in Worker, WorkerQuits(w)
      PROVE  SumInv'
  BY <1>28, <1>0 DEF WorkerQuits, TypeInv, ControlInv, SumInv
<1>29. ASSUME NEW w \in Worker, WorkerEnds(w)
      PROVE  SumInv'
  BY <1>29, <1>0 DEF WorkerEnds, TypeInv, ControlInv, SumInv
<1>30. CASE Stop
  BY <1>30, <1>0 DEF Stop, TypeInv, ControlInv, SumInv
<1>31. CASE Restart
  <2>1. Len(<<>>) = 0
    BY EmptySeq
  <2> QED
    BY <1>31, <1>0, <2>1 DEF Restart, SumInv
<1>32. CASE UNCHANGED vars
  BY <1>32, <1>0 DEF TypeInv, ControlInv, SumInv
<1> QED
  BY <1>1, <1>2, <1>3, <1>4, <1>5, <1>6, <1>7, <1>8, <1>9, <1>10, <1>11,
     <1>12, <1>13, <1>14, <1>15, <1>16, <1>17, <1>18, <1>19, <1>20, <1>21,
     <1>22, <1>23, <1>24, <1>25, <1>26, <1>27, <1>28, <1>29, <1>30, <1>31,
     <1>32 DEF Next, DownloadStep, WorkerStep, Environment

\* Where every piece is.
LEMMA PlaceStep ==
    ASSUME IInv, [Next]_vars
    PROVE  PlaceInv'
<1> USE DEF vars, mainVars, dataVars, queueVars, workerVars, connVars, worldVars
<1>0. TypeInv /\ ControlInv /\ RosterInv /\ PlaceInv
  BY DEF IInv
<1>1. CASE OpenFilesFails
  BY <1>1, <1>0
     DEF OpenFilesFails, Return, TypeInv, ControlInv, PlaceInv, Downloading, Assigned,
         Counted, InFlight
<1>2. CASE InitializePendingPieces
  <2>1. PICK found \in SUBSET good :
          /\ pending' \in Seq(Piece)
          /\ Len(pending') \in 0 .. N
          /\ IsInjective(pending')
          /\ ToSet(pending') = Piece \ found
          /\ completed' = N - Len(pending')
          /\ completed' = Cardinality(found)
    BY <1>2, <1>0, InitializeEffect
  <2>2. Assigned' = {} /\ InFlight' = {} /\ Assigned = {}
    BY <1>2, <1>0 DEF InitializePendingPieces, Assigned, InFlight, RosterInv
  <2>3. Counted' = found
    BY <1>0, <2>1, <2>2 DEF Counted, TypeInv
  <2>4. active' = 0 /\ UNCHANGED <<good, durable, outcome>>
    BY <1>2 DEF InitializePendingPieces, IInv, SumInv
  <2>5. Cardinality(Assigned') = 0
    BY <2>2, FS_EmptySet
  <2>6. outcome # "ok"
    BY <1>2, <1>0 DEF InitializePendingPieces, ControlInv
  <2> QED
    BY <2>1, <2>2, <2>3, <2>4, <2>5, <2>6 DEF PlaceInv
<1>3. CASE ConnectPeers
  BY <1>3, <1>0
     DEF ConnectPeers, TypeInv, ControlInv, PlaceInv, Downloading, Assigned, Counted,
         InFlight
<1>4. ASSUME NEW w \in Worker, PeerConnects(w)
      PROVE  PlaceInv'
  <2>1. Assigned' = Assigned
    BY <1>4, <1>0 DEF PeerConnects, TypeInv, Assigned
  <2> QED
    BY <1>4, <1>0, <2>1, PlaceKept DEF PeerConnects, ControlInv
<1>5. CASE ConnectFails
  BY <1>5, <1>0
     DEF ConnectFails, RoundFailed, DropIdle, CloseWorkerList, EnterReconnect,
         TypeInv, ControlInv, PlaceInv, Downloading, Assigned, Counted, InFlight
<1>6. CASE ConnectSucceeds
  BY <1>6, <1>0
     DEF ConnectSucceeds, TypeInv, ControlInv, PlaceInv, Downloading, Assigned,
         Counted, InFlight
<1>7. ASSUME NEW w \in Worker, StartWorker(w)
      PROVE  PlaceInv'
  <2>1. PICK held \in SUBSET Piece :
          \/ SendJob(w, held) /\ active' = active + 1 /\ UNCHANGED idle
          \/ NoJobFor(w, held) /\ idle' = idle \cup {w} /\ UNCHANGED active
    BY <1>7 DEF StartWorker, GiveJob
  <2>2. ASSUME SendJob(w, held) /\ active' = active + 1 /\ UNCHANGED idle
        PROVE  PlaceInv'
    <3>1. PICK p \in Piece :
            /\ p \in ToSet(pending)
            /\ pending' \in Seq(Piece)
            /\ Len(pending) \in Nat /\ Len(pending') = Len(pending) - 1
            /\ Len(pending') \in Nat
            /\ ToSet(pending') \subseteq ToSet(pending)
            /\ ToSet(pending) \subseteq ToSet(pending') \cup {p}
            /\ IsInjective(pending) => IsInjective(pending') /\ p \notin ToSet(pending')
            /\ wst' = [wst EXCEPT ![w] = "busy"]
            /\ job' = [job EXCEPT ![w] = p]
      BY <2>2, SendJobEffect DEF IInv
    <3>2. w \notin Assigned /\ Downloading /\ pc' \in {"starting", "loop", "offering"}
      BY <1>7, <1>0 DEF StartWorker, Assigned, Downloading, ControlInv, RosterInv
    <3>3. /\ Assigned' = Assigned \cup {w} /\ Counted' = Counted
          /\ \A v \in Assigned' : job'[v] \in Piece /\ job'[v] \notin ToSet(pending')
          /\ \A u, v \in Assigned' : job'[u] = job'[v] => u = v
      BY <3>1, <3>2, PieceGiven, IInv DEF PlaceInv, IInv
    <3>4. active' = Cardinality(Assigned')
      BY <1>0, <2>2, <3>2, <3>3, CountingWorkers DEF PlaceInv
    <3>5. UNCHANGED <<completed, outcome, good, durable>>
      BY <1>7 DEF StartWorker
    <3> QED
      BY <1>0, <3>1, <3>2, <3>3, <3>4, <3>5 DEF PlaceInv, Downloading
  <2>3. ASSUME NoJobFor(w, held) /\ idle' = idle \cup {w} /\ UNCHANGED active
        PROVE  PlaceInv'
    <3>1. w \notin Assigned /\ Downloading /\ pc' \in {"starting", "loop", "offering"}
      BY <1>7, <1>0 DEF StartWorker, Assigned, Downloading, ControlInv, RosterInv
    <3>2. Assigned' = Assigned
      BY <1>0, <2>3, <3>1 DEF NoJobFor, TypeInv, Assigned
    <3>3. \A v \in Assigned : job'[v] = job[v]
      BY <1>0, <2>3, <3>1 DEF NoJobFor, TypeInv, Assigned
    <3>4. InFlight' = InFlight
      BY <3>2, <3>3 DEF InFlight
    <3>5. Counted' = Counted
      BY <2>3, <3>4 DEF NoJobFor, Counted
    <3>6. UNCHANGED <<completed, active, pending, outcome, good, durable>>
      BY <1>7, <2>3 DEF StartWorker, NoJobFor
    <3> QED
      BY <1>0, <3>1, <3>2, <3>3, <3>5, <3>6 DEF PlaceInv, Downloading
  <2> QED
    BY <2>1, <2>2, <2>3
<1>8. CASE RoundSucceeds
  BY <1>8, <1>0
     DEF RoundSucceeds, EnterLoop, EmitProgress, TypeInv, ControlInv, PlaceInv,
         Downloading, Assigned, Counted, InFlight
<1>9. CASE RoundIsBarren
  BY <1>9, <1>0
     DEF RoundIsBarren, RoundFailed, DropIdle, CloseWorkerList, EnterReconnect,
         TypeInv, ControlInv, PlaceInv, Downloading, Assigned, Counted, InFlight
<1>10. CASE AnnounceSucceeds
  BY <1>10, <1>0
     DEF AnnounceSucceeds, TypeInv, ControlInv, PlaceInv, Downloading, Assigned,
         Counted, InFlight
<1>11. CASE AnnounceFails
  BY <1>11, <1>0
     DEF AnnounceFails, TypeInv, ControlInv, PlaceInv, Downloading, Assigned, Counted,
         InFlight
<1>12. CASE ReconnectStopped
  BY <1>12, <1>0
     DEF ReconnectStopped, Return, StopSeen, TypeInv, ControlInv, PlaceInv,
         Downloading, Assigned, Counted, InFlight
<1>13. CASE GiveUpReconnecting
  BY <1>13, <1>0
     DEF GiveUpReconnecting, Return, TypeInv, ControlInv, PlaceInv, Downloading,
         Assigned, Counted, InFlight
<1>14. CASE WaitBeforeRetry
  BY <1>14, <1>0
     DEF WaitBeforeRetry, TypeInv, ControlInv, PlaceInv, Downloading, Assigned,
         Counted, InFlight
<1>15. CASE RetryAfterWait
  BY <1>15, <1>0
     DEF RetryAfterWait, TypeInv, ControlInv, PlaceInv, Downloading, Assigned,
         Counted, InFlight
<1>16. CASE LoseAllWorkers
  BY <1>16, <1>0
     DEF LoseAllWorkers, DropIdle, CloseWorkerList, EnterReconnect, TypeInv,
         ControlInv, PlaceInv, Downloading, Assigned, Counted, InFlight
<1>17. CASE SeeStop
  BY <1>17, <1>0
     DEF SeeStop, Return, StopSeen, TypeInv, ControlInv, PlaceInv, Downloading,
         Assigned, Counted, InFlight
<1>18. ASSUME NEW w \in Worker, ReceiveFailure(w)
      PROVE  PlaceInv'
  <2>0. /\ Downloading /\ pc = "loop" /\ wst[w] = "failed" /\ active > 0
        /\ w \in Assigned /\ job[w] \in Piece /\ job[w] \notin ToSet(pending)
        /\ w \in workers /\ w \notin closed /\ w \notin idle
    BY <1>18, ReporterHoldsPiece DEF ReceiveFailure
  <2>1. /\ Append(pending, job[w]) \in Seq(Piece)
        /\ Len(Append(pending, job[w])) = Len(pending) + 1
        /\ ToSet(Append(pending, job[w])) = ToSet(pending) \cup {job[w]}
        /\ IsInjective(pending) => IsInjective(Append(pending, job[w]))
    BY <1>0, <2>0, RequeueProperties DEF TypeInv
  <2>2. CASE GivesUpOn(job[w])
    <3>1. outcome' = "pieceFailed"
      BY <1>18, <2>2 DEF ReceiveFailure, Return
    <3> QED
      BY <3>1 DEF PlaceInv, Downloading
  <2>3. CASE ~GivesUpOn(job[w])
    <3>1. /\ pending' = Append(pending, job[w]) /\ active' = active - 1
          /\ wst' = [wst EXCEPT ![w] = "ready"] /\ job' = [job EXCEPT ![w] = NoJob]
          /\ UNCHANGED <<completed, good, durable, outcome>>
      BY <1>18, <2>3 DEF ReceiveFailure, Requeue
    <3>2. /\ Assigned' = Assigned \ {w}
          /\ \A v \in Assigned' : job'[v] = job[v]
          /\ \A u, v \in Assigned' : job'[u] = job'[v] => u = v
          /\ Counted' = Counted
      BY <2>0, <2>1, <3>1, PieceReleased
    <3>3. active' = Cardinality(Assigned')
      BY <1>0, <2>0, <3>1, <3>2, CountingWorkers DEF PlaceInv
    <3>4. \A v \in Assigned' : job'[v] \in Piece /\ job'[v] \notin ToSet(pending')
      BY <1>0, <2>0, <2>1, <3>1, <3>2 DEF PlaceInv
    <3>5. IsInjective(pending')
      BY <1>0, <2>0, <2>1, <3>1 DEF PlaceInv
    <3> QED
      BY <1>0, <2>0, <3>1, <3>2, <3>3, <3>4, <3>5 DEF PlaceInv, Downloading
  <2> QED
    BY <2>2, <2>3
<1>19. ASSUME NEW w \in Worker, ReceivePiece(w)
      PROVE  PlaceInv'
  <2>0. /\ Downloading /\ pc = "loop" /\ wst[w] = "gotPiece" /\ active > 0
        /\ w \in Assigned /\ job[w] \in Piece /\ job[w] \notin ToSet(pending)
        /\ w \in workers /\ w \notin closed /\ w \notin idle
    BY <1>19, ReporterHoldsPiece DEF ReceivePiece
  <2>1. PICK held \in SUBSET Piece :
          \/ SendJob(w, held) /\ UNCHANGED <<active, idle>>
          \/ NoJobFor(w, held) /\ active' = active - 1 /\ idle' = idle \cup {w}
    BY <1>19 DEF ReceivePiece, GiveJob
  <2>2. ASSUME SendJob(w, held) /\ UNCHANGED <<active, idle>>
        PROVE  PlaceInv'
    <3>1. PICK p \in Piece :
            /\ p \in ToSet(pending)
            /\ pending' \in Seq(Piece)
            /\ Len(pending) \in Nat /\ Len(pending') = Len(pending) - 1
            /\ Len(pending') \in Nat
            /\ ToSet(pending') \subseteq ToSet(pending)
            /\ ToSet(pending) \subseteq ToSet(pending') \cup {p}
            /\ IsInjective(pending) => IsInjective(pending') /\ p \notin ToSet(pending')
            /\ wst' = [wst EXCEPT ![w] = "busy"]
            /\ job' = [job EXCEPT ![w] = p]
      BY <2>2, SendJobEffect DEF IInv
    <3>2. /\ Assigned' = Assigned \cup {w}
          /\ \A v \in Assigned' : job'[v] \in Piece /\ job'[v] \notin ToSet(pending')
          /\ \A u, v \in Assigned' : job'[u] = job'[v] => u = v
          /\ Counted' = Counted \cup {job[w]}
      BY <1>0, <2>0, <3>1, PieceGiven DEF PlaceInv
    <3>3. Assigned' = Assigned /\ active' = active /\ Counted' = Counted \cup {job[w]}
      BY <2>0, <2>2, <3>2
    <3>4. active' = Cardinality(Assigned')
      BY <1>0, <2>0, <3>3 DEF PlaceInv
    <3>5. completed' = Cardinality(Counted') /\ Counted' \subseteq good'
      <4>1. job[w] \in Piece \ Counted
        BY <2>0 DEF Counted, InFlight
      <4>2. Cardinality(Counted \cup {job[w]}) = Cardinality(Counted) + 1
        BY <4>1, CountingPieces
      <4>3. completed' = completed + 1 /\ good' = good \cup {job[w]}
        BY <1>19 DEF ReceivePiece
      <4> QED
        BY <1>0, <2>0, <3>3, <4>2, <4>3 DEF PlaceInv
    <3>6. Downloading' /\ outcome' # "ok"
      BY <1>19, <2>0 DEF ReceivePiece, OfferIdle, Downloading
    <3> QED
      BY <1>0, <2>0, <3>1, <3>2, <3>4, <3>5, <3>6 DEF PlaceInv
  <2>3. ASSUME NoJobFor(w, held) /\ active' = active - 1 /\ idle' = idle \cup {w}
        PROVE  PlaceInv'
    <3>1. pending' = pending
      BY <2>3 DEF NoJobFor
    <3>2. /\ Assigned' = Assigned \ {w}
          /\ \A v \in Assigned' : job'[v] = job[v]
          /\ \A u, v \in Assigned' : job'[u] = job'[v] => u = v
          /\ Counted' = Counted \cup {job[w]}
      BY <2>0, <2>3, <3>1, PieceReleased DEF NoJobFor
    <3>3. active' = active - 1 /\ Counted' = Counted \cup {job[w]}
      BY <2>3, <3>2
    <3>4. active' = Cardinality(Assigned')
      BY <1>0, <2>0, <3>2, <3>3, CountingWorkers DEF PlaceInv
    <3>5. completed' = Cardinality(Counted') /\ Counted' \subseteq good'
      <4>1. job[w] \in Piece \ Counted
        BY <2>0 DEF Counted, InFlight
      <4>2. Cardinality(Counted \cup {job[w]}) = Cardinality(Counted) + 1
        BY <4>1, CountingPieces
      <4>3. completed' = completed + 1 /\ good' = good \cup {job[w]}
        BY <1>19 DEF ReceivePiece
      <4> QED
        BY <1>0, <2>0, <3>3, <4>2, <4>3 DEF PlaceInv
    <3>6. Downloading' /\ outcome' # "ok"
      BY <1>19, <2>0 DEF ReceivePiece, OfferIdle, Downloading
    <3> QED
      BY <1>0, <2>0, <3>1, <3>2, <3>4, <3>5, <3>6 DEF PlaceInv
  <2> QED
    BY <2>1, <2>2, <2>3
<1>20. ASSUME NEW w \in Worker, WritePieceFails(w)
      PROVE  PlaceInv'
  BY <1>20, <1>0
     DEF WritePieceFails, TakesResult, Return, TypeInv, ControlInv, PlaceInv,
         Downloading, Assigned, Counted, InFlight
<1>21. ASSUME NEW w \in Worker, OfferJob(w)
      PROVE  PlaceInv'
  <2>1. PICK held \in SUBSET Piece :
          \/ SendJob(w, held) /\ active' = active + 1 /\ idle' = idle \ {w}
          \/ NoJobFor(w, held) /\ UNCHANGED <<active, idle>>
    BY <1>21 DEF OfferJob, GiveJob
  <2>2. ASSUME SendJob(w, held) /\ active' = active + 1 /\ idle' = idle \ {w}
        PROVE  PlaceInv'
    <3>1. PICK p \in Piece :
            /\ p \in ToSet(pending)
            /\ pending' \in Seq(Piece)
            /\ Len(pending) \in Nat /\ Len(pending') = Len(pending) - 1
            /\ Len(pending') \in Nat
            /\ ToSet(pending') \subseteq ToSet(pending)
            /\ ToSet(pending) \subseteq ToSet(pending') \cup {p}
            /\ IsInjective(pending) => IsInjective(pending') /\ p \notin ToSet(pending')
            /\ wst' = [wst EXCEPT ![w] = "busy"]
            /\ job' = [job EXCEPT ![w] = p]
      BY <2>2, SendJobEffect DEF IInv
    <3>2. w \notin Assigned /\ Downloading /\ pc' \in {"starting", "loop", "offering"}
      BY <1>21, <1>0 DEF OfferJob, Assigned, Downloading, ControlInv, RosterInv
    <3>3. /\ Assigned' = Assigned \cup {w} /\ Counted' = Counted
          /\ \A v \in Assigned' : job'[v] \in Piece /\ job'[v] \notin ToSet(pending')
          /\ \A u, v \in Assigned' : job'[u] = job'[v] => u = v
      BY <3>1, <3>2, PieceGiven, IInv DEF PlaceInv, IInv
    <3>4. active' = Cardinality(Assigned')
      BY <1>0, <2>2, <3>2, <3>3, CountingWorkers DEF PlaceInv
    <3>5. UNCHANGED <<completed, outcome, good, durable>>
      BY <1>21 DEF OfferJob
    <3> QED
      BY <1>0, <3>1, <3>2, <3>3, <3>4, <3>5 DEF PlaceInv, Downloading
  <2>3. ASSUME NoJobFor(w, held) /\ UNCHANGED <<active, idle>>
        PROVE  PlaceInv'
    <3>1. w \notin Assigned /\ Downloading /\ pc' \in {"starting", "loop", "offering"}
      BY <1>21, <1>0 DEF OfferJob, Assigned, Downloading, ControlInv, RosterInv
    <3>2. Assigned' = Assigned
      BY <1>0, <2>3, <3>1 DEF NoJobFor, TypeInv, Assigned
    <3>3. \A v \in Assigned : job'[v] = job[v]
      BY <1>0, <2>3, <3>1 DEF NoJobFor, TypeInv, Assigned
    <3>4. InFlight' = InFlight
      BY <3>2, <3>3 DEF InFlight
    <3>5. Counted' = Counted
      BY <2>3, <3>4 DEF NoJobFor, Counted
    <3>6. UNCHANGED <<completed, active, pending, outcome, good, durable>>
      BY <1>21, <2>3 DEF OfferJob, NoJobFor
    <3> QED
      BY <1>0, <3>1, <3>2, <3>3, <3>5, <3>6 DEF PlaceInv, Downloading
  <2> QED
    BY <2>1, <2>2, <2>3
<1>22. CASE SyncSucceeds
  <2>1. /\ Downloading /\ completed = N
    BY <1>22, <1>0 DEF SyncSucceeds, Downloading, ControlInv
  <2>2. Counted \subseteq good /\ Cardinality(Counted) = N /\ good \subseteq Piece
    BY <1>0, <2>1 DEF PlaceInv, TypeInv
  <2>3. Counted = Piece
    <3>1. Counted \in SUBSET Piece
      BY DEF Counted
    <3> QED
      BY <2>2, <3>1, PieceFinite, FS_Subset
  <2>4. good' = Piece /\ durable' = Piece /\ outcome' = "ok"
    BY <1>22, <2>2, <2>3 DEF SyncSucceeds, Sync, Return
  <2> QED
    BY <2>4 DEF PlaceInv, Downloading
<1>23. CASE SyncFails
  BY <1>23, <1>0
     DEF SyncFails, Return, TypeInv, ControlInv, PlaceInv, Downloading, Assigned,
         Counted, InFlight
<1>24. CASE ReturnBeforeLoop
  BY <1>24, <1>0
     DEF ReturnBeforeLoop, ReleaseContext, TypeInv, ControlInv, PlaceInv, Downloading,
         Assigned, Counted, InFlight
<1>25. CASE ReturnFromLoop
  BY <1>25, <1>0
     DEF ReturnFromLoop, DeferredClose, CloseWorkerList, EmitProgress, ReleaseContext,
         TypeInv, ControlInv, PlaceInv, Downloading, Assigned, Counted, InFlight
<1>26. CASE CloseWorkersPanics
  BY <1>26, <1>0
     DEF CloseWorkersPanics, CloseWorkerList, EmitProgress, ReleaseContext, TypeInv,
         ControlInv, PlaceInv, Downloading, Assigned, Counted, InFlight
<1>27. ASSUME NEW w \in Worker, WorkerFinishes(w)
      PROVE  PlaceInv'
  <2>1. Assigned' = Assigned
    BY <1>27, <1>0 DEF WorkerFinishes, TypeInv, Assigned
  <2> QED
    BY <1>27, <1>0, <2>1, PlaceKept DEF WorkerFinishes, ControlInv
<1>28. ASSUME NEW w \in Worker, WorkerQuits(w)
      PROVE  PlaceInv'
  <2>1. Assigned' = Assigned
    BY <1>28, <1>0 DEF WorkerQuits, TypeInv, Assigned
  <2> QED
    BY <1>28, <1>0, <2>1, PlaceKept DEF WorkerQuits, ControlInv
<1>29. ASSUME NEW w \in Worker, WorkerEnds(w)
      PROVE  PlaceInv'
  <2>1. Assigned' = Assigned
    BY <1>29, <1>0 DEF WorkerEnds, TypeInv, Assigned
  <2> QED
    BY <1>29, <1>0, <2>1, PlaceKept DEF WorkerEnds, ControlInv
<1>30. CASE Stop
  BY <1>30, <1>0
     DEF Stop, TypeInv, ControlInv, PlaceInv, Downloading, Assigned, Counted, InFlight
<1>31. CASE Restart
  BY <1>31, <1>0
     DEF Restart, TypeInv, ControlInv, PlaceInv, Downloading, Assigned, Counted,
         InFlight
<1>32. CASE UNCHANGED vars
  BY <1>32, <1>0
     DEF TypeInv, ControlInv, PlaceInv, Downloading, Assigned, Counted, InFlight
<1> QED
  BY <1>1, <1>2, <1>3, <1>4, <1>5, <1>6, <1>7, <1>8, <1>9, <1>10, <1>11,
     <1>12, <1>13, <1>14, <1>15, <1>16, <1>17, <1>18, <1>19, <1>20, <1>21,
     <1>22, <1>23, <1>24, <1>25, <1>26, <1>27, <1>28, <1>29, <1>30, <1>31,
     <1>32 DEF Next, DownloadStep, WorkerStep, Environment

\* What is announced was counted, and only a download that goes on adds workers.
LEMMA ActiveMoves ==
    ASSUME IInv, [Next]_vars
    PROVE  ActiveMove
<1> USE DEF vars, mainVars, dataVars, queueVars, workerVars, connVars, worldVars
<1> USE DEF Downloading, EmitProgress, ActiveMove
<1>0. TypeInv /\ ControlInv
  BY DEF IInv
<1>1. CASE OpenFilesFails
  BY <1>1, <1>0 DEF OpenFilesFails, Return, TypeInv, ControlInv
<1>2. CASE InitializePendingPieces
  BY <1>2, <1>0 DEF InitializePendingPieces, EnterLoop, TypeInv, ControlInv
<1>3. CASE ConnectPeers
  BY <1>3, <1>0 DEF ConnectPeers, TypeInv, ControlInv
<1>4. ASSUME NEW w \in Worker, PeerConnects(w)
      PROVE  ActiveMove
  BY <1>4, <1>0 DEF PeerConnects, TypeInv, ControlInv
<1>5. CASE ConnectFails
  BY <1>5, <1>0
     DEF ConnectFails, RoundFailed, DropIdle, CloseWorkerList, EnterReconnect,
         TypeInv, ControlInv
<1>6. CASE ConnectSucceeds
  BY <1>6, <1>0 DEF ConnectSucceeds, TypeInv, ControlInv
<1>7. ASSUME NEW w \in Worker, StartWorker(w)
      PROVE  ActiveMove
  BY <1>7, <1>0 DEF StartWorker, GiveJob, NoJobFor, TypeInv, ControlInv
<1>8. CASE RoundSucceeds
  BY <1>8, <1>0 DEF RoundSucceeds, EnterLoop, EmitProgress, TypeInv, ControlInv
<1>9. CASE RoundIsBarren
  BY <1>9, <1>0
     DEF RoundIsBarren, RoundFailed, DropIdle, CloseWorkerList, EnterReconnect,
         TypeInv, ControlInv
<1>10. CASE AnnounceSucceeds
  BY <1>10, <1>0 DEF AnnounceSucceeds, TypeInv, ControlInv
<1>11. CASE AnnounceFails
  BY <1>11, <1>0 DEF AnnounceFails, TypeInv, ControlInv
<1>12. CASE ReconnectStopped
  BY <1>12, <1>0 DEF ReconnectStopped, Return, StopSeen, TypeInv, ControlInv
<1>13. CASE GiveUpReconnecting
  BY <1>13, <1>0 DEF GiveUpReconnecting, Return, TypeInv, ControlInv
<1>14. CASE WaitBeforeRetry
  BY <1>14, <1>0 DEF WaitBeforeRetry, TypeInv, ControlInv
<1>15. CASE RetryAfterWait
  BY <1>15, <1>0 DEF RetryAfterWait, TypeInv, ControlInv
<1>16. CASE LoseAllWorkers
  BY <1>16, <1>0
     DEF LoseAllWorkers, DropIdle, CloseWorkerList, EnterReconnect, TypeInv,
         ControlInv
<1>17. CASE SeeStop
  BY <1>17, <1>0 DEF SeeStop, Return, StopSeen, TypeInv, ControlInv
<1>18. ASSUME NEW w \in Worker, ReceiveFailure(w)
      PROVE  ActiveMove
  BY <1>18, <1>0
     DEF ReceiveFailure, TakesResult, RemoveWorker, CountFailure, GivesUpOn, Requeue,
         Return, OfferIdle, CloseWorkerList, TypeInv, ControlInv
<1>19. ASSUME NEW w \in Worker, ReceivePiece(w)
      PROVE  ActiveMove
  BY <1>19, <1>0
     DEF ReceivePiece, TakesResult, PieceProgress, EmitProgress, NoJobFor, OfferIdle,
         TypeInv, ControlInv
<1>20. ASSUME NEW w \in Worker, WritePieceFails(w)
      PROVE  ActiveMove
  BY <1>20, <1>0 DEF WritePieceFails, TakesResult, Return, TypeInv, ControlInv
<1>21. ASSUME NEW w \in Worker, OfferJob(w)
      PROVE  ActiveMove
  BY <1>21, <1>0 DEF OfferJob, GiveJob, NoJobFor, TypeInv, ControlInv
<1>22. CASE SyncSucceeds
  BY <1>22, <1>0 DEF SyncSucceeds, Sync, Return, TypeInv, ControlInv
<1>23. CASE SyncFails
  BY <1>23, <1>0 DEF SyncFails, Return, TypeInv, ControlInv
<1>24. CASE ReturnBeforeLoop
  BY <1>24, <1>0 DEF ReturnBeforeLoop, ReleaseContext, TypeInv, ControlInv
<1>25. CASE ReturnFromLoop
  BY <1>25, <1>0
     DEF ReturnFromLoop, DeferredClose, CloseWorkerList, EmitProgress, ReleaseContext,
         TypeInv, ControlInv
<1>26. CASE CloseWorkersPanics
  BY <1>26, <1>0
     DEF CloseWorkersPanics, CloseWorkerList, EmitProgress, ReleaseContext, TypeInv,
         ControlInv
<1>27. ASSUME NEW w \in Worker, WorkerFinishes(w)
      PROVE  ActiveMove
  BY <1>27, <1>0 DEF WorkerFinishes, TypeInv, ControlInv
<1>28. ASSUME NEW w \in Worker, WorkerQuits(w)
      PROVE  ActiveMove
  BY <1>28, <1>0 DEF WorkerQuits, TypeInv, ControlInv
<1>29. ASSUME NEW w \in Worker, WorkerEnds(w)
      PROVE  ActiveMove
  BY <1>29, <1>0 DEF WorkerEnds, TypeInv, ControlInv
<1>30. CASE Stop
  BY <1>30, <1>0 DEF Stop, TypeInv, ControlInv
<1>31. CASE Restart
  BY <1>31, <1>0 DEF Restart, TypeInv, ControlInv
<1>32. CASE UNCHANGED vars
  BY <1>32, <1>0 DEF TypeInv, ControlInv
<1> QED
  BY <1>1, <1>2, <1>3, <1>4, <1>5, <1>6, <1>7, <1>8, <1>9, <1>10, <1>11,
     <1>12, <1>13, <1>14, <1>15, <1>16, <1>17, <1>18, <1>19, <1>20, <1>21,
     <1>22, <1>23, <1>24, <1>25, <1>26, <1>27, <1>28, <1>29, <1>30, <1>31,
     <1>32 DEF Next, DownloadStep, WorkerStep, Environment

LEMMA BoundStep ==
    ASSUME IInv, [Next]_vars, TypeInv', PlaceInv'
    PROVE  BoundInv'
<1>1. /\ Cardinality(Worker) \in Nat
      /\ Cardinality(Assigned') <= Cardinality(Worker)
  <2>1. Assigned' \in SUBSET Worker
    BY DEF Assigned
  <2> QED
    BY <2>1, ConstantsAssumption, FS_Subset, FS_CardinalityType
<1>2. Downloading' => active' <= Cardinality(Worker)
  BY <1>1 DEF PlaceInv
<1>3. ActiveMove
  BY ActiveMoves
<1>4. /\ active \in Int /\ active <= Cardinality(Worker)
      /\ progress.active \in Int /\ progress.active <= Cardinality(Worker)
  BY DEF IInv, TypeInv, BoundInv
<1>5. active' <= Cardinality(Worker)
  <2>1. CASE active' <= active
    <3>1. active' \in Int
      BY DEF TypeInv
    <3> QED
      BY <1>1, <1>4, <2>1, <3>1
  <2>2. CASE active' = 0 \/ Downloading'
    BY <1>1, <1>2, <2>2
  <2> QED
    BY <1>3, <2>1, <2>2 DEF ActiveMove
<1>6. progress'.active <= Cardinality(Worker)
  BY <1>1, <1>3, <1>4 DEF ActiveMove
<1> QED
  BY <1>5, <1>6 DEF BoundInv

-----------------------------------------------------------------------------
(***************************************************************************)
(* The invariant holds.                                                    *)
(***************************************************************************)

LEMMA InitIInv == Init => IInv
<1> SUFFICES ASSUME Init
             PROVE  IInv
  OBVIOUS
<1>1. /\ N \in Nat /\ MaxPieceFailures \in Nat /\ MaxAttempts \in Nat \ {0}
      /\ MaxRuns \in Nat \ {0}
  BY ConstantsAssumption
<1>2. Len(<<>>) = 0 /\ <<>> \in Seq(Piece)
  BY EmptySeq
<1>3. Assigned = {} /\ ~Downloading
  BY DEF Init, Assigned, Downloading
<1>4. TypeInv
  <2>1. armed \in BOOLEAN /\ retrying \in BOOLEAN
    BY DEF Init
  <2>2. failures \in [Piece -> 0 .. MaxPieceFailures + 1]
    BY <1>1 DEF Init
  <2>3. progress \in [completed : Int, pending : Int, active : Int, total : {0, N}]
    BY DEF Init
  <2>4. attempt \in 0 .. MaxAttempts /\ runs \in 1 .. MaxRuns
    BY <1>1 DEF Init
  <2>5. /\ wst \in [Worker -> {"none"}] /\ job \in [Worker -> {NoJob}]
        /\ completed \in Int /\ active \in Int
        /\ good \in SUBSET Piece /\ durable \in SUBSET good
    BY DEF Init
  <2> QED
    BY <1>2, <1>3, <2>1, <2>2, <2>3, <2>4, <2>5 DEF Init, TypeInv
<1>5. ControlInv
  BY DEF Init, ControlInv, Reconnecting
<1>6. RosterInv
  BY <1>3 DEF Init, RosterInv, InRound
<1>7. LeakInv
  BY DEF Init, LeakInv, InRound, Reconnecting, ConnectionsReleased
<1>8. SumInv
  BY <1>1, <1>2, <1>3 DEF Init, SumInv, Accounted, ProgressAddsUp
<1>9. PlaceInv
  BY <1>3 DEF Init, PlaceInv
<1>10. BoundInv
  BY ConstantsAssumption, FS_CardinalityType DEF Init, BoundInv
<1> QED
  BY <1>4, <1>5, <1>6, <1>7, <1>8, <1>9, <1>10 DEF IInv

LEMMA IInvStep == IInv /\ [Next]_vars => IInv'
<1> SUFFICES ASSUME IInv, [Next]_vars
             PROVE  IInv'
  OBVIOUS
<1>1. TypeInv' /\ ControlInv' /\ RosterInv' /\ LeakInv' /\ SumInv' /\ PlaceInv'
  BY TypeStep, ControlStep, RosterStep, LeakStep, SumStep, PlaceStep
<1>2. BoundInv'
  BY <1>1, BoundStep
<1> QED
  BY <1>1, <1>2 DEF IInv

\* The inductive invariant holds in every state of every download, with any
\* number of workers, pieces, tolerated failures, attempts and runs.
THEOREM Invariant == Spec => []IInv
<1>1. Init => IInv
  BY InitIInv
<1>2. IInv /\ [Next]_vars => IInv'
  BY IInvStep
<1> QED
  BY <1>1, <1>2, PTL DEF Spec

-----------------------------------------------------------------------------
(***************************************************************************)
(* What follows from it.                                                   *)
(***************************************************************************)

\* Every variable of Download keeps its type: in particular the counters of
\* pieces stay within 0 .. N and activeWorkers never goes below zero.
THEOREM TypeCorrect == Spec => []TypeOK
<1>1. IInv => TypeOK
  <2> SUFFICES ASSUME IInv
               PROVE  TypeOK
    OBVIOUS
  <2>1. TypeInv /\ SumInv /\ BoundInv
    BY DEF IInv
  <2>2. completed \in 0 .. N /\ active \in 0 .. Cardinality(Worker)
    BY <2>1, ConstantsAssumption, FS_CardinalityType DEF TypeInv, SumInv, BoundInv
  <2>3. progress \in [completed : 0 .. N, pending : 0 .. N,
                      active : 0 .. Cardinality(Worker), total : {0, N}]
    <3>1. /\ progress \in [completed : Int, pending : Int, active : Int, total : {0, N}]
          /\ progress.completed >= 0 /\ progress.pending >= 0 /\ progress.active >= 0
          /\ progress.active <= Cardinality(Worker)
          /\ progress.completed + progress.pending + progress.active <= progress.total
      BY <2>1, ConstantsAssumption DEF TypeInv, SumInv, BoundInv, ProgressAddsUp
    <3>2. progress.completed <= N /\ progress.pending <= N
      BY <3>1, ConstantsAssumption
    <3> QED
      BY <3>1, <3>2, ConstantsAssumption, FS_CardinalityType
  <2> QED
    BY <2>1, <2>2, <2>3 DEF TypeInv, TypeOK
<1> QED
  BY <1>1, Invariant, PTL

\* Download never reports success for a torrent of which a piece is missing on
\* disk or not flushed.
THEOREM SuccessIsSound == Spec => []CompletionSound
<1>1. IInv => CompletionSound
  BY DEF IInv, PlaceInv, CompletionSound
<1> QED
  BY <1>1, Invariant, PTL

\* The counter that ends the loop counts exactly the pieces that are neither
\* queued nor with a worker, and all of those are verified on disk.
THEOREM CountIsSound == Spec => []CountedPiecesAreOnDisk
<1>1. IInv => CountedPiecesAreOnDisk
  BY DEF IInv, PlaceInv, CountedPiecesAreOnDisk
<1> QED
  BY <1>1, Invariant, PTL

\* A piece is queued once or with one worker, never both, never with two.
THEOREM OnePlace == Spec => []EveryPieceInOnePlace
<1>1. IInv => EveryPieceInOnePlace
  BY DEF IInv, PlaceInv, EveryPieceInOnePlace, InFlight
<1> QED
  BY <1>1, Invariant, PTL

\* activeWorkers is the number of workers that owe Download a result.
THEOREM ActiveCount == Spec => []ActiveIsExact
<1>1. IInv => ActiveIsExact
  BY DEF IInv, PlaceInv, ActiveIsExact
<1> QED
  BY <1>1, Invariant, PTL

\* No send on a Jobs channel blocks or panics, and outside the deferred clean-up
\* no channel is closed twice.
THEOREM ChannelsStayOpen == Spec => []ChannelsOpen
<1>1. IInv => ChannelsOpen
  <2> SUFFICES ASSUME IInv
               PROVE  ChannelsOpen
    OBVIOUS
  <2>1. TypeInv /\ ControlInv /\ RosterInv
    BY DEF IInv
  <2> QED
    BY <2>1 DEF TypeInv, ControlInv, RosterInv, ChannelsOpen, InRound
<1> QED
  BY <1>1, Invariant, PTL

\* No return of Download leaves a worker with an open channel and connection,
\* but for the clients of a dial round that a stop interrupts before the loop.
THEOREM NoConnectionLeaks == Spec => []ConnectionsReleased
<1>1. IInv => ConnectionsReleased
  BY DEF IInv, LeakInv
<1> QED
  BY <1>1, Invariant, PTL

\* Completed, pending and active add up to the total in every Progress, except
\* in the last one of a download that gives up on a piece.
THEOREM ProgressIsExact == Spec => []ProgressAddsUp
<1>1. IInv => ProgressAddsUp
  BY DEF IInv, SumInv
<1> QED
  BY <1>1, Invariant, PTL

\* The only return whose deferred clean-up can close a closed channel is the one
\* out of reconnectWithBackoff.
THEOREM PanicsOnlyInReconnect == Spec => []PanicOnlyInReconnect
<1>1. IInv => PanicOnlyInReconnect
  BY DEF IInv, ControlInv, PanicOnlyInReconnect
<1> QED
  BY <1>1, Invariant, PTL

-----------------------------------------------------------------------------
(***************************************************************************)
(* Pieces are only added.                                                  *)
(***************************************************************************)

\* A piece that is counted stays counted.
LEMMA CountedStep ==
    ASSUME IInv, [Next]_vars
    PROVE  CountedStays
<1> USE DEF vars, mainVars, dataVars, queueVars, workerVars, connVars, worldVars
<1>0. TypeInv /\ ControlInv /\ PlaceInv
  BY DEF IInv
<1>1. CASE OpenFilesFails
  BY <1>1, <1>0
     DEF OpenFilesFails, Return, CountedStays, Downloading, Counted, InFlight,
         Assigned
<1>2. CASE InitializePendingPieces
  BY <1>2 DEF InitializePendingPieces, CountedStays, Downloading
<1>3. CASE ConnectPeers
  BY <1>3, <1>0
     DEF ConnectPeers, CountedStays, Downloading, Counted, InFlight, Assigned
<1>4. ASSUME NEW w \in Worker, PeerConnects(w)
      PROVE  CountedStays
  <2>1. Assigned' = Assigned
    BY <1>4, <1>0 DEF PeerConnects, TypeInv, Assigned
  <2> QED
    BY <1>4, <2>1 DEF PeerConnects, Counted, InFlight, CountedStays
<1>5. CASE ConnectFails
  BY <1>5, <1>0
     DEF ConnectFails, RoundFailed, DropIdle, CloseWorkerList, EnterReconnect,
         CountedStays, Downloading, Counted, InFlight, Assigned
<1>6. CASE ConnectSucceeds
  BY <1>6, <1>0
     DEF ConnectSucceeds, CountedStays, Downloading, Counted, InFlight, Assigned
<1>7. ASSUME NEW w \in Worker, StartWorker(w)
      PROVE  CountedStays
  <2>1. PICK held \in SUBSET Piece :
          \/ SendJob(w, held) /\ active' = active + 1 /\ UNCHANGED idle
          \/ NoJobFor(w, held) /\ idle' = idle \cup {w} /\ UNCHANGED active
    BY <1>7 DEF StartWorker, GiveJob
  <2>2. ASSUME SendJob(w, held) /\ active' = active + 1 /\ UNCHANGED idle
        PROVE  CountedStays
    <3>1. PICK p \in Piece :
            /\ p \in ToSet(pending)
            /\ pending' \in Seq(Piece)
            /\ Len(pending) \in Nat /\ Len(pending') = Len(pending) - 1
            /\ Len(pending') \in Nat
            /\ ToSet(pending') \subseteq ToSet(pending)
            /\ ToSet(pending) \subseteq ToSet(pending') \cup {p}
            /\ IsInjective(pending) => IsInjective(pending') /\ p \notin ToSet(pending')
            /\ wst' = [wst EXCEPT ![w] = "busy"]
            /\ job' = [job EXCEPT ![w] = p]
      BY <2>2, SendJobEffect DEF IInv
    <3>2. CASE Downloading
      BY <1>0, <3>1, <3>2, PieceGiven DEF PlaceInv, CountedStays
    <3> QED
      BY <3>2 DEF CountedStays
  <2>3. ASSUME NoJobFor(w, held) /\ idle' = idle \cup {w} /\ UNCHANGED active
        PROVE  CountedStays
    <3>1. CASE Downloading
      BY <2>3, <3>1, PieceReleased DEF NoJobFor, CountedStays
    <3> QED
      BY <3>1 DEF CountedStays
  <2> QED
    BY <2>1, <2>2, <2>3
<1>8. CASE RoundSucceeds
  BY <1>8, <1>0
     DEF RoundSucceeds, EnterLoop, EmitProgress, CountedStays, Downloading, Counted,
         InFlight, Assigned
<1>9. CASE RoundIsBarren
  BY <1>9, <1>0
     DEF RoundIsBarren, RoundFailed, DropIdle, CloseWorkerList, EnterReconnect,
         CountedStays, Downloading, Counted, InFlight, Assigned
<1>10. CASE AnnounceSucceeds
  BY <1>10, <1>0
     DEF AnnounceSucceeds, CountedStays, Downloading, Counted, InFlight, Assigned
<1>11. CASE AnnounceFails
  BY <1>11, <1>0
     DEF AnnounceFails, CountedStays, Downloading, Counted, InFlight, Assigned
<1>12. CASE ReconnectStopped
  BY <1>12, <1>0
     DEF ReconnectStopped, Return, StopSeen, CountedStays, Downloading, Counted,
         InFlight, Assigned
<1>13. CASE GiveUpReconnecting
  BY <1>13, <1>0
     DEF GiveUpReconnecting, Return, CountedStays, Downloading, Counted, InFlight,
         Assigned
<1>14. CASE WaitBeforeRetry
  BY <1>14, <1>0
     DEF WaitBeforeRetry, CountedStays, Downloading, Counted, InFlight, Assigned
<1>15. CASE RetryAfterWait
  BY <1>15, <1>0
     DEF RetryAfterWait, CountedStays, Downloading, Counted, InFlight, Assigned
<1>16. CASE LoseAllWorkers
  BY <1>16, <1>0
     DEF LoseAllWorkers, DropIdle, CloseWorkerList, EnterReconnect, CountedStays,
         Downloading, Counted, InFlight, Assigned
<1>17. CASE SeeStop
  BY <1>17, <1>0
     DEF SeeStop, Return, StopSeen, CountedStays, Downloading, Counted, InFlight,
         Assigned
<1>18. ASSUME NEW w \in Worker, ReceiveFailure(w)
      PROVE  CountedStays
  <2>0. /\ Downloading /\ pc = "loop" /\ wst[w] = "failed" /\ active > 0
        /\ w \in Assigned /\ job[w] \in Piece /\ job[w] \notin ToSet(pending)
        /\ w \in workers /\ w \notin closed /\ w \notin idle
    BY <1>18, ReporterHoldsPiece DEF ReceiveFailure
  <2>1. /\ Append(pending, job[w]) \in Seq(Piece)
        /\ Len(Append(pending, job[w])) = Len(pending) + 1
        /\ ToSet(Append(pending, job[w])) = ToSet(pending) \cup {job[w]}
        /\ IsInjective(pending) => IsInjective(Append(pending, job[w]))
    BY <1>0, <2>0, RequeueProperties DEF TypeInv
  <2>2. CASE GivesUpOn(job[w])
    BY <1>18, <2>2 DEF ReceiveFailure, Return, CountedStays, Downloading
  <2>3. CASE ~GivesUpOn(job[w])
    <3>1. /\ pending' = Append(pending, job[w])
          /\ wst' = [wst EXCEPT ![w] = "ready"] /\ job' = [job EXCEPT ![w] = NoJob]
      BY <1>18, <2>3 DEF ReceiveFailure, Requeue
    <3> QED
      BY <2>0, <2>1, <3>1, PieceReleased DEF CountedStays
  <2> QED
    BY <2>2, <2>3
<1>19. ASSUME NEW w \in Worker, ReceivePiece(w)
      PROVE  CountedStays
  <2>1. PICK held \in SUBSET Piece :
          \/ SendJob(w, held) /\ UNCHANGED <<active, idle>>
          \/ NoJobFor(w, held) /\ active' = active - 1 /\ idle' = idle \cup {w}
    BY <1>19 DEF ReceivePiece, GiveJob
  <2>2. ASSUME SendJob(w, held) /\ UNCHANGED <<active, idle>>
        PROVE  CountedStays
    <3>1. PICK p \in Piece :
            /\ p \in ToSet(pending)
            /\ pending' \in Seq(Piece)
            /\ Len(pending) \in Nat /\ Len(pending') = Len(pending) - 1
            /\ Len(pending') \in Nat
            /\ ToSet(pending') \subseteq ToSet(pending)
            /\ ToSet(pending) \subseteq ToSet(pending') \cup {p}
            /\ IsInjective(pending) => IsInjective(pending') /\ p \notin ToSet(pending')
            /\ wst' = [wst EXCEPT ![w] = "busy"]
            /\ job' = [job EXCEPT ![w] = p]
      BY <2>2, SendJobEffect DEF IInv
    <3>2. CASE Downloading
      BY <1>0, <3>1, <3>2, PieceGiven DEF PlaceInv, CountedStays
    <3> QED
      BY <3>2 DEF CountedStays
  <2>3. ASSUME NoJobFor(w, held) /\ active' = active - 1 /\ idle' = idle \cup {w}
        PROVE  CountedStays
    <3>1. CASE Downloading
      BY <2>3, <3>1, PieceReleased DEF NoJobFor, CountedStays
    <3> QED
      BY <3>1 DEF CountedStays
  <2> QED
    BY <2>1, <2>2, <2>3
<1>20. ASSUME NEW w \in Worker, WritePieceFails(w)
      PROVE  CountedStays
  BY <1>20 DEF WritePieceFails, Return, CountedStays, Downloading
<1>21. ASSUME NEW w \in Worker, OfferJob(w)
      PROVE  CountedStays
  <2>1. PICK held \in SUBSET Piece :
          \/ SendJob(w, held) /\ active' = active + 1 /\ idle' = idle \ {w}
          \/ NoJobFor(w, held) /\ UNCHANGED <<active, idle>>
    BY <1>21 DEF OfferJob, GiveJob
  <2>2. ASSUME SendJob(w, held) /\ active' = active + 1 /\ idle' = idle \ {w}
        PROVE  CountedStays
    <3>1. PICK p \in Piece :
            /\ p \in ToSet(pending)
            /\ pending' \in Seq(Piece)
            /\ Len(pending) \in Nat /\ Len(pending') = Len(pending) - 1
            /\ Len(pending') \in Nat
            /\ ToSet(pending') \subseteq ToSet(pending)
            /\ ToSet(pending) \subseteq ToSet(pending') \cup {p}
            /\ IsInjective(pending) => IsInjective(pending') /\ p \notin ToSet(pending')
            /\ wst' = [wst EXCEPT ![w] = "busy"]
            /\ job' = [job EXCEPT ![w] = p]
      BY <2>2, SendJobEffect DEF IInv
    <3>2. CASE Downloading
      BY <1>0, <3>1, <3>2, PieceGiven DEF PlaceInv, CountedStays
    <3> QED
      BY <3>2 DEF CountedStays
  <2>3. ASSUME NoJobFor(w, held) /\ UNCHANGED <<active, idle>>
        PROVE  CountedStays
    <3>1. CASE Downloading
      BY <2>3, <3>1, PieceReleased DEF NoJobFor, CountedStays
    <3> QED
      BY <3>1 DEF CountedStays
  <2> QED
    BY <2>1, <2>2, <2>3
<1>22. CASE SyncSucceeds
  BY <1>22, <1>0
     DEF SyncSucceeds, Sync, Return, CountedStays, Downloading, Counted, InFlight,
         Assigned
<1>23. CASE SyncFails
  BY <1>23, <1>0
     DEF SyncFails, Return, CountedStays, Downloading, Counted, InFlight, Assigned
<1>24. CASE ReturnBeforeLoop
  BY <1>24, <1>0
     DEF ReturnBeforeLoop, ReleaseContext, CountedStays, Downloading, Counted,
         InFlight, Assigned
<1>25. CASE ReturnFromLoop
  BY <1>25, <1>0
     DEF ReturnFromLoop, DeferredClose, CloseWorkerList, EmitProgress, ReleaseContext,
         CountedStays, Downloading, Counted, InFlight, Assigned
<1>26. CASE CloseWorkersPanics
  BY <1>26, <1>0
     DEF CloseWorkersPanics, CloseWorkerList, EmitProgress, ReleaseContext,
         CountedStays, Downloading, Counted, InFlight, Assigned
<1>27. ASSUME NEW w \in Worker, WorkerFinishes(w)
      PROVE  CountedStays
  <2>1. Assigned' = Assigned
    BY <1>27, <1>0 DEF WorkerFinishes, TypeInv, Assigned
  <2> QED
    BY <1>27, <2>1 DEF WorkerFinishes, Counted, InFlight, CountedStays
<1>28. ASSUME NEW w \in Worker, WorkerQuits(w)
      PROVE  CountedStays
  <2>1. Assigned' = Assigned
    BY <1>28, <1>0 DEF WorkerQuits, TypeInv, Assigned
  <2> QED
    BY <1>28, <2>1 DEF WorkerQuits, Counted, InFlight, CountedStays
<1>29. ASSUME NEW w \in Worker, WorkerEnds(w)
      PROVE  CountedStays
  <2>1. Assigned' = Assigned
    BY <1>29, <1>0 DEF WorkerEnds, TypeInv, Assigned
  <2> QED
    BY <1>29, <2>1 DEF WorkerEnds, Counted, InFlight, CountedStays
<1>30. CASE Stop
  BY <1>30, <1>0 DEF Stop, CountedStays, Downloading, Counted, InFlight, Assigned
<1>31. CASE Restart
  BY <1>31 DEF Restart, CountedStays, Downloading
<1>32. CASE UNCHANGED vars
  BY <1>32, <1>0 DEF CountedStays, Downloading, Counted, InFlight, Assigned
<1> QED
  BY <1>1, <1>2, <1>3, <1>4, <1>5, <1>6, <1>7, <1>8, <1>9, <1>10, <1>11,
     <1>12, <1>13, <1>14, <1>15, <1>16, <1>17, <1>18, <1>19, <1>20, <1>21,
     <1>22, <1>23, <1>24, <1>25, <1>26, <1>27, <1>28, <1>29, <1>30, <1>31,
     <1>32 DEF Next, DownloadStep, WorkerStep, Environment

\* Within one run a piece that is counted is never queued or handed out again.
THEOREM FetchedOnce == Spec => NothingIsFetchedTwice
<1>1. IInv /\ [Next]_vars =>
        [Downloading /\ Downloading' => Counted \subseteq Counted']_vars
  BY CountedStep DEF CountedStays
<1> QED
  BY <1>1, Invariant, PTL DEF Spec, NothingIsFetchedTwice

-----------------------------------------------------------------------------
(***************************************************************************)
(* Downloader implements DownloadContract.                                 *)
(***************************************************************************)

\* Every step is a step of the contract or leaves its variables alone.
LEMMA ContractStep ==
    ASSUME IInv, [Next]_vars
    PROVE  ContractMove
<1> USE DEF vars, mainVars, dataVars, queueVars, workerVars, connVars, worldVars
<1> USE DEF Contract!vars, Contract!Next, Status, ContractMove
<1>0. TypeInv /\ ControlInv /\ RosterInv
  BY DEF IInv
<1>1. CASE OpenFilesFails
  BY <1>1, <1>0 DEF OpenFilesFails, Return, TypeInv, ControlInv, Contract!Fail
<1>2. CASE InitializePendingPieces
  BY <1>2, <1>0
     DEF InitializePendingPieces, EnterLoop, EmitProgress, FoundOnDisk, TypeInv,
         ControlInv, Contract!Fail
<1>3. CASE ConnectPeers
  BY <1>3, <1>0 DEF ConnectPeers, TypeInv, ControlInv, Contract!Fail
<1>4. ASSUME NEW w \in Worker, PeerConnects(w)
      PROVE  ContractMove
  BY <1>4, <1>0 DEF PeerConnects, TypeInv, ControlInv, Contract!Fail
<1>5. CASE ConnectFails
  BY <1>5, <1>0
     DEF ConnectFails, RoundFailed, DropIdle, CloseWorkerList, EnterReconnect,
         TypeInv, ControlInv, Contract!Fail
<1>6. CASE ConnectSucceeds
  BY <1>6, <1>0 DEF ConnectSucceeds, TypeInv, ControlInv, Contract!Fail
<1>7. ASSUME NEW w \in Worker, StartWorker(w)
      PROVE  ContractMove
  BY <1>7, <1>0 DEF StartWorker, GiveJob, NoJobFor, TypeInv, ControlInv, Contract!Fail
<1>8. CASE RoundSucceeds
  BY <1>8, <1>0
     DEF RoundSucceeds, EnterLoop, EmitProgress, TypeInv, ControlInv, Contract!Fail
<1>9. CASE RoundIsBarren
  BY <1>9, <1>0
     DEF RoundIsBarren, RoundFailed, DropIdle, CloseWorkerList, EnterReconnect,
         TypeInv, ControlInv, Contract!Fail
<1>10. CASE AnnounceSucceeds
  BY <1>10, <1>0 DEF AnnounceSucceeds, TypeInv, ControlInv, Contract!Fail
<1>11. CASE AnnounceFails
  BY <1>11, <1>0 DEF AnnounceFails, TypeInv, ControlInv, Contract!Fail
<1>12. CASE ReconnectStopped
  BY <1>12, <1>0
     DEF ReconnectStopped, Return, StopSeen, TypeInv, ControlInv, Contract!Fail
<1>13. CASE GiveUpReconnecting
  BY <1>13, <1>0 DEF GiveUpReconnecting, Return, TypeInv, ControlInv, Contract!Fail
<1>14. CASE WaitBeforeRetry
  BY <1>14, <1>0 DEF WaitBeforeRetry, TypeInv, ControlInv, Contract!Fail
<1>15. CASE RetryAfterWait
  BY <1>15, <1>0 DEF RetryAfterWait, TypeInv, ControlInv, Contract!Fail
<1>16. CASE LoseAllWorkers
  BY <1>16, <1>0
     DEF LoseAllWorkers, DropIdle, CloseWorkerList, EnterReconnect, TypeInv,
         ControlInv, Contract!Fail
<1>17. CASE SeeStop
  BY <1>17, <1>0 DEF SeeStop, Return, StopSeen, TypeInv, ControlInv, Contract!Fail
<1>18. ASSUME NEW w \in Worker, ReceiveFailure(w)
      PROVE  ContractMove
  BY <1>18, <1>0
     DEF ReceiveFailure, TakesResult, RemoveWorker, CountFailure, GivesUpOn, Requeue,
         Return, OfferIdle, CloseWorkerList, TypeInv, ControlInv, Contract!Fail
<1>19. ASSUME NEW w \in Worker, ReceivePiece(w)
      PROVE  ContractMove
  <2>0. /\ Downloading /\ pc = "loop" /\ wst[w] = "gotPiece" /\ active > 0
        /\ w \in Assigned /\ job[w] \in Piece /\ job[w] \notin ToSet(pending)
        /\ w \in workers /\ w \notin closed /\ w \notin idle
    BY <1>19, ReporterHoldsPiece DEF ReceivePiece
  <2>1. Contract!Fetch(job[w])
    BY <1>19, <2>0 DEF ReceivePiece, Contract!Fetch, Downloading
  <2>2. job[w] \in Contract!Piece
    BY <2>0 DEF Piece, Contract!Piece
  <2> QED
    BY <2>1, <2>2
<1>20. ASSUME NEW w \in Worker, WritePieceFails(w)
      PROVE  ContractMove
  BY <1>20, <1>0
     DEF WritePieceFails, TakesResult, Return, TypeInv, ControlInv, Contract!Fail
<1>21. ASSUME NEW w \in Worker, OfferJob(w)
      PROVE  ContractMove
  BY <1>21, <1>0 DEF OfferJob, GiveJob, NoJobFor, TypeInv, ControlInv, Contract!Fail
<1>22. CASE SyncSucceeds
  <2>1. PlaceInv'
    BY <1>22, PlaceStep
  <2>2. good' = Piece /\ durable' = Piece /\ UNCHANGED good /\ outcome' = "ok"
    BY <1>22, <2>1 DEF SyncSucceeds, Return, PlaceInv
  <2>3. outcome = "running"
    BY <1>22, <1>0 DEF SyncSucceeds, ControlInv
  <2>4. Contract!Complete
    BY <2>2, <2>3 DEF Contract!Complete, Piece, Contract!Piece
  <2> QED
    BY <2>4
<1>23. CASE SyncFails
  BY <1>23, <1>0 DEF SyncFails, Return, TypeInv, ControlInv, Contract!Fail
<1>24. CASE ReturnBeforeLoop
  BY <1>24, <1>0
     DEF ReturnBeforeLoop, ReleaseContext, TypeInv, ControlInv, Contract!Fail
<1>25. CASE ReturnFromLoop
  BY <1>25, <1>0
     DEF ReturnFromLoop, DeferredClose, CloseWorkerList, EmitProgress, ReleaseContext,
         TypeInv, ControlInv, Contract!Fail
<1>26. CASE CloseWorkersPanics
  BY <1>26, <1>0 DEF CloseWorkersPanics, ControlInv, RosterInv
<1>27. ASSUME NEW w \in Worker, WorkerFinishes(w)
      PROVE  ContractMove
  BY <1>27, <1>0 DEF WorkerFinishes, TypeInv, ControlInv, Contract!Fail
<1>28. ASSUME NEW w \in Worker, WorkerQuits(w)
      PROVE  ContractMove
  BY <1>28, <1>0 DEF WorkerQuits, TypeInv, ControlInv, Contract!Fail
<1>29. ASSUME NEW w \in Worker, WorkerEnds(w)
      PROVE  ContractMove
  BY <1>29, <1>0 DEF WorkerEnds, TypeInv, ControlInv, Contract!Fail
<1>30. CASE Stop
  BY <1>30, <1>0 DEF Stop, TypeInv, ControlInv, Contract!Fail
<1>31. CASE Restart
  <2>1. Contract!Restart
    BY <1>31, <1>0 DEF Restart, TypeInv, Contract!Restart
  <2> QED
    BY <2>1
<1>32. CASE UNCHANGED vars
  BY <1>32, <1>0 DEF TypeInv, ControlInv, Contract!Fail
<1> QED
  BY <1>1, <1>2, <1>3, <1>4, <1>5, <1>6, <1>7, <1>8, <1>9, <1>10, <1>11,
     <1>12, <1>13, <1>14, <1>15, <1>16, <1>17, <1>18, <1>19, <1>20, <1>21,
     <1>22, <1>23, <1>24, <1>25, <1>26, <1>27, <1>28, <1>29, <1>30, <1>31,
     <1>32 DEF Next, DownloadStep, WorkerStep, Environment

\* Every behaviour of the downloader is one that the contract allows.
THEOREM ContractHolds == Spec => ImplementsContract
<1>1. Init => Contract!Init
  BY DEF Init, Contract!Init, Status, Piece, Contract!Piece
<1>2. IInv /\ [Next]_vars => [Contract!Next]_Contract!vars
  BY ContractStep DEF ContractMove
<1> QED
  BY <1>1, <1>2, Invariant, PTL DEF Spec, ImplementsContract, Contract!Spec
-----------------------------------------------------------------------------
(***************************************************************************)
(* Download does not wait for a worker that is gone.                       *)
(***************************************************************************)

\* A worker drops a result only when it has seen a stop.
QuitAfterStop == \A w \in Worker : wst[w] = "quit" => ctx # "live"

\* downloader.go, the select of Download: while it waits for a result without a stop,
\* a worker in d.Workers with an open channel is fetching a piece or has its result.
WaitsForAWorker ==
    pc = "loop" /\ completed < N /\ active > 0 =>
        StopSeen \/ \E w \in workers \ closed : wst[w] \in {"busy", "gotPiece", "failed"}

\* Only Restart makes the context live again, and only WorkerQuits drops a result.
LEMMA QuitStep ==
    ASSUME IInv, QuitAfterStop, [Next]_vars
    PROVE  QuitAfterStop'
<1> USE DEF QuitAfterStop, workerVars, worldVars
<1>0. wst \in [Worker -> {"none", "connected", "ready", "busy", "gotPiece", "failed", "quit"}]
  BY DEF IInv, TypeInv
<1>1. ASSUME UNCHANGED <<wst, ctx>>
      PROVE  QuitAfterStop'
  BY <1>1
<1>2. ASSUME NEW w \in Worker, NEW st, st # "quit", wst' = [wst EXCEPT ![w] = st], ctx' = ctx
      PROVE  QuitAfterStop'
  BY <1>0, <1>2
<1>3. CASE \/ OpenFilesFails \/ InitializePendingPieces \/ ConnectPeers \/ ConnectFails
           \/ ConnectSucceeds \/ RoundSucceeds \/ RoundIsBarren \/ AnnounceSucceeds
           \/ AnnounceFails \/ ReconnectStopped \/ GiveUpReconnecting \/ WaitBeforeRetry
           \/ RetryAfterWait \/ LoseAllWorkers \/ SeeStop \/ SyncSucceeds \/ SyncFails
           \/ UNCHANGED vars
  <2>1. UNCHANGED <<wst, ctx>>
    BY <1>3
    DEF OpenFilesFails, InitializePendingPieces, ConnectPeers, ConnectFails, ConnectSucceeds,
        RoundSucceeds, RoundIsBarren, AnnounceSucceeds, AnnounceFails, ReconnectStopped,
        GiveUpReconnecting, WaitBeforeRetry, RetryAfterWait, LoseAllWorkers, SeeStop,
        SyncSucceeds, SyncFails, vars, dataVars
  <2> QED
    BY <1>1, <2>1
<1>4. ASSUME NEW w \in Worker, StartWorker(w) \/ ReceivePiece(w) \/ OfferJob(w)
      PROVE  QuitAfterStop'
  <2>1. ctx' = ctx /\ \E held \in SUBSET Piece : SendJob(w, held) \/ NoJobFor(w, held)
    BY <1>4 DEF StartWorker, ReceivePiece, OfferJob, GiveJob
  <2>2. wst' = [wst EXCEPT ![w] = "busy"] \/ wst' = [wst EXCEPT ![w] = "ready"]
    BY <2>1 DEF SendJob, NoJobFor
  <2> QED
    BY <1>2, <2>1, <2>2
<1>5. ASSUME NEW w \in Worker,
             \/ PeerConnects(w) \/ ReceiveFailure(w) \/ WritePieceFails(w)
             \/ WorkerFinishes(w) \/ WorkerEnds(w)
      PROVE  QuitAfterStop'
  <2>1. /\ ctx' = ctx
        /\ \E st \in {"none", "connected", "ready", "gotPiece", "failed"} :
              wst' = [wst EXCEPT ![w] = st]
    BY <1>5 DEF PeerConnects, ReceiveFailure, WritePieceFails, WorkerFinishes, WorkerEnds
  <2> QED
    BY <1>2, <2>1
<1>6. ASSUME NEW w \in Worker, WorkerQuits(w)
      PROVE  QuitAfterStop'
  BY <1>0, <1>6 DEF WorkerQuits
<1>7. CASE ReturnBeforeLoop \/ ReturnFromLoop \/ CloseWorkersPanics \/ Stop
  <2>1. wst' = wst /\ ctx' # "live"
    BY <1>7 DEF ReturnBeforeLoop, ReturnFromLoop, CloseWorkersPanics, ReleaseContext, Stop
  <2> QED
    BY <2>1
<1>8. CASE Restart
  BY <1>8 DEF Restart
<1> QED
  BY <1>3, <1>4, <1>5, <1>6, <1>7, <1>8 DEF Next, DownloadStep, WorkerStep, Environment

\* The wait for a result can end, by GetPiece or by the stop.
THEOREM WaitCanEnd == Spec => []WaitsForAWorker
<1>1. Init => QuitAfterStop
  BY DEF Init, QuitAfterStop
<1>2. IInv /\ QuitAfterStop /\ [Next]_vars => QuitAfterStop'
  BY QuitStep
<1>3. ASSUME IInv, QuitAfterStop, pc = "loop", active > 0, ~StopSeen
      PROVE  \E w \in workers \ closed : wst[w] \in {"busy", "gotPiece", "failed"}
  <2>1. outcome = "running" /\ Downloading
    BY <1>3 DEF IInv, ControlInv, Downloading
  <2>2. Assigned # {}
    <3>1. active = Cardinality(Assigned)
      BY <1>3, <2>1 DEF IInv, PlaceInv
    <3> QED
      BY <1>3, <3>1, FS_EmptySet
  <2>3. PICK w \in Assigned : TRUE
    BY <2>2
  <2>4. w \in workers \ closed
    BY <1>3, <2>1, <2>3 DEF IInv, RosterInv
  <2>5. wst[w] \in {"busy", "gotPiece", "failed"}
    BY <1>3, <2>3 DEF Assigned, QuitAfterStop, StopSeen
  <2> QED
    BY <2>4, <2>5
<1>4. IInv /\ QuitAfterStop => WaitsForAWorker
  BY <1>3 DEF WaitsForAWorker
<1> QED
  BY <1>1, <1>2, <1>4, Invariant, PTL DEF Spec
=============================================================================
