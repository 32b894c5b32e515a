----------------------- MODULE TrackerAnnounceProofs -----------------------
(***************************************************************************)
(* Proofs about TrackerAnnounce, for any trackers, datagrams, delays and   *)
(* number of retries.                                                      *)
(***************************************************************************)
EXTENDS TrackerAnnounce, NatFacts

-----------------------------------------------------------------------------
(***************************************************************************)
(* The list of Trackers(), for every announce-list.                        *)
(***************************************************************************)

\* The urls of r before the i-th.
Before(r, i) == {r[h] : h \in 1 .. i - 1}

\* r[i] is of tier k, and what the tiers before have was put before it.
InTurn(r, i, tiers, k) ==
    /\ Contains(tiers[k], r[i])
    /\ \A j \in 1 .. k - 1 : ToSet(tiers[j]) \subseteq Before(r, i) \cup {NoUrl}

\* r has trackers of the first n tiers, each once and in turn.
Listed(r, tiers, n) ==
    /\ r \in Seq(Url)
    /\ \A i \in 1 .. Len(r) : r[i] \notin Before(r, i)
    /\ \A i \in 1 .. Len(r) : \E k \in 1 .. n : InTurn(r, i, tiers, k)

\* r has all trackers of the first n tiers.
Complete(r, tiers, n) == \A k \in 1 .. n : ToSet(tiers[k]) \subseteq ToSet(r) \cup {NoUrl}

\* An url that is added comes last, unless it is there.
LEMMA AddUrlFacts ==
    ASSUME NEW r \in Seq(Url), NEW u \in Url \cup {NoUrl}
    PROVE  /\ AddUrl(r, u) \in Seq(Url)
           /\ ToSet(r) \cup {u} \subseteq ToSet(AddUrl(r, u)) \cup {NoUrl}
           /\ ToSet(r) \subseteq ToSet(AddUrl(r, u))
           /\ \A i \in 1 .. Len(AddUrl(r, u)) :
                \/ i \in 1 .. Len(r) /\ AddUrl(r, u)[i] = r[i] /\ Before(AddUrl(r, u), i) = Before(r, i)
                \/ AddUrl(r, u)[i] = u /\ u \notin ToSet(r) /\ Before(AddUrl(r, u), i) = ToSet(r) /\ u # NoUrl
<1> DEFINE s == AddUrl(r, u)
<1>0. /\ ToSet(r) = {r[i] : i \in 1 .. Len(r)} /\ Len(r) \in Nat
      /\ Contains(r, u) <=> u \in ToSet(r)
  BY DEF ToSet, Contains
<1>1. CASE u = NoUrl \/ Contains(r, u)
  BY <1>0, <1>1 DEF AddUrl
<1>2. CASE u # NoUrl /\ ~Contains(r, u)
  <2>1. s = Append(r, u)
    BY <1>2 DEF AddUrl
  <2> HIDE DEF s
  <2>2. s \in Seq(Url) /\ Len(s) = Len(r) + 1 /\ s[Len(r) + 1] = u
    BY <1>2, <2>1
  <2>3. \A i \in 1 .. Len(r) : s[i] = r[i]
    BY <2>1
  <2>4. ToSet(s) = {s[i] : i \in 1 .. Len(s)}
    BY <2>2 DEF ToSet
  <2>5. ToSet(r) \cup {u} \subseteq ToSet(s)
    BY <1>0, <2>2, <2>3, <2>4
  <2>6. \A i \in 1 .. Len(r) + 1 : Before(s, i) = Before(r, i)
    BY <1>0, <2>3 DEF Before
  <2>7. Before(r, Len(r) + 1) = ToSet(r)
    BY <1>0 DEF Before
  <2>8. ASSUME NEW i \in 1 .. Len(s)
        PROVE  \/ i \in 1 .. Len(r) /\ s[i] = r[i] /\ Before(s, i) = Before(r, i)
               \/ s[i] = u /\ u \notin ToSet(r) /\ Before(s, i) = ToSet(r) /\ u # NoUrl
    <3>1. i \in 1 .. Len(r) \/ i = Len(r) + 1
      BY <1>0, <2>2
    <3> QED
      BY <3>1, <1>0, <1>2, <2>2, <2>3, <2>6, <2>7
  <2> QED
    BY <2>2, <2>5, <2>8 DEF s
<1> QED
  BY <1>1, <1>2

\* One more url of tier k.
LEMMA AddUrlKeepsTurns ==
    ASSUME NEW tiers, NEW k \in Nat \ {0}, NEW r, Listed(r, tiers, k),
           Complete(r, tiers, k - 1),
           NEW u \in Url \cup {NoUrl}, Contains(tiers[k], u)
    PROVE  Listed(AddUrl(r, u), tiers, k) /\ Complete(AddUrl(r, u), tiers, k - 1)
<1> DEFINE s == AddUrl(r, u)
<1>1. /\ r \in Seq(Url) /\ s \in Seq(Url) /\ ToSet(r) \subseteq ToSet(s)
      /\ \A i \in 1 .. Len(s) :
           \/ i \in 1 .. Len(r) /\ s[i] = r[i] /\ Before(s, i) = Before(r, i)
           \/ s[i] = u /\ u \notin ToSet(r) /\ Before(s, i) = ToSet(r) /\ u # NoUrl
  BY AddUrlFacts DEF Listed
<1> HIDE DEF s
<1>2. Complete(s, tiers, k - 1)
  BY <1>1 DEF Complete
<1>3. ASSUME NEW i \in 1 .. Len(s)
      PROVE  s[i] \notin Before(s, i) /\ \E j \in 1 .. k : InTurn(s, i, tiers, j)
  <2>1. CASE i \in 1 .. Len(r) /\ s[i] = r[i] /\ Before(s, i) = Before(r, i)
    BY <2>1 DEF Listed, InTurn
  <2>2. CASE s[i] = u /\ u \notin ToSet(r) /\ Before(s, i) = ToSet(r)
    <3>1. InTurn(s, i, tiers, k)
      BY <2>2 DEF InTurn, Complete
    <3> QED
      BY <2>2, <3>1
  <2> QED
    BY <1>1, <2>1, <2>2
<1> QED
  BY <1>1, <1>2, <1>3 DEF Listed, s

\* A tier is added url by url.
LEMMA AddTierRuns ==
    ASSUME NEW r \in Seq(Url), NEW tier \in Seq(Url \cup {NoUrl})
    PROVE  \E f :
             /\ \A i \in 0 .. Len(tier) : f[i] \in Seq(Url)
             /\ f[0] = r /\ f[Len(tier)] = AddTier(r, tier)
             /\ \A i \in 1 .. Len(tier) : f[i] = AddUrl(f[i - 1], tier[i])
<1> DEFINE n == Len(tier)
           Adds(f) == f = [i \in 0 .. n |-> IF i = 0 THEN r ELSE AddUrl(f[i - 1], tier[i])]
           added == CHOOSE f : Adds(f)
           step == [x \in (1 .. n) \X Seq(Url) |-> AddUrl(x[2], tier[x[1]])]
<1>1. AddTier(r, tier) = added[n]
  BY DEF AddTier
<1>2. n \in Nat /\ \A i \in 1 .. n : tier[i] \in Url \cup {NoUrl}
  OBVIOUS
<1> HIDE DEF n
<1>3. step \in Steps(n, Seq(Url))
  <2>1. \A x \in (1 .. n) \X Seq(Url) : AddUrl(x[2], tier[x[1]]) \in Seq(Url)
    BY <1>2, AddUrlFacts
  <2> QED
    BY <2>1 DEF Steps
<1>4. PICK f : Solution(f, n, Seq(Url), r, step)
  <2> HIDE DEF step
  <2> QED
    BY <1>2, <1>3, RecursionExists
<1>5. f \in [0 .. n -> Seq(Url)] /\ f[0] = r
  BY <1>4 DEF Solution
<1>6. ASSUME NEW i \in 1 .. n
      PROVE  f[i] = AddUrl(f[i - 1], tier[i])
  <2>1. i - 1 \in 0 .. n
    BY <1>2
  <2>2. <<i, f[i - 1]>> \in (1 .. n) \X Seq(Url)
    BY <1>5, <2>1
  <2>3. step[<<i, f[i - 1]>>] = AddUrl(f[i - 1], tier[i])
    BY <2>2
  <2> QED
    BY <1>4, <2>3 DEF Solution
<1>7. Adds(f)
  <2> HIDE DEF step
  <2> QED
    BY <1>2, <1>5, <1>6
<1>8. Adds(added)
  BY <1>7
<1> HIDE DEF added, step
<1>9. \A i \in 0 .. n : added[i] = IF i = 0 THEN r ELSE AddUrl(added[i - 1], tier[i])
  BY <1>8
<1> DEFINE S == {i \in Nat : i <= n => added[i] \in Seq(Url)}
<1>10. 0 \in S
  BY <1>2, <1>9
<1>11. ASSUME NEW i \in Nat, i \in S
       PROVE  i + 1 \in S
  <2> SUFFICES ASSUME i + 1 <= n
               PROVE  added[i + 1] \in Seq(Url)
    OBVIOUS
  <2>1. i + 1 \in 1 .. n /\ added[i + 1] = AddUrl(added[i], tier[i + 1])
    BY <1>2, <1>9
  <2> QED
    BY <1>2, <1>11, <2>1, AddUrlFacts
<1> HIDE DEF S
<1>12. Nat \subseteq S
  BY <1>10, <1>11, SetInduction
<1>13. \A i \in 0 .. n : added[i] \in Seq(Url)
  BY <1>12 DEF S
<1>14. added[0] = r /\ \A i \in 1 .. n : added[i] = AddUrl(added[i - 1], tier[i])
  BY <1>2, <1>9
<1> QED
  BY <1>1, <1>13, <1>14 DEF n

\* A tier leaves a list in turn, and complete with the tier.
LEMMA AddTierFacts ==
    ASSUME NEW tiers \in Seq(Seq(Url \cup {NoUrl})), NEW k \in 1 .. Len(tiers),
           NEW r, Listed(r, tiers, k - 1), Complete(r, tiers, k - 1)
    PROVE  /\ Listed(AddTier(r, tiers[k]), tiers, k)
           /\ Complete(AddTier(r, tiers[k]), tiers, k)
<1> DEFINE tier == tiers[k]
           n == Len(tier)
<1>1. /\ tier \in Seq(Url \cup {NoUrl}) /\ n \in Nat
      /\ k \in Nat \ {0} /\ r \in Seq(Url)
  BY DEF Listed
<1>2. /\ ToSet(tier) = {tier[i] : i \in 1 .. n}
      /\ \A i \in 1 .. n : tier[i] \in Url \cup {NoUrl} /\ Contains(tier, tier[i])
  BY <1>1 DEF ToSet, Contains
<1> HIDE DEF tier
<1>3. PICK added :
        /\ \A i \in 0 .. Len(tier) : added[i] \in Seq(Url)
        /\ added[0] = r /\ added[Len(tier)] = AddTier(r, tier)
        /\ \A i \in 1 .. Len(tier) : added[i] = AddUrl(added[i - 1], tier[i])
  BY <1>1, AddTierRuns
<1>0. /\ added[0] = r /\ added[n] = AddTier(r, tier)
      /\ \A i \in 1 .. n : added[i] = AddUrl(added[i - 1], tier[i])
  BY <1>3
<1> HIDE DEF n
<1> DEFINE S == {i \in Nat : i <= n =>
                    /\ Listed(added[i], tiers, k) /\ Complete(added[i], tiers, k - 1)
                    /\ \A j \in 1 .. i : tier[j] \in ToSet(added[i]) \cup {NoUrl}}
<1>4. 0 \in S
  <2>1. Listed(r, tiers, k)
    BY <1>1 DEF Listed
  <2> QED
    BY <1>0, <2>1
<1>5. ASSUME NEW i \in Nat, i \in S
      PROVE  i + 1 \in S
  <2> SUFFICES ASSUME i + 1 <= n
               PROVE  /\ Listed(added[i + 1], tiers, k) /\ Complete(added[i + 1], tiers, k - 1)
                      /\ \A j \in 1 .. i + 1 : tier[j] \in ToSet(added[i + 1]) \cup {NoUrl}
    OBVIOUS
  <2>1. /\ Listed(added[i], tiers, k) /\ Complete(added[i], tiers, k - 1)
        /\ \A j \in 1 .. i : tier[j] \in ToSet(added[i]) \cup {NoUrl}
    BY <1>1, <1>5
  <2>2. i + 1 \in 1 .. n /\ added[i + 1] = AddUrl(added[i], tier[i + 1])
    BY <1>0, <1>1
  <2>3. tier[i + 1] \in Url \cup {NoUrl} /\ Contains(tiers[k], tier[i + 1])
    BY <1>2, <2>2 DEF tier
  <2>4. Listed(added[i + 1], tiers, k) /\ Complete(added[i + 1], tiers, k - 1)
    BY <1>1, <2>1, <2>2, <2>3, AddUrlKeepsTurns
  <2>5. ToSet(added[i]) \cup {tier[i + 1]} \subseteq ToSet(added[i + 1]) \cup {NoUrl}
    BY <2>1, <2>2, <2>3, AddUrlFacts DEF Listed
  <2>6. \A j \in 1 .. i + 1 : j \in 1 .. i \/ j = i + 1
    OBVIOUS
  <2> QED
    BY <2>1, <2>4, <2>5, <2>6
<1> HIDE DEF S
<1>6. Nat \subseteq S
  BY <1>4, <1>5, SetInduction
<1>7. /\ Listed(added[n], tiers, k) /\ Complete(added[n], tiers, k - 1)
      /\ \A j \in 1 .. n : tier[j] \in ToSet(added[n]) \cup {NoUrl}
  BY <1>1, <1>6 DEF S
<1>8. Complete(added[n], tiers, k)
  <2>1. ToSet(tiers[k]) \subseteq ToSet(added[n]) \cup {NoUrl}
    BY <1>2, <1>7 DEF tier
  <2>2. \A j \in 1 .. k : j \in 1 .. k - 1 \/ j = k
    OBVIOUS
  <2> QED
    BY <1>7, <2>1, <2>2 DEF Complete
<1> QED
  BY <1>0, <1>7, <1>8 DEF tier

\* The tiers are added one after the other, and leave a list of all of them in turn.
LEMMA AddTiersFacts ==
    ASSUME NEW tiers \in Seq(Seq(Url \cup {NoUrl}))
    PROVE  Listed(AddTiers(tiers), tiers, Len(tiers)) /\ Complete(AddTiers(tiers), tiers, Len(tiers))
<1> DEFINE n == Len(tiers)
           Adds(f) == f = [k \in 0 .. n |-> IF k = 0 THEN <<>> ELSE AddTier(f[k - 1], tiers[k])]
           added == CHOOSE f : Adds(f)
           step == [x \in (1 .. n) \X Seq(Url) |-> AddTier(x[2], tiers[x[1]])]
<1>1. AddTiers(tiers) = added[n]
  BY DEF AddTiers
<1>2. /\ n \in Nat /\ \A k \in 1 .. n : k \in 1 .. Len(tiers)
      /\ \A k \in 1 .. n : tiers[k] \in Seq(Url \cup {NoUrl})
  OBVIOUS
<1> HIDE DEF n
<1>3. step \in Steps(n, Seq(Url))
  <2>1. ASSUME NEW k \in 1 .. n, NEW r \in Seq(Url)
        PROVE  AddTier(r, tiers[k]) \in Seq(Url)
    <3>1. PICK f : /\ \A i \in 0 .. Len(tiers[k]) : f[i] \in Seq(Url)
                   /\ f[Len(tiers[k])] = AddTier(r, tiers[k])
      BY <1>2, AddTierRuns
    <3>2. Len(tiers[k]) \in 0 .. Len(tiers[k])
      BY <1>2
    <3> QED
      BY <3>1, <3>2
  <2> QED
    BY <2>1 DEF Steps
<1>4. PICK f : Solution(f, n, Seq(Url), <<>>, step)
  <2>1. <<>> \in Seq(Url)
    OBVIOUS
  <2> HIDE DEF step
  <2> QED
    BY <1>2, <1>3, <2>1, RecursionExists
<1>5. f \in [0 .. n -> Seq(Url)] /\ f[0] = <<>>
  BY <1>4 DEF Solution
<1>6. ASSUME NEW k \in 1 .. n
      PROVE  f[k] = AddTier(f[k - 1], tiers[k])
  <2>1. k - 1 \in 0 .. n
    BY <1>2
  <2>2. <<k, f[k - 1]>> \in (1 .. n) \X Seq(Url)
    BY <1>5, <2>1
  <2>3. step[<<k, f[k - 1]>>] = AddTier(f[k - 1], tiers[k])
    BY <2>2
  <2> QED
    BY <1>4, <2>3 DEF Solution
<1>7. Adds(f)
  <2> HIDE DEF step
  <2> QED
    BY <1>2, <1>5, <1>6
<1>8. Adds(added)
  BY <1>7
<1> HIDE DEF added, step
<1>9. \A k \in 0 .. n : added[k] = IF k = 0 THEN <<>> ELSE AddTier(added[k - 1], tiers[k])
  BY <1>8
<1> DEFINE S == {k \in Nat : k <= n => Listed(added[k], tiers, k) /\ Complete(added[k], tiers, k)}
<1>10. 0 \in S
  <2>1. added[0] = <<>>
    BY <1>2, <1>9
  <2> QED
    <3>1. <<>> \in Seq(Url) /\ Len(<<>>) = 0 /\ 1 .. 0 = {}
      OBVIOUS
    <3> QED
      BY <2>1, <3>1 DEF Listed, Complete
<1>11. ASSUME NEW k \in Nat, k \in S
       PROVE  k + 1 \in S
  <2> SUFFICES ASSUME k + 1 <= n
               PROVE  Listed(added[k + 1], tiers, k + 1) /\ Complete(added[k + 1], tiers, k + 1)
    OBVIOUS
  <2>1. Listed(added[k], tiers, k) /\ Complete(added[k], tiers, k)
    BY <1>2, <1>11
  <2>2. k + 1 \in 1 .. Len(tiers) /\ added[k + 1] = AddTier(added[k], tiers[k + 1])
    BY <1>2, <1>9
  <2>3. (k + 1) - 1 = k
    OBVIOUS
  <2> QED
    BY <2>1, <2>2, <2>3, AddTierFacts
<1> HIDE DEF S
<1>12. Nat \subseteq S
  BY <1>10, <1>11, SetInduction
<1> QED
  BY <1>1, <1>2, <1>12 DEF S, n

\* What Trackers promises.
LEMMA TrackersFacts ==
    ASSUME NEW t \in Torrents, NEW i \in 1 .. Len(Trackers(t))
    PROVE  LET r == Trackers(t)
               tiers == t.announceList
           IN  /\ r \in Seq(Url) /\ r[i] \notin Before(r, i)
               /\ \/ \E k \in DOMAIN tiers : InTurn(r, i, tiers, k)
                  \/ /\ r[i] = t.announce
                     /\ \A k \in DOMAIN tiers : ToSet(tiers[k]) \subseteq Before(r, i) \cup {NoUrl}
<1> DEFINE tiers == t.announceList
           n == Len(tiers)
           s == AddTiers(tiers)
           r == Trackers(t)
<1>1. tiers \in Seq(Seq(Url \cup {NoUrl})) /\ t.announce \in Url \cup {NoUrl}
  BY ConstantsAssumption
<1>2. n \in Nat /\ DOMAIN tiers = 1 .. n
  BY <1>1
<1>3. Listed(s, tiers, n) /\ Complete(s, tiers, n)
  <2> HIDE DEF tiers
  <2> QED
    BY <1>1, AddTiersFacts
<1>4. r = AddUrl(s, t.announce)
  BY DEF Trackers
<1> HIDE DEF r, s, n
<1>5. /\ s \in Seq(Url) /\ r \in Seq(Url)
      /\ \/ i \in 1 .. Len(s) /\ r[i] = s[i] /\ Before(r, i) = Before(s, i)
         \/ r[i] = t.announce /\ t.announce \notin ToSet(s) /\ Before(r, i) = ToSet(s)
  <2>1. s \in Seq(Url) /\ i \in 1 .. Len(r)
    BY <1>3 DEF Listed, r
  <2> DEFINE u == t.announce
             q == AddUrl(s, u)
  <2>2. /\ q \in Seq(Url)
        /\ \A h \in 1 .. Len(q) :
             \/ h \in 1 .. Len(s) /\ q[h] = s[h] /\ Before(q, h) = Before(s, h)
             \/ q[h] = u /\ u \notin ToSet(s) /\ Before(q, h) = ToSet(s) /\ u # NoUrl
    <3> HIDE DEF u, q
    <3>1. u \in Url \cup {NoUrl}
      BY <1>1 DEF u
    <3> QED
      BY <2>1, <3>1, AddUrlFacts DEF q
  <2>3. q = r
    BY <1>4
  <2> HIDE DEF q
  <2> QED
    BY <2>1, <2>2, <2>3
<1>6. CASE i \in 1 .. Len(s) /\ r[i] = s[i] /\ Before(r, i) = Before(s, i)
  BY <1>2, <1>3, <1>5, <1>6 DEF Listed, InTurn, r
<1>7. CASE r[i] = t.announce /\ t.announce \notin ToSet(s) /\ Before(r, i) = ToSet(s)
  BY <1>2, <1>3, <1>5, <1>7 DEF Complete, r
<1> QED
  BY <1>5, <1>6, <1>7

\* They are urls.
LEMMA TrackersAreUrls == \A t \in Torrents : Trackers(t) \in Seq(Url)
<1> SUFFICES ASSUME NEW t \in Torrents
             PROVE  Trackers(t) \in Seq(Url)
  OBVIOUS
<1>1. t.announceList \in Seq(Seq(Url \cup {NoUrl})) /\ t.announce \in Url \cup {NoUrl}
  BY ConstantsAssumption
<1>2. AddTiers(t.announceList) \in Seq(Url)
  BY <1>1, AddTiersFacts DEF Listed
<1> QED
  BY <1>1, <1>2, AddUrlFacts DEF Trackers

-----------------------------------------------------------------------------
(***************************************************************************)
(* Datagrams and registrations.                                            *)
(***************************************************************************)

\* The types that the arguments below use.
NetInv ==
    /\ net \in [Datagram -> Nat]
    /\ attempt \in Nat /\ copies \in Nat
    /\ excuse \in BOOLEAN
    /\ phase \in {"connect", "announce"}
    /\ pc \in {"write", "read"} => attempt <= UdpMaxRetries
    /\ pc \in {"next", "http", "dial"} => phase = "connect"

\* A peer list under way, and one that was taken, was registered before.
HeardInv ==
    /\ \A d \in Replies("announce", "announce") : net[d] > 0 => url \in heard
    /\ result = "ok" => pc = "returned" /\ url \in heard

\* How many connect requests were written; without copies there are no more replies.
Written == IF pc = "read" THEN attempt + 1 ELSE attempt

\* There are never more late connect replies than attempts left to read them.
LateInv ==
    copies = 0 =>
        /\ phase = "connect" /\ pc # "trackerFailed" => net[ConnectReply] <= Written
        /\ phase = "announce" /\ ~excuse /\ (pc = "trackerFailed" => ctx = "live") =>
               /\ net[ConnectReply] + attempt <= UdpMaxRetries
               /\ pc # "trackerFailed"

IInv == NetInv /\ HeardInv /\ LateInv

-----------------------------------------------------------------------------
\* What the datagrams are.
LEMMA ConnectReplyFacts ==
    /\ ConnectReply \in Datagram
    /\ Received(ConnectReply) = 16
    /\ ConnectReply \notin Replies("announce", "announce")
    /\ ConnectReply \notin Replies("announce", "foreign")
    /\ ConnectReply \notin Errors("announce")
<1>1. ConnectReply \in Replies("connect", "connect")
  BY DEF ConnectReply, Replies
<1>2. ConnectReply \in Datagram
  BY <1>1 DEF Datagram
<1>3. Header("connect") = 16
  BY DEF Header
<1>4. RecvBufferSize \in Nat /\ RecvBufferSize >= 532
  BY ConstantsAssumption DEF RecvBufferSize
<1>5. Received(ConnectReply) = 16
  BY <1>3, <1>4 DEF Received, ConnectReply
<1>6. ConnectReply \notin Replies("announce", "announce")
        \cup Replies("announce", "foreign") \cup Errors("announce")
  BY DEF ConnectReply, Replies, Errors
<1> QED
  BY <1>2, <1>5, <1>6

\* Every answer is a datagram, and no answer to an announce is a connect reply.
LEMMA AnswerFacts ==
    ASSUME NEW u, NEW ph \in {"connect", "announce"}, NEW d \in Answers(u, ph)
    PROVE  d \in Datagram /\ (ph = "announce" => d # ConnectReply)
<1>1. d \in Replies(ph, ph) \cup Replies(ph, "foreign") \cup Errors(ph)
  BY DEF Answers
<1> QED
  BY <1>1, ConnectReplyFacts DEF Datagram

\* The peer lists among the datagrams are those with these two fields.
LEMMA PeerLists ==
    /\ Replies("announce", "announce") \subseteq Datagram
    /\ \A d \in Datagram :
         d.tx = "announce" /\ d.action = "announce" => d \in Replies("announce", "announce")
<1>1. Replies("announce", "announce") \subseteq Datagram
  BY DEF Datagram
<1>2. ASSUME NEW d \in Datagram, d.tx = "announce", d.action = "announce"
      PROVE  d \in Replies("announce", "announce")
  <2>1. PICK ph \in {"connect", "announce"} :
          d \in Replies(ph, ph) \/ d \in Replies(ph, "foreign") \/ d \in Errors(ph)
    BY DEF Datagram
  <2> QED
    BY <2>1, <1>2 DEF Replies, Errors
<1> QED
  BY <1>1, <1>2

\* The invariant of a step that moves no datagram and counts no attempt.
LEMMA SocketUntouched ==
    ASSUME IInv, UNCHANGED <<torrent, at, phase, attempt, net, copies, excuse>>,
           heard \subseteq heard',
           pc' = "read" <=> pc = "read",
           pc' = "write" => pc = "write" \/ attempt <= UdpMaxRetries,
           pc = "trackerFailed" => pc' = "trackerFailed",
           pc' \in {"next", "http", "dial"} => pc \in {"next", "http", "dial"},
           result' = "ok" => pc' = "returned" /\ url \in heard',
           pc' = "trackerFailed" =>
               \/ phase = "connect" \/ ctx' # "live" \/ excuse \/ copies # 0
               \/ pc = "trackerFailed",
           ctx' = "live" => ctx = "live"
    PROVE  IInv'
<1>1. NetInv'
  BY DEF IInv, NetInv
<1>2. HeardInv'
  <2>1. url' = url
    BY DEF url, urls
  <2> QED
    BY <2>1 DEF IInv, HeardInv
<1>3. LateInv'
  BY DEF IInv, NetInv, LateInv, Written
<1> QED
  BY <1>1, <1>2, <1>3 DEF IInv

\* A datagram that is read leaves the others, and one fewer of its own.
LEMMA OneRead ==
    ASSUME IInv, NEW d \in Datagram, Read(d)
    PROVE  /\ net' \in [Datagram -> Nat]
           /\ \A e \in Datagram : net'[e] > 0 => net[e] > 0
           /\ net'[ConnectReply] <= net[ConnectReply]
           /\ d = ConnectReply => net'[ConnectReply] = net[ConnectReply] - 1
<1>1. net \in [Datagram -> Nat] /\ net[d] > 0 /\ net' = [net EXCEPT ![d] = @ - 1]
  BY DEF IInv, NetInv, Read
<1>2. \A e \in Datagram : net'[e] = IF e = d THEN net[d] - 1 ELSE net[e]
  BY <1>1
<1>3. \A e \in Datagram : net[e] \in Nat
  BY <1>1
<1>4. net' \in [Datagram -> Nat]
  BY <1>1, <1>3
<1> QED
  BY <1>2, <1>3, <1>4, ConnectReplyFacts

-----------------------------------------------------------------------------
LEMMA InitInv == Init => IInv
<1> SUFFICES ASSUME Init PROVE IInv
  OBVIOUS
<1>1. NoDatagrams \in [Datagram -> Nat] /\ \A d \in Datagram : NoDatagrams[d] = 0
  BY DEF NoDatagrams
<1>2. NetInv
  BY <1>1 DEF Init, NetInv
<1>3. HeardInv
  BY <1>1, PeerLists DEF Init, HeardInv
<1>4. LateInv
  BY <1>1, ConnectReplyFacts DEF Init, LateInv, Written
<1> QED
  BY <1>2, <1>3, <1>4 DEF IInv

\* The steps of the loop, of HTTP and of the dial.
LEMMA LoopSteps ==
    ASSUME IInv,
           \/ NoTrackers \/ SeeDone \/ AllFailed \/ AskTracker
           \/ HttpAnswers \/ HttpFails \/ Dial \/ DialFails
    PROVE  IInv'
<1>1. CASE NoTrackers \/ SeeDone \/ AllFailed
  BY <1>1, SocketUntouched DEF NoTrackers, SeeDone, AllFailed, Return, callVars
<1>2. CASE AskTracker
  <2>1. pc' \in {"http", "dial", "trackerFailed"}
    BY <1>2, Zenon DEF AskTracker
  <2> QED
    BY <1>2, <2>1, SocketUntouched
    DEF AskTracker, callVars, socketVars, returnVars, IInv, NetInv, HeardInv
<1>3. CASE HttpAnswers
  <2>1. PICK load \in PeerLoads : ReturnPeers(load)
    BY <1>3 DEF HttpAnswers
  <2> QED
    BY <1>3, <2>1, SocketUntouched DEF HttpAnswers, ReturnPeers, Return, callVars
<1>4. CASE HttpFails
  BY <1>4, SocketUntouched
  DEF HttpFails, callVars, socketVars, returnVars, IInv, NetInv, HeardInv
<1>5. CASE Dial
  BY <1>5, SocketUntouched
  DEF Dial, callVars, socketVars, returnVars, IInv, NetInv, HeardInv
<1>6. CASE DialFails
  BY <1>6, SocketUntouched
  DEF DialFails, callVars, socketVars, returnVars, IInv, NetInv, HeardInv
<1> QED
  BY <1>1, <1>2, <1>3, <1>4, <1>5, <1>6

\* The context ends, and with it the socket.
LEMMA ContextSteps ==
    ASSUME IInv, Expire \/ Cancel \/ CloseSocket
    PROVE  IInv'
<1>1. CASE Expire
  BY <1>1, SocketUntouched
  DEF Expire, callVars, socketVars, returnVars, IInv, NetInv, HeardInv
<1>2. CASE Cancel
  BY <1>2, SocketUntouched
  DEF Cancel, callVars, socketVars, returnVars, IInv, NetInv, HeardInv
<1>3. CASE CloseSocket
  BY <1>3, SocketUntouched
  DEF CloseSocket, callVars, returnVars, IInv, NetInv, HeardInv
<1> QED
  BY <1>1, <1>2, <1>3

\* A new tracker is asked on a new socket.
LEMMA NextTrackerStep ==
    ASSUME IInv, NextTracker
    PROVE  IInv'
<1>1. net' = NoDatagrams /\ NoDatagrams \in [Datagram -> Nat]
        /\ \A d \in Datagram : NoDatagrams[d] = 0
  BY DEF NextTracker, NoDatagrams
<1>2. NetInv'
  BY <1>1 DEF NextTracker, IInv, NetInv
<1>3. HeardInv'
  BY <1>1, PeerLists DEF NextTracker, IInv, HeardInv, returnVars
<1>4. LateInv'
  BY <1>1, ConnectReplyFacts DEF NextTracker, LateInv, Written
<1> QED
  BY <1>2, <1>3, <1>4 DEF IInv

-----------------------------------------------------------------------------
\* The end of a round trip, and a write that fails.
LEMMA RoundTripSteps ==
    ASSUME IInv, StartAttempt \/ RoundTripEnds \/ WriteFails
    PROVE  IInv'
<1>0. CASE StartAttempt
  BY <1>0, SocketUntouched
  DEF StartAttempt, MoreAttempts, callVars, socketVars, returnVars, IInv, HeardInv
<1>1. CASE RoundTripEnds
  <2>1. phase = "connect" \/ ctx # "live" \/ excuse \/ copies # 0
    <3> SUFFICES ASSUME phase = "announce", ctx = "live", ~excuse, copies = 0
                 PROVE  FALSE
      BY DEF IInv, NetInv
    <3>1. attempt \in Nat /\ attempt > UdpMaxRetries
      BY <1>1, ConstantsAssumption DEF RoundTripEnds, MoreAttempts, IInv, NetInv
    <3>2. net[ConnectReply] \in Nat
      BY ConnectReplyFacts DEF IInv, NetInv
    <3>3. net[ConnectReply] + attempt <= UdpMaxRetries
      BY <1>1 DEF RoundTripEnds, IInv, LateInv
    <3> QED
      BY <3>1, <3>2, <3>3, ConstantsAssumption
  <2>2. UNCHANGED <<torrent, at, phase, attempt, net, copies, excuse, heard, result, ctx>>
    BY <1>1 DEF RoundTripEnds, FailTracker, callVars, returnVars
  <2>3. pc = "attempt" /\ pc' = "trackerFailed"
    BY <1>1 DEF RoundTripEnds, FailTracker
  <2> QED
    BY <2>1, <2>2, <2>3, SocketUntouched DEF IInv, HeardInv
<1>2. CASE WriteFails
  <2>1. UNCHANGED <<torrent, at, phase, attempt, net, copies, heard, result>>
    BY <1>2 DEF WriteFails, FailTracker, callVars, returnVars
  <2>2. pc = "write" /\ pc' = "trackerFailed" /\ excuse' = TRUE
    BY <1>2 DEF WriteFails, FailTracker
  <2>3. NetInv'
    BY <2>1, <2>2 DEF IInv, NetInv
  <2>4. HeardInv'
    BY <2>1, <2>2 DEF IInv, HeardInv, url, urls
  <2>5. LateInv'
    BY <2>1, <2>2 DEF IInv, LateInv, Written
  <2> QED
    BY <2>3, <2>4, <2>5 DEF IInv
<1> QED
  BY <1>0, <1>1, <1>2

\* A request is written: at most one answer is under way for it.
LEMMA WriteStep ==
    ASSUME IInv, Write
    PROVE  IInv'
<1>1. /\ pc = "write" /\ pc' = "read" /\ attempt <= UdpMaxRetries
      /\ UNCHANGED <<torrent, at, phase, attempt, copies, excuse, result>>
  BY DEF Write, callVars, returnVars, IInv, NetInv
<1>2. heard \subseteq heard'
  BY DEF Write
<1>3. \/ net' = net
      \/ \E d \in Answers(url, phase) :
            /\ net' = [net EXCEPT ![d] = @ + 1]
            /\ d \in Replies("announce", "announce") => url \in heard'
  BY DEF Write
<1>4. net \in [Datagram -> Nat] /\ phase \in {"connect", "announce"}
  BY DEF IInv, NetInv
<1>5. /\ net' \in [Datagram -> Nat]
      /\ \A e \in Replies("announce", "announce") : net'[e] > 0 => net[e] > 0 \/ url \in heard'
      /\ net'[ConnectReply] <= net[ConnectReply] + 1
      /\ phase = "announce" => net'[ConnectReply] = net[ConnectReply]
  <2>1. CASE net' = net
    BY <2>1, <1>4, ConnectReplyFacts
  <2>2. ASSUME NEW d \in Answers(url, phase), net' = [net EXCEPT ![d] = @ + 1],
               d \in Replies("announce", "announce") => url \in heard'
        PROVE  <1>5!1 /\ <1>5!2 /\ <1>5!3 /\ <1>5!4
    <3>1. d \in Datagram /\ (phase = "announce" => d # ConnectReply)
      BY <1>4, AnswerFacts
    <3>2. \A e \in Datagram : net'[e] = IF e = d THEN net[d] + 1 ELSE net[e]
      BY <1>4, <2>2, <3>1
    <3>3. \A e \in Datagram : net[e] \in Nat
      BY <1>4
    <3>4. net' \in [Datagram -> Nat]
      BY <1>4, <2>2, <3>1
    <3> QED
      BY <2>2, <3>1, <3>2, <3>3, <3>4, ConnectReplyFacts, PeerLists
  <2> QED
    BY <1>3, <2>1, <2>2
<1>6. NetInv'
  BY <1>1, <1>5 DEF IInv, NetInv
<1>7. HeardInv'
  <2>1. url' = url
    BY <1>1 DEF url, urls
  <2> QED
    BY <1>1, <1>2, <1>5, <2>1 DEF IInv, HeardInv
<1>8. LateInv'
  <2>1. net[ConnectReply] \in Nat /\ net'[ConnectReply] \in Nat /\ attempt \in Nat
    BY <1>5, ConnectReplyFacts DEF IInv, NetInv
  <2> QED
    BY <1>1, <1>5, <2>1 DEF IInv, LateInv, Written
<1> QED
  BY <1>6, <1>7, <1>8 DEF IInv

\* The network repeats a datagram: only what LateInv promises without copies ends.
LEMMA RepeatStep ==
    ASSUME IInv, Repeat
    PROVE  IInv'
<1>1. PICK d \in Datagram : net[d] > 0 /\ net' = [net EXCEPT ![d] = @ + 1]
  BY DEF Repeat
<1>2. /\ copies' = copies + 1 /\ copies \in Nat /\ net \in [Datagram -> Nat]
      /\ UNCHANGED <<pc, torrent, at, phase, attempt, excuse, heard, result>>
  BY DEF Repeat, callVars, returnVars, IInv, NetInv
<1>3. NetInv'
  BY <1>1, <1>2 DEF IInv, NetInv
<1>4. \A e \in Datagram : net'[e] > 0 => net[e] > 0
  BY <1>1, <1>2
<1>5. HeardInv'
  BY <1>2, <1>4, PeerLists DEF IInv, HeardInv, url, urls
<1>6. LateInv'
  BY <1>2 DEF LateInv
<1> QED
  BY <1>3, <1>5, <1>6 DEF IInv

-----------------------------------------------------------------------------
\* A datagram that is too short: a late connect reply uses up one attempt and itself.
LEMMA ReadShortStep ==
    ASSUME IInv, NEW d \in Datagram, ReadShort(d)
    PROVE  IInv'
<1>1. /\ pc = "read" /\ pc' = "attempt" /\ attempt' = attempt + 1
      /\ UNCHANGED <<torrent, at, phase, copies, ctx, heard, result>>
      /\ excuse' = (excuse \/ d # ConnectReply)
  BY DEF ReadShort, Read, Again, callVars, returnVars
<1>2. /\ net' \in [Datagram -> Nat]
      /\ \A e \in Datagram : net'[e] > 0 => net[e] > 0
      /\ net'[ConnectReply] <= net[ConnectReply]
      /\ d = ConnectReply => net'[ConnectReply] = net[ConnectReply] - 1
  BY OneRead DEF ReadShort
<1>3. NetInv'
  BY <1>1, <1>2 DEF IInv, NetInv
<1>4. HeardInv'
  BY <1>1, <1>2, PeerLists DEF IInv, HeardInv, url, urls
<1>5. LateInv'
  <2>1. net[ConnectReply] \in Nat /\ net'[ConnectReply] \in Nat /\ attempt \in Nat
    BY <1>2, ConnectReplyFacts DEF IInv, NetInv
  <2>2. ~excuse' => ~excuse /\ d = ConnectReply
    BY <1>1
  <2>3. copies = 0 /\ phase = "connect" => net'[ConnectReply] <= attempt + 1
    BY <1>1, <1>2, <2>1 DEF IInv, LateInv, Written
  <2>4. ASSUME copies = 0, phase = "announce", ~excuse'
        PROVE  net'[ConnectReply] + (attempt + 1) <= UdpMaxRetries
    <3>1. net'[ConnectReply] = net[ConnectReply] - 1
      BY <1>2, <2>2, <2>4
    <3>2. net[ConnectReply] + attempt <= UdpMaxRetries
      BY <1>1, <2>2, <2>4 DEF IInv, LateInv
    <3>3. UdpMaxRetries \in Nat
      BY ConstantsAssumption
    <3> QED
      BY <2>1, <3>1, <3>2, <3>3
  <2> QED
    BY <1>1, <2>3, <2>4 DEF LateInv, Written
<1> QED
  BY <1>3, <1>4, <1>5 DEF IInv

\* The connect reply: the attempts start again, the late replies are the others.
LEMMA ReadConnectReplyStep ==
    ASSUME IInv, NEW d \in Datagram, ReadConnectReply(d)
    PROVE  IInv'
<1>1. /\ pc = "read" /\ pc' = "attempt" /\ phase = "connect" /\ phase' = "announce"
      /\ attempt' = 0 /\ excuse' = FALSE
      /\ UNCHANGED <<torrent, at, copies, ctx, heard, result>>
  BY DEF ReadConnectReply, Read, callVars, returnVars
<1>2. d = ConnectReply
  <2>1. d.tx = "connect" /\ d.action = "connect"
    BY <1>1 DEF ReadConnectReply, Matches
  <2>2. PICK ph \in {"connect", "announce"} :
          d \in Replies(ph, ph) \/ d \in Replies(ph, "foreign") \/ d \in Errors(ph)
    BY DEF Datagram
  <2>3. d \in [tx : {"connect"}, action : {"connect"}, load : {0}]
    BY <2>1, <2>2 DEF Replies, Errors
  <2> QED
    BY <2>3 DEF ConnectReply
<1>3. /\ net' \in [Datagram -> Nat]
      /\ \A e \in Datagram : net'[e] > 0 => net[e] > 0
      /\ net'[ConnectReply] = net[ConnectReply] - 1
  BY <1>2, OneRead DEF ReadConnectReply
<1>4. NetInv'
  BY <1>1, <1>3 DEF IInv, NetInv
<1>5. HeardInv'
  BY <1>1, <1>3, PeerLists DEF IInv, HeardInv, url, urls
<1>6. LateInv'
  <2>1. /\ net[ConnectReply] \in Nat /\ attempt \in Nat /\ attempt <= UdpMaxRetries
        /\ UdpMaxRetries \in Nat
    BY <1>1, ConnectReplyFacts, ConstantsAssumption DEF IInv, NetInv
  <2>2. copies = 0 => net[ConnectReply] <= attempt + 1
    BY <1>1 DEF IInv, LateInv, Written
  <2>3. copies = 0 => net'[ConnectReply] + attempt' <= UdpMaxRetries
    BY <1>1, <1>3, <2>1, <2>2
  <2> QED
    BY <1>1, <2>3 DEF LateInv
<1> QED
  BY <1>4, <1>5, <1>6 DEF IInv

\* A peer list that is taken was registered by the tracker in turn.
LEMMA ReadPeersStep ==
    ASSUME IInv, NEW d \in Datagram, ReadPeers(d)
    PROVE  IInv'
<1>1. /\ pc = "read" /\ pc' = "returned" /\ result' = "ok" /\ phase = "announce"
      /\ UNCHANGED <<torrent, at, phase, attempt, copies, excuse, ctx, heard>>
  BY DEF ReadPeers, Read, ReturnPeers, Return, callVars
<1>2. d \in Replies("announce", "announce") /\ net[d] > 0
  BY <1>1, PeerLists DEF ReadPeers, Matches, Read
<1>3. /\ net' \in [Datagram -> Nat]
      /\ \A e \in Datagram : net'[e] > 0 => net[e] > 0
      /\ net'[ConnectReply] <= net[ConnectReply]
  BY OneRead DEF ReadPeers
<1>4. NetInv'
  BY <1>1, <1>3 DEF IInv, NetInv
<1>5. HeardInv'
  BY <1>1, <1>2, <1>3, PeerLists DEF IInv, HeardInv, url, urls
<1>6. LateInv'
  <2>1. net[ConnectReply] \in Nat /\ net'[ConnectReply] \in Nat /\ attempt \in Nat
    BY <1>3, ConnectReplyFacts DEF IInv, NetInv
  <2> QED
    BY <1>1, <1>3, <2>1, ConstantsAssumption DEF IInv, LateInv, Written
<1> QED
  BY <1>4, <1>5, <1>6 DEF IInv

\* A datagram that is refused is no late connect reply: that one is too short.
LEMMA ReadRefusalStep ==
    ASSUME IInv, NEW d \in Datagram, ReadRefusal(d)
    PROVE  IInv'
<1>1. /\ pc = "read" /\ pc' = "trackerFailed" /\ excuse' = (excuse \/ d # ConnectReply)
      /\ UNCHANGED <<torrent, at, phase, attempt, copies, ctx, heard, result>>
  BY DEF ReadRefusal, Read, FailTracker, callVars, returnVars
<1>2. /\ net' \in [Datagram -> Nat]
      /\ \A e \in Datagram : net'[e] > 0 => net[e] > 0
      /\ net'[ConnectReply] <= net[ConnectReply]
      /\ d = ConnectReply => net'[ConnectReply] = net[ConnectReply] - 1
  BY OneRead DEF ReadRefusal
<1>3. phase = "announce" => d # ConnectReply
  <2>1. phase = "announce" => MinRespLen(phase) = 20
    BY DEF MinRespLen, Header
  <2> QED
    BY <2>1, ConnectReplyFacts DEF ReadRefusal
<1>4. d = ConnectReply => phase = "connect"
  BY <1>3 DEF IInv, NetInv
<1>5. NetInv'
  BY <1>1, <1>2 DEF IInv, NetInv
<1>6. HeardInv'
  BY <1>1, <1>2, PeerLists DEF IInv, HeardInv, url, urls
<1>7. LateInv'
  BY <1>1, <1>4 DEF LateInv
<1> QED
  BY <1>5, <1>6, <1>7 DEF IInv

\* A read without a datagram.
LEMMA ReadFailsSteps ==
    ASSUME IInv, ReadFails \/ ReadFailsWhenDone
    PROVE  IInv'
<1>1. CASE ReadFails
  <2>1. /\ pc = "read" /\ pc' = "attempt" /\ attempt' = attempt + 1 /\ excuse' = TRUE
        /\ UNCHANGED <<torrent, at, phase, net, copies, ctx, heard, result>>
    BY <1>1 DEF ReadFails, Again, callVars, returnVars
  <2>2. NetInv'
    BY <2>1 DEF IInv, NetInv
  <2>3. HeardInv'
    BY <2>1 DEF IInv, HeardInv, url, urls
  <2>4. LateInv'
    BY <2>1 DEF IInv, NetInv, LateInv, Written
  <2> QED
    BY <2>2, <2>3, <2>4 DEF IInv
<1>2. CASE ReadFailsWhenDone
  <2>1. /\ pc = "read" /\ pc' = "trackerFailed" /\ ctx # "live"
        /\ UNCHANGED <<torrent, at, phase, attempt, net, copies, excuse, ctx, heard, result>>
    BY <1>2 DEF ReadFailsWhenDone, FailTracker, callVars, returnVars
  <2>2. NetInv'
    BY <2>1 DEF IInv, NetInv
  <2>3. HeardInv'
    BY <2>1 DEF IInv, HeardInv, url, urls
  <2>4. LateInv'
    BY <2>1 DEF LateInv
  <2> QED
    BY <2>2, <2>3, <2>4 DEF IInv
<1> QED
  BY <1>1, <1>2

-----------------------------------------------------------------------------
LEMMA NextInv == IInv /\ [Next]_vars => IInv'
<1> SUFFICES ASSUME IInv, [Next]_vars PROVE IInv'
  OBVIOUS
<1>1. CASE Expire \/ Cancel \/ CloseSocket
  BY <1>1, ContextSteps
<1>2. CASE StartAttempt \/ RoundTripEnds \/ WriteFails
  BY <1>2, RoundTripSteps
<1>3. CASE ReadDatagram
  <2>1. PICK d \in Datagram :
          ReadShort(d) \/ ReadConnectReply(d) \/ ReadPeers(d) \/ ReadRefusal(d)
    BY <1>3 DEF ReadDatagram
  <2> QED
    BY <2>1, ReadShortStep, ReadConnectReplyStep, ReadPeersStep, ReadRefusalStep
<1>4. CASE ReadFails \/ ReadFailsWhenDone
  BY <1>4, ReadFailsSteps
<1>5. CASE UNCHANGED vars
  BY <1>5, SocketUntouched DEF vars, callVars, socketVars, returnVars, IInv, HeardInv
<1> QED
  BY <1>1, <1>2, <1>3, <1>4, <1>5, LoopSteps, NextTrackerStep, WriteStep, RepeatStep
  DEF Next, AnnounceStep

\* The inductive invariant holds in every state.
THEOREM Invariant == Spec => []IInv
<1> QED
  BY InitInv, NextInv, PTL DEF Spec

\* A success of Announce is one that the tracker has registered, for every way in
\* which datagrams are lost, repeated, late, cut or foreign.
THEOREM SuccessIsReal == Spec => []SuccessIsRegistered
<1>1. IInv => SuccessIsRegistered
  BY DEF IInv, HeardInv, SuccessIsRegistered
<1> QED
  BY <1>1, Invariant, PTL

\* For any number of retries, late connect replies leave the announce an attempt.
THEOREM LateRepliesAreHarmless == Spec => []LateRepliesLeaveAnAttempt
<1>1. IInv => LateRepliesLeaveAnAttempt
  BY DEF IInv, LateInv, LateRepliesLeaveAnAttempt
<1> QED
  BY <1>1, Invariant, PTL

-----------------------------------------------------------------------------
(***************************************************************************)
(* A tracker that is up is found while there is time.                      *)
(***************************************************************************)

\* The socket of a tracker that is up: connect replies only before the announce, at
\* most those repeated after it, each of which costs an attempt; at a read there is
\* an answer.
LiveSocket ==
    /\ phase = "connect" =>
          /\ attempt = 0
          /\ \A d \in Datagram : net[d] > 0 => d = ConnectReply
          /\ net[ConnectReply] <= IF pc = "read" THEN copies + 1 ELSE 0
          /\ pc = "read" => net[ConnectReply] > 0
    /\ phase = "announce" =>
          /\ attempt + net[ConnectReply] <= copies
          /\ \A d \in Datagram :
                net[d] > 0 => d = ConnectReply \/ d \in Answers(url, "announce")
          /\ pc = "read" => \E d \in Answers(url, "announce") : net[d] > 0

\* Trackers that were passed were not up.
PassedInv ==
    ctx = "live" =>
        /\ \A i \in 1 .. at - 1 : urls[i] \notin Live
        /\ pc = "trackerFailed" => url \notin Live
        /\ pc \in {"attempt", "write", "read"} /\ url \in Live => LiveSocket

BoundsInv ==
    /\ torrent \in Torrents /\ at \in Nat \ {0} /\ copies <= MaxCopies
    /\ pc \in {"next", "trackerFailed", "http", "dial", "attempt", "write", "read",
               "returned"}
    /\ closed => ctx # "live"
    /\ pc \in {"next", "http", "dial"} => attempt = 0 /\ \A d \in Datagram : net[d] = 0
    /\ pc \notin {"next", "returned"} => at \in DOMAIN urls
    /\ result = "allFailed" => pc = "returned" /\ at > Len(urls)

LiveInv == IInv /\ BoundsInv /\ PassedInv

\* The trackers of the download are a sequence of urls.
LEMMA UrlsAreUrls ==
    ASSUME torrent \in Torrents
    PROVE  urls \in Seq(Url) /\ Len(urls) \in Nat /\ DOMAIN urls = 1 .. Len(urls)
<1>1. urls \in Seq(Url)
  BY TrackersAreUrls DEF urls, trackersOf
<1> QED
  BY <1>1

\* What a tracker that is up answers is taken.
LEMMA LiveAnswers ==
    ASSUME NEW u \in Live, NEW ph \in {"connect", "announce"}, NEW d \in Answers(u, ph)
    PROVE  /\ d \in Datagram
           /\ ph = "connect" => d = ConnectReply
           /\ ph = "announce" => /\ d \in Replies("announce", "announce")
                                 /\ Received(d) \in Int /\ Received(d) >= 20
                                 /\ Whole(Received(d) - 20)
<1>1. d \in Replies(ph, ph) /\ d.load % 6 = 0 /\ Header(d.action) + d.load <= RecvBufferSize
  BY DEF Answers
<1>2. d \in Datagram
  BY <1>1 DEF Datagram
<1>3. CASE ph = "connect"
  BY <1>1, <1>2, <1>3 DEF Replies, ConnectReply
<1>4. CASE ph = "announce"
  <2>1. d.action = "announce" /\ d.load \in Nat
    BY <1>1, <1>4, ConstantsAssumption DEF Replies
  <2>2. Header(d.action) = 20
    BY <2>1 DEF Header
  <2>3. RecvBufferSize \in Nat
    BY ConstantsAssumption DEF RecvBufferSize
  <2>4. Received(d) = 20 + d.load
    BY <1>1, <2>1, <2>2, <2>3 DEF Received
  <2>5. Received(d) - 20 = d.load
    BY <2>1, <2>4
  <2> QED
    BY <1>1, <1>2, <1>4, <2>1, <2>4, <2>5 DEF Whole
<1> QED
  BY <1>3, <1>4

\* The invariant of trackers that are up holds at the start.
LEMMA LiveInitially == Init => LiveInv
<1> SUFFICES ASSUME Init PROVE LiveInv
  OBVIOUS
<1>1. \A d \in Datagram : NoDatagrams[d] = 0
  BY DEF NoDatagrams
<1>2. BoundsInv
  BY <1>1, ConstantsAssumption DEF Init, BoundsInv
<1>3. PassedInv
  BY DEF Init, PassedInv
<1> QED
  BY <1>2, <1>3, InitInv DEF LiveInv

\* The steps outside the round trips.
LEMMA LiveLoopSteps ==
    ASSUME LiveInv,
           \/ NoTrackers \/ SeeDone \/ AllFailed \/ AskTracker
           \/ HttpAnswers \/ HttpFails \/ Dial \/ DialFails
    PROVE  BoundsInv' /\ PassedInv'
<1>0. Len(urls) \in Nat /\ DOMAIN urls = 1 .. Len(urls)
  BY UrlsAreUrls DEF LiveInv, BoundsInv
<1>1. /\ UNCHANGED <<torrent, at, phase, attempt, net, copies, closed, ctx>>
      /\ UNCHANGED <<urls, url>>
  <2>1. UNCHANGED <<torrent, at, phase, attempt, net, copies, closed, ctx>>
    BY DEF NoTrackers, SeeDone, AllFailed, AskTracker, HttpAnswers, HttpFails, Dial,
           DialFails, ReturnPeers, Return, callVars, socketVars
  <2> QED
    BY <2>1 DEF urls, url
<1>2. CASE NoTrackers \/ SeeDone \/ AllFailed \/ HttpAnswers
  <2>1. pc' = "returned" /\ (result' = "allFailed" => at > Len(urls))
    BY <1>2 DEF NoTrackers, SeeDone, AllFailed, HttpAnswers, ReturnPeers, Return
  <2> QED
    BY <1>1, <2>1 DEF LiveInv, BoundsInv, PassedInv
<1>3. CASE AskTracker
  <2>1. /\ pc = "next" /\ at <= Len(urls) /\ result' = result
        /\ pc' \in {"http", "dial", "trackerFailed"}
    BY <1>3, Zenon DEF AskTracker, returnVars
  <2>2. pc' = "trackerFailed" => url \notin Live
    BY <1>3, ConstantsAssumption DEF AskTracker
  <2>3. at \in DOMAIN urls
    BY <1>0, <2>1 DEF LiveInv, BoundsInv
  <2> QED
    BY <1>1, <2>1, <2>2, <2>3 DEF LiveInv, BoundsInv, PassedInv
<1>4. CASE HttpFails \/ DialFails
  <2>1. /\ pc \in {"http", "dial"} /\ pc' = "trackerFailed" /\ result' = result
        /\ url \in Live => ctx # "live"
    BY <1>4 DEF HttpFails, DialFails, returnVars
  <2> QED
    BY <1>1, <2>1 DEF LiveInv, BoundsInv, PassedInv
<1>5. CASE Dial
  <2>1. pc = "dial" /\ pc' = "attempt" /\ result' = result
    BY <1>5 DEF Dial, returnVars
  <2>2. phase = "connect" /\ attempt = 0 /\ (\A d \in Datagram : net[d] = 0)
    BY <2>1 DEF LiveInv, IInv, NetInv, BoundsInv
  <2>3. LiveSocket'
    BY <1>1, <2>1, <2>2, ConnectReplyFacts DEF LiveSocket
  <2> QED
    BY <1>1, <2>1, <2>3 DEF LiveInv, BoundsInv, PassedInv
<1> QED
  BY <1>2, <1>3, <1>4, <1>5

\* Without time it promises nothing.
LEMMA LiveContextSteps ==
    ASSUME LiveInv, Expire \/ Cancel \/ CloseSocket
    PROVE  BoundsInv' /\ PassedInv'
<1>1. ctx' # "live" /\ UNCHANGED <<torrent, pc, at, attempt, net, copies, result>>
  BY DEF Expire, Cancel, CloseSocket, callVars, socketVars, returnVars
<1>2. PassedInv'
  BY <1>1 DEF PassedInv
<1>3. BoundsInv'
  BY <1>1 DEF LiveInv, BoundsInv, urls
<1> QED
  BY <1>2, <1>3

\* A tracker that failed was not up.
LEMMA LiveNextTracker ==
    ASSUME LiveInv, NextTracker
    PROVE  BoundsInv' /\ PassedInv'
<1>1. /\ pc = "trackerFailed" /\ pc' = "next" /\ at' = at + 1 /\ attempt' = 0
      /\ net' = NoDatagrams /\ closed' = FALSE
      /\ UNCHANGED <<torrent, copies, ctx, result, urls>>
  BY DEF NextTracker, NextIndex, callVars, returnVars, urls
<1>2. \A d \in Datagram : NoDatagrams[d] = 0
  BY DEF NoDatagrams
<1>3. BoundsInv'
  BY <1>1, <1>2 DEF LiveInv, BoundsInv
<1>4. PassedInv'
  <2>1. ASSUME ctx = "live", NEW i \in 1 .. at PROVE urls[i] \notin Live
    <3>1. i \in 1 .. at - 1 \/ i = at
      BY DEF LiveInv, BoundsInv
    <3> QED
      BY <1>1, <2>1, <3>1 DEF LiveInv, PassedInv, url
  <2>2. 1 .. at' - 1 = 1 .. at
    BY <1>1 DEF LiveInv, BoundsInv
  <2>3. urls' = urls /\ ctx' = ctx /\ pc' = "next"
    BY <1>1
  <2> QED
    BY <2>1, <2>2, <2>3 DEF PassedInv
<1> QED
  BY <1>3, <1>4

-----------------------------------------------------------------------------
\* In a round trip PassedInv is about the tracker in turn only.
LEMMA InRoundTrip ==
    ASSUME LiveInv, pc \in {"attempt", "write", "read"},
           pc' \in {"trackerFailed", "attempt", "write", "read", "returned"},
           UNCHANGED <<torrent, at, closed, ctx, urls, url>>, copies' <= MaxCopies,
           result' = "allFailed" => result = "allFailed",
           ctx = "live" /\ url \in Live =>
               pc' = "returned" \/ (pc' # "trackerFailed" /\ LiveSocket')
    PROVE  BoundsInv' /\ PassedInv'
<1>1. BoundsInv'
  BY DEF LiveInv, BoundsInv
<1>2. PassedInv'
  BY DEF LiveInv, PassedInv
<1> QED
  BY <1>1, <1>2

\* What the steps of the round trips have in common.
LEMMA RoundTripFrame ==
    ASSUME LiveInv,
           \/ StartAttempt \/ RoundTripEnds \/ WriteFails \/ Write \/ Repeat
           \/ ReadDatagram \/ ReadFails \/ ReadFailsWhenDone
    PROVE  /\ UNCHANGED <<torrent, at, closed, ctx, urls, url>> /\ copies' <= MaxCopies
           /\ result' = "allFailed" => result = "allFailed"
           /\ pc \in {"attempt", "write", "read"}
<1>1. /\ UNCHANGED <<torrent, at, closed, ctx>> /\ (copies' = copies \/ copies < MaxCopies)
      /\ copies' \in {copies, copies + 1}
      /\ result' = "allFailed" => result = "allFailed"
      /\ pc \in {"attempt", "write", "read"}
  BY DEF StartAttempt, RoundTripEnds, WriteFails, Write, Repeat, ReadDatagram, ReadFails,
         ReadFailsWhenDone, ReadShort, ReadConnectReply, ReadPeers, ReadRefusal, Read, Again,
         FailTracker, ReturnPeers, Return, callVars, socketVars, returnVars
<1>2. copies' <= MaxCopies
  BY <1>1, ConstantsAssumption DEF LiveInv, IInv, NetInv, BoundsInv
<1> QED
  BY <1>1, <1>2 DEF urls, url

\* The attempts of a tracker that is up are not used up.
LEMMA LiveTrySteps ==
    ASSUME MaxCopies <= UdpMaxRetries, LiveInv,
           \/ StartAttempt \/ RoundTripEnds \/ WriteFails \/ ReadFailsWhenDone
    PROVE  BoundsInv' /\ PassedInv'
<1>1. CASE StartAttempt
  <2>1. pc = "attempt" /\ pc' = "write" /\ UNCHANGED <<phase, attempt, net, copies>>
    BY <1>1 DEF StartAttempt, socketVars
  <2>2. url' = url
    BY <1>1, RoundTripFrame
  <2>3. ctx = "live" /\ url \in Live => LiveSocket'
    BY <2>1, <2>2 DEF LiveInv, PassedInv, LiveSocket
  <2> QED
    BY <1>1, <2>1, <2>3, RoundTripFrame, InRoundTrip
<1>2. CASE RoundTripEnds
  <2>1. ASSUME ctx = "live", url \in Live PROVE FALSE
    <3>1. pc = "attempt" /\ ~(attempt <= UdpMaxRetries)
      BY <1>2, <2>1 DEF RoundTripEnds, MoreAttempts
    <3>2. LiveSocket /\ copies <= MaxCopies
      BY <2>1, <3>1 DEF LiveInv, PassedInv, BoundsInv
    <3>3. attempt \in Nat /\ copies \in Nat /\ net[ConnectReply] \in Nat
            /\ phase \in {"connect", "announce"}
      BY ConnectReplyFacts DEF LiveInv, IInv, NetInv
    <3>4. attempt = 0 \/ attempt + net[ConnectReply] <= copies
      BY <3>2, <3>3 DEF LiveSocket
    <3> QED
      BY <3>1, <3>2, <3>3, <3>4, ConstantsAssumption
  <2>2. pc' = "trackerFailed"
    BY <1>2 DEF RoundTripEnds, FailTracker
  <2> QED
    BY <1>2, <2>1, <2>2, RoundTripFrame, InRoundTrip
<1>3. CASE WriteFails \/ ReadFailsWhenDone
  <2>1. pc' = "trackerFailed" /\ (ctx # "live" \/ url \notin Live)
    BY <1>3 DEF WriteFails, ReadFailsWhenDone, FailTracker, LiveInv, BoundsInv
  <2> QED
    BY <1>3, <2>1, RoundTripFrame, InRoundTrip
<1> QED
  BY <1>1, <1>2, <1>3

\* A tracker that is up answers the request.
LEMMA LiveWrite ==
    ASSUME LiveInv, Write
    PROVE  BoundsInv' /\ PassedInv'
<1>1. pc = "write" /\ pc' = "read" /\ UNCHANGED <<phase, attempt, copies>>
  BY DEF Write
<1>2. ASSUME ctx = "live", url \in Live PROVE LiveSocket'
  <2>1. PICK d \in Answers(url, phase) : net' = [net EXCEPT ![d] = @ + 1]
    BY <1>2 DEF Write
  <2>2. /\ net \in [Datagram -> Nat] /\ phase \in {"connect", "announce"}
        /\ attempt \in Nat /\ copies \in Nat
    BY DEF LiveInv, IInv, NetInv
  <2>3. LiveSocket /\ url' = url
    BY <1>1, <1>2, RoundTripFrame DEF LiveInv, PassedInv
  <2>4. d \in Datagram
    BY <1>2, <2>1, <2>2, LiveAnswers
  <2>5. /\ \A e \in Datagram : net'[e] = IF e = d THEN net[e] + 1 ELSE net[e]
        /\ \A e \in Datagram : net[e] \in Nat
    BY <2>1, <2>2, <2>4
  <2>6. CASE phase = "connect"
    <3>1. d = ConnectReply
      BY <1>2, <2>1, <2>6, LiveAnswers
    <3>2. net[ConnectReply] = 0
      BY <1>1, <2>3, <2>5, <2>6, ConnectReplyFacts DEF LiveSocket
    <3> QED
      BY <1>1, <2>2, <2>3, <2>5, <2>6, <3>1, <3>2, ConnectReplyFacts DEF LiveSocket
  <2>7. CASE phase = "announce"
    <3>1. d \in Answers(url, "announce") /\ d # ConnectReply
      BY <2>1, <2>7, AnswerFacts
    <3>2. net'[ConnectReply] = net[ConnectReply] /\ net'[d] > 0
      BY <2>4, <2>5, <3>1, ConnectReplyFacts
    <3>3. \A e \in Datagram :
             net'[e] > 0 => e = ConnectReply \/ e \in Answers(url, "announce")
      BY <2>3, <2>5, <2>7, <3>1 DEF LiveSocket
    <3> QED
      BY <1>1, <2>3, <2>7, <3>1, <3>2, <3>3 DEF LiveSocket
  <2> QED
    BY <2>2, <2>6, <2>7
<1> QED
  BY <1>1, <1>2, RoundTripFrame, InRoundTrip

\* The network repeats a datagram, and copies counts it.
LEMMA LiveRepeat ==
    ASSUME LiveInv, Repeat
    PROVE  BoundsInv' /\ PassedInv'
<1>1. PICK d \in Datagram : net[d] > 0 /\ net' = [net EXCEPT ![d] = @ + 1]
  BY DEF Repeat
<1>2. /\ pc = "read" /\ pc' = "read" /\ copies' = copies + 1
      /\ UNCHANGED <<phase, attempt>>
  BY DEF Repeat
<1>3. ASSUME ctx = "live", url \in Live PROVE LiveSocket'
  <2>1. LiveSocket /\ url' = url
    BY <1>2, <1>3, RoundTripFrame DEF LiveInv, PassedInv
  <2>2. /\ net \in [Datagram -> Nat] /\ attempt \in Nat /\ copies \in Nat
        /\ phase \in {"connect", "announce"}
    BY DEF LiveInv, IInv, NetInv
  <2>3. /\ \A e \in Datagram : net'[e] = IF e = d THEN net[e] + 1 ELSE net[e]
        /\ \A e \in Datagram : net[e] \in Nat
    BY <1>1, <2>2
  <2>4. \A e \in Datagram : net'[e] > 0 <=> net[e] > 0
    BY <1>1, <2>3
  <2>5. net'[ConnectReply] \in {net[ConnectReply], net[ConnectReply] + 1}
    BY <2>3, ConnectReplyFacts
  <2>6. CASE phase = "connect"
    BY <1>2, <2>1, <2>2, <2>3, <2>4, <2>5, <2>6, ConnectReplyFacts DEF LiveSocket
  <2>7. CASE phase = "announce"
    <3>1. PICK a \in Answers(url, "announce") : net[a] > 0
      BY <1>2, <2>1, <2>7 DEF LiveSocket
    <3>2. a \in Datagram
      BY AnswerFacts
    <3>3. attempt + net'[ConnectReply] <= copies + 1
      BY <2>1, <2>2, <2>3, <2>5, <2>7, ConnectReplyFacts DEF LiveSocket
    <3>4. \A e \in Datagram :
             net'[e] > 0 => e = ConnectReply \/ e \in Answers(url, "announce")
      BY <2>1, <2>4, <2>7 DEF LiveSocket
    <3> QED
      BY <1>2, <2>1, <2>4, <2>7, <3>1, <3>2, <3>3, <3>4 DEF LiveSocket
  <2> QED
    BY <2>2, <2>6, <2>7
<1> QED
  BY <1>2, <1>3, RoundTripFrame, InRoundTrip

\* With a tracker that is up a read is the connect reply, a copy of it, or the peers.
LEMMA LiveRead ==
    ASSUME LiveInv, ReadDatagram \/ ReadFails
    PROVE  BoundsInv' /\ PassedInv'
<1>1. pc = "read" /\ pc' \in {"attempt", "trackerFailed", "returned"}
  BY DEF ReadDatagram, ReadFails, ReadShort, ReadConnectReply, ReadPeers, ReadRefusal, Read,
         Again, FailTracker, ReturnPeers, Return
<1>2. ASSUME ctx = "live", url \in Live
      PROVE  pc' = "returned" \/ (pc' = "attempt" /\ LiveSocket')
  <2>1. LiveSocket
    BY <1>1, <1>2 DEF LiveInv, PassedInv
  <2>2. /\ net \in [Datagram -> Nat] /\ attempt \in Nat /\ copies \in Nat
        /\ phase \in {"connect", "announce"}
    BY DEF LiveInv, IInv, NetInv
  <2>3. \E d \in Datagram : net[d] > 0
    BY <1>1, <2>1, <2>2, ConnectReplyFacts, AnswerFacts DEF LiveSocket
  <2>4. ~ReadFails
    BY <1>2, <2>2, <2>3 DEF ReadFails
  <2>5. PICK d \in Datagram :
          ReadShort(d) \/ ReadConnectReply(d) \/ ReadPeers(d) \/ ReadRefusal(d)
    BY <2>4 DEF ReadDatagram
  <2>6. net[d] > 0 /\ net' = [net EXCEPT ![d] = @ - 1]
    BY <2>5 DEF ReadShort, ReadConnectReply, ReadPeers, ReadRefusal, Read
  <2>7. /\ \A e \in Datagram : net'[e] = IF e = d THEN net[e] - 1 ELSE net[e]
        /\ \A e \in Datagram : net[e] \in Nat
    BY <2>2, <2>6
  <2>8. copies' = copies /\ url' = url
    BY <2>5, RoundTripFrame
    DEF ReadDatagram, ReadShort, ReadConnectReply, ReadPeers, ReadRefusal, Again, FailTracker,
        ReturnPeers, Return
  <2>9. CASE phase = "connect"
    <3>1. d = ConnectReply
      BY <2>1, <2>6, <2>9 DEF LiveSocket
    <3>2. Received(d) >= MinRespLen(phase) /\ Matches(d)
      <4>1. MinRespLen(phase) = 16
        BY <2>9 DEF MinRespLen, Header
      <4> QED
        BY <2>9, <3>1, <4>1, ConnectReplyFacts DEF Matches, ConnectReply
    <3>3. Received(d) = 16 /\ MinRespLen(phase) = 16
      BY <2>9, <3>1, ConnectReplyFacts DEF MinRespLen, Header
    <3>4. ReadConnectReply(d)
      BY <2>5, <2>9, <3>2, <3>3 DEF ReadShort, ReadPeers, ReadRefusal
    <3>5. pc' = "attempt" /\ phase' = "announce" /\ attempt' = 0
      BY <3>4 DEF ReadConnectReply
    <3>6. net'[ConnectReply] <= copies
      BY <1>1, <2>1, <2>2, <2>7, <2>9, <3>1, ConnectReplyFacts DEF LiveSocket
    <3>7. \A e \in Datagram : net'[e] > 0 => e = ConnectReply
      BY <2>1, <2>7, <2>9, <3>1 DEF LiveSocket
    <3>8. net'[ConnectReply] \in Int
      BY <2>7, ConnectReplyFacts
    <3> QED
      BY <2>2, <2>8, <3>5, <3>6, <3>7, <3>8 DEF LiveSocket
  <2>10. CASE phase = "announce" /\ d = ConnectReply
    <3>1. Received(d) = 16 /\ MinRespLen(phase) = 20
      BY <2>10, ConnectReplyFacts DEF MinRespLen, Header
    <3>2. ReadShort(d)
      BY <2>5, <3>1 DEF ReadConnectReply, ReadPeers, ReadRefusal
    <3>3. pc' = "attempt" /\ attempt' = attempt + 1 /\ phase' = phase
      BY <3>2 DEF ReadShort, Again
    <3>4. attempt' + net'[ConnectReply] <= copies
      BY <2>1, <2>2, <2>7, <2>10, <3>3, ConnectReplyFacts DEF LiveSocket
    <3>5. \A e \in Datagram :
             net'[e] > 0 => e = ConnectReply \/ e \in Answers(url, "announce")
      BY <2>1, <2>7, <2>10 DEF LiveSocket
    <3> QED
      BY <2>8, <2>10, <3>3, <3>4, <3>5 DEF LiveSocket
  <2>11. CASE phase = "announce" /\ d # ConnectReply
    <3>1. d \in Answers(url, "announce")
      BY <2>1, <2>6, <2>11 DEF LiveSocket
    <3>2. /\ d \in Replies("announce", "announce") /\ Received(d) \in Int
          /\ Received(d) >= 20 /\ Whole(Received(d) - 20)
      BY <1>2, <3>1, LiveAnswers
    <3>3. MinRespLen(phase) = 20 /\ Matches(d)
      BY <2>11, <3>2 DEF MinRespLen, Header, Matches, Replies
    <3>4. ReadPeers(d)
      BY <2>5, <2>11, <3>2, <3>3 DEF ReadShort, ReadConnectReply, ReadRefusal
    <3> QED
      BY <3>4 DEF ReadPeers, ReturnPeers, Return
  <2> QED
    BY <2>2, <2>9, <2>10, <2>11
<1> QED
  BY <1>1, <1>2, RoundTripFrame, InRoundTrip

\* It holds after every step.
LEMMA LiveNext == MaxCopies <= UdpMaxRetries /\ LiveInv /\ [Next]_vars => LiveInv'
<1> SUFFICES ASSUME MaxCopies <= UdpMaxRetries, LiveInv, [Next]_vars
             PROVE  BoundsInv' /\ PassedInv'
  BY NextInv DEF LiveInv
<1>1. CASE UNCHANGED vars
  BY <1>1 DEF vars, callVars, socketVars, returnVars, LiveInv, BoundsInv, PassedInv,
              LiveSocket, url, urls
<1> QED
  BY <1>1, LiveLoopSteps, LiveContextSteps, LiveNextTracker, LiveTrySteps, LiveWrite,
     LiveRepeat, LiveRead
  DEF Next, AnnounceStep

\* If the network repeats no more datagrams than there are retries, an announce finds
\* a tracker that is up while there is time, whatever the trackers before it did
\* (tracker.go: the loop of Announce, udp.go: the loop of udpRoundTrip).
THEOREM TrackerThatIsUpIsFound ==
    ASSUME MaxCopies <= UdpMaxRetries
    PROVE  Spec => []FallsBackInTime
<1>1. LiveInv => FallsBackInTime
  <2> SUFFICES ASSUME LiveInv, result = "allFailed", ctx = "live",
                      NEW u \in Live, u \in ToSet(urls)
               PROVE  FALSE
    BY DEF FallsBackInTime
  <2>1. PICK i \in DOMAIN urls : u = urls[i]
    BY DEF ToSet
  <2>2. i \in 1 .. at - 1
    BY <2>1, UrlsAreUrls DEF LiveInv, BoundsInv
  <2> QED
    BY <2>1, <2>2 DEF LiveInv, PassedInv
<1> QED
  BY <1>1, LiveInitially, LiveNext, PTL DEF Spec
-----------------------------------------------------------------------------
(***************************************************************************)
(* Types.                                                                  *)
(***************************************************************************)

\* The timers of an attempt double from one attempt to the next.
LEMMA ShiftedFacts ==
    /\ \A i \in 0 .. UdpMaxRetries + 1 : Shifted[i] \in Nat \ {0}
    /\ Shifted[0] = 1
    /\ \A i \in 0 .. UdpMaxRetries : Shifted[i + 1] = 2 * Shifted[i]
<1> DEFINE n == UdpMaxRetries + 1
           Shifts(f) == f = [i \in 0 .. n |-> IF i = 0 THEN 1 ELSE 2 * f[i - 1]]
           step == [x \in (1 .. n) \X Nat |-> 2 * x[2]]
<1>1. n \in Nat /\ UdpMaxRetries \in Nat
  BY ConstantsAssumption
<1>2. Shifted = CHOOSE f : Shifts(f)
  BY DEF Shifted
<1> HIDE DEF n
<1>3. step \in Steps(n, Nat)
  BY DEF Steps
<1>4. PICK f : Solution(f, n, Nat, 1, step)
  <2> HIDE DEF step
  <2> QED
    BY <1>1, <1>3, RecursionExists
<1>5. f \in [0 .. n -> Nat] /\ f[0] = 1 /\ \A i \in 1 .. n : f[i] = 2 * f[i - 1]
  <2>1. ASSUME NEW i \in 1 .. n
        PROVE  step[<<i, f[i - 1]>>] = 2 * f[i - 1]
    <3>1. i - 1 \in 0 .. n
      BY <1>1
    <3>2. <<i, f[i - 1]>> \in (1 .. n) \X Nat
      BY <1>4, <3>1 DEF Solution
    <3> QED
      BY <3>2
  <2> HIDE DEF step
  <2> QED
    BY <1>4, <2>1 DEF Solution
<1>6. Shifts(f)
  BY <1>1, <1>5
<1>7. Shifts(Shifted)
  BY <1>2, <1>6
<1>8. Shifted[0] = 1 /\ \A i \in Nat : i + 1 <= n => Shifted[i + 1] = 2 * Shifted[i]
  BY <1>1, <1>7
<1> DEFINE S == {i \in Nat : i <= n => Shifted[i] \in Nat \ {0}}
<1>9. 0 \in S
  BY <1>8
<1>10. \A i \in Nat : i \in S => i + 1 \in S
  BY <1>1, <1>8
<1> HIDE DEF S
<1>11. Nat \subseteq S
  BY <1>9, <1>10, SetInduction
<1> QED
  BY <1>1, <1>8, <1>11 DEF S, n

\* Lengths are numbers.
LEMMA LengthFacts ==
    ASSUME NEW d \in Datagram
    PROVE  Received(d) \in Nat
<1>1. d.load \in Nat
  <2>1. PICK ph \in {"connect", "announce"} :
          d \in Replies(ph, ph) \/ d \in Replies(ph, "foreign") \/ d \in Errors(ph)
    BY DEF Datagram
  <2>2. PeerLoads \cup {0} \cup ErrorLoads \subseteq Nat
    BY ConstantsAssumption
  <2> QED
    BY <2>1, <2>2 DEF Replies, Errors
<1>2. RecvBufferSize \in Nat
  BY ConstantsAssumption DEF RecvBufferSize
<1>3. Header(d.action) \in Nat
  BY DEF Header
<1> QED
  BY <1>1, <1>2, <1>3 DEF Received

\* Waits take natural time, and a peer list is cut to MaxPeers.
LEMMA WaitFacts ==
    ASSUME TypeOK, NEW t \in Nat, Takes(t)
    PROVE  elapsed' \in Nat
  BY DEF TypeOK, Takes

\* A list of peers is whole, and cut to MaxPeers.
LEMMA ReturnPeersFacts ==
    ASSUME NEW bytes \in Nat, ReturnPeers(bytes)
    PROVE  peers' \in 0 .. MaxPeers /\ pc' = "returned" /\ result' = "ok"
<1>1. MaxPeers \in Nat /\ bytes \div 6 \in Nat
  BY ConstantsAssumption
<1> QED
  BY <1>1 DEF ReturnPeers, Return, Lesser

\* The constants that times and counters are made of are numbers.
LEMMA TimesAreNumbers ==
    /\ Delay \subseteq Nat /\ {HttpTimeout, DialTimeout, BaseTimeout} \subseteq Nat
    /\ \A u \in {url} : Delays \subseteq Nat
    /\ Deadline \in Nat /\ MaxPeers \in Nat /\ UdpMaxRetries \in Nat /\ MaxCopies \in Nat
  BY ConstantsAssumption DEF Delays, Deadline

\* Steps of the loop, of HTTP, of the dial and of the context.
LEMMA TypesOfTheLoop ==
    ASSUME TypeOK, IInv,
           \/ NoTrackers \/ SeeDone \/ AllFailed \/ AskTracker \/ NextTracker
           \/ HttpAnswers \/ HttpFails \/ Dial \/ DialFails
           \/ Expire \/ Cancel \/ CloseSocket
    PROVE  TypeOK'
<1>0. /\ Len(urls) \in Nat /\ DOMAIN urls = 1 .. Len(urls)
      /\ pc \notin {"next", "returned"} => url \in Url
  BY UrlsAreUrls DEF TypeOK, url
<1>1. CASE NoTrackers \/ SeeDone \/ AllFailed
  BY <1>1 DEF NoTrackers, SeeDone, AllFailed, Return, callVars, TypeOK, urls
<1>2. CASE AskTracker
  <2>1. pc' \in {"http", "dial", "trackerFailed"} /\ at <= Len(urls)
    BY <1>2, Zenon DEF AskTracker
  <2>2. UNCHANGED <<callVars, at, socketVars, ctx, elapsed, returnVars, heard>>
    BY <1>2 DEF AskTracker
  <2> QED
    BY <2>1, <2>2 DEF callVars, socketVars, returnVars, TypeOK, urls
<1>3. CASE NextTracker
  <2>1. NoDatagrams \in [Datagram -> Nat]
    BY DEF NoDatagrams
  <2>2. 0 \in 0 .. UdpMaxRetries + 1
    BY TimesAreNumbers
  <2>3. /\ pc = "trackerFailed" /\ pc' = "next" /\ at' = at + 1
        /\ phase' = "connect" /\ attempt' = 0 /\ net' = NoDatagrams /\ closed' = FALSE
        /\ excuse' = FALSE
        /\ UNCHANGED <<torrent, caller, copies, ctx, elapsed, result, peers, heard, urls>>
    BY <1>3 DEF NextTracker, NextIndex, callVars, returnVars, urls
  <2>4. at' \in 1 .. Len(urls) + 1
    BY <1>0, <2>3 DEF TypeOK
  <2> QED
    BY <2>1, <2>2, <2>3, <2>4 DEF TypeOK
<1>4. CASE HttpAnswers
  <2>1. PICK load \in PeerLoads : ReturnPeers(load)
    BY <1>4 DEF HttpAnswers
  <2>2. peers' \in 0 .. MaxPeers /\ pc' = "returned" /\ result' = "ok"
    BY <2>1, ConstantsAssumption, ReturnPeersFacts
  <2>3. elapsed' \in Nat
    BY <1>4, WaitFacts, TimesAreNumbers DEF HttpAnswers
  <2>4. UNCHANGED <<callVars, at, phase, attempt, copies, closed, excuse, ctx, net>>
    BY <1>4, <2>1 DEF HttpAnswers, ReturnPeers, Return
  <2>5. heard' \subseteq Url
    BY <1>0, <1>4 DEF HttpAnswers, TypeOK
  <2> QED
    BY <2>2, <2>3, <2>4, <2>5 DEF callVars, TypeOK, urls
<1>5. CASE HttpFails \/ DialFails \/ Dial
  <2>1. elapsed' \in Nat
    BY <1>5, WaitFacts, TimesAreNumbers DEF HttpFails, DialFails, Dial
  <2>2. heard' \subseteq Url
    BY <1>0, <1>5 DEF HttpFails, DialFails, Dial, TypeOK
  <2>3. /\ pc \in {"http", "dial"} /\ pc' \in {"trackerFailed", "attempt"}
        /\ UNCHANGED <<callVars, at, socketVars, ctx, returnVars>>
    BY <1>5 DEF HttpFails, DialFails, Dial
  <2> QED
    BY <2>1, <2>2, <2>3 DEF callVars, socketVars, returnVars, TypeOK, urls
<1>6. CASE Expire \/ Cancel \/ CloseSocket
  <2>1. elapsed' \in Nat
    BY <1>6, TimesAreNumbers DEF Expire, Cancel, CloseSocket, TypeOK
  <2>2. /\ ctx' \in {"live", "cancelled", "expired"} /\ closed' \in BOOLEAN
        /\ UNCHANGED <<callVars, pc, at, phase, attempt, net, copies, excuse, returnVars, heard>>
    BY <1>6 DEF Expire, Cancel, CloseSocket, TypeOK, socketVars
  <2> QED
    BY <2>1, <2>2 DEF callVars, returnVars, TypeOK, urls
<1> QED
  BY <1>1, <1>2, <1>3, <1>4, <1>5, <1>6

\* Steps of the UDP round trips.
LEMMA TypesOfRoundTrips ==
    ASSUME TypeOK, IInv,
           \/ StartAttempt \/ RoundTripEnds \/ WriteFails \/ Write \/ Repeat
           \/ ReadDatagram \/ ReadFails \/ ReadFailsWhenDone
    PROVE  TypeOK'
<1>0. /\ Len(urls) \in Nat /\ DOMAIN urls = 1 .. Len(urls)
      /\ pc \notin {"next", "returned"} => url \in Url
  BY UrlsAreUrls DEF TypeOK, url
<1>1. IInv'
  BY RoundTripSteps, WriteStep, RepeatStep, ReadFailsSteps, ReadShortStep, ReadConnectReplyStep,
     ReadPeersStep, ReadRefusalStep DEF ReadDatagram
<1>2. /\ UNCHANGED <<torrent, caller, at, ctx>>
      /\ closed' = closed
      /\ pc \in {"attempt", "write", "read"}
      /\ pc' \in {"attempt", "write", "read", "trackerFailed", "returned"}
  BY DEF StartAttempt, RoundTripEnds, WriteFails, Write, Repeat, ReadDatagram, ReadFails,
         ReadFailsWhenDone, ReadShort, ReadConnectReply, ReadPeers, ReadRefusal, Read, Again,
         FailTracker, ReturnPeers, Return, callVars, socketVars, returnVars
<1>3. heard' \subseteq Url
  BY <1>0, <1>2
  DEF StartAttempt, RoundTripEnds, WriteFails, Write, Repeat, ReadDatagram, ReadFails,
      ReadFailsWhenDone, ReadShort, ReadConnectReply, ReadPeers, ReadRefusal, Again, TypeOK
<1>4. copies' \in 0 .. MaxCopies
  BY TimesAreNumbers
  DEF StartAttempt, RoundTripEnds, WriteFails, Write, Repeat, ReadDatagram, ReadFails,
      ReadFailsWhenDone, ReadShort, ReadConnectReply, ReadPeers, ReadRefusal, Read, Again,
      FailTracker, ReturnPeers, Return, socketVars, TypeOK
<1>5. attempt' \in 0 .. UdpMaxRetries + 1
  <2>1. attempt' \in {attempt, 0} \/ (attempt' = attempt + 1 /\ attempt <= UdpMaxRetries)
    BY DEF StartAttempt, RoundTripEnds, WriteFails, Write, Repeat, ReadDatagram, ReadFails,
      ReadFailsWhenDone, ReadShort, ReadConnectReply, ReadPeers, ReadRefusal, Read, Again,
      FailTracker, ReturnPeers, Return, socketVars, IInv, NetInv
  <2> QED
    BY <2>1, TimesAreNumbers DEF TypeOK
<1>6. elapsed' \in Nat
  <2>1. CASE StartAttempt \/ RoundTripEnds \/ WriteFails \/ Write \/ Repeat
    BY <2>1 DEF StartAttempt, RoundTripEnds, WriteFails, Write, Repeat, TypeOK
  <2>2. CASE ReadDatagram
    BY <2>2, WaitFacts, TimesAreNumbers
    DEF ReadDatagram, ReadShort, ReadConnectReply, ReadPeers, ReadRefusal, Read
  <2>3. CASE ReadFails \/ ReadFailsWhenDone
    <3>1. ReadTimeout \in Nat
      BY <2>3, ShiftedFacts, TimesAreNumbers
      DEF ReadTimeout, ReadFails, ReadFailsWhenDone, IInv, NetInv
    <3> QED
      BY <2>3, <3>1, WaitFacts DEF ReadFails, ReadFailsWhenDone
  <2> QED
    BY <2>1, <2>2, <2>3
<1>7. /\ peers' \in 0 .. MaxPeers
      /\ result' \in {"none", "ok", "noTrackers", "contextDone", "allFailed"}
  <2>1. ASSUME NEW d \in Datagram, ReadPeers(d)
        PROVE  <1>7!1 /\ <1>7!2
    <3>1. Received(d) - 20 \in Nat
      BY <2>1, LengthFacts DEF ReadPeers, MinRespLen, Header
    <3> QED
      BY <2>1, <3>1, ReturnPeersFacts DEF ReadPeers
  <2>2. (\E d \in Datagram : ReadPeers(d)) \/ UNCHANGED returnVars
    BY DEF StartAttempt, RoundTripEnds, WriteFails, Write, Repeat, ReadDatagram, ReadFails,
      ReadFailsWhenDone, ReadShort, ReadConnectReply, ReadRefusal, Again, FailTracker
  <2> QED
    BY <2>1, <2>2 DEF returnVars, TypeOK
<1> QED
  BY <1>1, <1>2, <1>3, <1>4, <1>5, <1>6, <1>7 DEF TypeOK, IInv, NetInv, urls

\* Every variable of an announce keeps its type, for any trackers and any answers.
THEOREM TypeCorrect == Spec => []TypeOK
<1>1. Init => TypeOK
  <2> SUFFICES ASSUME Init PROVE TypeOK
    OBVIOUS
  <2>1. NoDatagrams \in [Datagram -> Nat]
    BY DEF NoDatagrams
  <2>2. Len(urls) \in Nat
    BY UrlsAreUrls DEF Init
  <2>3. 0 \in 0 .. UdpMaxRetries + 1 /\ 0 \in 0 .. MaxCopies /\ 0 \in 0 .. MaxPeers
    BY TimesAreNumbers
  <2>4. at \in 1 .. Len(urls) + 1
    BY <2>2 DEF Init
  <2> QED
    BY <2>1, <2>3, <2>4 DEF Init, TypeOK
<1>2. TypeOK /\ IInv /\ [Next]_vars => TypeOK'
  <2> SUFFICES ASSUME TypeOK, IInv, [Next]_vars PROVE TypeOK'
    OBVIOUS
  <2>1. CASE UNCHANGED vars
    BY <2>1 DEF vars, callVars, socketVars, returnVars, TypeOK, urls
  <2> QED
    BY <2>1, TypesOfTheLoop, TypesOfRoundTrips DEF Next, AnnounceStep
<1> QED
  BY <1>1, <1>2, Invariant, PTL DEF Spec

\* Each tracker is asked once, and in the order of its tiers: Trackers() lists them so
\* for every announce-list, and the loop of Announce walks that list.
THEOREM TrackersAreAskedInTurn == Spec => []TierOrder
<1>1. TypeOK => TierOrder
  <2> SUFFICES ASSUME TypeOK, pc \notin {"next", "returned"}
               PROVE  TierOrder
    BY DEF TierOrder
  <2> DEFINE tiers == torrent.announceList
  <2>1. at \in 1 .. Len(urls) /\ urls = Trackers(torrent) /\ torrent \in Torrents
    BY UrlsAreUrls DEF TypeOK, urls, trackersOf
  <2>2. /\ urls \in Seq(Url) /\ url \notin Before(urls, at)
        /\ \/ \E k \in DOMAIN tiers : InTurn(urls, at, tiers, k)
           \/ /\ url = torrent.announce
              /\ \A k \in DOMAIN tiers : ToSet(tiers[k]) \subseteq Before(urls, at) \cup {NoUrl}
    BY <2>1, TrackersFacts DEF url
  <2>3. url \in Url /\ NoUrl \notin Url
    BY <2>1, <2>2, ConstantsAssumption DEF url
  <2> QED
    BY <2>2, <2>3 DEF TierOrder, InTurn, Before, url
<1> QED
  BY <1>1, TypeCorrect, PTL

-----------------------------------------------------------------------------
(***************************************************************************)
(* Time.                                                                   *)
(***************************************************************************)

\* The time of k attempts that run into their timers.
Waited(k) == BaseTimeout * (Shifted[k] - 1)

Longest ==
    IF HttpTimeout <= DialTimeout + 2 * RoundTripTime
    THEN DialTimeout + 2 * RoundTripTime ELSE HttpTimeout

\* The most that the trackers before the i-th take.
Past(i) == (i - 1) * Longest

\* The attempts whose time has passed: in a read that the deadline ended, also its own.
Attempts == IF pc = "read" /\ ctx = "expired" THEN attempt + 1 ELSE attempt

\* The most that a tracker has taken at p, in round trip ph, after n attempts, where c is
\* the context: the deadline may have ended a wait.
Spends(p, ph, n, c) ==
    CASE p = "next" -> 0
      [] p = "http" -> IF c = "expired" THEN HttpTimeout ELSE 0
      [] p = "dial" -> IF c = "expired" THEN DialTimeout ELSE 0
      [] p \in {"attempt", "write", "read"} ->
            DialTimeout + (IF ph = "announce" THEN RoundTripTime ELSE 0) + Waited(n)
      [] OTHER -> Longest
Spent == Spends(pc, phase, Attempts, ctx)

TimeInv ==
    /\ HasDeadline => elapsed <= Deadline
    /\ elapsed <= Past(at) + Spent

\* The timers of the attempts add up to those of the round trip.
LEMMA WaitedFacts ==
    /\ Waited(0) = 0 /\ RoundTripTime \in Nat
    /\ \A k \in 0 .. UdpMaxRetries + 1 : Waited(k) \in Nat /\ Waited(k) <= RoundTripTime
    /\ \A k \in 0 .. UdpMaxRetries :
         /\ BaseTimeout * Shifted[k] \in Nat
         /\ Waited(k + 1) = Waited(k) + BaseTimeout * Shifted[k]
<1>1. BaseTimeout \in Nat /\ UdpMaxRetries \in Nat
  BY TimesAreNumbers
<1>2. ASSUME NEW k \in 0 .. UdpMaxRetries + 1
      PROVE  Waited(k) \in Nat
  <2>1. Shifted[k] - 1 \in Nat
    BY ShiftedFacts
  <2> QED
    BY <1>1, <2>1 DEF Waited
<1>3. ASSUME NEW k \in 0 .. UdpMaxRetries
      PROVE  /\ BaseTimeout * Shifted[k] \in Nat
             /\ Waited(k + 1) = Waited(k) + BaseTimeout * Shifted[k]
  <2>1. Shifted[k] \in Nat /\ Shifted[k + 1] = 2 * Shifted[k]
    BY <1>1, ShiftedFacts
  <2>2. \A x \in Nat : BaseTimeout * x \in Nat
                       /\ BaseTimeout * (2 * x - 1) = BaseTimeout * (x - 1) + BaseTimeout * x
    BY <1>1
  <2> QED
    BY <2>1, <2>2 DEF Waited
<1>4. \A k \in 0 .. UdpMaxRetries + 1 : Waited(k) <= RoundTripTime
  <2> DEFINE n == UdpMaxRetries + 1
             S == {m \in Nat : m <= n => Waited(n - m) <= Waited(n)}
  <2>1. 0 \in S
    BY <1>1, <1>2
  <2>2. ASSUME NEW m \in Nat, m \in S
        PROVE  m + 1 \in S
    <3> SUFFICES ASSUME m + 1 <= n
                 PROVE  Waited(n - (m + 1)) <= Waited(n)
      OBVIOUS
    <3> DEFINE k == n - (m + 1)
    <3>1. k \in 0 .. UdpMaxRetries /\ k + 1 = n - m /\ n \in 0 .. UdpMaxRetries + 1
      BY <1>1
    <3>2. Waited(k + 1) <= Waited(n)
      BY <1>1, <2>2, <3>1
    <3> HIDE DEF k
    <3>3. Waited(k) <= Waited(k + 1)
      BY <1>1, <1>2, <1>3, <3>1
    <3>4. Waited(k) \in Nat /\ Waited(k + 1) \in Nat /\ Waited(n) \in Nat
      BY <1>1, <1>2, <3>1
    <3>5. Waited(k) <= Waited(n)
      BY <3>2, <3>3, <3>4
    <3> QED
      BY <3>5 DEF k
  <2> HIDE DEF S
  <2>3. Nat \subseteq S
    BY <2>1, <2>2, SetInduction
  <2>4. ASSUME NEW k \in 0 .. UdpMaxRetries + 1
        PROVE  Waited(k) <= Waited(n)
    <3>1. n - k \in Nat /\ n - k <= n /\ n - (n - k) = k
      BY <1>1
    <3> QED
      BY <2>3, <3>1 DEF S
  <2> QED
    BY <2>4 DEF RoundTripTime, Waited
<1>5. Waited(0) = 0 /\ RoundTripTime = Waited(UdpMaxRetries + 1)
  BY <1>1, ShiftedFacts DEF Waited, RoundTripTime
<1>6. RoundTripTime \in Nat
  BY <1>1, <1>2, <1>5
<1> QED
  BY <1>2, <1>3, <1>4, <1>5, <1>6

\* No tracker takes longer than Longest.
LEMMA LongestFacts ==
    /\ Longest \in Nat /\ HttpTimeout <= Longest /\ DialTimeout + 2 * RoundTripTime <= Longest
    /\ Longest \in TrackerTime
    /\ \A i \in Nat : Past(i + 1) = Past(i) + Longest
    /\ \A i \in Nat \ {0} : Past(i) \in Nat
<1>1. /\ Longest \in Nat /\ HttpTimeout <= Longest /\ DialTimeout + 2 * RoundTripTime <= Longest
      /\ Longest \in TrackerTime
  BY TimesAreNumbers, WaitedFacts DEF Longest, TrackerTime
<1>2. \A i \in Nat : Past(i + 1) = Past(i) + Longest
  BY <1>1 DEF Past
<1>3. \A i \in Nat \ {0} : Past(i) \in Nat
  <2>1. \A i \in Nat \ {0} : i - 1 \in Nat
    OBVIOUS
  <2>2. \A i \in Nat : i * Longest \in Nat
    BY <1>1
  <2> QED
    BY <2>1, <2>2 DEF Past
<1> QED
  BY <1>1, <1>2, <1>3

\* A step that spends t in a wait, at most what its timer adds to what is spent.
LEMMA TimeStep ==
    ASSUME TypeOK, TimeInv, NEW t \in Nat, Takes(t), UNCHANGED <<caller, at>>,
           Spent \in Nat, Spent' \in Nat, t > 0 /\ ctx = "live" => Spent + t <= Spent',
           t = 0 \/ ctx # "live" => Spent <= Spent'
    PROVE  TimeInv'
<1>1. elapsed' = elapsed + t /\ (t > 0 => ctx = "live" /\ (HasDeadline => elapsed + t < Deadline))
  BY DEF Takes, ClosesWhenDone
<1>2. elapsed \in Nat /\ Past(at) \in Nat /\ Deadline \in Nat /\ Past(at)' = Past(at)
  BY LongestFacts, TimesAreNumbers DEF TypeOK, Past
<1>3. HasDeadline' = HasDeadline /\ Deadline' = Deadline
  BY DEF HasDeadline, Deadline
<1>4. t = 0 \/ Spent + t <= Spent'
  BY <1>1
<1>5. elapsed' <= Past(at) + Spent'
  BY <1>1, <1>2, <1>4 DEF TimeInv
<1> QED
  BY <1>1, <1>2, <1>3, <1>5 DEF TimeInv

\* A step without a wait, to where no less may be spent.
LEMMA NoTimeStep ==
    ASSUME TypeOK, TimeInv, UNCHANGED <<caller, at, elapsed>>,
           Spent \in Nat, Spent' \in Nat, Spent <= Spent'
    PROVE  TimeInv'
<1>1. elapsed \in Nat /\ Past(at) \in Nat /\ Past(at)' = Past(at)
  BY LongestFacts DEF TypeOK, Past
<1> QED
  BY <1>1 DEF TimeInv, HasDeadline, Deadline

\* What is spent is a time, and not more than the longest.
LEMMA SpendsFacts ==
    ASSUME NEW p, NEW ph, NEW n \in 0 .. UdpMaxRetries + 1, NEW c
    PROVE  Spends(p, ph, n, c) \in Nat /\ Spends(p, ph, n, c) <= Longest
<1>1. Waited(n) \in Nat /\ Waited(n) <= RoundTripTime /\ RoundTripTime \in Nat
  BY WaitedFacts
<1>2. /\ Longest \in Nat /\ HttpTimeout <= Longest
      /\ DialTimeout + 2 * RoundTripTime <= Longest
      /\ HttpTimeout \in Nat /\ DialTimeout \in Nat
  BY LongestFacts, TimesAreNumbers
<1>3. CASE p \in {"attempt", "write", "read"}
  <2>1. Spends(p, ph, n, c) =
          DialTimeout + (IF ph = "announce" THEN RoundTripTime ELSE 0) + Waited(n)
    BY <1>3 DEF Spends
  <2> QED
    BY <1>1, <1>2, <2>1
<1>4. CASE p \in {"next", "http", "dial"}
  BY <1>1, <1>2, <1>4 DEF Spends
<1>5. CASE p \notin {"attempt", "write", "read", "next", "http", "dial"}
  BY <1>2, <1>5 DEF Spends
<1> QED
  BY <1>3, <1>4, <1>5

\* The same in a state and in the next.
LEMMA SpentFacts ==
    ASSUME TypeOK, IInv, TypeOK', IInv'
    PROVE  /\ Spent \in Nat /\ Spent <= Longest
           /\ Spent' \in Nat /\ Spent' <= Longest
<1>1. Attempts \in 0 .. UdpMaxRetries + 1
  BY TimesAreNumbers DEF TypeOK, IInv, NetInv, Attempts
<1>2. Attempts' \in 0 .. UdpMaxRetries + 1
  <2>1. attempt' \in 0 .. UdpMaxRetries + 1 /\ (pc' = "read" => attempt' <= UdpMaxRetries)
    BY DEF TypeOK, IInv, NetInv
  <2>2. UdpMaxRetries \in Nat
    BY TimesAreNumbers
  <2>3. \/ Attempts' = attempt'
        \/ Attempts' = attempt' + 1 /\ pc' = "read"
    BY DEF Attempts
  <2> QED
    BY <2>1, <2>2, <2>3
<1> QED
  BY <1>1, <1>2, SpendsFacts DEF Spent

\* Steps of the loop, of HTTP, of the dial and of the context.
LEMMA TimeOfTheLoop ==
    ASSUME TypeOK, TypeOK', IInv, IInv', TimeInv,
           \/ NoTrackers \/ SeeDone \/ AllFailed \/ AskTracker \/ NextTracker
           \/ HttpAnswers \/ HttpFails \/ Dial \/ DialFails \/ Cancel \/ CloseSocket \/ Expire
    PROVE  TimeInv'
<1>0. /\ Spent \in Nat /\ Spent <= Longest /\ Spent' \in Nat /\ Longest \in Nat
      /\ HttpTimeout <= Longest /\ DialTimeout <= Longest
      /\ HttpTimeout \in Nat /\ DialTimeout \in Nat
  BY SpentFacts, LongestFacts, TimesAreNumbers, WaitedFacts
<1>1. CASE NoTrackers \/ SeeDone \/ AllFailed
  <2>1. pc' = "returned" /\ UNCHANGED <<caller, at, elapsed>>
    BY <1>1 DEF NoTrackers, SeeDone, AllFailed, Return, callVars
  <2>2. Spent' = Longest
    BY <2>1 DEF Spent, Spends
  <2> QED
    BY <1>0, <2>1, <2>2, NoTimeStep
<1>2. CASE AskTracker
  <2>1. pc = "next" /\ UNCHANGED <<caller, at, elapsed>>
    BY <1>2 DEF AskTracker, callVars
  <2>2. Spent = 0
    BY <2>1 DEF Spent, Spends
  <2> QED
    BY <1>0, <2>1, <2>2, NoTimeStep
<1>3. CASE NextTracker
  <2>1. pc = "trackerFailed" /\ pc' = "next" /\ at' = at + 1 /\ UNCHANGED <<caller, elapsed>>
    BY <1>3 DEF NextTracker, NextIndex, callVars
  <2>2. Spent = Longest /\ Spent' = 0
    BY <2>1 DEF Spent, Spends
  <2>3. at \in Nat \ {0} /\ elapsed \in Nat
    BY DEF TypeOK
  <2>6. Past(at) \in Nat /\ Past(at + 1) = Past(at) + Longest
    BY <2>3, LongestFacts
  <2>4. Past(at)' = Past(at + 1)
    BY <2>1 DEF Past, Longest, RoundTripTime
  <2>5. elapsed' <= Past(at)' + Spent'
    BY <1>0, <2>1, <2>2, <2>3, <2>4, <2>6 DEF TimeInv
  <2> QED
    BY <2>1, <2>5 DEF TimeInv, HasDeadline, Deadline
<1>4. CASE HttpAnswers \/ HttpFails
  <2>1. /\ pc = "http" /\ pc' \in {"returned", "trackerFailed"} /\ UNCHANGED <<caller, at>>
    BY <1>4 DEF HttpAnswers, HttpFails, ReturnPeers, Return, callVars
  <2>2. PICK t \in Nat : t <= HttpTimeout /\ Takes(t)
    BY <1>4, TimesAreNumbers DEF HttpAnswers, HttpFails
  <2>3. Spent' = Longest /\ (ctx = "live" => Spent = 0)
    BY <2>1 DEF Spent, Spends
  <2> QED
    BY <1>0, <2>1, <2>2, <2>3, TimeStep
<1>5. CASE DialFails
  <2>1. /\ pc = "dial" /\ pc' = "trackerFailed" /\ UNCHANGED <<caller, at>>
    BY <1>5 DEF DialFails, callVars
  <2>2. PICK t \in Nat : t <= DialTimeout /\ Takes(t)
    BY <1>5, TimesAreNumbers DEF DialFails
  <2>3. Spent' = Longest /\ (ctx = "live" => Spent = 0)
    BY <2>1 DEF Spent, Spends
  <2> QED
    BY <1>0, <2>1, <2>2, <2>3, TimeStep
<1>6. CASE Dial
  <2>1. /\ pc = "dial" /\ pc' = "attempt" /\ ctx = "live" /\ phase' = "connect"
        /\ UNCHANGED <<caller, at, attempt, ctx>>
    BY <1>6 DEF Dial, callVars, socketVars, IInv, NetInv
  <2>2. PICK t \in Nat : t <= DialTimeout /\ Takes(t)
    BY <1>6, TimesAreNumbers DEF Dial
  <2>4. Waited(attempt) \in Nat
    BY WaitedFacts DEF TypeOK
  <2>3. Spent' = DialTimeout + Waited(attempt) /\ Spent = 0
    <3>1. Attempts' = attempt
      BY <2>1 DEF Attempts
    <3> QED
      BY <1>0, <2>1, <2>4, <3>1 DEF Spent, Spends
  <2> QED
    BY <1>0, <2>1, <2>2, <2>3, <2>4, TimeStep
<1>7. CASE Cancel \/ CloseSocket
  <2>1. /\ UNCHANGED <<caller, at, elapsed, pc, phase, attempt>>
        /\ ctx' = ctx \/ (ctx = "live" /\ ctx' = "cancelled")
    BY <1>7 DEF Cancel, CloseSocket, callVars, socketVars
  <2>2. Spent' = Spent
    <3>1. Attempts' = Attempts
      BY <2>1 DEF Attempts
    <3> QED
      BY <2>1, <3>1 DEF Spent, Spends
  <2> QED
    BY <1>0, <2>1, <2>2, NoTimeStep
<1>8. CASE Expire
  <2>1. /\ pc \in {"http", "dial", "read"} /\ ctx = "live" /\ ctx' = "expired" /\ HasDeadline
        /\ elapsed' = Deadline /\ elapsed + Timer >= Deadline
        /\ UNCHANGED <<caller, at, pc, phase, attempt>>
    BY <1>8 DEF Expire, callVars, socketVars
  <2>2. Timer \in Nat /\ Spent + Timer <= Spent'
    <3>1. CASE pc = "http"
      <4>1. Timer = HttpTimeout /\ Spent = 0 /\ Spent' = HttpTimeout
        BY <2>1, <3>1 DEF Timer, Spent, Spends
      <4> QED
        BY <1>0, <4>1
    <3>2. CASE pc = "dial"
      <4>1. Timer = DialTimeout /\ Spent = 0 /\ Spent' = DialTimeout
        BY <2>1, <3>2 DEF Timer, Spent, Spends
      <4> QED
        BY <1>0, <4>1
    <3>3. CASE pc = "read"
      <4> DEFINE base == DialTimeout + (IF phase = "announce" THEN RoundTripTime ELSE 0)
      <4>1. Attempts = attempt /\ Attempts' = attempt + 1
        BY <2>1, <3>3 DEF Attempts
      <4>2. Spent = base + Waited(attempt) /\ Spent' = base + Waited(attempt + 1)
        BY <2>1, <3>3, <4>1 DEF Spent, Spends
      <4>3. attempt \in 0 .. UdpMaxRetries
        BY <3>3, TimesAreNumbers DEF IInv, NetInv
      <4>4. /\ BaseTimeout * Shifted[attempt] \in Nat /\ Waited(attempt) \in Nat
            /\ Waited(attempt + 1) = Waited(attempt) + BaseTimeout * Shifted[attempt]
        BY <4>3, TimesAreNumbers, WaitedFacts
      <4>5. Timer = BaseTimeout * Shifted[attempt]
        BY <3>3 DEF Timer, ReadTimeout
      <4>6. base \in Nat
        BY <1>0, WaitedFacts
      <4> HIDE DEF base
      <4> QED
        BY <4>2, <4>4, <4>5, <4>6
    <3> QED
      BY <2>1, <3>1, <3>2, <3>3
  <2>3. /\ elapsed \in Nat /\ Past(at) \in Nat /\ Past(at)' = Past(at) /\ Deadline \in Nat
        /\ Deadline' = Deadline
    <3>1. Past(at)' = Past(at) /\ Deadline' = Deadline
      BY <2>1 DEF Past, Longest, RoundTripTime, Deadline
    <3>2. at \in Nat \ {0} /\ elapsed \in Nat
      BY DEF TypeOK
    <3> QED
      BY <3>1, <3>2, LongestFacts, TimesAreNumbers
  <2>4. elapsed' <= Past(at)' + Spent'
    BY <1>0, <2>1, <2>2, <2>3 DEF TimeInv
  <2> QED
    BY <2>1, <2>3, <2>4 DEF TimeInv
<1> QED
  BY <1>1, <1>2, <1>3, <1>4, <1>5, <1>6, <1>7, <1>8

\* The round trips: a read spends the timer of its attempt, and the next one begins.
LEMMA TimeOfRoundTrips ==
    ASSUME TypeOK, TypeOK', IInv, IInv', TimeInv,
           \/ StartAttempt \/ RoundTripEnds \/ WriteFails \/ Write \/ Repeat
           \/ ReadDatagram \/ ReadFails \/ ReadFailsWhenDone
    PROVE  TimeInv'
<1>0. /\ Spent \in Nat /\ Spent <= Longest /\ Spent' \in Nat /\ Longest \in Nat
      /\ DialTimeout + 2 * RoundTripTime <= Longest
      /\ DialTimeout \in Nat /\ RoundTripTime \in Nat
  BY SpentFacts, LongestFacts, TimesAreNumbers, WaitedFacts
<1>1. UNCHANGED <<caller, at, ctx>>
  BY DEF StartAttempt, RoundTripEnds, WriteFails, Write, Repeat, ReadDatagram, ReadFails,
         ReadFailsWhenDone, ReadShort, ReadConnectReply, ReadPeers, ReadRefusal, Read, Again,
         FailTracker, ReturnPeers, Return, callVars, socketVars
<1>2. CASE StartAttempt \/ RoundTripEnds \/ WriteFails \/ Write \/ Repeat
  <2>1. elapsed' = elapsed
    BY <1>2 DEF StartAttempt, RoundTripEnds, WriteFails, Write, Repeat
  <2>2. CASE pc' = "trackerFailed"
    <3>1. Spent' = Longest
      BY <2>2 DEF Spent, Spends
    <3> QED
      BY <1>0, <1>1, <2>1, <3>1, NoTimeStep
  <2>3. CASE pc' # "trackerFailed"
    <3>1. /\ pc \in {"attempt", "write", "read"} /\ pc' \in {"attempt", "write", "read"}
          /\ pc = "read" => pc' = "read"
          /\ UNCHANGED <<phase, attempt>>
      BY <1>2, <2>3
      DEF StartAttempt, RoundTripEnds, WriteFails, Write, Repeat, FailTracker, socketVars
    <3> DEFINE base == DialTimeout + (IF phase = "announce" THEN RoundTripTime ELSE 0)
    <3>2. Spent = base + Waited(Attempts) /\ Spent' = base + Waited(Attempts')
      BY <3>1 DEF Spent, Spends
    <3>3. Attempts' = Attempts \/ (Attempts = attempt /\ Attempts' = attempt + 1)
      BY <1>1, <3>1 DEF Attempts
    <3>4. attempt \in Nat /\ attempt + 1 \in Nat
      BY DEF TypeOK
    <3>5. Waited(Attempts) \in Nat /\ Waited(Attempts') \in Nat /\ Waited(Attempts) <= Waited(Attempts')
      <4>1. CASE Attempts' = Attempts
        <5>1. Attempts \in 0 .. UdpMaxRetries + 1
          BY TimesAreNumbers DEF Attempts, TypeOK, IInv, NetInv
        <5> QED
          BY <4>1, <5>1, WaitedFacts
      <4>2. CASE Attempts' # Attempts
        <5>1. pc' = "read" /\ attempt' = attempt
          BY <1>1, <3>1, <4>2 DEF Attempts
        <5>2. attempt \in 0 .. UdpMaxRetries
          BY <3>4, <5>1 DEF IInv, NetInv
        <5>3. UdpMaxRetries \in Nat
          BY TimesAreNumbers
        <5> QED
          BY <3>3, <4>2, <5>2, <5>3, WaitedFacts
      <4> QED
        BY <4>1, <4>2
    <3>6. base \in Nat
      BY <1>0
    <3> HIDE DEF base
    <3>7. Spent <= Spent'
      BY <3>2, <3>5, <3>6
    <3> QED
      BY <1>0, <1>1, <2>1, <3>7, NoTimeStep
  <2> QED
    BY <2>2, <2>3
<1>3. CASE ReadDatagram \/ ReadFails \/ ReadFailsWhenDone
  <2> DEFINE base == DialTimeout + (IF phase = "announce" THEN RoundTripTime ELSE 0)
  <2>1. pc = "read" /\ pc' \in {"attempt", "trackerFailed", "returned"}
    BY <1>3
    DEF ReadDatagram, ReadFails, ReadFailsWhenDone, ReadShort, ReadConnectReply, ReadPeers,
        ReadRefusal, Read, Again, FailTracker, ReturnPeers, Return
  <2>2. attempt \in 0 .. UdpMaxRetries /\ UdpMaxRetries \in Nat
    BY <2>1, TimesAreNumbers DEF IInv, NetInv
  <2>3. /\ Waited(attempt) \in Nat /\ Waited(attempt + 1) \in Nat /\ ReadTimeout \in Nat
        /\ Waited(attempt + 1) = Waited(attempt) + ReadTimeout
        /\ Waited(attempt + 1) <= RoundTripTime
    BY <2>2, WaitedFacts DEF ReadTimeout
  <2>4. PICK t \in Nat : t <= ReadTimeout /\ Takes(t)
    <3>1. 0 \in Nat /\ 0 <= ReadTimeout /\ ReadTimeout <= ReadTimeout
      BY <2>3
    <3> QED
      BY <1>3, <2>3, <3>1, TimesAreNumbers
      DEF ReadDatagram, ReadFails, ReadFailsWhenDone, ReadShort, ReadConnectReply, ReadPeers,
          ReadRefusal, Read
  <2>5. Spent = base + (IF ctx = "expired" THEN Waited(attempt + 1) ELSE Waited(attempt))
    BY <2>1 DEF Spent, Spends, Attempts
  <2>6. base \in Nat /\ base + RoundTripTime <= Longest
    BY <1>0
  <2>7. /\ Spent <= base + Waited(attempt + 1)
        /\ t > 0 /\ ctx = "live" => Spent + t <= base + Waited(attempt + 1)
    <3> HIDE DEF base
    <3> QED
      BY <2>3, <2>4, <2>5, <2>6
  <2>8. base + Waited(attempt + 1) <= Spent'
    <3>1. CASE pc' \in {"trackerFailed", "returned"}
      <4>1. Spent' = Longest
        BY <3>1 DEF Spent, Spends
      <4> HIDE DEF base
      <4> QED
        BY <1>0, <2>3, <2>6, <4>1
    <3>2. CASE pc' = "attempt"
      <4>1. \/ phase' = phase /\ attempt' = attempt + 1
            \/ phase = "connect" /\ phase' = "announce" /\ attempt' = 0
        BY <1>3, <3>2
        DEF ReadDatagram, ReadFails, ReadFailsWhenDone, ReadShort, ReadConnectReply, ReadPeers,
            ReadRefusal, Again, FailTracker, ReturnPeers, Return
      <4>2. Spent' = DialTimeout + (IF phase' = "announce" THEN RoundTripTime ELSE 0)
                       + Waited(attempt')
        BY <3>2 DEF Spent, Spends, Attempts
      <4>3. CASE phase' = phase /\ attempt' = attempt + 1
        BY <1>0, <2>3, <4>2, <4>3
      <4>4. CASE phase = "connect" /\ phase' = "announce" /\ attempt' = 0
        <5>1. Spent' = DialTimeout + RoundTripTime + 0
          BY <4>2, <4>4, WaitedFacts
        <5>2. base = DialTimeout
          BY <1>0, <4>4
        <5> QED
          BY <1>0, <2>3, <5>1, <5>2
      <4> QED
        BY <4>1, <4>3, <4>4
    <3> QED
      BY <2>1, <3>1, <3>2
  <2> HIDE DEF base
  <2> QED
    BY <1>0, <1>1, <2>3, <2>4, <2>6, <2>7, <2>8, TimeStep
<1> QED
  BY <1>2, <1>3

\* An announce ends by its deadline, and takes no longer than the timers of the trackers
\* that it has come to, for any number of retries and whatever the trackers answer.
THEOREM AnnounceIsInTime == Spec => []InTime
<1>1. Init => TimeInv
  <2> SUFFICES ASSUME Init PROVE TimeInv
    OBVIOUS
  <2>1. elapsed = 0 /\ at = 1 /\ pc = "next"
    BY DEF Init
  <2>2. Past(1) = 0 /\ Spent = 0
    BY <2>1, LongestFacts DEF Past, Spent, Spends
  <2> QED
    BY <2>1, <2>2, TimesAreNumbers DEF TimeInv
<1>2. TypeOK /\ TypeOK' /\ IInv /\ IInv' /\ TimeInv /\ [Next]_vars => TimeInv'
  <2> SUFFICES ASSUME TypeOK, TypeOK', IInv, IInv', TimeInv, [Next]_vars
               PROVE  TimeInv'
    OBVIOUS
  <2>1. CASE UNCHANGED vars
    <3>1. UNCHANGED <<caller, at, elapsed, pc, phase, attempt, ctx>>
      BY <2>1 DEF vars, callVars, socketVars
    <3>2. Spent' = Spent
      BY <3>1 DEF Spent, Spends, Attempts
    <3> QED
      BY <3>1, <3>2, NoTimeStep, SpentFacts
  <2> QED
    BY <2>1, TimeOfTheLoop, TimeOfRoundTrips DEF Next, AnnounceStep
<1>3. TypeOK /\ IInv /\ TimeInv => InTime
  <2> SUFFICES ASSUME TypeOK, IInv, TimeInv PROVE InTime
    OBVIOUS
  <2>1. at \in Nat \ {0} /\ elapsed \in Nat
    BY DEF TypeOK
  <2>2. Attempts \in 0 .. UdpMaxRetries + 1
    BY TimesAreNumbers DEF TypeOK, IInv, NetInv, Attempts
  <2>3. Spent \in Nat /\ Spent <= Longest
    BY <2>2, SpendsFacts DEF Spent
  <2>4. Past(at) + Longest = at * Longest /\ Past(at) \in Nat /\ Longest \in Nat
    <3>1. \A m \in Nat : (at - 1) * m + m = at * m
      BY <2>1
    <3> QED
      BY <2>1, <3>1, LongestFacts DEF Past
  <2>5. elapsed <= at * Longest
    BY <2>1, <2>3, <2>4 DEF TimeInv
  <2>6. \A t \in TrackerTime : t <= Longest
    <3>1. HttpTimeout <= Longest /\ DialTimeout + 2 * RoundTripTime <= Longest
      BY LongestFacts
    <3> QED
      BY <3>1 DEF TrackerTime
  <2> QED
    BY <2>5, <2>6, LongestFacts DEF InTime, TimeInv
<1> QED
  BY <1>1, <1>2, <1>3, TypeCorrect, Invariant, PTL DEF Spec
=============================================================================
