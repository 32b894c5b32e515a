------------------------- MODULE PeerSessionProofs --------------------------
(***************************************************************************)
(* Proofs about PeerSession: the decoder against the automaton, the bytes  *)
(* of the info hash, the pieces of a peer.                                 *)
(***************************************************************************)
EXTENDS PeerSession, MetainfoProofs, SequenceTheorems

Expected == {"one", "list", "key", "value"}

-----------------------------------------------------------------------------
(***************************************************************************)
(* The automaton.                                                          *)
(***************************************************************************)
\* A stack has a top, and is one shorter without it.
LEMMA TopFacts ==
    ASSUME NEW st \in Seq(Expected), st # <<>>
    PROVE  /\ Last(st) \in Expected /\ Last(st) = st[Len(st)]
           /\ Len(st) \in Nat \ {0} /\ st # Stuck
           /\ Front(st) \in Seq(Expected) /\ Len(Front(st)) = Len(st) - 1
<1>1. Len(st) \in Nat \ {0} /\ Last(st) = st[Len(st)] /\ st[Len(st)] \in Expected
  BY DEF Last
<1>2. Front(st) \in Seq(Expected) /\ Len(Front(st)) = Len(st) - 1
  <2>1. 1 \in Int /\ Len(st) - 1 \in Int /\ \A i \in 1 .. Len(st) - 1 : st[i] \in Expected
    BY <1>1
  <2>2. /\ SubSeq(st, 1, Len(st) - 1) \in Seq(Expected)
        /\ Len(SubSeq(st, 1, Len(st) - 1)) = IF 1 <= Len(st) - 1 THEN (Len(st) - 1) - 1 + 1 ELSE 0
    BY <2>1, SubSeqProperties
  <2>3. Front(st) = SubSeq(st, 1, Len(st) - 1)
    BY DEF Front
  <2>4. CASE Len(st) = 1
    BY <2>2, <2>3, <2>4
  <2>5. CASE Len(st) > 1
    BY <1>1, <2>2, <2>3, <2>5
  <2>6. Len(st) = 1 \/ Len(st) > 1
    <3>1. \A l \in Nat \ {0} : l = 1 \/ l > 1
      OBVIOUS
    <3> QED
      BY <1>1, <3>1
  <2>7. Len(Front(st)) = Len(st) - 1
    BY <2>4, <2>5, <2>6
  <2> QED
    BY <2>2, <2>3, <2>7
<1>3. st # Stuck
  <2>1. Stuck[1] = "stuck" /\ st[1] \in Expected
    BY <1>1 DEF Stuck
  <2>2. "stuck" \notin Expected
    BY DEF Expected
  <2> QED
    BY <2>1, <2>2
<1> QED
  BY <1>1, <1>2, <1>3

\* A stack with something more on it.
LEMMA PushFacts ==
    ASSUME NEW st \in Seq(Expected), NEW x \in Expected
    PROVE  /\ Append(st, x) \in Seq(Expected) /\ Append(st, x) # <<>>
           /\ Last(Append(st, x)) = x /\ Len(Append(st, x)) = Len(st) + 1
           /\ Front(Append(st, x)) = st
<1>1. /\ Append(st, x) \in Seq(Expected) /\ Len(Append(st, x)) = Len(st) + 1
      /\ Last(Append(st, x)) = x
  BY DEF Last
<1>2. Front(Append(st, x)) = SubSeq(Append(st, x), 1, Len(st))
  BY <1>1 DEF Front
<1>3. SubSeq(Append(st, x), 1, Len(st)) = st
  OBVIOUS
<1> QED
  BY <1>1, <1>2, <1>3

\* The stack after a value, by what was expected.
LEMMA AfterValueFacts ==
    ASSUME NEW st \in Seq(Expected), st # <<>>, Last(st) # "key"
    PROVE  /\ AfterValue(st) \in Seq(Expected)
           /\ Last(st) = "list" => AfterValue(st) = st
           /\ Last(st) = "value" => AfterValue(st) = Append(Front(st), "key")
           /\ Last(st) = "one" => AfterValue(st) = Front(st)
<1>1. Last(st) \in {"one", "list", "value"} /\ Front(st) \in Seq(Expected)
  BY TopFacts DEF Expected
<1>2. Append(Front(st), "key") \in Seq(Expected)
  BY <1>1, PushFacts DEF Expected
<1> QED
  BY <1>1, <1>2 DEF AfterValue

\* A step of the automaton.
LEMMA ReadFacts ==
    ASSUME NEW st \in Seq(Expected), st # <<>>, NEW token \in Token
    PROVE  /\ Last(st) = "key" /\ token \in String => Read(st, token) = Append(Front(st), "value")
           /\ Last(st) \in {"key", "list"} /\ token = "e" => Read(st, token) = Front(st)
           /\ Last(st) # "key" /\ token \in String \cup Number => Read(st, token) = AfterValue(st)
           /\ Last(st) # "key" /\ token = "l" /\ Len(AfterValue(st)) < MaxParseDepth =>
                  Read(st, token) = Append(AfterValue(st), "list")
           /\ Last(st) # "key" /\ token = "d" /\ Len(AfterValue(st)) < MaxParseDepth =>
                  Read(st, token) = Append(AfterValue(st), "key")
           /\ Last(st) = "key" /\ token \notin {"e"} \cup String => Read(st, token) = Stuck
           /\ Last(st) # "key" /\ token \notin {"e", "l", "d"} \cup String \cup Number =>
                  Read(st, token) = Stuck
           /\ Last(st) # "key" /\ token \in {"l", "d"} /\ ~(Len(AfterValue(st)) < MaxParseDepth) =>
                  Read(st, token) = Stuck
           /\ Last(st) \notin {"key", "list"} /\ token = "e" => Read(st, token) = Stuck
<1>1. st # Stuck
  BY TopFacts
<1>2. {"d", "l", "e"} \cap (String \cup Number) = {}
  BY TokensAssumption
<1> DEFINE last == Last(st)
           after == AfterValue(st)
           front == Front(st)
<1>3. Read(st, token) =
        CASE last = "key" /\ token \in String -> Append(front, "value")
          [] last \in {"key", "list"} /\ token = "e" -> front
          [] last # "key" /\ token \in String \cup Number -> after
          [] last # "key" /\ token \in {"l", "d"} /\ Len(after) < MaxParseDepth ->
                Append(after, IF token = "l" THEN "list" ELSE "key")
          [] OTHER -> Stuck
  BY <1>1 DEF Read
<1> HIDE DEF last, after, front
<1>4. CASE last = "key"
  BY <1>2, <1>3, <1>4 DEF last, after, front
<1>5. CASE last # "key" /\ token \in String \cup Number
  BY <1>2, <1>3, <1>5 DEF last, after, front
<1>6. CASE last # "key" /\ token \in {"l", "d"}
  BY <1>2, <1>3, <1>6 DEF last, after, front
<1>7. CASE last # "key" /\ token \notin {"l", "d"} \cup String \cup Number
  BY <1>2, <1>3, <1>7 DEF last, after, front
<1> QED
  BY <1>4, <1>5, <1>6, <1>7

\* The automaton has a stack or is stuck.
LEMMA ReadType ==
    ASSUME NEW st \in Seq(Expected) \cup {Stuck}, NEW token \in Token
    PROVE  Read(st, token) \in Seq(Expected) \cup {Stuck}
<1>1. CASE st \in {<<>>, Stuck}
  BY <1>1 DEF Read
<1>2. CASE st \notin {<<>>, Stuck}
  <2>1. st \in Seq(Expected) /\ st # <<>>
    BY <1>2
  <2>2. Last(st) \in Expected /\ Front(st) \in Seq(Expected)
    BY <2>1, TopFacts
  <2>3. Last(st) # "key" => AfterValue(st) \in Seq(Expected)
    BY <2>1, AfterValueFacts
  <2>4. Last(st) # "key" =>
            /\ Append(AfterValue(st), "list") \in Seq(Expected)
            /\ Append(AfterValue(st), "key") \in Seq(Expected)
    BY <2>3, PushFacts DEF Expected
  <2>5. Append(Front(st), "value") \in Seq(Expected)
    BY <2>2, PushFacts DEF Expected
  <2> HIDE DEF Stuck
  <2> QED
    BY <2>1, <2>2, <2>3, <2>4, <2>5, ReadFacts
<1> QED
  BY <1>1, <1>2

\* The automaton, token by token.
LEMMA StackFacts ==
    ASSUME file \in Seq(Token)
    PROVE  /\ StackAfter(0) = <<"one">>
           /\ \A i \in 1 .. Len(file) : StackAfter(i) = Read(StackAfter(i - 1), file[i])
           /\ \A i \in 0 .. Len(file) : StackAfter(i) \in Seq(Expected) \cup {Stuck}
<1> DEFINE n == Len(file)
           T == Seq(Expected) \cup {Stuck}
           step == [x \in (1 .. n) \X T |-> Read(x[2], file[x[1]])]
           Reads(f) == f = [i \in 0 .. n |-> IF i = 0 THEN <<"one">> ELSE Read(f[i - 1], file[i])]
           stack == CHOOSE f : Reads(f)
<1>1. \A i \in 0 .. n : StackAfter(i) = stack[i]
  BY DEF StackAfter
<1>2. n \in Nat /\ \A i \in 1 .. n : file[i] \in Token
  OBVIOUS
<1>3. <<"one">> \in T
  BY DEF Expected
<1>4. \A x \in (1 .. n) \X T : Read(x[2], file[x[1]]) \in T
  BY <1>2, ReadType
<1>5. step \in Steps(n, T)
  BY <1>4 DEF Steps
<1>6. \A i \in 1 .. n : \A s \in T : step[<<i, s>>] = Read(s, file[i])
  OBVIOUS
<1> HIDE DEF n, T, step
<1>7. PICK f : Solution(f, n, T, <<"one">>, step)
  BY <1>2, <1>3, <1>5, RecursionExists
<1>8. f \in [0 .. n -> T] /\ f[0] = <<"one">> /\ \A i \in 1 .. n : f[i] = step[<<i, f[i - 1]>>]
  BY <1>7 DEF Solution
<1>9. \A i \in 1 .. n : f[i] = Read(f[i - 1], file[i])
  <2> TAKE i \in 1 .. n
  <2>1. i - 1 \in 0 .. n
    BY <1>2
  <2>2. f[i - 1] \in T
    BY <1>8, <2>1
  <2> QED
    BY <1>6, <1>8, <2>2
<1>10. Reads(f)
  <2>1. \A i \in 0 .. n : f[i] = IF i = 0 THEN <<"one">> ELSE Read(f[i - 1], file[i])
    <3>1. \A i \in 0 .. n : i # 0 => i \in 1 .. n
      BY <1>2
    <3> QED
      BY <1>8, <1>9, <3>1
  <2> QED
    BY <1>8, <2>1
<1>11. Reads(stack)
  BY <1>10
<1>12. \A i \in 0 .. n : stack[i] = IF i = 0 THEN <<"one">> ELSE Read(stack[i - 1], file[i])
  <2> HIDE DEF stack
  <2> QED
    BY <1>11
<1> HIDE DEF stack
<1> DEFINE S == {i \in Nat : i \in 0 .. n => stack[i] \in T}
<1>13. 0 \in S
  BY <1>2, <1>3, <1>12
<1>14. ASSUME NEW i \in Nat, i \in S
       PROVE  i + 1 \in S
  <2> SUFFICES ASSUME i + 1 \in 0 .. n
               PROVE  stack[i + 1] \in T
    OBVIOUS
  <2>1. i \in 0 .. n /\ i + 1 \in 1 .. n /\ (i + 1) - 1 = i
    BY <1>2
  <2>2. stack[i] \in T /\ stack[i + 1] = Read(stack[i], file[i + 1])
    BY <1>12, <1>14, <2>1
  <2> QED
    BY <1>2, <2>1, <2>2, ReadType DEF T
<1> HIDE DEF S
<1>15. Nat \subseteq S
  BY <1>13, <1>14, SetInduction
<1>16. \A i \in 0 .. n : stack[i] \in T
  BY <1>2, <1>15 DEF S
<1>17. /\ stack[0] = <<"one">>
       /\ \A i \in 1 .. n : stack[i] = Read(stack[i - 1], file[i]) /\ i \in 0 .. n /\ i - 1 \in 0 .. n
  BY <1>2, <1>12
<1> QED
  <2>1. 0 \in 0 .. n
    BY <1>2
  <2>2. StackAfter(0) = <<"one">>
    BY <1>1, <1>17, <2>1
  <2>3. \A i \in 1 .. n : StackAfter(i) = Read(StackAfter(i - 1), file[i])
    BY <1>1, <1>17
  <2>4. \A i \in 0 .. n : StackAfter(i) \in T
    BY <1>1, <1>16
  <2> QED
    BY <2>2, <2>3, <2>4 DEF n, T

\* Past the end of the value, or where something was not expected, nothing is.
LEMMA StuckStays ==
    ASSUME file \in Seq(Token), NEW i \in 0 .. Len(file), StackAfter(i) \in {<<>>, Stuck},
           NEW j \in i + 1 .. Len(file)
    PROVE  StackAfter(j) = Stuck
<1> DEFINE S == {k \in Nat : i + k + 1 <= Len(file) => StackAfter(i + k + 1) = Stuck}
<1>1. 0 \in S
  <2>1. i + 0 + 1 = i + 1 /\ (i + 1 <= Len(file) => i + 1 \in 1 .. Len(file) /\ (i + 1) - 1 = i)
    OBVIOUS
  <2>2. i + 1 <= Len(file) => StackAfter(i + 1) = Read(StackAfter(i), file[i + 1])
    BY <2>1, StackFacts
  <2> QED
    BY <2>1, <2>2 DEF Read
<1>2. ASSUME NEW k \in Nat, k \in S
      PROVE  k + 1 \in S
  <2> SUFFICES ASSUME i + (k + 1) + 1 <= Len(file)
               PROVE  StackAfter(i + (k + 1) + 1) = Stuck
    OBVIOUS
  <2>1. /\ i + (k + 1) + 1 \in 1 .. Len(file) /\ (i + (k + 1) + 1) - 1 = i + k + 1
        /\ i + k + 1 <= Len(file)
    OBVIOUS
  <2>2. StackAfter(i + (k + 1) + 1) = Read(StackAfter(i + k + 1), file[i + (k + 1) + 1])
    BY <2>1, StackFacts
  <2> QED
    BY <1>2, <2>1, <2>2 DEF Read
<1> HIDE DEF S
<1>3. Nat \subseteq S
  BY <1>1, <1>2, SetInduction
<1>4. j - i - 1 \in Nat /\ i + (j - i - 1) + 1 = j
  OBVIOUS
<1>5. j - i - 1 \in S
  BY <1>3, <1>4
<1> QED
  BY <1>4, <1>5 DEF S

-----------------------------------------------------------------------------
(***************************************************************************)
(* The decoder follows the automaton: where the automaton expects what a   *)
(* call reads, it gets to what is expected behind it if the call succeeds, *)
(* and is not at its end after the document if the call fails.             *)
(***************************************************************************)
Ready(c, st) ==
    /\ st \in Seq(Expected) /\ st # <<>>
    /\ c.kind = "value" =>
            /\ Last(st) # "key" /\ Len(AfterValue(st)) = c.depth
            /\ Last(st) = "list" /\ c.at < Len(file) => file[c.at + 1] # "e"
    /\ c.kind = "list" => Last(st) = "list" /\ Len(st) = c.depth
    /\ c.kind = "dict" => Last(st) = "key" /\ Len(st) = c.depth

Behind(c, st) == IF c.kind = "value" THEN AfterValue(st) ELSE Front(st)

\* Between i and j the stack stays above the height h.
Above(i, j, h) == \A k \in i + 1 .. j - 1 : Len(StackAfter(k)) > h

Follows(c, result) ==
    LET st == StackAfter(c.at)
    IN  Ready(c, st) =>
            IF result.ok
            THEN /\ StackAfter(c.at + result.size) = Behind(c, st)
                 /\ Above(c.at, c.at + result.size, Len(Behind(c, st)))
            ELSE StackAfter(Len(file)) # <<>>

\* How stretches of a document that stay above a height are put together.
LEMMA AboveFacts ==
    ASSUME file \in Seq(Token), NEW i \in 0 .. Len(file), NEW j \in i .. Len(file),
           NEW h \in Int
    PROVE  /\ Above(i, i + 1, h)
           /\ \A g \in Int : Above(i, j, g) /\ h <= g => Above(i, j, h)
           /\ \A m \in i .. j :
                 Above(i, m, h) /\ Len(StackAfter(m)) > h /\ Above(m, j, h) => Above(i, j, h)
<1>1. \A k \in i + 1 .. j - 1 : k \in 0 .. Len(file) /\ StackAfter(k) \in Seq(Expected) \cup {Stuck}
  BY StackFacts
<1>2. \A k \in i + 1 .. j - 1 : Len(StackAfter(k)) \in Int
  BY <1>1 DEF Stuck
<1>3. Above(i, i + 1, h)
  BY DEF Above
<1>4. ASSUME NEW g \in Int, Above(i, j, g), h <= g
      PROVE  Above(i, j, h)
  BY <1>2, <1>4 DEF Above
<1>5. ASSUME NEW m \in i .. j, Above(i, m, h), Len(StackAfter(m)) > h, Above(m, j, h)
      PROVE  Above(i, j, h)
  <2> SUFFICES ASSUME NEW k \in i + 1 .. j - 1
               PROVE  Len(StackAfter(k)) > h
    BY DEF Above
  <2>1. k \in i + 1 .. m - 1 \/ k = m \/ k \in m + 1 .. j - 1
    OBVIOUS
  <2> QED
    BY <1>5, <2>1 DEF Above
<1> QED
  BY <1>3, <1>4, <1>5

\* A value in a list or dictionary, and the rest after it.
LEMMA PairFollows ==
    ASSUME file \in Seq(Token), NEW c \in Calls(file), NEW g,
           \A x \in Calls(file) : Rank(file, x) < Rank(file, c) => Follows(x, g[x]),
           NEW kind \in {"list", "dict"}, c.kind = kind,
           NEW v, NEW r, v.at \in 0 .. Len(file),
           NEW st, Ready(c, st), Ready(v, StackAfter(v.at)), Behind(v, StackAfter(v.at)) = st
    PROVE  /\ NotBoth(file, g, c, v, r, kind) => StackAfter(Len(file)) # <<>>
           /\ Both(file, g, c, v, r, kind) =>
                /\ StackAfter(v.at + g[v].size + g[r].size) = Front(st)
                /\ Above(v.at, v.at + g[v].size + g[r].size, Len(st) - 1)
<1>1. st \in Seq(Expected) /\ st # <<>> /\ Len(st) = c.depth /\ Len(st) \in Nat \ {0}
  BY TopFacts DEF Ready
<1>2. ASSUME IsLesser(file, c, v, "value", v.at, c.depth), ~g[v].ok
      PROVE  StackAfter(Len(file)) # <<>>
  BY <1>2 DEF Follows, IsLesser
<1>3. ASSUME IsLesser(file, c, v, "value", v.at, c.depth), g[v].ok
      PROVE  StackAfter(v.at + g[v].size) = st /\ Above(v.at, v.at + g[v].size, Len(st))
  <2>1. Follows(v, g[v])
    BY <1>3 DEF IsLesser
  <2> QED
    BY <1>3, <2>1 DEF Follows
<1>4. ASSUME IsLesser(file, c, v, "value", v.at, c.depth), g[v].ok,
             IsLesser(file, c, r, kind, v.at + g[v].size, c.depth)
      PROVE  /\ ~g[r].ok => StackAfter(Len(file)) # <<>>
             /\ g[r].ok => /\ StackAfter(v.at + g[v].size + g[r].size) = Front(st)
                           /\ Above(v.at + g[v].size, v.at + g[v].size + g[r].size, Len(Front(st)))
  <2>1. StackAfter(r.at) = st /\ r.at = v.at + g[v].size /\ r.kind = kind /\ r.depth = c.depth
    BY <1>3, <1>4 DEF IsLesser
  <2>2. Ready(r, st)
    BY <2>1 DEF Ready
  <2>3. Behind(r, st) = Front(st)
    BY <2>1 DEF Behind
  <2>4. Follows(r, g[r])
    BY <1>4 DEF IsLesser
  <2> QED
    BY <2>1, <2>2, <2>3, <2>4 DEF Follows
<1>5. NotBoth(file, g, c, v, r, kind) => StackAfter(Len(file)) # <<>>
  BY <1>2, <1>4 DEF NotBoth
<1>6. ASSUME Both(file, g, c, v, r, kind)
      PROVE  /\ StackAfter(v.at + g[v].size + g[r].size) = Front(st)
             /\ Above(v.at, v.at + g[v].size + g[r].size, Len(st) - 1)
  <2>1. /\ IsLesser(file, c, v, "value", v.at, c.depth) /\ g[v].ok
        /\ IsLesser(file, c, r, kind, v.at + g[v].size, c.depth) /\ g[r].ok
        /\ g[v].size \in 1 .. Len(file) - v.at /\ g[r].size \in 1 .. Len(file) - (v.at + g[v].size)
    BY <1>6 DEF Both, IsLesser
  <2>2. PICK n \in 1 .. Len(file) - v.at : n = g[v].size
    BY <2>1
  <2>3. PICK m \in 1 .. Len(file) - (v.at + n) : m = g[r].size
    BY <2>1, <2>2
  <2>4. /\ StackAfter(v.at + n) = st /\ Above(v.at, v.at + n, Len(st))
        /\ StackAfter(v.at + n + m) = Front(st)
        /\ Above(v.at + n, v.at + n + m, Len(Front(st)))
    BY <1>3, <1>4, <2>1, <2>2, <2>3
  <2>5. Len(Front(st)) = Len(st) - 1
    BY <1>1, TopFacts
  <2>6. /\ v.at + n \in v.at .. Len(file) /\ v.at + n + m \in v.at .. Len(file)
        /\ v.at + n \in v.at .. v.at + n + m /\ Len(st) - 1 \in Int /\ Len(st) \in Int
        /\ Len(st) - 1 <= Len(st) /\ Len(st) > Len(st) - 1
    <3>1. /\ v.at \in Int /\ n \in Int /\ m \in Int /\ Len(file) \in Int /\ 0 <= v.at
          /\ 1 <= n /\ 1 <= m /\ m <= Len(file) - (v.at + n) /\ Len(st) \in Int
      BY <1>1, <2>2, <2>3
    <3>2. v.at + n \in v.at .. Len(file)
      BY ONLY <3>1
    <3>3. v.at + n + m \in v.at .. Len(file)
      BY ONLY <3>1
    <3>4. v.at + n \in v.at .. v.at + n + m
      BY ONLY <3>1
    <3> QED
      BY ONLY <3>1, <3>2, <3>3, <3>4
  <2>7. Above(v.at, v.at + n, Len(st) - 1)
    BY <2>4, <2>6, AboveFacts
  <2>8. Above(v.at, v.at + n + m, Len(st) - 1)
    BY <2>4, <2>5, <2>6, <2>7, AboveFacts
  <2> QED
    BY <2>2, <2>3, <2>4, <2>8
<1> QED
  BY <1>5, <1>6

\* What the automaton does with the next token.
LEMMA NextToken ==
    ASSUME file \in Seq(Token), NEW at \in 0 .. Len(file), at < Len(file)
    PROVE  /\ StackAfter(at + 1) = Read(StackAfter(at), file[at + 1]) /\ file[at + 1] \in Token
           /\ StackAfter(at + 1) \in {<<>>, Stuck} => at + 1 = Len(file) \/ StackAfter(Len(file)) = Stuck
           /\ StackAfter(at + 1) = Stuck => StackAfter(Len(file)) = Stuck
<1>1. at + 1 \in 1 .. Len(file) /\ (at + 1) - 1 = at
  OBVIOUS
<1>2. StackAfter(at + 1) = Read(StackAfter(at), file[at + 1])
  BY <1>1, StackFacts
<1>3. file[at + 1] \in Token
  BY <1>1
<1>4. ASSUME StackAfter(at + 1) \in {<<>>, Stuck}, at + 1 # Len(file)
      PROVE  StackAfter(Len(file)) = Stuck
  <2>1. at + 1 \in 0 .. Len(file) /\ Len(file) \in (at + 1) + 1 .. Len(file)
    BY <1>1, <1>4
  <2> QED
    BY <1>4, <2>1, StuckStays
<1> QED
  BY <1>2, <1>3, <1>4

\* Being stuck is not being at the end.
LEMMA StuckIsNotEmpty == Stuck # <<>>
  BY DEF Stuck

LesserFollow(g, c) ==
    \A x \in Calls(file) : Rank(file, x) < Rank(file, c) => Follows(x, g[x])

\* The rest of a list,
LEMMA ListFollows ==
    ASSUME file \in Seq(Token), NEW c \in Calls(file), c.kind = "list", NEW g,
           LesserFollow(g, c), NEW result, ListOutcome(file, g, c, result)
    PROVE  Follows(c, result)
<1> DEFINE st == StackAfter(c.at)
           v == ItemCall(c)
           r == ListRest(g, c)
<1> SUFFICES ASSUME Ready(c, st)
             PROVE  IF result.ok
                    THEN /\ StackAfter(c.at + result.size) = Front(st)
                         /\ Above(c.at, c.at + result.size, Len(Front(st)))
                    ELSE StackAfter(Len(file)) # <<>>
  BY DEF Follows, Behind
<1>1. c.at \in 0 .. Len(file) /\ Len(file) \in Nat
  BY CallFacts
<1>2. /\ st \in Seq(Expected) /\ st # <<>> /\ Last(st) = "list" /\ Len(st) = c.depth
      /\ Len(st) \in Nat \ {0} /\ Len(Front(st)) = Len(st) - 1
  BY TopFacts DEF Ready
<1>3. ASSUME c.at = Len(file), result = Failed
      PROVE  StackAfter(Len(file)) # <<>> /\ ~result.ok
  BY <1>2, <1>3 DEF Failed
<1>4. ASSUME c.at < Len(file), file[c.at + 1] = "e", result = Parsed(<<>>, 1)
      PROVE  /\ StackAfter(c.at + 1) = Front(st) /\ Above(c.at, c.at + 1, Len(Front(st)))
             /\ result.ok /\ result.size = 1
  <2>1. StackAfter(c.at + 1) = Read(st, "e") /\ "e" \in Token
    BY <1>1, <1>4, NextToken
  <2>2. Read(st, "e") = Front(st)
    BY <1>2, <2>1, ReadFacts
  <2>3. Above(c.at, c.at + 1, Len(Front(st)))
    BY <1>1, <1>2, AboveFacts
  <2> QED
    BY <1>4, <2>1, <2>2, <2>3 DEF Parsed
<1>5. ASSUME v.at = c.at, file[c.at + 1] # "e",
             IsLesser(file, c, v, "value", v.at, c.depth)
      PROVE  Ready(v, StackAfter(v.at)) /\ Behind(v, StackAfter(v.at)) = st
  <2>1. AfterValue(st) = st
    BY <1>2, AfterValueFacts
  <2>2. v.kind = "value" /\ v.depth = c.depth /\ StackAfter(v.at) = st
    BY <1>5 DEF IsLesser
  <2> HIDE DEF v, st
  <2> QED
    BY <1>2, <1>5, <2>1, <2>2 DEF Ready, Behind
<1>6. ASSUME v.at = c.at, file[c.at + 1] # "e",
             NotBoth(file, g, c, v, r, "list"), result = Failed
      PROVE  StackAfter(Len(file)) # <<>> /\ ~result.ok
  <2>1. Ready(v, StackAfter(v.at)) /\ Behind(v, StackAfter(v.at)) = st
    BY <1>5, <1>6 DEF NotBoth
  <2> HIDE DEF v, r, st
  <2> QED
    BY <1>1, <1>6, <2>1, PairFollows DEF LesserFollow, Failed
<1>7. ASSUME v.at = c.at, file[c.at + 1] # "e", Both(file, g, c, v, r, "list"),
             result = Parsed(<<g[v].value>> \o g[r].value, g[v].size + g[r].size)
      PROVE  /\ StackAfter(c.at + result.size) = Front(st)
             /\ Above(c.at, c.at + result.size, Len(Front(st))) /\ result.ok
  <2>1. Ready(v, StackAfter(v.at)) /\ Behind(v, StackAfter(v.at)) = st
    BY <1>5, <1>7 DEF Both
  <2>2. result.ok /\ result.size = g[v].size + g[r].size
    BY <1>7 DEF Parsed
  <2>3. /\ g[v].size \in Int /\ g[r].size \in Int
    BY <1>7 DEF Both
  <2>4. v.at + g[v].size + g[r].size = c.at + result.size
    BY <1>1, <1>7, <2>2, <2>3
  <2> HIDE DEF v, r, st
  <2>5. /\ StackAfter(v.at + g[v].size + g[r].size) = Front(st)
        /\ Above(v.at, v.at + g[v].size + g[r].size, Len(st) - 1)
    BY <1>1, <1>7, <2>1, PairFollows DEF LesserFollow
  <2> QED
    BY <1>2, <1>7, <2>2, <2>4, <2>5
<1> HIDE DEF v, r, st
<1> QED
  BY <1>3, <1>4, <1>6, <1>7 DEF ListOutcome, v, r

\* the rest of a dictionary,
LEMMA DictFollows ==
    ASSUME file \in Seq(Token), NEW c \in Calls(file), c.kind = "dict", NEW g,
           LesserFollow(g, c), NEW result, DictOutcome(file, g, c, result)
    PROVE  Follows(c, result)
<1> DEFINE st == StackAfter(c.at)
           v == EntryCall(c)
           r == DictRest(g, c)
<1> SUFFICES ASSUME Ready(c, st)
             PROVE  IF result.ok
                    THEN /\ StackAfter(c.at + result.size) = Front(st)
                         /\ Above(c.at, c.at + result.size, Len(Front(st)))
                    ELSE StackAfter(Len(file)) # <<>>
  BY DEF Follows, Behind
<1>1. c.at \in 0 .. Len(file) /\ Len(file) \in Nat
  BY CallFacts
<1>2. /\ st \in Seq(Expected) /\ st # <<>> /\ Last(st) = "key" /\ Len(st) = c.depth
      /\ Len(st) \in Nat \ {0} /\ Front(st) \in Seq(Expected) /\ Len(Front(st)) = Len(st) - 1
  BY TopFacts DEF Ready
<1>3. ASSUME c.at = Len(file), result = Failed
      PROVE  StackAfter(Len(file)) # <<>> /\ ~result.ok
  BY <1>2, <1>3 DEF Failed
<1>4. ASSUME c.at < Len(file), file[c.at + 1] = "e", result = Parsed(<<>>, 1)
      PROVE  /\ StackAfter(c.at + 1) = Front(st) /\ Above(c.at, c.at + 1, Len(Front(st)))
             /\ result.ok /\ result.size = 1
  <2>1. StackAfter(c.at + 1) = Read(st, "e") /\ "e" \in Token
    BY <1>1, <1>4, NextToken
  <2>2. Read(st, "e") = Front(st)
    BY <1>2, <2>1, ReadFacts
  <2>3. Above(c.at, c.at + 1, Len(Front(st)))
    BY <1>1, <1>2, AboveFacts
  <2> QED
    BY <1>4, <2>1, <2>2, <2>3 DEF Parsed
<1>5. ASSUME c.at < Len(file), file[c.at + 1] \notin {"e"} \cup String, result = Failed
      PROVE  StackAfter(Len(file)) # <<>> /\ ~result.ok
  <2>1. StackAfter(c.at + 1) = Read(st, file[c.at + 1]) /\ file[c.at + 1] \in Token
    BY <1>1, <1>5, NextToken
  <2>2. StackAfter(c.at + 1) = Stuck
    BY <1>2, <1>5, <2>1, ReadFacts
  <2>3. StackAfter(Len(file)) = Stuck
    BY <1>1, <1>5, <2>2, NextToken
  <2> QED
    BY <1>5, <2>3, StuckIsNotEmpty DEF Failed
<1>6. ASSUME c.at < Len(file), file[c.at + 1] \in String, v.at = c.at + 1,
             IsLesser(file, c, v, "value", v.at, c.depth)
      PROVE  /\ Ready(v, StackAfter(v.at)) /\ Behind(v, StackAfter(v.at)) = st
             /\ Len(StackAfter(v.at)) = Len(st)
  <2>1. StackAfter(c.at + 1) = Read(st, file[c.at + 1]) /\ file[c.at + 1] \in Token
    BY <1>1, <1>6, NextToken
  <2>2. StackAfter(c.at + 1) = Append(Front(st), "value")
    BY <1>2, <1>6, <2>1, ReadFacts
  <2> DEFINE top == Append(Front(st), "value")
  <2>3. /\ top \in Seq(Expected) /\ top # <<>> /\ Last(top) = "value"
        /\ Len(top) = Len(Front(st)) + 1 /\ Front(top) = Front(st)
    BY <1>2, PushFacts DEF Expected
  <2>4. st = Append(Front(st), "key")
    BY <1>2 DEF Front, Last
  <2>5. AfterValue(top) = st
    <3> HIDE DEF top
    <3> QED
      BY <2>3, <2>4, AfterValueFacts
  <2>6. v.kind = "value" /\ v.depth = c.depth /\ StackAfter(v.at) = top
    BY <1>6, <2>2 DEF IsLesser
  <2> HIDE DEF v, st, top
  <2> QED
    BY <1>2, <2>3, <2>5, <2>6 DEF Ready, Behind
<1>7. ASSUME c.at < Len(file), file[c.at + 1] \in String, v.at = c.at + 1,
             NotBoth(file, g, c, v, r, "dict"), result = Failed
      PROVE  StackAfter(Len(file)) # <<>> /\ ~result.ok
  <2>1. Ready(v, StackAfter(v.at)) /\ Behind(v, StackAfter(v.at)) = st
    BY <1>6, <1>7 DEF NotBoth
  <2>2. v.at \in 0 .. Len(file)
    BY <1>1, <1>7
  <2> HIDE DEF v, r, st
  <2> QED
    BY <1>7, <2>1, <2>2, PairFollows DEF LesserFollow, Failed
<1>8. ASSUME c.at < Len(file), file[c.at + 1] \in String, v.at = c.at + 1,
             Both(file, g, c, v, r, "dict"),
             NEW value, result = Parsed(value, 1 + g[v].size + g[r].size)
      PROVE  /\ StackAfter(c.at + result.size) = Front(st)
             /\ Above(c.at, c.at + result.size, Len(Front(st))) /\ result.ok
  <2>1. /\ Ready(v, StackAfter(v.at)) /\ Behind(v, StackAfter(v.at)) = st
        /\ Len(StackAfter(v.at)) = Len(st)
    BY <1>6, <1>8 DEF Both
  <2>2. result.ok /\ result.size = 1 + g[v].size + g[r].size
    BY <1>8 DEF Parsed
  <2>3. /\ g[v].size \in 1 .. Len(file) - v.at
        /\ g[r].size \in 1 .. Len(file) - (v.at + g[v].size)
    BY <1>8 DEF Both, IsLesser
  <2> DEFINE end == v.at + g[v].size + g[r].size
  <2>4. end = c.at + result.size /\ end \in c.at .. Len(file) /\ c.at + 1 \in c.at .. end
    <3>1. PICK n \in 1 .. Len(file) - v.at : n = g[v].size
      BY <2>3
    <3>2. PICK m \in 1 .. Len(file) - (v.at + n) : m = g[r].size
      BY <2>3, <3>1
    <3>3. /\ v.at = c.at + 1 /\ c.at \in Int /\ n \in Int /\ m \in Int /\ Len(file) \in Int
          /\ 0 <= c.at /\ 1 <= n /\ 1 <= m /\ m <= Len(file) - (v.at + n)
          /\ result.size = 1 + n + m /\ end = v.at + n + m
      BY <1>1, <1>8, <2>2, <3>1, <3>2
    <3> HIDE DEF end
    <3> QED
      BY ONLY <3>3
  <2>5. v.at \in 0 .. Len(file)
    BY <1>1, <1>8
  <2>6. Above(c.at, c.at + 1, Len(st) - 1) /\ Len(st) - 1 \in Int
    BY <1>1, <1>2, AboveFacts
  <2> HIDE DEF v, r, st, end
  <2>7. /\ StackAfter(end) = Front(st)
        /\ Above(c.at + 1, end, Len(st) - 1)
    BY <1>8, <2>1, <2>5, PairFollows DEF LesserFollow, end
  <2>8. Len(StackAfter(c.at + 1)) > Len(st) - 1
    BY <1>2, <1>8, <2>1
  <2>9. Above(c.at, end, Len(st) - 1)
    BY <1>1, <2>4, <2>6, <2>7, <2>8, AboveFacts
  <2> QED
    BY <1>2, <2>2, <2>4, <2>7, <2>9
<1> HIDE DEF v, r, st
<1> QED
  BY <1>3, <1>4, <1>5, <1>7, <1>8 DEF DictOutcome, v, r

\* and a value follow the automaton, if lesser calls do.
LEMMA ValueFollows ==
    ASSUME file \in Seq(Token), NEW c \in Calls(file), c.kind = "value", NEW g,
           LesserFollow(g, c), NEW result, ValueOutcome(file, g, c, result)
    PROVE  Follows(c, result)
<1> DEFINE st == StackAfter(c.at)
           after == AfterValue(st)
           token == file[c.at + 1]
<1> SUFFICES ASSUME Ready(c, st)
             PROVE  IF result.ok
                    THEN /\ StackAfter(c.at + result.size) = after
                         /\ Above(c.at, c.at + result.size, Len(after))
                    ELSE StackAfter(Len(file)) # <<>>
  BY DEF Follows, Behind
<1>1. c.at \in 0 .. Len(file) /\ Len(file) \in Nat /\ c.depth \in Int
  BY CallFacts
<1>2. /\ st \in Seq(Expected) /\ st # <<>> /\ Last(st) # "key" /\ Len(after) = c.depth
      /\ after \in Seq(Expected)
  BY AfterValueFacts DEF Ready
<1>3. ASSUME c.at < Len(file)
      PROVE  StackAfter(c.at + 1) = Read(st, token) /\ token \in Token
  BY <1>1, <1>3, NextToken
<1>4. ASSUME c.at = Len(file), result = Failed
      PROVE  StackAfter(Len(file)) # <<>> /\ ~result.ok
  BY <1>2, <1>4 DEF Failed
<1>5. ASSUME c.at < Len(file), Read(st, token) = Stuck
      PROVE  StackAfter(Len(file)) # <<>>
  <2>1. StackAfter(Len(file)) = Stuck
    BY <1>1, <1>3, <1>5, NextToken
  <2> QED
    BY <2>1, StuckIsNotEmpty
<1>6. ASSUME c.at < Len(file), token \notin {"l", "d"} \cup Number \cup String, result = Failed
      PROVE  StackAfter(Len(file)) # <<>> /\ ~result.ok
  <2>1. CASE token # "e"
    BY <1>2, <1>3, <1>5, <1>6, <2>1, ReadFacts DEF Failed
  <2>2. CASE token = "e"
    <3>1. Last(st) \notin {"key", "list"}
      BY <1>2, <1>6, <2>2 DEF Ready
    <3> QED
      BY <1>2, <1>3, <1>5, <1>6, <2>2, <3>1, ReadFacts DEF Failed
  <2> QED
    BY <2>1, <2>2
<1>7. ASSUME c.at < Len(file), token \in String \cup Number, NEW value, result = Parsed(value, 1)
      PROVE  /\ StackAfter(c.at + result.size) = after
             /\ Above(c.at, c.at + result.size, Len(after)) /\ result.ok
  <2>1. Read(st, token) = after
    BY <1>2, <1>3, <1>7, ReadFacts
  <2>2. Above(c.at, c.at + 1, Len(after))
    BY <1>1, <1>2, AboveFacts
  <2> QED
    BY <1>3, <1>7, <2>1, <2>2 DEF Parsed
<1>8. ASSUME c.at < Len(file), NEW kind \in {"list", "dict"},
             token = (IF kind = "list" THEN "l" ELSE "d"), InsideOutcome(file, g, c, kind, result)
      PROVE  IF result.ok
             THEN /\ StackAfter(c.at + result.size) = after
                  /\ Above(c.at, c.at + result.size, Len(after))
             ELSE StackAfter(Len(file)) # <<>>
  <2> DEFINE x == Call(kind, c.at + 1, c.depth + 1)
             item == IF kind = "list" THEN "list" ELSE "key"
             top == Append(after, item)
  <2>1. CASE c.depth = MaxParseDepth
    <3>1. ~(Len(after) < MaxParseDepth) /\ token \in {"l", "d"}
      BY <1>1, <1>2, <1>8, <2>1
    <3>2. Read(st, token) = Stuck
      BY <1>2, <1>3, <1>8, <3>1, ReadFacts
    <3>3. ~result.ok
      <4>1. ~(c.depth < MaxParseDepth)
        BY <1>1, <2>1
      <4> QED
        BY <1>8, <4>1 DEF InsideOutcome, Failed
    <3> QED
      BY <1>5, <1>8, <3>2, <3>3
  <2>2. CASE c.depth < MaxParseDepth
    <3>1. Read(st, token) = top
      <4>1. Len(after) < MaxParseDepth
        BY <1>2, <2>2
      <4>2. CASE kind = "list"
        BY <1>2, <1>3, <1>8, <4>1, <4>2, ReadFacts
      <4>3. CASE kind = "dict"
        BY <1>2, <1>3, <1>8, <4>1, <4>3, ReadFacts
      <4> QED
        BY <4>2, <4>3
    <3>2. /\ top \in Seq(Expected) /\ top # <<>> /\ Last(top) = item
          /\ Len(top) = c.depth + 1 /\ Front(top) = after
      <4>1. item \in Expected
        BY DEF Expected
      <4> HIDE DEF item
      <4> QED
        BY <1>2, <4>1, PushFacts
    <3>3. StackAfter(c.at + 1) = top
      BY <1>3, <1>8, <3>1
    <3>4. /\ IsLesser(file, c, x, kind, c.at + 1, c.depth + 1)
          /\ \/ ~g[x].ok /\ result = Failed
             \/ /\ g[x].ok /\ g[x].size \in 1 .. Len(file) - x.at
                /\ result = Parsed(<<kind, g[x].value>>, 1 + g[x].size)
      <4>1. c.depth # MaxParseDepth
        BY <1>1, <2>2
      <4> QED
        BY <1>8, <4>1 DEF InsideOutcome
    <3>5. /\ x \in Calls(file) /\ x.kind = kind /\ x.at = c.at + 1 /\ x.depth = c.depth + 1
          /\ Follows(x, g[x])
      BY <3>4 DEF IsLesser, LesserFollow
    <3> HIDE DEF x, top, after
    <3>6. Ready(x, top)
      BY <3>2, <3>5 DEF Ready
    <3>7. Behind(x, top) = after
      BY <3>2, <3>5 DEF Behind
    <3>8. CASE ~g[x].ok
      <4>1. StackAfter(Len(file)) # <<>>
        BY <3>3, <3>5, <3>6, <3>8 DEF Follows
      <4> QED
        BY <3>4, <3>8, <4>1 DEF Failed
    <3>9. CASE g[x].ok
      <4>1. /\ StackAfter(c.at + 1 + g[x].size) = after
            /\ Above(c.at + 1, c.at + 1 + g[x].size, Len(after))
        BY <3>3, <3>5, <3>6, <3>7, <3>9 DEF Follows
      <4>2. /\ result.ok /\ result.size = 1 + g[x].size
            /\ g[x].size \in 1 .. Len(file) - (c.at + 1)
        BY <3>4, <3>5, <3>9 DEF Parsed
      <4>3. PICK n \in 1 .. Len(file) - (c.at + 1) : n = g[x].size
        BY <4>2
      <4>4. /\ c.at + 1 \in c.at .. c.at + 1 + n /\ c.at + 1 + n \in c.at .. Len(file)
            /\ c.at + (1 + n) = c.at + 1 + n
        <5>1. /\ c.at \in Int /\ n \in Int /\ Len(file) \in Int /\ 1 <= n
              /\ n <= Len(file) - (c.at + 1)
          BY <1>1, <4>3
        <5>2. \A a, k, l \in Int :
                1 <= k /\ k <= l - (a + 1) =>
                    /\ a + 1 \in a .. a + 1 + k /\ a + 1 + k \in a .. l
                    /\ a + (1 + k) = a + 1 + k
          OBVIOUS
        <5> QED
          BY ONLY <5>1, <5>2
      <4>5. Above(c.at, c.at + 1, Len(after)) /\ Len(after) \in Int
        BY <1>1, <1>2, <1>8, AboveFacts
      <4>6. Len(StackAfter(c.at + 1)) > Len(after)
        BY <1>1, <1>2, <3>2, <3>3
      <4>7. Above(c.at, c.at + 1 + n, Len(after))
        BY <1>1, <4>1, <4>3, <4>4, <4>5, <4>6, AboveFacts
      <4> QED
        BY <4>1, <4>2, <4>3, <4>4, <4>7
    <3> QED
      BY <3>8, <3>9
  <2> QED
    BY <1>8, <2>1, <2>2 DEF InsideOutcome
<1> HIDE DEF st, after
<1>9. CASE token = "l" /\ c.at < Len(file) /\ InsideOutcome(file, g, c, "list", result)
  BY <1>8, <1>9
<1>10. CASE token = "d" /\ c.at < Len(file) /\ InsideOutcome(file, g, c, "dict", result)
  BY <1>8, <1>10
<1> HIDE DEF token
<1> QED
  BY <1>4, <1>6, <1>7, <1>9, <1>10 DEF ValueOutcome, token

\* Every call follows the automaton.
LEMMA DecoderFollows ==
    ASSUME file \in Seq(Token), NEW c \in Calls(file)
    PROVE  Follows(c, Decoder(file)[c])
<1> DEFINE S == {n \in Nat : \A x \in Calls(file) :
                    Rank(file, x) = n => Follows(x, Decoder(file)[x])}
<1>1. ASSUME NEW n \in Nat, \A m \in Nat : m < n => m \in S
      PROVE  n \in S
  <2> SUFFICES ASSUME NEW x \in Calls(file), Rank(file, x) = n
               PROVE  Follows(x, Decoder(file)[x])
    OBVIOUS
  <2> DEFINE g == Decoder(file)
  <2>1. LesserFollow(g, x)
    BY <1>1, CallFacts DEF LesserFollow
  <2>2. g[x] = Parse(file, g, x) /\ LesserFit(file, g, x)
    BY DecoderFacts
  <2> HIDE DEF g
  <2>3. /\ x.kind = "value" => ValueOutcome(file, g, x, g[x])
        /\ x.kind = "list" => ListOutcome(file, g, x, g[x])
        /\ x.kind = "dict" => DictOutcome(file, g, x, g[x])
    BY <2>2, ParseOutcomes
  <2>4. x.kind \in {"value", "list", "dict"}
    BY CallFacts
  <2>5. Follows(x, g[x])
    BY <2>1, <2>3, <2>4, ValueFollows, ListFollows, DictFollows
  <2> QED
    BY <2>5 DEF g
<1> HIDE DEF S
<1>2. Nat \subseteq S
  BY <1>1, StrongInduction
<1>3. Rank(file, c) \in S
  BY <1>2, CallFacts
<1> QED
  BY <1>3 DEF S

\* The stack before the document.
LEMMA AtTheStart ==
    /\ <<"one">> \in Seq(Expected) /\ <<"one">> # <<>> /\ Last(<<"one">>) = "one"
    /\ AfterValue(<<"one">>) = <<>>
<1>1. <<"one">> \in Seq(Expected) /\ <<"one">> # <<>> /\ Len(<<"one">>) = 1
  BY DEF Expected
<1>2. Last(<<"one">>) = "one"
  BY <1>1 DEF Last
<1>3. AfterValue(<<"one">>) = Front(<<"one">>)
  BY <1>1, <1>2, AfterValueFacts
<1>4. Len(Front(<<"one">>)) = 0 /\ Front(<<"one">>) \in Seq(Expected)
  <2>1. Front(<<"one">>) \in Seq(Expected) /\ Len(Front(<<"one">>)) = Len(<<"one">>) - 1
    BY <1>1, TopFacts
  <2> QED
    BY <1>1, <2>1
<1> QED
  BY <1>1, <1>2, <1>3, <1>4

\* The decoder accepts what the automaton accepts.
LEMMA AcceptsTheSame ==
    ASSUME file \in Seq(Token)
    PROVE  Unmarshal(file).ok <=> StackAfter(Len(file)) = <<>>
<1> DEFINE c == Call("value", 0, 0)
           result == Decoder(file)[c]
<1>1. Len(file) \in Nat /\ 0 \in 0 .. Len(file) /\ 0 \in 0 .. MaxParseDepth
  BY TokensAssumption
<1>2. c \in Calls(file) /\ c.kind = "value" /\ c.at = 0 /\ c.depth = 0
  BY <1>1, NewCall
<1>3. Fits(file, c, result) /\ Follows(c, result)
  BY <1>2, DecoderFacts, DecoderFollows
<1>4. /\ <<"one">> \in Seq(Expected) /\ <<"one">> # <<>> /\ Last(<<"one">>) = "one"
      /\ AfterValue(<<"one">>) = <<>>
  BY AtTheStart
<1>5. StackAfter(0) = <<"one">>
  BY StackFacts
<1>6. Ready(c, <<"one">>) /\ Behind(c, <<"one">>) = <<>>
  BY <1>2, <1>4 DEF Ready, Behind
<1>7. Unmarshal(file) = IF result.size = Len(file) THEN result ELSE Failed
  BY DEF Unmarshal, ParseAt
<1> HIDE DEF c, result
<1>8. IF result.ok THEN StackAfter(result.size) = <<>> ELSE StackAfter(Len(file)) # <<>>
  BY <1>2, <1>3, <1>5, <1>6 DEF Follows, Fits
<1>9. result.ok => result.size \in 1 .. Len(file)
  BY <1>1, <1>2, <1>3 DEF Fits
<1>10. ASSUME result.ok, result.size # Len(file)
       PROVE  StackAfter(Len(file)) # <<>>
  <2>1. result.size \in 0 .. Len(file) /\ Len(file) \in result.size + 1 .. Len(file)
    BY <1>1, <1>9, <1>10
  <2>2. StackAfter(Len(file)) = Stuck
    BY <1>8, <1>10, <2>1, StuckStays
  <2> QED
    BY <2>2, StuckIsNotEmpty
<1> QED
  BY <1>3, <1>7, <1>8, <1>9, <1>10 DEF Fits, Failed

-----------------------------------------------------------------------------
(***************************************************************************)
(* The entries of the root, as the decoder and the walk for "info" meet    *)
(* them.                                                                   *)
(***************************************************************************)
RootRest(at) == Decoder(file)[Call("dict", at, 1)]
RootValue(at) == Decoder(file)[Call("value", at, 1)]

\* The automaton at a key of the root, and the decoder at an entry there.
LEMMA KeyIsReady ==
    ASSUME file \in Seq(Token), MaxParseDepth >= 1, NEW at \in 0 .. Len(file)
    PROVE  /\ Call("dict", at, 1) \in Calls(file) /\ Call("value", at, 1) \in Calls(file)
           /\ Call("value", at, 0) \in Calls(file)
           /\ Call("dict", at, 1).kind = "dict" /\ Call("dict", at, 1).at = at
           /\ Call("dict", at, 1).depth = 1
           /\ Call("value", at, 1).kind = "value" /\ Call("value", at, 1).at = at
           /\ Call("value", at, 1).depth = 1
           /\ Call("value", at, 0).kind = "value" /\ Call("value", at, 0).at = at
           /\ Call("value", at, 0).depth = 0
<1>1. 0 \in 0 .. MaxParseDepth /\ 1 \in 0 .. MaxParseDepth
  BY TokensAssumption
<1> QED
  BY <1>1, NewCall

\* A value is read at depth zero as it is read at depth one.
LEMMA DepthDoesNotMatter ==
    ASSUME file \in Seq(Token), MaxParseDepth >= 1, NEW at \in 0 .. Len(file), RootValue(at).ok
    PROVE  ParseAt(file, at) = RootValue(at)
<1> DEFINE c == Call("value", at, 0)
           e == Call("value", at, 1)
<1>1. /\ c \in Calls(file) /\ c.kind = "value" /\ c.at = at /\ c.depth = 0
      /\ e \in Calls(file) /\ e.kind = "value" /\ e.at = at /\ e.depth = 1
  BY KeyIsReady
<1>2. RootValue(at) = Decoder(file)[e] /\ ParseAt(file, at) = Decoder(file)[c]
  BY DEF RootValue, ParseAt
<1> HIDE DEF c, e
<1>3. Decoder(file)[e].size \in 1 .. Len(file) - at
  BY <1>1, <1>2, DecoderFacts DEF Fits
<1>4. Part(file, file, 0)
  BY DEF Part
<1>5. IsTwin(file, file, 0, c, e)
  BY <1>1, <1>2, <1>3 DEF IsTwin
<1>6. Decoder(file)[c] = Decoder(file)[e]
  BY <1>1, <1>4, <1>5, ReadsTheSame
<1> QED
  BY <1>2, <1>6

\* The stacks of the root: where a key is expected, and its value.
LEMMA OnTheRoot ==
    /\ <<"key">> \in Seq(Expected) /\ <<"value">> \in Seq(Expected)
    /\ <<"key">> # <<>> /\ <<"value">> # <<>> /\ <<"key">> # <<"value">>
    /\ Last(<<"key">>) = "key" /\ Last(<<"value">>) = "value"
    /\ Len(<<"key">>) = 1 /\ Len(<<"value">>) = 1
    /\ Front(<<"key">>) = <<>> /\ Append(<<>>, "value") = <<"value">>
    /\ AfterValue(<<"value">>) = <<"key">>
<1>1. /\ <<"key">> \in Seq(Expected) /\ <<"value">> \in Seq(Expected)
      /\ <<"key">> # <<>> /\ <<"value">> # <<>>
      /\ Len(<<"key">>) = 1 /\ Len(<<"value">>) = 1
      /\ <<"key">>[1] = "key" /\ <<"value">>[1] = "value"
  BY DEF Expected
<1>2. Last(<<"key">>) = "key" /\ Last(<<"value">>) = "value"
  BY <1>1 DEF Last
<1>3. ASSUME NEW st \in Seq(Expected), st # <<>>, Len(st) = 1
      PROVE  Front(st) = <<>>
  <2>1. Front(st) \in Seq(Expected) /\ Len(Front(st)) = 0
    BY <1>3, TopFacts
  <2> QED
    BY <2>1
<1>4. Front(<<"key">>) = <<>> /\ Front(<<"value">>) = <<>>
  BY <1>1, <1>3
<1>5. AfterValue(<<"value">>) = Append(Front(<<"value">>), "key")
  BY <1>1, <1>2, AfterValueFacts
<1>6. Append(<<>>, "value") = <<"value">> /\ Append(<<>>, "key") = <<"key">>
  OBVIOUS
<1>7. <<"key">> # <<"value">>
  BY <1>1
<1> QED
  BY <1>1, <1>2, <1>4, <1>5, <1>6, <1>7

\* At a key of the root: the end of the root, or an entry and the rest behind it.
LEMMA EntryAt ==
    ASSUME file \in Seq(Token), MaxParseDepth >= 1, NEW at \in 1 .. Len(file),
           StackAfter(at) = <<"key">>, RootRest(at).ok
    PROVE  /\ at < Len(file)
           /\ \/ /\ file[at + 1] = "e" /\ RootRest(at).value = <<>> /\ StackAfter(at + 1) = <<>>
              \/ LET v    == RootValue(at + 1)
                     next == at + 1 + v.size
                 IN  /\ file[at + 1] \in String /\ StackAfter(at + 1) = <<"value">>
                     /\ v.ok /\ v.size \in 1 .. Len(file) - (at + 1)
                     /\ next \in at + 2 .. Len(file)
                     /\ StackAfter(next) = <<"key">> /\ Above(at + 1, next, 1)
                     /\ RootRest(next).ok
                     /\ RootRest(at).value = PutBefore(RootRest(next).value, file[at + 1], v.value)
                     /\ ParseAt(file, at + 1) = v
<1> DEFINE c == Call("dict", at, 1)
           g == Decoder(file)
           result == g[c]
           v == EntryCall(c)
           r == DictRest(g, c)
<1>1. Len(file) \in Nat /\ at \in 0 .. Len(file)
  OBVIOUS
<1>2. c \in Calls(file) /\ c.kind = "dict" /\ c.at = at /\ c.depth = 1
  BY <1>1, KeyIsReady
<1>3. RootRest(at) = result /\ result.ok /\ result # Failed
  BY FailedFits DEF RootRest
<1>4. DictOutcome(file, g, c, result)
  BY <1>2, DecoderOutcomes
<1>5. v = Call("value", at + 1, 1) /\ r = Call("dict", at + 1 + g[v].size, 1)
  BY <1>2 DEF EntryCall, DictRest
<1> HIDE DEF c, v, r, g, result
<1>6. /\ at < Len(file)
      /\ \/ file[at + 1] = "e" /\ result = Parsed(<<>>, 1)
         \/ /\ file[at + 1] \in String /\ v.at = at + 1 /\ Both(file, g, c, v, r, "dict")
            /\ result = Parsed(PutBefore(g[r].value, file[at + 1], g[v].value),
                               1 + g[v].size + g[r].size)
  BY <1>2, <1>3, <1>4 DEF DictOutcome, v, r
<1>7. StackAfter(at + 1) = Read(<<"key">>, file[at + 1]) /\ file[at + 1] \in Token
  BY <1>1, <1>6, NextToken
<1>8. CASE file[at + 1] = "e" /\ result = Parsed(<<>>, 1)
  <2>1. StackAfter(at + 1) = <<>>
    BY <1>7, <1>8, OnTheRoot, ReadFacts
  <2>2. result.value = <<>>
    BY <1>8 DEF Parsed
  <2> QED
    BY <1>3, <1>6, <1>8, <2>1, <2>2
<1>9. CASE /\ file[at + 1] \in String /\ v.at = at + 1 /\ Both(file, g, c, v, r, "dict")
           /\ result = Parsed(PutBefore(g[r].value, file[at + 1], g[v].value),
                              1 + g[v].size + g[r].size)
  <2>1. StackAfter(at + 1) = <<"value">>
    BY <1>7, <1>9, OnTheRoot, ReadFacts
  <2>2. /\ g[v].ok /\ g[v].size \in 1 .. Len(file) - (at + 1) /\ v \in Calls(file)
        /\ v.kind = "value" /\ v.depth = 1
        /\ g[r].ok /\ r.at = at + 1 + g[v].size
    BY <1>2, <1>9 DEF Both, IsLesser
  <2>3. RootValue(at + 1) = g[v]
    BY <1>5 DEF RootValue, g
  <2> DEFINE next == at + 1 + g[v].size
  <2>4. RootRest(next) = g[r]
    BY <1>5 DEF RootRest, g
  <2>5. next \in at + 2 .. Len(file)
    <3>1. PICK n \in 1 .. Len(file) - (at + 1) : n = g[v].size
      BY <2>2
    <3>2. at + 1 + n \in at + 2 .. Len(file)
      BY <1>1, <3>1
    <3> QED
      BY <3>1, <3>2
  <2>6. result.value = PutBefore(g[r].value, file[at + 1], g[v].value)
    BY <1>9 DEF Parsed
  <2>7. Ready(v, <<"value">>) /\ Behind(v, <<"value">>) = <<"key">>
    BY <2>2, OnTheRoot DEF Ready, Behind
  <2>8. Follows(v, g[v])
    BY <2>2, DecoderFollows DEF g
  <2>9. StackAfter(next) = <<"key">> /\ Above(at + 1, next, 1)
    BY <1>9, <2>1, <2>2, <2>7, <2>8, OnTheRoot DEF Follows
  <2>10. ParseAt(file, at + 1) = g[v]
    <3>1. at + 1 \in 0 .. Len(file)
      BY <1>6
    <3> QED
      BY <2>2, <2>3, <3>1, DepthDoesNotMatter
  <2> QED
    BY <1>3, <1>6, <1>9, <2>1, <2>2, <2>3, <2>4, <2>5, <2>6, <2>9, <2>10
<1> QED
  BY <1>6, <1>8, <1>9

InfoAt == {i \in DOMAIN file : file[i] = "info" /\ StackAfter(i) = <<"value">>}

\* From a key of the root on, the key "info" is read if it is there, and if there is
\* one only, decoder and walk take the same value.
Walked(walk, at) ==
    StackAfter(at) = <<"key">> /\ RootRest(at).ok =>
        /\ "info" \in DOMAIN RootRest(at).value => \E i \in InfoAt : i > at
        /\ \A i \in InfoAt : i > at /\ InfoAt = {i} =>
              LET v == RootValue(i)
              IN  /\ v.ok /\ v.size \in 1 .. Len(file) - i
                  /\ StackAfter(i + v.size) = <<"key">> /\ Above(i, i + v.size, 1)
                  /\ "info" \in DOMAIN RootRest(at).value
                  /\ RootRest(at).value["info"] = v.value
                  /\ walk[at] = SubSeq(file, i + 1, i + v.size)

\* An entry of the root: what is true of the rest behind it is true of it.
LEMMA WalkStep ==
    ASSUME file \in Seq(Token), MaxParseDepth >= 1, NEW walk,
           \A k \in 1 .. Len(file) : walk[k] = InfoFrom(file, walk, k),
           NEW at \in 1 .. Len(file),
           \A k \in at + 1 .. Len(file) : Walked(walk, k)
    PROVE  Walked(walk, at)
<1> SUFFICES ASSUME StackAfter(at) = <<"key">>, RootRest(at).ok
             PROVE  /\ "info" \in DOMAIN RootRest(at).value => \E i \in InfoAt : i > at
                    /\ \A i \in InfoAt : i > at /\ InfoAt = {i} =>
                          LET v == RootValue(i)
                          IN  /\ v.ok /\ v.size \in 1 .. Len(file) - i
                              /\ StackAfter(i + v.size) = <<"key">> /\ Above(i, i + v.size, 1)
                              /\ "info" \in DOMAIN RootRest(at).value
                              /\ RootRest(at).value["info"] = v.value
                              /\ walk[at] = SubSeq(file, i + 1, i + v.size)
  BY DEF Walked
<1>1. at < Len(file) /\ Len(file) \in Nat /\ at + 1 \in 1 .. Len(file)
  BY EntryAt
<1>2. \A i \in InfoAt : i \in 1 .. Len(file) /\ StackAfter(i) = <<"value">> /\ file[i] = "info"
  BY DEF InfoAt
<1>3. CASE file[at + 1] = "e" /\ RootRest(at).value = <<>> /\ StackAfter(at + 1) = <<>>
  <2>1. "info" \notin DOMAIN RootRest(at).value
    BY <1>3
  <2>2. ASSUME NEW i \in InfoAt, i > at
        PROVE  FALSE
    <3>1. CASE i = at + 1
      BY <1>2, <1>3, <2>2, <3>1, OnTheRoot
    <3>2. CASE i # at + 1
      <4>1. i \in (at + 1) + 1 .. Len(file) /\ at + 1 \in 0 .. Len(file)
        BY <1>1, <1>2, <2>2, <3>2
      <4>2. StackAfter(i) = Stuck
        BY <1>3, <4>1, StuckStays
      <4>3. StackAfter(i) = <<"value">>
        BY <1>2, <2>2
      <4>4. <<"value">> # Stuck
        BY OnTheRoot, TopFacts
      <4> QED
        BY <4>2, <4>3, <4>4
    <3> QED
      BY <3>1, <3>2
  <2> QED
    BY <2>1, <2>2
<1>4. CASE ~(file[at + 1] = "e" /\ RootRest(at).value = <<>> /\ StackAfter(at + 1) = <<>>)
  <2> DEFINE v == RootValue(at + 1)
             next == at + 1 + v.size
             rest == RootRest(next)
             key == file[at + 1]
  <2>1. /\ key \in String /\ StackAfter(at + 1) = <<"value">>
        /\ v.ok /\ v.size \in 1 .. Len(file) - (at + 1)
        /\ next \in at + 2 .. Len(file)
        /\ StackAfter(next) = <<"key">> /\ Above(at + 1, next, 1)
        /\ rest.ok
        /\ RootRest(at).value = PutBefore(rest.value, key, v.value)
        /\ ParseAt(file, at + 1) = v
    BY <1>4, EntryAt
  <2>2. next \in at + 1 .. Len(file) /\ Walked(walk, next)
    BY <1>1, <2>1
  <2>3. walk[at] = IF key = "info" THEN SubSeq(file, at + 2, at + 1 + v.size) ELSE walk[next]
    <3>1. walk[at] = InfoFrom(file, walk, at)
      OBVIOUS
    <3>2. ReadString(file, at) = Parsed(<<"string", key>>, 1)
      BY <1>1, <2>1 DEF ReadString
    <3>3. ReadString(file, at).ok /\ ReadString(file, at).value[2] = key
      BY <3>2 DEF Parsed
    <3> HIDE DEF key, v
    <3> QED
      BY <2>1, <3>1, <3>3 DEF InfoFrom
  <2> HIDE DEF v, next, rest, key
  <2>4. /\ DOMAIN RootRest(at).value = DOMAIN rest.value \cup {key}
        /\ \A k \in DOMAIN rest.value : RootRest(at).value[k] = rest.value[k]
        /\ key \notin DOMAIN rest.value => RootRest(at).value[key] = v.value
    BY <2>1 DEF PutBefore
  <2>5. "info" \in DOMAIN rest.value => \E i \in InfoAt : i > next
    BY <2>1, <2>2 DEF Walked, rest
  <2>6. at + 1 < next /\ next \in Nat
    BY <1>1, <2>1
  <2>7. key = "info" => at + 1 \in InfoAt
    BY <1>1, <2>1 DEF InfoAt, key
  <2>8. \A i \in InfoAt : i > at => i = at + 1 \/ i > next
    <3> SUFFICES ASSUME NEW i \in InfoAt, i > at, i # at + 1, ~(i > next)
                 PROVE  FALSE
      OBVIOUS
    <3>1. i \in 1 .. Len(file) /\ StackAfter(i) = <<"value">>
      BY <1>2
    <3>2. i # next
      BY <2>1, <3>1, OnTheRoot
    <3>3. i \in (at + 1) + 1 .. next - 1
      BY <1>1, <2>6, <3>1, <3>2
    <3>4. Len(StackAfter(i)) > 1
      BY <2>1, <3>3 DEF Above
    <3> QED
      BY <3>1, <3>4, OnTheRoot
  <2>9. "info" \in DOMAIN RootRest(at).value => \E i \in InfoAt : i > at
    <3>1. CASE "info" \in DOMAIN rest.value
      <4>1. PICK i \in InfoAt : i > next
        BY <2>5, <3>1
      <4>2. i > at
        BY <1>1, <1>2, <2>6, <4>1
      <4> QED
        BY <4>2
    <3>2. CASE key = "info"
      BY <1>1, <2>7, <3>2
    <3> QED
      BY <2>4, <3>1, <3>2
  <2>10. ASSUME NEW i \in InfoAt, i > at, InfoAt = {i}
         PROVE  LET w == RootValue(i)
                IN  /\ w.ok /\ w.size \in 1 .. Len(file) - i
                    /\ StackAfter(i + w.size) = <<"key">> /\ Above(i, i + w.size, 1)
                    /\ "info" \in DOMAIN RootRest(at).value
                    /\ RootRest(at).value["info"] = w.value
                    /\ walk[at] = SubSeq(file, i + 1, i + w.size)
    <3>1. CASE i = at + 1
      <4>1. key = "info" /\ v = RootValue(i) /\ next = i + v.size
        BY <1>2, <3>1 DEF key, v, next
      <4>2. "info" \notin DOMAIN rest.value
        <5>1. \A j \in InfoAt : j = at + 1
          BY <2>10, <3>1
        <5>2. ~(at + 1 > next)
          BY <1>1, <2>6
        <5> QED
          BY <2>5, <5>1, <5>2
      <4>3. RootRest(at).value["info"] = v.value /\ "info" \in DOMAIN RootRest(at).value
        BY <2>4, <4>1, <4>2
      <4>4. walk[at] = SubSeq(file, i + 1, i + v.size)
        <5>1. at + 2 = i + 1
          BY <1>1, <3>1
        <5> QED
          BY <2>3, <3>1, <4>1, <5>1
      <4> QED
        BY <2>1, <3>1, <4>1, <4>3, <4>4
    <3>2. CASE i > next
      <4>1. key # "info"
        <5>1. i # at + 1
          BY <1>1, <1>2, <2>6, <3>2
        <5> QED
          BY <2>7, <2>10, <5>1
      <4>2. /\ RootValue(i).ok /\ RootValue(i).size \in 1 .. Len(file) - i
            /\ StackAfter(i + RootValue(i).size) = <<"key">>
            /\ Above(i, i + RootValue(i).size, 1)
            /\ "info" \in DOMAIN rest.value
            /\ rest.value["info"] = RootValue(i).value
            /\ walk[next] = SubSeq(file, i + 1, i + RootValue(i).size)
        BY <2>1, <2>2, <2>10, <3>2 DEF Walked, rest
      <4>3. walk[at] = walk[next]
        BY <2>3, <4>1 DEF next, key, v
      <4> QED
        BY <2>4, <4>2, <4>3
    <3> QED
      BY <2>8, <2>10, <3>1, <3>2
  <2> QED
    BY <2>9, <2>10
<1> QED
  BY <1>3, <1>4

\* The whole walk.
LEMMA WalkFacts ==
    ASSUME file \in Seq(Token), MaxParseDepth >= 1, NEW walk,
           \A k \in 1 .. Len(file) : walk[k] = InfoFrom(file, walk, k)
    PROVE  \A at \in 1 .. Len(file) : Walked(walk, at)
<1> DEFINE S == {n \in Nat : \A at \in 1 .. Len(file) : Len(file) - at = n => Walked(walk, at)}
<1>1. ASSUME NEW n \in Nat, \A m \in Nat : m < n => m \in S
      PROVE  n \in S
  <2> SUFFICES ASSUME NEW at \in 1 .. Len(file), Len(file) - at = n
               PROVE  Walked(walk, at)
    OBVIOUS
  <2>1. ASSUME NEW k \in at + 1 .. Len(file)
        PROVE  Walked(walk, k)
    <3>1. k \in 1 .. Len(file) /\ Len(file) - k \in Nat /\ Len(file) - k < n
      OBVIOUS
    <3>2. Len(file) - k \in S
      BY <1>1, <3>1
    <3> QED
      BY <3>1, <3>2
  <2> QED
    BY <2>1, WalkStep
<1> HIDE DEF S
<1>2. Nat \subseteq S
  BY <1>1, StrongInduction
<1>3. ASSUME NEW at \in 1 .. Len(file)
      PROVE  Walked(walk, at)
  <2>1. Len(file) - at \in Nat
    OBVIOUS
  <2>2. Len(file) - at \in S
    BY <1>2, <2>1
  <2> QED
    BY <2>2 DEF S
<1> QED
  BY <1>3

\* A document that is a dictionary: its entries are those from the first key on.
LEMMA RootFacts ==
    ASSUME file \in Seq(Token), Unmarshal(file).ok, Unmarshal(file).value[1] = "dict"
    PROVE  /\ MaxParseDepth >= 1 /\ 1 \in 1 .. Len(file) /\ file[1] = "d"
           /\ RootRest(1).ok /\ StackAfter(1) = <<"key">>
           /\ Unmarshal(file).value[2] = RootRest(1).value
<1> DEFINE c == Call("value", 0, 0)
           result == Decoder(file)[c]
           x == Call("dict", c.at + 1, c.depth + 1)
<1>1. Len(file) \in Nat /\ MaxParseDepth \in Nat /\ 0 \in 0 .. Len(file) /\ 0 \in 0 .. MaxParseDepth
  BY TokensAssumption
<1>2. c \in Calls(file) /\ c.kind = "value" /\ c.at = 0 /\ c.depth = 0
  BY <1>1, NewCall
<1>3. Unmarshal(file) = result
  BY DEF Unmarshal, ParseAt, Failed
<1>4. /\ c.at < Len(file) /\ file[c.at + 1] = "d" /\ c.depth < MaxParseDepth
      /\ Decoder(file)[x].ok /\ result.value[2] = Decoder(file)[x].value
  <2> HIDE DEF c
  <2> QED
    BY <1>2, <1>3, ValueShape
<1>5. x = Call("dict", 1, 1)
  BY <1>2
<1> HIDE DEF c, x, result
<1>6. MaxParseDepth >= 1 /\ 1 \in 1 .. Len(file) /\ file[1] = "d"
  BY <1>1, <1>2, <1>4
<1>7. RootRest(1).ok /\ result.value[2] = RootRest(1).value
  BY <1>4, <1>5 DEF RootRest
<1>8. StackAfter(1) = <<"key">>
  <2>4. StackAfter(1) = Read(<<"one">>, file[1])
    <3>1. StackAfter(0) = <<"one">> /\ StackAfter(1) = Read(StackAfter(1 - 1), file[1])
      BY <1>6, StackFacts
    <3> QED
      BY <3>1
  <2>5. file[1] \in Token
    BY <1>6
  <2>6. Len(AfterValue(<<"one">>)) < MaxParseDepth
    <3>1. Len(<<>>) = 0
      OBVIOUS
    <3> QED
      BY <1>1, <1>6, <3>1, AtTheStart
  <2>7. Read(<<"one">>, file[1]) = Append(AfterValue(<<"one">>), "key")
    BY <1>6, <2>5, <2>6, AtTheStart, ReadFacts
  <2>8. Append(<<>>, "key") = <<"key">>
    OBVIOUS
  <2> QED
    BY <2>4, <2>7, <2>8, AtTheStart
<1> QED
  BY <1>3, <1>6, <1>7, <1>8

\* The one key "info" of the root: what is hashed, and what is read for it.
LEMMA InfoIsWalked ==
    ASSUME file \in Seq(Token), Unmarshal(file).ok, Unmarshal(file).value[1] = "dict",
           NEW i \in InfoAt, InfoAt = {i}
    PROVE  LET v == RootValue(i)
           IN  /\ i \in 0 .. Len(file) /\ v.ok /\ v.size \in 1 .. Len(file) - i
               /\ StackAfter(i + v.size) = <<"key">> /\ Above(i, i + v.size, 1)
               /\ Unmarshal(file).value[2]["info"] = v.value
               /\ FindInfoBytes(file) = SubSeq(file, i + 1, i + v.size)
<1>1. /\ MaxParseDepth >= 1 /\ 1 \in 1 .. Len(file) /\ file[1] = "d"
      /\ RootRest(1).ok /\ StackAfter(1) = <<"key">>
      /\ Unmarshal(file).value[2] = RootRest(1).value
  BY RootFacts
<1>2. file # <<>>
  BY <1>1
<1>3. PICK walk : /\ \A at \in 1 .. Len(file) : walk[at] = InfoFrom(file, walk, at)
                  /\ FindInfoBytes(file) = walk[1]
  BY <1>2, FindInfoFacts
<1>4. Walked(walk, 1)
  BY <1>1, <1>3, WalkFacts
<1>5. i \in 1 .. Len(file) /\ StackAfter(i) = <<"value">>
  BY DEF InfoAt
<1>6. i # 1
  BY <1>1, <1>5, OnTheRoot
<1>7. i > 1 /\ i \in 0 .. Len(file)
  BY <1>5, <1>6
<1> QED
  BY <1>1, <1>3, <1>4, <1>7 DEF Walked

\* The bytes that are hashed, read again.
LEMMA HashIsRead ==
    ASSUME file \in Seq(Token), MaxParseDepth >= 1, NEW i \in 0 .. Len(file),
           RootValue(i).ok, RootValue(i).size \in 1 .. Len(file) - i
    PROVE  Unmarshal(SubSeq(file, i + 1, i + RootValue(i).size)) = RootValue(i)
<1> DEFINE v == RootValue(i)
           c == Call("value", 0, 0)
           e == Call("value", i, 1)
<1>1. PICK n \in 1 .. Len(file) - i : n = v.size
  OBVIOUS
<1> DEFINE hash == SubSeq(file, i + 1, i + n)
<1>2. i \in Nat /\ n \in Nat /\ Len(file) \in Nat /\ 1 <= n /\ i + n <= Len(file)
  OBVIOUS
<1>3. hash \in Seq(Token) /\ Len(hash) = n /\ \A k \in 1 .. n : hash[k] = file[i + k]
  <2>1. i + 1 \in Int /\ i + n \in Int /\ \A k \in i + 1 .. i + n : file[k] \in Token
    BY <1>2
  <2>2. /\ hash \in Seq(Token)
        /\ Len(hash) = IF i + 1 <= i + n THEN (i + n) - (i + 1) + 1 ELSE 0
        /\ \A k \in 1 .. (i + n) - (i + 1) + 1 : hash[k] = file[(i + 1) + k - 1]
    BY <2>1, SubSeqProperties
  <2>3. (i + n) - (i + 1) + 1 = n /\ i + 1 <= i + n
    BY <1>2
  <2>4. \A k \in 1 .. n : (i + 1) + k - 1 = i + k
    BY <1>2
  <2> HIDE DEF hash
  <2> QED
    BY <2>2, <2>3, <2>4
<1> HIDE DEF hash
<1>4. Part(hash, file, i)
  <2>1. n <= Len(file) - i
    BY <1>2
  <2> QED
    BY <1>3, <2>1 DEF Part
<1>5. c \in Calls(hash) /\ c.kind = "value" /\ c.at = 0 /\ c.depth = 0
  <2>1. 0 \in 0 .. Len(hash) /\ 0 \in 0 .. MaxParseDepth
    BY <1>2, <1>3, TokensAssumption
  <2>2. hash \in Seq(Token) /\ "value" \in {"value", "list", "dict"}
    BY <1>3
  <2> QED
    BY <2>1, <2>2, NewCall
<1>6. e \in Calls(file) /\ e.kind = "value" /\ e.at = i /\ e.depth = 1
  BY KeyIsReady
<1>7. v = Decoder(file)[e] /\ ParseAt(hash, 0) = Decoder(hash)[c]
  BY DEF RootValue, ParseAt
<1> HIDE DEF c, e, v
<1>8. IsTwin(hash, file, i, c, e)
  <2>1. i = i + 0 /\ 1 >= 0 /\ n <= n - 0
    BY <1>2
  <2>2. v.ok
    BY DEF v
  <2> QED
    BY <1>1, <1>3, <1>5, <1>6, <1>7, <2>1, <2>2 DEF IsTwin
<1>9. ParseAt(hash, 0) = v
  BY <1>3, <1>4, <1>5, <1>7, <1>8, ReadsTheSame
<1>10. Unmarshal(hash) = v
  BY <1>1, <1>3, <1>9 DEF Unmarshal
<1> QED
  BY <1>1, <1>10 DEF hash, v

\* What HashCoversInfo says of an opened torrent.
LEMMA HashFacts ==
    ASSUME file \in Seq(Token), Unmarshal(file).ok, IsTorrent(file),
           NEW i \in InfoAt, InfoAt = {i}
    PROVE  /\ \E j \in DOMAIN file :
                /\ StackAfter(j) = <<"key">> /\ FindInfoBytes(file) = SubSeq(file, i + 1, j)
                /\ \A k \in i + 1 .. j - 1 : StackAfter(k) # <<"key">>
           /\ Unmarshal(FindInfoBytes(file)).value = <<"dict", Torrent(file).info>>
<1> DEFINE v == RootValue(i)
           root == Unmarshal(file).value
           e == Call("value", i, 1)
<1>1. root[1] = "dict" /\ root[2]["info"][1] = "dict"
  BY DEF IsTorrent, IsRoot, Field
<1>2. /\ i \in 0 .. Len(file) /\ v.ok /\ v.size \in 1 .. Len(file) - i
      /\ StackAfter(i + v.size) = <<"key">> /\ Above(i, i + v.size, 1)
      /\ root[2]["info"] = v.value
      /\ FindInfoBytes(file) = SubSeq(file, i + 1, i + v.size)
  BY <1>1, InfoIsWalked
<1>3. MaxParseDepth >= 1
  BY <1>1, RootFacts
<1>4. \E j \in DOMAIN file :
          /\ StackAfter(j) = <<"key">> /\ FindInfoBytes(file) = SubSeq(file, i + 1, j)
          /\ \A k \in i + 1 .. j - 1 : StackAfter(k) # <<"key">>
  <2> HIDE DEF v
  <2>1. PICK n \in 1 .. Len(file) - i : n = v.size
    BY <1>2
  <2>2. i + n \in DOMAIN file
    BY <1>2, <2>1
  <2>3. ASSUME NEW k \in i + 1 .. (i + n) - 1
        PROVE  StackAfter(k) # <<"key">>
    <3>1. Len(StackAfter(k)) > 1
      BY <1>2, <2>1 DEF Above
    <3>2. Len(<<"key">>) = 1
      BY OnTheRoot
    <3>3. Len(StackAfter(k)) # 1
      <4>1. ~(1 > 1)
        OBVIOUS
      <4> QED
        BY <3>1, <4>1
    <3> QED
      BY <3>2, <3>3, Zenon
  <2> QED
    BY <1>2, <2>1, <2>2, <2>3
<1>5. Unmarshal(FindInfoBytes(file)) = v
  BY <1>2, <1>3, HashIsRead
<1>6. v.value = <<v.value[1], v.value[2]>>
  <2>1. e \in Calls(file) /\ e.kind = "value" /\ v = Decoder(file)[e]
    BY <1>2, <1>3, KeyIsReady DEF RootValue
  <2> HIDE DEF e, v
  <2> QED
    BY <1>2, <2>1, ValueShape
<1>7. Torrent(file).info = root[2]["info"][2]
  BY DEF Torrent
<1> HIDE DEF v, root
<1> QED
  BY <1>1, <1>2, <1>4, <1>5, <1>6, <1>7

-----------------------------------------------------------------------------
(***************************************************************************)
(* The inductive invariant: what the program has found out of the file,    *)
(* and what the bits of the bitfield are.                                  *)
(***************************************************************************)
Opened == pc \in {"opened", "connected", "closed"}

FileInv ==
    /\ file \in File
    /\ pc \in {"start", "tooLarge", "undecodable", "rejected"} \/ Opened
    /\ pc = "undecodable" => ~Unmarshal(file).ok
    /\ pc = "rejected" => Unmarshal(file).ok
    /\ Opened => Unmarshal(file).ok /\ IsTorrent(file) /\ torrent = Torrent(file)

\* The place of piece p in a bitfield.
IsAt(p, k, x) == p \div B = k - 1 /\ Bit(p) = x

BitfieldInv ==
    /\ announced \subseteq Nat /\ orderly \in BOOLEAN
    /\ IF bitfield = Nil
       THEN announced = {} /\ orderly
       ELSE /\ pc \in {"connected", "closed"}
            /\ bitfield \in Seq(SUBSET (0 .. B - 1))
            /\ \A k \in DOMAIN bitfield : \A x \in bitfield[k] : \E p \in announced : IsAt(p, k, x)
            /\ orderly =>
                /\ Len(bitfield) = BytesNeeded
                /\ \A p \in announced : \A k \in DOMAIN bitfield :
                       p \div B = k - 1 => Bit(p) \in bitfield[k]

SessionInv == FileInv /\ BitfieldInv

-----------------------------------------------------------------------------
(***************************************************************************)
(* Places in a bitfield.                                                   *)
(***************************************************************************)
\* A piece has its bit in one byte.
LEMMA PlaceFacts ==
    ASSUME NEW p \in Nat
    PROVE  /\ p \div B \in Nat /\ Bit(p) \in 0 .. B - 1
           /\ p = (p \div B) * B + (p % B) /\ p % B \in 0 .. B - 1
           /\ (p \div B) * B \in Nat
<1>1. B \in Nat \ {0}
  BY SessionAssumption
<1>2. p \div B \in Nat /\ p % B \in 0 .. B - 1 /\ p = ((p \div B) * B) + (p % B)
  BY <1>1, Division
<1>3. (p \div B) * B \in Nat
  BY <1>1, <1>2, ProductGrows
<1>4. \A r \in 0 .. B - 1 : B - 1 - r \in 0 .. B - 1
  BY <1>1
<1> QED
  BY <1>2, <1>3, <1>4 DEF Bit

\* Two pieces have no place in common.
LEMMA OnePlace ==
    ASSUME NEW p \in Nat, NEW q \in Nat, NEW k, NEW x, IsAt(p, k, x), IsAt(q, k, x)
    PROVE  p = q
<1> DEFINE m == (p \div B) * B
           r == p % B
           s == q % B
<1>1. m \in Nat /\ p = m + r /\ r \in 0 .. B - 1 /\ q = (q \div B) * B + s /\ s \in 0 .. B - 1
  BY PlaceFacts
<1>2. (q \div B) * B = m
  BY DEF IsAt
<1>3. B - 1 - r = B - 1 - s
  BY DEF IsAt, Bit
<1>4. B \in Nat
  BY SessionAssumption
<1> HIDE DEF m, r, s
<1> QED
  BY <1>1, <1>2, <1>3, <1>4

\* The bytes that are needed have a place for every piece.
LEMMA NeededFacts ==
    ASSUME torrent.pieces \in Nat \ {0}
    PROVE  /\ BytesNeeded \in Nat
           /\ \A p \in 0 .. torrent.pieces - 1 : p \div B < BytesNeeded
<1> DEFINE n == torrent.pieces
           m == (n + B - 1) \div B
           r == (n + B - 1) % B
<1>1. B \in Nat \ {0} /\ n \in Nat \ {0}
  BY SessionAssumption
<1> HIDE DEF n
<1>2. n + B - 1 \in Nat
  BY <1>1
<1>3. m \in Nat /\ r \in 0 .. B - 1 /\ n + B - 1 = m * B + r
  BY <1>1, <1>2, Division
<1> HIDE DEF m, r
<1>4. m * B \in Nat /\ n <= m * B
  <2>1. m * B \in Nat
    BY <1>1, <1>3, ProductGrows
  <2> QED
    BY <1>1, <1>3, <2>1
<1>5. ASSUME NEW p \in 0 .. n - 1
      PROVE  p \div B < m
  <2> DEFINE d == p \div B
             k == p % B
  <2>1. p \in Nat /\ d \in Nat /\ d * B \in Nat /\ k \in 0 .. B - 1 /\ p = d * B + k
    <3>1. p \in Nat
      BY <1>1
    <3> QED
      BY <3>1, PlaceFacts
  <2> HIDE DEF d, k
  <2>2. d * B < m * B + 0
    BY <1>1, <1>4, <2>1
  <2>3. d < m
    <3>1. 0 <= B /\ 0 \in Nat
      BY <1>1
    <3>2. d <= m /\ (0 = 0 => d < m)
      BY <1>1, <1>3, <2>1, <2>2, <3>1, QuotientBelow
    <3> QED
      BY <3>2
  <2> QED
    BY <2>3 DEF d
<1> QED
  BY <1>3, <1>5 DEF n, m, BytesNeeded

\* HasPiece is what the bit says.
LEMMA HasPieceFacts ==
    ASSUME bitfield # Nil, bitfield \in Seq(SUBSET (0 .. B - 1)), NEW p \in Nat
    PROVE  HasPiece(p) <=>
               p \div B < Len(bitfield) /\ Bit(p) \in bitfield[p \div B + 1]
<1> DEFINE d == p \div B
           k == p % B
           l == Len(bitfield)
<1>1. B \in Nat \ {0} /\ l \in Nat
  BY SessionAssumption
<1>2. d \in Nat /\ d * B \in Nat /\ k \in 0 .. B - 1 /\ p = d * B + k
  BY PlaceFacts
<1>3. l * B \in Nat
  BY <1>1, ProductGrows
<1> HIDE DEF k, l
<1>4. p \in 0 .. l * B - 1 <=> d < l
  <2> HIDE DEF d
  <2>1. ASSUME p \in 0 .. l * B - 1
        PROVE  d < l
    <3>1. d * B < l * B + 0
      BY <1>1, <1>2, <1>3, <2>1
    <3>2. 0 <= B /\ 0 \in Nat
      BY <1>1
    <3>3. d <= l /\ (0 = 0 => d < l)
      BY <1>1, <1>2, <3>1, <3>2, QuotientBelow
    <3> QED
      BY <3>3
  <2>2. ASSUME d < l
        PROVE  p \in 0 .. l * B - 1
    <3>1. d + 1 \in Nat /\ d + 1 <= l
      BY <1>1, <1>2, <2>2
    <3>2. (d + 1) * B <= l * B /\ (d + 1) * B = d * B + B
      BY <1>1, <1>2, <3>1, ProductGrows, SuccessorProduct
    <3> QED
      BY <1>1, <1>2, <1>3, <3>2
  <2> QED
    BY <2>1, <2>2
<1> QED
  BY <1>4 DEF HasPiece, d, l

-----------------------------------------------------------------------------
(***************************************************************************)
(* The pieces of a torrent that was opened.                                *)
(***************************************************************************)
\* A field of a dictionary in the document that is one itself.
LEMMA InnerDict ==
    ASSUME NEW b \in Seq(Token), NEW value, IsValueIn(b, value), value[1] = "dict"
    PROVE  \A k \in DOMAIN value[2] : IsValueIn(b, value[2][k])
<1>1. PICK c \in Calls(b) : c.kind = "value" /\ Decoder(b)[c].ok /\ value = Decoder(b)[c].value
  BY DEF IsValueIn
<1> DEFINE x == Call("dict", c.at + 1, c.depth + 1)
<1>2. x \in Calls(b) /\ Decoder(b)[x].ok /\ value[2] = Decoder(b)[x].value
  BY <1>1, ValueShape
<1>3. x.kind = "dict"
  BY DEF Call
<1> HIDE DEF x
<1> QED
  BY <1>2, <1>3, EntriesAreValues

\* An opened torrent has pieces.
LEMMA TorrentHasPieces ==
    ASSUME file \in Seq(Token), Unmarshal(file).ok, IsTorrent(file)
    PROVE  Torrent(file).pieces \in Nat \ {0}
<1> DEFINE root == Unmarshal(file).value
           info == root[2]["info"]
           pieces == info[2]["pieces"]
           c == Call("value", 0, 0)
<1>1. root[1] = "dict" /\ "info" \in DOMAIN root[2] /\ info[1] = "dict"
  BY DEF IsTorrent, IsRoot, Field
<1>2. "pieces" \in DOMAIN info[2] /\ pieces[1] = "string" /\ Hashes[pieces[2]] > 0
  BY DEF IsTorrent, IsRoot, IsInfo, Field
<1>3. IsValueIn(file, root)
  <2>1. 0 \in 0 .. Len(file) /\ 0 \in 0 .. MaxParseDepth
    BY TokensAssumption
  <2>2. c \in Calls(file) /\ c.kind = "value"
    BY <2>1, NewCall
  <2>3. Unmarshal(file) = Decoder(file)[c]
    BY DEF Unmarshal, ParseAt, Failed
  <2> HIDE DEF c
  <2> QED
    BY <2>2, <2>3 DEF IsValueIn
<1>4. Torrent(file).pieces = Hashes[pieces[2]]
  BY DEF Torrent
<1> HIDE DEF root, info, pieces
<1>5. IsValueIn(file, info)
  BY <1>1, <1>3, InnerDict DEF info
<1>6. IsValueIn(file, pieces)
  BY <1>1, <1>2, <1>5, InnerDict DEF pieces
<1>7. pieces[2] \in String
  BY <1>2, <1>6, ValueShape DEF IsValueIn
<1>8. Hashes[pieces[2]] \in Nat
  BY <1>7, TokensAssumption
<1>9. \A n \in Nat : n > 0 => n \in Nat \ {0}
  OBVIOUS
<1> QED
  BY <1>2, <1>4, <1>8, <1>9

\* What the invariant says of an opened torrent.
LEMMA OpenedFacts ==
    ASSUME FileInv, Opened
    PROVE  /\ file \in Seq(Token) /\ Unmarshal(file).ok /\ IsTorrent(file)
           /\ torrent = Torrent(file) /\ torrent.pieces \in Nat \ {0}
<1>1. file \in Seq(Token)
  BY SessionAssumption DEF FileInv, Token
<1> QED
  BY <1>1, TorrentHasPieces DEF FileInv

-----------------------------------------------------------------------------
(***************************************************************************)
(* The steps.                                                              *)
(***************************************************************************)
\* The invariant at the start,
LEMMA InitSession == Init => SessionInv
  BY DEF Init, SessionInv, FileInv, BitfieldInv, Opened

\* after the file was opened,
LEMMA OpenTorrentSession ==
    ASSUME SessionInv, OpenTorrent
    PROVE  SessionInv'
<1>1. pc = "start" /\ UNCHANGED <<file, bitfield, announced, orderly>>
  BY DEF OpenTorrent, peerVars
<1>2. bitfield = Nil /\ announced = {} /\ orderly
  BY <1>1 DEF SessionInv, BitfieldInv
<1>3. BitfieldInv'
  BY <1>1, <1>2 DEF BitfieldInv
<1>4. FileInv'
  BY <1>1 DEF SessionInv, FileInv, Opened, OpenTorrent, Unmarshal, Torrent, IsTorrent
<1> QED
  BY <1>3, <1>4 DEF SessionInv

\* As long as the torrent is the same, bitfields have the same length.
LEMMA BytesNeededUnchanged ==
    ASSUME UNCHANGED torrent
    PROVE  BytesNeeded' = BytesNeeded
  BY DEF BytesNeeded

\* The handshake, and the end of the connection.
LEMMA ConnectionSession ==
    ASSUME SessionInv, Handshake \/ ReadFails
    PROVE  SessionInv'
<1>1. /\ Opened /\ Opened' /\ UNCHANGED <<file, torrent, bitfield, announced, orderly>>
      /\ pc' \in {"connected", "closed"}
  BY DEF Handshake, ReadFails, Opened, peerVars
<1>2. FileInv'
  BY <1>1 DEF SessionInv, FileInv, Unmarshal, Torrent, IsTorrent, Opened
<1>3. BitfieldInv'
  BY <1>1, BytesNeededUnchanged DEF SessionInv, BitfieldInv, IsAt, Bit
<1> QED
  BY <1>2, <1>3 DEF SessionInv

\* What a step that receives a message leaves alone.
LEMMA ReceivesSession ==
    ASSUME SessionInv, pc = "connected", UNCHANGED <<file, pc, torrent>>, BitfieldInv'
    PROVE  SessionInv'
<1>1. FileInv'
  BY DEF SessionInv, FileInv, Unmarshal, Torrent, IsTorrent, Opened
<1> QED
  BY <1>1 DEF SessionInv

\* What is in a packed bitfield.
LEMMA PackFacts ==
    ASSUME NEW n \in Nat, NEW s, s \subseteq Nat
    PROVE  /\ Pack(s, n) \in Seq(SUBSET (0 .. B - 1)) /\ Pack(s, n) # Nil
           /\ Len(Pack(s, n)) = n /\ DOMAIN Pack(s, n) = 1 .. n
           /\ \A k \in 1 .. n :
                /\ \A x \in Pack(s, n)[k] : \E p \in s : IsAt(p, k, x)
                /\ \A p \in s : p \div B = k - 1 => Bit(p) \in Pack(s, n)[k]
<1> DEFINE byte(k) == {Bit(p) : p \in {q \in s : q \div B = k - 1}}
           bytes == [k \in 1 .. n |-> byte(k)]
<1>1. \A k : byte(k) \subseteq 0 .. B - 1
  BY PlaceFacts
<1> HIDE DEF byte
<1>2. bytes \in Seq(SUBSET (0 .. B - 1)) /\ Len(bytes) = n /\ DOMAIN bytes = 1 .. n
  BY <1>1
<1>3. bytes # Nil
  <2> HIDE DEF bytes
  <2> QED
    BY <1>2, SessionAssumption
<1>4. \A k \in 1 .. n : bytes[k] = byte(k)
  OBVIOUS
<1>5. Pack(s, n) = bytes
  BY DEF Pack, byte
<1> HIDE DEF bytes
<1>6. ASSUME NEW k \in 1 .. n
      PROVE  /\ \A x \in byte(k) : \E p \in s : IsAt(p, k, x)
             /\ \A p \in s : p \div B = k - 1 => Bit(p) \in byte(k)
  BY DEF byte, IsAt
<1> QED
  BY <1>2, <1>3, <1>4, <1>5, <1>6

\* A Bitfield replaces what was known of the pieces.
LEMMA ReceiveBitfieldSession ==
    ASSUME SessionInv, NEW n \in 0 .. MaxBitfield, NEW s \in SUBSET (0 .. n * B - 1),
           ReceiveBitfield(n, s)
    PROVE  SessionInv'
<1>1. /\ pc = "connected" /\ UNCHANGED <<file, pc, torrent>>
      /\ bitfield' = Pack(s, n) /\ announced' = announced \cup s
      /\ orderly' = (bitfield = Nil /\ n = BytesNeeded)
  BY DEF ReceiveBitfield
<1>2. n \in Nat /\ s \subseteq Nat
  BY SessionAssumption
<1>3. /\ bitfield' \in Seq(SUBSET (0 .. B - 1)) /\ bitfield' # Nil
      /\ Len(bitfield') = n /\ DOMAIN (bitfield') = 1 .. n
      /\ \A k \in 1 .. n :
            /\ \A x \in bitfield'[k] : \E p \in s : IsAt(p, k, x)
            /\ \A p \in s : p \div B = k - 1 => Bit(p) \in bitfield'[k]
  BY <1>1, <1>2, PackFacts
<1>4. announced \subseteq Nat /\ (bitfield = Nil => announced = {})
  BY DEF SessionInv, BitfieldInv
<1>5. announced' \subseteq Nat /\ orderly' \in BOOLEAN /\ s \subseteq announced'
  BY <1>1, <1>2, <1>4
<1>6. orderly' => Len(bitfield') = BytesNeeded' /\ announced' = s
  BY <1>1, <1>3, <1>4, BytesNeededUnchanged
<1>7. BitfieldInv'
  <2>1. pc' \in {"connected", "closed"}
    BY <1>1
  <2>2. \A k \in DOMAIN (bitfield') : \A x \in bitfield'[k] : \E p \in announced' : IsAt(p, k, x)
    BY <1>3, <1>5
  <2>3. orderly' => \A p \in announced' : \A k \in DOMAIN (bitfield') :
                        p \div B = k - 1 => Bit(p) \in bitfield'[k]
    BY <1>3, <1>6
  <2> QED
    BY <1>3, <1>5, <1>6, <2>1, <2>2, <2>3 DEF BitfieldInv, IsAt, Bit
<1> QED
  BY <1>1, <1>7, ReceivesSession

\* A Have adds its bit, if the bitfield has a place for it.
LEMMA ReceiveHaveSession ==
    ASSUME SessionInv, NEW p \in 0 .. MaxHave, ReceiveHave(p)
    PROVE  SessionInv'
<1> DEFINE bytes == IF bitfield = Nil THEN [i \in 1 .. BytesNeeded |-> {}] ELSE bitfield
           k == p \div B + 1
<1>1. /\ pc = "connected" /\ UNCHANGED <<file, pc, torrent, orderly>>
      /\ announced' = announced \cup {p}
      /\ bitfield' = IF p \div B < Len(bytes)
                     THEN [bytes EXCEPT ![k] = @ \cup {Bit(p)}] ELSE bytes
  BY DEF ReceiveHave, SetPiece
<1>2. BytesNeeded \in Nat
  BY <1>1, OpenedFacts, NeededFacts DEF SessionInv, Opened
<1>3. p \in Nat /\ p \div B \in Nat /\ Bit(p) \in 0 .. B - 1
  BY PlaceFacts
<1>4. /\ bytes \in Seq(SUBSET (0 .. B - 1)) /\ announced \subseteq Nat /\ orderly \in BOOLEAN
      /\ \A i \in DOMAIN bytes : \A x \in bytes[i] : \E q \in announced : IsAt(q, i, x)
      /\ orderly =>
            /\ Len(bytes) = BytesNeeded
            /\ \A q \in announced : \A i \in DOMAIN bytes :
                   q \div B = i - 1 => Bit(q) \in bytes[i]
  <2>1. CASE bitfield = Nil
    <3>1. bytes = [i \in 1 .. BytesNeeded |-> {}] /\ announced = {} /\ orderly
      BY <2>1 DEF SessionInv, BitfieldInv
    <3>2. Len(bytes) = BytesNeeded /\ bytes \in Seq(SUBSET (0 .. B - 1))
      BY <1>2, <3>1
    <3> HIDE DEF bytes
    <3> QED
      BY <1>2, <3>1, <3>2
  <2>2. CASE bitfield # Nil
    BY <2>2 DEF SessionInv, BitfieldInv
  <2> QED
    BY <2>1, <2>2
<1> HIDE DEF bytes
<1> DEFINE after == bitfield'
<1>5. /\ after \in Seq(SUBSET (0 .. B - 1)) /\ Len(after) = Len(bytes)
      /\ DOMAIN after = DOMAIN bytes
      /\ \A i \in DOMAIN bytes : after[i] = IF i = k THEN bytes[i] \cup {Bit(p)} ELSE bytes[i]
  <2>1. Len(bytes) \in Nat /\ DOMAIN bytes = 1 .. Len(bytes)
    BY <1>4
  <2>2. CASE p \div B < Len(bytes)
    <3>1. after = [bytes EXCEPT ![k] = @ \cup {Bit(p)}]
      BY <1>1, <2>2
    <3>2. k \in 1 .. Len(bytes)
      BY <1>3, <2>1, <2>2
    <3>3. bytes[k] \cup {Bit(p)} \in SUBSET (0 .. B - 1)
      BY <1>3, <1>4, <2>1, <3>2
    <3> DEFINE byte == bytes[k] \cup {Bit(p)}
               S == SUBSET (0 .. B - 1)
    <3>4. after = [bytes EXCEPT ![k] = byte]
      BY <3>1
    <3> HIDE DEF k, after, byte, S
    <3>5. bytes \in Seq(S) /\ byte \in S
      BY <1>4, <3>3 DEF byte, S
    <3>6. /\ after \in Seq(S) /\ Len(after) = Len(bytes) /\ DOMAIN after = DOMAIN bytes
          /\ \A i \in DOMAIN bytes : after[i] = IF i = k THEN byte ELSE bytes[i]
      BY <2>1, <3>2, <3>4, <3>5
    <3> QED
      BY <3>6 DEF byte, S
  <2>3. CASE ~(p \div B < Len(bytes))
    <3>1. after = bytes
      BY <1>1, <2>3
    <3>2. k \notin DOMAIN bytes
      BY <1>3, <2>1, <2>3
    <3> HIDE DEF k, after
    <3> QED
      BY <1>4, <3>1, <3>2
  <2> QED
    BY <2>2, <2>3
<1>6. after # Nil
  BY <1>5, SessionAssumption
<1>7. \A i \in DOMAIN bytes : p \div B = i - 1 <=> i = k
  <2>1. DOMAIN bytes \subseteq Nat
    BY <1>4
  <2> QED
    BY <1>3, <2>1
<1>8. \A i \in DOMAIN after : \A x \in after[i] : \E q \in announced' : IsAt(q, i, x)
  BY <1>1, <1>4, <1>5, <1>7 DEF IsAt
<1>9. orderly' => \A q \in announced' : \A i \in DOMAIN after :
                      q \div B = i - 1 => Bit(q) \in after[i]
  BY <1>1, <1>4, <1>5, <1>7
<1>10. orderly' => Len(after) = BytesNeeded'
  BY <1>1, <1>4, <1>5, BytesNeededUnchanged
<1>11. announced' \subseteq Nat /\ orderly' \in BOOLEAN /\ pc' \in {"connected", "closed"}
  BY <1>1, <1>3, <1>4
<1>12. BitfieldInv'
  BY <1>5, <1>6, <1>8, <1>9, <1>10, <1>11 DEF BitfieldInv, IsAt, Bit
<1> QED
  BY <1>1, <1>12, ReceivesSession

\* What is found out of the file, and what the bits are, in every reachable state.
THEOREM SessionIsInductive == Spec => []SessionInv
<1>1. ASSUME SessionInv, [Next]_vars
      PROVE  SessionInv'
  <2>1. CASE UNCHANGED vars
    BY <1>1, <2>1, BytesNeededUnchanged
       DEF vars, SessionInv, FileInv, BitfieldInv, Unmarshal, Torrent, IsTorrent, Opened, IsAt, Bit
  <2>2. CASE OpenTorrent
    BY <1>1, <2>2, OpenTorrentSession
  <2>3. CASE Handshake \/ ReadFails
    BY <1>1, <2>3, ConnectionSession
  <2>4. CASE \E n \in 0 .. MaxBitfield : \E s \in SUBSET (0 .. n * B - 1) : ReceiveBitfield(n, s)
    BY <1>1, <2>4, ReceiveBitfieldSession
  <2>5. CASE \E p \in 0 .. MaxHave : ReceiveHave(p)
    BY <1>1, <2>5, ReceiveHaveSession
  <2> QED
    BY <1>1, <2>1, <2>2, <2>3, <2>4, <2>5 DEF Next
<1> QED
  BY <1>1, InitSession, PTL DEF Spec

\* A file is undecodable exactly if the automaton does not accept it, whatever its
\* length and however deep it is nested.
THEOREM DecoderIsExact == Spec => []DecodesExactly
<1>1. ASSUME SessionInv
      PROVE  DecodesExactly
  <2>1. file \in Seq(Token)
    BY <1>1, SessionAssumption DEF SessionInv, FileInv, Token
  <2>2. Unmarshal(file).ok <=> StackAfter(Len(file)) = <<>>
    BY <2>1, AcceptsTheSame
  <2>3. SUFFICES ASSUME pc \in {"undecodable", "rejected", "opened"}
                 PROVE  pc # "undecodable" <=> StackAfter(Len(file)) = <<>>
    BY DEF DecodesExactly
  <2>4. pc # "undecodable" <=> Unmarshal(file).ok
    BY <1>1, <2>3 DEF SessionInv, FileInv, Opened
  <2> QED
    BY <2>2, <2>4
<1> QED
  BY <1>1, SessionIsInductive, PTL

\* The hash of an opened torrent whose root has one key "info" is of this value, whole,
\* and of the fields that were read.
THEOREM HashIsOfTheInfo == Spec => []HashCoversInfo
<1>1. ASSUME SessionInv
      PROVE  HashCoversInfo
  <2> DEFINE inRoot == {i \in DOMAIN file : StackAfter(i) = <<"key">>}
             infoAt == {i \in DOMAIN file : file[i] = "info" /\ StackAfter(i) = <<"value">>}
  <2>1. SUFFICES ASSUME pc = "opened", NEW i \in infoAt, infoAt = {i}
                 PROVE  /\ \E j \in inRoot : /\ torrent.hash = SubSeq(file, i + 1, j)
                                             /\ \A k \in i + 1 .. j - 1 : k \notin inRoot
                        /\ Unmarshal(torrent.hash).value = <<"dict", torrent.info>>
    BY DEF HashCoversInfo
  <2>2. /\ file \in Seq(Token) /\ Unmarshal(file).ok /\ IsTorrent(file)
        /\ torrent = Torrent(file)
    BY <1>1, <2>1, OpenedFacts DEF SessionInv, Opened
  <2>3. i \in InfoAt /\ InfoAt = {i}
    BY <2>1 DEF InfoAt
  <2>4. torrent.hash = FindInfoBytes(file)
    BY <2>2 DEF Torrent
  <2>5. /\ \E j \in DOMAIN file :
              /\ StackAfter(j) = <<"key">> /\ FindInfoBytes(file) = SubSeq(file, i + 1, j)
              /\ \A k \in i + 1 .. j - 1 : StackAfter(k) # <<"key">>
        /\ Unmarshal(FindInfoBytes(file)).value = <<"dict", Torrent(file).info>>
    BY <2>2, <2>3, HashFacts
  <2> QED
    BY <2>2, <2>4, <2>5
<1> QED
  BY <1>1, SessionIsInductive, PTL

\* What HasPiece finds was announced, and what an orderly peer announced it finds, for
\* bitfields of any length.
THEOREM PiecesAreAnnounced == Spec => []HasPieceIsAnnounced
<1>1. ASSUME SessionInv
      PROVE  HasPieceIsAnnounced
  <2>1. SUFFICES ASSUME pc \in {"connected", "closed"}, NEW p \in 0 .. torrent.pieces - 1
                 PROVE  /\ HasPiece(p) => p \in announced
                        /\ orderly /\ p \in announced => HasPiece(p)
    BY DEF HasPieceIsAnnounced
  <2>2. torrent.pieces \in Nat \ {0}
    BY <1>1, <2>1, OpenedFacts DEF SessionInv, Opened
  <2>3. p \in Nat /\ p \div B < BytesNeeded /\ p \div B \in Nat
    <3>1. \A n \in Nat : \A r \in 0 .. n - 1 : r \in Nat
      OBVIOUS
    <3>2. p \in Nat
      BY <2>2, <3>1
    <3> QED
      BY <2>2, <3>2, NeededFacts, PlaceFacts
  <2> DEFINE k == p \div B + 1
  <2>4. CASE bitfield = Nil
    BY <1>1, <2>4 DEF SessionInv, BitfieldInv, HasPiece
  <2>5. CASE bitfield # Nil
    <3>1. /\ bitfield \in Seq(SUBSET (0 .. B - 1)) /\ announced \subseteq Nat
          /\ \A i \in DOMAIN bitfield : \A x \in bitfield[i] : \E q \in announced : IsAt(q, i, x)
          /\ orderly =>
                /\ Len(bitfield) = BytesNeeded
                /\ \A q \in announced : \A i \in DOMAIN bitfield :
                       q \div B = i - 1 => Bit(q) \in bitfield[i]
      BY <1>1, <2>5 DEF SessionInv, BitfieldInv
    <3>2. HasPiece(p) <=> p \div B < Len(bitfield) /\ Bit(p) \in bitfield[k]
      BY <2>3, <2>5, <3>1, HasPieceFacts
    <3>3. p \div B < Len(bitfield) => k \in DOMAIN bitfield
      BY <2>3, <3>1
    <3>4. p \div B = k - 1
      BY <2>3
    <3> HIDE DEF k
    <3>5. ASSUME HasPiece(p)
          PROVE  p \in announced
      <4>1. PICK q \in announced : IsAt(q, k, Bit(p))
        BY <3>1, <3>2, <3>3, <3>5
      <4>2. IsAt(p, k, Bit(p)) /\ q \in Nat
        BY <3>1, <3>4 DEF IsAt
      <4>3. p = q
        BY <2>3, <4>1, <4>2, OnePlace
      <4> QED
        BY <4>3
    <3>6. ASSUME orderly, p \in announced
          PROVE  HasPiece(p)
      BY <2>3, <3>1, <3>2, <3>3, <3>4, <3>6
    <3> QED
      BY <3>5, <3>6
  <2> QED
    BY <2>4, <2>5
<1> QED
  BY <1>1, SessionIsInductive, PTL
=============================================================================
