--------------------------- MODULE MetainfoProofs ---------------------------
(***************************************************************************)
(* What the decoder computes, for every document.                          *)
(***************************************************************************)
EXTENDS Metainfo, NatFacts

Token == {"d", "l", "e"} \cup String \cup Number \cup Malformed

\* The calls that a call makes have a lesser rank.
Rank(b, c) == 2 * (Len(b) - c.at) + IF c.kind = "value" THEN 0 ELSE 1

\* A value is of one token at least, and ends within the document.
Fits(b, c, result) ==
    /\ result.ok \in BOOLEAN
    /\ result.ok => result.size \in 1 .. Len(b) - c.at

-----------------------------------------------------------------------------
\* The parts of a call.
LEMMA CallFacts ==
    ASSUME NEW b \in Seq(Token), NEW c \in Calls(b)
    PROVE  /\ Len(b) \in Nat /\ c.at \in 0 .. Len(b) /\ c.depth \in 0 .. MaxParseDepth
           /\ c.kind \in {"value", "list", "dict"} /\ Rank(b, c) \in Nat
           /\ Rank(b, c) < 2 * Len(b) + 2
  BY DEF Calls, Rank

\* A call made at a place of the document, at a depth within the limit.
LEMMA NewCall ==
    ASSUME NEW b \in Seq(Token), NEW kind \in {"value", "list", "dict"},
           NEW at \in 0 .. Len(b), NEW depth \in 0 .. MaxParseDepth
    PROVE  /\ Call(kind, at, depth) \in Calls(b)
           /\ Call(kind, at, depth).kind = kind /\ Call(kind, at, depth).at = at
           /\ Call(kind, at, depth).depth = depth
           /\ Rank(b, Call(kind, at, depth)) =
                  2 * (Len(b) - at) + IF kind = "value" THEN 0 ELSE 1
  BY DEF Calls, Call, Rank

\* A failure fits every call.
LEMMA FailedFits ==
    ASSUME NEW b, NEW c
    PROVE  ~Failed.ok /\ Fits(b, c, Failed)
  BY DEF Failed, Fits

\* A result of this size fits, and has these fields.
LEMMA ParsedFits ==
    ASSUME NEW b \in Seq(Token), NEW c \in Calls(b), NEW value, NEW size \in 1 .. Len(b) - c.at
    PROVE  /\ Fits(b, c, Parsed(value, size)) /\ Parsed(value, size).ok
           /\ Parsed(value, size).value = value /\ Parsed(value, size).size = size
  BY DEF Parsed, Fits

-----------------------------------------------------------------------------
(***************************************************************************)
(* The outcomes of a call, told by the calls that it makes.                *)
(***************************************************************************)
LesserFit(b, g, c) == \A x \in Calls(b) : Rank(b, x) < Rank(b, c) => Fits(b, x, g[x])

\* x is the call of this kind at this place and depth, and of lesser rank than c.
IsLesser(b, c, x, kind, at, depth) ==
    /\ x = Call(kind, at, depth) /\ x \in Calls(b)
    /\ x.kind = kind /\ x.at = at /\ x.depth = depth
    /\ Rank(b, x) < Rank(b, c)

\* The calls of a list and a dictionary: a value at some place, and the rest after it.
ItemCall(c) == Call("value", c.at, c.depth)
ListRest(g, c) == Call("list", c.at + g[ItemCall(c)].size, c.depth)
EntryCall(c) == Call("value", c.at + 1, c.depth)
DictRest(g, c) == Call("dict", c.at + 1 + g[EntryCall(c)].size, c.depth)

\* The value at v and the rest at r are both there.
Both(b, g, c, v, r, kind) ==
    /\ IsLesser(b, c, v, "value", v.at, c.depth)
    /\ g[v].ok /\ g[v].size \in 1 .. Len(b) - v.at
    /\ IsLesser(b, c, r, kind, v.at + g[v].size, c.depth)
    /\ g[r].ok /\ g[r].size \in 1 .. Len(b) - r.at

\* One of them is not.
NotBoth(b, g, c, v, r, kind) ==
    /\ IsLesser(b, c, v, "value", v.at, c.depth)
    /\ \/ ~g[v].ok
       \/ /\ g[v].ok /\ g[v].size \in 1 .. Len(b) - v.at
          /\ IsLesser(b, c, r, kind, v.at + g[v].size, c.depth)
          /\ ~g[r].ok

ListOutcome(b, g, c, result) ==
    LET v == ItemCall(c)
        r == ListRest(g, c)
    IN  \/ c.at = Len(b) /\ result = Failed
        \/ c.at < Len(b) /\ b[c.at + 1] = "e" /\ result = Parsed(<<>>, 1)
        \/ /\ c.at < Len(b) /\ b[c.at + 1] # "e" /\ v.at = c.at
           /\ NotBoth(b, g, c, v, r, "list") /\ result = Failed
        \/ /\ c.at < Len(b) /\ b[c.at + 1] # "e" /\ v.at = c.at
           /\ Both(b, g, c, v, r, "list")
           /\ result = Parsed(<<g[v].value>> \o g[r].value, g[v].size + g[r].size)

DictOutcome(b, g, c, result) ==
    LET v == EntryCall(c)
        r == DictRest(g, c)
    IN  \/ c.at = Len(b) /\ result = Failed
        \/ c.at < Len(b) /\ b[c.at + 1] = "e" /\ result = Parsed(<<>>, 1)
        \/ c.at < Len(b) /\ b[c.at + 1] \notin {"e"} \cup String /\ result = Failed
        \/ /\ c.at < Len(b) /\ b[c.at + 1] \in String /\ v.at = c.at + 1
           /\ NotBoth(b, g, c, v, r, "dict") /\ result = Failed
        \/ /\ c.at < Len(b) /\ b[c.at + 1] \in String /\ v.at = c.at + 1
           /\ Both(b, g, c, v, r, "dict")
           /\ result = Parsed(PutBefore(g[r].value, b[c.at + 1], g[v].value),
                              1 + g[v].size + g[r].size)

InsideOutcome(b, g, c, kind, result) ==
    LET x == Call(kind, c.at + 1, c.depth + 1)
    IN  \/ c.depth = MaxParseDepth /\ result = Failed
        \/ /\ c.depth < MaxParseDepth /\ IsLesser(b, c, x, kind, c.at + 1, c.depth + 1)
           /\ ~g[x].ok /\ result = Failed
        \/ /\ c.depth < MaxParseDepth /\ IsLesser(b, c, x, kind, c.at + 1, c.depth + 1)
           /\ g[x].ok /\ g[x].size \in 1 .. Len(b) - x.at
           /\ result = Parsed(<<kind, g[x].value>>, 1 + g[x].size)

ValueOutcome(b, g, c, result) ==
    \/ c.at = Len(b) /\ result = Failed
    \/ /\ c.at < Len(b) /\ b[c.at + 1] \notin {"l", "d"} \cup Number \cup String
       /\ result = Failed
    \/ c.at < Len(b) /\ b[c.at + 1] \in Number /\ result = Parsed(<<"int", b[c.at + 1]>>, 1)
    \/ c.at < Len(b) /\ b[c.at + 1] \in String /\ result = Parsed(<<"string", b[c.at + 1]>>, 1)
    \/ c.at < Len(b) /\ b[c.at + 1] = "l" /\ InsideOutcome(b, g, c, "list", result)
    \/ c.at < Len(b) /\ b[c.at + 1] = "d" /\ InsideOutcome(b, g, c, "dict", result)

\* A value, and what may follow it.
LEMMA PairOutcome ==
    ASSUME NEW b \in Seq(Token), NEW c \in Calls(b), NEW g, LesserFit(b, g, c),
           NEW kind \in {"list", "dict"}, c.kind = kind,
           NEW at \in {c.at, c.at + 1}, at \in 0 .. Len(b),
           NEW v, v = Call("value", at, c.depth),
           NEW r, r = Call(kind, at + g[v].size, c.depth)
    PROVE  /\ v.at = at
           /\ Both(b, g, c, v, r, kind) <=> g[v].ok /\ g[r].ok
           /\ NotBoth(b, g, c, v, r, kind) <=> ~(g[v].ok /\ g[r].ok)
<1>1. /\ Len(b) \in Nat /\ c.at \in 0 .. Len(b) /\ c.depth \in 0 .. MaxParseDepth
      /\ Rank(b, c) = 2 * (Len(b) - c.at) + 1
  BY CallFacts DEF Rank
<1>2. /\ v \in Calls(b) /\ v.kind = "value" /\ v.at = at /\ v.depth = c.depth
      /\ Rank(b, v) = 2 * (Len(b) - at) + 0
  <2>1. PICK depth \in 0 .. MaxParseDepth : depth = c.depth
    BY <1>1
  <2>2. /\ Call("value", at, depth) \in Calls(b) /\ Call("value", at, depth).kind = "value"
        /\ Call("value", at, depth).at = at /\ Call("value", at, depth).depth = depth
        /\ Rank(b, Call("value", at, depth)) = 2 * (Len(b) - at) + 0
    BY NewCall
  <2> QED
    BY <2>1, <2>2
<1>3. Rank(b, v) < Rank(b, c)
  BY <1>1, <1>2
<1>4. IsLesser(b, c, v, "value", at, c.depth)
  BY <1>2, <1>3 DEF IsLesser
<1>5. Fits(b, v, g[v])
  BY <1>2, <1>3 DEF LesserFit
<1>6. ASSUME g[v].ok
      PROVE  /\ g[v].size \in 1 .. Len(b) - at
             /\ IsLesser(b, c, r, kind, at + g[v].size, c.depth) /\ Fits(b, r, g[r])
  <2>1. g[v].size \in 1 .. Len(b) - at
    BY <1>2, <1>5, <1>6 DEF Fits
  <2>2. at + g[v].size \in 0 .. Len(b)
    <3>1. PICK n \in 1 .. Len(b) - at : n = g[v].size
      BY <2>1
    <3>2. at \in Nat /\ Len(b) \in Nat /\ n \in 1 .. Len(b) - at
      BY <1>1
    <3>3. at + n \in 0 .. Len(b)
      BY ONLY <3>2
    <3> QED
      BY <3>1, <3>3
  <2>3. /\ r \in Calls(b) /\ r.kind = kind /\ r.at = at + g[v].size /\ r.depth = c.depth
        /\ Rank(b, r) = 2 * (Len(b) - (at + g[v].size)) + 1
    <3>1. PICK n \in 0 .. Len(b) : n = at + g[v].size
      BY <2>2
    <3>2. r = Call(kind, n, c.depth) /\ kind # "value" /\ kind \in {"value", "list", "dict"}
      BY <3>1
    <3>3. /\ Call(kind, n, c.depth) \in Calls(b) /\ Call(kind, n, c.depth).kind = kind
          /\ Call(kind, n, c.depth).at = n /\ Call(kind, n, c.depth).depth = c.depth
          /\ Rank(b, Call(kind, n, c.depth)) = 2 * (Len(b) - n) + 1
      BY <1>1, <3>2, NewCall
    <3> QED
      BY <3>1, <3>2, <3>3
  <2>4. Rank(b, r) < Rank(b, c)
    <3>1. PICK n \in 1 .. Len(b) - at : n = g[v].size
      BY <2>1
    <3>2. 2 * (Len(b) - (at + n)) + 1 < 2 * (Len(b) - c.at) + 1
      <4>1. /\ at \in Nat /\ Len(b) \in Nat /\ n \in 1 .. Len(b) - at
            /\ c.at \in Nat /\ c.at <= at
        BY <1>1
      <4> QED
        BY ONLY <4>1
    <3> QED
      BY <1>1, <2>3, <3>1, <3>2
  <2> QED
    BY <2>1, <2>3, <2>4 DEF IsLesser, LesserFit
<1> QED
  BY <1>2, <1>4, <1>5, <1>6 DEF Both, NotBoth, Fits

\* The outcomes of parseList,
LEMMA ListOutcomes ==
    ASSUME NEW b \in Seq(Token), NEW c \in Calls(b), c.kind = "list",
           NEW g, LesserFit(b, g, c)
    PROVE  ListOutcome(b, g, c, ParseList(b, g, c))
<1> DEFINE v == ItemCall(c)
           r == ListRest(g, c)
<1>1. c.at \in 0 .. Len(b) /\ Len(b) \in Nat
  BY CallFacts
<1>2. /\ v = Call("value", c.at, c.depth) /\ r = Call("list", c.at + g[v].size, c.depth)
  BY DEF ItemCall, ListRest
<1>3. /\ v.at = c.at
      /\ Both(b, g, c, v, r, "list") <=> g[v].ok /\ g[r].ok
      /\ NotBoth(b, g, c, v, r, "list") <=> ~(g[v].ok /\ g[r].ok)
  <2> HIDE DEF v, r
  <2> QED
    BY <1>1, <1>2, PairOutcome
<1>4. ParseList(b, g, c) =
        IF c.at = Len(b) THEN Failed
        ELSE IF b[c.at + 1] = "e" THEN Parsed(<<>>, 1)
        ELSE IF g[v].ok /\ g[r].ok
             THEN Parsed(<<g[v].value>> \o g[r].value, g[v].size + g[r].size)
             ELSE Failed
  BY <1>2 DEF ParseList
<1> QED
  BY <1>1, <1>3, <1>4 DEF ListOutcome

\* of parseDict,
LEMMA DictOutcomes ==
    ASSUME NEW b \in Seq(Token), NEW c \in Calls(b), c.kind = "dict",
           NEW g, LesserFit(b, g, c)
    PROVE  DictOutcome(b, g, c, ParseDict(b, g, c))
<1> DEFINE v == EntryCall(c)
           r == DictRest(g, c)
           key == ReadString(b, c.at)
<1>1. c.at \in 0 .. Len(b) /\ Len(b) \in Nat
  BY CallFacts
<1>2. v = Call("value", c.at + 1, c.depth) /\ r = Call("dict", c.at + 1 + g[v].size, c.depth)
  BY DEF EntryCall, DictRest
<1>3. ASSUME c.at < Len(b)
      PROVE  /\ v.at = c.at + 1
             /\ Both(b, g, c, v, r, "dict") <=> g[v].ok /\ g[r].ok
             /\ NotBoth(b, g, c, v, r, "dict") <=> ~(g[v].ok /\ g[r].ok)
  <2>1. c.at + 1 \in 0 .. Len(b)
    BY <1>1, <1>3
  <2> HIDE DEF v, r
  <2> QED
    BY <2>1, <1>2, PairOutcome
<1>4. ParseDict(b, g, c) =
        IF c.at = Len(b) THEN Failed
        ELSE IF b[c.at + 1] = "e" THEN Parsed(<<>>, 1)
        ELSE IF key.ok /\ g[v].ok /\ g[r].ok
             THEN Parsed(PutBefore(g[r].value, key.value[2], g[v].value), 1 + g[v].size + g[r].size)
             ELSE Failed
  BY <1>2 DEF ParseDict
<1>5. c.at < Len(b) => key = IF b[c.at + 1] \in String
                             THEN Parsed(<<"string", b[c.at + 1]>>, 1) ELSE Failed
  BY <1>1 DEF ReadString
<1>6. c.at < Len(b) => /\ key.ok <=> b[c.at + 1] \in String
                       /\ b[c.at + 1] \in String => key.value[2] = b[c.at + 1]
  BY <1>5 DEF Parsed, Failed
<1>7. "e" \notin String
  BY TokensAssumption
<1> HIDE DEF key
<1> QED
  BY <1>1, <1>3, <1>4, <1>6, <1>7 DEF DictOutcome

\* of what stands between "l" or "d" and "e",
LEMMA InsideOutcomes ==
    ASSUME NEW b \in Seq(Token), NEW c \in Calls(b), c.kind = "value", c.at < Len(b),
           NEW g, LesserFit(b, g, c), NEW kind \in {"list", "dict"}
    PROVE  InsideOutcome(b, g, c, kind, Inside(g, kind, c))
<1> DEFINE x == Call(kind, c.at + 1, c.depth + 1)
<1>1. /\ Len(b) \in Nat /\ c.at \in 0 .. Len(b) /\ c.depth \in 0 .. MaxParseDepth
      /\ Rank(b, c) = 2 * (Len(b) - c.at) + 0 /\ MaxParseDepth \in Nat
  BY CallFacts, TokensAssumption DEF Rank
<1>2. CASE c.depth = MaxParseDepth
  BY <1>1, <1>2 DEF InsideOutcome, Inside
<1>3. CASE c.depth < MaxParseDepth
  <2>1. c.at + 1 \in 0 .. Len(b) /\ c.depth + 1 \in 0 .. MaxParseDepth
    BY <1>1, <1>3
  <2>2. /\ x \in Calls(b) /\ x.kind = kind /\ x.at = c.at + 1 /\ x.depth = c.depth + 1
        /\ Rank(b, x) = 2 * (Len(b) - (c.at + 1)) + 1
    BY <2>1, NewCall
  <2>3. Rank(b, x) < Rank(b, c)
    BY <1>1, <2>2
  <2>4. IsLesser(b, c, x, kind, c.at + 1, c.depth + 1) /\ Fits(b, x, g[x])
    BY <2>2, <2>3 DEF IsLesser, LesserFit
  <2>5. Inside(g, kind, c) =
          IF g[x].ok THEN Parsed(<<kind, g[x].value>>, 1 + g[x].size) ELSE Failed
    BY <1>3 DEF Inside
  <2> QED
    BY <1>3, <2>4, <2>5 DEF InsideOutcome, Fits
<1> QED
  BY <1>1, <1>2, <1>3

\* and of parseValueDepth.
LEMMA ValueOutcomes ==
    ASSUME NEW b \in Seq(Token), NEW c \in Calls(b), c.kind = "value",
           NEW g, LesserFit(b, g, c)
    PROVE  ValueOutcome(b, g, c, ParseValue(b, g, c))
<1>1. c.at \in 0 .. Len(b) /\ Len(b) \in Nat
  BY CallFacts
<1>2. CASE c.at = Len(b)
  BY <1>2 DEF ParseValue, ValueOutcome
<1>3. CASE c.at < Len(b)
  <2> DEFINE token == b[c.at + 1]
  <2>1. ParseValue(b, g, c) =
          CASE token \in Number -> Parsed(<<"int", token>>, 1)
            [] token \in String -> ReadString(b, c.at)
            [] token = "l" -> Inside(g, "list", c)
            [] token = "d" -> Inside(g, "dict", c)
            [] OTHER -> Failed
    BY <1>1, <1>3 DEF ParseValue
  <2>2. token \in String => ReadString(b, c.at) = Parsed(<<"string", token>>, 1)
    BY <1>3 DEF ReadString
  <2>3. /\ Number \cap String = {} /\ "l" \notin Number \cup String /\ "d" \notin Number \cup String
    BY TokensAssumption
  <2>4. /\ InsideOutcome(b, g, c, "list", Inside(g, "list", c))
        /\ InsideOutcome(b, g, c, "dict", Inside(g, "dict", c))
    BY <1>3, InsideOutcomes
  <2> HIDE DEF token
  <2>5. CASE token \in Number
    BY <2>1, <2>3, <2>5, <1>3 DEF ValueOutcome, token
  <2>6. CASE token \in String
    BY <2>1, <2>2, <2>3, <2>6, <1>3 DEF ValueOutcome, token
  <2>7. CASE token = "l"
    BY <2>1, <2>3, <2>4, <2>7, <1>3 DEF ValueOutcome, token
  <2>8. CASE token = "d"
    BY <2>1, <2>3, <2>4, <2>8, <1>3 DEF ValueOutcome, token
  <2>9. CASE token \notin {"l", "d"} \cup Number \cup String
    BY <2>1, <2>9, <1>3 DEF ValueOutcome, token
  <2> QED
    BY <2>5, <2>6, <2>7, <2>8, <2>9
<1> QED
  BY <1>1, <1>2, <1>3

-----------------------------------------------------------------------------
(***************************************************************************)
(* Decoder is defined: a call looks at lesser ones only.                   *)
(***************************************************************************)
\* The outcome of a call, of any kind, and that it fits.
LEMMA ParseOutcomes ==
    ASSUME NEW b \in Seq(Token), NEW c \in Calls(b), NEW g, LesserFit(b, g, c)
    PROVE  /\ c.kind = "value" => ValueOutcome(b, g, c, Parse(b, g, c))
           /\ c.kind = "list" => ListOutcome(b, g, c, Parse(b, g, c))
           /\ c.kind = "dict" => DictOutcome(b, g, c, Parse(b, g, c))
<1>1. c.kind \in {"value", "list", "dict"}
  BY CallFacts
<1>2. CASE c.kind = "value"
  <2>1. Parse(b, g, c) = ParseValue(b, g, c)
    BY <1>2 DEF Parse
  <2> QED
    BY <1>2, <2>1, ValueOutcomes
<1>3. CASE c.kind = "list"
  <2>1. Parse(b, g, c) = ParseList(b, g, c)
    BY <1>3 DEF Parse
  <2> QED
    BY <1>3, <2>1, ListOutcomes
<1>4. CASE c.kind = "dict"
  <2>1. Parse(b, g, c) = ParseDict(b, g, c)
    BY <1>4 DEF Parse
  <2> QED
    BY <1>4, <2>1, DictOutcomes
<1> QED
  BY <1>1, <1>2, <1>3, <1>4

\* A result fits if the results of the calls of lesser rank do.
LEMMA ParseFits ==
    ASSUME NEW b \in Seq(Token), NEW c \in Calls(b), NEW g, LesserFit(b, g, c)
    PROVE  Fits(b, c, Parse(b, g, c))
<1> DEFINE result == Parse(b, g, c)
<1>1. /\ Len(b) \in Nat /\ c.at \in 0 .. Len(b) /\ c.kind \in {"value", "list", "dict"}
  BY CallFacts
<1>2. /\ c.kind = "value" => ValueOutcome(b, g, c, result)
      /\ c.kind = "list" => ListOutcome(b, g, c, result)
      /\ c.kind = "dict" => DictOutcome(b, g, c, result)
  BY ParseOutcomes
<1> HIDE DEF result
<1>3. \/ result = Failed
      \/ \E value : \E size \in 1 .. Len(b) - c.at : result = Parsed(value, size)
  <2>1. CASE c.kind = "value"
    <3>1. ASSUME NEW kind \in {"list", "dict"}, c.at < Len(b), InsideOutcome(b, g, c, kind, result)
          PROVE  <1>3!:
      <4> DEFINE x == Call(kind, c.at + 1, c.depth + 1)
      <4>1. CASE /\ IsLesser(b, c, x, kind, c.at + 1, c.depth + 1)
                 /\ g[x].ok /\ g[x].size \in 1 .. Len(b) - x.at
                 /\ result = Parsed(<<kind, g[x].value>>, 1 + g[x].size)
        <5>1. 1 + g[x].size \in 1 .. Len(b) - c.at
          BY <4>1, <1>1 DEF IsLesser
        <5> QED
          BY <4>1, <5>1
      <4>2. CASE result = Failed
        BY <4>2
      <4> QED
        BY <3>1, <4>1, <4>2 DEF InsideOutcome
    <3>2. c.at < Len(b) => 1 \in 1 .. Len(b) - c.at
      BY <1>1
    <3> QED
      BY <1>2, <2>1, <3>1, <3>2 DEF ValueOutcome
  <2>2. CASE c.kind = "list"
    <3> DEFINE v == ItemCall(c)
               r == ListRest(g, c)
    <3>1. c.at < Len(b) => 1 \in 1 .. Len(b) - c.at
      BY <1>1
    <3>2. v.at = c.at /\ Both(b, g, c, v, r, "list") => g[v].size + g[r].size \in 1 .. Len(b) - c.at
      BY <1>1 DEF Both, IsLesser
    <3> HIDE DEF v, r
    <3> QED
      BY <1>2, <2>2, <3>1, <3>2 DEF ListOutcome, v, r
  <2>3. CASE c.kind = "dict"
    <3> DEFINE v == EntryCall(c)
               r == DictRest(g, c)
    <3>1. c.at < Len(b) => 1 \in 1 .. Len(b) - c.at
      BY <1>1
    <3>2. v.at = c.at + 1 /\ Both(b, g, c, v, r, "dict")
          => 1 + g[v].size + g[r].size \in 1 .. Len(b) - c.at
      <4> SUFFICES ASSUME v.at = c.at + 1, Both(b, g, c, v, r, "dict")
                   PROVE  1 + g[v].size + g[r].size \in 1 .. Len(b) - c.at
        OBVIOUS
      <4>1. /\ g[v].size \in 1 .. Len(b) - (c.at + 1)
            /\ r.at = c.at + 1 + g[v].size /\ g[r].size \in 1 .. Len(b) - r.at
        BY DEF Both, IsLesser
      <4> HIDE DEF v, r
      <4>2. PICK m \in 1 .. Len(b) - (c.at + 1) : m = g[v].size
        BY <4>1
      <4>3. PICK n \in 1 .. Len(b) - (c.at + 1 + m) : n = g[r].size
        BY <4>1, <4>2
      <4>4. 1 + m + n \in 1 .. Len(b) - c.at
        <5>1. /\ m \in Int /\ n \in Int /\ c.at \in Int /\ Len(b) \in Int /\ m >= 1 /\ n >= 1
              /\ n <= Len(b) - (c.at + 1 + m)
          BY <1>1, <4>2, <4>3
        <5> QED
          BY ONLY <5>1
      <4> QED
        BY <4>2, <4>3, <4>4
    <3> HIDE DEF v, r
    <3> QED
      BY <1>2, <2>3, <3>1, <3>2 DEF DictOutcome, v, r
  <2> QED
    BY <1>1, <2>1, <2>2, <2>3
<1>4. Fits(b, c, result)
  BY <1>3, FailedFits, ParsedFits
<1> QED
  BY <1>4 DEF result

\* The same lesser calls give the same result.
LEMMA ParseAgrees ==
    ASSUME NEW b \in Seq(Token), NEW c \in Calls(b), NEW g, NEW h, LesserFit(b, g, c),
           \A x \in Calls(b) : Rank(b, x) < Rank(b, c) => g[x] = h[x]
    PROVE  Parse(b, g, c) = Parse(b, h, c)
<1>1. LesserFit(b, h, c) /\ c.kind \in {"value", "list", "dict"}
  BY CallFacts DEF LesserFit
<1>2. /\ c.kind = "value" => ValueOutcome(b, g, c, Parse(b, g, c))
      /\ c.kind = "list" => ListOutcome(b, g, c, Parse(b, g, c))
      /\ c.kind = "dict" => DictOutcome(b, g, c, Parse(b, g, c))
      /\ c.kind = "value" => ValueOutcome(b, h, c, Parse(b, h, c))
      /\ c.kind = "list" => ListOutcome(b, h, c, Parse(b, h, c))
      /\ c.kind = "dict" => DictOutcome(b, h, c, Parse(b, h, c))
  BY <1>1, ParseOutcomes
<1>3. \A x, kind, at, depth : IsLesser(b, c, x, kind, at, depth) => g[x] = h[x]
  BY DEF IsLesser
<1>4. CASE c.kind = "value"
  <2>1. \A kind, r, s : InsideOutcome(b, g, c, kind, r) /\ InsideOutcome(b, h, c, kind, s) => r = s
    <3> TAKE kind, r, s
    <3> DEFINE x == Call(kind, c.at + 1, c.depth + 1)
    <3>1. IsLesser(b, c, x, kind, c.at + 1, c.depth + 1) => g[x] = h[x]
      BY <1>3
    <3>2. c.depth = MaxParseDepth => ~(c.depth < MaxParseDepth)
      BY CallFacts, TokensAssumption
    <3> QED
      BY <3>1, <3>2 DEF InsideOutcome
  <2>2. /\ Number \cap String = {} /\ "l" \notin Number \cup String /\ "d" \notin Number \cup String
    BY TokensAssumption
  <2>3. c.at \in 0 .. Len(b) /\ Len(b) \in Nat /\ ~(c.at = Len(b) /\ c.at < Len(b))
    BY CallFacts
  <2> QED
    BY <1>2, <1>4, <2>1, <2>2, <2>3 DEF ValueOutcome
<1>5. CASE c.kind = "list"
  <2> DEFINE v == ItemCall(c)
             r == ListRest(g, c)
             s == ListRest(h, c)
  <2>1. c.at \in 0 .. Len(b) /\ Len(b) \in Nat /\ ~(c.at = Len(b) /\ c.at < Len(b))
    BY CallFacts
  <2>2. g[v] = h[v] => r = s
    BY DEF ListRest
  <2>3. /\ Both(b, g, c, v, r, "list") \/ NotBoth(b, g, c, v, r, "list") => g[v] = h[v] /\ r = s
        /\ Both(b, g, c, v, r, "list") => g[r] = h[r]
        /\ NotBoth(b, g, c, v, r, "list") => ~Both(b, h, c, v, s, "list")
        /\ Both(b, g, c, v, r, "list") => ~NotBoth(b, h, c, v, s, "list")
    BY <1>3, <2>2 DEF Both, NotBoth
  <2> HIDE DEF v, r, s
  <2> QED
    BY <1>2, <1>5, <2>1, <2>3 DEF ListOutcome, v, r, s
<1>6. CASE c.kind = "dict"
  <2> DEFINE v == EntryCall(c)
             r == DictRest(g, c)
             s == DictRest(h, c)
  <2>1. c.at \in 0 .. Len(b) /\ Len(b) \in Nat /\ ~(c.at = Len(b) /\ c.at < Len(b))
    BY CallFacts
  <2>2. g[v] = h[v] => r = s
    BY DEF DictRest
  <2>3. /\ Both(b, g, c, v, r, "dict") \/ NotBoth(b, g, c, v, r, "dict") => g[v] = h[v] /\ r = s
        /\ Both(b, g, c, v, r, "dict") => g[r] = h[r]
        /\ NotBoth(b, g, c, v, r, "dict") => ~Both(b, h, c, v, s, "dict")
        /\ Both(b, g, c, v, r, "dict") => ~NotBoth(b, h, c, v, s, "dict")
    BY <1>3, <2>2 DEF Both, NotBoth
  <2>4. "e" \notin String
    BY TokensAssumption
  <2> HIDE DEF v, r, s
  <2> QED
    BY <1>2, <1>6, <2>1, <2>3, <2>4 DEF DictOutcome, v, r, s
<1> QED
  BY <1>1, <1>4, <1>5, <1>6

Decodes(b, f) == f = [c \in Calls(b) |-> Parse(b, f, c)]

\* There is a decoder for every document.
LEMMA DecoderExists ==
    ASSUME NEW b \in Seq(Token)
    PROVE  \E f : Decodes(b, f)
<1> DEFINE Upto(f, n) == \A c \in Calls(b) :
                Rank(b, c) < n => f[c] = Parse(b, f, c) /\ Fits(b, c, f[c])
           S == {n \in Nat : \E f : f = [c \in Calls(b) |-> f[c]] /\ Upto(f, n)}
<1>1. 0 \in S
  <2> DEFINE f == [c \in Calls(b) |-> Failed]
  <2>1. f = [c \in Calls(b) |-> f[c]]
    OBVIOUS
  <2>2. Upto(f, 0)
    BY CallFacts
  <2> QED
    BY <2>1, <2>2
<1>2. ASSUME NEW n \in Nat, n \in S
      PROVE  n + 1 \in S
  <2>1. PICK f : f = [c \in Calls(b) |-> f[c]] /\ Upto(f, n)
    BY <1>2
  <2> DEFINE h == [c \in Calls(b) |-> IF Rank(b, c) < n THEN f[c] ELSE Parse(b, f, c)]
  <2>2. h = [c \in Calls(b) |-> h[c]]
    OBVIOUS
  <2>3. \A c \in Calls(b) : h[c] = IF Rank(b, c) < n THEN f[c] ELSE Parse(b, f, c)
    OBVIOUS
  <2> HIDE DEF h
  <2>4. ASSUME NEW c \in Calls(b), Rank(b, c) < n + 1
        PROVE  h[c] = Parse(b, h, c) /\ Fits(b, c, h[c])
    <3>1. \A x \in Calls(b) : Rank(b, x) \in Nat
      BY CallFacts
    <3>2. \A x \in Calls(b) : Rank(b, x) < Rank(b, c) => Rank(b, x) < n
      BY <2>4, <3>1
    <3>3. LesserFit(b, f, c)
      BY <2>1, <3>2 DEF LesserFit
    <3>4. \A x \in Calls(b) : Rank(b, x) < Rank(b, c) => f[x] = h[x]
      BY <2>3, <3>2
    <3>5. Parse(b, f, c) = Parse(b, h, c)
      BY <3>3, <3>4, ParseAgrees
    <3>6. h[c] = Parse(b, f, c)
      BY <2>1, <2>3
    <3>7. Fits(b, c, Parse(b, f, c))
      BY <3>3, ParseFits
    <3> QED
      BY <3>5, <3>6, <3>7
  <2>5. Upto(h, n + 1)
    BY <2>4
  <2>6. \E g : g = [c \in Calls(b) |-> g[c]] /\ Upto(g, n + 1)
    BY <2>2, <2>5
  <2> QED
    <3>1. n + 1 \in Nat
      OBVIOUS
    <3> QED
      BY ONLY <2>6, <3>1
<1> HIDE DEF S
<1>3. 2 * Len(b) + 2 \in S
  <2>1. 2 * Len(b) + 2 \in Nat
    OBVIOUS
  <2> QED
    BY <1>1, <1>2, <2>1, SetInduction
<1>4. PICK f : f = [c \in Calls(b) |-> f[c]] /\ Upto(f, 2 * Len(b) + 2)
  BY <1>3 DEF S
<1>5. \A c \in Calls(b) : f[c] = Parse(b, f, c)
  BY <1>4, CallFacts
<1>6. f = [c \in Calls(b) |-> Parse(b, f, c)]
  BY <1>4, <1>5
<1> QED
  BY <1>6 DEF Decodes

\* Decoder is the function of the calls of the code, and its results fit.
LEMMA DecoderFacts ==
    ASSUME NEW b \in Seq(Token), NEW c \in Calls(b)
    PROVE  /\ Decoder(b)[c] = Parse(b, Decoder(b), c)
           /\ Fits(b, c, Decoder(b)[c])
           /\ LesserFit(b, Decoder(b), c)
<1> DEFINE parse == CHOOSE f : f = [x \in Calls(b) |-> Parse(b, f, x)]
<1>1. Decoder(b) = parse
  BY DEF Decoder
<1>2. \E f : f = [x \in Calls(b) |-> Parse(b, f, x)]
  BY DecoderExists DEF Decodes
<1>3. parse = [x \in Calls(b) |-> Parse(b, parse, x)]
  BY <1>2
<1>4. \A x \in Calls(b) : Decoder(b)[x] = Parse(b, Decoder(b), x)
  <2> HIDE DEF parse
  <2> QED
    BY <1>1, <1>3
<1> HIDE DEF parse
<1> DEFINE S == {n \in Nat : \A x \in Calls(b) : Rank(b, x) = n => Fits(b, x, Decoder(b)[x])}
<1>5. ASSUME NEW n \in Nat, \A m \in Nat : m < n => m \in S
      PROVE  n \in S
  <2> SUFFICES ASSUME NEW x \in Calls(b), Rank(b, x) = n
               PROVE  Fits(b, x, Decoder(b)[x])
    OBVIOUS
  <2>1. LesserFit(b, Decoder(b), x)
    BY <1>5, CallFacts DEF LesserFit
  <2> QED
    BY <1>4, <2>1, ParseFits
<1> HIDE DEF S
<1>6. Nat \subseteq S
  BY <1>5, StrongInduction
<1>7. \A x \in Calls(b) : Fits(b, x, Decoder(b)[x])
  <2> SUFFICES ASSUME NEW x \in Calls(b)
               PROVE  Fits(b, x, Decoder(b)[x])
    OBVIOUS
  <2>1. Rank(b, x) \in S
    BY <1>6, CallFacts
  <2> QED
    BY <2>1 DEF S
<1> QED
  BY <1>4, <1>7 DEF LesserFit

-----------------------------------------------------------------------------
(***************************************************************************)
(* What a call returns depends on the tokens that it reads only.           *)
(***************************************************************************)
\* The outcomes of the calls of Decoder.
LEMMA DecoderOutcomes ==
    ASSUME NEW b \in Seq(Token), NEW c \in Calls(b)
    PROVE  /\ c.kind = "value" => ValueOutcome(b, Decoder(b), c, Decoder(b)[c])
           /\ c.kind = "list" => ListOutcome(b, Decoder(b), c, Decoder(b)[c])
           /\ c.kind = "dict" => DictOutcome(b, Decoder(b), c, Decoder(b)[c])
<1> DEFINE g == Decoder(b)
<1>1. g[c] = Parse(b, g, c) /\ LesserFit(b, g, c)
  BY DecoderFacts
<1> HIDE DEF g
<1>2. /\ c.kind = "value" => ValueOutcome(b, g, c, g[c])
      /\ c.kind = "list" => ListOutcome(b, g, c, g[c])
      /\ c.kind = "dict" => DictOutcome(b, g, c, g[c])
  BY <1>1, ParseOutcomes
<1> QED
  BY <1>2 DEF g

\* w stands in b after the first s tokens.
Part(w, b, s) ==
    /\ s \in 0 .. Len(b) /\ Len(w) <= Len(b) - s
    /\ \A i \in 1 .. Len(w) : w[i] = b[s + i]

\* The call of b that reads what c reads in w, as deep or deeper.
IsTwin(w, b, s, c, e) ==
    /\ e \in Calls(b) /\ e.kind = c.kind /\ e.at = s + c.at /\ e.depth >= c.depth
    /\ Decoder(b)[e].ok /\ Decoder(b)[e].size <= Len(w) - c.at

SameAsTwin(w, b, s, c) ==
    \A e : IsTwin(w, b, s, c, e) => Decoder(w)[c] = Decoder(b)[e]

\* Both calls read the same next token.
LEMMA TwinFacts ==
    ASSUME NEW w \in Seq(Token), NEW b \in Seq(Token), NEW s, Part(w, b, s),
           NEW c \in Calls(w), NEW e, IsTwin(w, b, s, c, e)
    PROVE  /\ Decoder(b)[e].size \in 1 .. Len(w) - c.at /\ Decoder(b)[e].size \in 1 .. Len(b) - e.at
           /\ c.at < Len(w) /\ e.at < Len(b) /\ w[c.at + 1] = b[e.at + 1]
           /\ s \in Nat /\ c.at \in Nat /\ e.at = s + c.at /\ Len(w) \in Nat /\ Len(b) \in Nat
           /\ c.depth <= e.depth /\ c.depth \in Nat /\ e.depth \in Nat
<1>1. /\ Len(w) \in Nat /\ Len(b) \in Nat /\ s \in Nat /\ c.at \in 0 .. Len(w)
      /\ e.at \in 0 .. Len(b) /\ e.at = s + c.at /\ c.depth \in Nat /\ e.depth \in Nat
  BY CallFacts DEF IsTwin, Part
<1>2. Decoder(b)[e].size \in 1 .. Len(b) - e.at
  BY DecoderFacts DEF IsTwin, Fits
<1>3. PICK n \in 1 .. Len(b) - e.at : n = Decoder(b)[e].size
  BY <1>2
<1>4. n <= Len(w) - c.at
  BY <1>3 DEF IsTwin
<1>5. n \in 1 .. Len(w) - c.at /\ c.at < Len(w) /\ e.at < Len(b) /\ c.at + 1 \in 1 .. Len(w)
  <2>1. /\ Len(w) \in Nat /\ Len(b) \in Nat /\ c.at \in Nat /\ e.at \in Nat
        /\ n \in 1 .. Len(b) - e.at /\ n <= Len(w) - c.at
    BY <1>1, <1>4
  <2> QED
    BY ONLY <2>1
<1>6. w[c.at + 1] = b[s + (c.at + 1)] /\ s + (c.at + 1) = e.at + 1
  <2>1. w[c.at + 1] = b[s + (c.at + 1)]
    BY <1>5 DEF Part
  <2>2. \A x, y \in Nat : x + (y + 1) = (x + y) + 1
    OBVIOUS
  <2>3. c.at \in Nat
    BY <1>1
  <2> QED
    BY <1>1, <2>1, <2>2, <2>3
<1> QED
  BY <1>1, <1>2, <1>3, <1>5, <1>6 DEF IsTwin

\* The pair of calls in w is there if the one in b is.
LEMMA PairTwins ==
    ASSUME NEW w \in Seq(Token), NEW b \in Seq(Token), NEW s, Part(w, b, s),
           NEW c \in Calls(w), NEW e, IsTwin(w, b, s, c, e),
           \A x \in Calls(w) : Rank(w, x) < Rank(w, c) => SameAsTwin(w, b, s, x),
           NEW kind \in {"list", "dict"}, c.kind = kind,
           NEW v, NEW r, NEW x, NEW y, NEW skip \in {0, 1},
           v.at = c.at + skip, x.at = e.at + skip,
           Both(b, Decoder(b), e, x, y, kind),
           skip + Decoder(b)[x].size + Decoder(b)[y].size = Decoder(b)[e].size,
           r = Call(kind, v.at + Decoder(w)[v].size, c.depth)
    PROVE  /\ ~NotBoth(w, Decoder(w), c, v, r, kind)
           /\ Both(w, Decoder(w), c, v, r, kind) =>
                Decoder(w)[v] = Decoder(b)[x] /\ Decoder(w)[r] = Decoder(b)[y]
<1> DEFINE f == Decoder(b)
           g == Decoder(w)
<1>1. /\ f[x].ok /\ f[y].ok
      /\ x \in Calls(b) /\ x.kind = "value" /\ x.depth = e.depth
      /\ y \in Calls(b) /\ y.kind = kind /\ y.depth = e.depth /\ y.at = x.at + f[x].size
      /\ f[x].size \in 1 .. Len(b) - x.at /\ f[y].size \in 1 .. Len(b) - y.at
  BY DEF Both, IsLesser
<1>2. /\ s \in Nat /\ c.at \in Nat /\ e.at = s + c.at /\ Len(w) \in Nat /\ Len(b) \in Nat
      /\ f[e].size \in 1 .. Len(w) - c.at /\ c.depth <= e.depth
  BY TwinFacts
<1>3. PICK m \in Nat : m = f[x].size /\ 1 <= m
  BY <1>1
<1>4. PICK n \in Nat : n = f[y].size /\ 1 <= n
  BY <1>1
<1>5. skip + m + n <= Len(w) - c.at
  BY <1>2, <1>3, <1>4
<1>6. ASSUME IsLesser(w, c, v, "value", v.at, c.depth)
      PROVE  g[v] = f[x]
  <2>1. /\ v \in Calls(w) /\ v.kind = "value" /\ v.depth = c.depth /\ SameAsTwin(w, b, s, v)
    BY <1>6 DEF IsLesser
  <2>2. m <= Len(w) - v.at /\ x.at = s + v.at
    <3>1. /\ v.at = c.at + skip /\ x.at = s + c.at + skip /\ skip \in Nat /\ c.at \in Nat
          /\ s \in Nat /\ m \in Nat /\ n \in Nat /\ Len(w) \in Nat /\ skip + m + n <= Len(w) - c.at
      BY <1>2, <1>5
    <3> QED
      BY ONLY <3>1
  <2>3. IsTwin(w, b, s, v, x)
    BY <1>1, <1>2, <1>3, <2>1, <2>2 DEF IsTwin
  <2> QED
    BY <2>1, <2>3 DEF SameAsTwin
<1>7. ASSUME IsLesser(w, c, v, "value", v.at, c.depth),
             IsLesser(w, c, r, kind, v.at + g[v].size, c.depth)
      PROVE  g[r] = f[y]
  <2>1. /\ r \in Calls(w) /\ r.kind = kind /\ r.depth = c.depth /\ SameAsTwin(w, b, s, r)
        /\ r.at = v.at + m
    BY <1>3, <1>6, <1>7 DEF IsLesser
  <2>2. n <= Len(w) - r.at /\ y.at = s + r.at
    <3>1. /\ v.at = c.at + skip /\ x.at = s + c.at + skip
          /\ r.at = v.at + m /\ y.at = x.at + m
      BY <1>1, <1>2, <1>3, <2>1
    <3>2. r.at = c.at + skip + m /\ y.at = s + c.at + skip + m
      BY <3>1
    <3>3. /\ skip \in Nat /\ c.at \in Nat /\ s \in Nat /\ m \in Nat /\ n \in Nat
          /\ Len(w) \in Nat /\ skip + m + n <= Len(w) - c.at
      BY <1>2, <1>5
    <3>4. \A i, j, k, l, o \in Int : i + j + k <= l - o => k <= l - (o + i + j)
      OBVIOUS
    <3>5. \A i, j, k, l \in Int : i + j + k + l = i + (j + k + l)
      OBVIOUS
    <3>6. n <= Len(w) - (c.at + skip + m)
      BY ONLY <3>3, <3>4
    <3>7. s + c.at + skip + m = s + (c.at + skip + m)
      BY ONLY <3>3, <3>5
    <3> QED
      BY ONLY <3>2, <3>6, <3>7
  <2>3. IsTwin(w, b, s, r, y)
    BY <1>1, <1>2, <1>4, <2>1, <2>2 DEF IsTwin
  <2> QED
    BY <2>1, <2>3 DEF SameAsTwin
<1> HIDE DEF f, g
<1>8. ~NotBoth(w, g, c, v, r, kind)
  BY <1>1, <1>6, <1>7 DEF NotBoth
<1>9. Both(w, g, c, v, r, kind) => g[v] = f[x] /\ g[r] = f[y]
  BY <1>6, <1>7 DEF Both
<1> QED
  BY <1>8, <1>9 DEF f, g

\* The rest of a list,
LEMMA ListTwins ==
    ASSUME NEW w \in Seq(Token), NEW b \in Seq(Token), NEW s, Part(w, b, s),
           NEW c \in Calls(w), c.kind = "list", NEW e, IsTwin(w, b, s, c, e),
           \A x \in Calls(w) : Rank(w, x) < Rank(w, c) => SameAsTwin(w, b, s, x)
    PROVE  Decoder(w)[c] = Decoder(b)[e]
<1> DEFINE f == Decoder(b)
           g == Decoder(w)
           v == ItemCall(c)
           r == ListRest(g, c)
           x == ItemCall(e)
           y == ListRest(f, e)
<1>1. e \in Calls(b) /\ e.kind = "list" /\ f[e].ok
  BY DEF IsTwin
<1>2. /\ c.at < Len(w) /\ e.at < Len(b) /\ w[c.at + 1] = b[e.at + 1]
      /\ c.at \in Nat /\ e.at \in Nat /\ Len(w) \in Nat /\ Len(b) \in Nat
  BY TwinFacts
<1>3. ListOutcome(w, g, c, g[c]) /\ ListOutcome(b, f, e, f[e])
  BY <1>1, DecoderOutcomes
<1>4. c.at # Len(w) /\ e.at # Len(b)
  BY <1>2
<1> HIDE DEF f, g
<1>5. CASE w[c.at + 1] = "e"
  <2>1. f[e] = Parsed(<<>>, 1) /\ g[c] = Parsed(<<>>, 1)
    BY <1>2, <1>3, <1>4, <1>5 DEF ListOutcome
  <2> QED
    BY <2>1 DEF f, g
<1>6. CASE w[c.at + 1] # "e"
  <2>1. /\ x.at = e.at /\ Both(b, f, e, x, y, "list")
        /\ f[e] = Parsed(<<f[x].value>> \o f[y].value, f[x].size + f[y].size)
    BY <1>1, <1>2, <1>3, <1>4, <1>6, FailedFits DEF ListOutcome
  <2>2. /\ v.at = c.at
        /\ \/ NotBoth(w, g, c, v, r, "list")
           \/ /\ Both(w, g, c, v, r, "list")
              /\ g[c] = Parsed(<<g[v].value>> \o g[r].value, g[v].size + g[r].size)
    BY <1>2, <1>3, <1>4, <1>6 DEF ListOutcome
  <2>3. 0 + f[x].size + f[y].size = f[e].size
    BY <2>1 DEF Parsed, Both
  <2>4. v.at = c.at + 0 /\ x.at = e.at + 0
    BY <1>2, <2>1, <2>2
  <2>5. r = Call("list", v.at + g[v].size, c.depth)
    BY <2>2 DEF ListRest
  <2> HIDE DEF v, r, x, y
  <2>6. /\ ~NotBoth(w, g, c, v, r, "list")
        /\ Both(w, g, c, v, r, "list") => g[v] = f[x] /\ g[r] = f[y]
    BY <2>1, <2>3, <2>4, <2>5, PairTwins DEF f, g
  <2> QED
    BY <2>1, <2>2, <2>6 DEF f, g
<1> QED
  BY <1>5, <1>6

\* the rest of a dictionary,
LEMMA DictTwins ==
    ASSUME NEW w \in Seq(Token), NEW b \in Seq(Token), NEW s, Part(w, b, s),
           NEW c \in Calls(w), c.kind = "dict", NEW e, IsTwin(w, b, s, c, e),
           \A x \in Calls(w) : Rank(w, x) < Rank(w, c) => SameAsTwin(w, b, s, x)
    PROVE  Decoder(w)[c] = Decoder(b)[e]
<1> DEFINE f == Decoder(b)
           g == Decoder(w)
           v == EntryCall(c)
           r == DictRest(g, c)
           x == EntryCall(e)
           y == DictRest(f, e)
<1>1. e \in Calls(b) /\ e.kind = "dict" /\ f[e].ok
  BY DEF IsTwin
<1>2. /\ c.at < Len(w) /\ e.at < Len(b) /\ w[c.at + 1] = b[e.at + 1]
      /\ c.at \in Nat /\ e.at \in Nat /\ Len(w) \in Nat /\ Len(b) \in Nat
  BY TwinFacts
<1>3. DictOutcome(w, g, c, g[c]) /\ DictOutcome(b, f, e, f[e])
  BY <1>1, DecoderOutcomes
<1>4. c.at # Len(w) /\ e.at # Len(b)
  BY <1>2
<1>5. "e" \notin String
  BY TokensAssumption
<1> HIDE DEF f, g
<1>6. CASE w[c.at + 1] = "e"
  <2>1. f[e] = Parsed(<<>>, 1) /\ g[c] = Parsed(<<>>, 1)
    BY <1>2, <1>3, <1>4, <1>5, <1>6 DEF DictOutcome
  <2> QED
    BY <2>1 DEF f, g
<1>7. CASE w[c.at + 1] # "e"
  <2>1. /\ x.at = e.at + 1 /\ Both(b, f, e, x, y, "dict") /\ b[e.at + 1] \in String
        /\ f[e] = Parsed(PutBefore(f[y].value, b[e.at + 1], f[x].value), 1 + f[x].size + f[y].size)
    BY <1>1, <1>2, <1>3, <1>4, <1>7, FailedFits DEF DictOutcome
  <2>2. /\ v.at = c.at + 1
        /\ \/ NotBoth(w, g, c, v, r, "dict")
           \/ /\ Both(w, g, c, v, r, "dict")
              /\ g[c] = Parsed(PutBefore(g[r].value, w[c.at + 1], g[v].value), 1 + g[v].size + g[r].size)
    BY <1>2, <1>3, <1>4, <1>7, <2>1 DEF DictOutcome
  <2>3. 1 + f[x].size + f[y].size = f[e].size
    BY <2>1 DEF Parsed
  <2>4. r = Call("dict", v.at + g[v].size, c.depth)
    BY <2>2 DEF DictRest
  <2> HIDE DEF v, r, x, y
  <2>5. /\ ~NotBoth(w, g, c, v, r, "dict")
        /\ Both(w, g, c, v, r, "dict") => g[v] = f[x] /\ g[r] = f[y]
    BY <2>1, <2>2, <2>3, <2>4, PairTwins DEF f, g
  <2> QED
    BY <1>2, <2>1, <2>2, <2>5 DEF f, g
<1> QED
  BY <1>6, <1>7

\* and a value are read as their twins, if lesser calls are.
LEMMA ValueTwins ==
    ASSUME NEW w \in Seq(Token), NEW b \in Seq(Token), NEW s, Part(w, b, s),
           NEW c \in Calls(w), c.kind = "value", NEW e, IsTwin(w, b, s, c, e),
           \A x \in Calls(w) : Rank(w, x) < Rank(w, c) => SameAsTwin(w, b, s, x)
    PROVE  Decoder(w)[c] = Decoder(b)[e]
<1> DEFINE f == Decoder(b)
           g == Decoder(w)
           token == w[c.at + 1]
<1>1. e \in Calls(b) /\ e.kind = "value" /\ f[e].ok /\ e.at = s + c.at
  BY DEF IsTwin
<1>2. /\ c.at < Len(w) /\ e.at < Len(b) /\ token = b[e.at + 1]
      /\ s \in Nat /\ c.at \in Nat /\ e.at \in Nat /\ Len(w) \in Nat /\ Len(b) \in Nat
      /\ c.depth \in Nat /\ e.depth \in Nat /\ c.depth <= e.depth
      /\ f[e].size \in 1 .. Len(w) - c.at
  BY TwinFacts
<1>3. ValueOutcome(w, g, c, g[c]) /\ ValueOutcome(b, f, e, f[e])
  BY <1>1, DecoderOutcomes
<1>4. c.at # Len(w) /\ e.at # Len(b) /\ MaxParseDepth \in Nat
  BY <1>2, TokensAssumption
<1>5. Number \cap String = {} /\ "l" \notin Number \cup String /\ "d" \notin Number \cup String
  BY TokensAssumption
<1> HIDE DEF f, g, token
<1>6. CASE token \notin {"l", "d"}
  <2>1. f[e] # Failed
    BY <1>1, FailedFits
  <2>2. CASE token \in Number
    BY <1>2, <1>3, <1>4, <1>5, <1>6, <2>2 DEF ValueOutcome, f, g, token
  <2>3. CASE token \in String
    BY <1>2, <1>3, <1>4, <1>5, <1>6, <2>3 DEF ValueOutcome, f, g, token
  <2>4. CASE token \notin {"l", "d"} \cup Number \cup String
    BY <1>2, <1>3, <1>4, <1>6, <2>1, <2>4 DEF ValueOutcome, token
  <2> QED
    BY <1>6, <2>2, <2>3, <2>4
<1>7. ASSUME NEW kind \in {"list", "dict"},
             InsideOutcome(w, g, c, kind, g[c]), InsideOutcome(b, f, e, kind, f[e])
      PROVE  g[c] = f[e]
  <2> DEFINE x == Call(kind, e.at + 1, e.depth + 1)
             v == Call(kind, c.at + 1, c.depth + 1)
  <2>1. /\ e.depth < MaxParseDepth /\ IsLesser(b, e, x, kind, e.at + 1, e.depth + 1)
        /\ f[x].ok /\ f[x].size \in 1 .. Len(b) - x.at
        /\ f[e] = Parsed(<<kind, f[x].value>>, 1 + f[x].size)
    BY <1>1, <1>7, FailedFits DEF InsideOutcome
  <2>2. c.depth < MaxParseDepth /\ c.depth # MaxParseDepth
    <3>1. /\ c.depth \in Nat /\ e.depth \in Nat /\ MaxParseDepth \in Nat
          /\ c.depth <= e.depth /\ e.depth < MaxParseDepth
      BY <1>2, <1>4, <2>1
    <3> QED
      BY ONLY <3>1
  <2>3. /\ IsLesser(w, c, v, kind, c.at + 1, c.depth + 1)
        /\ \/ ~g[v].ok /\ g[c] = Failed
           \/ g[v].ok /\ g[c] = Parsed(<<kind, g[v].value>>, 1 + g[v].size)
    BY <1>7, <2>2 DEF InsideOutcome
  <2> HIDE DEF v, x
  <2>4. f[x].size <= Len(w) - v.at /\ x.at = s + v.at /\ x.depth >= v.depth
    <3>1. v.at = c.at + 1 /\ x.at = e.at + 1 /\ v.depth = c.depth + 1 /\ x.depth = e.depth + 1
      BY <2>1, <2>3 DEF IsLesser
    <3>2. PICK n \in Nat : n = f[x].size
      BY <2>1
    <3>3. 1 + n <= Len(w) - c.at
      BY <1>2, <2>1, <3>2 DEF Parsed
    <3>4. n <= Len(w) - v.at
      <4>1. n \in Nat /\ Len(w) \in Nat /\ c.at \in Nat /\ 1 + n <= Len(w) - c.at
        BY <1>2, <3>3
      <4>2. n <= Len(w) - (c.at + 1)
        BY ONLY <4>1
      <4> QED
        BY <3>1, <4>2
    <3>5. x.at = s + v.at
      BY <1>1, <1>2, <3>1
    <3> QED
      BY <1>2, <3>1, <3>2, <3>4, <3>5
  <2>5. v \in Calls(w) /\ v.kind = kind /\ SameAsTwin(w, b, s, v)
    BY <2>3 DEF IsLesser
  <2>6. IsTwin(w, b, s, v, x)
    BY <2>1, <2>4, <2>5 DEF IsTwin, IsLesser, f
  <2>7. g[v] = f[x]
    BY <2>5, <2>6 DEF SameAsTwin, f, g
  <2> QED
    BY <2>1, <2>3, <2>7
<1>8. CASE token = "l"
  BY <1>2, <1>3, <1>4, <1>5, <1>7, <1>8 DEF ValueOutcome, f, g, token
<1>9. CASE token = "d"
  BY <1>2, <1>3, <1>4, <1>5, <1>7, <1>9 DEF ValueOutcome, f, g, token
<1> QED
  BY <1>6, <1>8, <1>9 DEF f, g

\* What is read of a part of a document is what is read of the part alone, at the same
\* or a lesser depth.
LEMMA ReadsTheSame ==
    ASSUME NEW w \in Seq(Token), NEW b \in Seq(Token), NEW s, Part(w, b, s),
           NEW c \in Calls(w), NEW e, IsTwin(w, b, s, c, e)
    PROVE  Decoder(w)[c] = Decoder(b)[e]
<1> DEFINE S == {n \in Nat : \A x \in Calls(w) : Rank(w, x) = n => SameAsTwin(w, b, s, x)}
<1>1. ASSUME NEW n \in Nat, \A m \in Nat : m < n => m \in S
      PROVE  n \in S
  <2> SUFFICES ASSUME NEW x \in Calls(w), Rank(w, x) = n
               PROVE  SameAsTwin(w, b, s, x)
    OBVIOUS
  <2>1. \A y \in Calls(w) : Rank(w, y) < Rank(w, x) => SameAsTwin(w, b, s, y)
    BY <1>1, CallFacts
  <2>2. x.kind \in {"value", "list", "dict"}
    BY CallFacts
  <2>3. \A y : IsTwin(w, b, s, x, y) => Decoder(w)[x] = Decoder(b)[y]
    BY <2>1, <2>2, ValueTwins, ListTwins, DictTwins
  <2> QED
    BY <2>3 DEF SameAsTwin
<1> HIDE DEF S
<1>2. Nat \subseteq S
  BY <1>1, StrongInduction
<1>3. Rank(w, c) \in S
  BY <1>2, CallFacts
<1> QED
  BY <1>3 DEF S, SameAsTwin

-----------------------------------------------------------------------------
(***************************************************************************)
(* The values, and the walk for the key "info".                            *)
(***************************************************************************)
\* What a value may be.
LEMMA ValueShape ==
    ASSUME NEW b \in Seq(Token), NEW c \in Calls(b), c.kind = "value", Decoder(b)[c].ok
    PROVE  LET value == Decoder(b)[c].value IN
           /\ value = <<value[1], value[2]>>
           /\ value[1] = "string" => value[2] \in String
           /\ value[1] = "dict" =>
                LET x == Call("dict", c.at + 1, c.depth + 1) IN
                /\ c.at < Len(b) /\ b[c.at + 1] = "d" /\ c.depth < MaxParseDepth
                /\ x \in Calls(b) /\ Decoder(b)[x].ok
                /\ Decoder(b)[c].size = 1 + Decoder(b)[x].size
                /\ Decoder(b)[x].size \in 1 .. Len(b) - x.at
                /\ value[2] = Decoder(b)[x].value
<1> DEFINE g == Decoder(b)
<1>1. ValueOutcome(b, g, c, g[c]) /\ g[c] # Failed
  BY DecoderOutcomes, FailedFits
<1> HIDE DEF g
<1>2. g[c].ok
  BY DEF g
<1>3. ASSUME NEW kind \in {"list", "dict"}, InsideOutcome(b, g, c, kind, g[c])
      PROVE  LET x == Call(kind, c.at + 1, c.depth + 1) IN
             /\ c.depth < MaxParseDepth /\ x \in Calls(b) /\ g[x].ok
             /\ g[c].size = 1 + g[x].size /\ g[x].size \in 1 .. Len(b) - x.at
             /\ g[c].value = <<kind, g[x].value>>
  BY <1>1, <1>3 DEF InsideOutcome, IsLesser, Parsed
<1>4. \/ /\ c.at < Len(b) /\ b[c.at + 1] \in Number /\ g[c].value = <<"int", b[c.at + 1]>>
      \/ /\ c.at < Len(b) /\ b[c.at + 1] \in String /\ g[c].value = <<"string", b[c.at + 1]>>
      \/ c.at < Len(b) /\ b[c.at + 1] = "l" /\ InsideOutcome(b, g, c, "list", g[c])
      \/ c.at < Len(b) /\ b[c.at + 1] = "d" /\ InsideOutcome(b, g, c, "dict", g[c])
  BY <1>1 DEF ValueOutcome, Parsed
<1>5. CASE /\ c.at < Len(b) /\ b[c.at + 1] \in Number /\ g[c].value = <<"int", b[c.at + 1]>>
  BY <1>5 DEF g
<1>6. CASE /\ c.at < Len(b) /\ b[c.at + 1] \in String /\ g[c].value = <<"string", b[c.at + 1]>>
  BY <1>6 DEF g
<1>7. CASE c.at < Len(b) /\ b[c.at + 1] = "l" /\ InsideOutcome(b, g, c, "list", g[c])
  <2>1. PICK y : g[c].value = <<"list", y>>
    BY <1>3, <1>7
  <2> QED
    BY <2>1 DEF g
<1>8. CASE c.at < Len(b) /\ b[c.at + 1] = "d" /\ InsideOutcome(b, g, c, "dict", g[c])
  <2> DEFINE x == Call("dict", c.at + 1, c.depth + 1)
  <2>1. /\ c.depth < MaxParseDepth /\ x \in Calls(b) /\ g[x].ok
        /\ g[c].size = 1 + g[x].size /\ g[x].size \in 1 .. Len(b) - x.at
        /\ g[c].value = <<"dict", g[x].value>>
    BY <1>3, <1>8
  <2> QED
    BY <1>8, <2>1 DEF g
<1> QED
  BY <1>4, <1>5, <1>6, <1>7, <1>8

IsValueIn(b, value) ==
    \E x \in Calls(b) : x.kind = "value" /\ Decoder(b)[x].ok /\ value = Decoder(b)[x].value

\* The entries of a dictionary are values of the document.
LEMMA EntriesAreValues ==
    ASSUME NEW b \in Seq(Token), NEW c \in Calls(b), c.kind = "dict", Decoder(b)[c].ok
    PROVE  LET dict == Decoder(b)[c].value
           IN  \A k \in DOMAIN dict : IsValueIn(b, dict[k])
<1> DEFINE g == Decoder(b)
           AreValues(dict) == \A k \in DOMAIN dict : IsValueIn(b, dict[k])
           S == {n \in Nat : \A x \in Calls(b) :
                    Rank(b, x) = n /\ x.kind = "dict" /\ g[x].ok => AreValues(g[x].value)}
<1>1. ASSUME NEW n \in Nat, \A m \in Nat : m < n => m \in S
      PROVE  n \in S
  <2> SUFFICES ASSUME NEW x \in Calls(b), Rank(b, x) = n, x.kind = "dict", g[x].ok
               PROVE  AreValues(g[x].value)
    OBVIOUS
  <2> DEFINE v == EntryCall(x)
             r == DictRest(g, x)
  <2>1. DictOutcome(b, g, x, g[x]) /\ g[x] # Failed
    BY DecoderOutcomes, FailedFits
  <2>2. \/ g[x] = Parsed(<<>>, 1)
        \/ /\ Both(b, g, x, v, r, "dict")
           /\ g[x] = Parsed(PutBefore(g[r].value, b[x.at + 1], g[v].value),
                            1 + g[v].size + g[r].size)
    BY <2>1 DEF DictOutcome
  <2>3. CASE g[x] = Parsed(<<>>, 1)
    <3>1. g[x].value = <<>>
      BY <2>3 DEF Parsed
    <3> QED
      BY <3>1
  <2>4. CASE /\ Both(b, g, x, v, r, "dict")
             /\ g[x] = Parsed(PutBefore(g[r].value, b[x.at + 1], g[v].value),
                              1 + g[v].size + g[r].size)
    <3>1. g[x].value = PutBefore(g[r].value, b[x.at + 1], g[v].value)
      BY <2>4 DEF Parsed
    <3>2. /\ v \in Calls(b) /\ v.kind = "value" /\ g[v].ok
          /\ r \in Calls(b) /\ r.kind = "dict" /\ g[r].ok /\ Rank(b, r) < n
      BY <2>4 DEF Both, IsLesser
    <3>3. IsValueIn(b, g[v].value)
      BY <3>2 DEF IsValueIn
    <3>4. AreValues(g[r].value)
      BY <1>1, <3>2, CallFacts
    <3> DEFINE rest == g[r].value
               key == b[x.at + 1]
               value == g[v].value
               dict == PutBefore(rest, key, value)
    <3> HIDE DEF g, v, r
    <3> HIDE DEF rest, key, value
    <3>5. /\ DOMAIN dict = DOMAIN rest \cup {key} /\ \A k \in DOMAIN rest : dict[k] = rest[k]
          /\ key \notin DOMAIN rest => dict[key] = value
      BY DEF PutBefore
    <3>6. (\A k \in DOMAIN rest : IsValueIn(b, rest[k])) /\ IsValueIn(b, value)
      BY <3>3, <3>4 DEF rest, value
    <3> HIDE DEF dict
    <3>7. \A k \in DOMAIN dict : IsValueIn(b, dict[k])
      BY <3>5, <3>6
    <3> QED
      BY <3>1, <3>7 DEF dict, rest, key, value
  <2> QED
    BY <2>2, <2>3, <2>4
<1> HIDE DEF S
<1>2. Nat \subseteq S
  BY <1>1, StrongInduction
<1>3. Rank(b, c) \in S
  BY <1>2, CallFacts
<1> QED
  BY <1>3 DEF S

\* Where a walk for the key "info" gets to.
Walks(b, f) == f = [at \in 1 .. Len(b) |-> InfoFrom(b, f, at)]

\* A step of the walk depends on what is behind its key only.
LEMMA InfoFromAgrees ==
    ASSUME NEW b \in Seq(Token), NEW f, NEW g, NEW at \in 1 .. Len(b),
           \A k \in at + 1 .. Len(b) : f[k] = g[k]
    PROVE  InfoFrom(b, f, at) = InfoFrom(b, g, at)
<1> DEFINE key == ReadString(b, at)
           value == ParseAt(b, at + 1)
<1>1. CASE ~key.ok \/ ~value.ok
  BY <1>1 DEF InfoFrom
<1>2. CASE key.ok /\ value.ok
  <2>1. at < Len(b)
    <3>1. ~(at < Len(b)) => key = Failed
      BY DEF ReadString
    <3> QED
      BY <1>2, <3>1, FailedFits
  <2>2. at + 1 \in 0 .. Len(b) /\ 0 \in 0 .. MaxParseDepth
    BY <2>1, TokensAssumption
  <2>3. Fits(b, Call("value", at + 1, 0), value) /\ Call("value", at + 1, 0).at = at + 1
    BY <2>2, NewCall, DecoderFacts DEF ParseAt
  <2>4. value.size \in 1 .. Len(b) - (at + 1)
    BY <1>2, <2>3 DEF Fits
  <2>5. at + 1 + value.size \in at + 1 .. Len(b)
    <3>1. PICK n \in 1 .. Len(b) - (at + 1) : n = value.size
      BY <2>4
    <3>2. at + 1 + n \in at + 1 .. Len(b)
      BY <3>1
    <3> QED
      BY <3>1, <3>2
  <2>6. f[at + 1 + value.size] = g[at + 1 + value.size]
    BY <2>5
  <2> QED
    BY <1>2, <2>6 DEF InfoFrom
<1> QED
  BY <1>1, <1>2

\* There is a walk, and it ends.
LEMMA WalkExists ==
    ASSUME NEW b \in Seq(Token)
    PROVE  \E f : Walks(b, f)
<1> DEFINE Upto(f, n) == \A at \in 1 .. Len(b) : Len(b) - at < n => f[at] = InfoFrom(b, f, at)
           S == {n \in Nat : \E f : f = [at \in 1 .. Len(b) |-> f[at]] /\ Upto(f, n)}
<1>1. 0 \in S
  <2> DEFINE f == [at \in 1 .. Len(b) |-> <<>>]
  <2>1. f = [at \in 1 .. Len(b) |-> f[at]] /\ Upto(f, 0)
    OBVIOUS
  <2> HIDE DEF f
  <2>2. \E h : h = [at \in 1 .. Len(b) |-> h[at]] /\ Upto(h, 0)
    BY <2>1
  <2> QED
    BY ONLY <2>2
<1>2. ASSUME NEW n \in Nat, n \in S
      PROVE  n + 1 \in S
  <2>1. PICK f : f = [at \in 1 .. Len(b) |-> f[at]] /\ Upto(f, n)
    BY <1>2
  <2> DEFINE h == [at \in 1 .. Len(b) |-> IF Len(b) - at < n THEN f[at] ELSE InfoFrom(b, f, at)]
  <2>2. h = [at \in 1 .. Len(b) |-> h[at]]
    OBVIOUS
  <2>3. \A at \in 1 .. Len(b) :
            h[at] = IF Len(b) - at < n THEN f[at] ELSE InfoFrom(b, f, at)
    OBVIOUS
  <2> HIDE DEF h
  <2>4. ASSUME NEW at \in 1 .. Len(b), Len(b) - at < n + 1
        PROVE  h[at] = InfoFrom(b, h, at)
    <3>1. \A k \in at + 1 .. Len(b) : k \in 1 .. Len(b) /\ Len(b) - k < n
      BY <2>4
    <3>2. \A k \in at + 1 .. Len(b) : f[k] = h[k]
      BY <2>3, <3>1
    <3>3. InfoFrom(b, f, at) = InfoFrom(b, h, at)
      BY <3>2, InfoFromAgrees
    <3>4. h[at] = InfoFrom(b, f, at)
      BY <2>1, <2>3
    <3> QED
      BY <3>3, <3>4
  <2>5. Upto(h, n + 1)
    BY <2>4
  <2>6. \E g : g = [at \in 1 .. Len(b) |-> g[at]] /\ Upto(g, n + 1)
    BY <2>2, <2>5
  <2>7. n + 1 \in Nat
    OBVIOUS
  <2> QED
    BY ONLY <2>6, <2>7
<1> HIDE DEF S
<1>3. Len(b) \in S
  <2>1. Len(b) \in Nat
    OBVIOUS
  <2> QED
    BY <1>1, <1>2, <2>1, SetInduction
<1>4. PICK f : f = [at \in 1 .. Len(b) |-> f[at]] /\ Upto(f, Len(b))
  BY <1>3 DEF S
<1>5. \A at \in 1 .. Len(b) : f[at] = InfoFrom(b, f, at)
  BY <1>4
<1>6. f = [at \in 1 .. Len(b) |-> InfoFrom(b, f, at)]
  BY <1>4, <1>5
<1> QED
  BY <1>6 DEF Walks

\* FindInfoBytes is where a walk from the first key gets to.
LEMMA FindInfoFacts ==
    ASSUME NEW b \in Seq(Token), b # <<>>
    PROVE  \E f : /\ \A at \in 1 .. Len(b) : f[at] = InfoFrom(b, f, at)
                  /\ FindInfoBytes(b) = f[1]
<1> DEFINE walk == CHOOSE f : f = [at \in 1 .. Len(b) |-> InfoFrom(b, f, at)]
<1>1. FindInfoBytes(b) = walk[1]
  BY DEF FindInfoBytes
<1>2. \E f : f = [at \in 1 .. Len(b) |-> InfoFrom(b, f, at)]
  BY WalkExists DEF Walks
<1>3. walk = [at \in 1 .. Len(b) |-> InfoFrom(b, walk, at)]
  BY <1>2
<1> HIDE DEF walk
<1>4. \A at \in 1 .. Len(b) : walk[at] = InfoFrom(b, walk, at)
  BY <1>3
<1> QED
  BY <1>1, <1>4
=============================================================================
