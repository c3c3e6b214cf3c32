------------------------- MODULE RedirectStreamProofs --------------------------
(***************************************************************************)
(* The redirecting stream, for every prefix its cache has room for, every  *)
(* cache size and clock, and texts of any length.                          *)
(***************************************************************************)
EXTENDS RedirectOutputStream, WellFoundedInduction, SequenceTheorems, TLAPS

\* A set of natural numbers has a smallest one.
LEMMA Smallest ==
  ASSUME NEW S, S \subseteq Nat, S # {}
  PROVE  \E m \in S : \A s \in S : m <= s
<1>1. \E R : IsWellFoundedOn(R, Nat) /\ \A s, m \in Nat : s < m => <<s, m>> \in R
  <2>1. \A s, m \in Nat : s < m => <<s, m>> \in OpToRel(<, Nat)
    BY DEF OpToRel
  <2> QED
    BY <2>1, NatLessThanWellFounded
<1>2. PICK R : IsWellFoundedOn(R, Nat) /\ \A s, m \in Nat : s < m => <<s, m>> \in R
  BY <1>1
<1>3. IsWellFoundedOn(R, Nat)
  BY <1>2
<1>4. PICK m \in S : \A s \in S : ~ (<<s, m>> \in R)
  BY <1>3, WFMin
<1>5. ASSUME NEW s \in S PROVE m <= s
  <2>1. s \in Nat /\ m \in Nat /\ ~ (<<s, m>> \in R)
    BY <1>4
  <2>2. ~ (s < m)
    BY <1>2, <2>1
  <2> QED
    BY <2>1, <2>2
<1> QED
  BY <1>5

-----------------------------------------------------------------------------
(* Flattening.  The operator of SequencesExt is defined by recursion over  *)
(* the positions; that the recursion has a solution, and one only, is      *)
(* shown by taking the smallest counterexample.                            *)

\* f holds the concatenation of the first sequences at every position.
Flattens(f, ss) ==
  f = [i \in 1 .. Len(ss) |-> IF i = 1 THEN ss[i] ELSE f[i - 1] \o ss[i]]

\* The sequences of tt begin with those of ss.
Begins(ss, tt) == Len(ss) <= Len(tt) /\ \A i \in 1 .. Len(ss) : ss[i] = tt[i]

LEMMA FlattensOne ==
  ASSUME NEW S, NEW ss \in Seq(Seq(S)), NEW f, Flattens(f, ss), NEW i \in 1 .. Len(ss)
  PROVE  f[i] = IF i = 1 THEN ss[i] ELSE f[i - 1] \o ss[i]
BY DEF Flattens

\* Solutions for two lists agree as far as the lists do.
LEMMA FlattensUnique ==
  ASSUME NEW S, NEW ss \in Seq(Seq(S)), NEW f, Flattens(f, ss),
         NEW tt \in Seq(Seq(S)), NEW g, Flattens(g, tt), Begins(ss, tt)
  PROVE  \A i \in 1 .. Len(ss) : f[i] = g[i]
<1> DEFINE Bad == {i \in 1 .. Len(ss) : f[i] # g[i]}
<1>1. /\ Len(ss) \in Nat /\ Len(tt) \in Nat
      /\ Len(ss) <= Len(tt) /\ \A i \in 1 .. Len(ss) : ss[i] = tt[i]
  BY DEF Begins
<1>2. SUFFICES ASSUME Bad # {} PROVE FALSE
  OBVIOUS
<1>3. Bad \subseteq Nat
  BY <1>1
<1>4. PICK i \in Bad : \A j \in Bad : i <= j
  <2> HIDE DEF Bad
  <2>1. QED
    BY <1>2, <1>3, Smallest
<1>5. i \in 1 .. Len(ss) /\ i \in 1 .. Len(tt) /\ f[i] # g[i]
  BY <1>1, <1>4
<1>6. /\ f[i] = IF i = 1 THEN ss[i] ELSE f[i - 1] \o ss[i]
      /\ g[i] = IF i = 1 THEN tt[i] ELSE g[i - 1] \o tt[i]
  BY <1>5, FlattensOne
<1>7. CASE i = 1
  BY <1>1, <1>5, <1>6, <1>7
<1>8. CASE i # 1
  <2>1. i - 1 \in 1 .. Len(ss) /\ ~(i <= i - 1)
    BY <1>1, <1>5, <1>8
  <2>2. i - 1 \notin Bad
    BY <1>4, <2>1
  <2>3. f[i - 1] = g[i - 1]
    BY <2>1, <2>2
  <2>4. QED
    BY <1>1, <1>5, <1>6, <1>8, <2>3
<1>9. QED
  BY <1>7, <1>8

\* A solution for a list, extended for a list with one sequence more.
LEMMA FlattensExtended ==
  ASSUME NEW S, NEW ss \in Seq(Seq(S)), NEW f, Flattens(f, ss), NEW t \in Seq(S)
  PROVE  \E g : Flattens(g, Append(ss, t))
<1> DEFINE n == Len(ss)
           tt == Append(ss, t)
           g == [i \in 1 .. n + 1 |->
                   IF i <= n THEN f[i] ELSE IF n = 0 THEN t ELSE f[n] \o t]
           h == [i \in 1 .. Len(tt) |-> IF i = 1 THEN tt[i] ELSE g[i - 1] \o tt[i]]
<1>1. n \in Nat /\ Len(tt) = n + 1 /\ tt[n + 1] = t
      /\ \A i \in 1 .. n : tt[i] = ss[i]
  OBVIOUS
<1>2. ASSUME NEW i \in 1 .. n + 1 PROVE g[i] = h[i]
  <2>1. h[i] = IF i = 1 THEN tt[i] ELSE g[i - 1] \o tt[i]
    BY <1>1
  <2>2. CASE i <= n
    <3>1. f[i] = IF i = 1 THEN ss[i] ELSE f[i - 1] \o ss[i]
      BY <1>1, <2>2, FlattensOne
    <3>2. g[i] = f[i] /\ tt[i] = ss[i]
      BY <1>1, <2>2
    <3>3. i # 1 => g[i - 1] = f[i - 1]
      BY <1>1, <2>2
    <3>4. QED
      BY <2>1, <3>1, <3>2, <3>3
  <2>3. CASE i = n + 1
    <3>1. tt[i] = t /\ ~(i <= n) /\ (i = 1 <=> n = 0)
      BY <1>1, <2>3
    <3>2. n # 0 => g[i - 1] = f[n]
      BY <1>1, <2>3
    <3>3. g[i] = IF n = 0 THEN t ELSE f[n] \o t
      BY <3>1
    <3>4. QED
      BY <2>1, <3>1, <3>2, <3>3
  <2>4. QED
    BY <1>1, <2>2, <2>3
<1>3. g = h
  <2>1. g = [i \in 1 .. n + 1 |-> g[i]] /\ h = [i \in 1 .. n + 1 |-> h[i]]
    BY <1>1
  <2> HIDE DEF g, h
  <2>2. QED
    BY <1>2, <2>1
<1>4. Flattens(g, tt)
  <2>1. g = [i \in 1 .. Len(tt) |-> IF i = 1 THEN tt[i] ELSE g[i - 1] \o tt[i]]
    BY <1>3
  <2> HIDE DEF g, tt
  <2>2. QED
    BY <2>1 DEF Flattens
<1>5. QED
  BY <1>4

LEMMA FlattensExists ==
  ASSUME NEW S, NEW ss \in Seq(Seq(S))
  PROVE  \E f : Flattens(f, ss)
<1> DEFINE Bad == {n \in Nat : \E tt \in Seq(Seq(S)) :
                                 Len(tt) = n /\ ~\E f : Flattens(f, tt)}
<1>1. SUFFICES ASSUME Bad # {} PROVE FALSE
  OBVIOUS
<1>2. PICK n \in Bad : \A m \in Bad : n <= m
  <2>1. Bad \subseteq Nat
    OBVIOUS
  <2> HIDE DEF Bad
  <2>2. QED
    BY <1>1, <2>1, Smallest
<1>3. PICK tt \in Seq(Seq(S)) : Len(tt) = n /\ ~\E f : Flattens(f, tt)
  BY <1>2
<1>4. n \in Nat
  BY <1>2
<1>5. CASE n = 0
  <2> DEFINE f == [i \in 1 .. 0 |-> tt]
  <2>1. \A g : [i \in 1 .. Len(tt) |-> IF i = 1 THEN tt[i] ELSE g[i - 1] \o tt[i]] = f
    BY <1>3, <1>5
  <2>2. Flattens(f, tt)
    BY <2>1 DEF Flattens
  <2>3. QED
    BY <1>3, <2>2
<1>6. CASE n # 0
  <2> DEFINE uu == SubSeq(tt, 1, n - 1)
             t == tt[n]
  <2>1. uu \in Seq(Seq(S)) /\ Len(uu) = n - 1 /\ t \in Seq(S)
    BY <1>3, <1>4, <1>6
  <2>2. tt = Append(uu, t)
    <3>1. Append(uu, t) \in Seq(Seq(S)) /\ Len(Append(uu, t)) = n
      BY <1>4, <2>1
    <3>2. \A i \in 1 .. n : Append(uu, t)[i] = tt[i]
      BY <1>3, <1>4, <1>6
    <3> HIDE DEF uu, t
    <3>3. QED
      BY <1>3, <3>1, <3>2, SeqEqual
  <2> HIDE DEF uu, t
  <2>3. n - 1 \in Nat /\ ~(n <= n - 1)
    BY <1>4, <1>6
  <2>4. n - 1 \notin Bad
    BY <1>2, <2>3
  <2>5. \E f : Flattens(f, uu)
    BY <2>1, <2>3, <2>4
  <2>6. QED
    BY <1>3, <2>1, <2>2, <2>5, FlattensExtended
<1>7. QED
  BY <1>5, <1>6

\* What FlattenSeq computes, from any solution of its recursion.
LEMMA FlattenSeqIs ==
  ASSUME NEW S, NEW ss \in Seq(Seq(S)), NEW f, Flattens(f, ss)
  PROVE  FlattenSeq(ss) = IF ss = <<>> THEN <<>> ELSE f[Len(ss)]
<1>1. CASE ss = <<>>
  BY <1>1 DEF FlattenSeq
<1>2. CASE ss # <<>>
  <2> DEFINE g == CHOOSE g : Flattens(g, ss)
  <2>1. Len(ss) \in Nat /\ Len(ss) # 0 /\ Len(ss) \in 1 .. Len(ss)
    BY <1>2
  <2>2. FlattenSeq(ss) = g[Len(ss)]
    BY <2>1 DEF FlattenSeq, Flattens
  <2>3. Flattens(g, ss)
    OBVIOUS
  <2> HIDE DEF g
  <2>4. QED
    BY <1>2, <2>1, <2>2, <2>3, FlattensUnique DEF Begins
<1>3. QED
  BY <1>1, <1>2

LEMMA FlattenSeqAppend ==
  ASSUME NEW S, NEW ss \in Seq(Seq(S)), NEW t \in Seq(S)
  PROVE  FlattenSeq(Append(ss, t)) = FlattenSeq(ss) \o t
<1> DEFINE tt == Append(ss, t)
           n == Len(ss)
<1>1. /\ tt \in Seq(Seq(S)) /\ Len(tt) = n + 1 /\ tt[n + 1] = t /\ n \in Nat
      /\ \A i \in 1 .. n : ss[i] = tt[i]
  BY AppendProperties
<1> HIDE DEF tt
<1>0. tt # <<>>
  BY <1>1
<1>2. PICK f : Flattens(f, ss)
  BY FlattensExists
<1>3. PICK g : Flattens(g, tt)
  BY <1>1, FlattensExists
<1>4. /\ FlattenSeq(ss) = IF ss = <<>> THEN <<>> ELSE f[n]
      /\ FlattenSeq(tt) = g[n + 1]
  BY <1>0, <1>1, <1>2, <1>3, FlattenSeqIs
<1>5. g[n + 1] = IF n + 1 = 1 THEN t ELSE g[n] \o t
  <2>1. n + 1 \in 1 .. Len(tt) /\ n + 1 - 1 = n
    BY <1>1
  <2>2. QED
    BY <1>1, <1>3, <2>1, FlattensOne
<1>6. CASE ss = <<>>
  <2>1. n = 0 /\ FlattenSeq(ss) = <<>> /\ FlattenSeq(tt) = t /\ <<>> \o t = t
    BY <1>4, <1>5, <1>6
  <2>2. QED
    BY <2>1 DEF tt
<1>7. CASE ss # <<>>
  <2>1. n \in 1 .. n /\ n + 1 # 1 /\ n <= Len(tt)
    BY <1>1, <1>7
  <2>2. \A i \in 1 .. Len(ss) : f[i] = g[i]
    <3>1. Flattens(f, ss) /\ Flattens(g, tt) /\ tt \in Seq(Seq(S)) /\ Begins(ss, tt)
      BY <1>1, <1>2, <1>3, <2>1 DEF Begins
    <3>2. QED
      BY <3>1, FlattensUnique
  <2>3. f[n] = g[n]
    BY <2>1, <2>2
  <2>4. QED
    BY <1>4, <1>5, <1>7, <2>1, <2>3 DEF tt
<1>8. QED
  BY <1>6, <1>7

\* A flat list of sequences over S is a sequence over S.
LEMMA FlattenSeqType ==
  ASSUME NEW S, NEW ss \in Seq(Seq(S))
  PROVE  FlattenSeq(ss) \in Seq(S)
<1> DEFINE n == Len(ss)
<1>1. n \in Nat
  OBVIOUS
<1>2. PICK f : Flattens(f, ss)
  BY FlattensExists
<1> DEFINE Bad == {i \in 1 .. n : f[i] \notin Seq(S)}
<1>3. ASSUME Bad # {} PROVE FALSE
  <2>1. Bad \subseteq Nat
    BY <1>1
  <2>2. PICK i \in Bad : \A j \in Bad : i <= j
    <3> HIDE DEF Bad
    <3>1. QED
      BY <1>3, <2>1, Smallest
  <2>3. i \in 1 .. n /\ f[i] \notin Seq(S)
    BY <2>2
  <2>4. f[i] = IF i = 1 THEN ss[i] ELSE f[i - 1] \o ss[i]
    BY <1>2, <2>3, FlattensOne
  <2>5. ss[i] \in Seq(S)
    BY <2>3
  <2>6. i # 1
    BY <2>3, <2>4, <2>5
  <2>7. i - 1 \in 1 .. n /\ ~(i <= i - 1)
    BY <1>1, <2>3, <2>6
  <2>8. f[i - 1] \in Seq(S)
    BY <2>2, <2>7
  <2>9. QED
    BY <2>3, <2>4, <2>5, <2>6, <2>8
<1>4. ss # <<>> => f[n] \in Seq(S)
  BY <1>1, <1>3
<1>5. QED
  BY <1>2, <1>4, FlattenSeqIs

-----------------------------------------------------------------------------
(* The stream between two calls of its owner.                              *)

Text == Tokens \union Range(Prefix)

FrameEndAt(p, j) == p[j] = CR /\ p[j + 1] = LF

StreamType ==
  [cache : Seq(Text), first : BOOLEAN, cr : BOOLEAN, prefix : {Prefix},
   sent : Seq(Seq(Text))]

\* What a packet on the air is.
Packet(p) ==
  /\ p \in Seq(Text) /\ Len(p) <= CacheSize
  /\ IsPrefix(Prefix, p)
  /\ \A j \in 1 .. Len(p) - 2 : ~FrameEndAt(p, j)

\* What a cache that will be a packet holds: at least the prefix, and no end of a
\* frame; cr tells whether the last token may begin one.
Growing(s) ==
  /\ Len(s.cache) >= Len(Prefix)
  /\ Len(s.cache) <= CacheSize
  /\ IsPrefix(Prefix, s.cache)
  /\ \A j \in 1 .. Len(s.cache) - 1 : ~FrameEndAt(s.cache, j)
  /\ s.cr <=> s.cache # <<>> /\ s.cache[Len(s.cache)] = CR

SentOK(s) == \A k \in 1 .. Len(s.sent) : Packet(s.sent[k])

StreamOK(s) ==
  /\ s \in StreamType
  /\ SentOK(s)
  /\ IF s.first THEN s.cache = <<>> /\ ~s.cr ELSE s.cache # <<>> /\ Growing(s)

\* A stream about to take a token.
Ready(s) ==
  /\ s \in StreamType
  /\ SentOK(s)
  /\ ~s.first /\ Growing(s) /\ Len(s.cache) < CacheSize

Bodies(ss) == [k \in DOMAIN ss |-> Body(ss[k])]

\* All the text the stream was given, as far as it is still to be seen.
Content(s) == FlattenSeq(Bodies(s.sent)) \o Body(s.cache)

LEMMA PrefixType ==
  /\ Prefix \in Seq(Text) /\ Len(Prefix) \in Nat /\ Len(Prefix) < CacheSize
  /\ CacheSize \in Nat /\ CacheSize >= 1
  /\ \A j \in 1 .. Len(Prefix) : Prefix[j] # CR
<1>1. Prefix \in Seq(Range(Prefix)) /\ Range(Prefix) \subseteq Text
  BY PrefixAssumption DEF Text
<1>2. Prefix \in Seq(Text)
  BY <1>1, SeqMonotonic
<1>3. \A j \in 1 .. Len(Prefix) : Prefix[j] \in Range(Prefix)
  BY <1>1 DEF Range
<1>4. QED
  BY <1>1, <1>2, <1>3, PrefixAssumption, CacheAssumption

LEMMA BodyType ==
  ASSUME NEW p \in Seq(Text)
  PROVE  /\ Body(p) \in Seq(Text)
         /\ Len(p) <= Len(Prefix) => Body(p) = <<>>
<1>1. Len(p) \in Nat /\ Len(Prefix) \in Nat
  BY PrefixType
<1>2. \A i \in Len(Prefix) + 1 .. Len(p) : p[i] \in Text
  BY <1>1
<1>3. Body(p) \in Seq(Text)
  BY <1>1, <1>2, SubSeqProperties DEF Body
<1>4. Len(p) <= Len(Prefix) => Body(p) = <<>>
  BY <1>1, SubSeqEmpty DEF Body
<1>5. QED
  BY <1>3, <1>4

LEMMA BodyAppend ==
  ASSUME NEW p \in Seq(Text), Len(p) >= Len(Prefix), NEW c \in Text
  PROVE  Body(Append(p, c)) = Append(Body(p), c)
<1> DEFINE m == Len(Prefix)
           n == Len(p)
           q == Append(p, c)
<1>1. m \in Nat /\ n \in Nat /\ m <= n
  BY PrefixType
<1>2. /\ q \in Seq(Text) /\ Len(q) = n + 1 /\ q[n + 1] = c
      /\ \A i \in 1 .. n : q[i] = p[i]
  BY AppendProperties
<1> HIDE DEF q, m, n
<1>3. /\ Body(q) \in Seq(Text) /\ Len(Body(q)) = n + 1 - m
      /\ \A i \in 1 .. n + 1 - m : Body(q)[i] = q[m + i]
  <2>1. \A i \in m + 1 .. n + 1 : q[i] \in Text
    BY <1>1, <1>2
  <2>2. Body(q) = SubSeq(q, m + 1, n + 1)
    BY <1>2 DEF Body, m
  <2>3. /\ SubSeq(q, m + 1, n + 1) \in Seq(Text)
        /\ Len(SubSeq(q, m + 1, n + 1)) =
             IF m + 1 <= n + 1 THEN n + 1 - (m + 1) + 1 ELSE 0
        /\ \A i \in 1 .. n + 1 - (m + 1) + 1 :
             SubSeq(q, m + 1, n + 1)[i] = q[m + 1 + i - 1]
    BY <1>1, <2>1, SubSeqProperties
  <2>4. QED
    BY <1>1, <2>2, <2>3
<1>4. /\ Body(p) \in Seq(Text) /\ Len(Body(p)) = n - m
      /\ \A i \in 1 .. n - m : Body(p)[i] = p[m + i]
  <2>1. \A i \in m + 1 .. n : p[i] \in Text
    BY <1>1 DEF n
  <2>2. Body(p) = SubSeq(p, m + 1, n)
    BY DEF Body, m, n
  <2>3. /\ SubSeq(p, m + 1, n) \in Seq(Text)
        /\ Len(SubSeq(p, m + 1, n)) = IF m + 1 <= n THEN n - (m + 1) + 1 ELSE 0
        /\ \A i \in 1 .. n - (m + 1) + 1 : SubSeq(p, m + 1, n)[i] = p[m + 1 + i - 1]
    BY <1>1, <2>1, SubSeqProperties
  <2>4. QED
    BY <1>1, <2>2, <2>3
<1>5. /\ Append(Body(p), c) \in Seq(Text)
      /\ Len(Append(Body(p), c)) = n - m + 1
      /\ Append(Body(p), c)[n - m + 1] = c
      /\ \A i \in 1 .. n - m : Append(Body(p), c)[i] = Body(p)[i]
  BY <1>4, AppendProperties
<1>6. ASSUME NEW i \in 1 .. n + 1 - m PROVE Body(q)[i] = Append(Body(p), c)[i]
  <2>1. CASE i = n + 1 - m
    BY <1>1, <1>2, <1>3, <1>5, <2>1
  <2>2. CASE i # n + 1 - m
    <3>1. i \in 1 .. n - m /\ m + i \in 1 .. n
      BY <1>1, <2>2
    <3>2. QED
      BY <1>2, <1>3, <1>4, <1>5, <3>1
  <2>3. QED
    BY <2>1, <2>2
<1>7. Len(Body(q)) = Len(Append(Body(p), c))
  BY <1>1, <1>3, <1>5
<1>8. Body(q) = Append(Body(p), c)
  <2>1. \A i \in 1 .. Len(Body(q)) : Body(q)[i] = Append(Body(p), c)[i]
    BY <1>3, <1>6
  <2>2. QED
    BY <1>3, <1>5, <1>7, <2>1, SeqEqual
<1>9. QED
  BY <1>8 DEF q

LEMMA BodiesType ==
  ASSUME NEW ss \in Seq(Seq(Text))
  PROVE  Bodies(ss) \in Seq(Seq(Text)) /\ Len(Bodies(ss)) = Len(ss)
<1>1. Len(ss) \in Nat /\ DOMAIN ss = 1 .. Len(ss)
  OBVIOUS
<1>2. \A k \in 1 .. Len(ss) : Body(ss[k]) \in Seq(Text)
  BY BodyType
<1>3. Bodies(ss) = [k \in 1 .. Len(ss) |-> Body(ss[k])]
  BY <1>1 DEF Bodies
<1>4. QED
  BY <1>1, <1>2, <1>3

LEMMA BodiesAppend ==
  ASSUME NEW ss \in Seq(Seq(Text)), NEW p \in Seq(Text)
  PROVE  Bodies(Append(ss, p)) = Append(Bodies(ss), Body(p))
<1> DEFINE n == Len(ss)
           tt == Append(ss, p)
<1>1. /\ tt \in Seq(Seq(Text)) /\ Len(tt) = n + 1 /\ tt[n + 1] = p /\ n \in Nat
      /\ \A k \in 1 .. n : tt[k] = ss[k]
  BY AppendProperties
<1> HIDE DEF tt
<1>2. Bodies(tt) \in Seq(Seq(Text)) /\ Len(Bodies(tt)) = n + 1
  BY <1>1, BodiesType
<1>3. Bodies(ss) \in Seq(Seq(Text)) /\ Len(Bodies(ss)) = n /\ Body(p) \in Seq(Text)
  BY BodiesType, BodyType
<1>4. /\ Append(Bodies(ss), Body(p)) \in Seq(Seq(Text))
      /\ Len(Append(Bodies(ss), Body(p))) = n + 1
      /\ Append(Bodies(ss), Body(p))[n + 1] = Body(p)
      /\ \A k \in 1 .. n : Append(Bodies(ss), Body(p))[k] = Bodies(ss)[k]
  BY <1>3, AppendProperties
<1>5. /\ \A k \in 1 .. n + 1 : Bodies(tt)[k] = Body(tt[k])
      /\ \A k \in 1 .. n : Bodies(ss)[k] = Body(ss[k])
  BY <1>1 DEF Bodies
<1>6. \A k \in 1 .. n + 1 : Bodies(tt)[k] = Append(Bodies(ss), Body(p))[k]
  BY <1>1, <1>4, <1>5
<1> HIDE DEF n
<1>7. Bodies(tt) = Append(Bodies(ss), Body(p))
  BY <1>2, <1>4, <1>6, SeqEqual
<1>8. QED
  BY <1>7 DEF tt

\* A packet that is sent keeps its text in the content.
LEMMA ContentSent ==
  ASSUME NEW s \in StreamType, NEW t \in StreamType,
         t.sent = Append(s.sent, s.cache), t.cache = <<>>
  PROVE  Content(t) = Content(s) /\ Content(s) \in Seq(Text)
<1>1. s.sent \in Seq(Seq(Text)) /\ s.cache \in Seq(Text)
  BY DEF StreamType
<1>2. /\ Bodies(s.sent) \in Seq(Seq(Text)) /\ Body(s.cache) \in Seq(Text)
      /\ FlattenSeq(Bodies(s.sent)) \in Seq(Text)
  BY <1>1, BodiesType, BodyType, FlattenSeqType
<1>3. Bodies(t.sent) = Append(Bodies(s.sent), Body(s.cache))
  BY <1>1, BodiesAppend
<1>4. FlattenSeq(Bodies(t.sent)) = FlattenSeq(Bodies(s.sent)) \o Body(s.cache)
  BY <1>2, <1>3, FlattenSeqAppend
<1>5. Body(t.cache) = <<>>
  <2>1. <<>> \in Seq(Text) /\ Len(<<>>) = 0 /\ 0 <= Len(Prefix)
    BY PrefixType
  <2>2. QED
    BY <2>1, BodyType
<1>6. FlattenSeq(Bodies(s.sent)) \o Body(s.cache) \in Seq(Text)
  BY <1>2, ConcatProperties
<1>7. QED
  BY <1>4, <1>5, <1>6, ConcatEmptySeq DEF Content

\* A token behind the prefix is added to the content.
LEMMA ContentAdded ==
  ASSUME NEW s \in StreamType, Len(s.cache) >= Len(Prefix), NEW c \in Text,
         NEW t, t.sent = s.sent, t.cache = Append(s.cache, c)
  PROVE  Content(t) = Append(Content(s), c)
<1>1. s.sent \in Seq(Seq(Text)) /\ s.cache \in Seq(Text)
  BY DEF StreamType
<1>2. /\ Body(s.cache) \in Seq(Text)
      /\ FlattenSeq(Bodies(s.sent)) \in Seq(Text)
  BY <1>1, BodiesType, BodyType, FlattenSeqType
<1>3. Body(t.cache) = Append(Body(s.cache), c)
  BY <1>1, BodyAppend
<1>4. \A a, b \in Seq(Text) : a \o Append(b, c) = Append(a \o b, c)
  OBVIOUS
<1>5. QED
  BY <1>2, <1>3, <1>4 DEF Content

-----------------------------------------------------------------------------
(* The prefix.                                                             *)

\* The stream with the first k tokens of the prefix in its cache.
PutSoFar(s, k) == [s EXCEPT !.first = FALSE, !.cache = SubSeq(Prefix, 1, k)]

LEMMA PutNext ==
  ASSUME NEW s \in StreamType, NEW k \in 1 .. Len(Prefix)
  PROVE  Cached(PutSoFar(s, k - 1), Prefix[k]) = PutSoFar(s, k)
<1>1. /\ Prefix \in Seq(Text) /\ Len(Prefix) \in Nat /\ Len(Prefix) < CacheSize
      /\ CacheSize \in Nat
  BY PrefixType
<1>2. /\ SubSeq(Prefix, 1, k - 1) \in Seq(Text) /\ Len(SubSeq(Prefix, 1, k - 1)) = k - 1
      /\ SubSeq(Prefix, 1, k) = Append(SubSeq(Prefix, 1, k - 1), Prefix[k])
  <2>1. \A i \in 1 .. k - 1 : Prefix[i] \in Text
    BY <1>1
  <2>2. /\ SubSeq(Prefix, 1, k - 1) \in Seq(Text)
        /\ Len(SubSeq(Prefix, 1, k - 1)) = k - 1
    BY <1>1, <2>1, SubSeqProperties
  <2>3. k \in 1 .. Len(Prefix) /\ 1 \in 1 .. Len(Prefix) /\ k \in 1 .. k
    BY <1>1
  <2>4. SubSeq(Prefix, 1, k) = SubSeq(Prefix, 1, k - 1) \o <<Prefix[k]>>
    BY <1>1, <2>3, SubSeqRecursiveSecond
  <2>5. Prefix[k] \in Text
    BY <1>1
  <2>6. \A a \in Seq(Text), c \in Text : a \o <<c>> = Append(a, c)
    OBVIOUS
  <2>7. QED
    BY <2>2, <2>4, <2>5, <2>6
<1>3. PutSoFar(s, k - 1).cache = SubSeq(Prefix, 1, k - 1)
  BY DEF PutSoFar, StreamType
<1>4. ~Full(PutSoFar(s, k - 1))
  BY <1>1, <1>2, <1>3 DEF Full
<1>5. Cached(PutSoFar(s, k - 1), Prefix[k])
        = [PutSoFar(s, k - 1) EXCEPT !.cache = Append(SubSeq(Prefix, 1, k - 1), Prefix[k])]
  BY <1>3, <1>4 DEF Cached, MakeRoom
<1>6. QED
  BY <1>2, <1>5 DEF PutSoFar, StreamType

\* Written token by token, the whole prefix is in the cache: it has room.
LEMMA PrefixIsPut ==
  ASSUME NEW s \in StreamType, s.cache = <<>>
  PROVE  PrefixPut(s) = [s EXCEPT !.first = FALSE, !.cache = Prefix]
<1> DEFINE n == Len(Prefix)
           K == 0 .. n
           Rec(f) == [k \in K |-> IF k = 0 THEN [s EXCEPT !.first = FALSE]
                                           ELSE Cached(f[k - 1], Prefix[k])]
           g == [k \in K |-> PutSoFar(s, k)]
           f == CHOOSE f : f = Rec(f)
<1>1. n \in Nat /\ s.prefix = Prefix /\ Prefix \in Seq(Text)
  BY PrefixType DEF StreamType
<1>2. PrefixPut(s) = f[n]
  BY <1>1 DEF PrefixPut
<1>3. PutSoFar(s, 0) = [s EXCEPT !.first = FALSE]
  <2>1. SubSeq(Prefix, 1, 0) = <<>>
    OBVIOUS
  <2>2. QED
    BY <2>1 DEF PutSoFar, StreamType
<1>4. \A k \in K : g[k] = Rec(g)[k]
  <2> SUFFICES ASSUME NEW k \in K PROVE g[k] = Rec(g)[k]
    OBVIOUS
  <2>1. CASE k = 0
    BY <1>3, <2>1
  <2>2. CASE k # 0
    <3>1. k \in 1 .. Len(Prefix) /\ k - 1 \in K
      BY <1>1, <2>2
    <3>2. Rec(g)[k] = Cached(PutSoFar(s, k - 1), Prefix[k])
      BY <2>2, <3>1
    <3>3. QED
      BY <3>1, <3>2, PutNext
  <2>3. QED
    BY <2>1, <2>2
<1>5. g = Rec(g)
  <2>1. g = [k \in K |-> g[k]] /\ Rec(g) = [k \in K |-> Rec(g)[k]]
    OBVIOUS
  <2> HIDE DEF g, Rec
  <2>2. QED
    BY <1>4, <2>1
<1>6. f = Rec(f)
  <2> HIDE DEF Rec, g
  <2>1. QED
    BY <1>5
<1> HIDE DEF f
<1>7. \A k \in K : f[k] = IF k = 0 THEN [s EXCEPT !.first = FALSE]
                                   ELSE Cached(f[k - 1], Prefix[k])
  <2>1. \A h : \A k \in K : Rec(h)[k] = IF k = 0 THEN [s EXCEPT !.first = FALSE]
                                                 ELSE Cached(h[k - 1], Prefix[k])
    OBVIOUS
  <2> HIDE DEF Rec
  <2>2. QED
    BY <1>6, <2>1
<1> DEFINE Bad == {k \in K : f[k] # PutSoFar(s, k)}
<1>8. ASSUME Bad # {} PROVE FALSE
  <2>1. Bad \subseteq Nat
    BY <1>1
  <2>2. PICK k \in Bad : \A j \in Bad : k <= j
    <3> HIDE DEF Bad
    <3>1. QED
      BY <1>8, <2>1, Smallest
  <2>3. k \in K /\ f[k] # PutSoFar(s, k)
    BY <2>2
  <2>4. k # 0
    BY <1>3, <1>7, <2>3
  <2>5. k \in 1 .. Len(Prefix) /\ k - 1 \in K /\ ~(k <= k - 1)
    BY <1>1, <2>3, <2>4
  <2>6. f[k - 1] = PutSoFar(s, k - 1)
    BY <2>2, <2>5
  <2>7. f[k] = Cached(PutSoFar(s, k - 1), Prefix[k])
    BY <1>7, <2>3, <2>4, <2>6
  <2>8. QED
    BY <2>3, <2>5, <2>7, PutNext
<1>9. f[n] = PutSoFar(s, n)
  BY <1>1, <1>8
<1>10. SubSeq(Prefix, 1, n) = Prefix
  BY <1>1
<1>11. QED
  BY <1>2, <1>9, <1>10 DEF PutSoFar

-----------------------------------------------------------------------------
(* The operations keep the stream in order.                                *)

\* More was sent, or nothing.
Grown(s, t) == t.sent = s.sent \/ Len(t.sent) > Len(s.sent)

\* What was sent stays, and what was sent since does not end between CR and LF
\* unless it is full.
Kept(s, t) ==
  Len(s.sent) <= Len(t.sent) /\ \A k \in 1 .. Len(s.sent) : t.sent[k] = s.sent[k]

Whole(p) == p[Len(p)] = CR => Len(p) = CacheSize

Extended(s, t) ==
  Kept(s, t) /\ \A k \in Len(s.sent) + 1 .. Len(t.sent) : Whole(t.sent[k])

LEMMA ExtendedTwice ==
  ASSUME NEW s, NEW t, NEW u, Extended(s, t), Extended(t, u),
         Len(s.sent) \in Nat, Len(t.sent) \in Nat, Len(u.sent) \in Nat
  PROVE  Extended(s, u)
<1>1. Kept(s, u)
  BY DEF Extended, Kept
<1>2. ASSUME NEW k \in Len(s.sent) + 1 .. Len(u.sent) PROVE Whole(u.sent[k])
  <2>1. CASE k <= Len(t.sent)
    <3>1. k \in 1 .. Len(t.sent) /\ k \in Len(s.sent) + 1 .. Len(t.sent)
      BY <2>1
    <3>2. u.sent[k] = t.sent[k] /\ Whole(t.sent[k])
      BY <3>1 DEF Extended, Kept
    <3>3. QED
      BY <3>2
  <2>2. CASE ~(k <= Len(t.sent))
    <3>1. k \in Len(t.sent) + 1 .. Len(u.sent)
      BY <2>2
    <3>2. QED
      BY <3>1 DEF Extended
  <2>3. QED
    BY <2>1, <2>2
<1>3. QED
  BY <1>1, <1>2 DEF Extended

\* Nothing sent is nothing changed.
LEMMA ExtendedByNothing ==
  ASSUME NEW s, NEW t, t.sent = s.sent, Len(s.sent) \in Nat
  PROVE  Extended(s, t)
<1>1. Len(s.sent) + 1 .. Len(t.sent) = {}
  OBVIOUS
<1>2. QED
  BY <1>1 DEF Extended, Kept

\* Sending the cache as a packet.
LEMMA SendCache ==
  ASSUME NEW s \in StreamType, SentOK(s), s.cache # <<>>, Packet(s.cache)
  PROVE  /\ Kept(s, Flushed(s))
         /\ Whole(s.cache) => Extended(s, Flushed(s))
         /\ StreamOK(Flushed(s)) /\ Flushed(s).first /\ Flushed(s).cache = <<>>
         /\ Content(Flushed(s)) = Content(s)
         /\ Len(Flushed(s).sent) = Len(s.sent) + 1
<1> DEFINE t == Flushed(s)
<1>1. t = [s EXCEPT !.sent = Append(@, s.cache),
                    !.cache = <<>>, !.first = TRUE, !.cr = FALSE]
  BY DEF Flushed
<1>2. /\ s.sent \in Seq(Seq(Text)) /\ s.cache \in Seq(Text)
      /\ Append(s.sent, s.cache) \in Seq(Seq(Text))
      /\ <<>> \in Seq(Text)
  BY DEF StreamType
<1>3. /\ t \in StreamType /\ t.cache = <<>> /\ t.first /\ ~t.cr
      /\ t.sent = Append(s.sent, s.cache)
  BY <1>1, <1>2 DEF StreamType
<1> HIDE DEF t
<1>4. /\ Len(t.sent) = Len(s.sent) + 1 /\ Len(s.sent) \in Nat
      /\ t.sent[Len(s.sent) + 1] = s.cache
      /\ \A k \in 1 .. Len(s.sent) : t.sent[k] = s.sent[k]
  BY <1>2, <1>3, AppendProperties
<1>5. SentOK(t)
  BY <1>4 DEF SentOK
<1>6. Content(t) = Content(s)
  BY <1>3, ContentSent
<1>8. Kept(s, t)
  BY <1>4 DEF Kept
<1>9. ASSUME Whole(s.cache) PROVE Extended(s, t)
  <2>1. \A k \in Len(s.sent) + 1 .. Len(t.sent) : k = Len(s.sent) + 1
    BY <1>4
  <2>2. QED
    BY <1>4, <1>8, <1>9, <2>1 DEF Extended
<1>7. QED
  BY <1>3, <1>4, <1>5, <1>6, <1>8, <1>9 DEF StreamOK, t

LEMMA GrowingPacket ==
  ASSUME NEW s \in StreamType, Growing(s)
  PROVE  Packet(s.cache)
<1>1. s.cache \in Seq(Text) /\ Len(s.cache) \in Nat
  BY DEF StreamType
<1>2. \A j \in 1 .. Len(s.cache) - 2 : j \in 1 .. Len(s.cache) - 1
  BY <1>1
<1>3. QED
  BY <1>1, <1>2 DEF Growing, Packet

LEMMA FlushedOK ==
  ASSUME NEW s, StreamOK(s)
  PROVE  /\ StreamOK(Flushed(s)) /\ Flushed(s).cache = <<>> /\ Grown(s, Flushed(s))
         /\ Content(Flushed(s)) = Content(s)
         /\ Kept(s, Flushed(s))
         /\ Full(s) => Extended(s, Flushed(s))
<1>1. CASE s.cache = <<>>
  <2>1. Flushed(s) = s /\ Len(s.sent) \in Nat
    BY <1>1 DEF Flushed, StreamOK, StreamType
  <2>2. Extended(s, s)
    BY <2>1, ExtendedByNothing
  <2>3. QED
    BY <1>1, <2>1, <2>2 DEF Grown, Extended
<1>2. CASE s.cache # <<>>
  <2>1. s \in StreamType /\ SentOK(s) /\ Growing(s) /\ s.sent \in Seq(Seq(Text))
    BY <1>2 DEF StreamOK, StreamType
  <2>2. Packet(s.cache)
    BY <2>1, GrowingPacket
  <2>3. Len(s.sent) \in Nat
    BY <2>1
  <2>5. Full(s) => Whole(s.cache)
    BY DEF Full, Whole
  <2>4. QED
    BY <1>2, <2>1, <2>2, <2>3, <2>5, SendCache DEF Grown
<1>3. QED
  BY <1>1, <1>2

\* Room is made and the prefix put: a token can be taken.
LEMMA PrefixedReady ==
  ASSUME NEW s, StreamOK(s)
  PROVE  LET t == Prefixed(MakeRoom(s))
         IN  Ready(t) /\ Grown(s, t) /\ Extended(s, t) /\ Content(t) = Content(s)
<1> DEFINE r == MakeRoom(s)
           t == Prefixed(r)
<1>1. /\ StreamOK(r) /\ ~Full(r) /\ Grown(s, r) /\ Content(r) = Content(s)
      /\ Extended(s, r)
  <2>1. CASE Full(s)
    <3>1. r = Flushed(s)
      BY <2>1 DEF MakeRoom
    <3>2. /\ StreamOK(r) /\ Grown(s, r) /\ Content(r) = Content(s) /\ r.cache = <<>>
          /\ Extended(s, r)
      BY <2>1, <3>1, FlushedOK
    <3>3. Len(<<>>) = 0 /\ 0 # CacheSize
      BY PrefixType
    <3>4. ~Full(r)
      BY <3>2, <3>3 DEF Full
    <3>5. QED
      BY <3>2, <3>4
  <2>2. CASE ~Full(s)
    <3>1. r = s /\ Len(s.sent) \in Nat
      BY <2>2 DEF MakeRoom, StreamOK, StreamType
    <3>2. Extended(s, s)
      BY <3>1, ExtendedByNothing
    <3>3. QED
      BY <2>2, <3>1, <3>2 DEF Grown
  <2>3. QED
    BY <2>1, <2>2
<1> HIDE DEF r
<1>2. /\ r \in StreamType /\ SentOK(r) /\ r.cache \in Seq(Text) /\ Len(r.cache) \in Nat
      /\ r.first \in BOOLEAN
  BY <1>1 DEF StreamOK, StreamType
<1>3. CASE ~r.first
  <2>1. t = r
    BY <1>3 DEF Prefixed
  <2>2. Growing(r) /\ Len(r.cache) < CacheSize
    BY <1>1, <1>2, <1>3, PrefixType DEF StreamOK, Growing, Full
  <2>3. QED
    BY <1>1, <1>2, <1>3, <2>1, <2>2 DEF Ready, r
<1>4. CASE r.first
  <2>1. r.cache = <<>> /\ ~r.cr
    BY <1>1, <1>4 DEF StreamOK
  <2>2. t = [r EXCEPT !.first = FALSE, !.cache = Prefix]
    BY <1>2, <1>4, <2>1, PrefixIsPut DEF Prefixed
  <2>3. /\ t \in StreamType /\ ~t.first /\ t.cache = Prefix /\ t.cr = r.cr
        /\ t.sent = r.sent
    BY <1>2, <2>2, PrefixType DEF StreamType
  <2> HIDE DEF t
  <2>4. Growing(t) /\ Len(t.cache) < CacheSize
    <3>1. /\ Len(t.cache) >= Len(Prefix) /\ Len(t.cache) <= CacheSize
          /\ Len(t.cache) < CacheSize
      BY <2>3, PrefixType
    <3>2. IsPrefix(Prefix, t.cache)
      BY <2>3, PrefixType DEF IsPrefix
    <3>3. \A j \in 1 .. Len(t.cache) - 1 : ~FrameEndAt(t.cache, j)
      <4>1. \A j \in 1 .. Len(Prefix) - 1 : j \in 1 .. Len(Prefix)
        BY PrefixType
      <4>2. QED
        BY <2>3, <4>1, PrefixType DEF FrameEndAt
    <3>4. t.cr <=> t.cache # <<>> /\ t.cache[Len(t.cache)] = CR
      <4>1. Prefix # <<>> => Len(Prefix) \in 1 .. Len(Prefix)
        BY PrefixType
      <4>2. QED
        BY <2>1, <2>3, <4>1, PrefixType
    <3>5. QED
      BY <3>1, <3>2, <3>3, <3>4 DEF Growing
  <2>5. SentOK(t)
    BY <1>2, <2>3 DEF SentOK
  <2>6. Content(t) = Content(r)
    <3>1. Len(<<>>) = 0 /\ <<>> \in Seq(Text) /\ 0 <= Len(Prefix)
      BY PrefixType
    <3>2. Body(Prefix) = <<>> /\ Body(<<>>) = <<>>
      BY <3>1, BodyType, PrefixType
    <3>3. QED
      BY <2>1, <2>3, <3>2 DEF Content
  <2>7. Grown(s, t) /\ Extended(s, t)
    BY <1>1, <2>3 DEF Grown, Extended, Kept
  <2>8. QED
    BY <1>1, <2>3, <2>4, <2>5, <2>6, <2>7 DEF Ready, r, t
<1>5. QED
  BY <1>2, <1>3, <1>4

\* The token is taken, and the packet sent when it ends a frame.
LEMMA TokenTaken ==
  ASSUME NEW s, Ready(s), NEW c \in Tokens
  PROVE  LET t == FrameChecked(Cached(s, c), c)
         IN  /\ StreamOK(t) /\ Grown(s, t) /\ Extended(s, t)
             /\ Content(t) = Append(Content(s), c)
<1> DEFINE n == Len(s.cache)
           u == Cached(s, c)
           t == FrameChecked(u, c)
<1>1. /\ s \in StreamType /\ SentOK(s) /\ Growing(s) /\ n < CacheSize /\ ~s.first
      /\ s.cache \in Seq(Text) /\ n \in Nat /\ c \in Text /\ s.sent \in Seq(Seq(Text))
      /\ CacheSize \in Nat /\ Len(Prefix) \in Nat
  BY PrefixType DEF Ready, StreamType, Text
<1>2. /\ Append(s.cache, c) \in Seq(Text)
      /\ Len(Append(s.cache, c)) = n + 1
      /\ Append(s.cache, c)[n + 1] = c
      /\ \A i \in 1 .. n : Append(s.cache, c)[i] = s.cache[i]
  BY <1>1, AppendProperties
<1>3. u = [s EXCEPT !.cache = Append(@, c)]
  <2>1. ~Full(s)
    BY <1>1 DEF Full
  <2>2. MakeRoom(s) = s
    BY <2>1 DEF MakeRoom
  <2>3. QED
    BY <2>2 DEF Cached
<1>4. /\ u \in StreamType /\ u.cache = Append(s.cache, c) /\ u.sent = s.sent
      /\ ~u.first /\ u.cr = s.cr
  BY <1>1, <1>2, <1>3 DEF StreamType
<1> HIDE DEF u
<1>5. u.cache # <<>> /\ Len(u.cache) = n + 1 /\ SentOK(u)
  <2>1. Len(<<>>) = 0 /\ n + 1 # 0
    BY <1>1
  <2>2. QED
    BY <1>1, <1>2, <1>4, <2>1 DEF SentOK
<1>6. Content(u) = Append(Content(s), c)
  BY <1>1, <1>4, ContentAdded DEF Growing
<1>7. IsPrefix(Prefix, u.cache)
  <2>1. IsPrefix(Prefix, s.cache) /\ Len(Prefix) <= n
    BY <1>1 DEF Growing
  <2>2. SubSeq(u.cache, 1, Len(Prefix)) = SubSeq(s.cache, 1, Len(Prefix))
    BY <1>1, <1>2, <1>4, <2>1
  <2>3. QED
    BY <1>1, <1>5, <2>1, <2>2 DEF IsPrefix
<1>8. \A j \in 1 .. n - 1 : ~FrameEndAt(u.cache, j)
  <2>1. \A j \in 1 .. n - 1 : j \in 1 .. n /\ j + 1 \in 1 .. n
    BY <1>1
  <2>2. QED
    BY <1>1, <1>2, <1>4, <2>1 DEF Growing, FrameEndAt
<1>9. s.cr <=> s.cache # <<>> /\ u.cache[n] = CR
  <2>1. s.cr <=> s.cache # <<>> /\ s.cache[n] = CR
    BY <1>1 DEF Growing
  <2>2. s.cache # <<>> => n \in 1 .. n
    BY <1>1
  <2>3. QED
    BY <1>2, <1>4, <2>1, <2>2
<1>10. CASE c = LF /\ u.cr
  <2>1. Packet(u.cache)
    <3>1. n + 1 - 2 = n - 1
      BY <1>1
    <3>2. QED
      BY <1>1, <1>2, <1>4, <1>5, <1>7, <1>8, <3>1 DEF Packet
  <2>2. /\ StreamOK(Flushed(u)) /\ Flushed(u).first /\ Flushed(u).cache = <<>>
        /\ Content(Flushed(u)) = Content(u)
        /\ Len(Flushed(u).sent) = Len(u.sent) + 1
        /\ Extended(u, Flushed(u))
    <3>1. u.cache[Len(u.cache)] # CR
      BY <1>2, <1>4, <1>5, <1>10, CacheAssumption
    <3>2. QED
      BY <1>4, <1>5, <2>1, <3>1, SendCache DEF Whole
  <2>3. t = Flushed(u)
    <3>1. Flushed(u) \in StreamType /\ ~Flushed(u).cr /\ Flushed(u).cr \in BOOLEAN
          /\ Flushed(u).first \in BOOLEAN
      BY <2>2 DEF StreamOK, StreamType
    <3>2. t = [Flushed(u) EXCEPT !.first = TRUE, !.cr = FALSE]
      BY <1>10 DEF FrameChecked
    <3>3. QED
      BY <2>2, <3>1, <3>2 DEF StreamType
  <2>4. Len(s.sent) \in Nat
    BY <1>1
  <2>6. Extended(s, t)
    BY <1>4, <2>2, <2>3 DEF Extended, Kept
  <2>5. QED
    BY <1>4, <1>6, <2>2, <2>3, <2>4, <2>6 DEF Grown, u
<1>11. CASE ~(c = LF /\ u.cr)
  <2>1. t = [u EXCEPT !.cr = c = CR]
    BY <1>11 DEF FrameChecked
  <2>2. /\ t \in StreamType /\ t.cache = u.cache /\ t.sent = u.sent /\ ~t.first
        /\ t.cr <=> c = CR
    BY <1>4, <2>1 DEF StreamType
  <2> HIDE DEF t
  <2>3. ~FrameEndAt(u.cache, n) \/ n = 0
    <3> SUFFICES ASSUME FrameEndAt(u.cache, n), n # 0 PROVE FALSE
      OBVIOUS
    <3>1. u.cache[n] = CR /\ c = LF
      BY <1>2, <1>4 DEF FrameEndAt
    <3>2. s.cache # <<>>
      BY <1>1
    <3>3. QED
      BY <1>4, <1>9, <1>11, <3>1, <3>2
  <2>4. Growing(t)
    <3>1. \A j \in 1 .. n + 1 - 1 : ~FrameEndAt(u.cache, j)
      <4>1. \A j \in 1 .. n + 1 - 1 : j \in 1 .. n - 1 \/ (j = n /\ n # 0)
        BY <1>1
      <4>2. QED
        BY <1>8, <2>3, <4>1
    <3>2. u.cache[n + 1] = c
      BY <1>2, <1>4
    <3>3. Len(u.cache) >= Len(Prefix) /\ Len(u.cache) <= CacheSize
      BY <1>1, <1>5 DEF Growing
    <3>4. QED
      BY <1>5, <1>7, <2>2, <3>1, <3>2, <3>3 DEF Growing
  <2>5. SentOK(t) /\ Content(t) = Content(u)
    BY <1>5, <2>2 DEF SentOK, Content
  <2>6. StreamOK(t)
    BY <1>5, <2>2, <2>4, <2>5 DEF StreamOK
  <2>8. Extended(s, t)
    <3>1. t.sent = s.sent /\ Len(s.sent) \in Nat
      BY <1>1, <1>4, <2>2
    <3>2. QED
      BY <3>1, ExtendedByNothing
  <2>7. QED
    BY <1>4, <1>6, <2>2, <2>5, <2>6, <2>8 DEF Grown, u, t
<1>12. QED
  BY <1>10, <1>11

LEMMA WrittenOK ==
  ASSUME NEW s, StreamOK(s), NEW c \in Tokens
  PROVE  /\ StreamOK(Written(s, c)) /\ Grown(s, Written(s, c))
         /\ Extended(s, Written(s, c))
         /\ Content(Written(s, c)) = Append(Content(s), c)
<1> DEFINE r == Prefixed(MakeRoom(s))
<1>1. Ready(r) /\ Grown(s, r) /\ Extended(s, r) /\ Content(r) = Content(s)
  BY PrefixedReady
<1>2. Written(s, c) = FrameChecked(Cached(r, c), c)
  BY DEF Written
<1> HIDE DEF r
<1>3. /\ StreamOK(Written(s, c)) /\ Grown(r, Written(s, c))
      /\ Content(Written(s, c)) = Append(Content(r), c)
      /\ Extended(r, Written(s, c))
  BY <1>1, <1>2, TokenTaken
<1>4. Grown(s, Written(s, c)) /\ Extended(s, Written(s, c))
  <2>1. /\ Len(s.sent) \in Nat /\ Len(r.sent) \in Nat
        /\ Len(Written(s, c).sent) \in Nat
    BY <1>1, <1>3 DEF StreamOK, Ready, StreamType
  <2>2. Extended(s, Written(s, c))
    BY <1>1, <1>3, <2>1, ExtendedTwice
  <2>3. QED
    BY <1>1, <1>3, <2>1, <2>2 DEF Grown
<1>5. QED
  BY <1>1, <1>3, <1>4

-----------------------------------------------------------------------------
(* The invariant.  The clock was moved on by no more than the time that    *)
(* passed since the last packet: that is all the pacing needs, also when   *)
(* the clock has wrapped since.                                            *)

ClockOK ==
  /\ now \in 0 .. Clock - 1 /\ previousFlush \in 0 .. Clock - 1
  /\ since \in Nat
  /\ now <= previousFlush + since

\* A packet that ends in CR was full or is one that the owner flushed.
CutsNamed ==
  \A k \in 1 .. Len(stream.sent) :
    stream.sent[k][Len(stream.sent[k])] = CR =>
      Len(stream.sent[k]) = CacheSize \/ k \in asked

IInv == StreamOK(stream) /\ Content(stream) = written /\ ClockOK /\ CutsNamed

LEMMA ClockFacts ==
  /\ Clock \in Nat /\ Clock > 0 /\ FlushInterval \in Nat /\ FlushInterval > 0
  /\ Clock \div 2 \in Nat
  /\ \A n \in Nat : n % Clock \in 0 .. Clock - 1 /\ n % Clock <= n
<1>1. Clock \in Nat /\ FlushInterval \in Nat /\ FlushInterval > 0
  BY ClockAssumption
<1>2. Clock \div 2 \in Nat /\ FlushInterval < Clock \div 2
  BY ClockAssumption
<1>3. Clock > 0
  BY <1>1, <1>2
<1>4. \A n \in Nat : n % Clock \in 0 .. Clock - 1 /\ n % Clock <= n
  BY <1>1, <1>3
<1>5. QED
  BY <1>1, <1>2, <1>3, <1>4

\* flush() waits long enough, whatever the clock shows.
LEMMA WaitsLongEnough ==
  ASSUME ClockOK
  PROVE  Wait \in Nat /\ since + Wait >= FlushInterval
<1> USE ClockFacts DEF ClockOK
<1>1. CASE now < previousFlush
  <2>1. (now + Clock - now) % Clock = 0
    OBVIOUS
  <2>2. Wait = FlushInterval
    <3>1. SignedDiff(now, now) = 0
      <4>1. 0 < Clock \div 2
        BY ClockAssumption
      <4>2. QED
        BY <2>1, <4>1 DEF SignedDiff
    <3>2. QED
      BY <1>1, <3>1 DEF Wait
  <2>3. QED
    BY <2>2
<1>2. CASE ~(now < previousFlush)
  <2> DEFINE d == now - previousFlush
  <2>1. d \in 0 .. Clock - 1 /\ d <= since
    BY <1>2
  <2>2. (now + Clock - previousFlush) % Clock = d
    BY <1>2
  <2>3. SignedDiff(now, previousFlush) = IF d < Clock \div 2 THEN d ELSE d - Clock
    BY <2>2 DEF SignedDiff
  <2> DEFINE e == SignedDiff(now, previousFlush)
  <2>4. e \in Int /\ e <= since
    BY <2>1, <2>3
  <2>5. Wait = IF e < FlushInterval THEN FlushInterval - e ELSE 0
    BY <1>2 DEF Wait
  <2> HIDE DEF e, d
  <2>6. QED
    BY <2>4, <2>5
<1>3. QED
  BY <1>1, <1>2

\* What a call of the owner that leaves the stream t does to the clock.
LEMMA PassOK ==
  ASSUME ClockOK, NEW t, StreamOK(stream), StreamOK(t), Grown(stream, t),
         Pass(Len(t.sent) - Len(stream.sent))
  PROVE  /\ ClockOK'
         /\ t.sent # stream.sent => since + waited' >= FlushInterval
<1> DEFINE k == Len(t.sent) - Len(stream.sent)
<1>1. Len(t.sent) \in Nat /\ Len(stream.sent) \in Nat
  BY DEF StreamOK, StreamType
<1>2. CASE k = 0
  <2>1. t.sent = stream.sent
    BY <1>1, <1>2 DEF Grown
  <2>2. UNCHANGED <<now, previousFlush, since, waited>>
    BY <1>2 DEF Pass
  <2>3. QED
    BY <2>1, <2>2 DEF ClockOK
<1>3. CASE k # 0
  <2>1. k \in Nat /\ k - 1 \in Nat
    BY <1>1, <1>3 DEF Grown
  <2>2. Wait \in Nat /\ since + Wait >= FlushInterval
    BY WaitsLongEnough
  <2> DEFINE total == Wait + (k - 1) * FlushInterval
  <2>3. total \in Nat
    <3>1. \A a, f \in Nat : a * f \in Nat
      OBVIOUS
    <3>2. FlushInterval \in Nat
      BY ClockFacts
    <3>3. (k - 1) * FlushInterval \in Nat
      <4> HIDE DEF k
      <4>1. QED
        BY <2>1, <3>1, <3>2, Zenon
    <3>4. \A a, b \in Nat : a + b \in Nat
      OBVIOUS
    <3>5. QED
      BY <2>2, <3>3, <3>4, Zenon
  <2>4. /\ waited' = Wait /\ now' = (now + total) % Clock
        /\ previousFlush' = now' /\ since' = 0
    BY <1>3 DEF Pass
  <2> HIDE DEF total, k
  <2>5. now' \in 0 .. Clock - 1
    <3>1. now + total \in Nat
      BY <2>3, ClockFacts DEF ClockOK
    <3>2. QED
      BY <2>4, <3>1, ClockFacts
  <2>6. QED
    BY <2>2, <2>4, <2>5, ClockFacts DEF ClockOK
<1>4. QED
  BY <1>2, <1>3

LEMMA InitInv == Init => IInv
<1> SUFFICES ASSUME Init PROVE IInv
  OBVIOUS
<1>1. stream = [cache |-> <<>>, first |-> TRUE, cr |-> FALSE, prefix |-> Prefix,
                sent |-> <<>>]
  BY DEF Init, NewStream
<1>2. StreamOK(stream)
  <2>1. stream \in StreamType
    BY <1>1 DEF StreamType
  <2>2. SentOK(stream)
    BY <1>1 DEF SentOK
  <2>3. QED
    BY <1>1, <2>1, <2>2 DEF StreamOK
<1>3. Content(stream) = <<>>
  <2>1. Body(<<>>) = <<>>
    <3>1. Len(<<>>) = 0 /\ <<>> \in Seq(Text) /\ 0 <= Len(Prefix)
      BY PrefixType
    <3>2. QED
      BY <3>1, BodyType
  <2>2. Bodies(<<>>) = <<>>
    BY DEF Bodies
  <2>3. FlattenSeq(<<>>) = <<>>
    BY DEF FlattenSeq
  <2>4. QED
    BY <1>1, <2>1, <2>2, <2>3 DEF Content
<1>4. ClockOK
  BY ClockFacts DEF Init, ClockOK
<1>6. CutsNamed
  BY <1>1 DEF CutsNamed
<1>5. QED
  BY <1>2, <1>3, <1>4, <1>6 DEF IInv, Init

\* A step keeps the invariant, and a packet it sends has waited.
LEMMA Step ==
  ASSUME IInv, [Next]_vars
  PROVE  /\ IInv'
         /\ stream'.sent # stream.sent => since + waited' >= FlushInterval
<1> USE DEF IInv
<1>1. ASSUME NEW c \in Tokens, Write(c)
      PROVE  IInv' /\ (stream'.sent # stream.sent => since + waited' >= FlushInterval)
  <2> DEFINE t == Written(stream, c)
  <2>1. /\ StreamOK(t) /\ Grown(stream, t) /\ Content(t) = Append(Content(stream), c)
        /\ Extended(stream, t)
    BY WrittenOK
  <2>2. /\ stream' = t /\ Pass(Len(t.sent) - Len(stream.sent))
        /\ written' = Append(written, c) /\ asked' = asked
    BY <1>1 DEF Write, Use
  <2> HIDE DEF t
  <2>3. /\ ClockOK'
        /\ t.sent # stream.sent => since + waited' >= FlushInterval
    BY <2>1, <2>2, PassOK
  <2>4. StreamOK(stream') /\ Content(stream') = written'
    BY <2>1, <2>2
  <2>5. StreamOK(stream)' /\ Content(stream)' = written'
    BY <2>4 DEF StreamOK, SentOK, Content
  <2>7. CutsNamed'
    <3> SUFFICES ASSUME NEW k \in 1 .. Len(t.sent), t.sent[k][Len(t.sent[k])] = CR
                 PROVE  Len(t.sent[k]) = CacheSize \/ k \in asked
      BY <2>2 DEF CutsNamed
    <3>1. Len(stream.sent) \in Nat /\ Len(t.sent) \in Nat
      BY <2>1 DEF StreamOK, StreamType
    <3>2. CASE k \in 1 .. Len(stream.sent)
      BY <2>1, <3>2 DEF CutsNamed, Extended, Kept
    <3>3. CASE k \in Len(stream.sent) + 1 .. Len(t.sent)
      BY <2>1, <3>3 DEF Extended, Whole
    <3>4. QED
      BY <3>1, <3>2, <3>3
  <2>6. QED
    BY <2>2, <2>3, <2>5, <2>7
<1>2. CASE Flush
  <2> DEFINE t == Flushed(stream)
  <2>1. /\ StreamOK(t) /\ Grown(stream, t) /\ Content(t) = Content(stream)
        /\ Kept(stream, t)
    BY FlushedOK
  <2>2. /\ stream' = t /\ Pass(Len(t.sent) - Len(stream.sent)) /\ written' = written
        /\ asked' = asked \union (Len(stream.sent) + 1 .. Len(t.sent))
    BY <1>2 DEF Flush, Use
  <2> HIDE DEF t
  <2>3. /\ ClockOK'
        /\ t.sent # stream.sent => since + waited' >= FlushInterval
    BY <2>1, <2>2, PassOK
  <2>4. StreamOK(stream') /\ Content(stream') = written'
    BY <2>1, <2>2
  <2>5. StreamOK(stream)' /\ Content(stream)' = written'
    BY <2>4 DEF StreamOK, SentOK, Content
  <2>7. CutsNamed'
    <3> SUFFICES ASSUME NEW k \in 1 .. Len(t.sent), t.sent[k][Len(t.sent[k])] = CR
                 PROVE  Len(t.sent[k]) = CacheSize \/ k \in asked'
      BY <2>2 DEF CutsNamed
    <3>1. Len(stream.sent) \in Nat /\ Len(t.sent) \in Nat
      BY <2>1 DEF StreamOK, StreamType
    <3>2. CASE k \in 1 .. Len(stream.sent)
      BY <2>1, <2>2, <3>2 DEF CutsNamed, Kept
    <3>3. CASE k \in Len(stream.sent) + 1 .. Len(t.sent)
      BY <2>2, <3>3
    <3>4. QED
      BY <3>1, <3>2, <3>3
  <2>6. QED
    BY <2>2, <2>3, <2>5, <2>7
<1>3. CASE Tick
  <2>1. UNCHANGED <<stream, previousFlush, waited, written, asked>>
    BY <1>3 DEF Tick
  <2>2. /\ now' = (now + 1) % Clock /\ since' = since + 1
        /\ now + 1 \in Nat
    BY <1>3, ClockFacts DEF Tick, ClockOK
  <2>3. now' \in 0 .. Clock - 1 /\ now' <= now + 1
    BY <2>2, ClockFacts
  <2>4. ClockOK'
    BY <2>1, <2>2, <2>3, ClockFacts DEF ClockOK
  <2>5. StreamOK(stream)' /\ Content(stream)' = written' /\ CutsNamed'
    BY <2>1 DEF CutsNamed
  <2>6. QED
    BY <2>1, <2>4, <2>5
<1>4. CASE UNCHANGED vars
  <2>1. UNCHANGED <<stream, now, previousFlush, since, waited, written, asked>>
    BY <1>4 DEF vars
  <2>2. ClockOK' /\ CutsNamed'
    BY <2>1 DEF ClockOK, CutsNamed
  <2>3. QED
    BY <2>1, <2>2
<1>5. QED
  BY <1>1, <1>2, <1>3, <1>4 DEF Next

LEMMA NextInv == IInv /\ [Next]_vars => IInv'
BY Step

LEMMA Invariance == Spec => []IInv
BY InitInv, NextInv, PTL DEF Spec

\* Nothing is lost, doubled or reordered, every packet begins with the prefix and
\* the buffer the owner lent is never overrun: for any prefix that the cache has
\* room for, any cache and texts of any length.
THEOREM TextArrives == Spec => []NothingLost
<1>1. IInv => NothingLost
  <2> SUFFICES ASSUME IInv PROVE NothingLost
    OBVIOUS
  <2>1. /\ stream \in StreamType /\ SentOK(stream) /\ Content(stream) = written
        /\ stream.cache # <<>> => Growing(stream)
    BY DEF IInv, StreamOK
  <2>2. DOMAIN stream.sent = 1 .. Len(stream.sent)
    BY <2>1 DEF StreamType
  <2>3. \A p \in {stream.cache} \union Range(stream.sent) : Len(p) <= CacheSize
    <3>1. Len(stream.cache) <= CacheSize
      <4>1. Len(<<>>) = 0 /\ 0 <= CacheSize
        BY PrefixType
      <4>2. QED
        BY <2>1, <4>1 DEF Growing
    <3>2. \A p \in Range(stream.sent) : Len(p) <= CacheSize
      BY <2>1, <2>2 DEF Range, SentOK, Packet
    <3>3. QED
      BY <3>1, <3>2
  <2>4. \A k \in DOMAIN stream.sent : IsPrefix(Prefix, stream.sent[k])
    BY <2>1, <2>2 DEF SentOK, Packet
  <2>5. stream.cache # <<>> => IsPrefix(Prefix, stream.cache)
    BY <2>1 DEF Growing
  <2>6. QED
    BY <2>1, <2>3, <2>4, <2>5 DEF NothingLost, Content, Bodies
<1>2. QED
  BY <1>1, Invariance, PTL

\* Where a frame ends its packet ends and is sent, wherever the cache fills and
\* the owner flushes, with the one exception the property names: a CR that was the
\* last token of a full or flushed packet.
THEOREM FramesApart == Spec => []FrameEndSendsPacket
<1>1. IInv => FrameEndSendsPacket
  <2> DEFINE n == Len(stream.sent)
             m == Len(Prefix)
  <2> SUFFICES ASSUME IInv, NEW k \in DOMAIN Packets,
                      NEW j \in m + 1 .. Len(Packets[k]), EndsFrame(k, j)
               PROVE  \/ k <= n /\ j = Len(Packets[k])
                      \/ /\ j = m + 1
                         /\ Len(Packets[k - 1]) = CacheSize \/ k - 1 \in asked
    BY DEF FrameEndSendsPacket
  <2>1. /\ stream \in StreamType /\ SentOK(stream) /\ CutsNamed
        /\ stream.cache # <<>> => Growing(stream)
    BY DEF IInv, StreamOK
  <2>2. /\ stream.sent \in Seq(Seq(Text)) /\ stream.cache \in Seq(Text)
        /\ n \in Nat /\ m \in Nat
    BY <2>1, PrefixType DEF StreamType
  <2>3. /\ DOMAIN Packets = 1 .. n + 1 /\ Packets[n + 1] = stream.cache
        /\ \A i \in 1 .. n : Packets[i] = stream.sent[i]
        /\ Packets \in Seq(Seq(Text))
    BY <2>2, AppendProperties DEF Packets
  <2>4. k \in 1 .. n + 1 /\ Packets[k] \in Seq(Text) /\ Len(Packets[k]) \in Nat
    BY <2>2, <2>3
  <2>5. CASE j = m + 1
    <3>1. k > 1 /\ Last(Packets[k - 1]) = CR
      BY <2>5 DEF EndsFrame
    <3>2. k - 1 \in 1 .. n
      BY <2>2, <2>4, <3>1
    <3>3. Packets[k - 1] = stream.sent[k - 1]
      BY <2>3, <3>2
    <3>4. stream.sent[k - 1][Len(stream.sent[k - 1])] = CR
      BY <3>1, <3>3 DEF Last
    <3>5. QED
      BY <2>1, <2>5, <3>2, <3>3, <3>4 DEF CutsNamed
  <2>6. CASE j # m + 1
    <3>1. j - 1 \in 1 .. Len(Packets[k]) - 1 /\ j - 1 + 1 = j
      BY <2>2, <2>4, <2>6
    <3>2. FrameEndAt(Packets[k], j - 1)
      BY <2>6, <3>1 DEF EndsFrame, FrameEndAt
    <3>3. CASE k \in 1 .. n
      <4>1. \A i \in 1 .. Len(Packets[k]) - 2 : ~FrameEndAt(Packets[k], i)
        BY <2>1, <2>3, <3>3 DEF SentOK, Packet
      <4>2. ~(j - 1 \in 1 .. Len(Packets[k]) - 2)
        BY <3>2, <4>1
      <4>3. j = Len(Packets[k])
        BY <2>2, <2>4, <3>1, <4>2
      <4>4. QED
        BY <2>2, <3>3, <4>3
    <3>4. CASE k = n + 1
      <4>1. Packets[k] = stream.cache /\ stream.cache # <<>>
        <5>1. Len(<<>>) = 0 /\ Len(Packets[k]) # 0
          BY <2>2, <2>4
        <5>2. QED
          BY <2>3, <3>4, <5>1
      <4>2. ~FrameEndAt(Packets[k], j - 1)
        BY <2>1, <3>1, <4>1 DEF Growing
      <4>3. QED
        BY <3>2, <4>2
    <3>5. QED
      BY <2>2, <2>4, <3>3, <3>4
  <2>7. QED
    BY <2>5, <2>6
<1>2. QED
  BY <1>1, Invariance, PTL

\* Two packets are at least the interval apart, for any clock and however often
\* it wraps.
THEOREM PacketsPaced == Spec => Paced
<1>1. IInv /\ [Next]_vars =>
        [stream'.sent # stream.sent => since + waited' >= FlushInterval]_vars
  BY Step
<1>2. QED
  BY <1>1, Invariance, PTL DEF Spec, Paced
=============================================================================
