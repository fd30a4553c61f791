------------------------- MODULE ServerConfig_proofs -------------------------
(***************************************************************************)
(* For every command line, every set of texts and every width of an int:   *)
(* the numbers are ints, the lists and the port are the ones given, and    *)
(* only the interval can be rejected.  The folds of the model and of its   *)
(* properties are unrolled by the induction principles of DataLemmas.      *)
(***************************************************************************)
EXTENDS ServerConfig, DataLemmas, SequenceTheorems

-----------------------------------------------------------------------------
(* FlattenSeq.                                                             *)

\* V has the sequences over a set, and seqs is a list of n of them.
IsSeqs(V) == /\ <<>> \in V
             /\ \A u, v \in V : u \o v \in V
             /\ \A v \in V : <<>> \o v = v
IsList(seqs, n, V) == Len(seqs) = n /\ \A k \in 1 .. n : seqs[k] \in V

\* g concatenates along the prefixes of seqs.
IsFlattening(g, seqs, n, V) ==
    /\ g \in [0 .. n -> V]
    /\ g[0] = <<>>
    /\ \A k \in 1 .. n : g[k] = g[k - 1] \o seqs[k]
    /\ FlattenSeq(seqs) = g[n]

LEMMA SeqIsSeqs == ASSUME NEW X PROVE IsSeqs(Seq(X))
BY ConcatProperties, ConcatEmptySeq DEF IsSeqs

\* FlattenSeq does.
LEMMA FlattenFold ==
    ASSUME NEW V, IsSeqs(V), NEW n \in Nat, n # 0, NEW seqs, IsList(seqs, n, V)
    PROVE  \E g : IsFlattening(g, seqs, n, V)
<1>0. PICK empty : empty = <<>>
  OBVIOUS
<1>a. empty \in V /\ (\A u, v \in V : u \o v \in V) /\ \A v \in V : empty \o v = v
  BY <1>0 DEF IsSeqs
<1>b. Len(seqs) = n /\ \A k \in 1 .. n : seqs[k] \in V
  BY DEF IsList
<1> DEFINE h == [k \in 1 .. n |-> [v \in V |-> v \o seqs[k]]]
           Body(f) == [i \in 1 .. n |-> IF i = 1 THEN seqs[i] ELSE f[i - 1] \o seqs[i]]
           flatten == CHOOSE f : f = Body(f)
<1>1. Steps(h, n, V)
  BY <1>a, <1>b DEF Steps
<1>2. PICK g : IsRun(g, h, n, V, empty)
  <2> HIDE DEF h
  <2> QED BY <1>1, <1>a, RunExists
<1>2a. g \in [0 .. n -> V] /\ g[0] = empty /\ \A k \in 1 .. n : g[k] = h[k][g[k - 1]]
  <2> HIDE DEF h
  <2> QED BY <1>2 DEF IsRun
<1>3. \A k \in 1 .. n : k - 1 \in 0 .. n
  OBVIOUS
<1>4. ASSUME NEW k \in 1 .. n
      PROVE  g[k - 1] \in V /\ g[k] = g[k - 1] \o seqs[k]
  <2>1. g[k - 1] \in V
    BY <1>2a, <1>3
  <2>2. h[k] = [v \in V |-> v \o seqs[k]]
    OBVIOUS
  <2> HIDE DEF h
  <2> QED BY <1>2a, <2>1, <2>2
<1>5. ASSUME NEW k \in 1 .. n
      PROVE  g[k] = IF k = 1 THEN seqs[k] ELSE g[k - 1] \o seqs[k]
  <2>1. k = 1 => g[k - 1] = empty
    BY <1>2a
  <2> QED BY <1>4, <1>a, <1>b, <2>1
<1> DEFINE f == [i \in 1 .. n |-> g[i]]
<1>6. \A i \in 1 .. n : i # 1 => i - 1 \in 1 .. n
  OBVIOUS
<1>7. f = Body(f)
  <2>1. \A i \in 1 .. n : f[i] = IF i = 1 THEN seqs[i] ELSE f[i - 1] \o seqs[i]
    BY <1>5, <1>6
  <2> QED BY <2>1
<1>8. flatten = Body(flatten)
  <2> HIDE DEF Body, f
  <2> QED BY <1>7
<1>9. FlattenSeq(seqs) = flatten[n]
  BY <1>b DEF FlattenSeq
<1> DEFINE S == {i \in 0 .. n : i # 0 => flatten[i] = g[i]}
<1> HIDE DEF flatten
<1>10. 0 \in S
  OBVIOUS
<1>11. ASSUME NEW k \in 1 .. n, k - 1 \in S PROVE k \in S
  <2>1. flatten[k] = IF k = 1 THEN seqs[k] ELSE flatten[k - 1] \o seqs[k]
    BY <1>8
  <2>2. k # 1 => flatten[k - 1] = g[k - 1]
    BY <1>11
  <2>3. k \in 0 .. n
    OBVIOUS
  <2>4. flatten[k] = g[k]
    BY <1>5, <2>1, <2>2
  <2> QED BY <2>3, <2>4
<1>12. 0 .. n \subseteq S
  <2>1. \A k \in 1 .. n : k - 1 \in S => k \in S
    BY <1>11
  <2> HIDE DEF S
  <2> QED BY <1>10, <2>1, IntervalInduction
<1>13. flatten[n] = g[n]
  BY <1>12
<1> QED BY <1>0, <1>2a, <1>4, <1>9, <1>13 DEF IsFlattening

\* One more sequence is one more concatenation.
LEMMA FlattenLonger ==
    ASSUME NEW V, IsSeqs(V), NEW n \in Nat, n # 0, NEW seqs, IsList(seqs, n, V),
           NEW longer, IsList(longer, n + 1, V), \A k \in 1 .. n : longer[k] = seqs[k]
    PROVE  /\ FlattenSeq(seqs) \in V
           /\ FlattenSeq(longer) = FlattenSeq(seqs) \o longer[n + 1]
<1>1. PICK g : IsFlattening(g, seqs, n, V)
  BY FlattenFold
<1>2. PICK m \in Nat : m = n + 1 /\ m # 0 /\ IsList(longer, m, V)
  OBVIOUS
<1>3. PICK f : IsFlattening(f, longer, m, V)
  BY <1>2, FlattenFold
<1> USE DEF IsFlattening
<1> DEFINE S == {k \in 0 .. n : f[k] = g[k]}
<1>5. 0 \in S
  BY <1>1, <1>3
<1>6. ASSUME NEW k \in 1 .. n, k - 1 \in S PROVE k \in S
  <2>1. k \in 1 .. m /\ k \in 0 .. n
    BY <1>2
  <2>2. f[k] = f[k - 1] \o longer[k] /\ g[k] = g[k - 1] \o seqs[k]
    BY <1>1, <1>3, <2>1
  <2>3. f[k - 1] = g[k - 1] /\ longer[k] = seqs[k]
    BY <1>6
  <2> QED BY <2>1, <2>2, <2>3
<1>7. 0 .. n \subseteq S
  <2>1. \A k \in 1 .. n : k - 1 \in S => k \in S
    BY <1>6
  <2> HIDE DEF S
  <2> QED BY <1>5, <2>1, IntervalInduction
<1>8. f[n] = g[n] /\ g[n] \in V
  <2>1. n \in 0 .. n
    OBVIOUS
  <2> QED BY <1>1, <1>7, <2>1
<1>9. f[m] = f[n] \o longer[m]
  <2>1. m \in 1 .. m /\ m - 1 = n
    BY <1>2
  <2> QED BY <1>3, <2>1
<1> QED BY <1>1, <1>2, <1>3, <1>8, <1>9

\* Nothing and one sequence, flattened.
LEMMA FlattenShort ==
    ASSUME NEW X, NEW one \in Seq(X)
    PROVE  FlattenSeq(<<>>) = <<>> /\ FlattenSeq(<<one>>) = one
<1>1. FlattenSeq(<<>>) = <<>>
  BY DEF FlattenSeq
<1>2. PICK V, seqs, n : V = Seq(X) /\ seqs = <<one>> /\ n = 1
  OBVIOUS
<1>3. IsSeqs(V) /\ n \in Nat /\ n # 0
  BY <1>2, SeqIsSeqs
<1>4. IsList(seqs, n, V)
  BY <1>2 DEF IsList
<1>5. PICK g : IsFlattening(g, seqs, n, V)
  BY <1>3, <1>4, FlattenFold
<1>6. g[1] = g[0] \o seqs[1] /\ g[0] = <<>> /\ FlattenSeq(seqs) = g[1]
  BY <1>2, <1>5 DEF IsFlattening
<1>7. seqs[1] = one /\ <<>> \o one = one
  BY <1>2, ConcatEmptySeq
<1> QED BY <1>1, <1>2, <1>6, <1>7

LEMMA FlattenAppend ==
    ASSUME NEW X, NEW seqs \in Seq(Seq(X)), NEW last \in Seq(X)
    PROVE  /\ FlattenSeq(seqs) \in Seq(X)
           /\ FlattenSeq(Append(seqs, last)) = FlattenSeq(seqs) \o last
<1>1. CASE seqs = <<>>
  <2>1. Append(seqs, last) = <<last>> /\ <<>> \o last = last /\ <<>> \in Seq(X)
    BY <1>1, ConcatEmptySeq
  <2> QED BY <1>1, <2>1, FlattenShort
<1>2. CASE seqs # <<>>
  <2>1. PICK V, longer, n : V = Seq(X) /\ longer = Append(seqs, last) /\ n = Len(seqs)
    OBVIOUS
  <2>2. IsSeqs(V)
    BY <2>1, SeqIsSeqs
  <2>3. n \in Nat /\ n # 0 /\ Len(longer) = n + 1
    BY <1>2, <2>1, EmptySeq, LenProperties, AppendProperties
  <2>4. IsList(seqs, n, V)
    BY <2>1, ElementOfSeq DEF IsList
  <2>5. /\ \A k \in 1 .. n : longer[k] = seqs[k]
        /\ longer[n + 1] = last /\ last \in V
    BY <2>1, AppendProperties
  <2>6. IsList(longer, n + 1, V)
    <3>1. \A k \in 1 .. n + 1 : k = n + 1 \/ k \in 1 .. n
      BY <2>3
    <3>2. \A k \in 1 .. n : seqs[k] \in V
      BY <2>4 DEF IsList
    <3> QED BY <2>3, <2>5, <3>1, <3>2 DEF IsList
  <2>7. FlattenSeq(seqs) \in V /\ FlattenSeq(longer) = FlattenSeq(seqs) \o longer[n + 1]
    BY ONLY <2>2, <2>3, <2>4, <2>5, <2>6, FlattenLonger
  <2> QED BY <2>1, <2>5, <2>7
<1> QED BY <1>1, <1>2

-----------------------------------------------------------------------------
(* A sequence mapped to sequences, and flattened.                          *)

\* F maps the elements of X to sequences over Y.
Pieces(F, X, Y) == \A x \in X : F[x] \in Seq(Y)
MapFlatten(F, s) == FlattenSeq([k \in DOMAIN s |-> F[s[k]]])

LEMMA MapFlattenEmpty == ASSUME NEW F PROVE MapFlatten(F, <<>>) = <<>>
<1>1. [k \in DOMAIN <<>> |-> F[<<>>[k]]] = <<>>
  <2>1. DOMAIN <<>> = 1 .. 0
    OBVIOUS
  <2> QED BY <2>1
<1>2. FlattenSeq(<<>>) = <<>>
  BY EmptySeq, FlattenShort
<1> QED BY <1>1, <1>2 DEF MapFlatten

LEMMA MapFlattenAppend ==
    ASSUME NEW X, NEW Y, NEW F, Pieces(F, X, Y), NEW s \in Seq(X), NEW x \in X
    PROVE  /\ MapFlatten(F, s) \in Seq(Y)
           /\ MapFlatten(F, Append(s, x)) = MapFlatten(F, s) \o F[x]
<1> DEFINE seqs == [k \in DOMAIN s |-> F[s[k]]]
           t == Append(s, x)
           longer == [k \in DOMAIN t |-> F[t[k]]]
<1>1. /\ Len(s) \in Nat /\ DOMAIN s = 1 .. Len(s)
      /\ \A k \in 1 .. Len(s) : s[k] \in X
  BY LenProperties, ElementOfSeq
<1>2. /\ t \in Seq(X) /\ Len(t) = Len(s) + 1 /\ DOMAIN t = 1 .. Len(s) + 1
      /\ \A k \in 1 .. Len(s) : t[k] = s[k]
      /\ t[Len(s) + 1] = x
  <2>1. t \in Seq(X) /\ Len(t) = Len(s) + 1
    BY AppendProperties
  <2>2. DOMAIN t = 1 .. Len(t)
    BY <2>1, LenProperties
  <2> QED BY <2>1, <2>2, AppendProperties
<1>3. PICK n \in Nat : n = Len(s)
  BY <1>1
<1>4. PICK Z : Z = Seq(Y)
  OBVIOUS
<1>5. seqs \in Seq(Z) /\ Len(seqs) = n /\ F[x] \in Z
  <2>1. \A k \in 1 .. n : F[s[k]] \in Z
    BY <1>1, <1>3, <1>4 DEF Pieces
  <2> QED BY <1>1, <1>3, <1>4, <2>1 DEF Pieces
<1>6. longer \in Seq(Z) /\ Len(longer) = n + 1
  <2>1. \A k \in 1 .. n + 1 : k \in 1 .. n \/ k = n + 1
    OBVIOUS
  <2>2. \A k \in 1 .. n + 1 : t[k] \in X
    BY <1>1, <1>2, <1>3, <2>1
  <2>3. \A k \in 1 .. n + 1 : F[t[k]] \in Z
    BY <2>2, <1>4 DEF Pieces
  <2> HIDE DEF t
  <2> QED BY <1>2, <1>3, <2>3
<1>7. PICK app : app = Append(seqs, F[x])
  OBVIOUS
<1>8. /\ app \in Seq(Z) /\ Len(app) = n + 1
      /\ \A k \in 1 .. n : app[k] = seqs[k]
      /\ app[n + 1] = F[x]
  <2> HIDE DEF seqs
  <2> QED BY <1>5, <1>7, AppendProperties
<1>9. \A k \in 1 .. n + 1 : app[k] = longer[k]
  <2>1. \A k \in 1 .. n + 1 : k \in 1 .. n \/ k = n + 1
    OBVIOUS
  <2>2. ASSUME NEW k \in 1 .. n PROVE app[k] = longer[k]
    <3>1. k \in DOMAIN t /\ k \in DOMAIN s /\ t[k] = s[k]
      BY <1>1, <1>2, <1>3
    <3>2. longer[k] = F[t[k]] /\ seqs[k] = F[s[k]]
      BY <3>1
    <3> QED BY <1>8, <3>1, <3>2
  <2>3. app[n + 1] = longer[n + 1]
    <3>1. n + 1 \in DOMAIN t /\ t[n + 1] = x
      BY <1>2, <1>3
    <3> QED BY <1>8, <3>1
  <2> QED BY <2>1, <2>2, <2>3
<1> HIDE DEF longer, seqs, t
<1>10. app = longer
  BY <1>6, <1>8, <1>9, SeqEqual
<1>11. FlattenSeq(seqs) \in Seq(Y) /\ FlattenSeq(app) = FlattenSeq(seqs) \o F[x]
  BY <1>4, <1>5, <1>7, FlattenAppend
<1>12. MapFlatten(F, s) = FlattenSeq(seqs) /\ MapFlatten(F, t) = FlattenSeq(longer)
  BY DEF MapFlatten, seqs, longer
<1> QED BY <1>10, <1>11, <1>12 DEF t

LEMMA MapFlattenConcat ==
    ASSUME NEW X, NEW Y, NEW F, Pieces(F, X, Y), NEW s \in Seq(X), NEW t \in Seq(X)
    PROVE  MapFlatten(F, s \o t) = MapFlatten(F, s) \o MapFlatten(F, t)
<1>1. PICK n \in Nat : n = Len(t)
  BY LenProperties
<1> DEFINE pre(k) == SubSeq(t, 1, k)
           S == {k \in 0 .. n :
                   MapFlatten(F, s \o pre(k)) = MapFlatten(F, s) \o MapFlatten(F, pre(k))}
<1>2. ASSUME NEW k \in 0 .. n PROVE pre(k) \in Seq(X)
  <2>1. \A i \in 1 .. k : t[i] \in X
    BY <1>1, ElementOfSeq
  <2> QED BY <2>1, SubSeqProperties
<1>3. \A u \in Seq(X) : MapFlatten(F, u) \in Seq(Y)
  <2>1. CASE X = {}
    <3>1. ASSUME NEW u \in Seq(X) PROVE u = <<>>
      <4>1. u # <<>> => Head(u) \in X
        BY HeadTailProperties
      <4> QED BY <2>1, <4>1
    <3> QED BY <3>1, MapFlattenEmpty, EmptySeq
  <2>2. CASE X # {}
    BY <2>2, MapFlattenAppend
  <2> QED BY <2>1, <2>2
<1>4. 0 \in S
  <2>1. pre(0) = <<>>
    BY SubSeqEmpty
  <2>2. s \o <<>> = s /\ MapFlatten(F, s) \o <<>> = MapFlatten(F, s)
    BY <1>3, ConcatEmptySeq
  <2>3. MapFlatten(F, <<>>) = <<>>
    BY MapFlattenEmpty
  <2>4. 0 \in 0 .. n
    OBVIOUS
  <2> QED BY <2>1, <2>2, <2>3, <2>4
<1>5. ASSUME NEW k \in 1 .. n, k - 1 \in S PROVE k \in S
  <2>1. PICK p, q, x : p = pre(k - 1) /\ q = pre(k) /\ x = t[k]
    OBVIOUS
  <2>2. k - 1 \in 0 .. n /\ k \in 0 .. n
    OBVIOUS
  <2>3. p \in Seq(X) /\ q \in Seq(X) /\ x \in X
    BY <1>1, <1>2, <2>1, <2>2, ElementOfSeq
  <2>4. q = p \o <<x>>
    <3>1. 1 \in 1 .. Len(t) /\ k \in 1 .. Len(t)
      BY <1>1
    <3> QED BY <2>1, <3>1, SubSeqRecursiveSecond
  <2>5. q = Append(p, x)
    BY <2>3, <2>4, AppendIsConcat
  <2>6. s \o q = Append(s \o p, x)
    <3>1. <<x>> \in Seq(X)
      BY <2>3
    <3>2. s \o p \in Seq(X) /\ (s \o p) \o <<x>> = s \o (p \o <<x>>)
      BY <2>3, <3>1, ConcatProperties, ConcatAssociative
    <3>3. Append(s \o p, x) = (s \o p) \o <<x>>
      BY <2>3, <3>2, AppendIsConcat
    <3> QED BY <2>4, <3>2, <3>3
  <2>7. MapFlatten(F, s \o q) = MapFlatten(F, s \o p) \o F[x]
    <3>1. PICK sp \in Seq(X) : sp = s \o p
      BY <2>3, ConcatProperties
    <3>2. s \o q = Append(sp, x)
      BY <2>6, <3>1
    <3>3. MapFlatten(F, Append(sp, x)) = MapFlatten(F, sp) \o F[x]
      <4>1. sp \in Seq(X) /\ x \in X
        BY <2>3, <3>1
      <4>2. Pieces(F, X, Y)
        OBVIOUS
      <4> QED BY ONLY <4>1, <4>2, MapFlattenAppend
    <3> QED BY <3>1, <3>2, <3>3
  <2>8. MapFlatten(F, q) = MapFlatten(F, p) \o F[x]
    BY <2>3, <2>5, MapFlattenAppend
  <2>9. MapFlatten(F, s \o p) = MapFlatten(F, s) \o MapFlatten(F, p)
    BY <1>5, <2>1
  <2>10. F[x] \in Seq(Y) /\ MapFlatten(F, s) \in Seq(Y) /\ MapFlatten(F, p) \in Seq(Y)
    BY <1>3, <2>3 DEF Pieces
  <2>11. (MapFlatten(F, s) \o MapFlatten(F, p)) \o F[x]
         = MapFlatten(F, s) \o (MapFlatten(F, p) \o F[x])
    <3>1. PICK a, b, c : a = MapFlatten(F, s) /\ b = MapFlatten(F, p) /\ c = F[x]
      OBVIOUS
    <3>2. a \in Seq(Y) /\ b \in Seq(Y) /\ c \in Seq(Y)
      BY <2>10, <3>1
    <3>3. (a \o b) \o c = a \o (b \o c)
      BY ONLY <3>2, ConcatAssociative
    <3> QED BY <3>1, <3>3
  <2> QED BY <2>1, <2>2, <2>7, <2>8, <2>9, <2>11
<1>6. n \in S
  <2>1. \A k \in 1 .. n : k - 1 \in S => k \in S
    BY <1>5
  <2> HIDE DEF S
  <2>2. 0 .. n \subseteq S
    BY <1>4, <2>1, IntervalInduction
  <2> QED BY <2>2
<1>7. pre(n) = t
  BY <1>1, SubSeqFull
<1> QED BY <1>6, <1>7

-----------------------------------------------------------------------------
(* The lists.                                                              *)

\* All the names that are given, or stand in for those not given.
AllNames == UNION {Range(text) : text \in ListTexts \cup {DefaultExchanges, DefaultInstruments}}

LEMMA ListTypes ==
    /\ \A text \in ListTexts : text \in Seq(AllNames) /\ text # <<>>
    /\ DefaultExchanges \in Seq(AllNames) /\ DefaultExchanges # <<>>
    /\ DefaultInstruments \in Seq(AllNames) /\ DefaultInstruments # <<>>
<1>1. ASSUME NEW text \in ListTexts \cup {DefaultExchanges, DefaultInstruments}
      PROVE  text \in Seq(AllNames)
  <2>1. text \in Seq(Range(text))
    BY ConfigAssumption
  <2>2. Range(text) \subseteq AllNames
    BY DEF AllNames
  <2> QED BY <2>1, <2>2, SeqMonotonic
<1> QED BY <1>1, ConfigAssumption

\* What NonEmpty keeps of a name.
Kept == [name \in AllNames |-> IF name = EmptyName THEN <<>> ELSE <<name>>]

LEMMA KeptPieces == Pieces(Kept, AllNames, AllNames)
BY DEF Pieces, Kept

LEMMA NonEmptyMap ==
    ASSUME NEW names \in Seq(AllNames) PROVE NonEmpty(names) = MapFlatten(Kept, names)
<1>1. DOMAIN names = 1 .. Len(names) /\ \A k \in 1 .. Len(names) : names[k] \in AllNames
  BY LenProperties, ElementOfSeq
<1>2. \A k \in DOMAIN names :
          Kept[names[k]] = IF names[k] = EmptyName THEN <<>> ELSE <<names[k]>>
  BY <1>1 DEF Kept
<1>3. [k \in DOMAIN names |-> Kept[names[k]]]
      = [k \in DOMAIN names |-> IF names[k] = EmptyName THEN <<>> ELSE <<names[k]>>]
  BY <1>2
<1> QED BY <1>3 DEF NonEmpty, MapFlatten

\* The names kept of two lists are those kept of the first, then of the second.
LEMMA NonEmptyConcat ==
    ASSUME NEW s \in Seq(AllNames), NEW t \in Seq(AllNames)
    PROVE  NonEmpty(s \o t) = NonEmpty(s) \o NonEmpty(t)
<1>1. PICK st : st = s \o t
  OBVIOUS
<1>2. st \in Seq(AllNames)
  BY <1>1, ConcatProperties
<1>3. MapFlatten(Kept, s \o t) = MapFlatten(Kept, s) \o MapFlatten(Kept, t)
  BY KeptPieces, MapFlattenConcat
<1> QED BY <1>1, <1>2, <1>3, NonEmptyMap

LEMMA NonEmptyEmpty == NonEmpty(<<>>) = <<>>
BY EmptySeq, NonEmptyMap, MapFlattenEmpty

\* std::getline loses no name but an empty one.
LEMMA NamesKept ==
    ASSUME NEW text \in ListTexts
    PROVE  Names(text) \in Seq(AllNames) /\ NonEmpty(Names(text)) = NonEmpty(text)
<1>1. text \in Seq(AllNames) /\ text # <<>>
  BY ListTypes
<1>2. PICK n \in Nat : n = Len(text) /\ n # 0
  BY <1>1, EmptySeq
<1>3. CASE text[n] = EmptyName
  <2>1. PICK front : front = SubSeq(text, 1, n - 1)
    OBVIOUS
  <2>2. Names(text) = front
    BY <1>2, <1>3, <2>1 DEF Names, Last, Front
  <2>3. front \in Seq(AllNames)
    <3>1. \A i \in 1 .. n - 1 : text[i] \in AllNames
      BY <1>1, <1>2, ElementOfSeq
    <3> QED BY <2>1, <3>1, SubSeqProperties
  <2>4. text[n] \in AllNames
    BY <1>1, <1>2, ElementOfSeq
  <2>5. text = Append(front, text[n])
    <3>1. 1 \in 1 .. Len(text) /\ n \in 1 .. Len(text)
      BY <1>2
    <3>2. SubSeq(text, 1, n) = SubSeq(text, 1, n - 1) \o <<text[n]>>
      BY <1>1, <3>1, SubSeqRecursiveSecond
    <3>3. SubSeq(text, 1, n) = text
      BY <1>1, <1>2, SubSeqFull
    <3>4. Append(front, text[n]) = front \o <<text[n]>>
      BY <2>3, <2>4, AppendIsConcat
    <3> QED BY <2>1, <3>2, <3>3, <3>4
  <2>6. PICK last : last = text[n]
    OBVIOUS
  <2>7. MapFlatten(Kept, Append(front, last)) = MapFlatten(Kept, front) \o Kept[last]
    <3>1. last \in AllNames
      BY <2>4, <2>6
    <3>2. Pieces(Kept, AllNames, AllNames)
      BY KeptPieces
    <3> QED BY ONLY <2>3, <3>1, <3>2, MapFlattenAppend
  <2>8. MapFlatten(Kept, front) \in Seq(AllNames)
    BY <2>3, <2>4, KeptPieces, MapFlattenAppend
  <2>9. Kept[last] = <<>>
    BY <1>3, <2>4, <2>6 DEF Kept
  <2>10. MapFlatten(Kept, front) \o <<>> = MapFlatten(Kept, front)
    BY <2>8, ConcatEmptySeq
  <2> QED BY <1>1, <2>2, <2>3, <2>5, <2>6, <2>7, <2>9, <2>10, NonEmptyMap
<1>4. CASE text[n] # EmptyName
  BY <1>1, <1>2, <1>4 DEF Names, Last
<1> QED BY <1>3, <1>4

-----------------------------------------------------------------------------
(* The arguments.                                                          *)

\* What an argument may be.
Arguments ==
    [option : {"interval_ms", "grpc_port"}, text : NumberTexts]
        \cup [option : {"exchanges", "instruments"}, text : ListTexts]
        \cup [option : {"other"}, text : {<<>>}]

TextsFor(option) == {arg.text : arg \in {a \in Arguments : a.option = option}}

\* The texts given for an option in some arguments.
TextsIn(option, args) ==
    FlattenSeq([k \in DOMAIN args |->
                   IF args[k].option = option THEN <<args[k].text>> ELSE <<>>])

\* What TextsIn takes of an argument.
Taken(option) == [arg \in Arguments |-> IF arg.option = option THEN <<arg.text>> ELSE <<>>]

LEMMA TakenPieces ==
    ASSUME NEW option PROVE Pieces(Taken(option), Arguments, TextsFor(option))
<1> SUFFICES ASSUME NEW arg \in Arguments
             PROVE  Taken(option)[arg] \in Seq(TextsFor(option))
  BY DEF Pieces
<1>1. arg.option = option => arg.text \in TextsFor(option)
  BY DEF TextsFor
<1>2. Taken(option)[arg] = IF arg.option = option THEN <<arg.text>> ELSE <<>>
  BY DEF Taken
<1> QED BY <1>1, <1>2

LEMMA TextsMap ==
    ASSUME NEW option, NEW args \in Seq(Arguments)
    PROVE  TextsIn(option, args) = MapFlatten(Taken(option), args)
<1>1. DOMAIN args = 1 .. Len(args) /\ \A k \in 1 .. Len(args) : args[k] \in Arguments
  BY LenProperties, ElementOfSeq
<1>2. \A k \in DOMAIN args :
          Taken(option)[args[k]] = IF args[k].option = option THEN <<args[k].text>> ELSE <<>>
  BY <1>1 DEF Taken
<1>3. [k \in DOMAIN args |-> Taken(option)[args[k]]]
      = [k \in DOMAIN args |-> IF args[k].option = option THEN <<args[k].text>> ELSE <<>>]
  BY <1>2
<1> QED BY <1>3 DEF TextsIn, MapFlatten

LEMMA TextsEmpty == ASSUME NEW option PROVE TextsIn(option, <<>>) = <<>>
BY EmptySeq, TextsMap, MapFlattenEmpty

\* One more argument adds its text to those of its option.
LEMMA TextsAppend ==
    ASSUME NEW option, NEW args \in Seq(Arguments), NEW arg \in Arguments
    PROVE  /\ TextsIn(option, args) \in Seq(TextsFor(option))
           /\ TextsIn(option, Append(args, arg))
              = IF arg.option = option THEN Append(TextsIn(option, args), arg.text)
                                       ELSE TextsIn(option, args)
<1>1. PICK F, Y, texts :
          F = Taken(option) /\ Y = TextsFor(option) /\ texts = TextsIn(option, args)
  OBVIOUS
<1>2. Pieces(F, Arguments, Y)
  BY <1>1, TakenPieces
<1>3. /\ MapFlatten(F, args) \in Seq(Y)
      /\ MapFlatten(F, Append(args, arg)) = MapFlatten(F, args) \o F[arg]
  BY <1>2, MapFlattenAppend
<1>4. texts = MapFlatten(F, args) /\ texts \in Seq(Y)
  BY <1>1, <1>3, TextsMap
<1>5. PICK longer : longer = Append(args, arg)
  OBVIOUS
<1>6. longer \in Seq(Arguments)
  BY <1>5, AppendProperties
<1>7. TextsIn(option, longer) = texts \o F[arg]
  BY <1>1, <1>3, <1>4, <1>5, <1>6, TextsMap
<1>8. CASE arg.option = option
  <2>1. F[arg] = <<arg.text>>
    BY <1>1, <1>8 DEF Taken
  <2>2. arg.text \in Y
    BY <1>1, <1>8 DEF TextsFor
  <2>3. Append(texts, arg.text) = texts \o <<arg.text>>
    BY <1>4, <2>2, AppendIsConcat
  <2> QED BY <1>1, <1>4, <1>5, <1>7, <1>8, <2>1, <2>3
<1>9. CASE arg.option # option
  <2>1. F[arg] = <<>>
    BY <1>1, <1>9 DEF Taken
  <2>2. texts \o <<>> = texts
    BY <1>4, ConcatEmptySeq
  <2> QED BY <1>1, <1>4, <1>5, <1>7, <1>9, <2>1, <2>2
<1> QED BY <1>8, <1>9

\* The texts of an option are of its kind.
LEMMA TextsKinds ==
    /\ TextsFor("exchanges") = ListTexts /\ TextsFor("instruments") = ListTexts
    /\ TextsFor("grpc_port") = NumberTexts
<1>1. \A text \in ListTexts : /\ [option |-> "exchanges", text |-> text] \in Arguments
                              /\ [option |-> "instruments", text |-> text] \in Arguments
  BY DEF Arguments
<1>2. \A text \in NumberTexts : [option |-> "grpc_port", text |-> text] \in Arguments
  BY DEF Arguments
<1>3. \A arg \in Arguments :
          /\ arg.option \in {"exchanges", "instruments"} => arg.text \in ListTexts
          /\ arg.option = "grpc_port" => arg.text \in NumberTexts
  BY DEF Arguments
<1> HIDE DEF Arguments
<1>4. /\ TextsFor("exchanges") \subseteq ListTexts
      /\ TextsFor("instruments") \subseteq ListTexts
      /\ TextsFor("grpc_port") \subseteq NumberTexts
  BY <1>3 DEF TextsFor
<1>5. ListTexts \subseteq TextsFor("exchanges")
  <2> SUFFICES ASSUME NEW text \in ListTexts PROVE text \in TextsFor("exchanges")
    OBVIOUS
  <2>1. PICK arg \in Arguments : arg = [option |-> "exchanges", text |-> text]
    BY <1>1
  <2>2. arg.option = "exchanges" /\ arg.text = text
    BY <2>1
  <2> QED BY <2>2 DEF TextsFor
<1>6. ListTexts \subseteq TextsFor("instruments")
  <2> SUFFICES ASSUME NEW text \in ListTexts PROVE text \in TextsFor("instruments")
    OBVIOUS
  <2>1. PICK arg \in Arguments : arg = [option |-> "instruments", text |-> text]
    BY <1>1
  <2>2. arg.option = "instruments" /\ arg.text = text
    BY <2>1
  <2> QED BY <2>2 DEF TextsFor
<1>7. NumberTexts \subseteq TextsFor("grpc_port")
  <2> SUFFICES ASSUME NEW text \in NumberTexts PROVE text \in TextsFor("grpc_port")
    OBVIOUS
  <2>1. PICK arg \in Arguments : arg = [option |-> "grpc_port", text |-> text]
    BY <1>2
  <2>2. arg.option = "grpc_port" /\ arg.text = text
    BY <2>1
  <2> QED BY <2>2 DEF TextsFor
<1> QED BY <1>4, <1>5, <1>6, <1>7

\* push_back adds the names of one more text to the names of all texts before.
LEMMA ListExtended ==
    ASSUME NEW list \in Seq(AllNames), NEW texts \in Seq(ListTexts), NEW text \in ListTexts,
           NonEmpty(list) = NonEmpty(FlattenSeq(texts))
    PROVE  /\ Extended(list, text) \in Seq(AllNames)
           /\ NonEmpty(Extended(list, text)) = NonEmpty(FlattenSeq(Append(texts, text)))
<1>1. PICK names : names = Names(text)
  OBVIOUS
<1>2. /\ names \in Seq(AllNames) /\ text \in Seq(AllNames)
      /\ NonEmpty(names) = NonEmpty(text)
  BY <1>1, NamesKept, ListTypes
<1>3. texts \in Seq(Seq(AllNames))
  <2>1. ListTexts \subseteq Seq(AllNames)
    BY ListTypes
  <2> QED BY <2>1, SeqMonotonic
<1>4. PICK flat, longer : flat = FlattenSeq(texts) /\ longer = FlattenSeq(Append(texts, text))
  OBVIOUS
<1>5. flat \in Seq(AllNames) /\ longer = flat \o text
  BY <1>2, <1>3, <1>4, FlattenAppend
<1>6. NonEmpty(longer) = NonEmpty(flat) \o NonEmpty(text)
  BY <1>2, <1>5, NonEmptyConcat
<1>7. /\ list \o names \in Seq(AllNames)
      /\ NonEmpty(list \o names) = NonEmpty(list) \o NonEmpty(names)
  BY <1>2, NonEmptyConcat, ConcatProperties
<1> QED BY <1>1, <1>2, <1>4, <1>6, <1>7 DEF Extended

-----------------------------------------------------------------------------
(* The invariants.                                                         *)

\* The arguments read are arguments, and the numbers and lists have their type.
Types ==
    /\ interval_ms \in Ints /\ grpc_port \in Ints
    /\ phase \in {"parse", "parsed", "threw", "valid", "rejected"}
    /\ exchanges \in Seq(AllNames) /\ instruments \in Seq(AllNames)
    /\ argv \in Seq(Arguments)

\* From the end of ParseFromArgs on no list is empty, so that Validate rejects
\* nothing but an interval.
Judged ==
    /\ Parsed => exchanges # <<>> /\ instruments # <<>>
    /\ phase = "rejected" => interval_ms <= 0

\* list has the names of the texts of its option in args.
ReadOf(option, list, args) == NonEmpty(list) = NonEmpty(FlattenSeq(TextsIn(option, args)))

\* The same of a list that default stands in for.
ReadOrDefault(option, list, default, args) ==
    LET given == NonEmpty(FlattenSeq(TextsIn(option, args)))
    IN NonEmpty(list) = given \/ (given = <<>> /\ list = default)

\* While the arguments are read, and when one of them throws, the lists have
\* the names given so far, and nothing stands in for them.
ListsRead ==
    IF Parsed
    THEN /\ ReadOrDefault("exchanges", exchanges, DefaultExchanges, argv)
         /\ ReadOrDefault("instruments", instruments, DefaultInstruments, argv)
    ELSE /\ ReadOf("exchanges", exchanges, argv)
         /\ ReadOf("instruments", instruments, argv)

LEMMA IntsFacts == Ints \subseteq Int /\ 1 .. IntMax \subseteq Ints
BY ConfigAssumption DEF Ints

LEMMA InitTypes == Init => Types /\ Judged
<1>1. DefaultInterval \in Ints /\ DefaultPort \in Ints
  BY ConfigAssumption, IntsFacts
<1> QED BY <1>1, EmptySeq DEF Init, Types, Judged, Parsed

\* A number option stores an int, or nothing.
LEMMA StoiInts == ASSUME NEW text PROVE Stoi(text) \subseteq Ints
BY DEF Stoi

LEMMA IntervalInts == ASSUME NEW text PROVE IntervalOf(text) \subseteq Ints
BY StoiInts DEF IntervalOf

\* An argument is read into argv.
LEMMA GivenTypes ==
    ASSUME NEW option, NEW text, [option |-> option, text |-> text] \in Arguments,
           argv \in Seq(Arguments), Given(option, text)
    PROVE  argv' \in Seq(Arguments)
BY AppendProperties DEF Given

LEMMA ArgumentKinds ==
    /\ \A text \in NumberTexts : /\ [option |-> "interval_ms", text |-> text] \in Arguments
                                 /\ [option |-> "grpc_port", text |-> text] \in Arguments
    /\ \A text \in ListTexts : /\ [option |-> "exchanges", text |-> text] \in Arguments
                               /\ [option |-> "instruments", text |-> text] \in Arguments
    /\ [option |-> "other", text |-> <<>>] \in Arguments
BY DEF Arguments

LEMMA NextTypes == Types /\ Judged /\ [Next]_vars => (Types /\ Judged)'
<1> SUFFICES ASSUME Types, Judged, [Next]_vars PROVE Types' /\ Judged'
  OBVIOUS
<1>1. ASSUME NEW text \in NumberTexts, ParseInterval(text) PROVE Types' /\ Judged'
  <2>1. argv' \in Seq(Arguments)
    BY <1>1, GivenTypes, ArgumentKinds DEF ParseInterval, Types
  <2>2. interval_ms' \in Ints /\ phase' \in {"parse", "threw"}
    BY <1>1, IntervalInts DEF ParseInterval, Given, Types
  <2> QED BY <1>1, <2>1, <2>2 DEF ParseInterval, Types, Judged, Parsed, lists
<1>2. ASSUME NEW text \in NumberTexts, ParsePort(text) PROVE Types' /\ Judged'
  <2>1. argv' \in Seq(Arguments)
    BY <1>2, GivenTypes, ArgumentKinds DEF ParsePort, Types
  <2>2. grpc_port' \in Ints /\ phase' \in {"parse", "threw"}
    BY <1>2, StoiInts DEF ParsePort, PortOf, Given, Types
  <2> QED BY <1>2, <2>1, <2>2 DEF ParsePort, Types, Judged, Parsed, lists
<1>3. ASSUME NEW text \in ListTexts, ParseExchanges(text) PROVE Types' /\ Judged'
  <2>1. argv' \in Seq(Arguments)
    BY <1>3, GivenTypes, ArgumentKinds DEF ParseExchanges, Types
  <2>2. exchanges' \in Seq(AllNames)
    BY <1>3, NamesKept, ConcatProperties DEF ParseExchanges, Extended, Types
  <2> QED BY <1>3, <2>1, <2>2 DEF ParseExchanges, Given, Types, Judged, Parsed
<1>4. ASSUME NEW text \in ListTexts, ParseInstruments(text) PROVE Types' /\ Judged'
  <2>1. argv' \in Seq(Arguments)
    BY <1>4, GivenTypes, ArgumentKinds DEF ParseInstruments, Types
  <2>2. instruments' \in Seq(AllNames)
    BY <1>4, NamesKept, ConcatProperties DEF ParseInstruments, Extended, Types
  <2> QED BY <1>4, <2>1, <2>2 DEF ParseInstruments, Given, Types, Judged, Parsed
<1>5. CASE SkipArg
  <2>1. argv' \in Seq(Arguments)
    BY <1>5, GivenTypes, ArgumentKinds DEF SkipArg, Types
  <2> QED BY <1>5, <2>1 DEF SkipArg, Given, Types, Judged, Parsed, lists
<1>6. CASE ParseEnds
  BY <1>6, ListTypes DEF ParseEnds, OrDefault, Types, Judged, Parsed
<1>7. CASE Validate
  <2>1. Types'
    BY <1>7 DEF Validate, Types, lists
  <2> QED BY <1>7, <2>1 DEF Validate, Types, Judged, Parsed, lists
<1>8. CASE UNCHANGED vars
  BY <1>8 DEF vars, lists, Types, Judged, Parsed
<1> QED BY <1>1, <1>2, <1>3, <1>4, <1>5, <1>6, <1>7, <1>8 DEF Next

LEMMA TypesInv == Spec => [](Types /\ Judged)
<1> QED BY InitTypes, NextTypes, PTL DEF Spec

\* Type correctness: the numbers are ints whatever is given, as std::stoi
\* throws beyond them, and the names in a list are given ones or default ones.
THEOREM ConfigTypes == Spec => []TypeOK
<1>1. Types => TypeOK
  <2> SUFFICES ASSUME Types PROVE TypeOK
    OBVIOUS
  <2>1. Range(exchanges) \subseteq AllNames /\ Range(instruments) \subseteq AllNames
    BY RangeOfSeq DEF Types
  <2> QED BY <2>1 DEF Types, TypeOK, AllNames
<1> QED BY <1>1, TypesInv, PTL

\* Validate rejects a configuration for its interval alone: ParseFromArgs leaves
\* no empty list, as it puts the default in its place.
THEOREM OnlyInterval == Spec => [](phase = "rejected" => interval_ms <= 0)
<1>1. Judged => (phase = "rejected" => interval_ms <= 0)
  BY DEF Judged
<1> QED BY <1>1, TypesInv, PTL

-----------------------------------------------------------------------------
(* The lists are the ones given.                                           *)

LEMMA ReadNothing == ASSUME NEW option PROVE ReadOf(option, <<>>, <<>>)
BY TextsEmpty, EmptySeq, FlattenShort DEF ReadOf

\* An argument of the option extends the list, another one does not concern it.
LEMMA ReadExtended ==
    ASSUME NEW option, TextsFor(option) = ListTexts,
           NEW args \in Seq(Arguments), NEW arg \in Arguments,
           NEW list \in Seq(AllNames), ReadOf(option, list, args)
    PROVE  /\ arg.option = option => ReadOf(option, Extended(list, arg.text), Append(args, arg))
           /\ arg.option # option => ReadOf(option, list, Append(args, arg))
<1>1. PICK texts, longer :
          texts = TextsIn(option, args) /\ longer = TextsIn(option, Append(args, arg))
  OBVIOUS
<1>2. /\ texts \in Seq(ListTexts)
      /\ longer = IF arg.option = option THEN Append(texts, arg.text) ELSE texts
  BY <1>1, TextsAppend
<1>3. NonEmpty(list) = NonEmpty(FlattenSeq(texts))
  BY <1>1 DEF ReadOf
<1>4. CASE arg.option = option
  <2>1. PICK text : text = arg.text
    OBVIOUS
  <2>2. text \in ListTexts
    BY <1>4, <2>1 DEF TextsFor
  <2>3. NonEmpty(Extended(list, text)) = NonEmpty(FlattenSeq(Append(texts, text)))
    BY <1>2, <1>3, <2>2, ListExtended
  <2> QED BY <1>1, <1>2, <1>4, <2>1, <2>3 DEF ReadOf
<1>5. CASE arg.option # option
  BY <1>1, <1>2, <1>3, <1>5 DEF ReadOf
<1> QED BY <1>4, <1>5

LEMMA ReadDefault ==
    ASSUME NEW option, NEW args, NEW list, NEW default, ReadOf(option, list, args)
    PROVE  ReadOrDefault(option, OrDefault(list, default), default, args)
BY NonEmptyEmpty DEF ReadOf, ReadOrDefault, OrDefault

LEMMA InitLists == Init => ListsRead
BY ReadNothing DEF Init, ListsRead, Parsed

\* An argument leaves the lists as the arguments say.
LEMMA GivenLists ==
    ASSUME Types, ListsRead, NEW option, NEW text,
           [option |-> option, text |-> text] \in Arguments, Given(option, text),
           phase' \in {"parse", "threw"},
           exchanges' = IF option = "exchanges" THEN Extended(exchanges, text) ELSE exchanges,
           instruments' = IF option = "instruments" THEN Extended(instruments, text)
                                                    ELSE instruments
    PROVE  ListsRead'
<1>1. PICK arg \in Arguments : arg = [option |-> option, text |-> text]
  OBVIOUS
<1>2. PICK args, exs, ins : args = argv /\ exs = exchanges /\ ins = instruments
  OBVIOUS
<1>3. args \in Seq(Arguments) /\ exs \in Seq(AllNames) /\ ins \in Seq(AllNames)
  BY <1>2 DEF Types
<1>4. ReadOf("exchanges", exs, args) /\ ReadOf("instruments", ins, args)
  BY <1>2 DEF ListsRead, Given, Parsed
<1>5. arg.option = option /\ arg.text = text
  BY <1>1
<1>6. PICK args2, exs2, ins2 : args2 = argv' /\ exs2 = exchanges' /\ ins2 = instruments'
  OBVIOUS
<1>7. args2 = Append(args, arg)
  BY <1>1, <1>2, <1>6 DEF Given
<1>8. ReadOf("exchanges", exs2, args2)
  <2>1. exs2 = IF option = "exchanges" THEN Extended(exs, text) ELSE exs
    BY <1>2, <1>6
  <2> QED BY <1>3, <1>4, <1>5, <1>7, <2>1, ReadExtended, TextsKinds
<1>9. ReadOf("instruments", ins2, args2)
  <2>1. ins2 = IF option = "instruments" THEN Extended(ins, text) ELSE ins
    BY <1>2, <1>6
  <2> QED BY <1>3, <1>4, <1>5, <1>7, <2>1, ReadExtended, TextsKinds
<1> QED BY <1>6, <1>8, <1>9 DEF ListsRead, Parsed

LEMMA NextLists == Types /\ ListsRead /\ [Next]_vars => ListsRead'
<1> SUFFICES ASSUME Types, ListsRead, [Next]_vars PROVE ListsRead'
  OBVIOUS
<1>1. ASSUME NEW text \in NumberTexts, ParseInterval(text) PROVE ListsRead'
  BY <1>1, GivenLists, ArgumentKinds DEF ParseInterval, Given, lists
<1>2. ASSUME NEW text \in NumberTexts, ParsePort(text) PROVE ListsRead'
  BY <1>2, GivenLists, ArgumentKinds DEF ParsePort, Given, lists
<1>3. ASSUME NEW text \in ListTexts, ParseExchanges(text) PROVE ListsRead'
  BY <1>3, GivenLists, ArgumentKinds DEF ParseExchanges, Given
<1>4. ASSUME NEW text \in ListTexts, ParseInstruments(text) PROVE ListsRead'
  BY <1>4, GivenLists, ArgumentKinds DEF ParseInstruments, Given
<1>5. CASE SkipArg
  BY <1>5, GivenLists, ArgumentKinds DEF SkipArg, Given, lists
<1>6. CASE ParseEnds
  <2>1. PICK args, exs, ins : args = argv /\ exs = exchanges /\ ins = instruments
    OBVIOUS
  <2>2. ReadOf("exchanges", exs, args) /\ ReadOf("instruments", ins, args)
    BY <1>6, <2>1 DEF ParseEnds, ListsRead, Parsed
  <2>3. PICK exs2, ins2 : exs2 = exchanges' /\ ins2 = instruments'
    OBVIOUS
  <2>4. /\ exs2 = OrDefault(exs, DefaultExchanges) /\ ins2 = OrDefault(ins, DefaultInstruments)
        /\ argv' = args /\ phase' = "parsed"
    BY <1>6, <2>1, <2>3 DEF ParseEnds
  <2>5. /\ ReadOrDefault("exchanges", exs2, DefaultExchanges, args)
        /\ ReadOrDefault("instruments", ins2, DefaultInstruments, args)
    BY <2>2, <2>4, ReadDefault
  <2> QED BY <2>3, <2>4, <2>5 DEF ListsRead, Parsed
<1>7. CASE Validate
  BY <1>7 DEF Validate, lists, ListsRead, Parsed
<1>8. CASE UNCHANGED vars
  BY <1>8 DEF vars, lists, ListsRead, Parsed
<1> QED BY <1>1, <1>2, <1>3, <1>4, <1>5, <1>6, <1>7, <1>8 DEF Next

\* A list has the names of every use of its option, in their order, and a
\* default stands in for a list only when no name was given.
THEOREM ListsCorrect == Spec => []ListsAsGiven
<1>1. Judged /\ ListsRead => ListsAsGiven
  BY DEF Judged, ListsRead, ListsAsGiven, ListAsGiven, ReadOrDefault, TextsOf, TextsIn
<1> QED BY <1>1, InitLists, NextLists, TypesInv, PTL DEF Spec

-----------------------------------------------------------------------------
(* The value of a number.                                                  *)

\* u has n digits, and g is what has been read of them: ten times as much, and
\* the digit, with each.
AreDigits(u, n) == u \in Seq(0 .. 9) /\ Len(u) = n
IsReading(g, u, n) ==
    /\ g \in [0 .. n -> Nat] /\ g[0] = 0
    /\ \A k \in 1 .. n : g[k] = 10 * g[k - 1] + u[k]

LEMMA ValueReading ==
    ASSUME NEW n \in Nat, NEW u, AreDigits(u, n)
    PROVE  \E g : IsReading(g, u, n) /\ Value(u) = g[n]
<1> DEFINE D == 1 .. n
           h == [k \in D |-> [v \in Nat |-> 10 * v + u[k]]]
           Body(f) == [s \in SUBSET D |->
                         IF s = {} THEN 0 ELSE 10 * f[s \ {Max(s)}] + u[Max(s)]]
           iter == CHOOSE f : f = Body(f)
<1>1. DOMAIN u = D /\ \A k \in D : u[k] \in 0 .. 9
  BY LenProperties, ElementOfSeq DEF AreDigits
<1>2. Steps(h, n, Nat) /\ 0 \in Nat
  <2>1. \A k \in D, v \in Nat : 10 * v + u[k] \in Nat
    BY <1>1
  <2> QED BY <2>1 DEF Steps
<1>3. PICK g : IsMaxFold(g, h, n, Nat, 0)
  <2> HIDE DEF h
  <2> QED BY <1>2, MaxFold
<1>4. /\ g \in [SUBSET D -> Nat] /\ g[{}] = 0
      /\ \A s \in SUBSET D : s # {} => Max(s) \in D /\ g[s] = h[Max(s)][g[s \ {Max(s)}]]
      /\ \A k \in D : g[1 .. k] = h[k][g[1 .. (k - 1)]]
  <2> HIDE DEF h
  <2> QED BY <1>3 DEF IsMaxFold
<1>5. \A k \in D, v \in Nat : h[k][v] = 10 * v + u[k]
  OBVIOUS
<1> HIDE DEF h
<1>6. g = Body(g)
  <2>1. ASSUME NEW s \in SUBSET D, s # {} PROVE g[s] = 10 * g[s \ {Max(s)}] + u[Max(s)]
    <3>1. PICK m \in D : m = Max(s)
      BY <1>4, <2>1
    <3>2. g[s] = h[m][g[s \ {m}]] /\ g[s \ {m}] \in Nat
      BY <1>4, <2>1, <3>1
    <3> QED BY <1>5, <3>1, <3>2
  <2> QED BY <1>4, <2>1
<1>7. iter = Body(iter)
  <2> HIDE DEF Body
  <2> QED BY <1>6
<1>8. Value(u) = iter[D]
  BY <1>1 DEF Value, FoldLeft, MapThenFoldSet
<1> HIDE DEF iter
<1>9. iter[D] = g[D]
  <2> DEFINE T == {s \in SUBSET D : iter[s] = g[s]}
  <2>1. {} \in T
    BY <1>6, <1>7
  <2>2. \A s \in SUBSET D : s # {} /\ s \ {Max(s)} \in T => s \in T
    BY <1>6, <1>7
  <2> HIDE DEF T
  <2>3. SUBSET D \subseteq T
    BY <2>1, <2>2, MaxInduction
  <2> QED BY <2>3 DEF T
<1> DEFINE f == [k \in 0 .. n |-> g[1 .. k]]
<1>10. IsReading(f, u, n)
  <2>1. \A k \in 0 .. n : 1 .. k \in SUBSET D
    OBVIOUS
  <2>2. \A k \in 0 .. n : g[1 .. k] \in Nat
    BY <1>4, <2>1
  <2>3. f \in [0 .. n -> Nat]
    BY <2>2
  <2>4. f[0] = 0
    <3>1. 1 .. 0 = {} /\ 0 \in 0 .. n
      OBVIOUS
    <3> QED BY <1>4, <3>1
  <2>5. ASSUME NEW k \in 1 .. n PROVE f[k] = 10 * f[k - 1] + u[k]
    <3>1. k - 1 \in 0 .. n /\ k \in 0 .. n
      OBVIOUS
    <3>2. PICK v \in Nat : v = g[1 .. (k - 1)]
      BY <2>2, <3>1
    <3>3. f[k - 1] = v /\ f[k] = h[k][v]
      BY <1>4, <3>1, <3>2
    <3> QED BY <1>5, <3>3
  <2> HIDE DEF f
  <2> QED BY <2>3, <2>4, <2>5 DEF IsReading
<1>11. f[n] = g[D]
  OBVIOUS
<1> QED BY <1>8, <1>9, <1>10, <1>11

\* The weights of n digits: w[j] is that of the one with j digits behind it.
IsWeights(w, n) ==
    /\ w \in [0 .. n -> Nat] /\ w[0] = 1
    /\ \A j \in 1 .. n : w[j] = 10 * w[j - 1]

LEMMA WeightsExist == ASSUME NEW n \in Nat PROVE \E w : IsWeights(w, n)
<1> DEFINE h == [k \in 1 .. n |-> [v \in Nat |-> 10 * v]]
<1>1. Steps(h, n, Nat) /\ 1 \in Nat
  <2>1. \A v \in Nat : 10 * v \in Nat
    OBVIOUS
  <2> QED BY <2>1 DEF Steps
<1>2. \A k \in 1 .. n, v \in Nat : h[k][v] = 10 * v
  OBVIOUS
<1> HIDE DEF h
<1>3. PICK w : IsRun(w, h, n, Nat, 1)
  BY <1>1, RunExists
<1>4. /\ w \in [0 .. n -> Nat] /\ w[0] = 1
      /\ \A j \in 1 .. n : w[j] = h[j][w[j - 1]]
  BY <1>3 DEF IsRun
<1>5. ASSUME NEW j \in 1 .. n PROVE w[j] = 10 * w[j - 1]
  <2>1. j - 1 \in 0 .. n
    OBVIOUS
  <2>2. w[j - 1] \in Nat
    BY <1>4, <2>1
  <2> QED BY <1>2, <1>4, <2>2
<1> QED BY <1>4, <1>5 DEF IsWeights

\* The places of the digits have these weights.
LEMMA MagnitudeWeights ==
    ASSUME NEW n \in Nat, NEW u, AreDigits(u, n), NEW w, IsWeights(w, n)
    PROVE  \E f : /\ \A k \in 1 .. n : f[k] = u[k] * w[n - k]
                  /\ Magnitude(u) = SumFunctionOnSet(f, 1 .. n)
<1> DEFINE D == 1 .. n
           Body(p) == [k \in D |-> IF k = n THEN 1 ELSE 10 * p[k + 1]]
           place == CHOOSE p : p = Body(p)
           q == [k \in D |-> w[n - k]]
           f == [k \in D |-> u[k] * place[k]]
<1>1. DOMAIN u = D /\ Len(u) = n
  BY LenProperties DEF AreDigits
<1>2. /\ w[0] = 1
      /\ \A j \in 1 .. n : w[j] = 10 * w[j - 1]
  BY DEF IsWeights
<1>3. q = Body(q)
  <2>1. ASSUME NEW k \in D PROVE q[k] = IF k = n THEN 1 ELSE 10 * q[k + 1]
    <3>1. CASE k = n
      <4>1. n - k = 0
        BY <3>1
      <4> QED BY <1>2, <3>1, <4>1
    <3>2. CASE k # n
      <4>1. PICK j \in 1 .. n : j = n - k /\ j - 1 = n - (k + 1) /\ k + 1 \in D
        BY <3>2
      <4>2. q[k] = w[j] /\ q[k + 1] = w[j - 1]
        BY <4>1
      <4> QED BY <1>2, <3>2, <4>2
    <3> QED BY <3>1, <3>2
  <2> HIDE DEF q
  <2>2. q = [k \in D |-> q[k]]
    BY DEF q
  <2> QED BY <2>1, <2>2
<1>4. place = Body(place)
  <2> HIDE DEF Body, q
  <2> QED BY <1>3
<1>5. Magnitude(u) = SumFunctionOnSet(f, D)
  <2>1. Magnitude(u) = SumFunction(f)
    BY <1>1 DEF Magnitude
  <2>2. DOMAIN f = D
    OBVIOUS
  <2> HIDE DEF f, D
  <2> QED BY <2>1, <2>2 DEF SumFunction
<1> DEFINE S == {j \in 0 .. n : j = n \/ place[n - j] = w[j]}
<1> HIDE DEF place
<1>6. n \in Nat /\ \A k \in D : place[k] = IF k = n THEN 1 ELSE 10 * place[k + 1]
  BY <1>4
<1>7. 0 \in S
  <2>1. CASE n = 0
    BY <2>1
  <2>2. CASE n # 0
    <3>1. n \in D /\ n - 0 = n
      BY <2>2
    <3>2. place[n] = 1
      BY <1>6, <3>1
    <3> QED BY <1>2, <3>1, <3>2
  <2> QED BY <2>1, <2>2
<1>8. ASSUME NEW j \in 1 .. n, j - 1 \in S PROVE j \in S
  <2> SUFFICES ASSUME j # n PROVE place[n - j] = w[j]
    OBVIOUS
  <2>1. PICK k \in D : k = n - j /\ k # n /\ k + 1 = n - (j - 1) /\ j - 1 # n
    OBVIOUS
  <2>2. place[k + 1] = w[j - 1]
    BY <1>8, <2>1
  <2>3. place[k] = 10 * place[k + 1]
    BY <1>6, <2>1
  <2> QED BY <1>2, <2>1, <2>2, <2>3
<1>9. 0 .. n \subseteq S
  <2>1. \A j \in 1 .. n : j - 1 \in S => j \in S
    BY <1>8
  <2> HIDE DEF S
  <2> QED BY <1>7, <2>1, IntervalInduction
<1>10. ASSUME NEW k \in D PROVE place[k] = w[n - k]
  <2>1. PICK j \in 0 .. n : j = n - k /\ j # n /\ n - j = k
    OBVIOUS
  <2> QED BY <1>9, <2>1
<1>11. \A k \in D : f[k] = u[k] * w[n - k]
  BY <1>10
<1> QED BY <1>5, <1>11

\* Reading the digits one by one gives the sum of their weighted values: with j
\* digits still to come, what has been read weighs w[j], and they the rest.
LEMMA ValueMagnitude ==
    ASSUME NEW n \in Nat, NEW u, AreDigits(u, n)
    PROVE  Value(u) = Magnitude(u)
<1>1. PICK g : IsReading(g, u, n) /\ Value(u) = g[n]
  BY ValueReading
<1>2. PICK w : IsWeights(w, n)
  BY WeightsExist
<1>3. PICK f : /\ \A k \in 1 .. n : f[k] = u[k] * w[n - k]
               /\ Magnitude(u) = SumFunctionOnSet(f, 1 .. n)
  BY <1>2, MagnitudeWeights
<1>4. \A k \in 1 .. n : u[k] \in 0 .. 9
  BY ElementOfSeq DEF AreDigits
<1>5. ASSUME NEW k \in 1 .. n PROVE f[k] \in Int /\ w[n - k] \in Nat
  <2>1. n - k \in 0 .. n
    OBVIOUS
  <2>2. w[n - k] \in Nat
    BY <1>2, <2>1 DEF IsWeights
  <2>3. u[k] \in Int /\ f[k] = u[k] * w[n - k]
    BY <1>3, <1>4
  <2> QED BY <2>2, <2>3
<1> DEFINE Rest(j) == SumFunctionOnSet(f, (n - j + 1) .. n)
           S == {j \in 0 .. n : g[n] = g[n - j] * w[j] + Rest(j)}
<1>6. 0 \in S
  <2>1. (n - 0 + 1) .. n = {} /\ n - 0 = n /\ 0 \in 0 .. n
    OBVIOUS
  <2>2. Rest(0) = 0
    BY <2>1, SumEmpty
  <2>3. g[n] \in Nat /\ w[0] = 1
    BY <1>1, <1>2 DEF IsReading, IsWeights
  <2>4. g[n] = g[n - 0] * w[0] + Rest(0)
    BY <2>1, <2>2, <2>3
  <2> QED BY <2>1, <2>4
<1>7. ASSUME NEW j \in 1 .. n, j - 1 \in S PROVE j \in S
  <2>1. PICK k \in 1 .. n : k = n - (j - 1) /\ k - 1 = n - j /\ n - k = j - 1
    OBVIOUS
  <2>2. PICK a, b, c : a = g[k - 1] /\ b = w[j - 1] /\ c = u[k]
    OBVIOUS
  <2>3. a \in Nat /\ b \in Nat /\ c \in Nat
    <3>1. k - 1 \in 0 .. n /\ j - 1 \in 0 .. n
      OBVIOUS
    <3>2. g[k - 1] \in Nat /\ w[j - 1] \in Nat
      BY <1>1, <1>2, <3>1 DEF IsReading, IsWeights
    <3>3. u[k] \in Nat
      BY <1>4
    <3> QED BY <2>2, <3>2, <3>3
  <2>4. g[k] = 10 * a + c /\ w[j] = 10 * b
    BY <1>1, <1>2, <2>2 DEF IsReading, IsWeights
  <2>5. f[k] = c * b
    BY <1>3, <2>1, <2>2
  <2>6. PICK r \in Int : r = Rest(j - 1)
    <3>1. IsFiniteSet((n - (j - 1) + 1) .. n)
      BY FS_Interval
    <3>2. \A x \in (n - (j - 1) + 1) .. n : f[x] \in Int
      BY <1>5
    <3> QED BY <3>1, <3>2, SumType
  <2>7. Rest(j) = c * b + r
    <3>1. PICK D : D = (k + 1) .. n
      OBVIOUS
    <3>2. /\ IsFiniteSet(D) /\ k \notin D
          /\ \A x \in D \cup {k} : f[x] \in Int
      BY <1>5, <3>1, FS_Interval
    <3>3. SumFunctionOnSet(f, D \cup {k}) = f[k] + SumFunctionOnSet(f, D)
      BY <3>2, SumAdd
    <3>4. n - j + 1 = k /\ n - (j - 1) + 1 = k + 1
      BY <2>1
    <3>5. D \cup {k} = k .. n
      BY <3>1
    <3>6. Rest(j) = SumFunctionOnSet(f, D \cup {k}) /\ r = SumFunctionOnSet(f, D)
      BY <2>6, <3>1, <3>4, <3>5
    <3> QED BY <2>5, <3>3, <3>6
  <2>8. g[n] = g[k] * b + r
    BY <1>7, <2>1, <2>2, <2>6
  <2>9. (10 * a + c) * b + r = a * (10 * b) + (c * b + r)
    BY <2>3, <2>6
  <2>10. g[n] = g[n - j] * w[j] + Rest(j)
    <3>1. g[n - j] = a
      BY <2>1, <2>2
    <3> HIDE DEF Rest
    <3> QED BY <2>4, <2>7, <2>8, <2>9, <3>1
  <2>11. j \in 0 .. n
    OBVIOUS
  <2> QED BY <2>10, <2>11
<1>8. n \in S
  <2>1. \A j \in 1 .. n : j - 1 \in S => j \in S
    BY <1>7
  <2> HIDE DEF S
  <2>2. 0 .. n \subseteq S
    BY <1>6, <2>1, IntervalInduction
  <2> QED BY <2>2
<1>9. g[n] = g[0] * w[n] + SumFunctionOnSet(f, 1 .. n)
  <2>1. n - n = 0 /\ n - n + 1 = 1
    OBVIOUS
  <2> QED BY <1>8, <2>1
<1>10. w[n] \in Nat /\ g[0] = 0
  BY <1>1, <1>2 DEF IsReading, IsWeights
<1>11. PICK total \in Int : total = SumFunctionOnSet(f, 1 .. n)
  <2>1. IsFiniteSet(1 .. n)
    BY FS_Interval
  <2>2. \A k \in 1 .. n : f[k] \in Int
    BY <1>5
  <2> QED BY <2>1, <2>2, SumType
<1> QED BY <1>1, <1>3, <1>9, <1>10, <1>11

-----------------------------------------------------------------------------
(* The port is the one given.                                              *)

\* std::stoi of a number that is an int gives that number.
LEMMA StoiOfNumber ==
    ASSUME NEW text \in NumberTexts, IsNumber(text)
    PROVE  Stoi(text) = {NumberOf(text)}
<1> DEFINE Chars == 0 .. 9 \cup {Minus, Letter}
<1>1. PICK u : u = Unsigned(text)
  OBVIOUS
<1>2. u \in Seq(Chars) /\ u # <<>>
  <2>1. text \in Seq(Chars)
    BY ConfigAssumption
  <2>2. text # <<>> => Tail(text) \in Seq(Chars)
    BY <2>1, HeadTailProperties
  <2> QED BY <1>1, <2>1, <2>2 DEF IsNumber, Unsigned
<1>3. PICK n \in Nat : n = Len(u)
  BY <1>2, LenProperties
<1>4. DOMAIN u = 1 .. n /\ \A k \in 1 .. n : u[k] \in 0 .. 9 /\ IsDigit(u[k])
  <2>1. DOMAIN u = 1 .. n /\ \A k \in 1 .. n : u[k] \in Chars
    BY <1>2, <1>3, LenProperties, ElementOfSeq
  <2>2. \A k \in 1 .. n : IsDigit(u[k])
    BY <1>1, <2>1 DEF IsNumber
  <2> QED BY <2>1, <2>2 DEF IsDigit
<1>5. AreDigits(u, n)
  <2>1. u \in Seq(0 .. 9)
    BY <1>2, <1>3, <1>4, LenProperties
  <2> QED BY <1>3, <2>1 DEF AreDigits
<1>6. Digits(u) = n
  <2> DEFINE P(m) == /\ \A k \in 1 .. m : IsDigit(u[k])
                     /\ m < n => ~IsDigit(u[m + 1])
  <2>1. P(n) /\ n \in 0 .. n
    BY <1>4
  <2>2. Digits(u) = CHOOSE m \in 0 .. n : P(m)
    BY <1>3 DEF Digits
  <2>3. \A m \in 0 .. n : P(m) => m = n
    <3>1. \A m \in 0 .. n : m < n => m + 1 \in 1 .. n
      OBVIOUS
    <3> QED BY <1>4, <3>1
  <2> HIDE DEF P
  <2> QED BY <2>1, <2>2, <2>3
<1>7. Leading(u) = u
  BY <1>2, <1>3, <1>6, SubSeqFull DEF Leading
<1>8. Value(u) = Magnitude(u)
  BY <1>5, ValueMagnitude
<1>9. Stoi(text) = {Signed(text, Value(u))} \cap Ints
  BY <1>1, <1>2, <1>7 DEF Stoi
<1>10. NumberOf(text) = Signed(text, Value(u))
  BY <1>1, <1>8 DEF NumberOf
<1>11. NumberOf(text) \in Ints
  BY DEF IsNumber
<1> QED BY <1>9, <1>10, <1>11

\* What port is when args have been read, the last of them throwing or not: the
\* default without a text for it, else what the last text gives, or nothing.
PortReadIn(port, args, threw) ==
    LET texts == TextsIn("grpc_port", args)
        failed == threw /\ Last(args).option = "grpc_port"
    IN /\ texts = <<>> => port = DefaultPort /\ ~failed
       /\ texts # <<>> /\ failed => PortOf(Last(texts)) = {}
       /\ texts # <<>> /\ ~failed => port \in PortOf(Last(texts))

PortRead == PortReadIn(grpc_port, argv, phase = "threw")

LEMMA LastAppend ==
    ASSUME NEW X, NEW s \in Seq(X), NEW x \in X PROVE Last(Append(s, x)) = x
BY AppendProperties DEF Last

\* An argument of the option gives the port, another one does not concern it.
LEMMA PortStep ==
    ASSUME NEW args \in Seq(Arguments), NEW arg \in Arguments,
           NEW port, PortReadIn(port, args, FALSE), NEW port2, NEW threw,
           arg.option # "grpc_port" => port2 = port,
           arg.option = "grpc_port" /\ threw => PortOf(arg.text) = {},
           arg.option = "grpc_port" /\ ~threw => port2 \in PortOf(arg.text)
    PROVE  PortReadIn(port2, Append(args, arg), threw)
<1>1. PICK longer, texts, texts2 :
          /\ longer = Append(args, arg)
          /\ texts = TextsIn("grpc_port", args) /\ texts2 = TextsIn("grpc_port", longer)
  OBVIOUS
<1>2. Last(longer) = arg
  BY <1>1, LastAppend
<1>3. /\ texts \in Seq(NumberTexts)
      /\ texts2 = IF arg.option = "grpc_port" THEN Append(texts, arg.text) ELSE texts
  BY <1>1, TextsAppend, TextsKinds
<1>4. /\ texts = <<>> => port = DefaultPort
      /\ texts # <<>> => port \in PortOf(Last(texts))
  BY <1>1 DEF PortReadIn
<1>5. CASE arg.option = "grpc_port"
  <2>1. PICK text : text = arg.text
    OBVIOUS
  <2>2. text \in NumberTexts
    BY <1>5, <2>1, TextsKinds DEF TextsFor
  <2>3. texts2 # <<>> /\ Last(texts2) = text
    BY <1>3, <1>5, <2>1, <2>2, AppendProperties, LastAppend
  <2> QED BY <1>1, <1>2, <1>5, <2>1, <2>3 DEF PortReadIn
<1>6. CASE arg.option # "grpc_port"
  BY <1>1, <1>2, <1>3, <1>4, <1>6 DEF PortReadIn
<1> QED BY <1>5, <1>6

LEMMA InitPort == Init => PortRead
<1> SUFFICES ASSUME Init PROVE PortRead
  OBVIOUS
<1>1. TextsIn("grpc_port", <<>>) = <<>>
  BY TextsEmpty
<1> QED BY <1>1 DEF Init, PortRead, PortReadIn

LEMMA GivenPort ==
    ASSUME Types, PortRead, NEW option, NEW text,
           [option |-> option, text |-> text] \in Arguments, Given(option, text),
           option # "grpc_port" => grpc_port' = grpc_port,
           option = "grpc_port" =>
               \/ grpc_port' \in PortOf(text) /\ phase' = phase
               \/ PortOf(text) = {} /\ phase' = "threw"
    PROVE  PortRead'
<1>1. PICK arg \in Arguments : arg = [option |-> option, text |-> text]
  OBVIOUS
<1>2. PICK args, port : args = argv /\ port = grpc_port
  OBVIOUS
<1>3. PICK args2, port2, phase2 : args2 = argv' /\ port2 = grpc_port' /\ phase2 = phase'
  OBVIOUS
<1>4. /\ args \in Seq(Arguments) /\ args2 = Append(args, arg) /\ phase = "parse"
      /\ arg.option = option /\ arg.text = text
  BY <1>1, <1>2, <1>3 DEF Types, Given
<1>5. PortReadIn(port, args, FALSE)
  BY <1>2, <1>4 DEF PortRead, PortReadIn
<1>6. /\ arg.option # "grpc_port" => port2 = port
      /\ arg.option = "grpc_port" /\ phase2 = "threw" => PortOf(arg.text) = {}
      /\ arg.option = "grpc_port" /\ ~(phase2 = "threw") => port2 \in PortOf(arg.text)
  BY <1>2, <1>3, <1>4
<1>7. PortReadIn(port2, args2, phase2 = "threw")
  BY <1>4, <1>5, <1>6, PortStep
<1> QED BY <1>3, <1>7 DEF PortRead, PortReadIn

LEMMA NextPort == Types /\ PortRead /\ [Next]_vars => PortRead'
<1> SUFFICES ASSUME Types, PortRead, [Next]_vars PROVE PortRead'
  OBVIOUS
<1>1. ASSUME NEW text \in NumberTexts, ParseInterval(text) PROVE PortRead'
  BY <1>1, GivenPort, ArgumentKinds DEF ParseInterval
<1>2. ASSUME NEW text \in NumberTexts, ParsePort(text) PROVE PortRead'
  BY <1>2, GivenPort, ArgumentKinds DEF ParsePort
<1>3. ASSUME NEW text \in ListTexts, ParseExchanges(text) PROVE PortRead'
  BY <1>3, GivenPort, ArgumentKinds DEF ParseExchanges
<1>4. ASSUME NEW text \in ListTexts, ParseInstruments(text) PROVE PortRead'
  BY <1>4, GivenPort, ArgumentKinds DEF ParseInstruments
<1>5. CASE SkipArg
  BY <1>5, GivenPort, ArgumentKinds DEF SkipArg
<1>6. ASSUME UNCHANGED <<grpc_port, argv>>, phase # "threw", phase' # "threw"
      PROVE  PortRead'
  <2>1. PICK args, port : args = argv /\ port = grpc_port
    OBVIOUS
  <2>2. PortReadIn(port, args, FALSE)
    BY <1>6, <2>1 DEF PortRead, PortReadIn
  <2> QED BY <1>6, <2>1, <2>2 DEF PortRead, PortReadIn
<1>7. CASE ParseEnds \/ Validate
  BY <1>6, <1>7 DEF ParseEnds, Validate
<1>8. CASE UNCHANGED vars
  BY <1>8 DEF vars, PortRead, PortReadIn
<1> QED BY <1>1, <1>2, <1>3, <1>4, <1>5, <1>7, <1>8 DEF Next

\* The port is the default without the option, and else the number of its last
\* use; no text of an int makes ParseFromArgs throw.
THEOREM PortCorrect == Spec => []PortAsGiven
<1>1. Types /\ PortRead => PortAsGiven
  <2> SUFFICES ASSUME Types, PortRead PROVE PortAsGiven
    OBVIOUS
  <2>1. PICK args : args = argv
    OBVIOUS
  <2>2. PICK texts : texts = TextsIn("grpc_port", args)
    OBVIOUS
  <2>3. TextsOf("grpc_port") = texts
    BY <2>1, <2>2 DEF TextsOf, TextsIn
  <2>4. args \in Seq(Arguments)
    BY <2>1 DEF Types
  <2>5. texts \in Seq(NumberTexts)
    <3>1. [option |-> "other", text |-> <<>>] \in Arguments
      BY ArgumentKinds
    <3> QED BY <2>2, <2>4, <3>1, TextsAppend, TextsKinds
  <2>6. texts # <<>> => Last(texts) \in NumberTexts
    <3>1. texts # <<>> => Len(texts) \in 1 .. Len(texts)
      BY <2>5, EmptySeq
    <3> QED BY <2>5, <3>1, ElementOfSeq DEF Last
  <2>7. texts # <<>> /\ IsNumber(Last(texts)) => PortOf(Last(texts)) = {NumberOf(Last(texts))}
    BY <2>6, StoiOfNumber DEF PortOf
  <2>8. /\ texts = <<>> => /\ grpc_port = DefaultPort
                           /\ ~(phase = "threw" /\ Last(args).option = "grpc_port")
        /\ texts # <<>> /\ phase = "threw" /\ Last(args).option = "grpc_port" =>
               PortOf(Last(texts)) = {}
        /\ texts # <<>> /\ ~(phase = "threw" /\ Last(args).option = "grpc_port") =>
               grpc_port \in PortOf(Last(texts))
    BY <2>1, <2>2 DEF PortRead, PortReadIn
  <2> QED BY <2>1, <2>3, <2>7, <2>8 DEF PortAsGiven, NumberAsGiven
<1> QED BY <1>1, InitPort, NextPort, TypesInv, PTL DEF Spec
=============================================================================
