--------------------------- MODULE PublishProofs ----------------------------
(***************************************************************************)
(* Publication for any number of producers, connections, games and         *)
(* versions: the type invariant (with the ownership of the two locks), one *)
(* open handle per game, and published versions that can be downloaded.    *)
(*                                                                         *)
(* PublishedComplete needs that what was checked under the lock is still   *)
(* so when the scheduler is told, without it (Checked): no step removes a  *)
(* chunk from a pack store.  It also needs that decode undoes encode       *)
(* (RoundTrip), an induction over the files of a manifest: the first part  *)
(* of the module says where FlattenSeq and encode put each field, and how  *)
(* far decode gets.                                                        *)
(***************************************************************************)
EXTENDS Publish, SequenceTheorems, WellFoundedInduction, TLAPS

(* Every nonempty set of natural numbers has a least element; so what      *)
(* holds of 0 and passes on from each number to the next holds of all.     *)
LEMMA Smallest ==
    ASSUME NEW S \in SUBSET Nat, S # {}
    PROVE  \E n \in S : \A m \in S : n <= m
<1>1. PICK n \in S : \A m \in S : ~ (<<m, n>> \in OpToRel(<, Nat))
  BY WFMin, NatLessThanWellFounded, Zenon
<1>2. ASSUME NEW m \in S PROVE n <= m
  <2>1. ~ (m < n)
    BY <1>1 DEF OpToRel
  <2> QED BY <2>1
<1> QED BY <1>2

LEMMA SetInduction ==
    ASSUME NEW T, 0 \in T, \A n \in Nat : n \in T => n + 1 \in T
    PROVE  \A n \in Nat : n \in T
<1> DEFINE N == {n \in Nat : n \notin T}
<1>1. ASSUME N # {} PROVE FALSE
  <2>1. PICK n \in N : \A m \in N : n <= m
    BY <1>1, Smallest
  <2>2. n \in Nat /\ n # 0
    BY <2>1
  <2>3. n - 1 \in Nat /\ n - 1 \notin N
    BY <2>1, <2>2
  <2>4. (n - 1) + 1 \in T
    BY <2>3
  <2> QED BY <2>1, <2>2, <2>4
<1> QED BY <1>1
-----------------------------------------------------------------------------
(* FlattenSeq, as a function of the prefixes it has been through. *)
FlatStep(F, seqs, i) == IF i = 1 THEN seqs[i] ELSE F[i - 1] \o seqs[i]

(* FlattenSeq takes the value of any function that goes on prefix by       *)
(* prefix, given that all such functions end alike ...                     *)
LEMMA FlattenIs ==
    ASSUME NEW seqs, Len(seqs) # 0, NEW F,
           F = [i \in 1 .. Len(seqs) |-> FlatStep(F, seqs, i)],
           \A G : G = [i \in 1 .. Len(seqs) |-> FlatStep(G, seqs, i)]
                    => G[Len(seqs)] = F[Len(seqs)]
    PROVE  FlattenSeq(seqs) = F[Len(seqs)]
BY DEF FlattenSeq, FlatStep

Flattens(F, seqs, n) == \A i \in 1 .. n : F[i] = FlatStep(F, seqs, i)

(* ... which they do. *)
LEMMA FlatUnique ==
    ASSUME NEW seqs, NEW n \in Nat \ {0}, NEW F, NEW G, Flattens(F, seqs, n),
           Flattens(G, seqs, n)
    PROVE  G[n] = F[n]
<1> DEFINE T == {k \in Nat : k \in 1 .. n => G[k] = F[k]}
<1>1. 0 \in T
  OBVIOUS
<1>2. ASSUME NEW k \in Nat, k \in T PROVE k + 1 \in T
  <2>1. CASE k + 1 \in 1 .. n
    <3>1. F[k + 1] = FlatStep(F, seqs, k + 1) /\ G[k + 1] = FlatStep(G, seqs, k + 1)
      BY <2>1 DEF Flattens
    <3>2. (k + 1) - 1 = k
      OBVIOUS
    <3>3. k = 0 \/ G[k] = F[k]
      BY <1>2, <2>1
    <3> QED BY <3>1, <3>2, <3>3 DEF FlatStep
  <2> QED BY <2>1
<1>3. ASSUME n \in T PROVE G[n] = F[n]
  BY <1>3
<1> HIDE DEF T
<1> QED BY <1>1, <1>2, <1>3, SetInduction

Prefix(seqs, n) == [i \in 1 .. n |-> seqs[i]]
Flat(seqs, n) == FlattenSeq(Prefix(seqs, n))

(* A prefix has its length and its elements; the longest is the whole. *)
LEMMA PrefixFacts ==
    ASSUME NEW S, NEW seqs \in Seq(S)
    PROVE  /\ \A n \in 0 .. Len(seqs) : /\ Prefix(seqs, n) \in Seq(S)
                                        /\ Len(Prefix(seqs, n)) = n
                                        /\ \A i \in 1 .. n : Prefix(seqs, n)[i] = seqs[i]
           /\ Prefix(seqs, Len(seqs)) = seqs
<1>1. ASSUME NEW n \in 0 .. Len(seqs)
      PROVE  /\ Prefix(seqs, n) \in Seq(S) /\ Len(Prefix(seqs, n)) = n
             /\ \A i \in 1 .. n : Prefix(seqs, n)[i] = seqs[i]
  BY DEF Prefix
<1>2. Prefix(seqs, Len(seqs)) = seqs
  BY DEF Prefix
<1> QED BY <1>1, <1>2

Unfolded(seqs, n) ==
    Flat(seqs, n) = IF n = 1 THEN seqs[1] ELSE Flat(seqs, n - 1) \o seqs[n]

(* What the first n sequences flatten to, from the first n - 1. *)
LEMMA FlatUnfold ==
    ASSUME NEW S, NEW seqs \in Seq(Seq(S))
    PROVE  /\ Flat(seqs, 0) = <<>>
           /\ \A n \in 1 .. Len(seqs) : Unfolded(seqs, n)
<1>1. Flat(seqs, 0) = <<>>
  <2>1. Prefix(seqs, 0) = <<>> /\ Len(Prefix(seqs, 0)) = 0
    BY PrefixFacts DEF Prefix
  <2> QED BY <2>1 DEF Flat, FlattenSeq
<1> DEFINE T == {n \in Nat : n <= Len(seqs) => \A i \in 1 .. n : Unfolded(seqs, i)}
<1>2. 0 \in T
  OBVIOUS
<1>3. ASSUME NEW k \in Nat, k \in T PROVE k + 1 \in T
  <2> SUFFICES ASSUME k + 1 <= Len(seqs) PROVE \A i \in 1 .. k + 1 : Unfolded(seqs, i)
    OBVIOUS
  <2> DEFINE n == k + 1
             p == Prefix(seqs, n)
             F == [i \in 1 .. n |-> IF i = 1 THEN seqs[1] ELSE Flat(seqs, i - 1) \o seqs[i]]
  <2>1. \A i \in 1 .. k : Unfolded(seqs, i)
    BY <1>3
  <2>2. Len(p) = n /\ n \in Nat \ {0} /\ \A i \in 1 .. n : p[i] = seqs[i]
    BY PrefixFacts
  <2>3. ASSUME NEW i \in 1 .. n PROVE F[i] = FlatStep(F, p, i)
    <3>1. CASE i = 1
      BY <2>2, <3>1 DEF FlatStep
    <3>2. CASE i # 1
      <4>1. i - 1 \in 1 .. k /\ i - 1 \in 1 .. n
        BY <3>2
      <4>2. F[i - 1] = Flat(seqs, i - 1)
        BY <2>1, <4>1 DEF Unfolded
      <4>3. F[i] = Flat(seqs, i - 1) \o seqs[i]
        BY <3>2
      <4> HIDE DEF F
      <4> QED BY <2>2, <3>2, <4>2, <4>3 DEF FlatStep
    <3> QED BY <3>1, <3>2
  <2>4. /\ F = [i \in 1 .. n |-> F[i]]
        /\ F[n] = IF n = 1 THEN seqs[1] ELSE Flat(seqs, n - 1) \o seqs[n]
    BY <2>2
  <2> HIDE DEF F, n, p
  <2>5. F = [i \in 1 .. n |-> FlatStep(F, p, i)]
    BY <2>3, <2>4
  <2>6. \A G : G = [i \in 1 .. n |-> FlatStep(G, p, i)] => G[n] = F[n]
    <3>1. n \in Nat \ {0} /\ Flattens(F, p, n)
      BY <2>2, <2>3 DEF Flattens
    <3>2. ASSUME NEW G, Flattens(G, p, n) PROVE G[n] = F[n]
      BY <3>1, <3>2, FlatUnique
    <3> QED BY <3>2 DEF Flattens
  <2>7. FlattenSeq(p) = F[n]
    BY ZenonT(30), <2>2, <2>5, <2>6, FlattenIs
  <2>8. Unfolded(seqs, n)
    BY <2>4, <2>7 DEF p, Flat, Unfolded
  <2> QED BY <2>1, <2>8 DEF n
<1>4. ASSUME Len(seqs) \in T PROVE \A i \in 1 .. Len(seqs) : Unfolded(seqs, i)
  BY <1>4
<1>5. Len(seqs) \in Nat
  OBVIOUS
<1> HIDE DEF T
<1>6. \A i \in 1 .. Len(seqs) : Unfolded(seqs, i)
  BY <1>2, <1>3, <1>4, <1>5, SetInduction
<1> QED BY <1>1, <1>6

(* It is a sequence of the same elements. *)
LEMMA FlatType ==
    ASSUME NEW S, NEW seqs \in Seq(Seq(S))
    PROVE  \A n \in 0 .. Len(seqs) : Flat(seqs, n) \in Seq(S)
<1> DEFINE T == {n \in Nat : n <= Len(seqs) => Flat(seqs, n) \in Seq(S)}
<1>1. 0 \in T
  <2>1. <<>> \in Seq(S)
    OBVIOUS
  <2> QED BY <2>1, FlatUnfold
<1>2. ASSUME NEW k \in Nat, k \in T PROVE k + 1 \in T
  <2> SUFFICES ASSUME k + 1 <= Len(seqs) PROVE Flat(seqs, k + 1) \in Seq(S)
    OBVIOUS
  <2>1. k + 1 \in 1 .. Len(seqs) /\ (k + 1) - 1 = k /\ seqs[k + 1] \in Seq(S)
    OBVIOUS
  <2>2. Flat(seqs, k) \in Seq(S)
    BY <1>2
  <2>3. Flat(seqs, k + 1) = IF k + 1 = 1 THEN seqs[1] ELSE Flat(seqs, k) \o seqs[k + 1]
    BY <2>1, FlatUnfold DEF Unfolded
  <2>4. Flat(seqs, k) \o seqs[k + 1] \in Seq(S)
    BY <2>1, <2>2, ConcatProperties
  <2> QED BY <2>1, <2>3, <2>4
<1>3. ASSUME \A n \in Nat : n \in T PROVE \A n \in 0 .. Len(seqs) : Flat(seqs, n) \in Seq(S)
  BY <1>3
<1> HIDE DEF T
<1> QED BY <1>1, <1>2, <1>3, SetInduction

(* One sequence more: it stands behind what was there. *)
Extended(s, t, u) ==
    /\ Len(u) = Len(s) + Len(t)
    /\ \A x \in 1 .. Len(s) : u[x] = s[x]
    /\ \A y \in 1 .. Len(t) : u[Len(s) + y] = t[y]

(* The n-th sequence stands behind what the first n - 1 flatten to. *)
LEMMA FlatNext ==
    ASSUME NEW S, NEW seqs \in Seq(Seq(S)), NEW n \in 1 .. Len(seqs)
    PROVE  Extended(Flat(seqs, n - 1), seqs[n], Flat(seqs, n))
<1>1. n - 1 \in 0 .. Len(seqs) /\ n \in 0 .. Len(seqs) /\ seqs[n] \in Seq(S)
  OBVIOUS
<1>2. Flat(seqs, n - 1) \in Seq(S)
  BY <1>1, FlatType
<1>3. Flat(seqs, n) = IF n = 1 THEN seqs[1] ELSE Flat(seqs, n - 1) \o seqs[n]
  BY FlatUnfold DEF Unfolded
<1>4. CASE n = 1
  <2>1. Flat(seqs, n - 1) = <<>> /\ Flat(seqs, n) = seqs[n]
    BY <1>3, <1>4, FlatUnfold
  <2> DEFINE t == seqs[n]
  <2>2. t \in Seq(S) /\ Len(t) \in Nat /\ Len(<<>>) = 0
    BY <1>1
  <2> HIDE DEF t
  <2>3. Extended(<<>>, t, t)
    <3>1. \A y \in 1 .. Len(t) : 0 + y = y
      BY <2>2
    <3>2. Len(t) = 0 + Len(t) /\ 1 .. 0 = {}
      BY <2>2
    <3> QED BY <2>2, <3>1, <3>2 DEF Extended
  <2> QED BY <2>1, <2>3 DEF t
<1>5. CASE n # 1
  <2>1. Flat(seqs, n) = Flat(seqs, n - 1) \o seqs[n]
    BY <1>3, <1>5
  <2> DEFINE s == Flat(seqs, n - 1)
             t == seqs[n]
  <2>2. s \in Seq(S) /\ t \in Seq(S) /\ Flat(seqs, n) = s \o t
    BY <1>1, <1>2, <2>1
  <2> HIDE DEF s, t
  <2>3. Extended(s, t, s \o t)
    BY SMTT(30), <2>2 DEF Extended
  <2> QED BY <2>2, <2>3 DEF s, t
<1> QED BY <1>4, <1>5

(* What was there stays. *)
Begins(s, u) == Len(s) <= Len(u) /\ \A x \in 1 .. Len(s) : u[x] = s[x]

(* What begins a sequence begins its extensions. *)
LEMMA BeginsNext ==
    ASSUME NEW a, NEW b, NEW c, NEW t, Len(a) \in Nat, Len(b) \in Nat, Len(t) \in Nat,
           Begins(a, b), Extended(b, t, c)
    PROVE  Begins(a, c)
<1>1. Len(a) <= Len(c)
  BY DEF Begins, Extended
<1>2. ASSUME NEW x \in 1 .. Len(a) PROVE c[x] = a[x]
  <2>1. x \in 1 .. Len(b) /\ b[x] = a[x]
    BY DEF Begins
  <2> QED BY <2>1 DEF Extended
<1> QED BY <1>1, <1>2 DEF Begins

(* Where an extension stands in a longer sequence that begins with it. *)
LEMMA BeginsAt ==
    ASSUME NEW s, NEW t, NEW u, NEW w, Len(s) \in Nat, Len(t) \in Nat,
           Extended(s, t, u), Begins(u, w)
    PROVE  /\ Len(u) = Len(s) + Len(t) /\ Len(u) <= Len(w)
           /\ \A y \in 1 .. Len(t) : w[Len(s) + y] = t[y]
<1>1. ASSUME NEW y \in 1 .. Len(t) PROVE w[Len(s) + y] = t[y]
  <2>1. Len(s) + y \in 1 .. Len(u)
    BY DEF Extended
  <2>2. w[Len(s) + y] = u[Len(s) + y]
    BY <2>1 DEF Begins
  <2> QED BY <2>2 DEF Extended
<1> QED BY <1>1 DEF Extended, Begins

(* What a prefix flattens to begins what the whole does. *)
LEMMA FlatBegins ==
    ASSUME NEW S, NEW seqs \in Seq(Seq(S)), NEW m \in 0 .. Len(seqs)
    PROVE  Begins(Flat(seqs, m), FlattenSeq(seqs))
<1> DEFINE T == {k \in Nat : m + k <= Len(seqs) => Begins(Flat(seqs, m), Flat(seqs, m + k))}
<1>0. \A n \in 0 .. Len(seqs) : Len(Flat(seqs, n)) \in Nat
  BY FlatType
<1>1. 0 \in T
  <2>1. m + 0 = m
    OBVIOUS
  <2> QED BY <1>0, <2>1 DEF Begins
<1>2. ASSUME NEW k \in Nat, k \in T PROVE k + 1 \in T
  <2> SUFFICES ASSUME m + (k + 1) <= Len(seqs)
               PROVE  Begins(Flat(seqs, m), Flat(seqs, m + (k + 1)))
    OBVIOUS
  <2> DEFINE n == m + (k + 1)
  <2>1. n \in 1 .. Len(seqs) /\ n - 1 = m + k /\ n - 1 \in 0 .. Len(seqs)
    OBVIOUS
  <2>2. Begins(Flat(seqs, m), Flat(seqs, n - 1))
    BY <1>2, <2>1
  <2> HIDE DEF n
  <2>3. Extended(Flat(seqs, n - 1), seqs[n], Flat(seqs, n))
    BY <2>1, FlatNext
  <2>4. /\ Len(Flat(seqs, n - 1)) \in Nat /\ Len(Flat(seqs, m)) \in Nat
        /\ Len(seqs[n]) \in Nat
    BY <1>0, <2>1
  <2>5. Begins(Flat(seqs, m), Flat(seqs, n))
    BY <2>2, <2>3, <2>4, BeginsNext
  <2> QED BY <2>5 DEF n
<1>3. ASSUME \A k \in Nat : k \in T PROVE Begins(Flat(seqs, m), Flat(seqs, Len(seqs)))
  <2>1. PICK k \in Nat : m + k = Len(seqs)
    <3>1. Len(seqs) - m \in Nat /\ m + (Len(seqs) - m) = Len(seqs)
      OBVIOUS
    <3> QED BY <3>1
  <2>2. k \in T /\ m + k <= Len(seqs)
    BY <1>3, <2>1
  <2> QED BY <2>1, <2>2
<1> HIDE DEF T
<1>4. Flat(seqs, Len(seqs)) = FlattenSeq(seqs)
  BY PrefixFacts DEF Flat
<1> QED BY <1>1, <1>2, <1>3, <1>4, SetInduction

(* Where FlattenSeq puts the n-th sequence. *)
LEMMA FlattenAt ==
    ASSUME NEW S, NEW seqs \in Seq(Seq(S))
    PROVE  /\ FlattenSeq(seqs) \in Seq(S)
           /\ Len(FlattenSeq(seqs)) = Len(Flat(seqs, Len(seqs)))
           /\ Len(Flat(seqs, 0)) = 0
           /\ \A n \in 1 .. Len(seqs) :
                /\ Len(Flat(seqs, n)) = Len(Flat(seqs, n - 1)) + Len(seqs[n])
                /\ Len(Flat(seqs, n - 1)) \in Nat
                /\ Len(Flat(seqs, n)) <= Len(FlattenSeq(seqs))
                /\ \A y \in 1 .. Len(seqs[n]) :
                    FlattenSeq(seqs)[Len(Flat(seqs, n - 1)) + y] = seqs[n][y]
<1>1. Flat(seqs, Len(seqs)) = FlattenSeq(seqs) /\ Flat(seqs, 0) = <<>>
  BY PrefixFacts, FlatUnfold DEF Flat
<1>2. FlattenSeq(seqs) \in Seq(S)
  BY <1>1, FlatType
<1>3. ASSUME NEW n \in 1 .. Len(seqs)
      PROVE  /\ Len(Flat(seqs, n)) = Len(Flat(seqs, n - 1)) + Len(seqs[n])
             /\ Len(Flat(seqs, n - 1)) \in Nat
             /\ Len(Flat(seqs, n)) <= Len(FlattenSeq(seqs))
             /\ \A y \in 1 .. Len(seqs[n]) :
                    FlattenSeq(seqs)[Len(Flat(seqs, n - 1)) + y] = seqs[n][y]
  <2>1. Extended(Flat(seqs, n - 1), seqs[n], Flat(seqs, n))
    BY FlatNext
  <2>2. n \in 0 .. Len(seqs) /\ n - 1 \in 0 .. Len(seqs)
    OBVIOUS
  <2>3. Begins(Flat(seqs, n), FlattenSeq(seqs))
    BY <2>2, FlatBegins
  <2>4. Len(Flat(seqs, n - 1)) \in Nat /\ Len(seqs[n]) \in Nat
    BY <2>2, FlatType
  <2> DEFINE s == Flat(seqs, n - 1)
             t == seqs[n]
             u == Flat(seqs, n)
             w == FlattenSeq(seqs)
  <2> HIDE DEF s, t, u, w
  <2>5. /\ Len(s) \in Nat /\ Len(t) \in Nat /\ Extended(s, t, u) /\ Begins(u, w)
    BY <2>1, <2>3, <2>4 DEF s, t, u, w
  <2>6. /\ Len(u) = Len(s) + Len(t) /\ Len(u) <= Len(w)
        /\ \A y \in 1 .. Len(t) : w[Len(s) + y] = t[y]
    BY <2>5, BeginsAt
  <2> QED BY <2>5, <2>6 DEF s, t, u, w
<1> QED BY <1>1, <1>2, <1>3

(* Concatenation puts the second sequence behind the first. *)
LEMMA ConcatAt ==
    ASSUME NEW S, NEW s \in Seq(S), NEW t \in Seq(S)
    PROVE  s \o t \in Seq(S) /\ Extended(s, t, s \o t)
  BY DEF Extended

(* Sequences of one and of two fields, and mappings of a sequence. *)
LEMMA OneField ==
    ASSUME NEW S, NEW x \in S
    PROVE  <<x>> \in Seq(S) /\ Len(<<x>>) = 1 /\ <<x>>[1] = x
OBVIOUS

LEMMA TwoFields ==
    ASSUME NEW S, NEW x \in S, NEW y \in S
    PROVE  /\ <<x, y>> \in Seq(S) /\ Len(<<x, y>>) = 2
           /\ <<x, y>>[1] = x /\ <<x, y>>[2] = y
OBVIOUS

LEMMA Mapped ==
    ASSUME NEW S, NEW n \in Nat, NEW f, f = [i \in 1 .. n |-> f[i]],
           \A i \in 1 .. n : f[i] \in S
    PROVE  f \in Seq(S) /\ Len(f) = n
OBVIOUS
-----------------------------------------------------------------------------
(* The manifest's fields and files, over letters L and hashes H. *)
Fields(L, H) == {Num(k) : k \in Nat} \cup {Letter(l) : l \in L} \cup H \cup {Magic}
File(L, H) == [name : Seq(L), fileHash : H, chunks : Seq(H)]
Pairs(chunks) == [i \in DOMAIN chunks |-> <<chunks[i], Num(1)>>]

(* The list of chunks: a hash and a length for each. *)
LEMMA PairsAt ==
    ASSUME NEW L, NEW H, NEW chunks \in Seq(H)
    PROVE  LET P == FlattenSeq(Pairs(chunks)) IN
           /\ P \in Seq(Fields(L, H)) /\ Len(P) = 2 * Len(chunks)
           /\ \A i \in 1 .. Len(chunks) : P[2 * i - 1] = chunks[i] /\ P[2 * i] = Num(1)
<1> DEFINE S == Fields(L, H)
           seqs == Pairs(chunks)
<1>1. \A i \in 1 .. Len(chunks) : <<chunks[i], Num(1)>> \in Seq(S)
  <2> SUFFICES ASSUME NEW i \in 1 .. Len(chunks) PROVE <<chunks[i], Num(1)>> \in Seq(S)
    OBVIOUS
  <2>1. chunks[i] \in S /\ Num(1) \in S
    BY DEF Fields
  <2> HIDE DEF S
  <2> QED BY <2>1, TwoFields
<1>2. /\ seqs \in Seq(Seq(S)) /\ Len(seqs) = Len(chunks)
      /\ \A i \in 1 .. Len(chunks) : seqs[i] = <<chunks[i], Num(1)>>
  <2>1. DOMAIN chunks = 1 .. Len(chunks) /\ Len(chunks) \in Nat
    OBVIOUS
  <2>2. \A i \in 1 .. Len(chunks) : seqs[i] = <<chunks[i], Num(1)>>
    BY <2>1 DEF Pairs
  <2>3. seqs = [i \in 1 .. Len(chunks) |-> seqs[i]]
    BY <2>1 DEF Pairs
  <2>4. \A i \in 1 .. Len(chunks) : seqs[i] \in Seq(S)
    BY <1>1, <2>2
  <2> HIDE DEF S, seqs
  <2> QED BY <2>1, <2>2, <2>3, <2>4, Mapped
<1> HIDE DEF S, seqs
<1>3. \A i \in 1 .. Len(chunks) : Len(seqs[i]) = 2 /\ seqs[i][1] = chunks[i] /\ seqs[i][2] = Num(1)
  <2> SUFFICES ASSUME NEW i \in 1 .. Len(chunks)
               PROVE  Len(seqs[i]) = 2 /\ seqs[i][1] = chunks[i] /\ seqs[i][2] = Num(1)
    OBVIOUS
  <2>1. seqs[i] = <<chunks[i], Num(1)>>
    BY <1>2
  <2>2. Len(<<chunks[i], Num(1)>>) = 2
    OBVIOUS
  <2>3. <<chunks[i], Num(1)>>[1] = chunks[i] /\ <<chunks[i], Num(1)>>[2] = Num(1)
    OBVIOUS
  <2> QED BY <2>1, <2>2, <2>3
<1>4. /\ FlattenSeq(seqs) \in Seq(S)
      /\ Len(FlattenSeq(seqs)) = Len(Flat(seqs, Len(chunks)))
      /\ Len(Flat(seqs, 0)) = 0
      /\ \A n \in 1 .. Len(chunks) :
            /\ Len(Flat(seqs, n)) = Len(Flat(seqs, n - 1)) + 2
            /\ \A y \in 1 .. 2 :
                    FlattenSeq(seqs)[Len(Flat(seqs, n - 1)) + y] = seqs[n][y]
  <2>1. /\ FlattenSeq(seqs) \in Seq(S)
        /\ Len(FlattenSeq(seqs)) = Len(Flat(seqs, Len(seqs)))
        /\ Len(Flat(seqs, 0)) = 0
        /\ \A n \in 1 .. Len(seqs) :
                /\ Len(Flat(seqs, n)) = Len(Flat(seqs, n - 1)) + Len(seqs[n])
                /\ \A y \in 1 .. Len(seqs[n]) :
                    FlattenSeq(seqs)[Len(Flat(seqs, n - 1)) + y] = seqs[n][y]
    BY <1>2, FlattenAt
  <2> QED BY <1>2, <1>3, <2>1
<1> DEFINE T == {n \in Nat : n <= Len(chunks) => Len(Flat(seqs, n)) = 2 * n}
<1>5. 0 \in T
  BY <1>4
<1>6. ASSUME NEW k \in Nat, k \in T PROVE k + 1 \in T
  <2> SUFFICES ASSUME k + 1 <= Len(chunks) PROVE Len(Flat(seqs, k + 1)) = 2 * (k + 1)
    OBVIOUS
  <2>1. k + 1 \in 1 .. Len(chunks) /\ (k + 1) - 1 = k /\ k <= Len(chunks)
    OBVIOUS
  <2>2. Len(Flat(seqs, k + 1)) = Len(Flat(seqs, k)) + 2
    BY <1>4, <2>1
  <2> QED BY <1>6, <2>1, <2>2
<1>7. ASSUME \A n \in Nat : n \in T
      PROVE  \A n \in 0 .. Len(chunks) : Len(Flat(seqs, n)) = 2 * n
  BY <1>7
<1> HIDE DEF T
<1>8. \A n \in 0 .. Len(chunks) : Len(Flat(seqs, n)) = 2 * n
  BY <1>5, <1>6, <1>7, SetInduction
<1>9. Len(FlattenSeq(seqs)) = 2 * Len(chunks)
  BY <1>4, <1>8
<1>10. ASSUME NEW i \in 1 .. Len(chunks)
       PROVE  FlattenSeq(seqs)[2 * i - 1] = chunks[i] /\ FlattenSeq(seqs)[2 * i] = Num(1)
  <2>1. i - 1 \in 0 .. Len(chunks) /\ 2 * (i - 1) + 1 = 2 * i - 1 /\ 2 * (i - 1) + 2 = 2 * i
    OBVIOUS
  <2>2. Len(Flat(seqs, i - 1)) = 2 * (i - 1)
    BY <1>8, <2>1
  <2>3. \A y \in 1 .. 2 : FlattenSeq(seqs)[2 * (i - 1) + y] = seqs[i][y]
    BY <1>4, <2>2
  <2>4. /\ FlattenSeq(seqs)[2 * (i - 1) + 1] = seqs[i][1]
        /\ FlattenSeq(seqs)[2 * (i - 1) + 2] = seqs[i][2]
    BY <2>3
  <2> QED BY <1>3, <2>1, <2>4
<1> QED BY <1>4, <1>9, <1>10 DEF seqs, S

(* Where encode puts the parts of a file. *)
EncodedAt(E, f, n, m) ==
    /\ Len(E) = n + 3 + 2 * m
    /\ E[1] = Num(n % NameWidth)
    /\ \A i \in 1 .. n : E[1 + i] = Letter(f.name[i])
    /\ E[n + 2] = f.fileHash /\ E[n + 3] = Num(m)
    /\ \A i \in 1 .. m : E[n + 3 + (2 * i - 1)] = f.chunks[i] /\ E[n + 3 + 2 * i] = Num(1)

(* encode writes a file as EncodedAt says. *)
LEMMA EncodeFileAt ==
    ASSUME NameWidth \in Nat \ {0}, NEW L, NEW H, NEW f \in File(L, H)
    PROVE  /\ EncodeFile(f) \in Seq(Fields(L, H))
           /\ EncodedAt(EncodeFile(f), f, Len(f.name), Len(f.chunks))
<1> DEFINE S == Fields(L, H)
           n == Len(f.name)
           m == Len(f.chunks)
           A == <<Num(n % NameWidth)>>
           B == [i \in DOMAIN f.name |-> Letter(f.name[i])]
           C == <<f.fileHash, Num(m)>>
           D == FlattenSeq(Pairs(f.chunks))
<1>1. f.name \in Seq(L) /\ f.fileHash \in H /\ f.chunks \in Seq(H)
  BY DEF File
<1>2. n \in Nat /\ m \in Nat
  BY <1>1
<1>20. n % NameWidth \in Nat
  <2> HIDE DEF n
  <2> QED BY <1>2
<1>3. A \in Seq(S) /\ Len(A) = 1 /\ A[1] = Num(n % NameWidth)
  <2>1. Num(n % NameWidth) \in S
    BY <1>20 DEF Fields
  <2> HIDE DEF S
  <2> QED BY <2>1, OneField
<1>4. B \in Seq(S) /\ Len(B) = n /\ \A i \in 1 .. n : B[i] = Letter(f.name[i])
  <2>1. DOMAIN f.name = 1 .. n /\ \A i \in 1 .. n : Letter(f.name[i]) \in S
    BY <1>1 DEF Fields
  <2>2. B = [i \in 1 .. n |-> B[i]] /\ \A i \in 1 .. n : B[i] = Letter(f.name[i])
    BY <2>1
  <2> HIDE DEF S, B, n
  <2> QED BY <1>2, <2>1, <2>2, Mapped
<1>5. C \in Seq(S) /\ Len(C) = 2 /\ C[1] = f.fileHash /\ C[2] = Num(m)
  <2>1. Num(m) \in S /\ f.fileHash \in S
    BY <1>1, <1>2 DEF Fields
  <2> HIDE DEF S, m
  <2> QED BY <2>1, TwoFields
<1>6. /\ D \in Seq(S) /\ Len(D) = 2 * m
      /\ \A i \in 1 .. m : D[2 * i - 1] = f.chunks[i] /\ D[2 * i] = Num(1)
  BY <1>1, PairsAt
<1>7. EncodeFile(f) = A \o B \o C \o D
  BY DEF EncodeFile, Pairs
<1> DEFINE AB == A \o B
           ABC == AB \o C
           E == ABC \o D
<1>16. EncodeFile(f) = E
  BY <1>7
<1> HIDE DEF A, B, C, D, S, n, m
<1>8. AB \in Seq(S) /\ Extended(A, B, AB)
  BY <1>3, <1>4, ConcatAt
<1> HIDE DEF AB
<1>9. ABC \in Seq(S) /\ Extended(AB, C, ABC)
  BY <1>5, <1>8, ConcatAt
<1> HIDE DEF ABC
<1>10. E \in Seq(S) /\ Extended(ABC, D, E)
  BY <1>6, <1>9, ConcatAt
<1> HIDE DEF E
<1>11. /\ Len(AB) = 1 + n /\ Len(ABC) = n + 3 /\ Len(E) = n + 3 + 2 * m
  BY <1>2, <1>3, <1>4, <1>5, <1>6, <1>8, <1>9, <1>10 DEF Extended
<1>12. \A i \in 1 .. m : 2 * i - 1 \in 1 .. 2 * m /\ 2 * i \in 1 .. 2 * m
  BY <1>2
<1>13. \A i \in 1 .. m : /\ E[n + 3 + (2 * i - 1)] = f.chunks[i]
                         /\ E[n + 3 + 2 * i] = Num(1)
  <2>1. \A y \in 1 .. 2 * m : E[n + 3 + y] = D[y]
    BY <1>6, <1>10, <1>11 DEF Extended
  <2> QED BY <1>6, <1>12, <2>1
<1>17. \A x \in 1 .. n + 3 : E[x] = ABC[x]
  BY <1>10, <1>11 DEF Extended
<1>18. \A x \in 1 .. 1 + n : ABC[x] = AB[x]
  BY <1>9, <1>11 DEF Extended
<1>14. E[n + 2] = f.fileHash /\ E[n + 3] = Num(m)
  <2>1. n + 2 \in 1 .. n + 3 /\ n + 3 \in 1 .. n + 3 /\ (1 + n) + 1 = n + 2 /\ (1 + n) + 2 = n + 3
    BY <1>2
  <2>2. ABC[(1 + n) + 1] = C[1] /\ ABC[(1 + n) + 2] = C[2]
    BY <1>5, <1>9, <1>11 DEF Extended
  <2> QED BY <1>5, <1>17, <2>1, <2>2
<1>15. E[1] = Num(n % NameWidth) /\ \A i \in 1 .. n : E[1 + i] = Letter(f.name[i])
  <2>1. 1 \in 1 .. n + 3 /\ 1 \in 1 .. 1 + n
    BY <1>2
  <2>2. \A i \in 1 .. n : 1 + i \in 1 .. n + 3 /\ 1 + i \in 1 .. 1 + n
    BY <1>2
  <2>3. AB[1] = A[1] /\ \A i \in 1 .. n : AB[1 + i] = B[i]
    BY <1>3, <1>4, <1>8 DEF Extended
  <2>4. E[1] = A[1] /\ \A i \in 1 .. n : E[1 + i] = B[i]
    BY <1>17, <1>18, <2>1, <2>2, <2>3
  <2> QED BY <1>3, <1>4, <2>4
<1> QED BY <1>10, <1>11, <1>13, <1>14, <1>15, <1>16 DEF EncodedAt, S, n, m

(* The files of a manifest one after the other, and where each begins. *)
Encoded(files) == [i \in DOMAIN files |-> EncodeFile(files[i])]
Off(files, k) == Len(Flat(Encoded(files), k))

(* The body: its header, and each file behind the one before it. *)
LEMMA EncodeBodyAt ==
    ASSUME NameWidth \in Nat \ {0}, NEW L, NEW H, NEW files \in Seq(File(L, H))
    PROVE  LET B == EncodeBody(files) IN
           /\ B \in Seq(Fields(L, H)) /\ Len(B) = 4 + Off(files, Len(files))
           /\ B[1] = Magic /\ B[4] = Num(Len(files))
           /\ Off(files, 0) = 0
           /\ \A k \in 0 .. Len(files) : Off(files, k) \in Nat
           /\ \A k \in 1 .. Len(files) :
                LET E == EncodeFile(files[k]) IN
                /\ Len(E) \in Nat /\ Off(files, k) = Off(files, k - 1) + Len(E)
                /\ Off(files, k) <= Off(files, Len(files))
                /\ \A y \in 1 .. Len(E) : B[4 + (Off(files, k - 1) + y)] = E[y]
<1> DEFINE S == Fields(L, H)
           seqs == Encoded(files)
           A == <<Magic, Num(FormatVersion), Num(0), Num(Len(files))>>
           G == FlattenSeq(seqs)
           B == EncodeBody(files)
<1>1. /\ seqs \in Seq(Seq(S)) /\ Len(seqs) = Len(files) /\ Len(files) \in Nat
      /\ \A k \in 1 .. Len(files) : seqs[k] = EncodeFile(files[k]) /\ seqs[k] \in Seq(S)
  <2>1. DOMAIN files = 1 .. Len(files) /\ Len(files) \in Nat
    OBVIOUS
  <2>2. \A k \in 1 .. Len(files) : EncodeFile(files[k]) \in Seq(S)
    BY <2>1, EncodeFileAt
  <2>3. /\ seqs = [i \in 1 .. Len(files) |-> seqs[i]]
        /\ \A k \in 1 .. Len(files) : seqs[k] = EncodeFile(files[k])
    BY <2>1 DEF Encoded
  <2> HIDE DEF seqs, S
  <2>4. \A k \in 1 .. Len(files) : seqs[k] \in Seq(S)
    BY <2>2, <2>3
  <2> QED BY <2>1, <2>3, <2>4, Mapped
<1>2. /\ A \in Seq(S) /\ Len(A) = 4 /\ A[1] = Magic /\ A[4] = Num(Len(files))
  <2>1. Magic \in S /\ Num(FormatVersion) \in S /\ Num(0) \in S /\ Num(Len(files)) \in S
    BY <1>1 DEF Fields, FormatVersion
  <2> HIDE DEF S
  <2> QED BY <2>1
<1>3. B = A \o G
  BY DEF EncodeBody, Encoded
<1> HIDE DEF seqs, S, A, B
<1>4. /\ G \in Seq(S) /\ Len(G) = Len(Flat(seqs, Len(files))) /\ Len(Flat(seqs, 0)) = 0
      /\ \A n \in 1 .. Len(files) :
                /\ Len(Flat(seqs, n)) = Len(Flat(seqs, n - 1)) + Len(seqs[n])
                /\ Len(Flat(seqs, n - 1)) \in Nat
                /\ Len(Flat(seqs, n)) <= Len(G)
                /\ \A y \in 1 .. Len(seqs[n]) : G[Len(Flat(seqs, n - 1)) + y] = seqs[n][y]
  <2>1. /\ G \in Seq(S) /\ Len(G) = Len(Flat(seqs, Len(seqs))) /\ Len(Flat(seqs, 0)) = 0
        /\ \A n \in 1 .. Len(seqs) :
                /\ Len(Flat(seqs, n)) = Len(Flat(seqs, n - 1)) + Len(seqs[n])
                /\ Len(Flat(seqs, n - 1)) \in Nat
                /\ Len(Flat(seqs, n)) <= Len(G)
                /\ \A y \in 1 .. Len(seqs[n]) : G[Len(Flat(seqs, n - 1)) + y] = seqs[n][y]
    BY <1>1, FlattenAt
  <2> HIDE DEF G
  <2> QED BY <1>1, <2>1
<1>5. \A k \in 0 .. Len(files) : Len(Flat(seqs, k)) \in Nat
  BY <1>1, FlatType
<1> HIDE DEF G
<1>6. B \in Seq(S) /\ Extended(A, G, B)
  BY <1>2, <1>3, <1>4, ConcatAt
<1>7. /\ Len(B) = 4 + Len(G) /\ B[1] = Magic /\ B[4] = Num(Len(files))
      /\ \A y \in 1 .. Len(G) : B[4 + y] = G[y]
  BY <1>2, <1>6 DEF Extended
<1>8. ASSUME NEW k \in 1 .. Len(files), NEW y \in 1 .. Len(seqs[k])
      PROVE  B[4 + (Len(Flat(seqs, k - 1)) + y)] = seqs[k][y]
  <2> DEFINE o == Len(Flat(seqs, k - 1))
             e == Len(seqs[k])
  <2>1. o \in Nat /\ e \in Nat /\ o + e <= Len(G) /\ Len(G) \in Nat /\ G[o + y] = seqs[k][y]
    <3>1. o \in Nat /\ G[o + y] = seqs[k][y] /\ Len(Flat(seqs, k)) = o + e
      BY <1>4, <1>8
    <3>2. seqs[k] \in Seq(S) /\ G \in Seq(S)
      BY <1>1, <1>4
    <3>3. e \in Nat /\ Len(G) \in Nat
      BY <3>2
    <3>4. Len(Flat(seqs, k)) <= Len(G)
      BY <1>4
    <3> QED BY <3>1, <3>3, <3>4
  <2> HIDE DEF o
  <2>2. o + y \in 1 .. Len(G)
    <3>1. y \in 1 .. e
      BY <1>8
    <3> HIDE DEF e
    <3> QED BY <2>1, <3>1
  <2>3. B[4 + (o + y)] = G[o + y]
    BY <1>7, <2>2
  <2> QED BY <2>1, <2>3 DEF o
<1>9. \A k \in 0 .. Len(files) : Off(files, k) = Len(Flat(seqs, k))
  BY DEF Off, seqs
<1>10. ASSUME NEW k \in 1 .. Len(files)
       PROVE  LET E == EncodeFile(files[k]) IN
                /\ Len(E) \in Nat /\ Off(files, k) = Off(files, k - 1) + Len(E)
                /\ Off(files, k) <= Off(files, Len(files))
                /\ \A y \in 1 .. Len(E) : B[4 + (Off(files, k - 1) + y)] = E[y]
  <2>1. /\ Off(files, k) = Len(Flat(seqs, k)) /\ Off(files, k - 1) = Len(Flat(seqs, k - 1))
        /\ Off(files, Len(files)) = Len(G)
    <3>1. k \in 0 .. Len(files) /\ k - 1 \in 0 .. Len(files) /\ Len(files) \in 0 .. Len(files)
      BY <1>1
    <3>2. Len(G) = Len(Flat(seqs, Len(files)))
      BY <1>4
    <3> QED BY <1>9, <3>1, <3>2
  <2>2. seqs[k] = EncodeFile(files[k]) /\ Len(seqs[k]) \in Nat
    BY <1>1
  <2> QED BY <1>4, <1>8, <2>1, <2>2
<1>11. Len(B) = 4 + Off(files, Len(files)) /\ Off(files, 0) = 0
  <2>1. Len(files) \in 0 .. Len(files) /\ 0 \in 0 .. Len(files)
    BY <1>1
  <2>2. Off(files, Len(files)) = Len(G) /\ Off(files, 0) = 0
    BY <1>4, <1>9, <2>1
  <2> QED BY <1>7, <2>2
<1>12. \A k \in 0 .. Len(files) : Off(files, k) \in Nat
  BY <1>5, <1>9
<1> QED BY <1>6, <1>7, <1>10, <1>11, <1>12 DEF B, S

(* What decode has read after k files, if it can read them, and the state  *)
(* in which an error leaves it.                                            *)
State(pos, files) == [ok |-> TRUE, pos |-> pos, files |-> files]
Good(files, k) == State(5 + Off(files, k), Prefix(files, k))
Failed(st) == [st EXCEPT !.ok = FALSE]

Fits(body, pos, n, m) ==
    /\ pos + n + 2 + 2 * m <= Len(body) /\ body[pos] = Num(n)
    /\ \A i \in 1 .. n : body[pos + i].kind = "letter"
    /\ body[pos + n + 1].kind = "hash" /\ body[pos + n + 2] = Num(m)
    /\ \A i \in 1 .. m : /\ body[pos + n + 2 * i + 1].kind = "hash"
                         /\ body[pos + n + 2 * i + 2].kind = "num"

(* A file that is there completely is read, and reading goes on behind it. *)
LEMMA ReadFits ==
    ASSUME NEW body, Len(body) \in Nat, NEW pos \in Nat, NEW fs, NEW n \in Nat, NEW m \in Nat,
           Fits(body, pos, n, m)
    PROVE  ReadFile(body, State(pos, fs)) =
             State(pos + n + 2 + 2 * m + 1,
                   Append(fs, [name |-> [i \in 1 .. n |-> body[pos + i].value],
                               fileHash |-> body[pos + n + 1],
                               chunks |-> [i \in 1 .. m |-> body[pos + n + 2 * i + 1]]]))
<1> DEFINE st == State(pos, fs)
           has(p, kind) == p <= Len(body) /\ body[p].kind = kind
<1>1. st.ok /\ st.pos = pos /\ st.files = fs
  BY DEF State
<1>2. Num(n).kind = "num" /\ Num(n).value = n /\ Num(m).kind = "num" /\ Num(m).value = m
  BY DEF Num
<1>3. body[pos].value = n /\ body[pos + n + 2].value = m
  BY <1>2 DEF Fits
<1>4. has(pos, "num") /\ has(pos + n + 1, "hash") /\ has(pos + n + 2, "num")
  BY <1>2 DEF Fits
<1>5. \A i \in 1 .. n : has(pos + i, "letter")
  BY DEF Fits
<1>6. \A i \in 1 .. m : has(pos + n + 2 * i + 1, "hash") /\ has(pos + n + 2 * i + 2, "num")
  BY DEF Fits
<1> DEFINE Readable(p, a, c) ==
               /\ has(p, "num") /\ \A i \in 1 .. a : has(p + i, "letter")
               /\ has(p + a + 1, "hash") /\ has(p + a + 2, "num")
               /\ \A i \in 1 .. c : has(p + a + 2 * i + 1, "hash") /\ has(p + a + 2 * i + 2, "num")
           Read(p, a, c, files) ==
               [ok |-> TRUE, pos |-> p + a + 2 + 2 * c + 1,
                files |-> Append(files, [name |-> [i \in 1 .. a |-> body[p + i].value],
                                         fileHash |-> body[p + a + 1],
                                         chunks |-> [i \in 1 .. c |-> body[p + a + 2 * i + 1]]])]
           first == body[st.pos].value
           second == body[st.pos + first + 2].value
<1>7. ReadFile(body, st) = IF st.ok /\ Readable(st.pos, first, second)
                           THEN Read(st.pos, first, second, st.files)
                           ELSE [st EXCEPT !.ok = FALSE]
  BY DEF ReadFile
<1>8. Readable(pos, n, m)
  BY <1>4, <1>5, <1>6
<1>9. first = n /\ second = m
  BY <1>1, <1>3
<1>10. Read(pos, n, m, fs) = State(pos + n + 2 + 2 * m + 1,
                   Append(fs, [name |-> [i \in 1 .. n |-> body[pos + i].value],
                               fileHash |-> body[pos + n + 1],
                               chunks |-> [i \in 1 .. m |-> body[pos + n + 2 * i + 1]]]))
  BY DEF State
<1> HIDE DEF st, Readable, Read, first, second
<1>11. ReadFile(body, st) = Read(pos, n, m, fs)
  BY <1>1, <1>7, <1>8, <1>9
<1> QED BY <1>10, <1>11 DEF st

(* A name whose length does not fit its field: a letter stands where the   *)
(* hash should be.  Past the end there is nothing to read.                 *)
LEMMA ReadFails ==
    ASSUME NEW body, Len(body) \in Nat, NEW pos \in Nat, NEW fs, NEW n \in Nat,
           \/ pos > Len(body)
           \/ body[pos] = Num(n) /\ body[pos + n + 1].kind = "letter"
    PROVE  ReadFile(body, State(pos, fs)) = Failed(State(pos, fs))
<1> DEFINE st == State(pos, fs)
<1>1. st.pos = pos
  BY DEF State
<1>2. Num(n).value = n
  BY DEF Num
<1> HIDE DEF st
<1>3. CASE pos > Len(body)
  BY <1>1, <1>3 DEF ReadFile, st, Failed
<1>4. CASE body[pos] = Num(n) /\ body[pos + n + 1].kind = "letter"
  BY <1>1, <1>2, <1>4 DEF ReadFile, st, Failed
<1> QED BY <1>3, <1>4

(* After an error no file is read. *)
LEMMA ReadAfterError ==
    ASSUME NEW body, NEW pos, NEW fs
    PROVE  ReadFile(body, Failed(State(pos, fs))) = Failed(State(pos, fs))
  BY DEF ReadFile, Failed, State

(* The same parts in a body in which the file begins at pos. *)
InBody(body, pos, f, n, m) ==
    /\ pos + n + 2 + 2 * m <= Len(body)
    /\ body[pos] = Num(n % NameWidth)
    /\ \A i \in 1 .. n : body[pos + i] = Letter(f.name[i])
    /\ body[pos + n + 1] = f.fileHash /\ body[pos + n + 2] = Num(m)
    /\ \A i \in 1 .. m : /\ body[pos + n + 2 * i + 1] = f.chunks[i]
                         /\ body[pos + n + 2 * i + 2] = Num(1)

Within(E, body, o) == \A y \in 1 .. Len(E) : body[4 + (o + y)] = E[y]

(* What encode writes for a file, found in the body. *)
LEMMA Shifted ==
    ASSUME NEW body, NEW E, NEW f, NEW o \in Nat, NEW n \in Nat, NEW m \in Nat,
           Len(body) \in Nat, EncodedAt(E, f, n, m), 4 + (o + Len(E)) <= Len(body),
           Within(E, body, o)
    PROVE  InBody(body, 5 + o, f, n, m)
<1>1. Len(E) = n + 3 + 2 * m
  BY DEF EncodedAt
<1>2. (5 + o) + n + 2 + 2 * m <= Len(body)
  BY <1>1
<1>3. body[5 + o] = E[1]
  <2>1. 1 \in 1 .. Len(E) /\ 4 + (o + 1) = 5 + o
    BY <1>1
  <2> QED BY <2>1 DEF Within
<1>4. ASSUME NEW i \in 1 .. n PROVE body[(5 + o) + i] = E[1 + i]
  <2>1. 1 + i \in 1 .. Len(E) /\ 4 + (o + (1 + i)) = (5 + o) + i
    BY <1>1
  <2> QED BY <2>1 DEF Within
<1>5. body[(5 + o) + n + 1] = E[n + 2]
  <2>1. n + 2 \in 1 .. Len(E) /\ 4 + (o + (n + 2)) = (5 + o) + n + 1
    BY <1>1
  <2> QED BY <2>1 DEF Within
<1>6. body[(5 + o) + n + 2] = E[n + 3]
  <2>1. n + 3 \in 1 .. Len(E) /\ 4 + (o + (n + 3)) = (5 + o) + n + 2
    BY <1>1
  <2> QED BY <2>1 DEF Within
<1>7. ASSUME NEW i \in 1 .. m
      PROVE  /\ body[(5 + o) + n + 2 * i + 1] = E[n + 3 + (2 * i - 1)]
             /\ body[(5 + o) + n + 2 * i + 2] = E[n + 3 + 2 * i]
  <2>1. /\ n + 3 + (2 * i - 1) \in 1 .. Len(E)
        /\ 4 + (o + (n + 3 + (2 * i - 1))) = (5 + o) + n + 2 * i + 1
    BY <1>1
  <2>2. /\ n + 3 + 2 * i \in 1 .. Len(E)
        /\ 4 + (o + (n + 3 + 2 * i)) = (5 + o) + n + 2 * i + 2
    BY <1>1
  <2>3. body[(5 + o) + n + 2 * i + 1] = E[n + 3 + (2 * i - 1)]
    BY <2>1 DEF Within
  <2>4. body[(5 + o) + n + 2 * i + 2] = E[n + 3 + 2 * i]
    BY <2>2 DEF Within
  <2> QED BY <2>3, <2>4
<1> QED BY <1>2, <1>3, <1>4, <1>5, <1>6, <1>7 DEF EncodedAt, InBody

(* File k of the body, and where the next one begins. *)
LEMMA FileAt ==
    ASSUME NameWidth \in Nat \ {0}, NEW L, NEW H, NEW files \in Seq(File(L, H)),
           NEW k \in 1 .. Len(files)
    PROVE  LET body == EncodeBody(files)
               f == files[k]
               n == Len(f.name)
               m == Len(f.chunks)
               o == Off(files, k - 1)
           IN /\ f \in File(L, H) /\ n \in Nat /\ m \in Nat /\ o \in Nat
              /\ Len(body) \in Nat
              /\ InBody(body, 5 + o, f, n, m)
              /\ Off(files, k) = o + (n + 3 + 2 * m)
<1> DEFINE body == EncodeBody(files)
           f == files[k]
           n == Len(f.name)
           m == Len(f.chunks)
           o == Off(files, k - 1)
           E == EncodeFile(f)
           last == Off(files, Len(files))
<1>1. f \in File(L, H)
  OBVIOUS
<1>2. n \in Nat /\ m \in Nat
  BY <1>1 DEF File
<1>3. EncodedAt(E, f, n, m)
  BY <1>1, EncodeFileAt
<1>4. /\ Len(body) = 4 + last
      /\ Len(E) \in Nat /\ Off(files, k) = o + Len(E) /\ Off(files, k) <= last
      /\ Within(E, body, o)
  BY EncodeBodyAt DEF Within
<1>5. o \in Nat /\ last \in Nat
  <2>1. k - 1 \in 0 .. Len(files) /\ Len(files) \in 0 .. Len(files)
    OBVIOUS
  <2> QED BY <2>1, EncodeBodyAt
<1> HIDE DEF E, o, n, m, f, body, last
<1>6. Len(body) \in Nat /\ 4 + (o + Len(E)) <= Len(body)
  BY <1>4, <1>5
<1>7. InBody(body, 5 + o, f, n, m)
  BY <1>2, <1>3, <1>4, <1>5, <1>6, Shifted
<1>8. Len(E) = n + 3 + 2 * m
  BY <1>3 DEF EncodedAt
<1> QED BY <1>1, <1>2, <1>4, <1>5, <1>6, <1>7, <1>8 DEF o, n, m, f, body

(* One file more. *)
LEMMA PrefixNext ==
    ASSUME NEW S, NEW s \in Seq(S), NEW k \in 1 .. Len(s)
    PROVE  Prefix(s, k) = Append(Prefix(s, k - 1), s[k])
<1> DEFINE a == Prefix(s, k - 1)
           b == Prefix(s, k)
<1>1. k \in 0 .. Len(s) /\ k - 1 \in 0 .. Len(s) /\ s[k] \in S /\ k \in Nat
  OBVIOUS
<1>2. /\ a \in Seq(S) /\ Len(a) = k - 1 /\ \A i \in 1 .. k - 1 : a[i] = s[i]
  BY <1>1, PrefixFacts
<1>3. b \in Seq(S) /\ Len(b) = k /\ \A i \in 1 .. k : b[i] = s[i]
  BY <1>1, PrefixFacts
<1> HIDE DEF a, b
<1>4. /\ Append(a, s[k]) \in Seq(S) /\ Len(Append(a, s[k])) = Len(a) + 1
      /\ \A i \in 1 .. Len(a) : Append(a, s[k])[i] = a[i]
      /\ Append(a, s[k])[Len(a) + 1] = s[k]
  BY <1>1, <1>2, AppendProperties
<1>5. Len(a) + 1 = k
  BY <1>1, <1>2
<1>6. ASSUME NEW i \in 1 .. k PROVE Append(a, s[k])[i] = s[i]
  <2>1. i = k \/ i \in 1 .. k - 1
    OBVIOUS
  <2> QED BY <1>2, <1>4, <1>5, <2>1
<1>7. Append(a, s[k]) = b
  BY <1>3, <1>4, <1>5, <1>6, SeqEqual
<1> QED BY <1>7 DEF a, b

(* A length that fits its field is written as it is. *)
LEMMA ModSmall ==
    ASSUME NEW x \in Nat, NEW y \in Nat \ {0}
    PROVE  x % y \in Nat /\ x % y < y /\ (x < y => x % y = x)
OBVIOUS

(* A sequence is known by its elements. *)
LEMMA NameIs ==
    ASSUME NEW L, NEW s \in Seq(L), NEW t, \A i \in 1 .. Len(s) : t[i] = s[i]
    PROVE  [i \in 1 .. Len(s) |-> t[i]] = s
OBVIOUS

(* A file whose name fits is read as it was written. *)
LEMMA ReadGood ==
    ASSUME NameWidth \in Nat \ {0}, NEW L, NEW H, \A h \in H : h.kind = "hash",
           NEW files \in Seq(File(L, H)), NEW k \in 1 .. Len(files),
           Len(files[k].name) < NameWidth
    PROVE  ReadFile(EncodeBody(files), Good(files, k - 1)) = Good(files, k)
<1> DEFINE body == EncodeBody(files)
           f == files[k]
           n == Len(f.name)
           m == Len(f.chunks)
           o == Off(files, k - 1)
           pos == 5 + o
           fs == Prefix(files, k - 1)
<1>1. /\ f \in File(L, H) /\ n \in Nat /\ m \in Nat /\ o \in Nat
      /\ Len(body) \in Nat
      /\ InBody(body, 5 + o, f, n, m)
      /\ Off(files, k) = o + (n + 3 + 2 * m)
  BY FileAt
<1>2. n < NameWidth
  OBVIOUS
<1>3. /\ Good(files, k - 1) = State(pos, fs)
      /\ Good(files, k) = State(5 + Off(files, k), Append(fs, f))
  BY PrefixNext DEF Good
<1>4. f.name \in Seq(L) /\ f.fileHash \in H /\ f.chunks \in Seq(H)
  BY <1>1 DEF File
<1>5. /\ \A i \in 1 .. m : f.chunks[i] \in H
      /\ \A i \in 1 .. n : f.name[i] \in L
  BY <1>4
<1>6. \A t : (\A i \in 1 .. n : t[i] = f.name[i]) => [i \in 1 .. n |-> t[i]] = f.name
  BY <1>4, NameIs
<1>7. \A t : (\A i \in 1 .. m : t[i] = f.chunks[i]) => [i \in 1 .. m |-> t[i]] = f.chunks
  BY <1>4, NameIs
<1>8. [name |-> f.name, fileHash |-> f.fileHash, chunks |-> f.chunks] = f
  BY <1>1 DEF File
<1> HIDE DEF body, f, n, m, o, fs
<1>9. pos \in Nat /\ 5 + Off(files, k) = pos + n + 2 + 2 * m + 1
  BY <1>1
<1> HIDE DEF pos
<1>10. n % NameWidth = n
  BY <1>1, <1>2, ModSmall
<1>11. /\ pos + n + 2 + 2 * m <= Len(body)
       /\ body[pos] = Num(n)
       /\ \A i \in 1 .. n : body[pos + i] = Letter(f.name[i])
       /\ body[pos + n + 1] = f.fileHash /\ body[pos + n + 2] = Num(m)
       /\ \A i \in 1 .. m : /\ body[pos + n + 2 * i + 1] = f.chunks[i]
                            /\ body[pos + n + 2 * i + 2] = Num(1)
  BY <1>1, <1>10 DEF InBody, pos
<1>12. \A i \in 1 .. n : body[pos + i].kind = "letter" /\ body[pos + i].value = f.name[i]
  <2>1. \A i \in 1 .. n : body[pos + i] = Letter(f.name[i])
    BY <1>11
  <2>2. \A i \in 1 .. n : Letter(f.name[i]).kind = "letter" /\ Letter(f.name[i]).value = f.name[i]
    BY DEF Letter
  <2> QED BY <2>1, <2>2
<1>13. body[pos + n + 1].kind = "hash"
  BY <1>4, <1>11
<1>14. \A i \in 1 .. m : /\ body[pos + n + 2 * i + 1].kind = "hash"
                         /\ body[pos + n + 2 * i + 2].kind = "num"
  BY <1>5, <1>11 DEF Num
<1> DEFINE names == [i \in 1 .. n |-> body[pos + i].value]
           chunks == [i \in 1 .. m |-> body[pos + n + 2 * i + 1]]
<1>15. ReadFile(body, State(pos, fs)) =
             State(pos + n + 2 + 2 * m + 1,
                   Append(fs, [name |-> names, fileHash |-> body[pos + n + 1],
                               chunks |-> chunks]))
  <2>1. Fits(body, pos, n, m)
    BY <1>11, <1>12, <1>13, <1>14 DEF Fits
  <2>2. Len(body) \in Nat /\ n \in Nat /\ m \in Nat
    BY <1>1
  <2> QED BY SMTT(30), <1>9, <2>1, <2>2, ReadFits
<1>16. names = f.name
  <2>1. \A i \in 1 .. n : names[i] = f.name[i]
    BY <1>12
  <2>2. names = [i \in 1 .. n |-> names[i]]
    OBVIOUS
  <2> HIDE DEF names
  <2> QED BY <1>6, <2>1, <2>2
<1>17. chunks = f.chunks
  <2>1. \A i \in 1 .. m : chunks[i] = f.chunks[i]
    BY <1>11
  <2>2. chunks = [i \in 1 .. m |-> chunks[i]]
    OBVIOUS
  <2> HIDE DEF chunks
  <2> QED BY <1>7, <2>1, <2>2
<1>18. body[pos + n + 1] = f.fileHash
  BY <1>11
<1> HIDE DEF names, chunks
<1>19. ReadFile(body, State(pos, fs)) = State(5 + Off(files, k), Append(fs, f))
  BY <1>8, <1>9, <1>15, <1>16, <1>17, <1>18
<1> QED BY <1>3, <1>19 DEF body

(* One whose name does not fit is not read, and ends the reading. *)
LEMMA ReadLong ==
    ASSUME NameWidth \in Nat \ {0}, NEW L, NEW H,
           NEW files \in Seq(File(L, H)), NEW k \in 1 .. Len(files),
           ~ (Len(files[k].name) < NameWidth)
    PROVE  ReadFile(EncodeBody(files), Good(files, k - 1)) = Failed(Good(files, k - 1))
<1> DEFINE body == EncodeBody(files)
           f == files[k]
           n == Len(f.name)
           m == Len(f.chunks)
           o == Off(files, k - 1)
           pos == 5 + o
           r == n % NameWidth
           fs == Prefix(files, k - 1)
<1>1. /\ n \in Nat /\ o \in Nat /\ Len(body) \in Nat
      /\ InBody(body, 5 + o, f, n, m)
  BY FileAt
<1>2. ~ (n < NameWidth)
  OBVIOUS
<1>3. Good(files, k - 1) = State(pos, fs)
  BY DEF Good
<1> HIDE DEF body, f, n, m, o, fs
<1>4. pos \in Nat
  BY <1>1
<1> HIDE DEF pos
<1>5. r \in Nat /\ r < NameWidth
  BY <1>1, ModSmall
<1>6. body[pos] = Num(r) /\ \A i \in 1 .. n : body[pos + i] = Letter(f.name[i])
  BY <1>1 DEF InBody, pos
<1> HIDE DEF r
<1>7. r + 1 \in 1 .. n /\ pos + (r + 1) = pos + r + 1
  BY <1>1, <1>2, <1>4, <1>5
<1>8. body[pos + r + 1].kind = "letter"
  <2>1. body[pos + (r + 1)] = Letter(f.name[r + 1])
    BY <1>6, <1>7
  <2>2. Letter(f.name[r + 1]).kind = "letter"
    BY DEF Letter
  <2> QED BY <1>7, <2>1, <2>2
<1>9. ReadFile(body, State(pos, fs)) = Failed(State(pos, fs))
  <2>1. body[pos] = Num(r) /\ Len(body) \in Nat
    BY <1>1, <1>6
  <2> QED BY <1>4, <1>5, <1>8, <2>1, ReadFails
<1> QED BY <1>3, <1>9 DEF body

(* Behind the last file there is nothing to read. *)
LEMMA ReadEnd ==
    ASSUME NameWidth \in Nat \ {0}, NEW L, NEW H, NEW files \in Seq(File(L, H))
    PROVE  ReadFile(EncodeBody(files), Good(files, Len(files))) = Failed(Good(files, Len(files)))
<1> DEFINE body == EncodeBody(files)
           o == Off(files, Len(files))
<1>1. Len(body) = 4 + o /\ o \in Nat
  <2>1. Len(files) \in 0 .. Len(files)
    OBVIOUS
  <2> QED BY <2>1, EncodeBodyAt
<1>2. Good(files, Len(files)) = State(5 + o, Prefix(files, Len(files)))
  BY DEF Good
<1> HIDE DEF body, o
<1>3. 5 + o \in Nat /\ 5 + o > Len(body) /\ Len(body) \in Nat
  BY <1>1
<1> QED BY <1>2, <1>3, ReadFails DEF body

(* The files are read one after the other: one round of that, and that it  *)
(* has one result.                                                         *)
ReadStep(F, body, k) ==
    IF k = 0 THEN [ok |-> TRUE, pos |-> 5, files |-> <<>>] ELSE ReadFile(body, F[k - 1])
Reads(F, body) == \A k \in Nat : F[k] = ReadStep(F, body, k)
IsReading(F, body) == F = [k \in Nat |-> ReadStep(F, body, k)]
Verdict(bytes, body, all) ==
    IF /\ Len(bytes) >= 5 /\ body[1] = Magic
       /\ all.ok /\ all.pos = Len(body) + 1
       /\ bytes[Len(bytes)] = Hash(body)
    THEN [ok |-> TRUE, files |-> all.files]
    ELSE Bad

(* decode judges what the reading, if it is determined, ends with ... *)
LEMMA DecodeIs ==
    ASSUME NEW bytes, NEW body, body = SubSeq(bytes, 1, Len(bytes) - 1), NEW F,
           IsReading(F, body), \A G : IsReading(G, body) => G = F
    PROVE  Decode(bytes) = Verdict(bytes, body, F[body[4].value])
<1> DEFINE read == CHOOSE G : IsReading(G, body)
<1>1. read = F
  OBVIOUS
<1>2. Decode(bytes) = Verdict(bytes, body, read[body[4].value])
  BY DEF Decode, IsReading, ReadStep, Verdict
<1> QED BY <1>1, <1>2

(* ... and it is. *)
LEMMA ReadsUnique ==
    ASSUME NEW body, NEW F, NEW G, Reads(F, body), Reads(G, body)
    PROVE  \A k \in Nat : G[k] = F[k]
<1> DEFINE T == {k \in Nat : G[k] = F[k]}
<1>1. 0 \in T
  BY DEF Reads, ReadStep
<1>2. ASSUME NEW k \in Nat, k \in T PROVE k + 1 \in T
  <2>1. k + 1 \in Nat /\ (k + 1) - 1 = k /\ k + 1 # 0
    OBVIOUS
  <2>2. F[k + 1] = ReadFile(body, F[k]) /\ G[k + 1] = ReadFile(body, G[k])
    BY <2>1 DEF Reads, ReadStep
  <2> QED BY <1>2, <2>1, <2>2
<1>3. ASSUME \A k \in Nat : k \in T PROVE \A k \in Nat : G[k] = F[k]
  BY <1>3
<1> HIDE DEF T
<1> QED BY <1>1, <1>2, <1>3, SetInduction

(* How far the reading of an encoded manifest gets: to the end, or to the  *)
(* first name that is too long.                                            *)
Readable(files, i) == i \in 1 .. Len(files) /\ Len(files[i].name) < NameWidth

LEMMA ReadTo ==
    ASSUME NEW files, Len(files) \in Nat
    PROVE  \E b \in 0 .. Len(files) :
                (\A i \in 1 .. b : Readable(files, i)) /\ ~ Readable(files, b + 1)
<1> DEFINE N == {i \in Nat \ {0} : ~ Readable(files, i)}
<1>1. Len(files) + 1 \in N
  BY DEF Readable
<1>2. PICK s \in N : \A i \in N : s <= i
  BY <1>1, Smallest
<1>3. s - 1 \in 0 .. Len(files) /\ (s - 1) + 1 = s
  BY <1>1, <1>2
<1>4. \A i \in 1 .. s - 1 : i \notin N
  BY <1>2
<1>5. \A i \in 1 .. s - 1 : Readable(files, i)
  BY <1>3, <1>4
<1> QED BY <1>2, <1>3, <1>5

(* decode undoes encode when every name's length fits its field, and       *)
(* refuses the manifest when one does not.                                 *)
LEMMA DecodeEncode ==
    ASSUME NameWidth \in Nat \ {0}, NEW L, NEW H, \A h \in H : h.kind = "hash",
           NEW files \in Seq(File(L, H))
    PROVE  Decode(Encode(files)) =
             IF \A i \in 1 .. Len(files) : Len(files[i].name) < NameWidth
             THEN [ok |-> TRUE, files |-> files] ELSE Bad
<1> DEFINE body == EncodeBody(files)
           bytes == Encode(files)
           S == Fields(L, H) \cup {Hash(body)}
           n == Len(files)
<1>1. /\ body \in Seq(S) /\ Len(body) = 4 + Off(files, n) /\ Off(files, n) \in Nat
      /\ body[1] = Magic /\ body[4] = Num(n) /\ Off(files, 0) = 0
  <2>1. /\ body \in Seq(Fields(L, H)) /\ Len(body) = 4 + Off(files, n)
        /\ body[1] = Magic /\ body[4] = Num(n) /\ Off(files, 0) = 0
        /\ \A k \in 0 .. n : Off(files, k) \in Nat
    BY EncodeBodyAt
  <2>2. n \in 0 .. n
    OBVIOUS
  <2>3. Fields(L, H) \subseteq S
    OBVIOUS
  <2> HIDE DEF body, S
  <2> QED BY <2>1, <2>2, <2>3, SeqMonotonic
<1>2. bytes = Append(body, Hash(body)) /\ Hash(body) \in S
  BY DEF Encode
<1>3. n \in Nat /\ Prefix(files, n) = files /\ Prefix(files, 0) = <<>>
  BY PrefixFacts DEF Prefix
<1>4. PICK b \in 0 .. n : (\A i \in 1 .. b : Readable(files, i)) /\ ~ Readable(files, b + 1)
  BY <1>3, ReadTo
<1>5. Good(files, 0) = [ok |-> TRUE, pos |-> 5, files |-> <<>>]
  <2>1. 5 + Off(files, 0) = 5
    BY <1>1
  <2> QED BY <1>3, <2>1 DEF Good, State
<1>6. \A k \in 1 .. b : ReadFile(body, Good(files, k - 1)) = Good(files, k)
  <2> SUFFICES ASSUME NEW k \in 1 .. b
               PROVE  ReadFile(body, Good(files, k - 1)) = Good(files, k)
    OBVIOUS
  <2>1. k \in 1 .. Len(files) /\ Len(files[k].name) < NameWidth
    BY <1>4 DEF Readable
  <2> QED BY <2>1, ReadGood
<1>7. ReadFile(body, Good(files, b)) = Failed(Good(files, b))
  <2>1. CASE b = n
    BY <2>1, ReadEnd
  <2>2. CASE b # n
    <3>1. b + 1 \in 1 .. Len(files) /\ (b + 1) - 1 = b
      BY <1>3, <2>2
    <3>2. ~ (Len(files[b + 1].name) < NameWidth)
      BY <1>4, <3>1 DEF Readable
    <3>3. ReadFile(body, Good(files, (b + 1) - 1)) = Failed(Good(files, (b + 1) - 1))
      BY <3>1, <3>2, ReadLong
    <3> QED BY <3>1, <3>3
  <2> QED BY <2>1, <2>2
<1>8. ReadFile(body, Failed(Good(files, b))) = Failed(Good(files, b))
  BY ReadAfterError DEF Good
<1> DEFINE F == [k \in Nat |-> IF k <= b THEN Good(files, k) ELSE Failed(Good(files, b))]
<1> HIDE DEF body, bytes, S, n
<1>9. Reads(F, body)
  <2> SUFFICES ASSUME NEW k \in Nat PROVE F[k] = ReadStep(F, body, k)
    BY DEF Reads
  <2>1. CASE k = 0
    <3>1. F[k] = Good(files, 0)
      BY <2>1
    <3> QED BY <1>5, <2>1, <3>1 DEF ReadStep
  <2>2. CASE k # 0
    <3>1. k - 1 \in Nat /\ ReadStep(F, body, k) = ReadFile(body, F[k - 1])
      BY <2>2 DEF ReadStep
    <3>2. CASE k <= b
      <4>1. k \in 1 .. b /\ k - 1 <= b
        BY <2>2, <3>2
      <4>2. F[k] = Good(files, k) /\ F[k - 1] = Good(files, k - 1)
        BY <3>1, <4>1
      <4> HIDE DEF F
      <4> QED BY <1>6, <3>1, <4>1, <4>2
    <3>3. CASE k = b + 1
      <4>1. ~ (k <= b) /\ k - 1 = b /\ b \in Nat
        BY <3>3
      <4>2. F[k] = Failed(Good(files, b)) /\ F[k - 1] = Good(files, b)
        BY <3>1, <4>1
      <4> HIDE DEF F
      <4> QED BY <1>7, <3>1, <4>2
    <3>4. CASE k > b + 1
      <4>1. ~ (k <= b) /\ ~ (k - 1 <= b)
        BY <3>4
      <4>2. F[k] = Failed(Good(files, b)) /\ F[k - 1] = Failed(Good(files, b))
        BY <3>1, <4>1
      <4> HIDE DEF F
      <4> QED BY <1>8, <3>1, <4>2
    <3>5. k <= b \/ k = b + 1 \/ k > b + 1
      OBVIOUS
    <3> QED BY <3>2, <3>3, <3>4, <3>5
  <2> QED BY <2>1, <2>2
<1>10. F = [k \in Nat |-> F[k]] /\ F[n] = IF n <= b THEN Good(files, n) ELSE Failed(Good(files, b))
  BY <1>3
<1> HIDE DEF F
<1>11. IsReading(F, body)
  BY <1>9, <1>10 DEF Reads, IsReading
<1>12. ASSUME NEW G, IsReading(G, body) PROVE G = F
  <2>1. Reads(G, body) /\ G = [k \in Nat |-> G[k]]
    BY <1>12 DEF Reads, IsReading
  <2>2. \A k \in Nat : G[k] = F[k]
    BY <1>9, <2>1, ReadsUnique
  <2> QED BY <1>10, <2>1, <2>2
<1>13. body = SubSeq(bytes, 1, Len(bytes) - 1) /\ Len(bytes) = Len(body) + 1
       /\ bytes[Len(bytes)] = Hash(body)
  BY <1>1, <1>2
<1>14. body[4].value = n
  BY <1>1 DEF Num
<1>15. Decode(bytes) = Verdict(bytes, body, F[n])
  <2>1. \A G : IsReading(G, body) => G = F
    BY <1>12
  <2> QED BY <1>11, <1>13, <1>14, <2>1, DecodeIs
<1>16. CASE b = n
  <2>1. F[n] = State(5 + Off(files, n), files)
    BY <1>3, <1>10, <1>16 DEF Good
  <2>2. Verdict(bytes, body, F[n]) = [ok |-> TRUE, files |-> files]
    BY <1>1, <1>13, <2>1 DEF Verdict, State
  <2>3. \A i \in 1 .. n : Len(files[i].name) < NameWidth
    BY <1>4, <1>16 DEF Readable
  <2> QED BY <1>15, <2>2, <2>3 DEF bytes, n
<1>17. CASE b # n
  <2>1. ~ (n <= b) /\ b + 1 \in 1 .. n
    BY <1>3, <1>17
  <2>2. F[n].ok = FALSE
    BY <1>10, <2>1 DEF Failed, Good, State
  <2>3. Verdict(bytes, body, F[n]) = Bad
    BY <2>2 DEF Verdict
  <2>4. ~ (Len(files[b + 1].name) < NameWidth)
    BY <1>4, <2>1 DEF Readable, n
  <2> QED BY <1>15, <2>1, <2>3, <2>4 DEF bytes, n
<1> QED BY <1>16, <1>17
-----------------------------------------------------------------------------
(* The files of a run, as they are listed and hashed, are files of a       *)
(* manifest over the letters of their names and the hashes of their parts. *)
Letters(j) == UNION {Range(Files[j][i][1]) : i \in DOMAIN Files[j]}
Hashes(j) ==
    {Hash(Files[j][i][2]) : i \in DOMAIN Files[j]}
    \cup UNION {{Hash(x) : x \in Range(Files[j][i][2])} : i \in DOMAIN Files[j]}

LEMMA EntryAt ==
    ASSUME NEW j \in Job, NEW i \in DOMAIN Files[j]
    PROVE  FileEntry(Files[j][i][1], Files[j][i][2]) \in File(Letters(j), Hashes(j))
<1> DEFINE name == Files[j][i][1]
           content == Files[j][i][2]
<1>1. name \in Seq(Range(name)) /\ content \in Seq(Range(content))
  BY PublishAssumption DEF IsSequence
<1>2. Range(name) \subseteq Letters(j)
  BY DEF Letters
<1>3. Hash(content) \in Hashes(j) /\ \A x \in Range(content) : Hash(x) \in Hashes(j)
  BY DEF Hashes
<1> HIDE DEF name, content
<1>4. name \in Seq(Letters(j))
  BY <1>1, <1>2, SeqMonotonic
<1> DEFINE chunks == [k \in DOMAIN content |-> Hash(content[k])]
<1>5. chunks \in Seq(Hashes(j))
  <2>1. /\ DOMAIN content = 1 .. Len(content) /\ Len(content) \in Nat
        /\ \A k \in 1 .. Len(content) : content[k] \in Range(content)
    BY <1>1
  <2>2. chunks = [k \in 1 .. Len(content) |-> chunks[k]]
    BY <2>1
  <2>3. \A k \in 1 .. Len(content) : chunks[k] \in Hashes(j)
    BY <1>3, <2>1
  <2> HIDE DEF chunks
  <2> QED BY <2>1, <2>2, <2>3, Mapped
<1> HIDE DEF chunks
<1>6. [name |-> name, fileHash |-> Hash(content), chunks |-> chunks]
            \in File(Letters(j), Hashes(j))
  BY <1>3, <1>4, <1>5 DEF File
<1> QED BY <1>6 DEF FileEntry, name, content, chunks

(* The origin reads back exactly the index the producer encoded when every *)
(* file name's length fits the two bytes it is written in, and refuses the *)
(* manifest otherwise, for files of any number, names and contents.        *)
THEOREM RoundTrip ==
    \A j \in Job : Received[j] =
        IF \A i \in DOMAIN Files[j] : Len(Files[j][i][1]) < NameWidth
        THEN [ok |-> TRUE, files |-> Index[j]] ELSE Bad
<1> SUFFICES ASSUME NEW j \in Job
             PROVE  Received[j] =
                        IF \A i \in DOMAIN Files[j] : Len(Files[j][i][1]) < NameWidth
                        THEN [ok |-> TRUE, files |-> Index[j]] ELSE Bad
  OBVIOUS
<1> DEFINE L == Letters(j)
           H == Hashes(j)
           index == Index[j]
           n == Len(Files[j])
<1>1. n \in Nat /\ DOMAIN Files[j] = 1 .. n
  <2>1. Files[j] \in Seq(Range(Files[j]))
    BY PublishAssumption DEF IsSequence
  <2> QED BY <2>1
<1>2. \A h \in H : h.kind = "hash"
  BY DEF Hashes, Hash
<1>3. index = [i \in 1 .. n |-> FileEntry(Files[j][i][1], Files[j][i][2])]
  BY <1>1 DEF Index
<1>4. /\ index = [i \in 1 .. n |-> index[i]]
      /\ \A i \in 1 .. n : index[i] = FileEntry(Files[j][i][1], Files[j][i][2])
  <2> HIDE DEF index, n
  <2> QED BY <1>3
<1>5. \A i \in 1 .. n : index[i] \in File(L, H) /\ index[i].name = Files[j][i][1]
  <2> SUFFICES ASSUME NEW i \in 1 .. n
               PROVE  index[i] \in File(L, H) /\ index[i].name = Files[j][i][1]
    OBVIOUS
  <2>1. index[i] = FileEntry(Files[j][i][1], Files[j][i][2])
    BY <1>4
  <2>2. FileEntry(Files[j][i][1], Files[j][i][2]) \in File(L, H)
    BY <1>1, EntryAt
  <2>3. FileEntry(Files[j][i][1], Files[j][i][2]).name = Files[j][i][1]
    BY DEF FileEntry
  <2> HIDE DEF index, L, H
  <2> QED BY <2>1, <2>2, <2>3
<1>6. Received[j] = Decode(Encode(index))
  BY DEF Received, Sent
<1> HIDE DEF L, H, index, n
<1>7. index \in Seq(File(L, H)) /\ Len(index) = n
  BY <1>1, <1>4, <1>5, Mapped
<1>8. NameWidth \in Nat \ {0}
  BY PublishAssumption
<1>9. Decode(Encode(index)) = IF \A i \in 1 .. Len(index) : Len(index[i].name) < NameWidth
                              THEN [ok |-> TRUE, files |-> index] ELSE Bad
  BY <1>2, <1>7, <1>8, DecodeEncode
<1>10. Decode(Encode(index)) = IF \A i \in 1 .. n : Len(Files[j][i][1]) < NameWidth
                               THEN [ok |-> TRUE, files |-> index] ELSE Bad
  BY <1>5, <1>7, <1>9
<1> QED BY <1>1, <1>6, <1>10 DEF index
-----------------------------------------------------------------------------
Process == Job \cup Conn

(* The type invariant, with the domains of the functions. *)
Shapes ==
    /\ TypeOK
    /\ DOMAIN todo = Process
    /\ pack \in [Game -> SUBSET AllChunks]

(* Opened by whoever came first. *)
Handles ==
    /\ \A g \in Game : opens[g] = IF g \in stores THEN 1 ELSE 0
    /\ dataStores \subseteq stores

(* The manifest of a run that publishes has passed the check of its chunks. *)
Checked == \A j \in Job : pc[j] = "publish" => Acceptable(j)

(* What the scheduler has is the manifest of a run that passed it. *)
Accepted ==
    \A v \in versions : \E j \in Job :
        /\ v.game = GameOf[j] /\ v.version = VersionOf[j] /\ v.manifest = Sent[j]
        /\ Acceptable(j)

PublishInv == Shapes /\ Handles /\ Checked /\ Accepted

(* What is sent are chunks of the index, to games of the origin. *)
LEMMA MissingChunks ==
    ASSUME NEW j \in Job
    PROVE  Missing(j) \subseteq AllChunks
<1>1. Delta[j] \subseteq ChunkSet(Index[j])
  BY DEF Delta, Compute
<1> QED BY <1>1 DEF Missing, AllChunks

LEMMA Games ==
    ASSUME NEW p \in Process
    PROVE  GameOf[p] \in Game
  BY PublishAssumption DEF Process

(* The store table after a store was opened. *)
LEMMA Opened ==
    ASSUME Shapes, NEW g \in Game, OpenStore(g)
    PROVE  /\ stores' \subseteq Game /\ opens' \in [Game -> Nat]
           /\ stores \subseteq stores' /\ g \in stores'
           /\ (\A h \in Game : opens[h] = IF h \in stores THEN 1 ELSE 0) =>
                \A h \in Game : opens'[h] = IF h \in stores' THEN 1 ELSE 0
  BY DEF Shapes, TypeOK, OpenStore

(* What a step of a job has to show: it changes its own step and work, and *)
(* moves only between the steps that fit the locks.                        *)
LEMMA JobMoves ==
    ASSUME Shapes, NEW j \in Job, NEW step \in Steps, Goto(j, step),
           DOMAIN todo' = Process, \A i \in Job : todo'[i] \subseteq AllChunks,
           dirs' \subseteq {DirOf[i] : i \in Job},
           dataLock' = dataLock, stores' \subseteq Game, dataStores' \subseteq Game,
           opens' \in [Game -> Nat], pack' \in [Game -> SUBSET AllChunks],
           \A v \in versions' : v.game \in Game /\ v.version \in Nat \ {0},
           faults' \in 0 .. MaxFaults,
           \/ lock' = "free"
           \/ lock' = lock /\ (lock = j => step \in {"stream", "stalled"})
           \/ lock' = j /\ step = "stream"
    PROVE  Shapes'
<1> USE PublishAssumption
<1>1. pc' \in [Process -> Steps] /\ pc'[j] = step /\ \A p \in Process \ {j} : pc'[p] = pc[p]
  BY DEF Shapes, TypeOK, Goto, Process
<1>2. lock' # "free" => lock' \in Job /\ pc'[lock'] \in {"stream", "stalled"}
  <2>1. CASE lock' = lock
    <3>1. lock # "free" => lock \in Job /\ pc[lock] \in {"stream", "stalled"}
      BY DEF Shapes, TypeOK
    <3> QED BY <1>1, <2>1, <3>1 DEF Process
  <2>2. CASE lock' = j /\ step = "stream"
    BY <1>1, <2>2
  <2> QED BY <2>1, <2>2
<1>3. dataLock' # "free" =>
            dataLock' \in Conn /\ pc'[dataLock'] \in {"table", "serve", "stalled"}
  <2>1. dataLock # "free" =>
            dataLock \in Conn /\ pc[dataLock] \in {"table", "serve", "stalled"}
    BY DEF Shapes, TypeOK
  <2> QED BY <1>1, <2>1 DEF Process
<1> QED BY <1>1, <1>2, <1>3 DEF Shapes, TypeOK, Process

(* The same for a connection. *)
LEMMA ConnMoves ==
    ASSUME Shapes, NEW k \in Conn, NEW step \in Steps, Goto(k, step),
           DOMAIN todo' = Process, \A i \in Job : todo'[i] = todo[i],
           UNCHANGED <<dirs, lock, pack, versions>>,
           stores' \subseteq Game, dataStores' \subseteq Game, opens' \in [Game -> Nat],
           faults' \in 0 .. MaxFaults,
           \/ dataLock' = "free"
           \/ dataLock' = dataLock /\ (dataLock = k => step \in {"table", "serve", "stalled"})
           \/ dataLock' = k /\ step \in {"table", "serve"}
    PROVE  Shapes'
<1> USE PublishAssumption
<1>1. pc' \in [Process -> Steps] /\ pc'[k] = step /\ \A p \in Process \ {k} : pc'[p] = pc[p]
  BY DEF Shapes, TypeOK, Goto, Process
<1>2. dataLock' # "free" =>
            dataLock' \in Conn /\ pc'[dataLock'] \in {"table", "serve", "stalled"}
  <2>1. CASE dataLock' = dataLock
    <3>1. dataLock # "free" =>
                dataLock \in Conn /\ pc[dataLock] \in {"table", "serve", "stalled"}
      BY DEF Shapes, TypeOK
    <3> QED BY <1>1, <2>1, <3>1 DEF Process
  <2>2. CASE dataLock' = k /\ step \in {"table", "serve"}
    BY <1>1, <2>2
  <2> QED BY <2>1, <2>2
<1>3. lock' # "free" => lock' \in Job /\ pc'[lock'] \in {"stream", "stalled"}
  <2>1. lock # "free" => lock \in Job /\ pc[lock] \in {"stream", "stalled"}
    BY DEF Shapes, TypeOK
  <2> QED BY <1>1, <2>1 DEF Process
<1> QED BY <1>1, <1>2, <1>3 DEF Shapes, TypeOK, Process

(* What the functions and counters of a state are known to be. *)
LEMMA Known ==
    ASSUME Shapes
    PROVE  /\ DOMAIN todo = Process /\ \A i \in Job : todo[i] \subseteq AllChunks
           /\ dirs \subseteq {DirOf[i] : i \in Job}
           /\ stores \subseteq Game /\ dataStores \subseteq Game
           /\ opens \in [Game -> Nat] /\ pack \in [Game -> SUBSET AllChunks]
           /\ \A v \in versions : v.game \in Game /\ v.version \in Nat \ {0}
           /\ faults \in 0 .. MaxFaults
           /\ \A kind : Fault(kind) => faults' \in 0 .. MaxFaults
           /\ \A X : \A j \in Job : (X \subseteq AllChunks /\ todo' = [todo EXCEPT ![j] = X]) =>
                DOMAIN todo' = Process /\ \A i \in Job : todo'[i] \subseteq AllChunks
           /\ \A X : \A k \in Conn : todo' = [todo EXCEPT ![k] = X] =>
                DOMAIN todo' = Process /\ \A i \in Job : todo'[i] = todo[i]
           /\ \A p \in Process : pc[p] \in Steps
           /\ \A j \in Job : pc[j] \notin {"stream", "stalled"} => lock # j
           /\ \A k \in Conn : pc[k] \notin {"table", "serve", "stalled"} => dataLock # k
<1>1. \A kind : Fault(kind) => faults' \in 0 .. MaxFaults
  BY PublishAssumption DEF Shapes, TypeOK, Fault
<1>2. \A X : \A k \in Conn : todo' = [todo EXCEPT ![k] = X] =>
            DOMAIN todo' = Process /\ \A i \in Job : todo'[i] = todo[i]
  BY PublishAssumption DEF Shapes, Process
<1>3. \A X : \A j \in Job : (X \subseteq AllChunks /\ todo' = [todo EXCEPT ![j] = X]) =>
            DOMAIN todo' = Process /\ \A i \in Job : todo'[i] \subseteq AllChunks
  BY DEF Shapes, TypeOK, Process
<1>4. /\ \A j \in Job : pc[j] \notin {"stream", "stalled"} => lock # j
      /\ \A k \in Conn : pc[k] \notin {"table", "serve", "stalled"} => dataLock # k
  BY PublishAssumption DEF Shapes, TypeOK
<1> QED BY <1>1, <1>2, <1>3, <1>4 DEF Shapes, TypeOK, Process

(* Every step of a run keeps the types and the ownership of the locks ... *)
LEMMA JobShapes ==
    ASSUME Shapes, NEW j \in Job,
           JobStep(j) \/ UploadBreak(j) \/ Crash(j) \/ PublishFail(j)
    PROVE  Shapes'
<1>0. /\ GameOf[j] \in Game /\ j \in Process
      /\ \A s \in {"start", "query", "upload", "stream", "commit", "publish", "failed",
                   "done", "crashed"} : s \in Steps
  BY Games DEF Process, Steps, Ended
<1> DEFINE Dirs == {DirOf[i] : i \in Job}
<1>d. dirs \ {DirOf[j]} \subseteq Dirs /\ dirs \cup {DirOf[j]} \subseteq Dirs
  BY Known
<1>1. CASE LockDir(j)
  <2>1. /\ Goto(j, "failed") \/ Goto(j, "query")
        /\ dirs' \subseteq Dirs /\ pc[j] = "start"
        /\ UNCHANGED <<todo, lock, dataLock, stores, dataStores, opens, pack, versions, faults>>
    BY <1>1, <1>d, Known DEF LockDir, tableVars
  <2> HIDE DEF Dirs
  <2> QED BY <1>0, <2>1, Known, JobMoves DEF Dirs
<1>2. CASE Query(j)
  <2>1. /\ Goto(j, "commit") \/ Goto(j, "upload")
        /\ OpenStore(GameOf[j]) /\ todo' = [todo EXCEPT ![j] = Missing(j)] /\ pc[j] = "query"
        /\ UNCHANGED <<dirs, lock, dataLock, dataStores, pack, versions, faults>>
    BY <1>2 DEF Query
  <2>2. stores' \subseteq Game /\ opens' \in [Game -> Nat]
    BY <1>0, <2>1, Opened
  <2>3. DOMAIN todo' = Process /\ \A i \in Job : todo'[i] \subseteq AllChunks
    BY <2>1, MissingChunks, Known
  <2> QED BY <1>0, <2>1, <2>2, <2>3, Known, JobMoves
<1>3. CASE UploadBegin(j)
  <2>1. /\ Goto(j, "stream") /\ lock' = j /\ OpenStore(GameOf[j])
        /\ UNCHANGED <<todo, dirs, dataLock, dataStores, pack, versions, faults>>
    BY <1>3 DEF UploadBegin
  <2>2. stores' \subseteq Game /\ opens' \in [Game -> Nat]
    BY <1>0, <2>1, Opened
  <2> QED BY <1>0, <2>1, <2>2, Known, JobMoves
<1>4. ASSUME NEW c \in todo[j], UploadChunk(j, c) PROVE Shapes'
  <2>1. /\ UNCHANGED <<pc, dirs, lock, dataLock, stores, dataStores, opens, versions>>
        /\ todo' = [todo EXCEPT ![j] = todo[j] \ {c}] /\ c \in AllChunks
    BY <1>4, Known DEF UploadChunk
  <2>2. DOMAIN todo' = Process /\ \A i \in Job : todo'[i] \subseteq AllChunks
    BY <2>1, Known
  <2>3. faults' \in 0 .. MaxFaults
    BY <1>4, Known DEF UploadChunk
  <2>4. pack' \in [Game -> SUBSET AllChunks]
    BY <1>0, <1>4, <2>1, Known DEF UploadChunk
  <2> QED BY <2>1, <2>2, <2>3, <2>4 DEF Shapes, TypeOK
<1>5. CASE UploadEnd(j)
  BY <1>0, <1>5, Known, JobMoves DEF UploadEnd
<1>6. CASE UploadBreak(j)
  <2>1. /\ Goto(j, "failed") /\ lock' = "free" /\ todo' = [todo EXCEPT ![j] = {}]
        /\ dirs' = dirs \ {DirOf[j]} /\ faults' \in 0 .. MaxFaults
        /\ UNCHANGED <<dataLock, stores, dataStores, opens, pack, versions>>
    BY <1>6, Known DEF UploadBreak, Return
  <2>2. DOMAIN todo' = Process /\ \A i \in Job : todo'[i] \subseteq AllChunks
    BY <2>1, Known
  <2> QED BY <1>0, <1>d, <2>1, <2>2, Known, JobMoves
<1>7. CASE Crash(j)
  <2>1. /\ Goto(j, "crashed") /\ todo' = [todo EXCEPT ![j] = {}]
        /\ lock' = "free" \/ (lock' = lock /\ lock # j)
        /\ faults' \in 0 .. MaxFaults
        /\ UNCHANGED <<dirs, dataLock, stores, dataStores, opens, pack, versions>>
    BY <1>7, Known DEF Crash
  <2>2. DOMAIN todo' = Process /\ \A i \in Job : todo'[i] \subseteq AllChunks
    BY <2>1, Known
  <2> QED BY <1>0, <2>1, <2>2, Known, JobMoves
<1>8. CASE Commit(j)
  <2>1. /\ Goto(j, "publish") \/ Goto(j, "failed")
        /\ dirs' = dirs \/ dirs' = dirs \ {DirOf[j]}
        /\ OpenStore(GameOf[j]) /\ pc[j] = "commit"
        /\ faults' \in 0 .. MaxFaults
        /\ UNCHANGED <<todo, lock, dataLock, dataStores, pack, versions>>
    BY <1>8, Known DEF Commit, Return
  <2>2. stores' \subseteq Game /\ opens' \in [Game -> Nat]
    BY <1>0, <2>1, Opened
  <2> QED BY <1>0, <1>d, <2>1, <2>2, Known, JobMoves
<1>9. CASE PublishVersion(j)
  <2>1. /\ Goto(j, "done") \/ Goto(j, "failed")
        /\ dirs' = dirs \ {DirOf[j]} /\ pc[j] = "publish" /\ faults' \in 0 .. MaxFaults
        /\ UNCHANGED <<todo, lock, dataLock, stores, dataStores, opens, pack>>
    BY <1>9, Known DEF PublishVersion, Return, tableVars
  <2>2. \A v \in versions' : v.game \in Game /\ v.version \in Nat \ {0}
    BY <1>0, <1>9, Known, PublishAssumption DEF PublishVersion
  <2> QED BY <1>0, <1>d, <2>1, <2>2, Known, JobMoves
<1>10. CASE PublishFail(j)
  <2>1. /\ Goto(j, "failed") /\ dirs' = dirs \ {DirOf[j]} /\ pc[j] = "publish"
        /\ faults' \in 0 .. MaxFaults
        /\ UNCHANGED <<todo, lock, dataLock, stores, dataStores, opens, pack, versions>>
    BY <1>10, Known DEF PublishFail, Return, tableVars
  <2> QED BY <1>0, <1>d, <2>1, Known, JobMoves
<1> QED
  BY <1>1, <1>2, <1>3, <1>4, <1>5, <1>6, <1>7, <1>8, <1>9, <1>10 DEF JobStep

(* ... and so does every step of a connection ... *)
LEMMA ConnShapes ==
    ASSUME Shapes, NEW k \in Conn, ConnStep(k) \/ ConnBreak(k)
    PROVE  Shapes'
<1>0. /\ GameOf[k] \in Game
      /\ \A s \in {"ready", "table", "serve", "failed", "done"} : s \in Steps
  BY Games DEF Process, Steps, Ended
<1>1. ASSUME NEW step \in {"done", "failed"}, ConnEnd(k, step), faults' \in 0 .. MaxFaults
      PROVE  Shapes'
  BY <1>0, <1>1, Known, ConnMoves DEF ConnEnd
<1>2. CASE ConnGate(k)
  BY <1>0, <1>2, Known, ConnMoves DEF ConnGate, tableVars
<1>3. CASE ConnLock(k)
  <2>1. /\ Goto(k, "serve") \/ Goto(k, "table")
        /\ dataLock' = k /\ todo' = [todo EXCEPT ![k] = Wanted[k]]
        /\ UNCHANGED <<dirs, lock, stores, dataStores, opens, pack, versions, faults>>
    BY <1>3 DEF ConnLock
  <2>2. DOMAIN todo' = Process /\ \A i \in Job : todo'[i] = todo[i]
    BY <2>1, Known
  <2> QED BY <1>0, <2>1, <2>2, Known, ConnMoves
<1>4. CASE ConnTable(k)
  <2>1. /\ Goto(k, "serve") /\ dataStores' = dataStores \cup {GameOf[k]}
        /\ OpenStore(GameOf[k])
        /\ UNCHANGED <<todo, dirs, lock, dataLock, pack, versions, faults>>
    BY <1>4 DEF ConnTable
  <2>2. stores' \subseteq Game /\ opens' \in [Game -> Nat] /\ dataStores' \subseteq Game
    BY <1>0, <2>1, Opened, Known
  <2> QED BY <1>0, <2>1, <2>2, Known, ConnMoves
<1>5. CASE ConnDone(k)
  BY <1>1, <1>5, Known DEF ConnDone
<1>6. ASSUME NEW c \in todo[k], ConnChunk(k, c) PROVE Shapes'
  <2>1. CASE c \in pack[GameOf[k]]
    <3>1. /\ todo' = [todo EXCEPT ![k] = todo[k] \ {c}]
          /\ UNCHANGED <<pc, dirs, lock, dataLock, stores, dataStores, opens, pack, versions,
                         faults>>
      BY <1>6, <2>1 DEF ConnChunk, tableVars
    <3>2. DOMAIN todo' = Process /\ \A i \in Job : todo'[i] = todo[i]
      BY <3>1, Known
    <3> QED BY <3>1, <3>2 DEF Shapes, TypeOK
  <2>2. CASE c \notin pack[GameOf[k]]
    BY <1>1, <1>6, <2>2, Known DEF ConnChunk
  <2> QED BY <2>1, <2>2
<1>7. CASE ConnBreak(k)
  <2>1. CASE pc[k] = "serve"
    BY <1>1, <1>7, <2>1, Known DEF ConnBreak
  <2>2. CASE pc[k] # "serve"
    BY <1>0, <1>7, <2>2, Known, ConnMoves DEF ConnBreak, tableVars
  <2> QED BY <2>1, <2>2
<1> QED BY <1>2, <1>3, <1>4, <1>5, <1>6, <1>7 DEF ConnStep

(* ... and a peer that stalls. *)
LEMMA StallShapes ==
    ASSUME Shapes, NEW p \in Process, Stall(p)
    PROVE  Shapes'
<1>1. /\ Goto(p, "stalled") /\ faults' \in 0 .. MaxFaults
      /\ UNCHANGED <<todo, dirs, lock, dataLock, stores, dataStores, opens, pack, versions>>
  BY Known DEF Stall, tableVars
<1>2. "stalled" \in Steps
  BY DEF Steps
<1>3. CASE p \in Job
  BY <1>1, <1>2, <1>3, Known, JobMoves
<1>4. CASE p \in Conn
  BY <1>1, <1>2, <1>4, Known, ConnMoves
<1> QED BY <1>3, <1>4 DEF Process

LEMMA ShapesStep ==
    ASSUME Shapes, [Next]_vars
    PROVE  Shapes'
<1>1. CASE UNCHANGED vars
  BY <1>1 DEF vars, Shapes, TypeOK
<1> QED BY <1>1, JobShapes, ConnShapes, StallShapes DEF Next, Process
-----------------------------------------------------------------------------
LEMMA HandlesStep ==
    ASSUME Shapes, Handles, [Next]_vars
    PROVE  Handles'
<1>1. ASSUME NEW p \in Process, OpenStore(GameOf[p]),
             dataStores' \subseteq dataStores \cup {GameOf[p]}
      PROVE  Handles'
  <2>1. /\ stores \subseteq stores' /\ GameOf[p] \in stores'
        /\ (\A h \in Game : opens[h] = IF h \in stores THEN 1 ELSE 0) =>
                \A h \in Game : opens'[h] = IF h \in stores' THEN 1 ELSE 0
    BY <1>1, Games, Opened
  <2> QED BY <1>1, <2>1 DEF Handles
<1>2. ASSUME NEW j \in Job, Query(j) \/ UploadBegin(j) \/ Commit(j) PROVE Handles'
  <2>1. OpenStore(GameOf[j]) /\ dataStores' = dataStores /\ j \in Process
    BY <1>2 DEF Query, UploadBegin, Commit, Process
  <2> QED BY <1>1, <2>1
<1>3. ASSUME NEW k \in Conn, ConnTable(k) PROVE Handles'
  <2>1. /\ OpenStore(GameOf[k]) /\ dataStores' = dataStores \cup {GameOf[k]}
        /\ k \in Process
    BY <1>3 DEF ConnTable, Process
  <2> QED BY <1>1, <2>1
<1>4. CASE UNCHANGED <<stores, dataStores, opens>>
  BY <1>4 DEF Handles
<1> QED
  BY <1>2, <1>3, <1>4
     DEF Next, JobStep, ConnStep, LockDir, UploadChunk, UploadEnd, UploadBreak, Crash,
         PublishVersion, PublishFail, ConnGate, ConnLock, ConnChunk, ConnDone, ConnBreak,
         ConnEnd, Stall, tableVars, vars

(* A pack store only grows. *)
LEMMA PackGrows ==
    ASSUME Shapes, [Next]_vars, NEW g \in Game
    PROVE  pack[g] \subseteq pack'[g]
<1>1. CASE pack' = pack
  BY <1>1
<1>2. ASSUME NEW j \in Job, NEW c \in todo[j], UploadChunk(j, c)
      PROVE  pack[g] \subseteq pack'[g]
  BY <1>2, Known DEF UploadChunk
<1> QED
  BY <1>1, <1>2
     DEF Next, JobStep, ConnStep, LockDir, Query, UploadBegin, UploadEnd, UploadBreak, Crash,
         Commit, PublishVersion, PublishFail, ConnGate, ConnLock, ConnTable, ConnChunk,
         ConnDone, ConnBreak, ConnEnd, Stall, tableVars, vars

(* A manifest that was acceptable stays so. *)
LEMMA AcceptableStays ==
    ASSUME Shapes, [Next]_vars, NEW j \in Job, Acceptable(j)
    PROVE  Acceptable(j)'
<1>1. pack[GameOf[j]] \subseteq pack'[GameOf[j]]
  BY PackGrows, Games DEF Process
<1> QED BY <1>1 DEF Acceptable

(* A run that publishes has been checked, and still would be. *)
LEMMA CheckedStep ==
    ASSUME Shapes, Checked, [Next]_vars
    PROVE  Checked'
<1> SUFFICES ASSUME NEW i \in Job, pc'[i] = "publish"
             PROVE  Acceptable(i)'
  BY DEF Checked
<1>1. CASE pc[i] = "publish"
  BY <1>1, AcceptableStays DEF Checked
<1>2. CASE pc[i] # "publish"
  <2> DEFINE Calm == \E p \in Process, step \in Steps \ {"publish"} : Goto(p, step)
  <2>1. Calm => pc'[i] # "publish"
    BY <1>2 DEF Goto, Shapes, TypeOK, Process
  <2>2. ASSUME NEW j \in Job, Commit(j) PROVE Acceptable(i)'
    <3>1. CASE Goto(j, "publish") /\ Acceptable(j)
      <4>1. i = j
        BY <1>2, <3>1 DEF Goto, Shapes, TypeOK
      <4> QED BY <3>1, <4>1, AcceptableStays
    <3>2. CASE Goto(j, "failed")
      BY <2>1, <3>2 DEF Process, Steps, Ended
    <3> QED BY <2>2, <3>1, <3>2 DEF Commit, Return
  <2>3. CASE pc' = pc
    BY <1>2, <2>3
  <2>4. ASSUME NEW j \in Job,
               \/ LockDir(j) \/ Query(j) \/ UploadBegin(j) \/ UploadEnd(j)
               \/ UploadBreak(j) \/ Crash(j) \/ PublishVersion(j) \/ PublishFail(j)
        PROVE  Acceptable(i)'
    <3>1. \/ Goto(j, "failed") \/ Goto(j, "query") \/ Goto(j, "commit") \/ Goto(j, "upload")
          \/ Goto(j, "stream") \/ Goto(j, "crashed") \/ Goto(j, "done")
      BY <2>4 DEF LockDir, Query, UploadBegin, UploadEnd, UploadBreak, Crash,
                  PublishVersion, PublishFail, Return
    <3>2. Calm
      BY <3>1 DEF Steps, Ended, Process
    <3> QED BY <2>1, <3>2
  <2>5. ASSUME NEW k \in Conn,
               ConnGate(k) \/ ConnLock(k) \/ ConnTable(k) \/ ConnDone(k) \/ ConnBreak(k)
        PROVE  Acceptable(i)'
    <3>1. \/ Goto(k, "ready") \/ Goto(k, "serve") \/ Goto(k, "table") \/ Goto(k, "done")
          \/ Goto(k, "failed")
      BY <2>5 DEF ConnGate, ConnLock, ConnTable, ConnDone, ConnBreak, ConnEnd
    <3>2. Calm
      BY <3>1 DEF Steps, Ended, Process
    <3> QED BY <2>1, <3>2
  <2>6. ASSUME NEW k \in Conn, NEW c \in todo[k], ConnChunk(k, c) PROVE Acceptable(i)'
    <3>1. Goto(k, "failed") \/ pc' = pc
      BY <2>6 DEF ConnChunk, ConnEnd
    <3>2. Calm \/ pc' = pc
      BY <3>1 DEF Steps, Ended, Process
    <3> QED BY <2>1, <2>3, <3>2
  <2>7. ASSUME NEW p \in Process, Stall(p) PROVE Acceptable(i)'
    <3>1. Calm
      BY <2>7 DEF Stall, Steps
    <3> QED BY <2>1, <3>1
  <2> QED
    BY <2>2, <2>3, <2>4, <2>5, <2>6, <2>7
       DEF Next, JobStep, ConnStep, UploadChunk, vars, Process
<1> QED BY <1>1, <1>2

(* So has every version the scheduler knows. *)
LEMMA AcceptedStep ==
    ASSUME Shapes, Checked, Accepted, [Next]_vars
    PROVE  Accepted'
<1> DEFINE Of(v, j) == /\ v.game = GameOf[j] /\ v.version = VersionOf[j]
                       /\ v.manifest = Sent[j]
<1>1. \A v \in versions : \E j \in Job : Of(v, j) /\ Acceptable(j)'
  BY AcceptableStays DEF Accepted
<1>2. ASSUME NEW j \in Job, PublishVersion(j) PROVE Accepted'
  <2> DEFINE n == [game |-> GameOf[j], version |-> VersionOf[j], manifest |-> Sent[j]]
  <2>1. versions' \subseteq versions \cup {n} /\ pc[j] = "publish"
    BY <1>2 DEF PublishVersion
  <2>2. Of(n, j) /\ Acceptable(j)'
    BY <2>1, AcceptableStays DEF Checked
  <2> HIDE DEF n
  <2>3. \A v \in versions' : \E i \in Job : Of(v, i) /\ Acceptable(i)'
    BY <1>1, <2>1, <2>2
  <2> QED BY <2>3 DEF Accepted
<1>3. CASE versions' = versions
  BY <1>1, <1>3 DEF Accepted
<1> QED
  BY <1>2, <1>3
     DEF Next, JobStep, ConnStep, LockDir, Query, UploadBegin, UploadChunk, UploadEnd,
         UploadBreak, Crash, Commit, PublishFail, ConnGate, ConnLock, ConnTable, ConnChunk,
         ConnDone, ConnBreak, ConnEnd, Stall, tableVars, vars
-----------------------------------------------------------------------------
LEMMA PublishInit == Init => PublishInv
<1> SUFFICES ASSUME Init PROVE PublishInv
  OBVIOUS
<1>1. Shapes
  BY PublishAssumption DEF Init, Shapes, TypeOK, Steps, Process
<1>2. Handles /\ Checked /\ Accepted
  BY DEF Init, Handles, Checked, Accepted
<1> QED BY <1>1, <1>2 DEF PublishInv

LEMMA PublishStep == PublishInv /\ [Next]_vars => PublishInv'
  BY ShapesStep, HandlesStep, CheckedStep, AcceptedStep DEF PublishInv

(* The type invariant: the lock on the store table is held by an upload    *)
(* that is inside it, and the one on the data path's by a connection.      *)
THEOREM PublishTypeOK == Spec => []TypeOK
<1>1. PublishInv => TypeOK
  BY DEF PublishInv, Shapes
<1> QED
  BY PublishInit, PublishStep, <1>1, PTL DEF Spec

(* The database of a game is opened once, by whichever of query, upload,   *)
(* commit and download comes first.                                        *)
THEOREM OneHandleAlways == Spec => []OneHandle
<1>1. PublishInv => OneHandle
  BY DEF PublishInv, Handles, OneHandle
<1> QED
  BY PublishInit, PublishStep, <1>1, PTL DEF Spec

(* What the scheduler hands out as a version's manifest can be decoded,    *)
(* names only chunks the origin has and is the index of that version, for  *)
(* any producers, files and failures.                                      *)
THEOREM PublishedAlwaysComplete == Spec => []PublishedComplete
<1>1. PublishInv => PublishedComplete
  <2> SUFFICES ASSUME PublishInv, NEW v \in versions
               PROVE  LET index == Decode(v.manifest)
                      IN /\ index.ok /\ ChunkSet(index.files) \subseteq pack[v.game]
                         /\ \E j \in Job : /\ GameOf[j] = v.game /\ VersionOf[j] = v.version
                                           /\ index.files = Index[j]
    BY DEF PublishedComplete
  <2>1. PICK j \in Job : /\ v.game = GameOf[j] /\ v.version = VersionOf[j]
                         /\ v.manifest = Sent[j] /\ Acceptable(j)
    BY DEF PublishInv, Accepted
  <2>2. Decode(v.manifest) = Received[j]
    BY <2>1 DEF Received
  <2>3. Received[j].ok => Received[j].files = Index[j]
    <3>1. Received[j] = [ok |-> TRUE, files |-> Index[j]] \/ Received[j] = Bad
      BY RoundTrip
    <3>2. ~ Bad.ok
      BY DEF Bad
    <3> QED BY <3>1, <3>2
  <2> QED BY <2>1, <2>2, <2>3 DEF Acceptable
<1> QED
  BY PublishInit, PublishStep, <1>1, PTL DEF Spec
=============================================================================
