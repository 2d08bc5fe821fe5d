--------------------------- MODULE CatalogProofs ---------------------------
(***************************************************************************)
(* Theorems about Catalog for any categories, products, SKUs and pages.    *)
(***************************************************************************)
EXTENDS Catalog, FiniteSetTheorems, FunctionTheorems, SequenceTheorems, WellFoundedInduction, TLAPS

(* A set of numbers has a least one: the way to argue by the smallest      *)
(* counterexample.                                                         *)
LEMMA LeastOf ==
  ASSUME NEW T \in SUBSET Nat, T # {}
  PROVE  \E n \in T : \A m \in T : n <= m
<1>. DEFINE less == {ss \in Nat \X Nat : ss[1] < ss[2]}
<1>1. IsWellFoundedOn(less, Nat)
  BY NatLessThanWellFounded DEF OpToRel
<1>. HIDE DEF less
<1>2. PICK n \in T : \A m \in T : ~(<<m, n>> \in less)
  BY <1>1, WFMin
<1>3. \A m \in T : ~(m < n)
  BY <1>2 DEF less
<1>. QED  BY <1>3


(* The sequences over a set that repeat nothing.                           *)
LEMMA WithoutRepetition ==
  ASSUME NEW S, IsFiniteSet(S), NEW w
  PROVE  w \in SetToAllKPermutations(S) <=>
           /\ w \in Seq(S)
           /\ \A i, j \in 1 .. Len(w) : w[i] = w[j] => i = j
<1>1. ASSUME w \in SetToAllKPermutations(S)
      PROVE  /\ w \in Seq(S)
             /\ \A i, j \in 1 .. Len(w) : w[i] = w[j] => i = j
  <2>1. PICK s \in SUBSET S : w \in SetToSeqs(s)
    BY <1>1 DEF SetToAllKPermutations
  <2>2. Cardinality(s) \in Nat
    BY FS_Subset, FS_CardinalityType
  <2>3. w \in [1 .. Cardinality(s) -> s]
    BY <2>1 DEF SetToSeqs
  <2>4. w \in Seq(s) /\ Len(w) = Cardinality(s)
    BY <2>2, <2>3
  <2>. QED  BY <2>1, <2>4 DEF SetToSeqs
<1>2. ASSUME w \in Seq(S), \A i, j \in 1 .. Len(w) : w[i] = w[j] => i = j
      PROVE  w \in SetToAllKPermutations(S)
  <2>. DEFINE s == {w[i] : i \in 1 .. Len(w)}
  <2>1. Len(w) \in Nat /\ s \subseteq S /\ w \in [1 .. Len(w) -> s]
    BY <1>2
  <2>2. w \in Bijection(1 .. Len(w), s)
    BY <1>2, <2>1, Fun_IsBij
  <2>3. Cardinality(s) = Len(w)
    BY <2>1, <2>2, FS_CountingElements DEF ExistsBijection
  <2>4. w \in SetToSeqs(s)
    BY <1>2, <2>1, <2>3 DEF SetToSeqs
  <2>. QED  BY <2>1, <2>4 DEF SetToAllKPermutations
<1>. QED  BY <1>1, <1>2
-----------------------------------------------------------------------------
(***************************************************************************)
(* The hierarchy.  What the B2B keeps of its tree when categories move and *)
(* go is that paths agree: wherever two of them name the same category,    *)
(* they are the same down to it.  So no path names a category twice, and a *)
(* path is, down to any category of the listing, that one's own path.      *)
(***************************************************************************)
Agree(path, other) ==
  \A i \in 1 .. Len(path), j \in 1 .. Len(other) :
    path[i] = other[j] => i = j /\ \A k \in 1 .. i : path[k] = other[k]
Hierarchy(f) ==
  /\ DOMAIN f \subseteq Categories
  /\ \A c \in DOMAIN f : /\ f[c] \in Seq(Categories) /\ Len(f[c]) # 0
                         /\ f[c][Len(f[c])] = c
  /\ \A c, d \in DOMAIN f : Agree(f[c], f[d])

LEMMA OwnPath ==
  ASSUME NEW f, Hierarchy(f), NEW c \in DOMAIN f, NEW i \in 1 .. Len(f[c]), f[c][i] \in DOMAIN f
  PROVE  /\ Len(f[f[c][i]]) = i
         /\ \A k \in 1 .. i : f[f[c][i]][k] = f[c][k]
<1>. DEFINE d == f[c][i]
<1>1. /\ Len(f[d]) \in 1 .. Len(f[d]) /\ f[d][Len(f[d])] = d
      /\ Agree(f[d], f[c])
  BY DEF Hierarchy
<1>. QED  BY <1>1 DEF Agree

(* A forest is a hierarchy: by the shortest path that is not, down to some *)
(* category, that one's own.                                               *)
LEMMA ForestIsHierarchy ==
  ASSUME IsFiniteSet(Categories), NEW f, Forest(f),
         f \in [Categories -> SetToAllKPermutations(Categories) \ {<<>>}]
  PROVE  Hierarchy(f)
<1>. DEFINE Down(c) == \A i \in 1 .. Len(f[c]) :
                         /\ Len(f[f[c][i]]) = i
                         /\ \A k \in 1 .. i : f[f[c][i]][k] = f[c][k]
            broken == {n \in Nat : \E c \in Categories : Len(f[c]) = n /\ ~Down(c)}
<1>1. \A c \in Categories : /\ f[c] \in Seq(Categories) /\ Len(f[c]) \in Nat \ {0}
                            /\ f[c][Len(f[c])] = c
  <2>. SUFFICES ASSUME NEW c \in Categories
                PROVE  /\ f[c] \in Seq(Categories) /\ Len(f[c]) \in Nat \ {0}
                       /\ f[c][Len(f[c])] = c
    OBVIOUS
  <2>1. f[c] \in SetToAllKPermutations(Categories) /\ f[c] # <<>>
    OBVIOUS
  <2>2. f[c] \in Seq(Categories)
    BY <2>1, WithoutRepetition
  <2>3. f[c][Len(f[c])] = c
    BY DEF Forest, Last
  <2>. QED  BY <2>1, <2>2, <2>3, EmptySeq
<1>2. broken = {}
  <2>. SUFFICES ASSUME broken # {}
                PROVE  FALSE
    OBVIOUS
  <2>1. PICK n \in broken : \A m \in broken : n <= m
    BY LeastOf
  <2>2. PICK c \in Categories : Len(f[c]) = n /\ ~Down(c)
    OBVIOUS
  <2>3. PICK i \in 1 .. n : ~(/\ Len(f[f[c][i]]) = i
                              /\ \A k \in 1 .. i : f[f[c][i]][k] = f[c][k])
    BY <2>2
  <2>4. CASE i = n
    BY <1>1, <2>2, <2>3, <2>4
  <2>5. CASE i < n
    <3>. DEFINE up == Front(f[c])
                d  == Last(up)
    <3>1. up \in Seq(Categories) /\ Len(up) = n - 1 /\ \A k \in 1 .. n - 1 : up[k] = f[c][k]
      BY <1>1, <2>2, <2>5, SubSeqProperties DEF Front
    <3>2. d \in Categories /\ f[d] = up
      BY <2>2, <2>5 DEF Forest
    <3>3. n - 1 \in Nat /\ n - 1 \notin broken
      BY <2>1, <2>5
    <3>4. Down(d)
      BY <3>1, <3>2, <3>3
    <3>. HIDE DEF up, d
    <3>. QED  BY <2>3, <2>5, <3>1, <3>2, <3>4
  <2>. QED  BY <2>3, <2>4, <2>5
<1>3. \A c \in Categories : Down(c)
  BY <1>1, <1>2
<1>4. ASSUME NEW c \in Categories, NEW d \in Categories
      PROVE  Agree(f[c], f[d])
  <2>. SUFFICES ASSUME NEW i \in 1 .. Len(f[c]), NEW j \in 1 .. Len(f[d]), f[c][i] = f[d][j]
                PROVE  i = j /\ \A k \in 1 .. i : f[c][k] = f[d][k]
    BY DEF Agree
  <2>. QED  BY <1>3
<1>. QED  BY <1>1, <1>4 DEF Hierarchy

(* What is below a category is what of the paths begins with it, at its    *)
(* own place.                                                              *)
LEMMA BelowIsTail ==
  ASSUME NEW f, Hierarchy(f), NEW c \in DOMAIN f, NEW d \in DOMAIN f, Contains(f[d], c)
  PROVE  /\ Len(f[c]) \in 1 .. Len(f[d]) /\ f[d][Len(f[c])] = c
         /\ SelectInSeq(f[d], LAMBDA x : x = c) = Len(f[c])
<1>1. PICK i \in 1 .. Len(f[d]) : f[d][i] = c
  BY DEF Contains
<1>2. i = Len(f[c])
  BY <1>1, OwnPath
<1>3. \A j \in 1 .. Len(f[d]) : f[d][j] = c => j = i
  BY <1>1, <1>2, OwnPath
<1>4. {j \in 1 .. Len(f[d]) : f[d][j] = c} = {i}
  BY <1>1, <1>3
<1>5. Min({i}) = i
  BY <1>1 DEF Min
<1>6. SelectInSeq(f[d], LAMBDA x : x = c) = i
  BY <1>4, <1>5 DEF SelectInSeq
<1>. QED  BY <1>1, <1>2, <1>6

(* A branch moves as one: above, its paths are the new parent's, which has *)
(* no part in it; below they are what they were.                           *)
Moved(up, path, l) == up \o SubSeq(path, l, Len(path))

LEMMA MovedAlong ==
  ASSUME NEW up \in Seq(Categories), NEW path \in Seq(Categories), NEW l \in 1 .. Len(path)
  PROVE  /\ Moved(up, path, l) \in Seq(Categories)
         /\ Len(Moved(up, path, l)) = Len(up) + (Len(path) - l + 1)
         /\ \A i \in 1 .. Len(up) : Moved(up, path, l)[i] = up[i]
         /\ \A h \in l .. Len(path) : Moved(up, path, l)[Len(up) + (h - l + 1)] = path[h]
<1>. DEFINE t == SubSeq(path, l, Len(path))
<1>1. /\ t \in Seq(Categories) /\ Len(t) = Len(path) - l + 1
      /\ \A i \in 1 .. Len(path) - l + 1 : t[i] = path[l + i - 1]
  BY SubSeqProperties
<1>. HIDE DEF t
<1>2. Len(up) \in Nat /\ Len(path) \in Nat /\ Len(t) \in Nat
  BY <1>1
<1>3. /\ up \o t \in Seq(Categories) /\ Len(up \o t) = Len(up) + Len(t)
      /\ \A i \in 1 .. Len(up) + Len(t) : (up \o t)[i] = IF i <= Len(up) THEN up[i] ELSE t[i - Len(up)]
  BY <1>1, ConcatProperties
<1>4. \A i \in 1 .. Len(up) : (up \o t)[i] = up[i]
  BY <1>2, <1>3
<1>5. ASSUME NEW h \in l .. Len(path)
      PROVE  (up \o t)[Len(up) + (h - l + 1)] = path[h]
  <2>1. h - l + 1 \in 1 .. Len(t) /\ l + (h - l + 1) - 1 = h
    BY <1>1, <1>2
  <2>2. (up \o t)[Len(up) + (h - l + 1)] = t[h - l + 1]
    BY <1>2, <1>3, <2>1
  <2>. QED  BY <1>1, <2>1, <2>2
<1>. QED  BY <1>1, <1>3, <1>4, <1>5 DEF Moved, t

(* Where a moved path names a category: above, or below.                   *)
LEMMA MovedPlaces ==
  ASSUME NEW up \in Seq(Categories), NEW path \in Seq(Categories), NEW l \in 1 .. Len(path),
         NEW i \in 1 .. Len(Moved(up, path, l))
  PROVE  \/ i \in 1 .. Len(up) /\ Moved(up, path, l)[i] = up[i]
         \/ \E h \in l .. Len(path) : /\ i = Len(up) + (h - l + 1)
                                      /\ Moved(up, path, l)[i] = path[h]
<1>. DEFINE a == Moved(up, path, l)
<1>0. /\ Len(a) = Len(up) + (Len(path) - l + 1)
      /\ \A k \in 1 .. Len(up) : a[k] = up[k]
      /\ \A h \in l .. Len(path) : a[Len(up) + (h - l + 1)] = path[h]
  BY MovedAlong
<1>. HIDE DEF a
<1>1. Len(up) \in Nat /\ Len(path) \in Nat /\ i \in 1 .. Len(up) + (Len(path) - l + 1)
  BY <1>0 DEF a
<1>2. CASE i <= Len(up)
  BY <1>0, <1>1, <1>2 DEF a
<1>3. CASE i > Len(up)
  <2>1. i - Len(up) + l - 1 \in l .. Len(path)
        /\ i = Len(up) + ((i - Len(up) + l - 1) - l + 1)
    BY <1>1, <1>3
  <2>. QED  BY <1>0, <2>1 DEF a
<1>. QED  BY <1>1, <1>2, <1>3

LEMMA MovedAgreesWithKept ==
  ASSUME NEW up \in Seq(Categories), NEW path \in Seq(Categories), NEW kept \in Seq(Categories),
         NEW l \in 1 .. Len(path), \A i \in 1 .. Len(kept) : kept[i] # path[l],
         Agree(up, kept), Agree(path, kept)
  PROVE  Agree(Moved(up, path, l), kept)
<1>. SUFFICES ASSUME NEW i \in 1 .. Len(Moved(up, path, l)), NEW j \in 1 .. Len(kept),
                     Moved(up, path, l)[i] = kept[j]
              PROVE  i = j /\ \A k \in 1 .. i : Moved(up, path, l)[k] = kept[k]
  BY DEF Agree
<1>1. CASE i \in 1 .. Len(up) /\ Moved(up, path, l)[i] = up[i]
  <2>1. i = j /\ \A k \in 1 .. i : up[k] = kept[k]
    BY <1>1 DEF Agree
  <2>2. \A k \in 1 .. i : k \in 1 .. Len(up)
    BY <1>1
  <2>3. \A k \in 1 .. Len(up) : Moved(up, path, l)[k] = up[k]
    BY MovedAlong
  <2>. QED  BY <2>1, <2>2, <2>3
<1>2. ASSUME NEW h \in l .. Len(path), Moved(up, path, l)[i] = path[h]
      PROVE  FALSE
  <2>1. h \in 1 .. Len(path) /\ l \in 1 .. h
    OBVIOUS
  <2>2. h = j /\ \A k \in 1 .. h : path[k] = kept[k]
    BY <1>2, <2>1 DEF Agree
  <2>. QED  BY <2>1, <2>2
<1>. QED  BY <1>1, <1>2, MovedPlaces

LEMMA MovedAgree ==
  ASSUME NEW up \in Seq(Categories), NEW path \in Seq(Categories), NEW other \in Seq(Categories),
         NEW l \in 1 .. Len(path), l \in 1 .. Len(other), path[l] = other[l],
         \A i \in 1 .. Len(up) : up[i] # path[l],
         Agree(up, up), Agree(up, path), Agree(up, other), Agree(path, other)
  PROVE  Agree(Moved(up, path, l), Moved(up, other, l))
<1>. DEFINE a == Moved(up, path, l)
            b == Moved(up, other, l)
<1>a. /\ \A k \in 1 .. Len(up) : a[k] = up[k]
      /\ \A k \in l .. Len(path) : a[Len(up) + (k - l + 1)] = path[k]
  BY MovedAlong
<1>b. /\ \A k \in 1 .. Len(up) : b[k] = up[k]
      /\ \A k \in l .. Len(other) : b[Len(up) + (k - l + 1)] = other[k]
  BY MovedAlong
<1>1. Len(up) \in Nat /\ Len(path) \in Nat /\ Len(other) \in Nat
  OBVIOUS
<1>2. \A i \in 1 .. Len(a) : \/ i \in 1 .. Len(up) /\ a[i] = up[i]
                             \/ \E h \in l .. Len(path) : i = Len(up) + (h - l + 1) /\ a[i] = path[h]
  BY MovedPlaces
<1>3. \A i \in 1 .. Len(b) : \/ i \in 1 .. Len(up) /\ b[i] = up[i]
                             \/ \E h \in l .. Len(other) : i = Len(up) + (h - l + 1) /\ b[i] = other[h]
  BY MovedPlaces
<1>. HIDE DEF a, b
<1>4. \A q \in {path, other}, m \in 1 .. Len(up) : \A h \in l .. Len(q) : up[m] # q[h]
  <2>. SUFFICES ASSUME NEW q \in {path, other}, NEW m \in 1 .. Len(up), NEW h \in l .. Len(q),
                       up[m] = q[h]
                PROVE  FALSE
    OBVIOUS
  <2>1. h \in 1 .. Len(q) /\ Agree(up, q) /\ q[l] = path[l]
    BY <1>1
  <2>2. m = h /\ up[l] = q[l]
    <3>1. m = h /\ \A k \in 1 .. m : up[k] = q[k]
      BY <2>1 DEF Agree
    <3>2. l \in 1 .. m
      BY <1>1, <3>1
    <3>. QED  BY <3>1, <3>2
  <2>3. l \in 1 .. Len(up)
    BY <1>1, <2>2
  <2>. QED  BY <2>1, <2>2, <2>3
<1>5. SUFFICES ASSUME NEW i \in 1 .. Len(a), NEW j \in 1 .. Len(b), a[i] = b[j]
               PROVE  i = j /\ \A k \in 1 .. i : a[k] = b[k]
  BY DEF Agree, a, b
<1>6. CASE i \in 1 .. Len(up) /\ a[i] = up[i]
  <2>1. CASE j \in 1 .. Len(up) /\ b[j] = up[j]
    <3>1. i = j
      <4>1. up[i] = up[j] /\ i \in 1 .. Len(up) /\ j \in 1 .. Len(up)
        BY <1>5, <1>6, <2>1
      <4>. QED  BY <4>1 DEF Agree
    <3>2. \A k \in 1 .. i : k \in 1 .. Len(up)
      BY <1>1, <1>6
    <3>. QED  BY <1>a, <1>b, <3>1, <3>2
  <2>2. ASSUME NEW h \in l .. Len(other), b[j] = other[h]
        PROVE  FALSE
    BY <1>4, <1>5, <1>6, <2>2
  <2>. QED  BY <1>3, <2>1, <2>2
<1>7. ASSUME NEW h \in l .. Len(path), i = Len(up) + (h - l + 1), a[i] = path[h]
      PROVE  i = j /\ \A k \in 1 .. i : a[k] = b[k]
  <2>1. CASE j \in 1 .. Len(up) /\ b[j] = up[j]
    BY <1>4, <1>5, <1>7, <2>1
  <2>2. ASSUME NEW g \in l .. Len(other), j = Len(up) + (g - l + 1), b[j] = other[g]
        PROVE  i = j /\ \A k \in 1 .. i : a[k] = b[k]
    <3>1. h \in 1 .. Len(path) /\ g \in 1 .. Len(other)
      BY <1>1
    <3>2. h = g /\ \A k \in 1 .. h : path[k] = other[k]
      <4>1. path[h] = other[g]
        BY <1>5, <1>7, <2>2
      <4>. QED  BY <3>1, <4>1 DEF Agree
    <3>3. ASSUME NEW k \in 1 .. i
          PROVE  a[k] = b[k]
      <4>1. CASE k <= Len(up)
        BY <1>1, <1>a, <1>b, <4>1
      <4>2. CASE k > Len(up)
        <5>. DEFINE o == k - Len(up) + l - 1
        <5>1. /\ o \in l .. Len(path) /\ o \in l .. Len(other) /\ o \in 1 .. h
              /\ k = Len(up) + (o - l + 1)
          <6>1. /\ l \in Nat /\ l >= 1 /\ h \in Nat /\ h >= l /\ h <= Len(path)
                /\ h <= Len(other)
            BY <3>1, <3>2
          <6>2. k \in Nat /\ k <= Len(up) + (h - l + 1)
            BY <1>1, <1>7, <6>1
          <6>. QED  BY <1>1, <4>2, <6>1, <6>2
        <5>. HIDE DEF o
        <5>. QED  BY <1>a, <1>b, <3>2, <5>1
      <4>. QED  BY <1>1, <4>1, <4>2
    <3>. QED  BY <1>7, <2>2, <3>2, <3>3
  <2>. QED  BY <1>3, <2>1, <2>2
<1>. QED  BY <1>2, <1>6, <1>7

LEMMA MovedHierarchy ==
  ASSUME Hierarchy(cats), NEW c, NEW p, CategoryMoved(c, p)
  PROVE  Hierarchy(cats')
<1>. DEFINE D        == DOMAIN cats
            l        == Len(cats[c])
            below(d) == Contains(cats[d], c)
<1>1. c \in D /\ p \in D /\ ~below(p)
  BY DEF CategoryMoved
<1>2. \A d \in D : /\ cats[d] \in Seq(Categories) /\ Len(cats[d]) \in Nat \ {0}
                   /\ cats[d][Len(cats[d])] = d
  BY EmptySeq DEF Hierarchy
<1>3. DOMAIN cats' = D /\ \A d \in D : ~below(d) => cats'[d] = cats[d]
  BY DEF CategoryMoved
<1>4. \A d \in D : below(d) => l \in 1 .. Len(cats[d]) /\ cats[d][l] = c
  BY <1>1, BelowIsTail
<1>5. \A d \in D : below(d) => cats'[d] = Moved(cats[p], cats[d], l)
  BY <1>1, BelowIsTail DEF CategoryMoved, Moved
<1>6. \A d, e \in D : Agree(cats[d], cats[e])
  BY DEF Hierarchy
<1>7. \A d \in D : ~below(d) => \A i \in 1 .. Len(cats[d]) : cats[d][i] # c
  BY DEF Contains
<1>. HIDE DEF D, l, below
<1>8. ASSUME NEW d \in D
      PROVE  /\ cats'[d] \in Seq(Categories) /\ Len(cats'[d]) # 0
             /\ cats'[d][Len(cats'[d])] = d
  <2>1. CASE ~below(d)
    BY <1>2, <1>3, <2>1
  <2>2. CASE below(d)
    <3>. DEFINE up == cats[p]
                path == cats[d]
    <3>1. /\ up \in Seq(Categories) /\ path \in Seq(Categories) /\ l \in 1 .. Len(path)
          /\ Len(path) \in l .. Len(path) /\ path[Len(path)] = d
          /\ cats'[d] = Moved(up, path, l)
      BY <1>1, <1>2, <1>4, <1>5, <2>2
    <3>. HIDE DEF up, path
    <3>2. /\ Moved(up, path, l) \in Seq(Categories)
          /\ Len(Moved(up, path, l)) = Len(up) + (Len(path) - l + 1)
          /\ Moved(up, path, l)[Len(up) + (Len(path) - l + 1)] = path[Len(path)]
      BY <3>1, MovedAlong
    <3>3. Len(up) \in Nat /\ Len(path) \in Nat
      BY <3>1
    <3>. QED  BY <3>1, <3>2, <3>3
  <2>. QED  BY <2>1, <2>2
<1>9. ASSUME NEW d \in D, NEW e \in D, below(d), ~below(e)
      PROVE  Agree(cats'[d], cats'[e])
  <2>1. /\ cats[p] \in Seq(Categories) /\ cats[d] \in Seq(Categories)
        /\ cats[e] \in Seq(Categories) /\ l \in 1 .. Len(cats[d])
        /\ \A i \in 1 .. Len(cats[e]) : cats[e][i] # cats[d][l]
        /\ Agree(cats[p], cats[e]) /\ Agree(cats[d], cats[e])
    BY <1>1, <1>2, <1>4, <1>6, <1>7, <1>9
  <2>2. Agree(Moved(cats[p], cats[d], l), cats[e])
    BY <2>1, MovedAgreesWithKept
  <2>. QED  BY <1>3, <1>5, <1>9, <2>2
<1>10. ASSUME NEW d \in D, NEW e \in D, below(d), below(e)
       PROVE  Agree(cats'[d], cats'[e])
  <2>1. \A i \in 1 .. Len(cats[p]) : cats[p][i] # c
    BY <1>1, <1>7
  <2>. QED  BY <1>1, <1>2, <1>4, <1>5, <1>6, <1>10, <2>1, MovedAgree
<1>11. ASSUME NEW d \in D, NEW e \in D
       PROVE  Agree(cats'[d], cats'[e])
  <2>1. CASE ~below(d) /\ ~below(e)
    BY <1>3, <1>6, <2>1
  <2>2. CASE ~below(d) /\ below(e)
    <3>1. Agree(cats'[e], cats'[d])
      BY <1>9, <2>2
    <3>. QED  BY <1>8, <3>1 DEF Agree
  <2>. QED  BY <1>9, <1>10, <2>1, <2>2
<1>12. D \subseteq Categories
  BY DEF Hierarchy, D
<1>. QED  BY <1>3, <1>8, <1>11, <1>12 DEF Hierarchy

LEMMA RemovedHierarchy ==
  ASSUME Hierarchy(cats), NEW c, CategoryRemoved(c)
  PROVE  Hierarchy(cats')
<1>1. DOMAIN cats' = DOMAIN cats \ {c} /\ \A d \in DOMAIN cats \ {c} : cats'[d] = cats[d]
  BY DEF CategoryRemoved
<1>. QED  BY <1>1 DEF Hierarchy
-----------------------------------------------------------------------------
(***************************************************************************)
(* What is answered of the hierarchy.  A tree or breadcrumbs are answered  *)
(* only when no path names a category that is gone: every part of a path   *)
(* then has its own path, which is the path down to it.                    *)
(***************************************************************************)
LEMMA OwnPaths ==
  ASSUME Hierarchy(cats), NEW c \in DOMAIN cats, ~Orphan(cats[c]),
         NEW i \in 1 .. Len(cats[c])
  PROVE  /\ cats[c][i] \in DOMAIN cats
         /\ Len(cats[cats[c][i]]) = i
         /\ \A k \in 1 .. i : cats[cats[c][i]][k] = cats[c][k]
<1>1. cats[c][i] \in DOMAIN cats
  BY DEF Orphan, ToSet, Hierarchy
<1>. QED  BY <1>1, OwnPath

(* A category that has its parent in the listing hangs there, one of a     *)
(* path of its own is a root.                                              *)
LEMMA TreePlaces ==
  ASSUME Hierarchy(cats), \A d \in DOMAIN cats : ~Orphan(cats[d]), NEW c \in DOMAIN cats
  PROVE  /\ c \in Tree.roots <=> Len(cats[c]) = 1
         /\ \A p \in DOMAIN cats :
              c \in Tree.children[p] <=> Len(cats[c]) > 1 /\ cats[c][Len(cats[c]) - 1] = p
<1>. DEFINE n == Len(cats[c])
<1>1. n \in Nat \ {0} /\ DOMAIN cats \subseteq Categories
  BY EmptySeq DEF Hierarchy
<1>2. CASE n = 1
  <2>1. ParentOf(cats[c]) = None /\ None \notin DOMAIN cats
    BY <1>1, <1>2, CatalogAssumption DEF ParentOf
  <2>. QED  BY <1>2, <2>1 DEF Tree
<1>3. CASE n > 1
  <2>1. ParentOf(cats[c]) = cats[c][n - 1]
    BY <1>3 DEF ParentOf
  <2>2. n - 1 \in 1 .. n
    BY <1>1, <1>3
  <2>3. cats[c][n - 1] \in DOMAIN cats
    BY <2>2, OwnPaths
  <2>4. c \notin Tree.roots
    BY <2>1, <2>3 DEF Tree
  <2>5. \A p \in DOMAIN cats : c \in Tree.children[p] <=> cats[c][n - 1] = p
    BY <2>1 DEF Tree
  <2>. HIDE DEF n
  <2>6. n # 1
    BY <1>1, <1>3
  <2>. QED  BY <1>3, <2>4, <2>5, <2>6 DEF n
<1>. HIDE DEF n
<1>4. n = 1 \/ n > 1
  BY <1>1
<1>. QED  BY <1>2, <1>3, <1>4

LEMMA PathIsWay ==
  ASSUME Hierarchy(cats), \A d \in DOMAIN cats : ~Orphan(cats[d]), NEW c \in DOMAIN cats
  PROVE  cats[c] \in Ways(Tree)
<1>. DEFINE D == DOMAIN cats
            w == cats[c]
<1>1. IsFiniteSet(D)
  BY CatalogAssumption, FS_Subset DEF Hierarchy
<1>2. w \in Seq(Categories) /\ Len(w) \in Nat \ {0} /\ Agree(w, w)
  BY EmptySeq DEF Hierarchy
<1>3. \A i \in 1 .. Len(w) : /\ w[i] \in D /\ Len(cats[w[i]]) = i
                             /\ \A k \in 1 .. i : cats[w[i]][k] = w[k]
  BY OwnPaths
<1>4. w \in SetToAllKPermutations(D)
  <2>1. w \in Seq(D)
    BY <1>2, <1>3
  <2>. QED  BY <1>1, <1>2, <2>1, WithoutRepetition DEF Agree
<1>5. w[1] \in Tree.roots
  <2>1. 1 \in 1 .. Len(w)
    BY <1>2
  <2>2. w[1] \in D /\ Len(cats[w[1]]) = 1
    BY <1>3, <2>1
  <2>. QED  BY <2>2, TreePlaces
<1>6. ASSUME NEW i \in 1 .. Len(w) - 1
      PROVE  w[i + 1] \in Tree.children[w[i]]
  <2>1. i \in 1 .. Len(w) /\ i + 1 \in 1 .. Len(w) /\ i \in 1 .. i + 1
    BY <1>2
  <2>2. w[i] \in D /\ w[i + 1] \in D /\ Len(cats[w[i + 1]]) = i + 1 /\ cats[w[i + 1]][i] = w[i]
    BY <1>3, <2>1
  <2>. QED  BY <1>2, <2>2, TreePlaces
<1>7. DOMAIN Tree.children = D
  BY DEF Tree
<1>8. w # <<>>
  BY <1>2
<1>. QED  BY <1>4, <1>5, <1>6, <1>7, <1>8 DEF Ways

(* By the first step of a way that is not the path of where it has come.   *)
LEMMA WayIsPath ==
  ASSUME Hierarchy(cats), \A d \in DOMAIN cats : ~Orphan(cats[d]), NEW w \in Ways(Tree)
  PROVE  \E c \in DOMAIN cats : w = cats[c]
<1>. DEFINE D == DOMAIN cats
            Along(i) == /\ Len(cats[w[i]]) = i
                        /\ \A k \in 1 .. i : cats[w[i]][k] = w[k]
            astray   == {i \in 1 .. Len(w) : ~Along(i)}
<1>1. DOMAIN Tree.children = D /\ IsFiniteSet(D)
  BY CatalogAssumption, FS_Subset DEF Tree, Hierarchy
<1>2. /\ w \in Seq(D) /\ w # <<>> /\ w[1] \in Tree.roots
      /\ \A i \in 1 .. Len(w) - 1 : w[i + 1] \in Tree.children[w[i]]
  BY <1>1, WithoutRepetition DEF Ways
<1>3. Len(w) \in Nat \ {0} /\ \A i \in 1 .. Len(w) : w[i] \in D
  BY <1>2, EmptySeq
<1>4. \A d \in D : cats[d] \in Seq(Categories) /\ Len(cats[d]) \in Nat /\ cats[d][Len(cats[d])] = d
  BY DEF Hierarchy
<1>5. astray = {}
  <2>. SUFFICES ASSUME astray # {}
                PROVE  FALSE
    OBVIOUS
  <2>1. astray \in SUBSET Nat
    BY <1>3
  <2>2. PICK i \in astray : \A m \in astray : i <= m
    BY <2>1, LeastOf
  <2>3. CASE i = 1
    BY <1>2, <1>3, <1>4, <2>2, <2>3, TreePlaces
  <2>4. CASE i > 1
    <3>. DEFINE h == i - 1
                m == Len(cats[w[i]])
    <3>1. h \in 1 .. Len(w) - 1 /\ h \in 1 .. Len(w) /\ h + 1 = i /\ i \in 1 .. Len(w)
      BY <1>3, <2>1, <2>2, <2>4
    <3>2. Along(h)
      BY <2>2, <3>1
    <3>3. m > 1 /\ cats[w[i]][m - 1] = w[h] /\ w[i] \in D /\ w[h] \in D
      <4>1. w[i] \in Tree.children[w[h]] /\ w[i] \in D /\ w[h] \in D
        BY <1>2, <1>3, <3>1
      <4>. QED  BY <4>1, TreePlaces
    <3>4. m - 1 \in 1 .. m
      BY <1>4, <3>3
    <3>5. m - 1 = h /\ \A k \in 1 .. h : w[k] = cats[w[i]][k]
      <4>1. /\ Len(cats[w[h]]) = m - 1
            /\ \A k \in 1 .. m - 1 : cats[w[h]][k] = cats[w[i]][k]
        <5>1. /\ Len(cats[cats[w[i]][m - 1]]) = m - 1
              /\ \A k \in 1 .. m - 1 : cats[cats[w[i]][m - 1]][k] = cats[w[i]][k]
          BY <3>3, <3>4, OwnPaths
        <5>. QED  BY <3>3, <5>1
      <4>. QED  BY <3>2, <4>1
    <3>6. Along(i)
      <4>1. m = i /\ cats[w[i]][i] = w[i]
        BY <1>4, <3>1, <3>3, <3>5
      <4>2. ASSUME NEW k \in 1 .. i
            PROVE  cats[w[i]][k] = w[k]
        BY <3>1, <3>5, <4>1, <4>2
      <4>. QED  BY <4>1, <4>2
    <3>. QED  BY <2>2, <3>6
  <2>. QED  BY <1>3, <2>1, <2>2, <2>3, <2>4
<1>6. Len(w) \in 1 .. Len(w) /\ Along(Len(w))
  BY <1>3, <1>5
<1>7. w[Len(w)] \in D /\ w = cats[w[Len(w)]]
  <2>. DEFINE p == cats[w[Len(w)]]
  <2>1. w[Len(w)] \in D /\ p \in Seq(Categories)
    BY <1>3, <1>4, <1>6
  <2>2. Len(p) = Len(w) /\ \A k \in 1 .. Len(w) : p[k] = w[k]
    BY <1>6
  <2>. HIDE DEF p
  <2>. QED  BY <1>2, <2>1, <2>2 DEF p
<1>. QED  BY <1>7

LEMMA WaysArePaths ==
  ASSUME Hierarchy(cats), \A d \in DOMAIN cats : ~Orphan(cats[d])
  PROVE  Ways(Tree) = {cats[c] : c \in DOMAIN cats}
BY PathIsWay, WayIsPath

LEMMA CrumbsOfPath ==
  ASSUME Hierarchy(cats), NEW c \in DOMAIN cats, ~Orphan(cats[c]), NEW crumbs,
         crumbs = [i \in DOMAIN cats[c] |-> [id |-> cats[c][i], level |-> i - 1,
                                             current |-> cats[c][i] = c]]
  PROVE  /\ crumbs[Len(crumbs)].id = c
         /\ \A i \in 1 .. Len(crumbs) :
              /\ crumbs[i].id \in DOMAIN cats
              /\ cats[crumbs[i].id] = [j \in 1 .. i |-> crumbs[j].id]
              /\ crumbs[i].level = i - 1
              /\ crumbs[i].current = (i = Len(crumbs))
<1>. DEFINE w == cats[c]
            n == Len(w)
<1>1. /\ w \in Seq(Categories) /\ n \in Nat \ {0} /\ DOMAIN w = 1 .. n /\ w[n] = c
      /\ Agree(w, w)
  BY EmptySeq DEF Hierarchy
<1>2. \A i \in 1 .. n : /\ w[i] \in DOMAIN cats /\ Len(cats[w[i]]) = i
                        /\ \A k \in 1 .. i : cats[w[i]][k] = w[k]
  BY OwnPaths
<1>3. \A d \in DOMAIN cats : cats[d] \in Seq(Categories)
  BY DEF Hierarchy
<1>. HIDE DEF w
<1>4. /\ DOMAIN crumbs = 1 .. n
      /\ \A i \in 1 .. n : /\ crumbs[i].id = w[i] /\ crumbs[i].level = i - 1
                           /\ crumbs[i].current = (w[i] = c)
  BY <1>1 DEF w
<1>. HIDE DEF n
<1>5. Len(crumbs) = n
  BY <1>1, <1>4, LenProperties
<1>6. ASSUME NEW i \in 1 .. n
      PROVE  cats[crumbs[i].id] = [j \in 1 .. i |-> crumbs[j].id]
  <2>. DEFINE p == cats[w[i]]
  <2>1. p \in Seq(Categories) /\ Len(p) = i /\ \A k \in 1 .. i : p[k] = w[k]
    BY <1>2, <1>3
  <2>2. \A k \in 1 .. i : k \in 1 .. n
    BY <1>1
  <2>. HIDE DEF p
  <2>3. p = [j \in 1 .. i |-> w[j]]
    BY <2>1
  <2>4. [j \in 1 .. i |-> w[j]] = [j \in 1 .. i |-> crumbs[j].id]
    BY <1>4, <2>2
  <2>. QED  BY <1>4, <2>3, <2>4 DEF p
<1>7. \A i \in 1 .. n : w[i] = c <=> i = n
  <2>. SUFFICES ASSUME NEW i \in 1 .. n, w[i] = w[n]
                PROVE  i = n
    BY <1>1
  <2>1. n \in 1 .. Len(w) /\ i \in 1 .. Len(w)
    BY <1>1 DEF n
  <2>. QED  BY <1>1, <2>1 DEF Agree
<1>8. \A i \in 1 .. n : crumbs[i].current = (i = n)
  BY <1>4, <1>7
<1>9. crumbs[n].id = c
  BY <1>1, <1>4
<1>. QED  BY <1>2, <1>4, <1>5, <1>6, <1>8, <1>9
-----------------------------------------------------------------------------
(***************************************************************************)
(* The card of a product.                                                  *)
(***************************************************************************)
Sku == [price : Int, discount : Int, quantity : Int]

(* Numbers that are compared somehow, any two and consistently: some comes *)
(* first, by the shortest part of them in which none does.                 *)
LEMMA FirstOfSome ==
  ASSUME NEW n \in Nat, NEW pool \in SUBSET (1 .. n), pool # {}, NEW before,
         \A i, j \in pool : <<i, j>> \in before \/ <<j, i>> \in before,
         \A i, j, k \in pool :
           <<i, j>> \in before /\ <<j, k>> \in before => <<i, k>> \in before
  PROVE  \E i \in pool : \A j \in pool : <<i, j>> \in before
<1>. DEFINE Part(m) == {i \in pool : i <= m}
            Has(m)  == \E i \in Part(m) : \A j \in Part(m) : <<i, j>> \in before
            without == {m \in 0 .. n : Part(m) # {} /\ ~Has(m)}
<1>1. without = {}
  <2>. SUFFICES ASSUME without # {}
                PROVE  FALSE
    OBVIOUS
  <2>. without \in SUBSET Nat
    OBVIOUS
  <2>1. PICK m \in without : \A o \in without : m <= o
    <3>. HIDE DEF without
    <3>. QED  BY LeastOf
  <2>2. m \in 1 .. n /\ m - 1 \in 0 .. n /\ m - 1 \notin without
    <3>1. m \in 0 .. n /\ \E i \in pool : i <= m
      BY <2>1
    <3>2. m \in 1 .. n
      BY <3>1
    <3>3. m - 1 \in Nat /\ ~(m <= m - 1)
      BY <3>2
    <3>. HIDE DEF without
    <3>. QED  BY <2>1, <3>2, <3>3
  <2>3. \A i \in pool : i <= m <=> i <= m - 1 \/ i = m
    BY <2>2
  <2>4. Part(m) # {} /\ ~Has(m)
    BY <2>1
  <2>5. CASE Part(m - 1) = {}
    <3>1. \A i \in Part(m) : i = m
      BY <2>3, <2>5
    <3>2. m \in Part(m) /\ <<m, m>> \in before
      BY <2>4, <3>1
    <3>. QED  BY <2>4, <3>1, <3>2
  <2>6. CASE Part(m - 1) # {}
    <3>1. PICK i \in Part(m - 1) : \A j \in Part(m - 1) : <<i, j>> \in before
      BY <2>2, <2>6
    <3>2. i \in Part(m) /\ \A j \in Part(m) : j \in Part(m - 1) \/ j = m
      BY <2>3, <3>1
    <3>3. CASE m \notin pool \/ <<i, m>> \in before
      <4>1. \A j \in Part(m) : <<i, j>> \in before
        BY <3>1, <3>2, <3>3
      <4>. QED  BY <2>4, <3>2, <4>1
    <3>4. CASE m \in pool /\ <<m, i>> \in before
      <4>1. m \in Part(m) /\ <<m, m>> \in before
        BY <2>2, <3>4
      <4>2. \A j \in Part(m) : <<m, j>> \in before
        BY <3>1, <3>2, <3>4, <4>1
      <4>. QED  BY <2>4, <4>1, <4>2
    <3>. QED  BY <3>1, <3>3, <3>4
  <2>. QED  BY <2>5, <2>6
<1>2. n \in 0 .. n /\ \A i \in pool : i <= n
  OBVIOUS
<1>3. Has(n)
  BY <1>1, <1>2
<1>. QED  BY <1>2, <1>3

LEMMA CheapestIsOne ==
  ASSUME NEW skus \in Seq(Sku), NEW pool \in SUBSET (1 .. Len(skus)), pool # {}
  PROVE  \E i \in pool : /\ Cheapest(skus, pool) = skus[i]
                         /\ \A j \in pool : Net(skus[i]) <= Net(skus[j])
<1>. DEFINE Best(i, j) == Net(skus[i]) < Net(skus[j]) \/ (Net(skus[i]) = Net(skus[j]) /\ i <= j)
            before     == {ij \in pool \X pool : Best(ij[1], ij[2])}
<1>1. \A sku \in Sku : Net(sku) \in Int
  BY DEF Sku, Net
<1>2. Len(skus) \in Nat /\ \A i \in pool : i \in Nat /\ Net(skus[i]) \in Int
  BY <1>1
<1>3. /\ \A i, j \in pool : Best(i, j) \/ Best(j, i)
      /\ \A i, j, k \in pool : Best(i, j) /\ Best(j, k) => Best(i, k)
  BY <1>2
<1>. HIDE DEF Best
<1>4. \A i, j \in pool : <<i, j>> \in before <=> Best(i, j)
  OBVIOUS
<1>. HIDE DEF before
<1>5. \E i \in pool : \A j \in pool : <<i, j>> \in before
  BY <1>2, <1>3, <1>4, FirstOfSome
<1>6. \E i \in pool : \A j \in pool : Best(i, j)
  BY <1>4, <1>5
<1>7. PICK i \in pool : Cheapest(skus, pool) = skus[i] /\ \A j \in pool : Best(i, j)
  BY <1>6 DEF Cheapest, Best
<1>8. \A j \in pool : Net(skus[i]) <= Net(skus[j])
  BY <1>2, <1>7 DEF Best
<1>. QED  BY <1>7, <1>8

(* The least of a set of numbers is the one that is no more than any.      *)
LEMMA MinIs ==
  ASSUME NEW T \in SUBSET Int, NEW t \in T, \A u \in T : t <= u
  PROVE  Min(T) = t
<1>1. PICK m \in T : m = Min(T) /\ \A u \in T : m <= u
  BY DEF Min
<1>. QED  BY <1>1

LEMMA CardIsInStock ==
  ASSUME NEW skus \in Seq(Sku)
  PROVE  LET card  == Card(skus)
             offer == {skus[i] : i \in DOMAIN skus}
             sold  == {s \in offer : s.quantity > 0}
         IN  /\ card.has_stock = (sold # {})
             /\ card.has_stock => card.min_price = Min({Net(s) : s \in sold})
             /\ card.old_price # None => card.old_price > card.min_price
<1>. DEFINE card  == Card(skus)
            stock == InStock(skus)
            pool  == IF stock # {} THEN stock ELSE DOMAIN skus
            sku   == Cheapest(skus, pool)
            offer == {skus[i] : i \in DOMAIN skus}
            sold  == {s \in offer : s.quantity > 0}
<1>1. /\ DOMAIN skus = 1 .. Len(skus) /\ Len(skus) \in Nat
      /\ \A i \in DOMAIN skus : skus[i] \in Sku
  OBVIOUS
<1>2. /\ card.has_stock = (stock # {})
      /\ skus # <<>> => card.min_price = Net(sku)
      /\ card.old_price = IF skus # <<>> /\ sku.discount > 0 THEN sku.price ELSE None
  BY DEF Card
<1>3. stock \subseteq DOMAIN skus /\ pool \subseteq 1 .. Len(skus)
  BY <1>1 DEF InStock
<1>4. sold = {skus[i] : i \in stock}
  BY DEF InStock
<1>5. ASSUME skus # <<>>
      PROVE  DOMAIN skus # {}
  <2>1. Len(skus) \in Nat \ {0}
    BY <1>5, EmptySeq
  <2>2. 1 \in 1 .. Len(skus)
    BY <2>1
  <2>. QED  BY <1>1, <2>2
<1>. HIDE DEF card, stock
<1>6. ASSUME pool # {}
      PROVE  \E i \in pool : sku = skus[i] /\ \A j \in pool : Net(skus[i]) <= Net(skus[j])
  BY <1>3, <1>6, CheapestIsOne
<1>7. card.has_stock = (sold # {})
  BY <1>2, <1>4
<1>8. ASSUME card.has_stock
      PROVE  card.min_price = Min({Net(s) : s \in sold})
  <2>1. stock # {} /\ pool = stock /\ skus # <<>>
    <3>1. stock # {} /\ pool = stock
      BY <1>2, <1>8
    <3>2. DOMAIN skus # {}
      BY <1>3, <3>1
    <3>. QED  BY <3>1, <3>2
  <2>2. PICK i \in stock : sku = skus[i] /\ \A j \in stock : Net(skus[i]) <= Net(skus[j])
    BY <1>6, <2>1
  <2>3. \A j \in stock : Net(skus[j]) \in Int
    BY <1>1, <1>3 DEF Sku, Net
  <2>. DEFINE prices == {Net(skus[j]) : j \in stock}
  <2>4. Min(prices) = Net(skus[i])
    <3>1. prices \in SUBSET Int /\ Net(skus[i]) \in prices /\ \A u \in prices : Net(skus[i]) <= u
      BY <2>2, <2>3
    <3>. QED  BY <3>1, MinIs
  <2>5. prices = {Net(s) : s \in sold}
    BY <1>4
  <2>. QED  BY <1>2, <2>1, <2>2, <2>4, <2>5
<1>9. ASSUME card.old_price # None
      PROVE  card.old_price > card.min_price
  <2>1. skus # <<>> /\ sku.discount > 0 /\ card.old_price = sku.price
    BY <1>2, <1>9
  <2>2. pool # {}
    BY <1>5, <2>1
  <2>3. sku \in Sku
    BY <1>1, <1>3, <1>6, <2>2
  <2>. QED  BY <1>2, <2>1, <2>3 DEF Sku, Net
<1>. QED  BY <1>7, <1>8, <1>9 DEF card
-----------------------------------------------------------------------------
(***************************************************************************)
(* What is told stays true until the next thing happens, and then it is    *)
(* told no longer.                                                         *)
(***************************************************************************)
Truthful == Hierarchy(cats) /\ TreeIsComplete /\ CrumbsAreUnbroken /\ PriceIsInStock

Untold == ~Says("tree") /\ ~Says("crumbs") /\ ~Says("product")

LEMMA NothingTold ==
  ASSUME Hierarchy(cats'), Untold'
  PROVE  Truthful'
BY DEF Truthful, Untold, TreeIsComplete, CrumbsAreUnbroken, PriceIsInStock

LEMMA Untelling ==
  /\ answer' = Silent => Untold'
  /\ \A of, code : code # "200" /\ answer' = Fails(of, code) => Untold'
BY DEF Silent, Fails, Untold, Says

LEMMA TruthfulInit == Init => Truthful
<1>. SUFFICES ASSUME Init
              PROVE  Truthful
  OBVIOUS
<1>1. Hierarchy(cats)
  BY ForestIsHierarchy, CatalogAssumption DEF Init
<1>2. Untold
  BY DEF Init, Silent, Untold, Says
<1>. QED  BY <1>1, <1>2 DEF Truthful, Untold, TreeIsComplete, CrumbsAreUnbroken, PriceIsInStock

LEMMA TruthfulTree == ASSUME Truthful, GetTree PROVE Truthful'
<1>1. UNCHANGED cats /\ Hierarchy(cats)
  BY DEF GetTree, Reads, b2bVars, Truthful
<1>2. CASE answer' = Fails("tree", "502") \/ answer' = Fails("tree", "422")
  BY <1>1, <1>2, NothingTold, Untelling
<1>3. ASSUME \A c \in DOMAIN cats : ~Orphan(cats[c]),
             answer' = [of |-> "tree", status |-> "200", tree |-> Tree]
      PROVE  Truthful'
  <2>1. Ways(Tree) = {cats[c] : c \in DOMAIN cats}
    BY <1>1, <1>3, WaysArePaths
  <2>2. TreeIsComplete'
    BY <1>1, <1>3, <2>1 DEF TreeIsComplete
  <2>3. ~Says("crumbs")' /\ ~Says("product")'
    BY <1>3 DEF Says
  <2>. QED  BY <1>1, <2>2, <2>3 DEF Truthful, CrumbsAreUnbroken, PriceIsInStock
<1>. QED  BY <1>2, <1>3 DEF GetTree, Answers

LEMMA TruthfulCrumbs == ASSUME Truthful, CrumbsListed PROVE Truthful'
<1>1. UNCHANGED cats /\ Hierarchy(cats)
  BY DEF CrumbsListed, Reads, b2bVars, Truthful
<1>2. CASE \E code \in {"502", "404", "422"} : answer' = Fails("crumbs", code)
  BY <1>1, <1>2, NothingTold, Untelling
<1>3. ASSUME NEW c \in DOMAIN cats, ~Orphan(cats[c]),
             answer' = [of |-> "crumbs", status |-> "200", category |-> c,
                        crumbs |-> [i \in DOMAIN cats[c] |->
                          [id |-> cats[c][i], level |-> i - 1, current |-> cats[c][i] = c]]]
      PROVE  Truthful'
  <2>1. PICK crumbs : /\ crumbs = [i \in DOMAIN cats[c] |->
                          [id |-> cats[c][i], level |-> i - 1, current |-> cats[c][i] = c]]
                      /\ answer'.crumbs = crumbs /\ answer'.category = c
    BY <1>3
  <2>2. /\ crumbs[Len(crumbs)].id = c
        /\ \A i \in 1 .. Len(crumbs) :
             /\ crumbs[i].id \in DOMAIN cats
             /\ cats[crumbs[i].id] = [j \in 1 .. i |-> crumbs[j].id]
             /\ crumbs[i].level = i - 1
             /\ crumbs[i].current = (i = Len(crumbs))
    BY <1>1, <1>3, <2>1, CrumbsOfPath
  <2>3. CrumbsAreUnbroken'
    <3>1. answer'.crumbs[Len(answer'.crumbs)].id = answer'.category
      BY <2>1, <2>2
    <3>2. ASSUME NEW i \in 1 .. Len(answer'.crumbs)
          PROVE  /\ answer'.crumbs[i].id \in DOMAIN cats'
                 /\ cats'[answer'.crumbs[i].id] = [j \in 1 .. i |-> answer'.crumbs[j].id]
                 /\ answer'.crumbs[i].level = i - 1
                 /\ answer'.crumbs[i].current = (i = Len(answer'.crumbs))
      <4>1. [j \in 1 .. i |-> crumbs[j].id] = [j \in 1 .. i |-> answer'.crumbs[j].id]
        BY <2>1
      <4>. QED  BY <1>1, <2>1, <2>2, <4>1
    <3>. QED  BY <3>1, <3>2 DEF CrumbsAreUnbroken
  <2>4. ~Says("tree")' /\ ~Says("product")'
    BY <1>3 DEF Says
  <2>. QED  BY <1>1, <2>3, <2>4 DEF Truthful, TreeIsComplete, PriceIsInStock
<1>. QED  BY <1>2, <1>3 DEF CrumbsListed, Answers

LEMMA TruthfulCard ==
  ASSUME Truthful, NEW p, NEW skus \in SkuLists, GetProduct(p, skus)
  PROVE  Truthful'
<1>1. UNCHANGED cats /\ Hierarchy(cats)
  BY DEF GetProduct, Reads, b2bVars, Truthful
<1>2. CASE answer' = Fails("product", "502") \/ answer' = Fails("product", "404")
  BY <1>1, <1>2, NothingTold, Untelling
<1>3. CASE answer' = [of |-> "product", status |-> "200", skus |-> skus, card |-> Card(skus)]
  <2>1. skus \in Seq(Sku)
    BY CatalogAssumption DEF Sku
  <2>2. answer'.skus = skus /\ answer'.card = Card(skus)
    BY <1>3
  <2>3. PriceIsInStock'
    BY <2>1, <2>2, CardIsInStock DEF PriceIsInStock
  <2>4. ~Says("tree")' /\ ~Says("crumbs")'
    BY <1>3 DEF Says
  <2>. QED  BY <1>1, <2>3, <2>4 DEF Truthful, TreeIsComplete, CrumbsAreUnbroken
<1>. QED  BY <1>2, <1>3 DEF GetProduct, Answers

LEMMA TruthfulStep == Truthful /\ [Next]_vars => Truthful'
<1>. SUFFICES ASSUME Truthful, [Next]_vars
              PROVE  Truthful'
  OBVIOUS
<1>0. Hierarchy(cats)
  BY DEF Truthful
<1>1. ASSUME NEW c \in Categories, CategoryRemoved(c)
      PROVE  Truthful'
  BY <1>0, <1>1, RemovedHierarchy, NothingTold, Untelling DEF CategoryRemoved
<1>2. ASSUME NEW c \in Categories, NEW p \in Categories, CategoryMoved(c, p)
      PROVE  Truthful'
  <2>1. Hierarchy(cats')
    BY <1>0, <1>2, MovedHierarchy
  <2>2. answer' = Silent
    BY <1>2 DEF CategoryMoved
  <2>. QED  BY <2>1, <2>2, NothingTold, Untelling
<1>3. ASSUME NEW c \in Categories, GetCategory(c)
      PROVE  Truthful'
  <2>1. Untold'
    BY <1>3 DEF GetCategory, Answers, Fails, Untold, Says
  <2>2. UNCHANGED cats
    BY <1>3 DEF GetCategory, Reads, b2bVars
  <2>. QED  BY <1>0, <2>1, <2>2, NothingTold
<1>4. ASSUME NEW c \in Categories, CrumbsOf(c)
      PROVE  Truthful'
  BY <1>0, <1>4, NothingTold, Untelling DEF CrumbsOf, Calls, Reads, b2bVars
<1>5. ASSUME NEW p \in Products, SaleChanges(p)
      PROVE  Truthful'
  BY <1>0, <1>5, NothingTold, Untelling DEF SaleChanges
<1>6. ASSUME NEW p \in Products, NEW c \in Categories, CrumbsOfProduct(p, c)
      PROVE  Truthful'
  BY <1>0, <1>6, NothingTold, Untelling DEF CrumbsOfProduct, Answers, Calls, Reads, b2bVars
<1>7. ASSUME NEW p \in Products, NEW ids, SimilarListed(p, ids)
      PROVE  Truthful'
  <2>1. Untold'
    BY <1>7 DEF SimilarListed, Answers, Calls, Fails, Silent, Untold, Says
  <2>2. UNCHANGED cats
    BY <1>7 DEF SimilarListed, Reads, b2bVars
  <2>. QED  BY <1>0, <2>1, <2>2, NothingTold
<1>8. CASE CrumbsOfBothOrNeither
  BY <1>0, <1>8, NothingTold, Untelling DEF CrumbsOfBothOrNeither, Answers, Reads, b2bVars
<1>9. CASE SimilarAnswered
  <2>1. Untold'
    BY <1>9 DEF SimilarAnswered, Answers, Fails, Untold, Says
  <2>2. UNCHANGED cats
    BY <1>9 DEF SimilarAnswered, Reads, b2bVars
  <2>. QED  BY <1>0, <2>1, <2>2, NothingTold
<1>10. CASE CollectionSelect
  <2>1. answer' = Silent /\ UNCHANGED cats
    BY <1>10 DEF CollectionSelect, Answers, Calls, b2bVars
  <2>. QED  BY <1>0, <2>1, NothingTold, Untelling
<1>11. CASE CollectionAnswered
  <2>1. answer' = Silent /\ UNCHANGED cats
    BY <1>11 DEF CollectionAnswered, Answers, b2bVars
  <2>. QED  BY <1>0, <2>1, NothingTold, Untelling
<1>12. CASE UNCHANGED <<cats, answer>>
  BY <1>12 DEF Truthful, TreeIsComplete, CrumbsAreUnbroken, PriceIsInStock, Says
<1>13. CASE Rescan \/ UNCHANGED vars
  BY <1>12, <1>13 DEF Rescan, vars, b2bVars
<1>. QED  BY <1>1, <1>2, <1>3, <1>4, <1>5, <1>6, <1>7, <1>8, <1>9, <1>10, <1>11, <1>13,
             TruthfulTree, TruthfulCrumbs, TruthfulCard DEF Next

(* Whatever happens to the tree of the B2B, from any forest: a tree that   *)
(* is answered shows every category once, below the ancestors its path     *)
(* names.                                                                  *)
THEOREM TreesAreComplete == Spec => []TreeIsComplete
<1>1. Truthful => TreeIsComplete
  BY DEF Truthful
<1>. QED  BY TruthfulInit, TruthfulStep, <1>1, PTL DEF Spec

(* Whatever happens to the tree between the two calls of a request:        *)
(* breadcrumbs lead from a root to the category without a gap.             *)
THEOREM CrumbsLeadThere == Spec => []CrumbsAreUnbroken
<1>1. Truthful => CrumbsAreUnbroken
  BY DEF Truthful
<1>. QED  BY TruthfulInit, TruthfulStep, <1>1, PTL DEF Spec

(* The price of a card is that of the cheapest SKU in stock, for any list  *)
(* of SKUs, discounts above the price included.                            *)
THEOREM PricesCanBePaid == Spec => []PriceIsInStock
<1>1. Truthful => PriceIsInStock
  BY DEF Truthful
<1>. QED  BY TruthfulInit, TruthfulStep, <1>1, PTL DEF Spec
-----------------------------------------------------------------------------
(***************************************************************************)
(* Paging through a collection.  Rows that differ in their ordering have   *)
(* one order only, so what a client has seen when it asks for a page is    *)
(* what lies before it, each row once, among the items or among the        *)
(* unavailable.                                                            *)
(***************************************************************************)
LEMMA Enumerations ==
  ASSUME NEW T, IsFiniteSet(T), NEW w
  PROVE  w \in SetToSeqs(T) <=>
           /\ w \in Seq(T)
           /\ \A i, j \in 1 .. Len(w) : w[i] = w[j] => i = j
           /\ \A x \in T : \E i \in 1 .. Len(w) : w[i] = x
<1>. DEFINE n == Cardinality(T)
<1>0. n \in Nat
  BY FS_CardinalityType
<1>1. ASSUME w \in SetToSeqs(T)
      PROVE  /\ w \in Seq(T)
             /\ \A i, j \in 1 .. Len(w) : w[i] = w[j] => i = j
             /\ \A x \in T : \E i \in 1 .. Len(w) : w[i] = x
  <2>1. w \in [1 .. n -> T] /\ \A i, j \in 1 .. n : w[i] = w[j] => i = j
    BY <1>1 DEF SetToSeqs
  <2>2. w \in Injection(1 .. n, T)
    BY <2>1 DEF Injection, IsInjective
  <2>3. Cardinality(1 .. n) = n
    BY <1>0, FS_Interval
  <2>4. w \in Surjection(1 .. n, T)
    BY <2>2, <2>3, FS_Injection
  <2>5. w \in Seq(T) /\ Len(w) = n
    BY <1>0, <2>1
  <2>. QED  BY <2>1, <2>4, <2>5 DEF Surjection
<1>2. ASSUME w \in Seq(T), \A i, j \in 1 .. Len(w) : w[i] = w[j] => i = j,
             \A x \in T : \E i \in 1 .. Len(w) : w[i] = x
      PROVE  w \in SetToSeqs(T)
  <2>1. Len(w) \in Nat /\ w \in [1 .. Len(w) -> T]
    BY <1>2
  <2>2. w \in Bijection(1 .. Len(w), T)
    BY <1>2, <2>1, Fun_IsBij
  <2>3. n = Len(w)
    BY <2>1, <2>2, FS_CountingElements DEF ExistsBijection
  <2>. QED  BY <1>2, <2>1, <2>3 DEF SetToSeqs
<1>. QED  BY <1>1, <1>2

(* Places can be listed from the first to the last: by the shortest part   *)
(* of them that cannot.                                                    *)
LEMMA AscendingIs ==
  ASSUME NEW n \in Nat, NEW places \in SUBSET (1 .. n)
  PROVE  /\ Ascending(places) \in Seq(1 .. n)
         /\ \A i, j \in 1 .. Len(Ascending(places)) :
              i < j => Ascending(places)[i] < Ascending(places)[j]
         /\ \A i \in 1 .. Len(Ascending(places)) : Ascending(places)[i] \in places
         /\ \A x \in places : \E i \in 1 .. Len(Ascending(places)) : Ascending(places)[i] = x
<1>. DEFINE Lists(at, m) ==
              /\ at \in Seq(places)
              /\ \A i \in 1 .. Len(at) : at[i] <= m
              /\ \A i, j \in 1 .. Len(at) : i < j => at[i] < at[j]
              /\ \A x \in places : x <= m => \E i \in 1 .. Len(at) : at[i] = x
            without == {m \in 0 .. n : \A at \in Seq(places) : ~Lists(at, m)}
<1>1. without = {}
  <2>. SUFFICES ASSUME without # {}
                PROVE  FALSE
    OBVIOUS
  <2>1. PICK m \in without : \A o \in without : m <= o
    <3>1. without \in SUBSET Nat
      OBVIOUS
    <3>. HIDE DEF without
    <3>. QED  BY <3>1, LeastOf
  <2>2. m \in 0 .. n /\ \A at \in Seq(places) : ~Lists(at, m)
    OBVIOUS
  <2>3. m # 0
    <3>1. <<>> \in Seq(places) /\ Len(<<>>) = 0
      OBVIOUS
    <3>2. \A x \in places : ~(x <= 0)
      OBVIOUS
    <3>3. Lists(<<>>, 0)
      BY <3>1, <3>2
    <3>. QED  BY <2>2, <3>1, <3>3
  <2>4. m - 1 \in 0 .. n /\ m - 1 \notin without
    <3>1. m - 1 \in Nat /\ ~(m <= m - 1) /\ m - 1 \in 0 .. n
      BY <2>2, <2>3
    <3>. HIDE DEF without
    <3>. QED  BY <2>1, <3>1
  <2>5. PICK at \in Seq(places) : Lists(at, m - 1)
    BY <2>4
  <2>6. \A x \in places : x \in Nat /\ (x <= m <=> x <= m - 1 \/ x = m)
    BY <2>2
  <2>7. CASE m \notin places
    <3>1. \A i \in 1 .. Len(at) : at[i] \in places
      OBVIOUS
    <3>2. Lists(at, m)
      BY <2>5, <2>6, <2>7, <3>1
    <3>. QED  BY <2>2, <3>2
  <2>8. CASE m \in places
    <3>. DEFINE new == Append(at, m)
    <3>1. /\ new \in Seq(places) /\ Len(new) = Len(at) + 1 /\ Len(at) \in Nat
          /\ \A i \in 1 .. Len(at) : new[i] = at[i] /\ at[i] \in places
          /\ new[Len(at) + 1] = m
      BY <2>8, AppendProperties
    <3>2. \A i \in 1 .. Len(new) : i \in 1 .. Len(at) \/ i = Len(at) + 1
      BY <3>1
    <3>. HIDE DEF new
    <3>3. \A i \in 1 .. Len(at) : i \in 1 .. Len(new) /\ new[i] < m
      <4>. SUFFICES ASSUME NEW i \in 1 .. Len(at)
                    PROVE  i \in 1 .. Len(new) /\ new[i] < m
        OBVIOUS
      <4>1. new[i] \in Nat /\ new[i] <= m - 1
        BY <2>5, <2>6, <3>1
      <4>. QED  BY <2>2, <3>1, <4>1
    <3>4. \A i \in 1 .. Len(new) : new[i] <= m
      <4>. SUFFICES ASSUME NEW i \in 1 .. Len(new)
                    PROVE  new[i] <= m
        OBVIOUS
      <4>1. CASE i = Len(at) + 1
        BY <2>2, <3>1, <4>1
      <4>2. CASE i \in 1 .. Len(at)
        <5>1. new[i] < m /\ new[i] \in Nat
          BY <2>6, <3>1, <3>3, <4>2
        <5>. QED  BY <2>2, <5>1
      <4>. QED  BY <3>2, <4>1, <4>2
    <3>5. ASSUME NEW i \in 1 .. Len(new), NEW j \in 1 .. Len(new), i < j
          PROVE  new[i] < new[j]
      <4>1. i \in 1 .. Len(at)
        BY <3>1, <3>5
      <4>2. CASE j \in 1 .. Len(at)
        BY <2>5, <3>1, <3>5, <4>1, <4>2
      <4>3. CASE j = Len(at) + 1
        BY <3>1, <3>3, <4>1, <4>3
      <4>. QED  BY <3>2, <4>2, <4>3
    <3>6. ASSUME NEW x \in places, x <= m
          PROVE  \E i \in 1 .. Len(new) : new[i] = x
      <4>1. CASE x = m
        <5>1. Len(at) + 1 \in 1 .. Len(new)
          BY <3>1
        <5>. QED  BY <3>1, <4>1, <5>1
      <4>2. CASE x <= m - 1
        BY <2>5, <3>1, <3>3, <4>2
      <4>. QED  BY <2>6, <3>6, <4>1, <4>2
    <3>7. Lists(new, m)
      BY <3>1, <3>4, <3>5, <3>6
    <3>. QED  BY <2>2, <3>1, <3>7
  <2>. QED  BY <2>7, <2>8
<1>2. PICK at \in Seq(places) : Lists(at, n)
  <2>1. n \in 0 .. n
    OBVIOUS
  <2>. QED  BY <1>1, <2>1
<1>3. IsFiniteSet(places)
  <2>1. IsFiniteSet(1 .. n)
    BY FS_Interval
  <2>. QED  BY <2>1, FS_Subset
<1>4. \A i \in 1 .. Len(at) : at[i] \in places
  OBVIOUS
<1>5. \A i, j \in 1 .. Len(at) : at[i] = at[j] => i = j
  <2>. SUFFICES ASSUME NEW i \in 1 .. Len(at), NEW j \in 1 .. Len(at), at[i] = at[j], i # j
                PROVE  FALSE
    OBVIOUS
  <2>1. at[i] \in places /\ at[j] \in places
    BY <1>4
  <2>2. \A x \in places : x \in Nat
    OBVIOUS
  <2>3. at[i] < at[j] \/ at[j] < at[i]
    BY <1>2
  <2>4. at[i] \in Nat
    BY <2>1, <2>2
  <2>5. at[i] < at[i]
    BY <2>3
  <2>. QED  BY <2>4, <2>5
<1>6. \A x \in places : \E i \in 1 .. Len(at) : at[i] = x
  BY <1>2
<1>7. at \in SetToSeqs(places) /\ DOMAIN at = 1 .. Len(at)
  <2>1. at \in SetToSeqs(places)
    BY <1>3, <1>5, <1>6, Enumerations
  <2>. QED  BY <2>1
<1>8. \A i, j \in DOMAIN at : i < j => at[i] < at[j]
  BY <1>2, <1>7
<1>9. PICK a \in SetToSeqs(places) : /\ a = Ascending(places)
                                     /\ \A i, j \in DOMAIN a : i < j => a[i] < a[j]
  BY <1>7, <1>8 DEF Ascending
<1>10. /\ a \in Seq(places) /\ DOMAIN a = 1 .. Len(a)
       /\ \A x \in places : \E i \in 1 .. Len(a) : a[i] = x
  <2>1. a \in Seq(places) /\ \A x \in places : \E i \in 1 .. Len(a) : a[i] = x
    BY <1>3, <1>9, Enumerations
  <2>. QED  BY <2>1
<1>11. \A i \in 1 .. Len(a) : a[i] \in places
  BY <1>10
<1>12. a \in Seq(1 .. n)
  <2>1. Len(a) \in Nat /\ a \in [1 .. Len(a) -> places]
    BY <1>10, <1>11
  <2>2. \A x \in places : x \in 1 .. n
    OBVIOUS
  <2>3. a \in [1 .. Len(a) -> 1 .. n]
    BY <2>1, <2>2
  <2>. QED  BY <2>1, <2>3
<1>. QED  BY <1>9, <1>10, <1>11, <1>12

Picks(kept, ids, known, at) ==
  /\ at \in Seq(1 .. Len(ids)) /\ Len(kept) = Len(at)
  /\ \A k \in 1 .. Len(at) : kept[k] = ids[at[k]] /\ ids[at[k]] \in known
  /\ \A k, l \in 1 .. Len(at) : k < l => at[k] < at[l]
  /\ \A i \in 1 .. Len(ids) : ids[i] \in known => \E k \in 1 .. Len(at) : at[k] = i

LEMMA KeptIs ==
  ASSUME NEW ids \in Seq(Products), NEW known
  PROVE  /\ Kept(ids, known) \in Seq(Products)
         /\ \E at : Picks(Kept(ids, known), ids, known, at)
<1>. DEFINE places == {i \in DOMAIN ids : ids[i] \in known}
<1>1. Len(ids) \in Nat /\ DOMAIN ids = 1 .. Len(ids) /\ places \in SUBSET (1 .. Len(ids))
  OBVIOUS
<1>. HIDE DEF places
<1>2. PICK at : at = Ascending(places)
  OBVIOUS
<1>3. /\ at \in Seq(1 .. Len(ids))
      /\ \A i, j \in 1 .. Len(at) : i < j => at[i] < at[j]
      /\ \A i \in 1 .. Len(at) : at[i] \in places
      /\ \A x \in places : \E i \in 1 .. Len(at) : at[i] = x
  BY <1>1, <1>2, AscendingIs
<1>4. Kept(ids, known) = [k \in 1 .. Len(at) |-> ids[at[k]]]
  BY <1>2, <1>3 DEF Kept, places
<1>5. \A k \in 1 .. Len(at) : at[k] \in 1 .. Len(ids) /\ ids[at[k]] \in Products /\ ids[at[k]] \in known
  BY <1>1, <1>3 DEF places
<1>6. Kept(ids, known) \in Seq(Products) /\ Len(Kept(ids, known)) = Len(at)
  <2>1. Len(at) \in Nat
    BY <1>3
  <2>2. [k \in 1 .. Len(at) |-> ids[at[k]]] \in [1 .. Len(at) -> Products]
    BY <1>5
  <2>. QED  BY <1>4, <2>1, <2>2
<1>7. \A i \in 1 .. Len(ids) : ids[i] \in known => \E k \in 1 .. Len(at) : at[k] = i
  BY <1>1, <1>3 DEF places
<1>. QED  BY <1>3, <1>4, <1>5, <1>6, <1>7 DEF Picks

LEMMA RelationsList ==
  ASSUME NEW s \in Relations
  PROVE  /\ s \in Seq(Products) /\ Len(s) = Cardinality(Products)
         /\ \A i, j \in 1 .. Len(s) : s[i] = s[j] => i = j
         /\ \A p \in Products : \E i \in 1 .. Len(s) : s[i] = p
         /\ \A i, j \in 1 .. Len(s) : i < j => Ordering[s[i]] <= Ordering[s[j]]
<1>1. s \in SetToSeqs(Products) /\ \A i, j \in DOMAIN s : i < j => Ordering[s[i]] <= Ordering[s[j]]
  BY DEF Relations
<1>2. IsFiniteSet(Products)
  BY CatalogAssumption
<1>3. /\ s \in Seq(Products)
      /\ \A i, j \in 1 .. Len(s) : s[i] = s[j] => i = j
      /\ \A p \in Products : \E i \in 1 .. Len(s) : s[i] = p
  BY <1>1, <1>2, Enumerations
<1>4. Len(s) = Cardinality(Products)
  <2>1. Cardinality(Products) \in Nat /\ s \in [1 .. Cardinality(Products) -> Products]
    BY <1>1, <1>2, FS_CardinalityType DEF SetToSeqs
  <2>. QED  BY <2>1
<1>5. DOMAIN s = 1 .. Len(s)
  BY <1>3
<1>. QED  BY <1>1, <1>3, <1>4, <1>5

(* What no constraint of the table asks for, and paging rests on: rows of  *)
(* equal ordering may come in another order at the next page.              *)
Distinct == \A p, q \in Products : Ordering[p] = Ordering[q] => p = q

LEMMA OneOrder ==
  ASSUME Distinct, NEW s \in Relations, NEW t \in Relations
  PROVE  s = t
<1>. DEFINE n      == Cardinality(Products)
            differ == {i \in 1 .. n : s[i] # t[i]}
<1>1. /\ s \in Seq(Products) /\ Len(s) = n
      /\ \A i, j \in 1 .. n : s[i] = s[j] => i = j
      /\ \A p \in Products : \E i \in 1 .. n : s[i] = p
      /\ \A i, j \in 1 .. n : i < j => Ordering[s[i]] <= Ordering[s[j]]
  BY RelationsList
<1>2. /\ t \in Seq(Products) /\ Len(t) = n
      /\ \A i, j \in 1 .. n : t[i] = t[j] => i = j
      /\ \A p \in Products : \E i \in 1 .. n : t[i] = p
      /\ \A i, j \in 1 .. n : i < j => Ordering[t[i]] <= Ordering[t[j]]
  BY RelationsList
<1>3. n \in Nat
  BY <1>1
<1>. HIDE DEF n
<1>4. \A i \in 1 .. n : s[i] \in Products /\ t[i] \in Products
  BY <1>1, <1>2
<1>5. differ = {}
  <2>. SUFFICES ASSUME differ # {}
                PROVE  FALSE
    OBVIOUS
  <2>1. PICK i \in differ : \A j \in differ : i <= j
    <3>1. differ \in SUBSET Nat
      BY <1>3
    <3>. HIDE DEF differ
    <3>. QED  BY <3>1, LeastOf
  <2>2. i \in 1 .. n /\ s[i] # t[i]
    OBVIOUS
  <2>3. \A j \in 1 .. n : j < i => s[j] = t[j]
    <3>. SUFFICES ASSUME NEW j \in 1 .. n, j < i, s[j] # t[j]
                  PROVE  FALSE
      OBVIOUS
    <3>1. i <= j
      BY <2>1
    <3>. QED  BY <1>3, <2>2, <3>1
  <2>4. PICK j \in 1 .. n : t[j] = s[i]
    BY <1>2, <1>4, <2>2
  <2>5. PICK k \in 1 .. n : s[k] = t[i]
    BY <1>1, <1>4, <2>2
  <2>6. i < j
    <3>1. j # i
      BY <2>2, <2>4
    <3>2. ~(j < i)
      <4>. SUFFICES ASSUME j < i
                    PROVE  FALSE
        OBVIOUS
      <4>1. s[j] = s[i]
        BY <2>3, <2>4
      <4>. QED  BY <1>1, <2>2, <3>1, <4>1
    <3>. QED  BY <1>3, <2>2, <3>1, <3>2
  <2>7. i < k
    <3>1. k # i
      BY <2>2, <2>5
    <3>2. ~(k < i)
      <4>. SUFFICES ASSUME k < i
                    PROVE  FALSE
        OBVIOUS
      <4>1. t[k] = t[i]
        BY <2>3, <2>5
      <4>. QED  BY <1>2, <2>2, <3>1, <4>1
    <3>. QED  BY <1>3, <2>2, <3>1, <3>2
  <2>8. Ordering[t[i]] <= Ordering[s[i]] /\ Ordering[s[i]] <= Ordering[t[i]]
    <3>1. Ordering[t[i]] <= Ordering[t[j]]
      BY <1>2, <2>2, <2>6
    <3>2. Ordering[s[i]] <= Ordering[s[k]]
      BY <1>1, <2>2, <2>7
    <3>. QED  BY <2>4, <2>5, <3>1, <3>2
  <2>9. Ordering[s[i]] \in Int /\ Ordering[t[i]] \in Int
    BY <1>4, <2>2, CatalogAssumption
  <2>10. Ordering[s[i]] = Ordering[t[i]]
    BY <2>8, <2>9
  <2>. QED  BY <1>4, <2>2, <2>10 DEF Distinct
<1>6. \A i \in 1 .. n : s[i] = t[i]
  BY <1>5
<1>. QED  BY <1>1, <1>2, <1>6

LEMMA PageIs ==
  ASSUME NEW s \in Seq(Products), NEW offset \in Nat
  PROVE  /\ Page(s, offset) \in Seq(Products)
         /\ \A i \in 1 .. Len(Page(s, offset)) :
              /\ offset + i \in 1 .. Len(s) /\ i <= Limit
              /\ Page(s, offset)[i] = s[offset + i]
         /\ \A k \in 1 .. Len(s) : offset < k /\ k <= offset + Limit =>
              k - offset \in 1 .. Len(Page(s, offset))
<1>. DEFINE to   == Min({offset + Limit, Len(s)})
            page == SubSeq(s, offset + 1, to)
<1>1. Limit \in Nat \ {0} /\ Len(s) \in Nat
  BY CatalogAssumption
<1>2. to \in Nat /\ to <= Len(s) /\ to <= offset + Limit /\ (to = Len(s) \/ to = offset + Limit)
  <2>1. CASE offset + Limit <= Len(s)
    <3>1. /\ {offset + Limit, Len(s)} \in SUBSET Int
          /\ offset + Limit \in {offset + Limit, Len(s)}
          /\ \A u \in {offset + Limit, Len(s)} : offset + Limit <= u
      BY <1>1, <2>1
    <3>2. to = offset + Limit
      BY <3>1, MinIs
    <3>. QED  BY <1>1, <2>1, <3>2
  <2>2. CASE Len(s) <= offset + Limit
    <3>1. /\ {offset + Limit, Len(s)} \in SUBSET Int
          /\ Len(s) \in {offset + Limit, Len(s)}
          /\ \A u \in {offset + Limit, Len(s)} : Len(s) <= u
      BY <1>1, <2>2
    <3>2. to = Len(s)
      BY <3>1, MinIs
    <3>. QED  BY <1>1, <2>2, <3>2
  <2>. QED  BY <1>1, <2>1, <2>2
<1>. HIDE DEF to
<1>3. /\ page \in Seq(Products)
      /\ Len(page) = IF offset + 1 <= to THEN to - offset ELSE 0
      /\ \A i \in 1 .. Len(page) : page[i] = s[offset + i]
  <2>1. CASE offset + 1 <= to
    <3>1. offset + 1 \in 1 .. Len(s) /\ to \in 1 .. Len(s)
      BY <1>1, <1>2, <2>1
    <3>2. /\ page \in Seq(Products) /\ Len(page) = to - (offset + 1) + 1
          /\ \A i \in 1 .. to - (offset + 1) + 1 : page[i] = s[offset + 1 + i - 1]
      BY <3>1, <2>1, SubSeqProperties
    <3>3. to - (offset + 1) + 1 = to - offset /\ \A i \in Nat : offset + 1 + i - 1 = offset + i
      BY <1>2
    <3>. QED  BY <2>1, <3>2, <3>3
  <2>2. CASE ~(offset + 1 <= to)
    <3>1. page = <<>>
      BY <1>1, <1>2, <2>2, SubSeqProperties
    <3>. HIDE DEF page
    <3>2. page \in Seq(Products) /\ Len(page) = 0
      BY <3>1, EmptySeq
    <3>. QED  BY <2>2, <3>2
  <2>. QED  BY <2>1, <2>2
<1>4. Page(s, offset) = page
  BY DEF Page, to
<1>. HIDE DEF page
<1>5. ASSUME NEW i \in 1 .. Len(page)
      PROVE  offset + i \in 1 .. Len(s) /\ i <= Limit
  BY <1>1, <1>2, <1>3
<1>6. ASSUME NEW k \in 1 .. Len(s), offset < k, k <= offset + Limit
      PROVE  k - offset \in 1 .. Len(page)
  BY <1>1, <1>2, <1>3, <1>6
<1>. QED  BY <1>3, <1>4, <1>5, <1>6

(* What a list has of the rows of s up to a place: some of them, in their  *)
(* order, and so none twice.                                               *)
Seen(x, s, place) ==
  /\ x \in Seq(Products)
  /\ \A i \in 1 .. Len(x) : \E k \in 1 .. Len(s) : k <= place /\ x[i] = s[k]
  /\ \A i, j \in 1 .. Len(x) : i < j =>
       \A k, l \in 1 .. Len(s) : x[i] = s[k] /\ x[j] = s[l] => k < l

Continues(y, x, s, offset, known) ==
  /\ Seen(y, s, offset + Limit)
  /\ \A i \in 1 .. Len(x) : \E j \in 1 .. Len(y) : y[j] = x[i]
  /\ \A k \in 1 .. Len(s) : offset < k /\ k <= offset + Limit /\ s[k] \in known =>
       \E j \in 1 .. Len(y) : y[j] = s[k]
  /\ \A j \in 1 .. Len(y) :
       \/ \E i \in 1 .. Len(x) : y[j] = x[i]
       \/ y[j] \in known /\ \E k \in 1 .. Len(s) : offset < k /\ y[j] = s[k]

LEMMA SeenNext ==
  ASSUME NEW s \in Relations, NEW offset \in Nat, NEW x, Seen(x, s, offset), NEW known,
         NEW y, y = x \o Kept(Page(s, offset), known)
  PROVE  Continues(y, x, s, offset, known)
<1>. DEFINE page == Page(s, offset)
            m    == Len(x)
<1>1. /\ s \in Seq(Products) /\ \A i, j \in 1 .. Len(s) : s[i] = s[j] => i = j
      /\ Limit \in Nat \ {0}
  BY RelationsList, CatalogAssumption
<1>2. /\ page \in Seq(Products) /\ Len(page) \in Nat
      /\ \A i \in 1 .. Len(page) : /\ offset + i \in 1 .. Len(s) /\ i <= Limit
                                   /\ page[i] = s[offset + i]
      /\ \A k \in 1 .. Len(s) : offset < k /\ k <= offset + Limit => k - offset \in 1 .. Len(page)
  BY <1>1, PageIs
<1>. HIDE DEF page
<1>0. PICK kept : kept = Kept(page, known) /\ kept \in Seq(Products)
  BY <1>2, KeptIs
<1>a. PICK at : Picks(kept, page, known, at)
  BY <1>0, <1>2, KeptIs
<1>3. /\ at \in Seq(1 .. Len(page)) /\ Len(kept) = Len(at) /\ Len(at) \in Nat
      /\ \A k \in 1 .. Len(at) : kept[k] = page[at[k]] /\ page[at[k]] \in known
      /\ \A k, l \in 1 .. Len(at) : k < l => at[k] < at[l]
      /\ \A i \in 1 .. Len(page) : page[i] \in known => \E k \in 1 .. Len(at) : at[k] = i
  BY <1>a DEF Picks
<1>4. /\ x \in Seq(Products) /\ m \in Nat /\ Len(at) \in Nat
      /\ y \in Seq(Products) /\ Len(y) = m + Len(at)
      /\ \A i \in 1 .. m : y[i] = x[i]
      /\ \A i \in 1 .. Len(at) : y[m + i] = kept[i]
  <2>1. x \in Seq(Products) /\ m \in Nat /\ Len(at) \in Nat
    BY <1>3 DEF Seen
  <2>2. y = x \o kept
    BY <1>0 DEF page
  <2>3. /\ y \in Seq(Products) /\ Len(y) = m + Len(at)
        /\ \A i \in 1 .. m + Len(at) : y[i] = IF i <= m THEN x[i] ELSE kept[i - m]
    <3>1. /\ x \o kept \in Seq(Products) /\ Len(x \o kept) = Len(x) + Len(kept)
          /\ \A i \in 1 .. Len(x) + Len(kept) :
               (x \o kept)[i] = IF i <= Len(x) THEN x[i] ELSE kept[i - Len(x)]
      BY <1>0, <2>1, ConcatProperties
    <3>. QED  BY <1>3, <2>2, <3>1
  <2>. HIDE DEF m
  <2>4. \A i \in 1 .. m : y[i] = x[i]
    BY <2>1, <2>3
  <2>5. ASSUME NEW i \in 1 .. Len(at)
        PROVE  y[m + i] = kept[i]
    <3>. DEFINE j == m + i
    <3>1. j \in 1 .. m + Len(at) /\ ~(j <= m) /\ j - m = i
      BY <2>1
    <3>. HIDE DEF j
    <3>2. y[j] = kept[j - m]
      BY <2>3, <3>1
    <3>. QED  BY <3>1, <3>2 DEF j
  <2>. QED  BY <2>1, <2>3, <2>4, <2>5
<1>5. \A i \in 1 .. m : \E k \in 1 .. Len(s) : k <= offset /\ x[i] = s[k]
  BY DEF Seen
<1>6. \A i, j \in 1 .. m : i < j =>
        \A k, l \in 1 .. Len(s) : x[i] = s[k] /\ x[j] = s[l] => k < l
  BY DEF Seen
<1>. HIDE DEF m
<1>7. \A j \in 1 .. Len(y) : j \in 1 .. m \/ \E i \in 1 .. Len(at) : j = m + i
  <2>. SUFFICES ASSUME NEW j \in 1 .. Len(y), ~(j \in 1 .. m)
                PROVE  \E i \in 1 .. Len(at) : j = m + i
    OBVIOUS
  <2>1. j - m \in 1 .. Len(at) /\ j = m + (j - m)
    BY <1>4
  <2>. QED  BY <2>1
<1>8. ASSUME NEW i \in 1 .. Len(at)
      PROVE  /\ at[i] \in 1 .. Len(page) /\ offset + at[i] \in 1 .. Len(s)
             /\ offset < offset + at[i] /\ offset + at[i] <= offset + Limit
             /\ y[m + i] = s[offset + at[i]] /\ y[m + i] \in known
  <2>1. at[i] \in 1 .. Len(page)
    BY <1>3
  <2>2. offset + at[i] \in 1 .. Len(s) /\ at[i] <= Limit /\ page[at[i]] = s[offset + at[i]]
    BY <1>2, <2>1
  <2>3. at[i] \in Nat /\ at[i] > 0
    BY <1>2, <2>1
  <2>4. y[m + i] = page[at[i]] /\ page[at[i]] \in known
    BY <1>3, <1>4
  <2>. QED  BY <1>1, <2>1, <2>2, <2>3, <2>4
<1>9. \A i \in 1 .. m : \E j \in 1 .. Len(y) : y[j] = x[i]
  <2>1. \A i \in 1 .. m : i \in 1 .. Len(y)
    BY <1>4
  <2>. QED  BY <1>4, <2>1
<1>10. ASSUME NEW k \in 1 .. Len(s), offset < k, k <= offset + Limit, s[k] \in known
       PROVE  \E j \in 1 .. Len(y) : y[j] = s[k]
  <2>1. k - offset \in 1 .. Len(page) /\ offset + (k - offset) = k
    BY <1>1, <1>2, <1>10
  <2>2. page[k - offset] = s[k]
    BY <1>2, <2>1
  <2>3. PICK i \in 1 .. Len(at) : at[i] = k - offset
    BY <1>3, <1>10, <2>1, <2>2
  <2>4. y[m + i] = s[k]
    BY <1>8, <2>1, <2>3
  <2>5. m + i \in 1 .. Len(y)
    BY <1>4
  <2>. QED  BY <2>4, <2>5
<1>11. ASSUME NEW j \in 1 .. Len(y)
       PROVE  \/ \E i \in 1 .. m : y[j] = x[i]
              \/ y[j] \in known /\ \E k \in 1 .. Len(s) : offset < k /\ y[j] = s[k]
  BY <1>4, <1>7, <1>8
<1>12. Seen(y, s, offset + Limit)
  <2>1. ASSUME NEW j \in 1 .. Len(y)
        PROVE  \E k \in 1 .. Len(s) : k <= offset + Limit /\ y[j] = s[k]
    <3>1. CASE j \in 1 .. m
      <4>1. PICK k \in 1 .. Len(s) : k <= offset /\ x[j] = s[k]
        BY <1>5, <3>1
      <4>2. k <= offset + Limit
        BY <1>1, <4>1
      <4>. QED  BY <1>4, <3>1, <4>1, <4>2
    <3>2. ASSUME NEW i \in 1 .. Len(at), j = m + i
          PROVE  \E k \in 1 .. Len(s) : k <= offset + Limit /\ y[j] = s[k]
      BY <1>8, <3>2
    <3>. QED  BY <1>7, <3>1, <3>2
  <2>2. ASSUME NEW i \in 1 .. Len(y), NEW j \in 1 .. Len(y), i < j,
               NEW k \in 1 .. Len(s), NEW l \in 1 .. Len(s), y[i] = s[k], y[j] = s[l]
        PROVE  k < l
    <3>1. CASE j \in 1 .. m
      <4>1. i \in 1 .. m
        BY <1>4, <2>2, <3>1
      <4>2. x[i] = s[k] /\ x[j] = s[l]
        BY <1>4, <2>2, <3>1, <4>1
      <4>. QED  BY <1>6, <2>2, <3>1, <4>1, <4>2
    <3>2. ASSUME NEW b \in 1 .. Len(at), j = m + b
          PROVE  k < l
      <4>1. l = offset + at[b]
        BY <1>1, <1>8, <2>2, <3>2
      <4>2. CASE i \in 1 .. m
        <5>1. PICK h \in 1 .. Len(s) : h <= offset /\ x[i] = s[h]
          BY <1>5, <4>2
        <5>2. k = h
          BY <1>1, <1>4, <2>2, <4>2, <5>1
        <5>3. at[b] \in Nat /\ offset < l
          BY <1>8, <4>1
        <5>. QED  BY <5>1, <5>2, <5>3
      <4>3. ASSUME NEW a \in 1 .. Len(at), i = m + a
            PROVE  k < l
        <5>1. k = offset + at[a]
          BY <1>1, <1>8, <2>2, <4>3
        <5>2. a < b
          BY <1>4, <2>2, <3>2, <4>3
        <5>3. at[a] < at[b]
          BY <1>3, <5>2
        <5>4. at[a] \in Nat /\ at[b] \in Nat
          BY <1>2, <1>3
        <5>5. offset + at[a] < offset + at[b]
          BY <5>3, <5>4
        <5>. QED  BY <4>1, <5>1, <5>5
      <4>. QED  BY <1>7, <4>2, <4>3
    <3>3. j \in 1 .. m \/ \E b \in 1 .. Len(at) : j = m + b
      BY <1>7
    <3>. QED  BY <3>1, <3>2, <3>3
  <2>3. \A i, j \in 1 .. Len(y) : i < j =>
          \A k, l \in 1 .. Len(s) : y[i] = s[k] /\ y[j] = s[l] => k < l
    BY <2>2
  <2>4. y \in Seq(Products)
    BY <1>4
  <2>. QED  BY <2>1, <2>3, <2>4 DEF Seen
<1>. QED  BY <1>9, <1>10, <1>11, <1>12 DEF m, Continues

Through(s) ==
  /\ Seen(scan.items, s, scan.offset)
  /\ Seen(scan.unavailable, s, scan.offset)
  /\ \A k \in 1 .. Len(s) : k <= scan.offset =>
       \/ \E i \in 1 .. Len(scan.items) : scan.items[i] = s[k]
       \/ \E i \in 1 .. Len(scan.unavailable) : scan.unavailable[i] = s[k]
  /\ \A i \in 1 .. Len(scan.items), j \in 1 .. Len(scan.unavailable) :
       scan.items[i] # scan.unavailable[j]
  /\ req.phase = "batch" => req.ids = Page(s, scan.offset)
  /\ scan.done => Len(s) <= scan.offset

Reading ==
  /\ scan \in [items : Seq(Products), unavailable : Seq(Products), offset : Nat, done : BOOLEAN]
  /\ onSale \subseteq Products
  /\ req.phase \in {"idle", "crumbs", "similar", "batch"}
  /\ answer.of \in {"nothing", "tree", "category", "crumbs", "product", "similar"}
  /\ scan.done => req.phase # "batch"
  /\ \/ scan = Unread /\ req.phase # "batch"
     \/ \E s \in Relations : Through(s)

LEMMA ReadingInit == Init => Reading
<1>. SUFFICES ASSUME Init
              PROVE  Reading
  OBVIOUS
<1>1. scan = Unread /\ onSale = Products /\ req.phase = "idle" /\ answer.of = "nothing"
  BY DEF Init, Idle, Silent
<1>2. <<>> \in Seq(Products)
  OBVIOUS
<1>3. scan \in [items : Seq(Products), unavailable : Seq(Products), offset : Nat, done : BOOLEAN]
  BY <1>1, <1>2 DEF Unread
<1>. QED  BY <1>1, <1>3 DEF Reading

(* A step that asks for no page and gets none.                             *)
LEMMA ReadingKept ==
  ASSUME Reading, scan' = scan, onSale' \subseteq Products,
         answer'.of \in {"nothing", "tree", "category", "crumbs", "product", "similar"},
         req' = req \/ req'.phase \in {"idle", "crumbs", "similar"}
  PROVE  Reading'
<1>1. req'.phase = "batch" => req' = req
  OBVIOUS
<1>2. ASSUME NEW s \in Relations, Through(s)
      PROVE  Through(s)'
  BY <1>1, <1>2 DEF Through
<1>3. \/ scan' = Unread /\ req'.phase # "batch"
      \/ \E s \in Relations : Through(s)'
  BY <1>1, <1>2 DEF Reading
<1>4. /\ req'.phase \in {"idle", "crumbs", "similar", "batch"}
      /\ scan'.done => req'.phase # "batch"
  BY <1>1 DEF Reading
<1>. QED  BY <1>3, <1>4 DEF Reading

LEMMA ReadingSelect ==
  ASSUME Distinct, Reading, CollectionSelect
  PROVE  Reading'
<1>1. PICK s \in Relations :
        LET ids == Page(s, scan.offset)
        IN  IF ids = <<>>
            THEN Answers(Silent) /\ scan' = [scan EXCEPT !.done = TRUE]
            ELSE Calls([phase |-> "batch", ids |-> ids]) /\ UNCHANGED scan
  BY DEF CollectionSelect
<1>2. /\ scan \in [items : Seq(Products), unavailable : Seq(Products), offset : Nat, done : BOOLEAN]
      /\ req.phase = "idle" /\ ~scan.done /\ onSale' = onSale /\ onSale \subseteq Products
  BY DEF Reading, CollectionSelect, Idle, b2bVars
<1>3. s \in Seq(Products) /\ Len(s) \in Nat
  BY RelationsList
<1>4. Through(s)
  <2>1. CASE scan = Unread
    <3>1. scan.items = <<>> /\ scan.unavailable = <<>> /\ scan.offset = 0 /\ ~scan.done
      BY <2>1 DEF Unread
    <3>2. Len(<<>>) = 0 /\ <<>> \in Seq(Products)
      OBVIOUS
    <3>3. Seen(<<>>, s, 0)
      BY <3>2 DEF Seen
    <3>. QED  BY <1>2, <1>3, <3>1, <3>2, <3>3 DEF Through
  <2>2. ASSUME NEW t \in Relations, Through(t)
        PROVE  Through(s)
    BY <2>2, OneOrder
  <2>. QED  BY <2>1, <2>2 DEF Reading
<1>. DEFINE ids == Page(s, scan.offset)
<1>5. CASE ids = <<>>
  <2>1. /\ scan' = [scan EXCEPT !.done = TRUE] /\ req'.phase = "idle" /\ answer'.of = "nothing"
    BY <1>1, <1>5 DEF Answers, Idle, Silent
  <2>2. /\ scan'.items = scan.items /\ scan'.unavailable = scan.unavailable
        /\ scan'.offset = scan.offset /\ scan'.done = TRUE
        /\ scan' \in [items : Seq(Products), unavailable : Seq(Products), offset : Nat, done : BOOLEAN]
    BY <1>2, <2>1
  <2>3. Len(s) <= scan.offset
    <3>1. /\ \A k \in 1 .. Len(s) : scan.offset < k /\ k <= scan.offset + Limit =>
               k - scan.offset \in 1 .. Len(ids)
          /\ Limit \in Nat \ {0} /\ scan.offset \in Nat
      BY <1>2, <1>3, PageIs, CatalogAssumption
    <3>2. Len(ids) = 0
      BY <1>5
    <3>. HIDE DEF ids
    <3>3. ASSUME scan.offset < Len(s)
          PROVE  FALSE
      <4>1. scan.offset + 1 \in 1 .. Len(s) /\ scan.offset < scan.offset + 1
            /\ scan.offset + 1 <= scan.offset + Limit
        BY <1>3, <3>1, <3>3
      <4>2. (scan.offset + 1) - scan.offset \in 1 .. Len(ids)
        BY <3>1, <4>1
      <4>. QED  BY <3>1, <3>2, <4>2
    <3>. QED  BY <1>3, <3>1, <3>3
  <2>4. Through(s)'
    BY <1>4, <2>1, <2>2, <2>3 DEF Through
  <2>. QED  BY <1>2, <2>1, <2>2, <2>4 DEF Reading
<1>6. CASE ids # <<>>
  <2>1. scan' = scan /\ req' = [phase |-> "batch", ids |-> ids] /\ answer'.of = "nothing"
    BY <1>1, <1>6 DEF Calls, Silent
  <2>2. req'.phase = "batch" /\ req'.ids = ids
    BY <2>1
  <2>3. Through(s)'
    BY <1>2, <1>4, <2>1, <2>2 DEF Through
  <2>. QED  BY <1>2, <2>1, <2>2, <2>3 DEF Reading
<1>. QED  BY <1>5, <1>6

LEMMA ReadingAnswered ==
  ASSUME Reading, CollectionAnswered
  PROVE  Reading'
<1>1. /\ scan \in [items : Seq(Products), unavailable : Seq(Products), offset : Nat, done : BOOLEAN]
      /\ req.phase = "batch" /\ ~scan.done /\ onSale' = onSale /\ onSale \subseteq Products
      /\ req'.phase = "idle" /\ answer'.of = "nothing"
  BY DEF Reading, CollectionAnswered, Answers, Idle, Silent, b2bVars
<1>2. PICK s \in Relations : Through(s)
  BY <1>1 DEF Reading
<1>3. CASE UNCHANGED scan
  BY <1>1, <1>3, ReadingKept
<1>4. ASSUME NEW known \in SUBSET onSale,
             scan' = [scan EXCEPT
               !.items       = @ \o Kept(req.ids, known),
               !.unavailable = @ \o Kept(req.ids, Products \ known),
               !.offset      = @ + Limit]
      PROVE  Reading'
  <2>1. req.ids = Page(s, scan.offset) /\ Limit \in Nat \ {0} /\ scan.offset \in Nat
    BY <1>1, <1>2, CatalogAssumption DEF Through
  <2>. DEFINE x == scan.items
              y == scan.unavailable
              n == scan.offset
  <2>2. PICK v : v = x \o Kept(Page(s, n), known)
    OBVIOUS
  <2>3. PICK w : w = y \o Kept(Page(s, n), Products \ known)
    OBVIOUS
  <2>4. /\ scan'.items = v /\ scan'.unavailable = w /\ scan'.offset = n + Limit
        /\ scan'.done = scan.done
        /\ scan' = [items |-> v, unavailable |-> w, offset |-> n + Limit, done |-> scan.done]
    BY <1>1, <1>4, <2>1, <2>2, <2>3
  <2>5. /\ Seen(x, s, n) /\ Seen(y, s, n)
        /\ \A k \in 1 .. Len(s) : k <= n => \/ \E i \in 1 .. Len(x) : x[i] = s[k]
                                            \/ \E i \in 1 .. Len(y) : y[i] = s[k]
        /\ \A i \in 1 .. Len(x), j \in 1 .. Len(y) : x[i] # y[j]
    BY <1>2 DEF Through
  <2>6. n \in Nat
    BY <2>1
  <2>. HIDE DEF x, y, n
  <2>7. /\ Seen(v, s, n + Limit)
        /\ \A i \in 1 .. Len(x) : \E j \in 1 .. Len(v) : v[j] = x[i]
        /\ \A k \in 1 .. Len(s) : n < k /\ k <= n + Limit /\ s[k] \in known =>
             \E j \in 1 .. Len(v) : v[j] = s[k]
        /\ \A j \in 1 .. Len(v) : \/ \E i \in 1 .. Len(x) : v[j] = x[i]
                                  \/ v[j] \in known /\ \E k \in 1 .. Len(s) : n < k /\ v[j] = s[k]
    <3>1. Continues(v, x, s, n, known)
      BY <2>2, <2>5, <2>6, SeenNext
    <3>. QED  BY <3>1 DEF Continues
  <2>8. /\ Seen(w, s, n + Limit)
        /\ \A i \in 1 .. Len(y) : \E j \in 1 .. Len(w) : w[j] = y[i]
        /\ \A k \in 1 .. Len(s) : n < k /\ k <= n + Limit /\ s[k] \in Products \ known =>
             \E j \in 1 .. Len(w) : w[j] = s[k]
        /\ \A j \in 1 .. Len(w) :
             \/ \E i \in 1 .. Len(y) : w[j] = y[i]
             \/ w[j] \in Products \ known /\ \E k \in 1 .. Len(s) : n < k /\ w[j] = s[k]
    <3>1. Continues(w, y, s, n, Products \ known)
      BY <2>3, <2>5, <2>6, SeenNext
    <3>. QED  BY <3>1 DEF Continues
  <2>9. /\ \A i, j \in 1 .. Len(s) : s[i] = s[j] => i = j
        /\ \A k \in 1 .. Len(s) : s[k] \in Products
        /\ Len(s) \in Nat
    BY RelationsList
  <2>10. ASSUME NEW k \in 1 .. Len(s), k <= n + Limit
         PROVE  \/ \E i \in 1 .. Len(v) : v[i] = s[k]
                \/ \E i \in 1 .. Len(w) : w[i] = s[k]
    <3>1. CASE k <= n
      BY <2>5, <2>7, <2>8, <3>1
    <3>2. CASE n < k
      BY <2>7, <2>8, <2>9, <2>10, <3>2
    <3>. QED  BY <2>6, <3>1, <3>2
  <2>11. \A i \in 1 .. Len(x) : \E k \in 1 .. Len(s) : k <= n /\ x[i] = s[k]
    BY <2>5 DEF Seen
  <2>12. \A i \in 1 .. Len(y) : \E k \in 1 .. Len(s) : k <= n /\ y[i] = s[k]
    BY <2>5 DEF Seen
  <2>13. ASSUME NEW i \in 1 .. Len(v), NEW j \in 1 .. Len(w), v[i] = w[j]
         PROVE  FALSE
    <3>1. ASSUME NEW k \in 1 .. Len(s), k <= n, NEW l \in 1 .. Len(s), n < l, s[k] = s[l]
          PROVE  FALSE
      <4>1. k = l
        BY <2>9, <3>1
      <4>. QED  BY <2>6, <3>1, <4>1
    <3>2. CASE \E h \in 1 .. Len(x) : v[i] = x[h]
      <4>1. PICK h \in 1 .. Len(x) : v[i] = x[h]
        BY <3>2
      <4>2. PICK k \in 1 .. Len(s) : k <= n /\ x[h] = s[k]
        BY <2>11
      <4>3. ~ \E g \in 1 .. Len(y) : w[j] = y[g]
        BY <2>5, <2>13, <4>1
      <4>4. PICK l \in 1 .. Len(s) : n < l /\ w[j] = s[l]
        BY <2>8, <4>3
      <4>. QED  BY <2>13, <3>1, <4>1, <4>2, <4>4
    <3>3. CASE v[i] \in known /\ \E k \in 1 .. Len(s) : n < k /\ v[i] = s[k]
      <4>1. PICK k \in 1 .. Len(s) : n < k /\ v[i] = s[k]
        BY <3>3
      <4>2. PICK g \in 1 .. Len(y) : w[j] = y[g]
        BY <2>8, <2>13, <3>3
      <4>3. PICK l \in 1 .. Len(s) : l <= n /\ y[g] = s[l]
        BY <2>12
      <4>. QED  BY <2>13, <3>1, <4>1, <4>2, <4>3
    <3>. QED  BY <2>7, <3>2, <3>3
  <2>14. scan' \in [items : Seq(Products), unavailable : Seq(Products), offset : Nat, done : BOOLEAN]
    <3>1. v \in Seq(Products) /\ w \in Seq(Products) /\ n + Limit \in Nat
      BY <2>1, <2>6, <2>7, <2>8 DEF Seen
    <3>. QED  BY <1>1, <2>4, <3>1
  <2>15. Through(s)'
    BY <1>1, <2>4, <2>7, <2>8, <2>10, <2>13 DEF Through
  <2>. QED  BY <1>1, <2>4, <2>14, <2>15 DEF Reading
<1>. QED  BY <1>3, <1>4 DEF CollectionAnswered

LEMMA ReadingStep == Distinct /\ Reading /\ [Next]_vars => Reading'
<1>. SUFFICES ASSUME Distinct, Reading, [Next]_vars
              PROVE  Reading'
  OBVIOUS
<1>. DEFINE Kind == {"nothing", "tree", "category", "crumbs", "product", "similar"}
            Quiet == /\ scan' = scan /\ onSale' \subseteq Products
                     /\ answer'.of \in Kind
                     /\ req' = req \/ req'.phase \in {"idle", "crumbs", "similar"}
<1>0. onSale \subseteq Products
  BY DEF Reading
<1>1. Quiet => Reading'
  BY ReadingKept
<1>2. ASSUME NEW c \in Categories, CategoryRemoved(c)
      PROVE  Quiet
  BY <1>0, <1>2 DEF CategoryRemoved, Silent
<1>3. ASSUME NEW c \in Categories, NEW p \in Categories, CategoryMoved(c, p)
      PROVE  Quiet
  <2>1. answer' = Silent /\ UNCHANGED <<onSale, req, scan>>
    BY <1>3 DEF CategoryMoved
  <2>. QED  BY <1>0, <2>1 DEF Silent
<1>4. ASSUME NEW c \in Categories, GetCategory(c)
      PROVE  Quiet
  BY <1>0, <1>4 DEF GetCategory, Answers, Fails, Idle, Reads, b2bVars
<1>5. ASSUME NEW c \in Categories, CrumbsOf(c)
      PROVE  Quiet
  BY <1>0, <1>5 DEF CrumbsOf, Calls, Silent, Reads, b2bVars
<1>6. ASSUME NEW p \in Products, SaleChanges(p)
      PROVE  Quiet
  <2>1. onSale' \subseteq Products
    BY <1>0, <1>6 DEF SaleChanges, SymDiff
  <2>. QED  BY <1>6, <2>1 DEF SaleChanges, Silent
<1>7. ASSUME NEW p \in Products, NEW c \in Categories, CrumbsOfProduct(p, c)
      PROVE  Quiet
  BY <1>0, <1>7 DEF CrumbsOfProduct, Answers, Calls, Fails, Idle, Silent, Reads, b2bVars
<1>8. ASSUME NEW p \in Products, NEW skus \in SkuLists, GetProduct(p, skus)
      PROVE  Quiet
  BY <1>0, <1>8 DEF GetProduct, Answers, Fails, Idle, Reads, b2bVars
<1>9. ASSUME NEW p \in Products, NEW ids, SimilarListed(p, ids)
      PROVE  Quiet
  BY <1>0, <1>9 DEF SimilarListed, Answers, Calls, Fails, Idle, Silent, Reads, b2bVars
<1>10. ASSUME GetTree
       PROVE  Quiet
  BY <1>0, <1>10 DEF GetTree, Answers, Fails, Idle, Reads, b2bVars
<1>11. ASSUME CrumbsOfBothOrNeither
       PROVE  Quiet
  BY <1>0, <1>11 DEF CrumbsOfBothOrNeither, Answers, Fails, Idle, Reads, b2bVars
<1>12. ASSUME CrumbsListed
       PROVE  Quiet
  BY <1>0, <1>12 DEF CrumbsListed, Answers, Fails, Idle, Reads, b2bVars
<1>13. ASSUME SimilarAnswered
       PROVE  Quiet
  BY <1>0, <1>13 DEF SimilarAnswered, Answers, Fails, Idle, Reads, b2bVars
<1>14. CASE CollectionSelect
  BY <1>14, ReadingSelect
<1>15. CASE CollectionAnswered
  BY <1>15, ReadingAnswered
<1>16. CASE Rescan
  <2>1. scan' = Unread /\ UNCHANGED <<onSale, req, answer>> /\ req.phase # "batch"
    BY <1>16 DEF Rescan, Reading, b2bVars
  <2>2. /\ Unread \in [items : Seq(Products), unavailable : Seq(Products), offset : Nat, done : BOOLEAN]
        /\ Unread.done = FALSE
    <3>1. <<>> \in Seq(Products)
      OBVIOUS
    <3>. QED  BY <3>1 DEF Unread
  <2>. QED  BY <2>1, <2>2 DEF Reading
<1>17. CASE UNCHANGED vars
  <2>1. Quiet
    BY <1>0, <1>17 DEF vars, b2bVars, Reading
  <2>. QED  BY <1>1, <2>1
<1>. HIDE DEF Quiet
<1>. QED  BY <1>1, <1>2, <1>3, <1>4, <1>5, <1>6, <1>7, <1>8, <1>9, <1>10, <1>11, <1>12, <1>13,
             <1>14, <1>15, <1>16, <1>17 DEF Next

(* Half way through the collection, too, nothing was seen twice.           *)
LEMMA NothingTwice ==
  ASSUME Reading
  PROVE  /\ scan.items \o scan.unavailable \in Seq(Products)
         /\ Len(scan.items \o scan.unavailable) = Len(scan.items) + Len(scan.unavailable)
         /\ \A i \in 1 .. Len(scan.items) : (scan.items \o scan.unavailable)[i] = scan.items[i]
         /\ \A i \in 1 .. Len(scan.unavailable) :
              (scan.items \o scan.unavailable)[Len(scan.items) + i] = scan.unavailable[i]
         /\ \A i, j \in 1 .. Len(scan.items \o scan.unavailable) :
              (scan.items \o scan.unavailable)[i] = (scan.items \o scan.unavailable)[j] => i = j
<1>. DEFINE x == scan.items
            y == scan.unavailable
            z == x \o y
            m == Len(x)
            n == Len(y)
<1>1. x \in Seq(Products) /\ y \in Seq(Products) /\ m \in Nat /\ n \in Nat
  BY DEF Reading
<1>2. /\ \A i, j \in 1 .. m : x[i] = x[j] => i = j
      /\ \A i, j \in 1 .. n : y[i] = y[j] => i = j
      /\ \A i \in 1 .. m, j \in 1 .. n : x[i] # y[j]
  <2>1. CASE scan = Unread
    BY <2>1 DEF Unread
  <2>2. ASSUME NEW s \in Relations, Through(s)
        PROVE  /\ \A i, j \in 1 .. m : x[i] = x[j] => i = j
               /\ \A i, j \in 1 .. n : y[i] = y[j] => i = j
               /\ \A i \in 1 .. m, j \in 1 .. n : x[i] # y[j]
    <3>1. ASSUME NEW u, Seen(u, s, scan.offset)
          PROVE  \A i, j \in 1 .. Len(u) : u[i] = u[j] => i = j
      <4>. SUFFICES ASSUME NEW i \in 1 .. Len(u), NEW j \in 1 .. Len(u), u[i] = u[j], i < j
                    PROVE  FALSE
        <5>1. \A i, j \in 1 .. Len(u) : i = j \/ i < j \/ j < i
          BY <3>1 DEF Seen
        <5>. QED  BY <5>1
      <4>1. PICK k \in 1 .. Len(s) : u[i] = s[k]
        BY <3>1 DEF Seen
      <4>2. k < k
        BY <3>1, <4>1 DEF Seen
      <4>3. k \in Nat
        BY RelationsList
      <4>. QED  BY <4>2, <4>3
    <3>. QED  BY <2>2, <3>1 DEF Through
  <2>. QED  BY <2>1, <2>2 DEF Reading
<1>. HIDE DEF x, y
<1>3. /\ z \in Seq(Products) /\ Len(z) = m + n
      /\ \A i \in 1 .. m + n : z[i] = IF i <= m THEN x[i] ELSE y[i - m]
  BY <1>1, ConcatProperties
<1>. HIDE DEF z, m, n
<1>4. \A i \in 1 .. m : z[i] = x[i]
  BY <1>1, <1>3
<1>5. ASSUME NEW i \in 1 .. n
      PROVE  z[m + i] = y[i]
  <2>. DEFINE j == m + i
  <2>1. j \in 1 .. m + n /\ ~(j <= m) /\ j - m = i
    BY <1>1
  <2>. HIDE DEF j
  <2>2. z[j] = y[j - m]
    BY <1>3, <2>1
  <2>. QED  BY <2>1, <2>2 DEF j
<1>6. \A i \in 1 .. m + n : i \in 1 .. m \/ \E h \in 1 .. n : i = m + h
  <2>. SUFFICES ASSUME NEW i \in 1 .. m + n, ~(i \in 1 .. m)
                PROVE  \E h \in 1 .. n : i = m + h
    OBVIOUS
  <2>1. i - m \in 1 .. n /\ i = m + (i - m)
    BY <1>1
  <2>. QED  BY <2>1
<1>7. ASSUME NEW i \in 1 .. m + n, NEW j \in 1 .. m + n, z[i] = z[j]
      PROVE  i = j
  <2>1. CASE i \in 1 .. m /\ j \in 1 .. m
    BY <1>2, <1>4, <1>7, <2>1 DEF m
  <2>2. ASSUME NEW h \in 1 .. n, i = m + h, j \in 1 .. m
        PROVE  FALSE
    BY <1>2, <1>4, <1>5, <1>7, <2>2 DEF m, n
  <2>3. ASSUME NEW h \in 1 .. n, j = m + h, i \in 1 .. m
        PROVE  FALSE
    BY <1>2, <1>4, <1>5, <1>7, <2>3 DEF m, n
  <2>4. ASSUME NEW g \in 1 .. n, NEW h \in 1 .. n, i = m + g, j = m + h
        PROVE  i = j
    <3>1. y[g] = y[h]
      BY <1>5, <1>7, <2>4
    <3>. QED  BY <1>2, <2>4, <3>1 DEF n
  <2>. QED  BY <1>6, <2>1, <2>2, <2>3, <2>4
<1>8. \A i, j \in 1 .. m + n : z[i] = z[j] => i = j
  BY <1>7
<1>. QED  BY <1>3, <1>4, <1>5, <1>8 DEF x, y, z, m, n

LEMMA ScanOver ==
  ASSUME Reading
  PROVE  ScanSeesAll
<1>. SUFFICES ASSUME scan.done
              PROVE  /\ scan.items \o scan.unavailable \in SetToSeqs(Products)
                     /\ \A i, j \in DOMAIN scan.items :
                          i < j => Ordering[scan.items[i]] <= Ordering[scan.items[j]]
  BY DEF ScanSeesAll
<1>1. PICK s \in Relations : Through(s)
  BY DEF Reading, Unread
<1>2. /\ \A p \in Products : \E i \in 1 .. Len(s) : s[i] = p
      /\ \A i, j \in 1 .. Len(s) : i < j => Ordering[s[i]] <= Ordering[s[j]]
      /\ Len(s) \in Nat
  BY RelationsList
<1>. DEFINE x == scan.items
            y == scan.unavailable
            z == x \o y
<1>3. /\ z \in Seq(Products) /\ Len(z) = Len(x) + Len(y)
      /\ \A i \in 1 .. Len(x) : z[i] = x[i]
      /\ \A i \in 1 .. Len(y) : z[Len(x) + i] = y[i]
      /\ \A i, j \in 1 .. Len(z) : z[i] = z[j] => i = j
  BY NothingTwice
<1>4. /\ Seen(x, s, scan.offset) /\ Len(s) <= scan.offset /\ scan.offset \in Nat
      /\ \A k \in 1 .. Len(s) : k <= scan.offset =>
           (\E i \in 1 .. Len(x) : x[i] = s[k]) \/ (\E i \in 1 .. Len(y) : y[i] = s[k])
      /\ x \in Seq(Products) /\ y \in Seq(Products) /\ Len(x) \in Nat /\ Len(y) \in Nat
  BY <1>1 DEF Through, Reading
<1>. HIDE DEF x, y, z
<1>5. ASSUME NEW p \in Products
      PROVE  \E i \in 1 .. Len(z) : z[i] = p
  <2>1. PICK k \in 1 .. Len(s) : s[k] = p
    BY <1>2
  <2>2. k <= scan.offset
    BY <1>2, <1>4
  <2>3. CASE \E i \in 1 .. Len(x) : x[i] = p
    <3>1. PICK i \in 1 .. Len(x) : x[i] = p
      BY <2>3
    <3>2. i \in 1 .. Len(z) /\ z[i] = p
      BY <1>3, <1>4, <3>1
    <3>. QED  BY <3>2
  <2>4. CASE \E i \in 1 .. Len(y) : y[i] = p
    <3>1. PICK i \in 1 .. Len(y) : y[i] = p
      BY <2>4
    <3>2. Len(x) + i \in 1 .. Len(z) /\ z[Len(x) + i] = p
      BY <1>3, <1>4, <3>1
    <3>. QED  BY <3>2
  <2>. QED  BY <1>4, <2>1, <2>2, <2>3, <2>4
<1>6. z \in SetToSeqs(Products)
  BY <1>3, <1>5, CatalogAssumption, Enumerations
<1>7. ASSUME NEW i \in 1 .. Len(x), NEW j \in 1 .. Len(x), i < j
      PROVE  Ordering[x[i]] <= Ordering[x[j]]
  <2>1. PICK k \in 1 .. Len(s) : x[i] = s[k]
    BY <1>4 DEF Seen
  <2>2. PICK l \in 1 .. Len(s) : x[j] = s[l]
    BY <1>4 DEF Seen
  <2>3. k < l
    BY <1>4, <1>7, <2>1, <2>2 DEF Seen
  <2>. QED  BY <1>2, <2>1, <2>2, <2>3
<1>8. DOMAIN x = 1 .. Len(x)
  BY <1>4
<1>. QED  BY <1>6, <1>7, <1>8 DEF x, y, z

(* A client that pages through a collection whose rows all differ in their *)
(* ordering has seen every product exactly once when it comes to the end,  *)
(* and the items in their order, whatever goes off sale or comes back      *)
(* between its pages and however often a page fails; for pages of any size.*)
THEOREM PagingSeesAll == Distinct => (Spec => []ScanSeesAll)
<1>. SUFFICES ASSUME Distinct
              PROVE  Spec => []ScanSeesAll
  OBVIOUS
<1>1. Reading /\ [Next]_vars => Reading'
  BY ReadingStep
<1>2. Reading => ScanSeesAll
  BY ScanOver
<1>. QED  BY ReadingInit, <1>1, <1>2, PTL DEF Spec

(* The state keeps its shape, and on the way nothing was seen twice.       *)
THEOREM TypeCorrect == Distinct => (Spec => []TypeOK)
<1>. SUFFICES ASSUME Distinct
              PROVE  Spec => []TypeOK
  OBVIOUS
<1>1. Reading /\ [Next]_vars => Reading'
  BY ReadingStep
<1>2. Reading /\ Truthful => TypeOK
  <2>. SUFFICES ASSUME Reading, Truthful
                PROVE  TypeOK
    OBVIOUS
  <2>1. scan.items \o scan.unavailable \in SetToAllKPermutations(Products)
    BY NothingTwice, WithoutRepetition, CatalogAssumption
  <2>2. \A c \in DOMAIN cats : Last(cats[c]) = c
    BY DEF Truthful, Hierarchy, Last
  <2>. QED  BY <2>1, <2>2 DEF TypeOK, Reading, Truthful, Hierarchy
<1>. QED  BY ReadingInit, TruthfulInit, TruthfulStep, <1>1, <1>2, PTL DEF Spec
=============================================================================
