--------------------------------- MODULE Lemas --------------------------------
(*****************************************************************************)
(* Facts about sequences, division and sums on which the proofs rest.        *)
(*****************************************************************************)
EXTENDS Integers, Sequences, SequencesExt, SequenceTheorems, FiniteSetTheorems,
        WellFoundedInduction, TLAPS

\* A nonempty set of natural numbers has a least one.
LEMMA MinimoNatural ==
  ASSUME NEW I \in SUBSET Nat, I # {}
  PROVE  \E x \in I : \A y \in I : x <= y
<1>1. IsWellFoundedOn(OpToRel(<, Nat), Nat)
  BY NatLessThanWellFounded
<1>2. PICK x \in I : \A y \in I : ~(<<y, x>> \in OpToRel(<, Nat))
  BY <1>1, WFMin
<1>3. \A y \in I : y < x => <<y, x>> \in OpToRel(<, Nat)
  BY Zenon DEF OpToRel
<1>4. \A y \in I : ~(y < x)
  BY <1>2, <1>3, Zenon
<1> QED
  BY <1>4

\* A nonempty set of indices of a list has a least element, and Min is it.
LEMMA MinDeIndices ==
  ASSUME NEW n \in Nat, NEW I \in SUBSET (1 .. n), I # {}
  PROVE  Min(I) \in I /\ \A j \in I : Min(I) <= j
<1>1. I \in SUBSET Nat
  OBVIOUS
<1>2. \E x \in I : \A y \in I : x <= y
  BY <1>1, MinimoNatural
<1> QED
  BY <1>2 DEF Min

\* RemoveAt (list_remove) drops one position and moves the rest down.
LEMMA QuitarPosicion ==
  ASSUME NEW S, NEW s \in Seq(S), NEW i \in 1 .. Len(s)
  PROVE  /\ RemoveAt(s, i) \in Seq(S)
         /\ Len(RemoveAt(s, i)) = Len(s) - 1
         /\ \A j \in 1 .. Len(s) - 1 :
              RemoveAt(s, i)[j] = IF j < i THEN s[j] ELSE s[j + 1]
<1> DEFINE a == SubSeq(s, 1, i - 1)
           b == SubSeq(s, i + 1, Len(s))
<1>1. a \in Seq(S) /\ Len(a) = i - 1
  OBVIOUS
<1>2. b \in Seq(S) /\ Len(b) = Len(s) - i
  OBVIOUS
<1>3. \A j \in 1 .. i - 1 : a[j] = s[j]
  OBVIOUS
<1>4. \A j \in 1 .. Len(s) - i : b[j] = s[i + j]
  OBVIOUS
<1> HIDE DEF a, b
<1>5. /\ a \o b \in Seq(S) /\ Len(a \o b) = Len(a) + Len(b)
      /\ \A j \in 1 .. Len(a) + Len(b) :
           (a \o b)[j] = IF j <= Len(a) THEN a[j] ELSE b[j - Len(a)]
  BY <1>1, <1>2, ConcatProperties
<1>6. ASSUME NEW j \in 1 .. Len(s) - 1
      PROVE  (a \o b)[j] = IF j < i THEN s[j] ELSE s[j + 1]
  <2>1. Len(s) \in Nat /\ j \in 1 .. Len(a) + Len(b)
    BY <1>1, <1>2
  <2>2. CASE j < i
    BY <1>1, <1>3, <1>5, <2>1, <2>2
  <2>3. CASE ~(j < i)
    <3>1. j - Len(a) \in 1 .. Len(s) - i /\ i + (j - Len(a)) = j + 1
      BY <1>1, <2>1, <2>3
    <3>2. (a \o b)[j] = b[j - Len(a)]
      BY <1>1, <1>5, <2>1, <2>3
    <3> QED
      BY <1>4, <2>3, <3>1, <3>2
  <2> QED
    BY <2>2, <2>3
<1>7. Len(a \o b) = Len(s) - 1
  BY <1>1, <1>2, <1>5
<1> QED
  BY <1>5, <1>6, <1>7 DEF RemoveAt, a, b

\* RemoveFirst (the search and the list_remove of destruirPag) drops a position that
\* holds the element.
LEMMA QuitarPrimero ==
  ASSUME NEW S, NEW s \in Seq(S), NEW e, \E i \in 1 .. Len(s) : s[i] = e
  PROVE  \E i \in 1 .. Len(s) : s[i] = e /\ RemoveFirst(s, e) = RemoveAt(s, i)
<1> DEFINE I == {i \in 1 .. Len(s) : s[i] = e}
<1>1. I # {} /\ I \in SUBSET (1 .. Len(s)) /\ Len(s) \in Nat
  OBVIOUS
<1>2. Min(I) \in I
  BY <1>1, MinDeIndices
<1>3. RemoveFirst(s, e) = RemoveAt(s, Min(I))
  BY <1>1 DEF RemoveFirst, SelectInSeq
<1> QED
  BY <1>2, <1>3

\* Append (list_add) adds its element and no other.
LEMMA RangoAppend ==
  ASSUME NEW S, NEW s \in Seq(S), NEW e \in S
  PROVE  Range(Append(s, e)) = Range(s) \cup {e}
<1>1. \A j \in 1 .. Len(s) : Append(s, e)[j] = s[j]
  OBVIOUS
<1>2. Append(s, e)[Len(s) + 1] = e
  OBVIOUS
<1>3. DOMAIN Append(s, e) = (1 .. Len(s)) \cup {Len(s) + 1} /\ DOMAIN s = 1 .. Len(s)
  OBVIOUS
<1> QED
  BY <1>1, <1>2, <1>3 DEF Range

\* Without its head (list_remove(marcosVacios, 0)) a list without repetitions has
\* everything but the head.
LEMMA RangoTail ==
  ASSUME NEW S, NEW s \in Seq(S), s # <<>>
  PROVE  /\ Head(s) \in S /\ Head(s) \in Range(s)
         /\ Tail(s) \in Seq(S)
         /\ Range(s) = Range(Tail(s)) \cup {Head(s)}
         /\ IsInjective(s) => /\ IsInjective(Tail(s))
                              /\ Head(s) \notin Range(Tail(s))
<1>1. /\ Head(s) = s[1] /\ Tail(s) \in Seq(S) /\ Len(Tail(s)) = Len(s) - 1
      /\ Len(s) \in Nat \ {0}
  OBVIOUS
<1>2. \A j \in 1 .. Len(s) - 1 : Tail(s)[j] = s[j + 1]
  OBVIOUS
<1>3. DOMAIN s = 1 .. Len(s) /\ DOMAIN Tail(s) = 1 .. Len(s) - 1
  BY <1>1
<1>4. ASSUME NEW j \in DOMAIN s
      PROVE  s[j] = Head(s) \/ s[j] \in Range(Tail(s))
  <2>1. CASE j = 1
    BY <1>1, <2>1
  <2>2. CASE j # 1
    <3>1. j - 1 \in 1 .. Len(s) - 1 /\ (j - 1) + 1 = j
      BY <1>1, <1>3, <2>2
    <3> QED
      BY <1>2, <1>3, <3>1 DEF Range
  <2> QED
    BY <2>1, <2>2
<1>5. 1 \in DOMAIN s /\ \A j \in DOMAIN Tail(s) : j + 1 \in DOMAIN s /\ j + 1 # 1
  BY <1>1, <1>3
<1>6. Range(s) = Range(Tail(s)) \cup {Head(s)}
  BY SMTT(30), <1>1, <1>2, <1>3, <1>4, <1>5 DEF Range
<1>7. ASSUME IsInjective(s)
      PROVE  IsInjective(Tail(s)) /\ Head(s) \notin Range(Tail(s))
  BY <1>1, <1>2, <1>3, <1>5, <1>7 DEF IsInjective, Range
<1>8. Head(s) \in S
  OBVIOUS
<1> QED
  BY <1>1, <1>6, <1>7, <1>8

\* Removing the only position of an element leaves the other elements.
LEMMA RangoQuitar ==
  ASSUME NEW S, NEW s \in Seq(S), NEW i \in 1 .. Len(s),
         \A j \in 1 .. Len(s) : s[j] = s[i] => j = i
  PROVE  Range(RemoveAt(s, i)) = Range(s) \ {s[i]}
<1> DEFINE t == RemoveAt(s, i)
<1>1. /\ t \in Seq(S) /\ Len(t) = Len(s) - 1
      /\ \A j \in 1 .. Len(s) - 1 : t[j] = IF j < i THEN s[j] ELSE s[j + 1]
  BY QuitarPosicion
<1> HIDE DEF t
<1>2. DOMAIN s = 1 .. Len(s) /\ DOMAIN t = 1 .. Len(s) - 1 /\ Len(s) \in Nat
  BY <1>1
<1>3. ASSUME NEW j \in DOMAIN t
      PROVE  t[j] \in Range(s) \ {s[i]}
  <2>1. PICK l \in 1 .. Len(s) : l # i /\ t[j] = s[l]
    <3>1. CASE j < i
      BY <1>1, <1>2, <3>1
    <3>2. CASE ~(j < i)
      BY <1>1, <1>2, <3>2
    <3> QED
      BY <3>1, <3>2
  <2> QED
    BY <1>2, <2>1 DEF Range
<1>4. ASSUME NEW l \in DOMAIN s, l # i
      PROVE  s[l] \in Range(t)
  <2>1. CASE l < i
    BY <1>1, <1>2, <2>1 DEF Range
  <2>2. CASE l > i
    <3>1. l - 1 \in DOMAIN t /\ ~(l - 1 < i) /\ (l - 1) + 1 = l
      BY <1>2, <2>2
    <3> QED
      BY <1>1, <1>2, <3>1 DEF Range
  <2> QED
    BY <1>2, <1>4, <2>1, <2>2
<1>5. Range(t) \subseteq Range(s) \ {s[i]}
  BY <1>3 DEF Range
<1>6. Range(s) \ {s[i]} \subseteq Range(t)
  BY <1>4 DEF Range
<1> QED
  BY <1>5, <1>6 DEF t

\* The non-x elements of s are all different.
Unicos(s, x) == \A i, j \in DOMAIN s : s[i] = s[j] /\ s[i] # x => i = j

\* Removing a position leaves no repetition where there was none.
LEMMA UnicosQuitar ==
  ASSUME NEW S, NEW s \in Seq(S), NEW i \in 1 .. Len(s), NEW x, Unicos(s, x)
  PROVE  Unicos(RemoveAt(s, i), x)
<1> DEFINE t == RemoveAt(s, i)
           g(j) == IF j < i THEN j ELSE j + 1
<1>1. /\ t \in Seq(S) /\ Len(t) = Len(s) - 1
      /\ \A j \in 1 .. Len(s) - 1 : t[j] = IF j < i THEN s[j] ELSE s[j + 1]
  BY QuitarPosicion
<1> HIDE DEF t
<1>2. DOMAIN s = 1 .. Len(s) /\ DOMAIN t = 1 .. Len(s) - 1 /\ Len(s) \in Nat
  BY <1>1
<1>3. \A j \in DOMAIN t : g(j) \in DOMAIN s /\ t[j] = s[g(j)]
  BY <1>1, <1>2
<1>4. \A j, l \in DOMAIN t : g(j) = g(l) => j = l
  BY <1>2
<1> HIDE DEF g
<1>5. Unicos(t, x)
  BY <1>3, <1>4 DEF Unicos
<1> QED
  BY <1>5 DEF t

\* Adding what is not there leaves no repetition where there was none.
LEMMA UnicosAppend ==
  ASSUME NEW S, NEW s \in Seq(S), NEW x, NEW e \in S \ Range(s), Unicos(s, x)
  PROVE  Unicos(Append(s, e), x)
<1>1. \A j \in 1 .. Len(s) : Append(s, e)[j] = s[j] /\ s[j] # e
  BY DEF Range
<1>2. Append(s, e)[Len(s) + 1] = e
  OBVIOUS
<1>3. DOMAIN Append(s, e) = (1 .. Len(s)) \cup {Len(s) + 1} /\ DOMAIN s = 1 .. Len(s)
  OBVIOUS
<1> QED
  BY <1>1, <1>2, <1>3 DEF Unicos

\* The same, for IsInjective.
LEMMA InjectivaAppend ==
  ASSUME NEW S, NEW s \in Seq(S), NEW e \in S \ Range(s), IsInjective(s)
  PROVE  IsInjective(Append(s, e))
<1>1. \A j \in 1 .. Len(s) : Append(s, e)[j] = s[j] /\ s[j] # e
  BY DEF Range
<1>2. Append(s, e)[Len(s) + 1] = e
  OBVIOUS
<1>3. DOMAIN Append(s, e) = (1 .. Len(s)) \cup {Len(s) + 1} /\ DOMAIN s = 1 .. Len(s)
  OBVIOUS
<1> QED
  BY <1>1, <1>2, <1>3 DEF IsInjective

\* A size rounded up to pages is a natural number of them.
LEMMA DivisionHaciaArriba ==
  ASSUME NEW d \in Nat \ {0}, NEW p \in Nat, NEW t \in Nat
  PROVE  /\ (t + d - 1) \div d \in Nat
         /\ d * p < t => p < (t + d - 1) \div d
<1> DEFINE q == (t + d - 1) \div d
<1>1. q \in Nat /\ t + d - 1 < d * (q + 1)
  OBVIOUS
<1> HIDE DEF q
<1>2. ASSUME q <= p
      PROVE  d * (q + 1) <= d * p + d
  BY <1>1, <1>2
<1>3. d * p < t => p < q
  BY <1>1, <1>2
<1> QED
  BY <1>1, <1>3 DEF q

-------------------------------------------------------------------------------
(* Sums over finite sets.  Induction on a finite set is by its least subset for     *)
(* which the claim is not so.                                                        *)

\* A family of subsets of a finite set has one that holds no other.
LEMMA MinimoDeSubconjuntos ==
  ASSUME NEW S, IsFiniteSet(S), NEW W \in SUBSET SUBSET S, W # {}
  PROVE  \E A \in W : \A B \in W : B \subseteq A => B = A
<1>1. IsWellFoundedOn(StrictSubsetOrdering(S), FiniteSubsetsOf(S))
  BY FS_StrictSubsetOrderingWellFounded
<1>2. W \subseteq FiniteSubsetsOf(S)
  <2>1. \A A \in W : A \subseteq S /\ IsFiniteSet(A)
    BY FS_Subset
  <2> QED
    BY <2>1 DEF FiniteSubsetsOf
<1>3. PICK A \in W : \A B \in W : ~(<<B, A>> \in StrictSubsetOrdering(S))
  BY <1>1, <1>2, WFMin
<1>4. \A B \in W : B \subseteq A /\ B # A => <<B, A>> \in StrictSubsetOrdering(S)
  BY <1>2 DEF StrictSubsetOrdering
<1>5. \A B \in W : B \subseteq A => B = A
  BY <1>3, <1>4, Zenon
<1> QED
  BY <1>5

\* What the function f gives to the elements of S, added.
Suma(f, S) == MapThenSumSet(LAMBDA x : f[x], S)

Elegido(s) == CHOOSE x \in s : TRUE

\* g adds up f over each subset of S.
Recorre(g, f, S) ==
  g = [s \in SUBSET S |-> IF s = {} THEN 0 ELSE f[Elegido(s)] + g[s \ {Elegido(s)}]]

\* MapThenSumSet goes through the set with such a g.
LEMMA SumaEs ==
  ASSUME NEW f, NEW S
  PROVE  Suma(f, S) = (CHOOSE g : Recorre(g, f, S))[S]
BY Zenon DEF Suma, MapThenSumSet, MapThenFoldSet, Recorre, Elegido

\* The element chosen is in the set.
LEMMA ElegidoEsta ==
  ASSUME NEW s, s # {}
  PROVE  Elegido(s) \in s
BY DEF Elegido

\* The value at one subset.
LEMMA RecorreValor ==
  ASSUME NEW f, NEW S, NEW g, Recorre(g, f, S), NEW s \in SUBSET S
  PROVE  g[s] = IF s = {} THEN 0 ELSE f[Elegido(s)] + g[s \ {Elegido(s)}]
<1> DEFINE h == [r \in SUBSET S |-> IF r = {} THEN 0 ELSE f[Elegido(r)] + g[r \ {Elegido(r)}]]
<1>1. g = h
  BY DEF Recorre
<1>2. h[s] = IF s = {} THEN 0 ELSE f[Elegido(s)] + g[s \ {Elegido(s)}]
  OBVIOUS
<1> HIDE DEF h
<1> QED
  BY <1>1, <1>2

\* Two of them agree on the subsets that they share.
LEMMA RecorreUnica ==
  ASSUME NEW f, NEW S, NEW T, NEW g, NEW h, Recorre(g, f, S), Recorre(h, f, T),
         NEW A \in SUBSET S, A \in SUBSET T, IsFiniteSet(A)
  PROVE  g[A] = h[A]
<1> DEFINE W == {B \in SUBSET A : g[B] # h[B]}
<1>1. SUFFICES ASSUME W # {} PROVE FALSE
  OBVIOUS
<1>2. PICK B \in W : \A C \in W : C \subseteq B => C = B
  <2>1. W \in SUBSET SUBSET A
    OBVIOUS
  <2> HIDE DEF W
  <2> QED
    BY <1>1, <2>1, MinimoDeSubconjuntos
<1>3. B # {}
  <2>1. g[{}] = 0 /\ h[{}] = 0
    BY RecorreValor
  <2> QED
    BY <1>2, <2>1
<1> DEFINE e == Elegido(B)
<1>4. e \in B
  BY <1>3, ElegidoEsta
<1>5. B \ {e} \in SUBSET A /\ B \ {e} # B /\ B \ {e} \subseteq B
  BY <1>2, <1>4
<1>6. g[B \ {e}] = h[B \ {e}]
  BY <1>2, <1>5
<1>7. g[B] = f[e] + g[B \ {e}] /\ h[B] = f[e] + h[B \ {e}]
  BY <1>2, <1>3, RecorreValor
<1> QED
  BY <1>2, <1>6, <1>7

\* Every finite set has one.
LEMMA RecorreHay ==
  ASSUME NEW f, NEW S, IsFiniteSet(S)
  PROVE  \E g : Recorre(g, f, S)
<1> DEFINE Hay(A) == \E g : Recorre(g, f, A)
           W == {A \in SUBSET S : ~Hay(A)}
<1>1. SUFFICES ASSUME W # {} PROVE FALSE
  <2>1. S \in SUBSET S
    OBVIOUS
  <2> QED
    BY <2>1
<1> HIDE DEF Hay
<1>2. PICK A \in W : \A B \in W : B \subseteq A => B = A
  <2>1. W \in SUBSET SUBSET S
    OBVIOUS
  <2> HIDE DEF W
  <2> QED
    BY <1>1, <2>1, MinimoDeSubconjuntos
<1>3. \A B \in SUBSET A : B # A => Hay(B)
  BY <1>2
<1> DEFINE de(B) == CHOOSE g : Recorre(g, f, B)
           G == [B \in SUBSET A |-> IF B = A THEN IF A = {} THEN 0
                                      ELSE f[Elegido(A)] + de(A \ {Elegido(A)})[A \ {Elegido(A)}]
                                    ELSE de(B)[B]]
<1>4. \A B \in SUBSET A : B # A => Recorre(de(B), f, B)
  BY <1>3, Zenon DEF Hay
<1>5. \A B \in SUBSET A : G[B] = IF B = {} THEN 0 ELSE f[Elegido(B)] + G[B \ {Elegido(B)}]
  <2> SUFFICES ASSUME NEW B \in SUBSET A
               PROVE  G[B] = IF B = {} THEN 0 ELSE f[Elegido(B)] + G[B \ {Elegido(B)}]
    OBVIOUS
  <2> DEFINE e == Elegido(B)
             C == B \ {e}
  <2>1. B # {} => e \in B /\ C # B /\ C # A /\ C \in SUBSET A /\ C \in SUBSET B
    BY ElegidoEsta
  <2>2. B # {} => G[C] = de(C)[C]
    BY <2>1
  <2>3. CASE B = A
    BY <2>1, <2>2, <2>3
  <2>4. CASE B # A
    <3>1. G[B] = de(B)[B]
      BY <2>4
    <3> HIDE DEF de, G
    <3>2. Recorre(de(B), f, B)
      BY <1>4, <2>4
    <3>3. de(B)[B] = IF B = {} THEN 0 ELSE f[e] + de(B)[C]
      BY <3>2, RecorreValor
    <3>4. CASE B = {}
      BY <3>1, <3>3, <3>4
    <3>5. CASE B # {}
      <4>1. Recorre(de(C), f, C)
        BY <1>4, <2>1, <3>5
      <4>2. IsFiniteSet(C)
        BY <1>2, FS_Subset
      <4>3. de(B)[C] = de(C)[C]
        BY <2>1, <3>2, <3>5, <4>1, <4>2, RecorreUnica
      <4> QED
        BY <2>2, <3>1, <3>3, <3>5, <4>3
    <3> QED
      BY <3>4, <3>5
  <2> QED
    BY <2>3, <2>4
<1>6. G = [B \in SUBSET A |-> G[B]]
  OBVIOUS
<1> HIDE DEF G
<1>7. Recorre(G, f, A)
  <2> DEFINE H == [B \in SUBSET A |-> IF B = {} THEN 0 ELSE f[Elegido(B)] + G[B \ {Elegido(B)}]]
  <2>1. \A B \in SUBSET A : H[B] = G[B]
    BY <1>5
  <2>2. H = [B \in SUBSET A |-> H[B]]
    OBVIOUS
  <2> HIDE DEF H
  <2>3. G = H
    BY <1>6, <2>1, <2>2
  <2> QED
    BY <2>3 DEF Recorre, H
<1> QED
  BY <1>2, <1>7 DEF Hay

\* Any of them gives the sum.
LEMMA SumaDeRecorre ==
  ASSUME NEW f, NEW S, IsFiniteSet(S), NEW g, Recorre(g, f, S), NEW A \in SUBSET S
  PROVE  Suma(f, A) = g[A]
<1> DEFINE d == CHOOSE h : Recorre(h, f, A)
<1>1. IsFiniteSet(A)
  BY FS_Subset
<1>2. \E h : Recorre(h, f, A)
  BY <1>1, RecorreHay
<1>3. Recorre(d, f, A)
  BY <1>2, Zenon
<1>4. Suma(f, A) = d[A]
  BY SumaEs
<1> HIDE DEF d
<1>5. d[A] = g[A]
  BY <1>1, <1>3, RecorreUnica
<1> QED
  BY <1>4, <1>5

\* Nothing adds up to 0.
LEMMA SumaVacia ==
  ASSUME NEW f
  PROVE  Suma(f, {}) = 0
<1>1. IsFiniteSet({})
  BY FS_EmptySet
<1>2. PICK g : Recorre(g, f, {})
  BY <1>1, RecorreHay
<1>3. {} \in SUBSET {}
  OBVIOUS
<1> QED
  BY <1>1, <1>2, <1>3, SumaDeRecorre, RecorreValor

\* The sum takes the chosen element first.
LEMMA SumaPaso ==
  ASSUME NEW f, NEW S, IsFiniteSet(S), S # {}
  PROVE  Suma(f, S) = f[Elegido(S)] + Suma(f, S \ {Elegido(S)})
<1>1. PICK g : Recorre(g, f, S)
  BY RecorreHay
<1> DEFINE e == Elegido(S)
<1>2. S \in SUBSET S /\ S \ {e} \in SUBSET S
  OBVIOUS
<1>3. g[S] = f[e] + g[S \ {e}]
  BY <1>1, <1>2, RecorreValor
<1> HIDE DEF e
<1>4. Suma(f, S) = g[S] /\ Suma(f, S \ {e}) = g[S \ {e}]
  BY <1>1, <1>2, SumaDeRecorre
<1> QED
  BY <1>3, <1>4 DEF e

\* Integers add up to an integer.
LEMMA SumaEntera ==
  ASSUME NEW f, NEW S, IsFiniteSet(S), \A x \in S : f[x] \in Int
  PROVE  Suma(f, S) \in Int
<1> DEFINE W == {B \in SUBSET S : Suma(f, B) \notin Int}
<1>1. SUFFICES ASSUME W # {} PROVE FALSE
  OBVIOUS
<1>2. PICK B \in W : \A C \in W : C \subseteq B => C = B
  <2>1. W \in SUBSET SUBSET S
    OBVIOUS
  <2> HIDE DEF W
  <2> QED
    BY <1>1, <2>1, MinimoDeSubconjuntos
<1> DEFINE e == Elegido(B)
<1>3. B # {}
  BY <1>2, SumaVacia
<1>4. e \in B /\ IsFiniteSet(B)
  BY <1>2, <1>3, ElegidoEsta, FS_Subset
<1>5. Suma(f, B) = f[e] + Suma(f, B \ {e})
  BY <1>3, <1>4, SumaPaso
<1>6. Suma(f, B \ {e}) \in Int
  BY <1>2, <1>4
<1> QED
  BY <1>2, <1>4, <1>5, <1>6

\* Any element may be taken first.
LEMMA SumaSin ==
  ASSUME NEW f, NEW S, IsFiniteSet(S), \A x \in S : f[x] \in Int, NEW y \in S
  PROVE  Suma(f, S) = f[y] + Suma(f, S \ {y})
<1> DEFINE Bien(B) == \A x \in B : Suma(f, B) = f[x] + Suma(f, B \ {x})
           W == {B \in SUBSET S : ~Bien(B)}
<1>1. SUFFICES ASSUME W # {} PROVE FALSE
  <2>1. S \in SUBSET S
    OBVIOUS
  <2> QED
    BY <2>1
<1>2. PICK B \in W : \A C \in W : C \subseteq B => C = B
  <2>1. W \in SUBSET SUBSET S
    OBVIOUS
  <2> HIDE DEF W
  <2> QED
    BY <1>1, <2>1, MinimoDeSubconjuntos
<1>3. PICK x \in B : Suma(f, B) # f[x] + Suma(f, B \ {x})
  BY <1>2
<1>4. \A C \in SUBSET S : IsFiniteSet(C) /\ Suma(f, C) \in Int
  BY FS_Subset, SumaEntera
<1> DEFINE e == Elegido(B)
<1>5. e \in B
  BY <1>3, ElegidoEsta
<1>6. Suma(f, B) = f[e] + Suma(f, B \ {e})
  BY <1>2, <1>3, <1>4, SumaPaso
<1>7. e # x
  BY <1>3, <1>6
<1> DEFINE r == Suma(f, B \ {e, x})
<1>8. Suma(f, B \ {e}) = f[x] + r
  <2>1. B \ {e} \in SUBSET S /\ B \ {e} \subseteq B /\ B \ {e} # B
    BY <1>2, <1>5
  <2>2. Bien(B \ {e})
    BY <1>2, <2>1
  <2>3. (B \ {e}) \ {x} = B \ {e, x} /\ x \in B \ {e}
    BY <1>3, <1>7
  <2> QED
    BY <2>2, <2>3
<1>9. Suma(f, B \ {x}) = f[e] + r
  <2>1. B \ {x} \in SUBSET S /\ B \ {x} \subseteq B /\ B \ {x} # B
    BY <1>2, <1>3
  <2>2. Bien(B \ {x})
    BY <1>2, <2>1
  <2>3. (B \ {x}) \ {e} = B \ {e, x} /\ e \in B \ {x}
    BY <1>5, <1>7
  <2> QED
    BY <2>2, <2>3
<1>10. f[e] \in Int /\ f[x] \in Int /\ r \in Int
  BY <1>2, <1>3, <1>4, <1>5
<1> HIDE DEF e, r
<1> QED
  BY <1>3, <1>6, <1>8, <1>9, <1>10

\* One more element.
LEMMA SumaMas ==
  ASSUME NEW f, NEW S, IsFiniteSet(S), NEW y, y \notin S, \A x \in S \cup {y} : f[x] \in Int
  PROVE  Suma(f, S \cup {y}) = f[y] + Suma(f, S)
<1>1. IsFiniteSet(S \cup {y})
  BY FS_AddElement
<1>2. (S \cup {y}) \ {y} = S
  OBVIOUS
<1> QED
  BY <1>1, <1>2, SumaSin

\* Sets whose elements correspond, with the same values, have the same sum.
LEMMA SumaCorresponde ==
  ASSUME NEW f, NEW h, NEW S, NEW T, IsFiniteSet(S), NEW b \in [S -> T],
         \A x, y \in S : b[x] = b[y] => x = y, \A t \in T : \E x \in S : b[x] = t,
         \A x \in S : f[x] \in Int /\ f[x] = h[b[x]]
  PROVE  Suma(f, S) = Suma(h, T)
<1> DEFINE I(B) == {b[x] : x \in B}
           W == {B \in SUBSET S : Suma(f, B) # Suma(h, I(B))}
<1>1. SUFFICES ASSUME W # {} PROVE FALSE
  <2>1. S \in SUBSET S /\ I(S) = T
    OBVIOUS
  <2> QED
    BY <2>1
<1>2. PICK B \in W : \A C \in W : C \subseteq B => C = B
  <2>1. W \in SUBSET SUBSET S
    OBVIOUS
  <2> HIDE DEF W
  <2> QED
    BY <1>1, <2>1, MinimoDeSubconjuntos
<1>3. B # {}
  <2>1. SUFFICES ASSUME B = {} PROVE FALSE
    OBVIOUS
  <2>2. I(B) = {}
    BY <2>1
  <2>3. Suma(f, B) # Suma(h, I(B))
    BY <1>2
  <2> HIDE DEF I
  <2>4. Suma(f, B) = Suma(f, {}) /\ Suma(h, I(B)) = Suma(h, {})
    BY <2>1, <2>2, Zenon
  <2> QED
    BY <2>3, <2>4, SumaVacia
<1>4. PICK e \in B : TRUE
  BY <1>3
<1>5. IsFiniteSet(B) /\ IsFiniteSet(I(B))
  <2>1. IsFiniteSet(B)
    BY <1>2, FS_Subset
  <2>2. IsFiniteSet(I(B))
    <3> DEFINE c == [x \in B |-> b[x]]
    <3>1. c \in Surjection(B, I(B))
      BY DEF Surjection
    <3> HIDE DEF c, I
    <3> QED
      BY <2>1, <3>1, FS_Surjection
  <2> QED
    BY <2>1, <2>2
<1>6. Suma(f, B) = f[e] + Suma(f, B \ {e})
  BY <1>2, <1>4, <1>5, SumaSin
<1>7. Suma(h, I(B)) = h[b[e]] + Suma(h, I(B) \ {b[e]})
  <2>1. \A t \in I(B) : h[t] \in Int
    BY <1>2
  <2>2. b[e] \in I(B)
    BY <1>4
  <2> QED
    BY <1>5, <2>1, <2>2, SumaSin
<1>8. I(B) \ {b[e]} = I(B \ {e})
  BY <1>2, <1>4
<1>9. Suma(f, B \ {e}) = Suma(h, I(B \ {e}))
  BY <1>2, <1>4
<1> HIDE DEF I
<1> QED
  BY <1>2, <1>4, <1>6, <1>7, <1>8, <1>9

\* The sum depends only on what the function gives to the elements.
LEMMA SumaIgual ==
  ASSUME NEW f, NEW h, NEW S, \A x \in S : f[x] = h[x]
  PROVE  Suma(f, S) = Suma(h, S)
<1>1. ASSUME NEW g
      PROVE  Recorre(g, f, S) <=> Recorre(g, h, S)
  <2> DEFINE a == [r \in SUBSET S |-> IF r = {} THEN 0 ELSE f[Elegido(r)] + g[r \ {Elegido(r)}]]
             b == [r \in SUBSET S |-> IF r = {} THEN 0 ELSE h[Elegido(r)] + g[r \ {Elegido(r)}]]
  <2>1. \A r \in SUBSET S : r # {} => f[Elegido(r)] = h[Elegido(r)]
    BY ElegidoEsta
  <2>2. a = b
    BY <2>1
  <2> QED
    BY <2>2 DEF Recorre
<1>2. (CHOOSE g : Recorre(g, f, S)) = (CHOOSE g : Recorre(g, h, S))
  BY <1>1, Zenon
<1> QED
  BY <1>2, SumaEs

\* A sum of natural numbers is natural, and no less than that of a part.
LEMMA SumaMonotona ==
  ASSUME NEW f, NEW S, IsFiniteSet(S), \A x \in S : f[x] \in Nat, NEW T \in SUBSET S
  PROVE  Suma(f, T) \in Nat /\ Suma(f, S) \in Nat /\ Suma(f, T) <= Suma(f, S)
<1> DEFINE Bien(B) == /\ Suma(f, B \cap T) \in Nat /\ Suma(f, B) \in Nat
                      /\ Suma(f, B \cap T) <= Suma(f, B)
           W == {B \in SUBSET S : ~Bien(B)}
<1>1. SUFFICES ASSUME W # {} PROVE FALSE
  <2>1. S \in SUBSET S /\ S \cap T = T
    OBVIOUS
  <2> QED
    BY <2>1
<1>2. PICK B \in W : \A C \in W : C \subseteq B => C = B
  <2>1. W \in SUBSET SUBSET S
    OBVIOUS
  <2> HIDE DEF W
  <2> QED
    BY <1>1, <2>1, MinimoDeSubconjuntos
<1>3. B # {}
  <2>1. SUFFICES ASSUME B = {} PROVE FALSE
    OBVIOUS
  <2>2. B \cap T = {}
    BY <2>1
  <2>3. Suma(f, B) = 0 /\ Suma(f, B \cap T) = 0
    BY <2>1, <2>2, SumaVacia
  <2>4. ~Bien(B)
    BY <1>2
  <2> QED
    BY <2>3, <2>4
<1>4. PICK e \in B : TRUE
  BY <1>3
<1> DEFINE C == B \ {e}
<1>5. C \in SUBSET S /\ C \subseteq B /\ C # B /\ e \in S
  BY <1>2, <1>4
<1>6. Bien(C)
  BY <1>2, <1>5
<1>7. IsFiniteSet(B) /\ IsFiniteSet(B \cap T) /\ \A x \in B : f[x] \in Int
  BY <1>2, FS_Subset
<1>8. Suma(f, B) = f[e] + Suma(f, C) /\ f[e] \in Nat
  BY <1>4, <1>5, <1>7, SumaSin
<1>9. CASE e \in T
  <2>1. (B \cap T) \ {e} = C \cap T /\ e \in B \cap T
    BY <1>4, <1>9
  <2>2. Suma(f, B \cap T) = f[e] + Suma(f, C \cap T)
    <3>1. \A x \in B \cap T : f[x] \in Int
      BY <1>7
    <3> QED
      BY <1>7, <2>1, <3>1, SumaSin
  <2>3. Bien(B)
    BY <1>6, <1>8, <2>2
  <2> QED
    BY <1>2, <2>3
<1>10. CASE e \notin T
  <2>1. B \cap T = C \cap T
    BY <1>10
  <2>2. Bien(B)
    BY <1>6, <1>8, <2>1
  <2> QED
    BY <1>2, <2>2
<1> QED
  BY <1>9, <1>10

\* What adds nothing may be left out.
LEMMA SumaCeros ==
  ASSUME NEW f, NEW S, IsFiniteSet(S), \A x \in S : f[x] \in Int, NEW T \in SUBSET S,
         \A x \in S \ T : f[x] = 0
  PROVE  Suma(f, S) = Suma(f, T)
<1> DEFINE W == {B \in SUBSET S : T \subseteq B /\ Suma(f, B) = Suma(f, S)}
<1>1. PICK B \in W : \A C \in W : C \subseteq B => C = B
  <2>1. W \in SUBSET SUBSET S /\ S \in W
    OBVIOUS
  <2> HIDE DEF W
  <2> QED
    BY <2>1, MinimoDeSubconjuntos
<1>2. B \in SUBSET S /\ T \subseteq B /\ Suma(f, B) = Suma(f, S)
  OBVIOUS
<1>3. ASSUME NEW e \in B \ T
      PROVE  FALSE
  <2>1. IsFiniteSet(B) /\ \A x \in B : f[x] \in Int
    BY <1>2, FS_Subset
  <2>2. Suma(f, B) = f[e] + Suma(f, B \ {e}) /\ f[e] = 0
    BY <1>2, <2>1, SumaSin
  <2>3. Suma(f, B \ {e}) \in Int
    <3>1. IsFiniteSet(B \ {e}) /\ \A x \in B \ {e} : f[x] \in Int
      BY <2>1, FS_Subset
    <3> QED
      BY <3>1, SumaEntera
  <2>4. Suma(f, B \ {e}) = Suma(f, S)
    BY <1>2, <2>2, <2>3
  <2>5. B \ {e} \in W /\ B \ {e} \subseteq B /\ B \ {e} # B
    BY <1>2, <2>4
  <2> QED
    BY <1>1, <2>5
<1>4. B = T
  BY <1>2, <1>3
<1> QED
  BY <1>2, <1>4

\* The cardinality of a part.
LEMMA CardinalMonotono ==
  ASSUME NEW S, IsFiniteSet(S), NEW T \in SUBSET S
  PROVE  /\ IsFiniteSet(T) /\ Cardinality(T) \in Nat /\ Cardinality(S) \in Nat
         /\ Cardinality(T) <= Cardinality(S)
BY FS_Subset, FS_CardinalityType
=================================================================================
