---------------------------- MODULE SumasProofs -----------------------------
(***************************************************************************)
(* Sums over finite sets: what MapThenSumSet of the library computes.       *)
(* Induction is by a minimal counterexample, a set among sets or a number.  *)
(***************************************************************************)
EXTENDS Integers, FiniteSetsExt, FiniteSetTheorems, WellFoundedInduction, TLAPS

LEMMA MinimoNatural ==
    ASSUME NEW T \in SUBSET Nat, T # {}
    PROVE  \E m \in T : \A n \in T : m <= n
<1>1. IsWellFoundedOn(OpToRel(<, Nat), Nat)
  BY NatLessThanWellFounded
<1>2. PICK m \in T : \A n \in T : <<n, m>> \notin OpToRel(<, Nat)
  BY <1>1, WFMin
<1>3. ASSUME NEW n \in T, n < m PROVE FALSE
  <2>1. <<n, m>> \in OpToRel(<, Nat)
    BY <1>3 DEF OpToRel
  <2> QED BY <1>2, <2>1
<1> QED BY <1>3

LEMMA MinimoSubconjunto ==
    ASSUME NEW S, IsFiniteSet(S), NEW T \in SUBSET SUBSET S, T # {}
    PROVE  \E m \in T : \A n \in T : n \subseteq m => n = m
<1>1. IsWellFoundedOn(StrictSubsetOrdering(S), SUBSET S)
  BY FS_StrictSubsetOrderingWellFounded, FS_FiniteSubsetsOfFinite
<1>2. PICK m \in T : \A n \in T : <<n, m>> \notin StrictSubsetOrdering(S)
  BY <1>1, WFMin
<1> QED BY <1>2 DEF StrictSubsetOrdering

-----------------------------------------------------------------------------
Elige(s) == CHOOSE x \in s : TRUE

\* The sum over s, from the sums over smaller sets that g gives.
SumaCon(g, f, s) == IF s = {} THEN 0 ELSE f[Elige(s)] + g[s \ {Elige(s)}]

\* g adds up the values of f over the subsets of S.
EsSuma(g, f, S) == g = [s \in SUBSET S |-> SumaCon(g, f, s)]

Suma(f, S) == MapThenSumSet(LAMBDA x : f[x], S)

LEMMA SumaDefinida ==
    ASSUME NEW f, NEW S, NEW g0, EsSuma(g0, f, S)
    PROVE  \E g : EsSuma(g, f, S) /\ Suma(f, S) = g[S]
<1> DEFINE g == CHOOSE h : EsSuma(h, f, S)
<1>1. EsSuma(g, f, S)
  OBVIOUS
<1>2. Suma(f, S) = g[S]
  BY DEF Suma, MapThenSumSet, MapThenFoldSet, EsSuma, SumaCon, Elige
<1> QED BY <1>1, <1>2

LEMMA EligeEnConjunto ==
    ASSUME NEW s, s # {}
    PROVE  Elige(s) \in s /\ s \ {Elige(s)} \subseteq s /\ s \ {Elige(s)} # s
BY DEF Elige

\* The function exists: it is known on larger and larger sets.
LEMMA SumaExiste ==
    ASSUME NEW f, NEW S, IsFiniteSet(S)
    PROVE  \E g : EsSuma(g, f, S)
<1> DEFINE Hasta(g, n) == /\ g = [s \in SUBSET S |-> g[s]]
                          /\ \A s \in SUBSET S : Cardinality(s) <= n => g[s] = SumaCon(g, f, s)
           Faltan == {n \in Nat : ~ \E g : Hasta(g, n)}
<1>0. \A s \in SUBSET S : Cardinality(s) \in Nat /\ IsFiniteSet(s)
  BY FS_Subset, FS_CardinalityType
<1>1. Faltan = {}
  <2> SUFFICES ASSUME Faltan # {} PROVE FALSE
    OBVIOUS
  <2>1. PICK m \in Faltan : \A n \in Faltan : m <= n
    BY MinimoNatural, Faltan \in SUBSET Nat
  <2>2. m # 0
    <3> SUFFICES ASSUME m = 0 PROVE FALSE
      OBVIOUS
    <3> DEFINE g == [s \in SUBSET S |-> 0]
    <3>1. \A s \in SUBSET S : Cardinality(s) <= 0 => s = {}
      BY <1>0, FS_EmptySet
    <3>2. Hasta(g, 0)
      BY <3>1 DEF SumaCon
    <3> QED BY <3>2
  <2>3. m - 1 \in Nat /\ m - 1 \notin Faltan
    <3>1. m \in Nat /\ m - 1 \in Nat /\ ~(m <= m - 1)
      BY <2>2
    <3> HIDE DEF Faltan
    <3> QED BY <2>1, <3>1
  <2>4. PICK g : Hasta(g, m - 1)
    BY <2>3
  <2> DEFINE h == [s \in SUBSET S |-> IF Cardinality(s) <= m - 1 THEN g[s] ELSE SumaCon(g, f, s)]
  <2>5. ASSUME NEW s \in SUBSET S, Cardinality(s) <= m
        PROVE  h[s] = SumaCon(h, f, s)
    <3>1. CASE s = {}
      <4>1. Cardinality(s) <= m - 1
        BY <3>1, <2>3, FS_EmptySet
      <4> QED BY <2>4, <3>1, <4>1 DEF SumaCon
    <3>2. CASE s # {}
      <4> DEFINE r == s \ {Elige(s)}
      <4>1. r \in SUBSET S /\ Cardinality(r) = Cardinality(s) - 1
        BY <1>0, <3>2, EligeEnConjunto, FS_RemoveElement
      <4>2. Cardinality(r) <= m - 1
        BY <1>0, <2>5, <2>3, <4>1
      <4>3. h[r] = g[r]
        BY <4>1, <4>2
      <4>4. SumaCon(h, f, s) = SumaCon(g, f, s)
        BY <4>3 DEF SumaCon
      <4>5. h[s] = SumaCon(g, f, s)
        BY <2>4
      <4> QED BY <4>4, <4>5
    <3> QED BY <3>1, <3>2
  <2>6. Hasta(h, m)
    BY <2>5
  <2> QED BY <2>1, <2>6
<1>2. Cardinality(S) \in Nat /\ \A s \in SUBSET S : Cardinality(s) <= Cardinality(S)
  BY FS_CardinalityType, FS_Subset
<1>3. PICK g : Hasta(g, Cardinality(S))
  BY <1>1, <1>2
<1>4. \A s \in SUBSET S : g[s] = SumaCon(g, f, s)
  BY <1>2, <1>3
<1>5. g = [s \in SUBSET S |-> SumaCon(g, f, s)]
  BY <1>3, <1>4
<1> QED BY <1>5 DEF EsSuma

\* Two such functions agree where both are defined.
LEMMA SumaUnica ==
    ASSUME NEW f, NEW S, IsFiniteSet(S), NEW T \in SUBSET S, NEW g, NEW h,
           EsSuma(g, f, S), EsSuma(h, f, T)
    PROVE  \A s \in SUBSET T : g[s] = h[s]
<1> DEFINE Malos == {s \in SUBSET T : g[s] # h[s]}
<1> SUFFICES ASSUME Malos # {} PROVE FALSE
  OBVIOUS
<1>1. PICK m \in Malos : \A n \in Malos : n \subseteq m => n = m
  <2>1. Malos \in SUBSET SUBSET T /\ IsFiniteSet(T)
    BY FS_Subset
  <2> HIDE DEF Malos
  <2> QED BY <2>1, MinimoSubconjunto
<1>2. g[m] = SumaCon(g, f, m) /\ h[m] = SumaCon(h, f, m)
  BY DEF EsSuma
<1>3. CASE m = {}
  BY <1>2, <1>3 DEF SumaCon
<1>4. CASE m # {}
  <2>1. g[m \ {Elige(m)}] = h[m \ {Elige(m)}]
    BY <1>1, <1>4, EligeEnConjunto
  <2> QED BY <1>2, <1>4, <2>1 DEF SumaCon
<1> QED BY <1>3, <1>4

LEMMA SumaPaso ==
    ASSUME NEW f, NEW S, IsFiniteSet(S)
    PROVE  Suma(f, S) = IF S = {} THEN 0 ELSE f[Elige(S)] + Suma(f, S \ {Elige(S)})
<1>1. PICK g : EsSuma(g, f, S) /\ Suma(f, S) = g[S]
  BY SumaExiste, SumaDefinida
<1>2. g[S] = SumaCon(g, f, S)
  BY <1>1 DEF EsSuma
<1>3. CASE S = {}
  BY <1>1, <1>2, <1>3 DEF SumaCon
<1>4. CASE S # {}
  <2> DEFINE T == S \ {Elige(S)}
  <2>1. T \in SUBSET S /\ IsFiniteSet(T)
    BY FS_RemoveElement
  <2>2. PICK h : EsSuma(h, f, T) /\ Suma(f, T) = h[T]
    BY <2>1, SumaExiste, SumaDefinida
  <2>3. g[T] = h[T]
    BY <1>1, <2>1, <2>2, SumaUnica
  <2> QED BY <1>1, <1>2, <1>4, <2>2, <2>3 DEF SumaCon
<1> QED BY <1>3, <1>4

LEMMA SumaTipo ==
    ASSUME NEW D, NEW f \in [D -> Nat], NEW S \in SUBSET D, IsFiniteSet(S)
    PROVE  Suma(f, S) \in Nat
<1> DEFINE Malos == {s \in SUBSET S : Suma(f, s) \notin Nat}
<1> SUFFICES ASSUME Malos # {} PROVE FALSE
  OBVIOUS
<1>1. PICK m \in Malos : \A n \in Malos : n \subseteq m => n = m
  <2>1. Malos \in SUBSET SUBSET S
    OBVIOUS
  <2> HIDE DEF Malos
  <2> QED BY <2>1, MinimoSubconjunto
<1>2. IsFiniteSet(m)
  BY FS_Subset
<1>3. CASE m = {}
  <2>1. Suma(f, m) = 0
    BY <1>2, <1>3, SumaPaso
  <2> QED BY <2>1
<1>4. CASE m # {}
  <2>1. Suma(f, m \ {Elige(m)}) \in Nat /\ f[Elige(m)] \in Nat
    BY <1>1, <1>4, EligeEnConjunto
  <2> QED BY <1>2, <1>4, <2>1, SumaPaso
<1> QED BY <1>3, <1>4

\* Whichever element is taken out.
LEMMA SumaSin ==
    ASSUME NEW D, NEW f \in [D -> Nat], NEW S \in SUBSET D, IsFiniteSet(S), NEW x \in S
    PROVE  Suma(f, S) = f[x] + Suma(f, S \ {x})
<1> DEFINE Malos == {s \in SUBSET S : \E y \in s : Suma(f, s) # f[y] + Suma(f, s \ {y})}
<1> SUFFICES ASSUME Malos # {} PROVE FALSE
  OBVIOUS
<1>1. PICK m \in Malos : \A n \in Malos : n \subseteq m => n = m
  <2>1. Malos \in SUBSET SUBSET S
    OBVIOUS
  <2> HIDE DEF Malos
  <2> QED BY <2>1, MinimoSubconjunto
<1>2. PICK y \in m : Suma(f, m) # f[y] + Suma(f, m \ {y})
  OBVIOUS
<1> DEFINE c == Elige(m)
<1>3. c \in m /\ Suma(f, m) = f[c] + Suma(f, m \ {c}) /\ IsFiniteSet(m)
  BY <1>2, FS_Subset, SumaPaso, EligeEnConjunto
<1>4. y # c
  BY <1>2, <1>3
<1>5. \A z \in m : m \ {z} \notin Malos /\ m \ {z} \in SUBSET S
  BY <1>1
<1>6. Suma(f, m \ {c}) = f[y] + Suma(f, (m \ {c}) \ {y})
  BY <1>2, <1>3, <1>4, <1>5
<1>7. Suma(f, m \ {y}) = f[c] + Suma(f, (m \ {y}) \ {c})
  BY <1>2, <1>3, <1>4, <1>5
<1>8. (m \ {c}) \ {y} = (m \ {y}) \ {c}
  OBVIOUS
<1>9. f[y] \in Nat /\ f[c] \in Nat /\ Suma(f, (m \ {c}) \ {y}) \in Nat
  BY <1>3, SumaTipo, FS_Subset
<1>10. Suma(f, m) = f[y] + Suma(f, m \ {y})
  <2>1. Suma(f, m \ {y}) = f[c] + Suma(f, (m \ {c}) \ {y})
    BY <1>7, <1>8
  <2>2. Suma(f, m) = f[c] + (f[y] + Suma(f, (m \ {c}) \ {y}))
    BY <1>3, <1>6
  <2>3. \A u, v, w \in Nat : u + (v + w) = v + (u + w)
    OBVIOUS
  <2> HIDE DEF c
  <2> QED BY <1>9, <2>1, <2>2, <2>3
<1> QED BY <1>2, <1>10

LEMMA SumaAgrega ==
    ASSUME NEW D, NEW f \in [D -> Nat], NEW S \in SUBSET D, IsFiniteSet(S), NEW x \in D, x \notin S
    PROVE  Suma(f, S \cup {x}) = f[x] + Suma(f, S)
<1>1. (S \cup {x}) \ {x} = S /\ IsFiniteSet(S \cup {x})
  BY FS_AddElement
<1> QED BY <1>1, SumaSin

LEMMA SumaVacia == ASSUME NEW f PROVE Suma(f, {}) = 0
BY SumaPaso, FS_EmptySet

\* The sum does not decrease with the set.
LEMMA SumaCrece ==
    ASSUME NEW D, NEW f \in [D -> Nat], NEW S \in SUBSET D, IsFiniteSet(S), NEW T \in SUBSET S
    PROVE  Suma(f, T) <= Suma(f, S)
<1> DEFINE Malos == {r \in SUBSET S : T \subseteq r /\ ~(Suma(f, T) <= Suma(f, r))}
<1> SUFFICES ASSUME Malos # {} PROVE FALSE
  OBVIOUS
<1>1. PICK m \in Malos : \A n \in Malos : n \subseteq m => n = m
  <2>1. Malos \in SUBSET SUBSET S
    OBVIOUS
  <2> HIDE DEF Malos
  <2> QED BY <2>1, MinimoSubconjunto
<1>2. IsFiniteSet(m) /\ IsFiniteSet(T)
  BY FS_Subset
<1>3. Suma(f, m) \in Nat /\ Suma(f, T) \in Nat
  BY <1>2, SumaTipo
<1>4. PICK x \in m : x \notin T
  BY <1>3
<1>5. m \ {x} \notin Malos
  BY <1>1
<1>6. Suma(f, T) <= Suma(f, m \ {x})
  BY <1>4, <1>5
<1>7. Suma(f, m) = f[x] + Suma(f, m \ {x}) /\ f[x] \in Nat /\ Suma(f, m \ {x}) \in Nat
  BY <1>2, SumaSin, SumaTipo, FS_Subset
<1> QED BY <1>3, <1>6, <1>7

\* A sum of smaller terms over fewer elements, but for some that are zero.
LEMMA SumaDomina ==
    ASSUME NEW D, NEW f \in [D -> Nat], NEW g \in [D -> Nat],
           NEW S \in SUBSET D, IsFiniteSet(S), NEW U \in SUBSET D, IsFiniteSet(U),
           \A x \in S : f[x] = 0 \/ (x \in U /\ f[x] <= g[x])
    PROVE  Suma(f, S) <= Suma(g, U)
<1> DEFINE Malos == {r \in SUBSET S : ~(Suma(f, r) <= Suma(g, r \cap U))}
<1>1. Malos = {}
  <2> SUFFICES ASSUME Malos # {} PROVE FALSE
    OBVIOUS
  <2>1. PICK m \in Malos : \A n \in Malos : n \subseteq m => n = m
    <3>1. Malos \in SUBSET SUBSET S
      OBVIOUS
    <3> HIDE DEF Malos
    <3> QED BY <3>1, MinimoSubconjunto
  <2>2. IsFiniteSet(m) /\ IsFiniteSet(m \cap U)
    BY FS_Subset
  <2>3. m # {}
    BY SumaVacia
  <2>4. PICK x \in m : TRUE
    BY <2>3
  <2>5. m \ {x} \in SUBSET S /\ m \ {x} \notin Malos /\ IsFiniteSet(m \ {x})
    BY <2>1, <2>2, FS_RemoveElement
  <2>6. Suma(f, m \ {x}) <= Suma(g, (m \ {x}) \cap U)
    BY <2>5
  <2>7. Suma(f, m) = f[x] + Suma(f, m \ {x}) /\ f[x] \in Nat /\ Suma(f, m \ {x}) \in Nat
    BY <2>2, <2>5, SumaSin, SumaTipo
  <2>8. Suma(g, (m \ {x}) \cap U) \in Nat /\ g[x] \in Nat
    BY <2>2, FS_Subset, SumaTipo
  <2>9. CASE x \in U
    <3>1. (m \cap U) \ {x} = (m \ {x}) \cap U
      OBVIOUS
    <3>2. Suma(g, m \cap U) = g[x] + Suma(g, (m \ {x}) \cap U)
      BY <2>2, <2>9, <3>1, SumaSin
    <3>3. f[x] <= g[x]
      BY <2>8, <2>9
    <3> QED BY <2>6, <2>7, <2>8, <3>2, <3>3
  <2>10. CASE x \notin U
    <3>1. (m \ {x}) \cap U = m \cap U /\ f[x] = 0
      BY <2>10
    <3>2. Suma(f, m) = Suma(f, m \ {x}) /\ Suma(f, m \ {x}) <= Suma(g, m \cap U)
      <4>1. Suma(f, m) = Suma(f, m \ {x})
        BY <2>7, <3>1
      <4>2. Suma(f, m \ {x}) <= Suma(g, m \cap U)
        BY <2>6, <3>1
      <4> QED BY <4>1, <4>2
    <3>3. m \in Malos
      BY <2>1
    <3> QED BY <3>2, <3>3
  <2> QED BY <2>9, <2>10
<1>2. Suma(f, S) <= Suma(g, S \cap U)
  BY <1>1
<1>3. IsFiniteSet(S \cap U) /\ Suma(g, S \cap U) <= Suma(g, U)
  BY FS_Subset, SumaCrece
<1>4. Suma(f, S) \in Nat /\ Suma(g, S \cap U) \in Nat /\ Suma(g, U) \in Nat
  BY <1>3, SumaTipo
<1> QED BY <1>2, <1>3, <1>4

\* One term changes.
LEMMA SumaCambia ==
    ASSUME NEW D, IsFiniteSet(D), NEW f \in [D -> Nat], NEW g \in [D -> Nat], NEW x \in D,
           \A y \in D : y # x => g[y] = f[y]
    PROVE  Suma(g, D) + f[x] = Suma(f, D) + g[x]
<1>1. Suma(f, D) = f[x] + Suma(f, D \ {x}) /\ Suma(g, D) = g[x] + Suma(g, D \ {x})
  BY SumaSin
<1>2. IsFiniteSet(D \ {x})
  BY FS_RemoveElement
<1>3. Suma(f, D \ {x}) \in Nat /\ Suma(g, D \ {x}) \in Nat /\ f[x] \in Nat /\ g[x] \in Nat
  BY <1>2, SumaTipo
<1>4. \A y \in D \ {x} : f[y] = g[y] /\ f[y] \in Nat
  OBVIOUS
<1>5. Suma(f, D \ {x}) <= Suma(g, D \ {x})
  BY <1>2, <1>4, SumaDomina
<1>6. Suma(g, D \ {x}) <= Suma(f, D \ {x})
  BY <1>2, <1>4, SumaDomina
<1> QED BY <1>1, <1>3, <1>5, <1>6

=============================================================================
