----------------------------- MODULE TlbProofs -----------------------------
(***************************************************************************)
(* Machine-checked proofs about Tlb and Traduccion, for any number of        *)
(* entries, pages, frames and processes: no page has two entries, LRU never  *)
(* has a tie to settle, the TLB is a bounded queue, follows the table of the  *)
(* running process, and a table is walked as it was built.                   *)
(***************************************************************************)
EXTENDS Traduccion, TlbReemplazo, SequenceTheorems, FiniteSetTheorems, WellFoundedInduction, TLAPS

Entrada == [numPag : NrosPagina \cup {-1}, numMarco : NrosMarco \cup {-1}, tiempo : Int]

\* What is in use has a frame, so that a page that is found is a hit.
ConMarco == \A i \in Entradas : EnUso(i) => listaTlb[i].numMarco # -1

\* An entry in use was used now or before: its counter is never behind 0, where
\* the entry that is used next goes.
Contadores == \A i \in Entradas : EnUso(i) => listaTlb[i].tiempo >= 0

IInv == TlbTypeOK /\ SinRepetidas /\ ConMarco /\ Contadores /\ ContadoresDistintos

-----------------------------------------------------------------------------
(* Least and greatest elements.                                            *)

LEMMA MenorNatural ==
    ASSUME NEW S, S \subseteq Nat, S # {}
    PROVE  \E m \in S : \A n \in S : m <= n
<1>1. IsWellFoundedOn(OpToRel(<, Nat), Nat)
  BY NatLessThanWellFounded
<1>2. PICK m \in S : \A n \in S : <<n, m>> \notin OpToRel(<, Nat)
  BY <1>1, WFMin
<1>3. \A n \in S : m <= n
  <2> SUFFICES ASSUME NEW n \in S, n < m PROVE FALSE
    OBVIOUS
  <2>1. <<n, m>> \in OpToRel(<, Nat)
    BY DEF OpToRel
  <2> QED BY <1>2, <2>1
<1> QED BY <1>3

\* A table of integers has a greatest one: otherwise take the shortest prefix
\* without it.
LEMMA MayorDeUnaTabla ==
    ASSUME NEW N \in Nat \ {0}, NEW t \in [1 .. N -> Int]
    PROVE  \E i \in 1 .. N : \A j \in 1 .. N : t[j] <= t[i]
<1> DEFINE ConMayor(n) == \E i \in 1 .. n : \A j \in 1 .. n : t[j] <= t[i]
           Sin == {n \in 1 .. N : ~ConMayor(n)}
<1> SUFFICES ASSUME ~ConMayor(N) PROVE FALSE
  OBVIOUS
<1> HIDE DEF ConMayor
<1>1. Sin # {}
  BY N \in 1 .. N
<1> USE DEF ConMayor
<1>2. PICK m \in Sin : \A n \in Sin : m <= n
  <2>1. Sin \subseteq Nat
    OBVIOUS
  <2> HIDE DEF Sin
  <2> QED BY <1>1, <2>1, MenorNatural
<1>3. CASE m = 1
  <2>1. t[1] <= t[1]
    OBVIOUS
  <2>2. ConMayor(1)
    BY <2>1
  <2> QED BY <1>2, <1>3, <2>2
<1>4. CASE m # 1
  <2>1. m \in 1 .. N /\ m - 1 \in 1 .. N /\ ~ConMayor(m)
    BY <1>2, <1>4
  <2>2. ConMayor(m - 1)
    <3>1. ~(m <= m - 1)
      BY <2>1
    <3>2. m - 1 \notin Sin
      <4> HIDE DEF Sin
      <4> QED BY <1>2, <3>1
    <3> QED BY <2>1, <3>2
  <2>3. PICK i \in 1 .. m - 1 : \A j \in 1 .. m - 1 : t[j] <= t[i]
    BY <2>2
  <2>4. /\ 1 .. m - 1 \subseteq 1 .. N
        /\ \A j \in 1 .. m : j = m \/ j \in 1 .. m - 1
        /\ m \in 1 .. m /\ i \in 1 .. m
    <3>1. m \in 1 .. N /\ i \in 1 .. m - 1 /\ N \in Nat
      BY <2>1
    <3> HIDE DEF ConMayor, Sin
    <3>2. m \in Nat /\ m >= 1 /\ m <= N
      BY <3>1
    <3> QED BY <3>1, <3>2
  <2>5. t[i] \in Int /\ t[m] \in Int /\ \A j \in 1 .. m - 1 : t[j] \in Int
    BY <2>1, <2>4
  <2>6. CASE t[m] <= t[i]
    <3>1. ASSUME NEW j \in 1 .. m PROVE t[j] <= t[i]
      BY <2>3, <2>4, <2>6
    <3> QED BY <2>1, <2>4, <3>1
  <2>7. CASE t[i] < t[m]
    <3>1. ASSUME NEW j \in 1 .. m PROVE t[j] <= t[m]
      <4>1. CASE j = m
        BY <2>5, <4>1
      <4>2. CASE j \in 1 .. m - 1
        <5>1. t[j] \in Int /\ t[j] <= t[i]
          BY <2>3, <2>5, <4>2
        <5>2. \A x, y, z \in Int : x <= y /\ y < z => x <= z
          OBVIOUS
        <5> QED BY <2>5, <2>7, <5>1, <5>2
      <4> QED BY <2>4, <4>1, <4>2
    <3> QED BY <2>1, <2>4, <3>1
  <2> QED BY <2>5, <2>6, <2>7
<1> QED BY <1>3, <1>4

-----------------------------------------------------------------------------
(* Facts about the ring.                                                   *)

LEMMA Anillo == Entradas \subseteq Nat /\ 1 \in Entradas /\ ENTRADAS_TLB \in Nat \ {0}
  BY TlbAssumption DEF Entradas

\* Of the entries with the highest counter there is a first one.
LEMMA PrimeraDeLasViejas ==
    ASSUME NEW tlb \in [Entradas -> Entrada]
    PROVE  \E i \in Entradas : /\ \A j \in Entradas : tlb[j].tiempo <= tlb[i].tiempo
                               /\ \A j \in 1 .. i - 1 : tlb[j].tiempo < tlb[i].tiempo
<1> DEFINE t == [i \in 1 .. ENTRADAS_TLB |-> tlb[i].tiempo]
           Mayores == {i \in Entradas : \A j \in Entradas : tlb[j].tiempo <= tlb[i].tiempo}
<1>1. t \in [1 .. ENTRADAS_TLB -> Int]
  BY DEF Entradas, Entrada
<1>2. \E i \in 1 .. ENTRADAS_TLB : \A j \in 1 .. ENTRADAS_TLB : t[j] <= t[i]
  <2> HIDE DEF t
  <2> QED BY <1>1, Anillo, MayorDeUnaTabla
<1>3. Mayores # {} /\ Mayores \subseteq Nat
  BY <1>2, Anillo DEF Entradas
<1>4. PICK i \in Mayores : \A j \in Mayores : i <= j
  <2> HIDE DEF Mayores
  <2> QED BY <1>3, MenorNatural
<1>5. \A j \in 1 .. i - 1 : tlb[j].tiempo < tlb[i].tiempo
  <2> SUFFICES ASSUME NEW j \in 1 .. i - 1 PROVE tlb[j].tiempo < tlb[i].tiempo
    OBVIOUS
  <2>1. j \in Entradas /\ j \notin Mayores /\ i \in Entradas
    BY <1>4, Anillo DEF Entradas
  <2>2. tlb[j].tiempo \in Int /\ tlb[i].tiempo \in Int /\ tlb[j].tiempo <= tlb[i].tiempo
    BY <1>4, <2>1 DEF Entrada
  <2>3. tlb[j].tiempo # tlb[i].tiempo
    <3> SUFFICES ASSUME tlb[j].tiempo = tlb[i].tiempo PROVE FALSE
      OBVIOUS
    <3>1. \A k \in Entradas : tlb[k].tiempo <= tlb[j].tiempo
      BY <1>4
    <3> QED BY <2>1, <3>1
  <2> QED BY <2>2, <2>3
<1>6. i \in Entradas /\ \A j \in Entradas : tlb[j].tiempo <= tlb[i].tiempo
  BY <1>4
<1> QED BY <1>5, <1>6

\* The entry LRU replaces is one of the ring.
LEMMA ElegidaExiste ==
    ASSUME NEW tlb \in [Entradas -> Entrada]
    PROVE  ElegidaLru(tlb) \in Entradas
<1>1. CASE Libres(tlb) # {}
  <2>1. Libres(tlb) \subseteq Nat /\ Libres(tlb) \subseteq Entradas
    BY Anillo DEF Libres
  <2>2. \E m \in Libres(tlb) : \A n \in Libres(tlb) : m <= n
    BY <1>1, <2>1, MenorNatural
  <2>3. Min(Libres(tlb)) \in Libres(tlb)
    BY <2>2 DEF Min
  <2> QED BY <1>1, <2>1, <2>3 DEF ElegidaLru
<1>2. CASE Libres(tlb) = {}
  BY <1>2, PrimeraDeLasViejas DEF ElegidaLru, MenosReferenciada
<1> QED BY <1>1, <1>2

LEMMA ModificarTipos ==
    ASSUME NEW tlb \in [Entradas -> Entrada], NEW pag \in NrosPagina
    PROVE  ModificarReferencia(tlb, pag) \in [Entradas -> Entrada]
<1> SUFFICES ASSUME NEW i \in Entradas
             PROVE  [tlb[i] EXCEPT !.tiempo = IF tlb[i].numPag = pag THEN 0 ELSE @ + 1] \in Entrada
  BY DEF ModificarReferencia
<1>1. tlb[i] \in Entrada
  OBVIOUS
<1>2. CASE tlb[i].numPag = pag
  BY <1>1, <1>2 DEF Entrada
<1>3. CASE tlb[i].numPag # pag
  BY <1>1, <1>3 DEF Entrada
<1> QED BY <1>2, <1>3

\* With no repeated page, the only entry of a page is the one the search finds.
LEMMA BuscarEncuentra ==
    ASSUME IInv, NEW pag \in NrosPagina
    PROVE  /\ BuscarTlb(pag) = -1 => ~Esta(listaTlb, pag)
           /\ BuscarTlb(pag) # -1 => Esta(listaTlb, pag)
<1>1. pag # -1
  BY TlbAssumption
<1>2. ASSUME Esta(listaTlb, pag) PROVE BuscarTlb(pag) # -1
  <2>1. PICK i \in Entradas : listaTlb[i].numPag = pag
    BY <1>2 DEF Esta
  <2>2. \A j \in 1 .. i - 1 : listaTlb[j].numPag # pag
    <3> SUFFICES ASSUME NEW j \in 1 .. i - 1, listaTlb[j].numPag = pag PROVE FALSE
      OBVIOUS
    <3>1. j \in Entradas /\ j # i
      BY <2>1, Anillo DEF Entradas
    <3> QED BY <1>1, <2>1, <3>1 DEF IInv, SinRepetidas, EnUso
  <2>3. Encontrada(pag) \in Entradas /\ listaTlb[Encontrada(pag)].numPag = pag
    BY <2>1, <2>2 DEF Encontrada
  <2> QED BY <1>1, <1>2, <2>3 DEF BuscarTlb, IInv, ConMarco, EnUso
<1> QED BY <1>2 DEF BuscarTlb

-----------------------------------------------------------------------------
(* The steps.                                                              *)

LEMMA IniciaInvariante == TlbInit => IInv
  BY TlbAssumption, Anillo
     DEF TlbInit, IInv, TlbTypeOK, SinRepetidas, ConMarco, Contadores, ContadoresDistintos, EnUso, Vacia, Entradas

\* A hit: the entry of the page goes to 0, and every other one is at least at 1.
LEMMA AciertoConserva ==
    ASSUME IInv, NEW pag \in NrosPagina, Acierto(pag)
    PROVE  IInv'
<1>1. /\ listaTlb \in [Entradas -> Entrada]
      /\ listaTlb' = ModificarReferencia(listaTlb, pag)
      /\ reemplazo' = reemplazo /\ punterosPos' = punterosPos
  BY BuscarEncuentra DEF IInv, TlbTypeOK, Acierto, TrasBuscar, Entrada
<1>2. listaTlb' \in [Entradas -> Entrada]
  BY <1>1, ModificarTipos
<1>3. \A i \in Entradas :
        /\ listaTlb'[i].numPag = listaTlb[i].numPag
        /\ listaTlb'[i].numMarco = listaTlb[i].numMarco
        /\ listaTlb'[i].tiempo = IF listaTlb[i].numPag = pag THEN 0 ELSE listaTlb[i].tiempo + 1
        /\ listaTlb[i].tiempo \in Int
  BY <1>1 DEF ModificarReferencia, Entrada
<1>4. TlbTypeOK'
  BY <1>1, <1>2 DEF IInv, TlbTypeOK, Entrada
<1>5. SinRepetidas' /\ ConMarco'
  BY <1>3 DEF IInv, SinRepetidas, ConMarco, EnUso
<1>6. Contadores'
  BY <1>3 DEF IInv, Contadores, EnUso
<1>7. ContadoresDistintos'
  <2> SUFFICES ASSUME reemplazo = "LRU", NEW i \in Entradas, NEW j \in Entradas,
                      i # j, EnUso(i)', EnUso(j)'
               PROVE  listaTlb'[i].tiempo # listaTlb'[j].tiempo
    BY <1>1 DEF ContadoresDistintos
  <2>1. EnUso(i) /\ EnUso(j)
    BY <1>3 DEF EnUso
  <2>2. listaTlb[i].numPag # listaTlb[j].numPag
    BY <2>1 DEF IInv, SinRepetidas
  <2>3. listaTlb[i].tiempo >= 0 /\ listaTlb[j].tiempo >= 0 /\ listaTlb[i].tiempo # listaTlb[j].tiempo
    BY <2>1 DEF IInv, Contadores, ContadoresDistintos
  <2> QED BY <1>3, <2>2, <2>3
<1> QED BY <1>4, <1>5, <1>6, <1>7 DEF IInv

\* Whatever entry a page that was not there goes to, no page is repeated.
LEMMA ColocarConserva ==
    ASSUME IInv, NEW pag \in NrosPagina, NEW marco \in NrosMarco, ~Esta(listaTlb, pag),
           NEW k \in Entradas, NEW tlb \in [Entradas -> Entrada],
           \A i \in Entradas : IF i = k THEN tlb[i].numPag = pag /\ tlb[i].numMarco = marco /\ tlb[i].tiempo = 0
                               ELSE /\ tlb[i].numPag = listaTlb[i].numPag
                                    /\ tlb[i].numMarco = listaTlb[i].numMarco
                                    /\ tlb[i].tiempo >= listaTlb[i].tiempo
    PROVE  /\ \A i, j \in Entradas : tlb[i].numPag # -1 /\ tlb[i].numPag = tlb[j].numPag => i = j
           /\ \A i \in Entradas : tlb[i].numPag # -1 => tlb[i].numMarco # -1 /\ tlb[i].tiempo >= 0
<1>1. \A i \in Entradas : listaTlb[i].numPag # pag
  BY DEF Esta
<1>2. marco # -1
  BY TlbAssumption
<1>3. ASSUME NEW i \in Entradas, NEW j \in Entradas, tlb[i].numPag # -1, tlb[i].numPag = tlb[j].numPag
      PROVE  i = j
  <2>1. CASE i = k \/ j = k
    BY <1>1, <1>3, <2>1
  <2>2. CASE i # k /\ j # k
    BY <1>3, <2>2 DEF IInv, SinRepetidas, EnUso
  <2> QED BY <2>1, <2>2
<1>4. ASSUME NEW i \in Entradas, tlb[i].numPag # -1
      PROVE  tlb[i].numMarco # -1 /\ tlb[i].tiempo >= 0
  <2>1. CASE i = k
    BY <1>2, <2>1
  <2>2. CASE i # k
    <3>1. EnUso(i)
      BY <1>4, <2>2 DEF EnUso
    <3>2. listaTlb[i].tiempo >= 0 /\ listaTlb[i].numMarco # -1
      BY <3>1 DEF IInv, Contadores, ConMarco
    <3>3. tlb[i].tiempo \in Int /\ listaTlb[i].tiempo \in Int
      BY DEF IInv, TlbTypeOK, Entrada
    <3> QED BY <2>2, <3>2, <3>3
  <2> QED BY <2>1, <2>2
<1> QED BY <1>3, <1>4

\* A load under FIFO.
LEMMA FifoConserva ==
    ASSUME IInv, NEW pag \in NrosPagina, NEW marco \in NrosMarco, ~Esta(listaTlb, pag),
           reemplazo = "FIFO", reemplazo' = reemplazo,
           listaTlb' = Colocar(listaTlb, punterosPos, pag, marco),
           punterosPos' = SiguienteEntrada(punterosPos)
    PROVE  IInv'
<1>1. listaTlb \in [Entradas -> Entrada] /\ punterosPos \in Entradas
  BY DEF IInv, TlbTypeOK, Entrada
<1>2. listaTlb' \in [Entradas -> Entrada]
  BY <1>1 DEF Colocar, Entrada
<1>3. \A i \in Entradas :
        IF i = punterosPos THEN listaTlb'[i].numPag = pag /\ listaTlb'[i].numMarco = marco /\ listaTlb'[i].tiempo = 0
        ELSE /\ listaTlb'[i].numPag = listaTlb[i].numPag
             /\ listaTlb'[i].numMarco = listaTlb[i].numMarco
             /\ listaTlb'[i].tiempo >= listaTlb[i].tiempo
  BY <1>1 DEF Colocar, Entrada
<1>4. TlbTypeOK'
  <2>1. punterosPos' \in Entradas
    BY <1>1, Anillo DEF SiguienteEntrada, Entradas
  <2> QED BY <1>2, <2>1 DEF IInv, TlbTypeOK, Entrada
<1>5. /\ \A i, j \in Entradas : listaTlb'[i].numPag # -1 /\ listaTlb'[i].numPag = listaTlb'[j].numPag => i = j
      /\ \A i \in Entradas : listaTlb'[i].numPag # -1 => listaTlb'[i].numMarco # -1 /\ listaTlb'[i].tiempo >= 0
  BY <1>1, <1>2, <1>3, ColocarConserva
<1> QED BY <1>4, <1>5 DEF IInv, SinRepetidas, ConMarco, Contadores, ContadoresDistintos, EnUso

\* What a load under LRU leaves: the entry of the page at 0, the others in use grow by 2.
LEMMA LruDeja ==
    ASSUME IInv, NEW pag \in NrosPagina, NEW marco \in NrosMarco, ~Esta(listaTlb, pag),
           listaTlb' = ConLru(listaTlb, pag, marco), NEW k, k = ElegidaLru(listaTlb)
    PROVE  /\ k \in Entradas /\ listaTlb' \in [Entradas -> Entrada]
           /\ listaTlb'[k].numPag = pag /\ listaTlb'[k].numMarco = marco /\ listaTlb'[k].tiempo = 0
           /\ \A i \in Entradas \ {k} :
                /\ listaTlb'[i].numPag = listaTlb[i].numPag
                /\ listaTlb'[i].numMarco = listaTlb[i].numMarco
                /\ listaTlb'[i].tiempo = listaTlb[i].tiempo + (IF listaTlb[i].numPag = -1 THEN 1 ELSE 2)
                /\ listaTlb[i].tiempo \in Int
<1>1. listaTlb \in [Entradas -> Entrada] /\ k \in Entradas /\ pag # -1
  BY ElegidaExiste, TlbAssumption DEF IInv, TlbTypeOK, Entrada
<1> DEFINE a == Colocar(listaTlb, k, pag, marco)
           b == ActualizarContadores(a, pag)
<1>2. a \in [Entradas -> Entrada] /\ a[k] = [numPag |-> pag, numMarco |-> marco, tiempo |-> 0]
      /\ \A i \in Entradas \ {k} : a[i] = listaTlb[i]
  BY <1>1 DEF Colocar, Entrada
<1>3. \A i \in Entradas \ {k} : listaTlb[i].numPag # pag
  BY DEF Esta
<1> HIDE DEF a
<1>4. b \in [Entradas -> Entrada] /\ b[k] = a[k]
      /\ \A i \in Entradas \ {k} : /\ b[i].numPag = listaTlb[i].numPag
                                   /\ b[i].numMarco = listaTlb[i].numMarco
                                   /\ b[i].tiempo = IF listaTlb[i].numPag = -1 THEN listaTlb[i].tiempo
                                                    ELSE listaTlb[i].tiempo + 1
  BY <1>1, <1>2, <1>3 DEF ActualizarContadores, Entrada
<1>5. listaTlb' = ModificarReferencia(b, pag)
  BY DEF ConLru, a
<1> HIDE DEF b
<1>6. listaTlb'[k].numPag = pag /\ listaTlb'[k].numMarco = marco /\ listaTlb'[k].tiempo = 0
  BY <1>1, <1>2, <1>4, <1>5 DEF ModificarReferencia, Entrada
<1>7. \A i \in Entradas \ {k} :
        /\ listaTlb'[i].numPag = listaTlb[i].numPag
        /\ listaTlb'[i].numMarco = listaTlb[i].numMarco
        /\ listaTlb'[i].tiempo = listaTlb[i].tiempo + (IF listaTlb[i].numPag = -1 THEN 1 ELSE 2)
        /\ listaTlb[i].tiempo \in Int
  BY <1>1, <1>3, <1>4, <1>5 DEF ModificarReferencia, Entrada
<1>8. listaTlb' \in [Entradas -> Entrada]
  BY <1>4, <1>5 DEF ModificarReferencia, Entrada
<1> QED BY <1>1, <1>6, <1>7, <1>8

\* A load under LRU: the entry of the page ends at 0 and the others in use grow by 2.
LEMMA LruConserva ==
    ASSUME IInv, NEW pag \in NrosPagina, NEW marco \in NrosMarco, ~Esta(listaTlb, pag),
           reemplazo = "LRU", reemplazo' = reemplazo,
           listaTlb' = ConLru(listaTlb, pag, marco), punterosPos' = punterosPos
    PROVE  IInv'
<1>1. listaTlb \in [Entradas -> Entrada]
  BY DEF IInv, TlbTypeOK, Entrada
<1>2. PICK k : k = ElegidaLru(listaTlb)
  OBVIOUS
<1>3. /\ k \in Entradas /\ listaTlb' \in [Entradas -> Entrada]
      /\ listaTlb'[k].numPag = pag /\ listaTlb'[k].numMarco = marco /\ listaTlb'[k].tiempo = 0
      /\ \A i \in Entradas \ {k} :
           /\ listaTlb'[i].numPag = listaTlb[i].numPag
           /\ listaTlb'[i].numMarco = listaTlb[i].numMarco
           /\ listaTlb'[i].tiempo = listaTlb[i].tiempo + (IF listaTlb[i].numPag = -1 THEN 1 ELSE 2)
           /\ listaTlb[i].tiempo \in Int
  BY <1>2, LruDeja
<1>6. listaTlb' \in [Entradas -> Entrada]
  BY <1>3
<1>7. listaTlb'[k].numPag = pag /\ listaTlb'[k].numMarco = marco /\ listaTlb'[k].tiempo = 0
  BY <1>3
<1>8. \A i \in Entradas \ {k} :
        /\ listaTlb'[i].numPag = listaTlb[i].numPag
        /\ listaTlb'[i].numMarco = listaTlb[i].numMarco
        /\ listaTlb'[i].tiempo = listaTlb[i].tiempo + (IF listaTlb[i].numPag = -1 THEN 1 ELSE 2)
        /\ listaTlb[i].tiempo \in Int
  BY <1>3
<1>9. TlbTypeOK'
  BY <1>6 DEF IInv, TlbTypeOK, Entrada
<1>10. \A i \in Entradas :
        IF i = k THEN listaTlb'[i].numPag = pag /\ listaTlb'[i].numMarco = marco /\ listaTlb'[i].tiempo = 0
        ELSE /\ listaTlb'[i].numPag = listaTlb[i].numPag
             /\ listaTlb'[i].numMarco = listaTlb[i].numMarco
             /\ listaTlb'[i].tiempo >= listaTlb[i].tiempo
  BY <1>7, <1>8
<1>11. /\ \A i, j \in Entradas : listaTlb'[i].numPag # -1 /\ listaTlb'[i].numPag = listaTlb'[j].numPag => i = j
       /\ \A i \in Entradas : listaTlb'[i].numPag # -1 => listaTlb'[i].numMarco # -1 /\ listaTlb'[i].tiempo >= 0
  BY <1>1, <1>3, <1>6, <1>10, ColocarConserva
<1>12. ContadoresDistintos'
  <2> SUFFICES ASSUME NEW i \in Entradas, NEW j \in Entradas, i # j, EnUso(i)', EnUso(j)'
               PROVE  listaTlb'[i].tiempo # listaTlb'[j].tiempo
    BY DEF ContadoresDistintos
  <2>1. CASE i # k /\ j # k
    <3>1. EnUso(i) /\ EnUso(j)
      BY <1>8, <2>1 DEF EnUso
    <3>2. listaTlb[i].tiempo # listaTlb[j].tiempo
      BY <3>1 DEF IInv, ContadoresDistintos
    <3> QED BY <1>8, <2>1, <3>1, <3>2 DEF EnUso
  <2>2. CASE i = k /\ j # k
    <3>1. EnUso(j)
      BY <1>8, <2>2 DEF EnUso
    <3>2. listaTlb[j].tiempo >= 0
      BY <3>1 DEF IInv, Contadores
    <3> QED BY <1>7, <1>8, <2>2, <3>1, <3>2 DEF EnUso
  <2>3. CASE i # k /\ j = k
    <3>1. EnUso(i)
      BY <1>8, <2>3 DEF EnUso
    <3>2. listaTlb[i].tiempo >= 0
      BY <3>1 DEF IInv, Contadores
    <3> QED BY <1>7, <1>8, <2>3, <3>1, <3>2 DEF EnUso
  <2> QED BY <2>1, <2>2, <2>3
<1> QED BY <1>9, <1>11, <1>12 DEF IInv, SinRepetidas, ConMarco, Contadores, EnUso

LEMMA FalloConserva ==
    ASSUME IInv, NEW pag \in NrosPagina, NEW marco \in NrosMarco, Fallo(pag, marco)
    PROVE  IInv'
<1>1. ~Esta(listaTlb, pag) /\ TrasBuscar(pag) = listaTlb
  BY BuscarEncuentra DEF Fallo, TrasBuscar
<1>2. CASE reemplazo = "FIFO"
  BY <1>1, <1>2, FifoConserva DEF Fallo, AgregarEntradaATLB
<1>3. CASE reemplazo = "LRU"
  BY <1>1, <1>3, LruConserva DEF Fallo, AgregarEntradaATLB
<1> QED BY <1>2, <1>3 DEF Fallo, AgregarEntradaATLB

LEMMA DesalojarConserva ==
    ASSUME IInv, DesalojarProcesoTLB
    PROVE  IInv'
  BY DEF IInv, DesalojarProcesoTLB, TlbTypeOK, SinRepetidas, ConMarco, Contadores,
         ContadoresDistintos, EnUso, Vacia

-----------------------------------------------------------------------------
\* The invariant holds in every reachable state of a TLB of any size.
THEOREM InvarianteDeTlb == TlbSpec => []IInv
<1>1. IInv /\ [TlbNext]_tlbVars => IInv'
  <2> SUFFICES ASSUME IInv, [TlbNext]_tlbVars PROVE IInv'
    OBVIOUS
  <2>1. CASE \E pag \in NrosPagina : Acierto(pag)
    BY <2>1, AciertoConserva
  <2>2. CASE \E pag \in NrosPagina : \E marco \in NrosMarco : Fallo(pag, marco)
    BY <2>2, FalloConserva
  <2>3. CASE DesalojarProcesoTLB
    BY <2>3, DesalojarConserva
  <2>4. CASE UNCHANGED tlbVars
    BY <2>4 DEF tlbVars, IInv, TlbTypeOK, SinRepetidas, ConMarco, Contadores, ContadoresDistintos, EnUso
  <2> QED BY <2>1, <2>2, <2>3, <2>4 DEF TlbNext
<1> QED BY <1>1, IniciaInvariante, PTL DEF TlbSpec

\* buscarTlb has at most one entry to find, with FIFO and with LRU.
THEOREM PaginaUnaVez == TlbSpec => []SinRepetidas
<1>1. IInv => SinRepetidas
  BY DEF IInv
<1> QED BY <1>1, InvarianteDeTlb, PTL

\* The three ways traduccion.c has of counting keep the entries in use in a strict
\* order of age, so that LRU replaces the least recently used one.
THEOREM LruSinEmpates == TlbSpec => []ContadoresDistintos
<1>1. IInv => ContadoresDistintos
  BY DEF IInv
<1> QED BY <1>1, InvarianteDeTlb, PTL

-----------------------------------------------------------------------------
(* The TLB beside the page tables (Traduccion).  A walk is taken as it is,     *)
(* whatever it answers: what matters is that the frames of a process stay      *)
(* where they are from the first page the TLB loads of it to the emptying, or  *)
(* until it is swapped out, which cargaron remembers.                        *)

\* The ring, whatever frames the walks gave.
FormaDeTlb ==
    /\ listaTlb = [i \in Entradas |-> listaTlb[i]]
    /\ \A i \in Entradas : DOMAIN listaTlb[i] = {"numPag", "numMarco", "tiempo"}

EnLaCpu == cpu.pc = "ejecuta" => cpu.pid \in Procs /\ estado[cpu.pid] = "ejecuta"

TlbVacia == \A i \in Entradas : ~EnUso(i)

\* The entries are those of p: it has frames, and as long as it does not end they
\* are the ones that were loaded.
Cargada(p) ==
    /\ estado[p] \notin {"nuevo", "suspendido"}
    /\ estado[p] \in {"listo", "ejecuta", "bloqueado"} => CoherenteCon(p)

TraduccionInv ==
    /\ FormaDeTlb
    /\ DOMAIN cpu = {"pid", "pc"}
    /\ DOMAIN estado = Procs /\ DOMAIN marcosDe = Procs
    /\ EnLaCpu
    /\ cargaron = {} => TlbVacia
    /\ \A p \in Procs : cargaron = {p} => Cargada(p)

\* What a hit, and a load, do to the translations the ring holds.
LEMMA AciertoTraducciones ==
    ASSUME FormaDeTlb, NEW pag, Acierto(pag)
    PROVE  /\ FormaDeTlb'
           /\ \A i \in Entradas : /\ listaTlb'[i].numPag = listaTlb[i].numPag
                                  /\ listaTlb'[i].numMarco = listaTlb[i].numMarco
BY DEF FormaDeTlb, Acierto, TrasBuscar, ModificarReferencia, Entradas

LEMMA FalloTraducciones ==
    ASSUME FormaDeTlb, NEW pag, NEW marco, Fallo(pag, marco)
    PROVE  /\ FormaDeTlb'
           /\ \A i \in Entradas :
                \/ listaTlb'[i].numPag = listaTlb[i].numPag /\ listaTlb'[i].numMarco = listaTlb[i].numMarco
                \/ listaTlb'[i].numPag = pag /\ listaTlb'[i].numMarco = marco
<1> DEFINE Igual(tlb, i) == tlb[i].numPag = listaTlb[i].numPag /\ tlb[i].numMarco = listaTlb[i].numMarco
           Nueva(tlb, i) == tlb[i].numPag = pag /\ tlb[i].numMarco = marco
           Forma(tlb) == /\ tlb = [i \in Entradas |-> tlb[i]]
                         /\ \A i \in Entradas : DOMAIN tlb[i] = {"numPag", "numMarco", "tiempo"}
           Bien(tlb) == Forma(tlb) /\ \A i \in Entradas : Igual(tlb, i) \/ Nueva(tlb, i)
<1>1. Bien(TrasBuscar(pag))
  BY DEF FormaDeTlb, TrasBuscar, ModificarReferencia
<1>2. ASSUME NEW tlb, Bien(tlb), NEW k PROVE Bien(Colocar(tlb, k, pag, marco))
  BY <1>2 DEF Colocar
<1>3. ASSUME NEW tlb, Bien(tlb) PROVE Bien(ActualizarContadores(tlb, pag))
  BY <1>3 DEF ActualizarContadores
<1>4. ASSUME NEW tlb, Bien(tlb) PROVE Bien(ModificarReferencia(tlb, pag))
  BY <1>4 DEF ModificarReferencia
<1>5. Bien(listaTlb')
  <2>1. CASE listaTlb' = Colocar(TrasBuscar(pag), punterosPos, pag, marco)
    BY <1>1, <1>2, <2>1
  <2>2. CASE listaTlb' = ConLru(TrasBuscar(pag), pag, marco)
    <3> HIDE DEF Bien
    <3> QED BY <1>1, <1>2, <1>3, <1>4, <2>2 DEF ConLru
  <2> QED BY <2>1, <2>2 DEF Fallo, AgregarEntradaATLB
<1> QED BY <1>5 DEF FormaDeTlb, Entradas

LEMMA DesalojoTraducciones ==
    ASSUME DesalojarProcesoTLB
    PROVE  FormaDeTlb' /\ TlbVacia'
BY DEF DesalojarProcesoTLB, FormaDeTlb, TlbVacia, EnUso, Vacia, Entradas

\* A step that leaves the ring alone leaves the translations alone.
LEMMA MismaTlb ==
    ASSUME FormaDeTlb, listaTlb' = listaTlb
    PROVE  /\ FormaDeTlb' /\ (TlbVacia => TlbVacia')
           /\ \A p \in Procs : CoherenteCon(p) /\ marcosDe'[p] = marcosDe[p] => CoherenteCon(p)'
BY DEF FormaDeTlb, TlbVacia, CoherenteCon, EnUso, Entradas

LEMMA TraduccionInicial == Init => TraduccionInv
<1> SUFFICES ASSUME Init PROVE TraduccionInv
  OBVIOUS
<1>1. FormaDeTlb /\ TlbVacia
  BY DEF Init, TlbInit, FormaDeTlb, TlbVacia, EnUso, Vacia
<1>2. cpu.pc = "lista" /\ cargaron = {}
  BY DEF Init
<1> QED BY <1>1, <1>2 DEF Init, TraduccionInv, EnLaCpu

\* One process moves, or none: the CPU and its TLB are as they were.
LEMMA MientrasTanto ==
    ASSUME TraduccionInv, listaTlb' = listaTlb, cpu' = cpu, cargaron' = cargaron,
           DOMAIN estado' = Procs, DOMAIN marcosDe' = Procs,
           \A q \in Procs : \/ estado'[q] = estado[q] /\ marcosDe'[q] = marcosDe[q]
                            \/ estado[q] # "ejecuta" /\ (cargaron = {q} => Cargada(q)')
    PROVE  TraduccionInv'
<1>1. EnLaCpu'
  BY DEF TraduccionInv, EnLaCpu
<1>2. FormaDeTlb' /\ (TlbVacia => TlbVacia')
  BY MismaTlb DEF TraduccionInv
<1>3. ASSUME NEW q \in Procs, cargaron = {q}
      PROVE  Cargada(q)'
  <2>1. CASE estado'[q] = estado[q] /\ marcosDe'[q] = marcosDe[q]
    BY <1>3, <2>1, MismaTlb DEF TraduccionInv, Cargada
  <2> QED BY <1>3, <2>1
<1> QED BY <1>1, <1>2, <1>3 DEF TraduccionInv

LEMMA TraduccionPasos ==
    ASSUME TraduccionInv, [Next]_vars
    PROVE  TraduccionInv'
<1>1. CASE UNCHANGED vars
  BY <1>1, MientrasTanto DEF vars, tlbVars, TraduccionInv
<1>2. ASSUME NEW p \in Procs, Admitir(p) \/ Desuspender(p)
      PROVE  TraduccionInv'
  <2>1. /\ listaTlb' = listaTlb /\ cpu' = cpu /\ cargaron' = cargaron
        /\ estado[p] \in {"nuevo", "suspendido"}
        /\ \E e : estado' = [estado EXCEPT ![p] = e]
        /\ \E m : marcosDe' = [marcosDe EXCEPT ![p] = m]
    BY <1>2 DEF Admitir, Desuspender, TomarMarcos, tlbVars
  <2>2. cargaron # {p}
    BY <2>1 DEF TraduccionInv, Cargada
  <2> QED BY <2>1, <2>2, MientrasTanto DEF TraduccionInv
<1>3. ASSUME NEW p \in Procs, FinDeIo(p)
      PROVE  TraduccionInv'
  <2>1. /\ listaTlb' = listaTlb /\ cpu' = cpu /\ cargaron' = cargaron /\ marcosDe' = marcosDe
        /\ estado[p] = "bloqueado" /\ estado' = [estado EXCEPT ![p] = "listo"]
    BY <1>3 DEF FinDeIo, tlbVars
  <2>2. cargaron = {p} => Cargada(p)'
    BY <2>1, MismaTlb DEF TraduccionInv, Cargada
  <2> QED BY <2>1, <2>2, MientrasTanto DEF TraduccionInv
<1>4. ASSUME NEW p \in Procs, Finalizar(p)
      PROVE  TraduccionInv'
  <2>1. /\ listaTlb' = listaTlb /\ cpu' = cpu /\ cargaron' = cargaron
        /\ estado[p] = "saliendo" /\ estado' = [estado EXCEPT ![p] = "terminado"]
        /\ marcosDe' = [marcosDe EXCEPT ![p] = <<>>]
    BY <1>4 DEF Finalizar, tlbVars
  <2>2. Cargada(p)'
    BY <2>1 DEF TraduccionInv, Cargada
  <2> QED BY <2>1, <2>2, MientrasTanto DEF TraduccionInv
<1>5. ASSUME NEW p \in Procs, Suspender(p)
      PROVE  TraduccionInv'
  <2>1. /\ listaTlb' = listaTlb /\ cpu' = cpu
        /\ cargaron' = IF p \in cargaron THEN Mezcla ELSE cargaron
        /\ estado[p] = "bloqueado" /\ estado' = [estado EXCEPT ![p] = "suspendido"]
        /\ marcosDe' = [marcosDe EXCEPT ![p] = <<>>]
    BY <1>5 DEF Suspender, tlbVars
  <2>2. FormaDeTlb' /\ (TlbVacia => TlbVacia') /\ EnLaCpu'
    BY <2>1, MismaTlb DEF TraduccionInv, EnLaCpu
  <2>3. cargaron' = {} => cargaron = {}
    BY <2>1 DEF Mezcla
  <2>4. ASSUME NEW q \in Procs, cargaron' = {q}
        PROVE  Cargada(q)'
    <3>1. Nadie \notin Procs
      BY TraduccionAssumption
    <3>2. cargaron = {q} /\ q # p
      BY <2>1, <2>4, <3>1 DEF Mezcla
    <3> QED BY <2>1, <3>2, MismaTlb DEF TraduccionInv, Cargada
  <2> QED BY <2>1, <2>2, <2>3, <2>4 DEF TraduccionInv
<1>6. ASSUME NEW p \in Procs, Despachar(p)
      PROVE  TraduccionInv'
  <2>1. /\ listaTlb' = listaTlb /\ marcosDe' = marcosDe /\ cargaron' = cargaron /\ estado[p] = "listo"
        /\ cpu' = [pid |-> p, pc |-> "ejecuta"] /\ estado' = [estado EXCEPT ![p] = "ejecuta"]
    BY <1>6 DEF Despachar, tlbVars
  <2>2. FormaDeTlb' /\ (TlbVacia => TlbVacia') /\ EnLaCpu'
    BY <2>1, MismaTlb DEF TraduccionInv, EnLaCpu
  <2>3. ASSUME NEW q \in Procs, cargaron = {q}
        PROVE  Cargada(q)'
    BY <2>1, <2>3, MismaTlb DEF TraduccionInv, Cargada
  <2> QED BY <2>1, <2>2, <2>3 DEF TraduccionInv
<1>7. ASSUME NEW pag \in NrosPagina, Acceder(pag)
      PROVE  TraduccionInv'
  <2> DEFINE camina(q) == NavegarNiveles(TablaRaiz(marcosDe[cpu.pid]), q)
  <2>1. /\ cpu' = cpu /\ estado' = estado /\ marcosDe' = marcosDe
        /\ cargaron' = IF cargaron \subseteq {cpu.pid} THEN {cpu.pid} ELSE Mezcla
        /\ cpu.pid \in Procs /\ estado[cpu.pid] = "ejecuta"
        /\ Acierto(pag) \/ Fallo(pag, camina(pag))
    BY <1>7 DEF Acceder, Fallo, Acierto, TraduccionInv, EnLaCpu
  <2>2. cargaron \subseteq {cpu.pid} =>
          \A i \in Entradas : EnUso(i) => listaTlb[i].numMarco = camina(listaTlb[i].numPag)
    <3>1. CASE cargaron = {}
      BY <3>1 DEF TraduccionInv, TlbVacia
    <3>2. CASE cargaron = {cpu.pid}
      BY <2>1, <3>2 DEF TraduccionInv, Cargada, CoherenteCon
    <3> QED BY <3>1, <3>2
  <2> HIDE DEF camina
  <2>3. /\ FormaDeTlb'
        /\ \A i \in Entradas :
             \/ listaTlb'[i].numPag = listaTlb[i].numPag /\ listaTlb'[i].numMarco = listaTlb[i].numMarco
             \/ listaTlb'[i].numPag = pag /\ listaTlb'[i].numMarco = camina(pag)
    BY <2>1, AciertoTraducciones, FalloTraducciones DEF TraduccionInv
  <2>4. cargaron \subseteq {cpu.pid} =>
          \A i \in Entradas : listaTlb'[i].numPag # -1 => listaTlb'[i].numMarco = camina(listaTlb'[i].numPag)
    BY <2>2, <2>3 DEF EnUso
  <2>5. ASSUME NEW q \in Procs, cargaron' = {q}
        PROVE  Cargada(q)'
    <3>1. q = cpu.pid /\ cargaron \subseteq {cpu.pid}
      BY <2>1, <2>5, TraduccionAssumption DEF Mezcla
    <3>2. CoherenteCon(q)'
      BY <2>1, <2>4, <3>1 DEF CoherenteCon, EnUso, Entradas, camina
    <3> QED BY <2>1, <3>1, <3>2 DEF Cargada
  <2>6. cargaron' # {}
    BY <2>1 DEF Mezcla
  <2> QED BY <2>1, <2>3, <2>5, <2>6 DEF TraduccionInv, EnLaCpu
<1>8. CASE SyscallExit
  <2>1. /\ listaTlb' = listaTlb /\ marcosDe' = marcosDe /\ cargaron' = cargaron
        /\ cpu'.pc = "desaloja" /\ DOMAIN cpu' = {"pid", "pc"}
        /\ cpu.pid \in Procs /\ estado' = [estado EXCEPT ![cpu.pid] = "saliendo"]
    BY <1>8 DEF SyscallExit, tlbVars, TraduccionInv, EnLaCpu
  <2>2. FormaDeTlb' /\ (TlbVacia => TlbVacia') /\ EnLaCpu'
    BY <2>1, MismaTlb DEF TraduccionInv, EnLaCpu
  <2>3. ASSUME NEW q \in Procs, cargaron = {q}
        PROVE  Cargada(q)'
    BY <2>1, <2>3, MismaTlb DEF TraduccionInv, Cargada
  <2> QED BY <2>1, <2>2, <2>3 DEF TraduccionInv
<1>9. CASE Desalojar
  <2>1. /\ marcosDe' = marcosDe /\ estado' = estado /\ cpu'.pc = "espera" /\ DOMAIN cpu' = {"pid", "pc"}
        /\ cargaron' = {} /\ FormaDeTlb' /\ TlbVacia'
    BY <1>9, DesalojoTraducciones DEF Desalojar, TraduccionInv
  <2> QED BY <2>1 DEF TraduccionInv, EnLaCpu
<1>10. CASE SyscallEjecutada
  <2>1. /\ listaTlb' = listaTlb /\ marcosDe' = marcosDe /\ estado' = estado /\ cargaron' = cargaron
        /\ cpu' = [pid |-> Nadie, pc |-> "lista"]
    BY <1>10 DEF SyscallEjecutada, tlbVars
  <2>2. FormaDeTlb' /\ (TlbVacia => TlbVacia') /\ EnLaCpu'
    BY <2>1, MismaTlb DEF TraduccionInv, EnLaCpu
  <2>3. ASSUME NEW q \in Procs, cargaron = {q}
        PROVE  Cargada(q)'
    BY <2>1, <2>3, MismaTlb DEF TraduccionInv, Cargada
  <2> QED BY <2>1, <2>2, <2>3 DEF TraduccionInv
<1>11. CASE SyscallIo
  <2>1. /\ listaTlb' = listaTlb /\ marcosDe' = marcosDe /\ cargaron' = cargaron
        /\ cpu.pid \in Procs /\ estado[cpu.pid] = "ejecuta"
        /\ estado' = [estado EXCEPT ![cpu.pid] = "bloqueado"]
        /\ cpu' = [pid |-> Nadie, pc |-> "lista"]
    BY <1>11 DEF SyscallIo, tlbVars, TraduccionInv, EnLaCpu
  <2>2. FormaDeTlb' /\ (TlbVacia => TlbVacia') /\ EnLaCpu'
    BY <2>1, MismaTlb DEF TraduccionInv, EnLaCpu
  <2>3. ASSUME NEW q \in Procs, cargaron = {q}
        PROVE  Cargada(q)'
    BY <2>1, <2>3, MismaTlb DEF TraduccionInv, Cargada
  <2> QED BY <2>1, <2>2, <2>3 DEF TraduccionInv
<1> QED BY <1>1, <1>2, <1>3, <1>4, <1>5, <1>6, <1>7, <1>8, <1>9, <1>10, <1>11 DEF Next

\* What the TLB answers for a page is what a walk of the table of the process that
\* executes would, from the last emptying on and also after an IO, until another
\* process looks for its pages on the same CPU or this one is swapped out, and again
\* after the next EXIT (conseguirMarco, desalojarProcesoTLB).
THEOREM TlbSigueALaTabla == Spec => []TlbCoherente
<1>1. TraduccionInv => TlbCoherente
  <2> SUFFICES ASSUME TraduccionInv, cpu.pc = "ejecuta", cargaron \subseteq {cpu.pid}
               PROVE  CoherenteCon(cpu.pid)
    BY DEF TlbCoherente
  <2>1. CASE cargaron = {}
    BY <2>1 DEF TraduccionInv, TlbVacia, CoherenteCon
  <2>2. CASE cargaron = {cpu.pid}
    BY <2>2 DEF TraduccionInv, Cargada, EnLaCpu
  <2> QED BY <2>1, <2>2
<1> QED BY <1>1, TraduccionInicial, TraduccionPasos, PTL DEF Spec

-----------------------------------------------------------------------------
(* Dividing.                                                               *)

LEMMA Cociente ==
    ASSUME NEW a \in Nat, NEW d \in Nat \ {0}
    PROVE  /\ a \div d \in Nat /\ a % d \in 0 .. d - 1
           /\ a = d * (a \div d) + (a % d)
  OBVIOUS

\* The quotient is the only one that leaves such a rest.
LEMMA CocienteUnico ==
    ASSUME NEW d \in Nat \ {0}, NEW q \in Nat, NEW r \in 0 .. d - 1, NEW a \in Nat, a = d * q + r
    PROVE  a \div d = q
<1> DEFINE k == a \div d
<1>1. k \in Nat /\ a % d \in 0 .. d - 1 /\ a = d * k + (a % d)
  BY Cociente
<1> HIDE DEF k
<1>2. \A x \in Nat : x >= 1 => d * x >= d
  OBVIOUS
<1>3. ASSUME NEW x \in Nat, NEW y \in Nat, NEW s \in 0 .. d - 1, NEW t \in 0 .. d - 1,
             d * x + s = d * y + t, y < x
      PROVE  FALSE
  <2>1. d * (x - y) >= d
    BY <1>2, <1>3
  <2>2. d * (x - y) = d * x - d * y
    OBVIOUS
  <2> QED BY <1>3, <2>1, <2>2
<1>4. ~(k < q) /\ ~(q < k)
  BY <1>1, <1>3
<1> QED BY <1>1, <1>4 DEF k

\* Dividing by a product is dividing twice.
LEMMA CocienteDoble ==
    ASSUME NEW a \in Nat, NEW d \in Nat \ {0}, NEW e \in Nat \ {0}
    PROVE  a \div (e * d) = (a \div d) \div e
<1> DEFINE x == a \div d
           y == x \div e
           s == x % e
           t == a % d
<1>1. /\ x \in Nat /\ y \in Nat /\ t \in 0 .. d - 1 /\ s \in 0 .. e - 1
      /\ a = d * x + t /\ x = e * y + s
  BY Cociente
<1> HIDE DEF x, y, s, t
<1>2. a = (e * d) * y + (d * s + t)
  <2>1. d * (e * y + s) = (e * d) * y + d * s
    BY <1>1
  <2> QED BY <1>1, <2>1
<1>3. e * d \in Nat \ {0} /\ d * s + t \in 0 .. (e * d) - 1
  <2>2. d * s <= d * (e - 1) /\ d * s \in Nat
    BY <1>1
  <2>3. d * (e - 1) = e * d - d /\ e * d \in Nat /\ e * d >= 1
    OBVIOUS
  <2> QED BY <1>1, <2>2, <2>3
<1>4. a \div (e * d) = y
  BY <1>1, <1>2, <1>3, CocienteUnico
<1> QED BY <1>4 DEF x, y

-----------------------------------------------------------------------------
(* The powers of ENTRADAS_POR_TABLA.                                       *)

EsPotencia(g, k) == g = [n \in 0 .. k |-> IF n = 0 THEN 1 ELSE ENTRADAS_POR_TABLA * g[n - 1]]

LEMMA PotenciaExiste == \E g : EsPotencia(g, CANTIDAD_NIVELES)
<1> DEFINE Sin == {k \in 0 .. CANTIDAD_NIVELES : ~\E g : EsPotencia(g, k)}
<1> SUFFICES ASSUME CANTIDAD_NIVELES \in Sin PROVE FALSE
  BY PaginacionAssumption
<1>1. PICK m \in Sin : \A n \in Sin : m <= n
  <2>1. Sin \subseteq Nat /\ Sin # {}
    OBVIOUS
  <2> HIDE DEF Sin
  <2> QED BY <2>1, MenorNatural
<1>2. m # 0
  <2>1. EsPotencia([n \in 0 .. 0 |-> 1], 0)
    BY DEF EsPotencia
  <2> QED BY <1>1, <2>1
<1>3. m - 1 \in 0 .. CANTIDAD_NIVELES /\ m - 1 \notin Sin /\ m \in Nat
  BY <1>1, <1>2, PaginacionAssumption
<1>4. PICK g : EsPotencia(g, m - 1)
  BY <1>3
<1> DEFINE h == [n \in 0 .. m |-> IF n = m THEN ENTRADAS_POR_TABLA * g[m - 1] ELSE g[n]]
<1>5. EsPotencia(h, m)
  <2>1. ASSUME NEW n \in 0 .. m
        PROVE  h[n] = IF n = 0 THEN 1 ELSE ENTRADAS_POR_TABLA * h[n - 1]
    <3>1. CASE n = m
      BY <1>2, <1>3, <3>1
    <3>2. CASE n # m /\ n # 0
      BY <1>3, <1>4, <3>2 DEF EsPotencia
    <3>3. CASE n = 0
      BY <1>2, <1>3, <1>4, <3>3 DEF EsPotencia
    <3> QED BY <3>1, <3>2, <3>3
  <2>2. h = [n \in 0 .. m |-> h[n]]
    OBVIOUS
  <2> HIDE DEF h
  <2> QED BY <2>1, <2>2 DEF EsPotencia
<1> QED BY <1>1, <1>5

\* pow multiplies once per level.
LEMMA PotenciaEs ==
    /\ Potencia[0] = 1
    /\ \A n \in 0 .. CANTIDAD_NIVELES - 1 : Potencia[n + 1] = ENTRADAS_POR_TABLA * Potencia[n]
    /\ \A n \in 0 .. CANTIDAD_NIVELES : Potencia[n] \in Nat \ {0}
<1>1. EsPotencia(Potencia, CANTIDAD_NIVELES)
  BY PotenciaExiste DEF Potencia, EsPotencia
<1>2. \A n \in 0 .. CANTIDAD_NIVELES :
        Potencia[n] = IF n = 0 THEN 1 ELSE ENTRADAS_POR_TABLA * Potencia[n - 1]
  BY <1>1 DEF EsPotencia
<1>3. Potencia[0] = 1
  BY <1>2, PaginacionAssumption
<1>4. ASSUME NEW n \in 0 .. CANTIDAD_NIVELES - 1
      PROVE  Potencia[n + 1] = ENTRADAS_POR_TABLA * Potencia[n]
  BY <1>2, PaginacionAssumption
<1>5. ASSUME NEW k \in 0 .. CANTIDAD_NIVELES PROVE Potencia[k] \in Nat \ {0}
  <2> DEFINE Mal == {n \in 0 .. CANTIDAD_NIVELES : Potencia[n] \notin Nat \ {0}}
  <2> SUFFICES ASSUME Mal # {} PROVE FALSE
    OBVIOUS
  <2>1. PICK m \in Mal : \A n \in Mal : m <= n
    <3>1. Mal \subseteq Nat
      OBVIOUS
    <3> HIDE DEF Mal
    <3> QED BY <3>1, MenorNatural
  <2>2. m # 0
    BY <1>3, <2>1
  <2>3. m - 1 \in 0 .. CANTIDAD_NIVELES - 1 /\ m - 1 \notin Mal
    BY <2>1, <2>2, PaginacionAssumption
  <2>4. Potencia[m - 1] \in Nat \ {0} /\ Potencia[m] = ENTRADAS_POR_TABLA * Potencia[m - 1]
    BY <1>4, <2>1, <2>3, PaginacionAssumption
  <2>5. \A x, y \in Nat \ {0} : x * y \in Nat \ {0}
    OBVIOUS
  <2> QED BY <2>1, <2>4, <2>5, PaginacionAssumption
<1> QED BY <1>3, <1>4, <1>5

-----------------------------------------------------------------------------
(* What is left of a sequence of frames.                                    *)

LEMMA DesdeEs ==
    ASSUME NEW m \in Seq(Int), NEW a \in Nat
    PROVE  /\ Desde(m, a) \in Seq(Int)
           /\ Len(Desde(m, a)) = IF a < Len(m) THEN Len(m) - a ELSE 0
           /\ \A i \in 1 .. Len(m) - a : Desde(m, a)[i] = m[a + i]
           /\ Desde(m, a) = <<>> <=> a >= Len(m)
<1>1. Len(m) \in Nat /\ \A i \in a + 1 .. Len(m) : m[i] \in Int
  OBVIOUS
<1>2. /\ SubSeq(m, a + 1, Len(m)) \in Seq(Int)
      /\ Len(SubSeq(m, a + 1, Len(m))) = IF a + 1 <= Len(m) THEN Len(m) - (a + 1) + 1 ELSE 0
      /\ \A i \in 1 .. Len(m) - (a + 1) + 1 : SubSeq(m, a + 1, Len(m))[i] = m[a + 1 + i - 1]
  BY <1>1, SubSeqProperties
<1>3. /\ Desde(m, a) \in Seq(Int)
      /\ Len(Desde(m, a)) = IF a < Len(m) THEN Len(m) - a ELSE 0
  BY <1>1, <1>2 DEF Desde
<1>4. \A i \in 1 .. Len(m) - a : Desde(m, a)[i] = m[a + i]
  <2>1. ASSUME NEW i \in 1 .. Len(m) - a PROVE Desde(m, a)[i] = m[a + i]
    <3>1. a + 1 + i - 1 = a + i /\ i \in 1 .. Len(m) - (a + 1) + 1
      BY <1>1
    <3> QED BY <1>2, <3>1 DEF Desde
  <2> QED BY <2>1
<1>5. Desde(m, a) = <<>> <=> Len(Desde(m, a)) = 0
  BY <1>3, EmptySeq
<1> QED BY <1>1, <1>3, <1>4, <1>5

LEMMA DesdeDesde ==
    ASSUME NEW m \in Seq(Int), NEW a \in Nat, NEW b \in Nat
    PROVE  Desde(Desde(m, a), b) = Desde(m, a + b) /\ Desde(m, 0) = m
<1> DEFINE x == Desde(m, a)
           y == Desde(x, b)
           z == Desde(m, a + b)
<1>1. /\ x \in Seq(Int) /\ Len(x) = (IF a < Len(m) THEN Len(m) - a ELSE 0)
      /\ \A i \in 1 .. Len(m) - a : x[i] = m[a + i]
  BY DesdeEs
<1> HIDE DEF x
<1>2. /\ y \in Seq(Int) /\ Len(y) = (IF b < Len(x) THEN Len(x) - b ELSE 0)
      /\ \A i \in 1 .. Len(x) - b : y[i] = x[b + i]
  BY <1>1, DesdeEs
<1>3. /\ z \in Seq(Int) /\ Len(z) = (IF a + b < Len(m) THEN Len(m) - (a + b) ELSE 0)
      /\ \A i \in 1 .. Len(m) - (a + b) : z[i] = m[a + b + i]
  BY DesdeEs, a + b \in Nat
<1> HIDE DEF y, z
<1>4. Len(y) = Len(z) /\ Len(m) \in Nat
  <2>1. Len(m) \in Nat
    OBVIOUS
  <2>2. CASE a < Len(m)
    <3>1. Len(x) = Len(m) - a
      BY <1>1, <2>2
    <3>2. Len(y) = IF b < Len(m) - a THEN Len(m) - a - b ELSE 0
      BY <1>2, <3>1
    <3>3. Len(z) = IF a + b < Len(m) THEN Len(m) - (a + b) ELSE 0
      BY <1>3
    <3> QED BY ONLY <2>1, <3>2, <3>3, a \in Nat, b \in Nat
  <2>3. CASE ~(a < Len(m))
    <3>1. ~(a + b < Len(m)) /\ ~(b < 0)
      BY <2>1, <2>3
    <3>2. Len(x) = 0 /\ Len(z) = 0
      BY <1>1, <1>3, <2>3, <3>1
    <3> QED BY <1>2, <2>1, <3>1, <3>2
  <2> QED BY <2>1, <2>2, <2>3
<1>5. ASSUME NEW i \in 1 .. Len(y) PROVE y[i] = z[i]
  <2>1. i \in 1 .. Len(x) - b /\ b + i \in 1 .. Len(m) - a /\ i \in 1 .. Len(m) - (a + b)
    BY <1>1, <1>2, <1>4
  <2>2. a + (b + i) = a + b + i
    BY <2>1
  <2> QED BY <1>1, <1>2, <1>3, <2>1, <2>2
<1>6. y = z
  BY <1>2, <1>3, <1>4, <1>5, SeqEqual
<1>7. Desde(m, 0) = m
  BY SubSeqFull DEF Desde
<1> QED BY <1>6, <1>7 DEF x, y, z

-----------------------------------------------------------------------------
(* A table of tables: its entries and what it leaves.                        *)

Vacio == [tabla |-> <<>>, resto |-> <<>>]

\* The table after one more entry.
ConOtra(sub, previa) ==
    IF previa.resto = <<>>
    THEN [tabla |-> Append(previa.tabla, <<>>), resto |-> <<>>]
    ELSE [tabla |-> Append(previa.tabla, sub[previa.resto].tabla), resto |-> sub[previa.resto].resto]

EsHasta(h, sub, m, k) ==
    h = [i \in 0 .. k |-> IF i = 0 THEN [tabla |-> <<>>, resto |-> m] ELSE ConOtra(sub, h[i - 1])]

LEMMA HastaExiste ==
    ASSUME NEW sub, NEW m
    PROVE  \E h : EsHasta(h, sub, m, ENTRADAS_POR_TABLA)
<1> DEFINE Sin == {k \in 0 .. ENTRADAS_POR_TABLA : ~\E h : EsHasta(h, sub, m, k)}
<1> SUFFICES ASSUME ENTRADAS_POR_TABLA \in Sin PROVE FALSE
  BY PaginacionAssumption
<1>1. PICK n \in Sin : \A k \in Sin : n <= k
  <2>1. Sin \subseteq Nat /\ Sin # {}
    OBVIOUS
  <2> HIDE DEF Sin
  <2> QED BY <2>1, MenorNatural
<1>2. n # 0
  <2>1. EsHasta([i \in 0 .. 0 |-> [tabla |-> <<>>, resto |-> m]], sub, m, 0)
    BY DEF EsHasta
  <2> QED BY <1>1, <2>1
<1>3. n - 1 \in 0 .. ENTRADAS_POR_TABLA /\ n - 1 \notin Sin /\ n \in Nat
  BY <1>1, <1>2, PaginacionAssumption
<1>4. PICK g : EsHasta(g, sub, m, n - 1)
  BY <1>3
<1> DEFINE h == [i \in 0 .. n |-> IF i = n THEN ConOtra(sub, g[n - 1]) ELSE g[i]]
<1>5. EsHasta(h, sub, m, n)
  <2>1. ASSUME NEW i \in 0 .. n
        PROVE  h[i] = IF i = 0 THEN [tabla |-> <<>>, resto |-> m] ELSE ConOtra(sub, h[i - 1])
    <3>1. CASE i = n
      BY <1>2, <1>3, <3>1
    <3>2. CASE i # n /\ i # 0
      BY <1>3, <1>4, <3>2 DEF EsHasta
    <3>3. CASE i = 0
      BY <1>2, <1>3, <1>4, <3>3 DEF EsHasta
    <3> QED BY <3>1, <3>2, <3>3
  <2>2. h = [i \in 0 .. n |-> h[i]]
    OBVIOUS
  <2> HIDE DEF h
  <2> QED BY <2>1, <2>2 DEF EsHasta
<1> QED BY <1>1, <1>5

\* The tables of the level below are built one after another, each out of what the
\* one before left, c frames apart, and the entries after the last frame are NULL.
LEMMA TablaDeTablasEs ==
    ASSUME NEW c \in Nat \ {0}, NEW m \in Seq(Int), NEW sub,
           \A x \in Seq(Int) : sub[x].resto = Desde(x, c)
    PROVE  /\ TablaDeTablas(sub, m).resto = Desde(m, ENTRADAS_POR_TABLA * c)
           /\ Len(TablaDeTablas(sub, m).tabla) = ENTRADAS_POR_TABLA
           /\ \A j \in 0 .. ENTRADAS_POR_TABLA - 1 :
                TablaDeTablas(sub, m).tabla[j + 1] = IF j * c < Len(m) THEN sub[Desde(m, j * c)].tabla ELSE <<>>
<1> DEFINE E == ENTRADAS_POR_TABLA
           Tablas == {sub[x].tabla : x \in Seq(Int)} \cup {<<>>}
           Bien(t, i) == /\ t.resto = Desde(m, i * c)
                         /\ t.tabla \in Seq(Tablas) /\ Len(t.tabla) = i
                         /\ \A j \in 0 .. i - 1 :
                              t.tabla[j + 1] = IF j * c < Len(m) THEN sub[Desde(m, j * c)].tabla ELSE <<>>
<1>1. PICK h : EsHasta(h, sub, m, E) /\ TablaDeTablas(sub, m) = h[E]
  <2>1. TablaDeTablas(sub, m) = (CHOOSE h : EsHasta(h, sub, m, E))[E]
    BY DEF TablaDeTablas, EsHasta, ConOtra
  <2> QED BY <2>1, HastaExiste
<1>2. /\ h[0] = [tabla |-> <<>>, resto |-> m]
      /\ \A i \in 1 .. E : h[i] = ConOtra(sub, h[i - 1])
  BY <1>1, PaginacionAssumption DEF EsHasta
<1>3. Bien(h[0], 0)
  <2>1. <<>> \in Seq(Tablas) /\ Len(<<>>) = 0
    BY EmptySeq
  <2>2. 0 * c = 0 /\ Desde(m, 0) = m
    BY DesdeDesde
  <2> QED BY <1>2, <2>1, <2>2
<1>4. ASSUME NEW i \in 1 .. E, Bien(h[i - 1], i - 1)
      PROVE  Bien(h[i], i)
  <2> DEFINE t == h[i - 1]
             b == (i - 1) * c
  <2>1. b \in Nat /\ i * c = b + c /\ i \in Nat /\ i - 1 \in Nat
    BY PaginacionAssumption
  <2>2. h[i] = ConOtra(sub, t) /\ Bien(t, i - 1)
    BY <1>2, <1>4
  <2>3. t.resto \in Seq(Int) /\ (t.resto = <<>> <=> b >= Len(m)) /\ t.resto = Desde(m, b)
    BY <2>1, <2>2, DesdeEs
  <2> DEFINE nueva == IF b < Len(m) THEN sub[Desde(m, b)].tabla ELSE <<>>
  <2>4. nueva \in Tablas
    BY <2>3
  <2>5. h[i].tabla = Append(t.tabla, nueva)
    BY <2>1, <2>2, <2>3 DEF ConOtra
  <2>6. h[i].resto = Desde(m, b + c)
    <3> HIDE DEF b, t
    <3>1. CASE t.resto = <<>>
      <4>1. b + c \in Nat /\ b + c >= Len(m)
        <5>1. b \in Nat /\ c \in Nat /\ Len(m) \in Nat /\ b >= Len(m)
          BY <2>1, <2>3, <3>1
        <5> QED BY ONLY <5>1
      <4>2. \A d \in Nat : d >= Len(m) => Desde(m, d) = <<>>
        BY DesdeEs
      <4>3. Desde(m, b + c) = <<>>
        BY <4>1, <4>2
      <4> QED BY <2>2, <3>1, <4>3 DEF ConOtra
    <3>2. CASE t.resto # <<>>
      <4>1. h[i].resto = Desde(Desde(m, b), c)
        BY <2>2, <2>3, <3>2 DEF ConOtra
      <4> QED BY <2>1, <4>1, DesdeDesde
    <3> QED BY <3>1, <3>2
  <2>7. /\ h[i].tabla \in Seq(Tablas) /\ Len(h[i].tabla) = i
        /\ \A j \in 1 .. i - 1 : h[i].tabla[j] = t.tabla[j]
        /\ h[i].tabla[i] = nueva
    <3>1. t.tabla \in Seq(Tablas) /\ Len(t.tabla) = i - 1
      BY <2>2
    <3> HIDE DEF Tablas, nueva, t, Bien
    <3>2. /\ Append(t.tabla, nueva) \in Seq(Tablas)
          /\ Len(Append(t.tabla, nueva)) = Len(t.tabla) + 1
          /\ \A j \in 1 .. Len(t.tabla) : Append(t.tabla, nueva)[j] = t.tabla[j]
          /\ Append(t.tabla, nueva)[Len(t.tabla) + 1] = nueva
      BY <2>4, <3>1, AppendProperties
    <3>3. (i - 1) + 1 = i
      BY <2>1
    <3> QED BY <2>5, <3>1, <3>2, <3>3
  <2>8. ASSUME NEW j \in 0 .. i - 1
        PROVE  h[i].tabla[j + 1] = IF j * c < Len(m) THEN sub[Desde(m, j * c)].tabla ELSE <<>>
    <3>1. CASE j = i - 1
      <4>1. j + 1 = i /\ j * c = b
        BY <2>1, <3>1
      <4> QED BY <2>7, <4>1
    <3>2. CASE j # i - 1
      <4>1. j \in 0 .. (i - 1) - 1 /\ j + 1 \in 1 .. i - 1
        BY <2>1, <3>2
      <4>2. t.tabla[j + 1] = IF j * c < Len(m) THEN sub[Desde(m, j * c)].tabla ELSE <<>>
        BY <2>2, <4>1
      <4>3. h[i].tabla[j + 1] = t.tabla[j + 1]
        BY <2>7, <4>1
      <4> QED BY <4>2, <4>3
    <3> QED BY <3>1, <3>2
  <2> HIDE DEF Tablas, nueva, t
  <2> QED BY <2>1, <2>6, <2>7, <2>8
<1> DEFINE Cumple(i) == Bien(h[i], i)
           Mal == {i \in 0 .. E : ~Cumple(i)}
<1>5. Mal = {}
  <2>1. Cumple(0) /\ \A i \in 1 .. E : Cumple(i - 1) => Cumple(i)
    BY <1>3, <1>4
  <2> HIDE DEF Cumple
  <2> SUFFICES ASSUME Mal # {} PROVE FALSE
    OBVIOUS
  <2>2. PICK n \in Mal : \A i \in Mal : n <= i
    <3>1. Mal \subseteq Nat
      OBVIOUS
    <3> HIDE DEF Mal
    <3> QED BY <3>1, MenorNatural
  <2>3. n # 0
    BY <2>1, <2>2
  <2>4. n \in 1 .. E /\ n - 1 \in 0 .. E /\ n - 1 \notin Mal
    BY <2>2, <2>3, PaginacionAssumption
  <2> QED BY <2>1, <2>2, <2>4
<1>6. Bien(h[E], E)
  <2> HIDE DEF Bien
  <2> QED BY <1>5, PaginacionAssumption
<1> QED BY <1>1, <1>6

-----------------------------------------------------------------------------
(* The levels.                                                             *)

\* What crear_nivel_tabla does at a level, from what it does at the next one.
Nivel(n, g) ==
    IF n = CANTIDAD_NIVELES
    THEN [marcos \in Seq(Int) |-> TablaDeMarcos(marcos)]
    ELSE [marcos \in Seq(Int) |-> TablaDeTablas(g[n + 1], marcos)]

\* g does it at the last k + 1 levels.
EsArbol(g, k) == g = [n \in CANTIDAD_NIVELES - k .. CANTIDAD_NIVELES |-> Nivel(n, g)]

LEMMA ArbolExiste == \E g : EsArbol(g, CANTIDAD_NIVELES - 1)
<1> DEFINE N == CANTIDAD_NIVELES
           Sin == {k \in 0 .. N - 1 : ~\E g : EsArbol(g, k)}
<1> SUFFICES ASSUME N - 1 \in Sin PROVE FALSE
  BY PaginacionAssumption
<1>1. PICK k \in Sin : \A i \in Sin : k <= i
  <2>1. Sin \subseteq Nat /\ Sin # {}
    OBVIOUS
  <2> HIDE DEF Sin
  <2> QED BY <2>1, MenorNatural
<1>2. k # 0
  <2> DEFINE g == [n \in N - 0 .. N |-> [marcos \in Seq(Int) |-> TablaDeMarcos(marcos)]]
  <2>1. \A n \in N - 0 .. N : n = N
    BY PaginacionAssumption
  <2>2. EsArbol(g, 0)
    BY <2>1 DEF EsArbol, Nivel
  <2> QED BY <1>1, <2>2
<1>3. k - 1 \in 0 .. N - 1 /\ k - 1 \notin Sin /\ k \in Nat /\ N \in Nat
  BY <1>1, <1>2, PaginacionAssumption
<1>4. PICK g : EsArbol(g, k - 1)
  BY <1>3
<1> DEFINE m == N - k
           h == [n \in N - k .. N |-> IF n = m THEN Nivel(m, g) ELSE g[n]]
<1>5. EsArbol(h, k)
  <2>1. m \in Int /\ m < N
    BY <1>2, <1>3
  <2>2. ASSUME NEW n \in N - (k - 1) .. N
        PROVE  n # m /\ n \in N - k .. N /\ g[n] = Nivel(n, g)
    <3>1. n \in Int /\ N - (k - 1) <= n /\ n <= N
      BY <1>3
    <3>2. n # m /\ n \in N - k .. N
      BY <1>3, <3>1
    <3>3. g[n] = Nivel(n, g)
      BY <1>4 DEF EsArbol
    <3> QED BY <3>2, <3>3
  <2>3. ASSUME NEW n \in N - k .. N, n # N PROVE h[n + 1] = g[n + 1]
    <3>1. n + 1 \in N - (k - 1) .. N
      BY <1>3, <2>3
    <3> QED BY <2>2, <3>1
  <2>4. ASSUME NEW n \in N - k .. N PROVE h[n] = Nivel(n, g)
    <3>1. CASE n = m
      BY <3>1
    <3>2. CASE n # m
      <4>1. n \in N - (k - 1) .. N
        BY <1>3, <3>2
      <4> QED BY <2>2, <3>2, <4>1
    <3> QED BY <3>1, <3>2
  <2> HIDE DEF h
  <2>5. \A n \in N - k .. N : Nivel(n, h) = Nivel(n, g)
    BY <2>3 DEF Nivel
  <2>6. h = [n \in N - k .. N |-> h[n]]
    BY DEF h
  <2> QED BY <2>4, <2>5, <2>6 DEF EsArbol
<1> QED BY <1>1, <1>5

LEMMA CrearNivelEs ==
    ASSUME NEW n \in 1 .. CANTIDAD_NIVELES, NEW m \in Seq(Int)
    PROVE  CrearNivelTabla[n][m] = IF n = CANTIDAD_NIVELES THEN TablaDeMarcos(m)
                                   ELSE TablaDeTablas(CrearNivelTabla[n + 1], m)
<1>1. CANTIDAD_NIVELES - (CANTIDAD_NIVELES - 1) = 1
  BY PaginacionAssumption
<1>2. CrearNivelTabla = CHOOSE g : EsArbol(g, CANTIDAD_NIVELES - 1)
  BY <1>1 DEF CrearNivelTabla, EsArbol, Nivel
<1>3. EsArbol(CrearNivelTabla, CANTIDAD_NIVELES - 1)
  BY <1>2, ArbolExiste
<1>4. CrearNivelTabla[n] = Nivel(n, CrearNivelTabla)
  BY <1>1, <1>3 DEF EsArbol
<1> QED BY <1>4 DEF Nivel

\* A table of level n maps as many frames as the tree below it has room for.
LEMMA RestoDeNivel ==
    ASSUME NEW n \in 1 .. CANTIDAD_NIVELES, NEW m \in Seq(Int)
    PROVE  CrearNivelTabla[n][m].resto = Desde(m, Potencia[CANTIDAD_NIVELES - n + 1])
<1> DEFINE N == CANTIDAD_NIVELES
           Bien(k) == \A x \in Seq(Int) : CrearNivelTabla[N - k][x].resto = Desde(x, Potencia[k + 1])
           Mal == {k \in 0 .. N - 1 : ~Bien(k)}
<1>1. Bien(0)
  <2>1. N \in 1 .. N /\ N - 0 = N /\ 0 + 1 = 1 /\ 0 \in 0 .. N - 1
    BY PaginacionAssumption
  <2>2. Potencia[1] = ENTRADAS_POR_TABLA
    <3>1. Potencia[0 + 1] = ENTRADAS_POR_TABLA * Potencia[0]
      BY <2>1, PotenciaEs
    <3> QED BY <3>1, PotenciaEs, PaginacionAssumption
  <2>3. ASSUME NEW x \in Seq(Int)
        PROVE  CrearNivelTabla[N - 0][x].resto = Desde(x, Potencia[0 + 1])
    <3>1. CrearNivelTabla[N][x] = TablaDeMarcos(x)
      BY <2>1, CrearNivelEs
    <3>2. TablaDeMarcos(x).resto = Desde(x, ENTRADAS_POR_TABLA)
      BY DEF TablaDeMarcos
    <3> QED BY <2>1, <2>2, <3>1, <3>2
  <2> QED BY <2>3
<1>2. ASSUME NEW k \in 1 .. N - 1, Bien(k - 1) PROVE Bien(k)
  <2>1. /\ N - k \in 1 .. N /\ N - k # N /\ (N - k) + 1 = N - (k - 1) /\ (k - 1) + 1 = k
        /\ k \in 0 .. N /\ k \in 0 .. N - 1
    BY PaginacionAssumption
  <2>2. Potencia[k] \in Nat \ {0} /\ Potencia[k + 1] = ENTRADAS_POR_TABLA * Potencia[k]
    BY <2>1, PotenciaEs
  <2>3. \A x \in Seq(Int) : CrearNivelTabla[N - (k - 1)][x].resto = Desde(x, Potencia[k])
    BY <1>2, <2>1
  <2>4. ASSUME NEW x \in Seq(Int)
        PROVE  CrearNivelTabla[N - k][x].resto = Desde(x, Potencia[k + 1])
    <3>1. CrearNivelTabla[N - k][x] = TablaDeTablas(CrearNivelTabla[N - (k - 1)], x)
      BY <2>1, CrearNivelEs
    <3>2. TablaDeTablas(CrearNivelTabla[N - (k - 1)], x).resto = Desde(x, ENTRADAS_POR_TABLA * Potencia[k])
      <4> DEFINE sub == CrearNivelTabla[N - (k - 1)]
                 c == Potencia[k]
      <4>1. c \in Nat \ {0} /\ \A y \in Seq(Int) : sub[y].resto = Desde(y, c)
        BY <2>2, <2>3
      <4> HIDE DEF sub, c
      <4>2. TablaDeTablas(sub, x).resto = Desde(x, ENTRADAS_POR_TABLA * c)
        BY <4>1, TablaDeTablasEs
      <4> QED BY <4>2 DEF sub, c
    <3> QED BY <2>2, <3>1, <3>2
  <2> QED BY <2>4
<1> HIDE DEF Bien
<1>3. Mal = {}
  <2> SUFFICES ASSUME Mal # {} PROVE FALSE
    OBVIOUS
  <2>1. PICK k \in Mal : \A i \in Mal : k <= i
    <3>1. Mal \subseteq Nat
      OBVIOUS
    <3> HIDE DEF Mal
    <3> QED BY <3>1, MenorNatural
  <2>2. k # 0
    BY <1>1, <2>1
  <2>3. k \in 1 .. N - 1 /\ k - 1 \in 0 .. N - 1 /\ k - 1 \notin Mal
    BY <2>1, <2>2, PaginacionAssumption
  <2>4. Bien(k - 1)
    BY <2>3
  <2>5. Bien(k)
    BY <1>2, <2>3, <2>4
  <2> QED BY <2>1, <2>5
<1>4. N - n \in 0 .. N - 1 /\ N - (N - n) = n
  BY PaginacionAssumption
<1>5. Bien(N - n)
  BY <1>3, <1>4
<1> QED BY <1>4, <1>5 DEF Bien

-----------------------------------------------------------------------------
(* The walk.                                                               *)

\* The first page of the table of level n + 1 where pag is.
Base(pag, n) == (pag \div Potencia[CANTIDAD_NIVELES - n]) * Potencia[CANTIDAD_NIVELES - n]

\* The index of each level goes from that page to the one of the next level.
LEMMA BaseAvanza ==
    ASSUME NEW pag \in 0 .. Capacidad - 1
    PROVE  /\ Base(pag, 0) = 0 /\ Base(pag, CANTIDAD_NIVELES) = pag
           /\ \A n \in 0 .. CANTIDAD_NIVELES : Base(pag, n) \in Nat
           /\ \A n \in 1 .. CANTIDAD_NIVELES :
                /\ Indice(pag, n) \in 0 .. ENTRADAS_POR_TABLA - 1
                /\ Base(pag, n) = Base(pag, n - 1) + Indice(pag, n) * Potencia[CANTIDAD_NIVELES - n]
<1> DEFINE N == CANTIDAD_NIVELES
           E == ENTRADAS_POR_TABLA
<1>1. pag \in Nat /\ N \in Nat \ {0} /\ E \in Nat \ {0}
  <2>1. Capacidad \in Nat
    BY PotenciaEs, PaginacionAssumption DEF Capacidad
  <2> QED BY <2>1, PaginacionAssumption
<1>2. Base(pag, 0) = 0
  <2> DEFINE c == Potencia[N]
  <2>1. c \in Nat \ {0} /\ pag \in 0 .. c - 1 /\ N - 0 = N
    BY <1>1, PotenciaEs DEF Capacidad
  <2>2. pag \div c = 0
    <3> HIDE DEF c
    <3>1. pag = c * 0 + pag
      BY <1>1, <2>1
    <3> QED BY <1>1, <2>1, <3>1, CocienteUnico
  <2> QED BY <2>1, <2>2 DEF Base
<1>3. Base(pag, N) = pag
  <2>1. Potencia[N - N] = 1
    BY <1>1, PotenciaEs
  <2>2. pag \div 1 = pag
    BY <1>1
  <2> QED BY <1>1, <2>1, <2>2 DEF Base
<1>4. ASSUME NEW n \in 0 .. N PROVE Base(pag, n) \in Nat
  <2> DEFINE c == Potencia[N - n]
  <2>1. c \in Nat \ {0}
    BY <1>1, PotenciaEs
  <2> HIDE DEF c
  <2>2. pag \div c \in Nat
    BY <1>1, <2>1
  <2>3. (pag \div c) * c \in Nat
    BY <2>1, <2>2
  <2> QED BY <2>3 DEF Base, c
<1>5. ASSUME NEW n \in 1 .. N
      PROVE  /\ Indice(pag, n) \in 0 .. E - 1
             /\ Base(pag, n) = Base(pag, n - 1) + Indice(pag, n) * Potencia[N - n]
  <2> DEFINE c == Potencia[N - n]
             x == pag \div c
  <2>1. N - n \in 0 .. N - 1 /\ N - n \in 0 .. N /\ N - (n - 1) = (N - n) + 1
    BY <1>1
  <2>2. c \in Nat \ {0} /\ Potencia[N - (n - 1)] = E * c
    BY <2>1, PotenciaEs
  <2> HIDE DEF c
  <2>3. x \in Nat /\ pag \div (E * c) = x \div E
    BY <1>1, <2>2, Cociente, CocienteDoble
  <2>4. Indice(pag, n) = x % E
    BY DEF Indice, x, c
  <2> HIDE DEF x
  <2> DEFINE y == x \div E
             s == x % E
  <2>5. y \in Nat /\ s \in 0 .. E - 1 /\ x = E * y + s
    BY <1>1, <2>3, Cociente
  <2>6. Base(pag, n) = x * c /\ Base(pag, n - 1) = y * (E * c)
    BY <2>2, <2>3 DEF Base, c, x
  <2> HIDE DEF y, s
  <2>7. (E * y + s) * c = y * (E * c) + s * c
    <3> HIDE DEF N, E
    <3> QED BY <1>1, <2>2, <2>5
  <2> QED BY <2>4, <2>5, <2>6, <2>7 DEF s, c
<1> QED BY <1>2, <1>3, <1>4, <1>5

\* One table per level, NULL once an index is past the end of one.
Baja(t, pag, n) == IF Indice(pag, n) >= Len(t) THEN <<>> ELSE t[Indice(pag, n) + 1]

EsBajada(t, raiz, pag, k) == t = [n \in 0 .. k |-> IF n = 0 THEN raiz ELSE Baja(t[n - 1], pag, n)]

LEMMA BajadaExiste ==
    ASSUME NEW raiz, NEW pag
    PROVE  \E t : EsBajada(t, raiz, pag, CANTIDAD_NIVELES - 1)
<1> DEFINE N == CANTIDAD_NIVELES
           Sin == {k \in 0 .. N - 1 : ~\E t : EsBajada(t, raiz, pag, k)}
<1> SUFFICES ASSUME N - 1 \in Sin PROVE FALSE
  BY PaginacionAssumption
<1>1. PICK k \in Sin : \A i \in Sin : k <= i
  <2>1. Sin \subseteq Nat /\ Sin # {}
    OBVIOUS
  <2> HIDE DEF Sin
  <2> QED BY <2>1, MenorNatural
<1>2. k # 0
  <2>1. EsBajada([n \in 0 .. 0 |-> raiz], raiz, pag, 0)
    BY DEF EsBajada
  <2> QED BY <1>1, <2>1
<1>3. k - 1 \in 0 .. N - 1 /\ k - 1 \notin Sin /\ k \in Nat
  BY <1>1, <1>2, PaginacionAssumption
<1>4. PICK g : EsBajada(g, raiz, pag, k - 1)
  BY <1>3
<1> DEFINE h == [n \in 0 .. k |-> IF n = k THEN Baja(g[k - 1], pag, k) ELSE g[n]]
<1>5. EsBajada(h, raiz, pag, k)
  <2>1. ASSUME NEW n \in 0 .. k
        PROVE  h[n] = IF n = 0 THEN raiz ELSE Baja(h[n - 1], pag, n)
    <3>1. CASE n = k
      BY <1>2, <1>3, <3>1
    <3>2. CASE n # k /\ n # 0
      BY <1>3, <1>4, <3>2 DEF EsBajada
    <3>3. CASE n = 0
      BY <1>2, <1>3, <1>4, <3>3 DEF EsBajada
    <3> QED BY <3>1, <3>2, <3>3
  <2>2. h = [n \in 0 .. k |-> h[n]]
    OBVIOUS
  <2> HIDE DEF h
  <2> QED BY <2>1, <2>2 DEF EsBajada
<1> QED BY <1>1, <1>5

\* The table the walk reaches at level n + 1, if the process has pages there.
TablaEn(m, pag, n) ==
    IF n = 0 \/ Base(pag, n) < Len(m)
    THEN CrearNivelTabla[n + 1][Desde(m, Base(pag, n))].tabla
    ELSE <<>>

\* From the table of level n to the one of level n + 1.
LEMMA BajaUnNivel ==
    ASSUME NEW m \in Seq(Int), NEW pag \in 0 .. Capacidad - 1, NEW n \in 1 .. CANTIDAD_NIVELES - 1
    PROVE  Baja(TablaEn(m, pag, n - 1), pag, n) = TablaEn(m, pag, n)
<1> DEFINE N == CANTIDAD_NIVELES
           b == Base(pag, n - 1)
           i == Indice(pag, n)
           c == Potencia[N - n]
           x == Desde(m, b)
           sub == CrearNivelTabla[n + 1]
<1>1. /\ n \in 1 .. N /\ n - 1 \in 0 .. N /\ n # N /\ n # 0 /\ (n - 1) + 1 = n /\ N - n \in 0 .. N
      /\ n + 1 \in 1 .. N /\ N - (n + 1) + 1 = N - n
  BY PaginacionAssumption
<1>2. /\ b \in Nat /\ Base(pag, n) = b + i * c /\ i \in 0 .. ENTRADAS_POR_TABLA - 1 /\ c \in Nat \ {0}
      /\ n - 1 = 0 => b = 0
  BY <1>1, BaseAvanza, PotenciaEs
<1>3. x \in Seq(Int) /\ Len(x) = IF b < Len(m) THEN Len(m) - b ELSE 0
  BY <1>2, DesdeEs
<1>4. \A y \in Seq(Int) : sub[y].resto = Desde(y, c)
  BY <1>1, RestoDeNivel
<1>5. CrearNivelTabla[n][x] = TablaDeTablas(sub, x)
  BY <1>1, <1>3, CrearNivelEs
<1>6. Base(pag, n) < Len(m) <=> (b < Len(m) /\ i * c < Len(x))
  <2>1. Len(m) \in Nat /\ i * c \in Nat
    <3>1. i \in Nat /\ c \in Nat
      BY <1>2, PaginacionAssumption
    <3> HIDE DEF i, c
    <3> QED BY <3>1
  <2> HIDE DEF b, i, c, x
  <2> DEFINE d == i * c
  <2>2. d \in Nat /\ Base(pag, n) = b + d
    BY <1>2, <2>1
  <2> HIDE DEF d
  <2>3. b + d < Len(m) <=> (b < Len(m) /\ d < Len(x))
    <3>1. b \in Nat
      BY <1>2
    <3>2. Len(x) = IF b < Len(m) THEN Len(m) - b ELSE 0
      BY <1>3
    <3> QED BY ONLY <2>1, <2>2, <3>1, <3>2
  <2> QED BY <2>2, <2>3 DEF d
<1>7. CASE n - 1 = 0 \/ b < Len(m)
  <2>1. TablaEn(m, pag, n - 1) = TablaDeTablas(sub, x).tabla
    BY <1>1, <1>5, <1>7 DEF TablaEn
  <2>2. /\ Len(TablaDeTablas(sub, x).tabla) = ENTRADAS_POR_TABLA
        /\ TablaDeTablas(sub, x).tabla[i + 1] = IF i * c < Len(x) THEN sub[Desde(x, i * c)].tabla ELSE <<>>
    <3> HIDE DEF sub, x, c, i
    <3> QED BY <1>2, <1>3, <1>4, TablaDeTablasEs
  <2>3. Baja(TablaEn(m, pag, n - 1), pag, n) = IF i * c < Len(x) THEN sub[Desde(x, i * c)].tabla ELSE <<>>
    <3>1. ~(i >= ENTRADAS_POR_TABLA)
      BY <1>2, PaginacionAssumption
    <3> QED BY <2>1, <2>2, <3>1 DEF Baja
  <2>4. i * c \in Nat
    <3>1. i \in Nat /\ c \in Nat
      BY <1>2, PaginacionAssumption
    <3> HIDE DEF i, c
    <3> QED BY <3>1
  <2>5. Desde(x, i * c) = Desde(m, Base(pag, n))
    <3> DEFINE d == i * c
    <3>1. d \in Nat /\ Base(pag, n) = b + d
      BY <1>2, <2>4
    <3>2. Desde(x, d) = Desde(m, b + d)
      <4> HIDE DEF d, b
      <4> QED BY <1>2, <3>1, DesdeDesde
    <3> QED BY <3>1, <3>2
  <2>6. i * c < Len(x) <=> Base(pag, n) < Len(m)
    <3>1. CASE b < Len(m)
      BY <1>6, <3>1
    <3>2. CASE ~(b < Len(m))
      <4>1. Len(x) = 0
        BY <1>3, <3>2
      <4> QED BY <1>6, <2>4, <3>2, <4>1
    <3> QED BY <3>1, <3>2
  <2> QED BY <1>1, <2>3, <2>5, <2>6 DEF TablaEn
<1>8. CASE ~(n - 1 = 0 \/ b < Len(m))
  <2>1. TablaEn(m, pag, n - 1) = <<>> /\ TablaEn(m, pag, n) = <<>>
    BY <1>1, <1>6, <1>8 DEF TablaEn
  <2>2. i >= Len(<<>>)
    BY <1>2, EmptySeq, PaginacionAssumption
  <2> QED BY <2>1, <2>2 DEF Baja
<1> QED BY <1>7, <1>8

LEMMA MenorDeDos ==
    ASSUME NEW a \in Nat, NEW b \in Nat
    PROVE  Min({a, b}) = IF a <= b THEN a ELSE b
<1> DEFINE m == IF a <= b THEN a ELSE b
<1>1. m \in {a, b} /\ \A y \in {a, b} : m <= y
  OBVIOUS
<1>2. ASSUME NEW z \in {a, b}, \A y \in {a, b} : z <= y PROVE z = m
  BY <1>2
<1> HIDE DEF m
<1>3. Min({a, b}) = m
  BY <1>1, <1>2 DEF Min
<1> QED BY <1>3 DEF m

\* The walk finds the frame that was given for the page, whatever the number of
\* levels and of entries, and nothing for a page that the process does not have.
LEMMA ObtenerMarcoEs ==
    ASSUME NEW m \in Seq(Int), NEW pag \in 0 .. Capacidad - 1
    PROVE  ObtenerMarco(TablaRaiz(m), pag) = IF pag < Len(m) THEN m[pag + 1] ELSE -1
<1> DEFINE N == CANTIDAD_NIVELES
           raiz == TablaRaiz(m)
           Marco(hoja) == IF Indice(pag, N) >= Len(hoja) THEN -1 ELSE hoja[Indice(pag, N) + 1]
<1>1. PICK t : EsBajada(t, raiz, pag, N - 1) /\ ObtenerMarco(raiz, pag) = Marco(t[N - 1])
  <2>1. ObtenerMarco(raiz, pag) = Marco((CHOOSE t : EsBajada(t, raiz, pag, N - 1))[N - 1])
    BY DEF ObtenerMarco, EsBajada, Baja
  <2> HIDE DEF Marco
  <2> QED BY <2>1, BajadaExiste
<1>2. t[0] = raiz /\ \A n \in 1 .. N - 1 : t[n] = Baja(t[n - 1], pag, n)
  BY <1>1, PaginacionAssumption DEF EsBajada
<1> DEFINE Bien(n) == t[n] = TablaEn(m, pag, n)
           Mal == {n \in 0 .. N - 1 : ~Bien(n)}
<1>3. Bien(0)
  <2>1. Base(pag, 0) = 0 /\ Desde(m, 0) = m /\ 0 + 1 = 1
    BY BaseAvanza, DesdeDesde
  <2>2. TablaEn(m, pag, 0) = CrearNivelTabla[1][m].tabla
    BY <2>1 DEF TablaEn
  <2> QED BY <1>2, <2>2 DEF TablaRaiz
<1>4. ASSUME NEW n \in 1 .. N - 1, Bien(n - 1) PROVE Bien(n)
  BY <1>2, <1>4, BajaUnNivel
<1>5. Bien(N - 1)
  <2> HIDE DEF Bien
  <2> SUFFICES ASSUME Mal # {} PROVE FALSE
    BY PaginacionAssumption
  <2>1. PICK k \in Mal : \A i \in Mal : k <= i
    <3>1. Mal \subseteq Nat
      OBVIOUS
    <3> HIDE DEF Mal
    <3> QED BY <3>1, MenorNatural
  <2>2. k # 0
    BY <1>3, <2>1
  <2>3. k \in 1 .. N - 1 /\ k - 1 \in 0 .. N - 1 /\ k - 1 \notin Mal
    BY <2>1, <2>2, PaginacionAssumption
  <2> QED BY <1>4, <2>1, <2>3
<1> DEFINE b == Base(pag, N - 1)
           i == Indice(pag, N)
           x == Desde(m, b)
           E == ENTRADAS_POR_TABLA
<1>6. N \in 1 .. N /\ N - 1 \in 0 .. N /\ N - N = 0 /\ (N - 1) + 1 = N
  BY PaginacionAssumption
<1>7. b \in Nat /\ i \in 0 .. E - 1 /\ pag = b + i /\ E \in Nat \ {0} /\ (N - 1 = 0 => b = 0)
  <2>1. b \in Nat /\ i \in 0 .. E - 1 /\ pag = b + i * Potencia[0] /\ (N - 1 = 0 => b = 0)
    BY <1>6, BaseAvanza
  <2>2. Potencia[0] = 1
    BY PotenciaEs
  <2> HIDE DEF b, i
  <2> QED BY <2>1, <2>2, PaginacionAssumption
<1>8. /\ x \in Seq(Int) /\ Len(x) = (IF b < Len(m) THEN Len(m) - b ELSE 0) /\ Len(m) \in Nat
      /\ \A j \in 1 .. Len(m) - b : x[j] = m[b + j]
  <2> HIDE DEF b, i
  <2>1. b \in Nat /\ Len(m) \in Nat
    BY <1>7
  <2> HIDE DEF x
  <2>2. /\ Desde(m, b) \in Seq(Int)
        /\ Len(Desde(m, b)) = IF b < Len(m) THEN Len(m) - b ELSE 0
        /\ \A j \in 1 .. Len(m) - b : Desde(m, b)[j] = m[b + j]
    BY <2>1, DesdeEs
  <2> QED BY <2>1, <2>2 DEF x
<1> HIDE DEF b, i, x
<1>9. CASE N - 1 = 0 \/ b < Len(m)
  <2>1. t[N - 1] = TablaDeMarcos(x).tabla
    BY <1>5, <1>6, <1>8, <1>9, CrearNivelEs DEF TablaEn, b, x
  <2> DEFINE e == Min({E, Len(x)})
  <2>2. e = (IF E <= Len(x) THEN E ELSE Len(x)) /\ e \in Nat
    <3>1. Len(x) \in Nat
      BY <1>7, <1>8
    <3> HIDE DEF E
    <3> QED BY <1>7, <3>1, MenorDeDos
  <2> HIDE DEF e
  <2>3. /\ Len(SubSeq(x, 1, e)) = e
        /\ \A j \in 1 .. e : SubSeq(x, 1, e)[j] = x[j]
    <3>1. \A j \in 1 .. e : x[j] \in Int
      BY <1>8, <2>2
    <3>2. /\ Len(SubSeq(x, 1, e)) = IF 1 <= e THEN e - 1 + 1 ELSE 0
          /\ \A j \in 1 .. e - 1 + 1 : SubSeq(x, 1, e)[j] = x[1 + j - 1]
      BY <2>2, <3>1, SubSeqProperties
    <3>3. e - 1 + 1 = e /\ \A j \in 1 .. e : 1 + j - 1 = j
      BY <2>2
    <3> QED BY <2>2, <3>2, <3>3
  <2>4. t[N - 1] = SubSeq(x, 1, e)
    BY <2>1 DEF TablaDeMarcos, e
  <2>5. i >= e <=> ~(pag < Len(m))
    BY <1>7, <1>8, <1>9, <2>2
  <2>6. i < e => SubSeq(x, 1, e)[i + 1] = m[pag + 1]
    <3>1. ASSUME i < e PROVE i + 1 \in 1 .. e /\ i + 1 \in 1 .. Len(m) - b /\ b + (i + 1) = pag + 1
      BY <1>7, <1>8, <1>9, <2>2, <3>1
    <3>2. ASSUME i < e PROVE SubSeq(x, 1, e)[i + 1] = m[pag + 1]
      <4>1. SubSeq(x, 1, e)[i + 1] = x[i + 1]
        BY <2>3, <3>1, <3>2
      <4>2. x[i + 1] = m[b + (i + 1)]
        BY <1>8, <3>1, <3>2
      <4> QED BY <3>1, <3>2, <4>1, <4>2
    <3> QED BY <3>2
  <2>7. Marco(t[N - 1]) = IF i >= e THEN -1 ELSE SubSeq(x, 1, e)[i + 1]
    BY <2>3, <2>4 DEF i
  <2>8. i >= e <=> ~(i < e)
    BY <1>7, <2>2
  <2> HIDE DEF Marco, raiz
  <2> QED BY <1>1, <2>5, <2>6, <2>7, <2>8 DEF raiz
<1>10. CASE ~(N - 1 = 0 \/ b < Len(m))
  <2>1. t[N - 1] = <<>>
    BY <1>5, <1>10 DEF TablaEn, b
  <2>2. Marco(<<>>) = -1
    BY <1>7, EmptySeq DEF i
  <2>3. ~(pag < Len(m))
    BY <1>7, <1>8, <1>10
  <2> HIDE DEF Marco
  <2> QED BY <1>1, <2>1, <2>2, <2>3
<1> QED BY <1>9, <1>10

-----------------------------------------------------------------------------
(* The frames a process is given.                                          *)

Enumera(s, n, S) ==
    /\ s \in [1 .. n -> S]
    /\ \A i, j \in 1 .. n : i < j => s[i] < s[j]
    /\ \A f \in S : f \in Range(s) \/ \A i \in 1 .. n : s[i] < f

\* As many of the lowest as there are.
LEMMA EnumeraExiste ==
    ASSUME NEW S \in SUBSET Nat, IsFiniteSet(S), NEW k \in 0 .. Cardinality(S)
    PROVE  \E s : Enumera(s, k, S)
<1> DEFINE C == Cardinality(S)
           Sin == {n \in 0 .. C : ~\E s : Enumera(s, n, S)}
<1> SUFFICES ASSUME Sin # {} PROVE FALSE
  OBVIOUS
<1>0. C \in Nat
  BY FS_CardinalityType
<1>1. PICK n \in Sin : \A i \in Sin : n <= i
  <2>1. Sin \subseteq Nat
    OBVIOUS
  <2> HIDE DEF Sin
  <2> QED BY <2>1, MenorNatural
<1>2. n # 0
  <2>1. Enumera([i \in 1 .. 0 |-> 0], 0, S)
    BY DEF Enumera
  <2> QED BY <1>1, <2>1
<1>3. n - 1 \in 0 .. C /\ n - 1 \notin Sin /\ n \in Nat /\ n <= C /\ n - 1 \in Nat
  BY <1>0, <1>1, <1>2
<1>4. PICK s : Enumera(s, n - 1, S)
  BY <1>3
<1> DEFINE R == Range(s)
<1>5. S \ R # {}
  <2> SUFFICES ASSUME S \subseteq R PROVE FALSE
    OBVIOUS
  <2>1. IsFiniteSet(1 .. n - 1) /\ Cardinality(1 .. n - 1) = n - 1
    BY <1>3, FS_Interval
  <2>2. s \in Surjection(1 .. n - 1, R)
    BY <1>4 DEF Enumera, Range, Surjection
  <2>3. IsFiniteSet(R) /\ Cardinality(R) <= n - 1
    BY <2>1, <2>2, FS_Surjection
  <2>4. C <= Cardinality(R) /\ Cardinality(R) \in Nat
    BY <2>3, FS_Subset, FS_CardinalityType
  <2> QED BY <1>0, <1>3, <2>3, <2>4
<1>6. PICK m \in S \ R : \A f \in S \ R : m <= f
  <2>1. S \ R \subseteq Nat
    OBVIOUS
  <2> HIDE DEF R
  <2> QED BY <1>5, <2>1, MenorNatural
<1> DEFINE t == [i \in 1 .. n |-> IF i = n THEN m ELSE s[i]]
<1>7. /\ s \in [1 .. n - 1 -> S]
      /\ \A i, j \in 1 .. n - 1 : i < j => s[i] < s[j]
      /\ \A f \in S : f \in R \/ \A i \in 1 .. n - 1 : s[i] < f
  BY <1>4 DEF Enumera
<1>8. \A i \in 1 .. n - 1 : s[i] < m
  BY <1>6, <1>7
<1>9. Enumera(t, n, S)
  <2>1. t \in [1 .. n -> S]
    BY <1>3, <1>6, <1>7
  <2>2. ASSUME NEW i \in 1 .. n, NEW j \in 1 .. n, i < j PROVE t[i] < t[j]
    <3>1. i \in 1 .. n - 1 /\ t[i] = s[i]
      BY <1>3, <2>2
    <3>2. CASE j = n
      BY <1>8, <3>1, <3>2
    <3>3. CASE j # n
      <4>1. j \in 1 .. n - 1 /\ t[j] = s[j]
        BY <1>3, <3>3
      <4> QED BY <1>7, <2>2, <3>1, <4>1
    <3> QED BY <3>2, <3>3
  <2>3. ASSUME NEW f \in S, f \notin Range(t), NEW i \in 1 .. n PROVE t[i] < f
    <3>1. R \subseteq Range(t)
      <4>1. DOMAIN s = 1 .. n - 1 /\ DOMAIN t = 1 .. n
        BY <1>7
      <4>2. \A k2 \in 1 .. n - 1 : k2 \in 1 .. n /\ t[k2] = s[k2]
        BY <1>3
      <4> HIDE DEF t
      <4> QED BY <4>1, <4>2 DEF Range
    <3>2. m \in Range(t)
      <4>1. n \in DOMAIN t /\ t[n] = m
        BY <1>2, <1>3
      <4> QED BY <4>1 DEF Range
    <3>3. f \in S \ R /\ f # m
      BY <2>3, <3>1, <3>2
    <3>4. CASE i = n
      BY <1>6, <3>3, <3>4
    <3>5. CASE i # n
      <4>1. i \in 1 .. n - 1 /\ t[i] = s[i]
        BY <1>3, <3>5
      <4> QED BY <1>7, <3>3, <4>1
    <3> QED BY <3>4, <3>5
  <2> HIDE DEF t
  <2> QED BY <2>1, <2>2, <2>3 DEF Enumera
<1> QED BY <1>1, <1>9

LEMMA TomadosBien ==
    ASSUME TraduccionAssumption, NEW n \in Nat, n <= Cardinality(MarcosLibres)
    PROVE  SiguientesLibres(n) \in [1 .. n -> 0 .. Marcos - 1]
<1>1. MarcosLibres \in SUBSET Nat /\ MarcosLibres \subseteq 0 .. Marcos - 1 /\ IsFiniteSet(MarcosLibres)
  <2>1. IsFiniteSet(0 .. Marcos - 1) /\ MarcosLibres \subseteq 0 .. Marcos - 1
    BY FS_Interval DEF MarcosLibres, TraduccionAssumption
  <2>2. IsFiniteSet(MarcosLibres)
    BY <2>1, FS_Subset
  <2>3. MarcosLibres \subseteq Nat
    <3>1. \A x \in 0 .. Marcos - 1 : x \in Nat
      BY DEF TraduccionAssumption
    <3> QED BY <2>1, <3>1
  <2> QED BY <2>1, <2>2, <2>3
<1>2. n \in 0 .. Cardinality(MarcosLibres)
  BY <1>1, FS_CardinalityType
<1>3. \E s : Enumera(s, n, MarcosLibres)
  BY <1>1, <1>2, EnumeraExiste
<1>4. SiguientesLibres(n) \in [1 .. n -> MarcosLibres]
  BY <1>3 DEF SiguientesLibres, Enumera
<1> QED BY <1>1, <1>4

-----------------------------------------------------------------------------
(* The page tables of Traduccion: who has frames, and what a walk gives.        *)

\* Who is in memory has a frame for each page, and nobody else has any.
Cargados == \A p \in Procs : Len(marcosDe[p]) = IF p \in Residentes THEN Paginas[p] ELSE 0

CpuConProceso ==
    /\ cpu.pc # "lista" => cpu.pid \in Procs
    /\ cpu.pc = "ejecuta" => estado[cpu.pid] = "ejecuta"

TablasInv == TypeOK /\ IInv /\ Cargados /\ CpuConProceso

\* navegarNiveles answers a frame of the process, although each of its requests
\* takes the entry of a level for a page: the last one is no further than the page.
LEMMA CaminoDaMarco ==
    ASSUME NEW m \in Seq(0 .. Marcos - 1), Len(m) <= Capacidad, NEW pag \in Nat, pag < Len(m)
    PROVE  NavegarNiveles(TablaRaiz(m), pag) \in 0 .. Marcos - 1
<1> DEFINE N == CANTIDAD_NIVELES
           i == Indice(pag, N)
<1>1. Marcos \in Nat /\ N \in Nat \ {0} /\ ENTRADAS_POR_TABLA \in Nat \ {0} /\ N - N = 0
  BY TraduccionAssumption, PaginacionAssumption
<1>2. i \in Nat /\ i <= pag
  <2> DEFINE x == pag \div 1
             q == x \div ENTRADAS_POR_TABLA
             r == x % ENTRADAS_POR_TABLA
  <2>1. Potencia[0] = 1 /\ x = pag
    BY PotenciaEs
  <2>2. i = r
    BY <1>1, <2>1 DEF Indice
  <2>3. q \in Nat /\ r \in 0 .. ENTRADAS_POR_TABLA - 1 /\ x = ENTRADAS_POR_TABLA * q + r
    BY <1>1, <2>1, Cociente
  <2>4. ENTRADAS_POR_TABLA * q \in Nat
    BY <1>1, <2>3
  <2> DEFINE d == ENTRADAS_POR_TABLA * q
  <2>5. d \in Nat /\ r \in Nat /\ pag = d + r
    BY <1>1, <2>1, <2>3, <2>4
  <2> HIDE DEF d, r, i
  <2> QED BY <2>2, <2>5
<1>3. i \in 0 .. Capacidad - 1 /\ i < Len(m) /\ i + 1 \in 1 .. Len(m)
  <2>1. Capacidad \in Nat /\ Len(m) \in Nat
    BY PotenciaEs, <1>1 DEF Capacidad
  <2> HIDE DEF i
  <2> QED BY <1>2, <2>1
<1>4. m \in Seq(Int)
  BY <1>1
<1>5. NavegarNiveles(TablaRaiz(m), pag) = ObtenerMarco(TablaRaiz(m), i)
  BY <1>1 DEF NavegarNiveles
<1>6. ObtenerMarco(TablaRaiz(m), i) = m[i + 1]
  <2> HIDE DEF i
  <2> QED BY <1>3, <1>4, ObtenerMarcoEs
<1>7. m[i + 1] \in 0 .. Marcos - 1
  <2>1. i + 1 \in 1 .. Len(m)
    BY <1>3
  <2> DEFINE F == 0 .. Marcos - 1
             j == i + 1
  <2>2. m \in Seq(F) /\ j \in 1 .. Len(m)
    BY <2>1
  <2> HIDE DEF F, j
  <2>3. m[j] \in F
    BY <2>2
  <2> QED BY <2>3 DEF F, j
<1> QED BY <1>5, <1>6, <1>7

LEMMA TablasIniciales == Init => TablasInv
<1> SUFFICES ASSUME Init PROVE TablasInv
  OBVIOUS
<1>1. IInv
  BY IniciaInvariante DEF Init
<1>2. TypeOK
  BY <1>1, TraduccionAssumption DEF Init, TypeOK, IInv, Estados, Ninguna
<1>3. Cargados /\ CpuConProceso
  BY EmptySeq DEF Init, Cargados, CpuConProceso, Residentes
<1> QED BY <1>1, <1>2, <1>3 DEF TablasInv

LEMMA TlbQuieta ==
    ASSUME IInv, UNCHANGED tlbVars
    PROVE  IInv'
BY DEF tlbVars, IInv, TlbTypeOK, SinRepetidas, ConMarco, Contadores, ContadoresDistintos, EnUso

\* A process that is given its frames.
LEMMA TomarDeja ==
    ASSUME TablasInv, NEW p \in Procs, TomarMarcos(p)
    PROVE  /\ marcosDe' \in [Procs -> Seq(0 .. Marcos - 1)]
           /\ Len(marcosDe'[p]) = Paginas[p]
           /\ \A q \in Procs \ {p} : marcosDe'[q] = marcosDe[q]
<1> DEFINE n == Paginas[p]
           s == SiguientesLibres(n)
<1>1. n \in Nat /\ n <= Cardinality(MarcosLibres)
  <2>1. Capacidad \in Nat /\ Paginas[p] \in 0 .. Capacidad
    BY PotenciaEs, PaginacionAssumption, TraduccionAssumption DEF Capacidad
  <2> QED BY <2>1 DEF TomarMarcos
<1> HIDE DEF n
<1>2. s \in [1 .. n -> 0 .. Marcos - 1]
  BY <1>1, TomadosBien, TraduccionAssumption
<1> HIDE DEF s
<1>3. s \in Seq(0 .. Marcos - 1) /\ Len(s) = n
  <2> DEFINE F == 0 .. Marcos - 1
  <2>1. s \in [1 .. n -> F]
    BY <1>2
  <2> HIDE DEF F
  <2>2. s \in Seq(F) /\ Len(s) = n
    BY <1>1, <2>1
  <2> QED BY <2>2 DEF F
<1>4. marcosDe' = [marcosDe EXCEPT ![p] = s]
  BY DEF TomarMarcos, s, n
<1>5. marcosDe \in [Procs -> Seq(0 .. Marcos - 1)]
  BY DEF TablasInv, TypeOK
<1> QED BY <1>3, <1>4, <1>5 DEF n

\* Every step keeps the invariant, and is one of the TLB or leaves it alone.
LEMMA TablasPasos ==
    ASSUME TablasInv, [Next]_vars
    PROVE  TablasInv' /\ [TlbNext]_tlbVars
<1>1. CASE UNCHANGED vars
  <2>1. UNCHANGED tlbVars
    BY <1>1 DEF vars
  <2>2. IInv'
    BY <2>1, TlbQuieta DEF TablasInv
  <2>3. TypeOK' /\ Cargados' /\ CpuConProceso'
    BY <1>1, <2>2 DEF vars, TablasInv, TypeOK, IInv, Cargados, CpuConProceso, Residentes
  <2> QED BY <2>1, <2>2, <2>3 DEF TablasInv
<1>2. ASSUME NEW p \in Procs, Admitir(p) \/ Desuspender(p)
      PROVE  TablasInv' /\ UNCHANGED tlbVars
  <2>1. /\ UNCHANGED <<cpu, restan, ultima, cargaron>> /\ UNCHANGED tlbVars
        /\ estado[p] \in {"nuevo", "suspendido"} /\ estado' = [estado EXCEPT ![p] = "listo"]
        /\ TomarMarcos(p)
    BY <1>2 DEF Admitir, Desuspender
  <2>2. IInv'
    BY <2>1, TlbQuieta DEF TablasInv
  <2>3. /\ marcosDe' \in [Procs -> Seq(0 .. Marcos - 1)]
        /\ Len(marcosDe'[p]) = Paginas[p]
        /\ \A q \in Procs \ {p} : marcosDe'[q] = marcosDe[q]
    BY <2>1, TomarDeja
  <2>4. TypeOK'
    BY <2>1, <2>2, <2>3 DEF TablasInv, TypeOK, IInv, Estados
  <2>5. Cargados'
    BY <2>1, <2>3 DEF TablasInv, TypeOK, Cargados, Residentes
  <2>6. CpuConProceso'
    BY <2>1 DEF TablasInv, TypeOK, CpuConProceso
  <2> QED BY <2>1, <2>2, <2>4, <2>5, <2>6 DEF TablasInv
<1>3. ASSUME NEW p \in Procs, Suspender(p) \/ Finalizar(p)
      PROVE  TablasInv' /\ UNCHANGED tlbVars
  <2>1. /\ UNCHANGED <<cpu, restan, ultima>> /\ UNCHANGED tlbVars
        /\ cargaron' \in {cargaron, Mezcla}
        /\ estado[p] \in {"bloqueado", "saliendo"}
        /\ \E e \in {"suspendido", "terminado"} : estado' = [estado EXCEPT ![p] = e]
        /\ marcosDe' = [marcosDe EXCEPT ![p] = <<>>]
    BY <1>3 DEF Suspender, Finalizar
  <2>2. IInv'
    BY <2>1, TlbQuieta DEF TablasInv
  <2>3. <<>> \in Seq(0 .. Marcos - 1) /\ Len(<<>>) = 0
    BY EmptySeq
  <2>4. TypeOK'
    BY <2>1, <2>2, <2>3 DEF TablasInv, TypeOK, IInv, Estados
  <2>5. Cargados'
    BY <2>1, <2>3 DEF TablasInv, TypeOK, Cargados, Residentes
  <2>6. CpuConProceso'
    BY <2>1 DEF TablasInv, TypeOK, CpuConProceso
  <2> QED BY <2>1, <2>2, <2>4, <2>5, <2>6 DEF TablasInv
<1>4. ASSUME NEW p \in Procs, FinDeIo(p) \/ Despachar(p)
      PROVE  TablasInv' /\ UNCHANGED tlbVars
  <2>1. /\ UNCHANGED <<marcosDe, restan, ultima, cargaron>> /\ UNCHANGED tlbVars
        /\ estado[p] \in {"bloqueado", "listo"}
        /\ \/ estado[p] = "bloqueado" /\ estado' = [estado EXCEPT ![p] = "listo"] /\ cpu' = cpu
           \/ estado' = [estado EXCEPT ![p] = "ejecuta"] /\ cpu' = [pid |-> p, pc |-> "ejecuta"]
    BY <1>4 DEF FinDeIo, Despachar
  <2>2. IInv'
    BY <2>1, TlbQuieta DEF TablasInv
  <2>3. cpu' \in [pid : Procs \cup {Nadie}, pc : {"lista", "ejecuta", "desaloja", "espera"}]
    BY <2>1 DEF TablasInv, TypeOK
  <2>7. estado' \in [Procs -> Estados]
    BY <2>1 DEF TablasInv, TypeOK, Estados
  <2>6. TypeOK'
    BY <2>1, <2>2, <2>3, <2>7 DEF TablasInv, TypeOK, IInv
  <2>4. Cargados'
    BY <2>1 DEF TablasInv, TypeOK, Cargados, Residentes
  <2>5. CpuConProceso'
    BY <2>1 DEF TablasInv, TypeOK, CpuConProceso
  <2> QED BY <2>1, <2>2, <2>4, <2>5, <2>6 DEF TablasInv
<1>5. ASSUME NEW pag \in NrosPagina, Acceder(pag)
      PROVE  TablasInv' /\ [TlbNext]_tlbVars
  <2> DEFINE p == cpu.pid
             camina == NavegarNiveles(TablaRaiz(marcosDe[p]), pag)
  <2>1. /\ cpu.pc = "ejecuta" /\ p \in Procs /\ estado[p] = "ejecuta" /\ pag < Paginas[p]
        /\ UNCHANGED <<cpu, estado, marcosDe>> /\ cargaron' \in {{p}, Mezcla}
        /\ restan[p] > 0 /\ restan' = [restan EXCEPT ![p] = @ - 1]
        /\ ultima'.pid = p
        /\ Acierto(pag) \/ Fallo(pag, camina)
    BY <1>5 DEF Acceder, TablasInv, CpuConProceso, Acierto, Fallo
  <2> HIDE DEF camina
  <2>2. camina \in NrosMarco
    <3>1. /\ marcosDe[p] \in Seq(0 .. Marcos - 1) /\ Len(marcosDe[p]) = Paginas[p]
          /\ Paginas[p] \in 0 .. Capacidad /\ Capacidad \in Nat /\ pag \in Nat
      <4>1. Capacidad \in Nat
        BY PotenciaEs, PaginacionAssumption DEF Capacidad
      <4> QED BY <2>1, <4>1, TraduccionAssumption, TlbAssumption DEF TablasInv, TypeOK, Cargados, Residentes
    <3>2. Len(marcosDe[p]) <= Capacidad /\ pag < Len(marcosDe[p])
      BY <2>1, <3>1
    <3>3. camina \in 0 .. Marcos - 1
      BY <3>1, <3>2, CaminoDaMarco DEF camina
    <3> QED BY <3>3, TraduccionAssumption
  <2>3. IInv'
    BY <2>1, <2>2, AciertoConserva, FalloConserva DEF TablasInv
  <2>4. TlbNext
    BY <2>1, <2>2 DEF TlbNext
  <2>5. TypeOK'
    <3>1. restan' \in [Procs -> 0 .. MaxAccesos]
      <4>1. restan[p] \in 0 .. MaxAccesos /\ MaxAccesos \in Nat
        BY <2>1, TraduccionAssumption DEF TablasInv, TypeOK
      <4>2. restan[p] - 1 \in 0 .. MaxAccesos
        BY <2>1, <4>1
      <4> QED BY <2>1, <4>2 DEF TablasInv, TypeOK
    <3>2. cargaron' \subseteq Mezcla
      BY <2>1 DEF Mezcla
    <3> QED BY <2>1, <2>3, <3>1, <3>2 DEF TablasInv, TypeOK, IInv
  <2>6. Cargados' /\ CpuConProceso'
    BY <2>1 DEF TablasInv, Cargados, CpuConProceso, Residentes
  <2> QED BY <2>3, <2>4, <2>5, <2>6 DEF TablasInv
<1>6. CASE SyscallExit \/ SyscallIo
  <2> DEFINE p == cpu.pid
  <2>1. /\ UNCHANGED tlbVars /\ UNCHANGED <<marcosDe, restan>>
        /\ p \in Procs /\ estado[p] = "ejecuta" /\ ultima' = Ninguna /\ cargaron' = cargaron
        /\ \/ cpu' = [cpu EXCEPT !.pc = "desaloja"] /\ estado' = [estado EXCEPT ![p] = "saliendo"]
           \/ cpu' = [pid |-> Nadie, pc |-> "lista"] /\ estado' = [estado EXCEPT ![p] = "bloqueado"]
    BY <1>6 DEF SyscallExit, SyscallIo, TablasInv, CpuConProceso, TypeOK
  <2>2. IInv'
    BY <2>1, TlbQuieta DEF TablasInv
  <2>3. /\ cpu' \in [pid : Procs \cup {Nadie}, pc : {"lista", "ejecuta", "desaloja", "espera"}]
        /\ cpu'.pc \in {"lista", "desaloja"} /\ (cpu'.pc = "desaloja" => cpu'.pid = p)
    BY <2>1 DEF TablasInv, TypeOK
  <2>4. \E e \in {"saliendo", "bloqueado"} : estado' = [estado EXCEPT ![p] = e]
    BY <2>1
  <2>5. /\ estado \in [Procs -> Estados] /\ marcosDe' \in [Procs -> Seq(0 .. Marcos - 1)]
        /\ restan' \in [Procs -> 0 .. MaxAccesos] /\ cargaron' \subseteq Mezcla
    BY <2>1 DEF TablasInv, TypeOK
  <2> HIDE DEF p
  <2>6. estado' \in [Procs -> Estados]
    BY <2>1, <2>4, <2>5 DEF Estados
  <2>7. TypeOK'
    BY <2>1, <2>2, <2>3, <2>5, <2>6 DEF TypeOK, IInv, Ninguna
  <2>8. Cargados'
    BY <2>1, <2>4, <2>5 DEF TablasInv, Cargados, Residentes
  <2>9. CpuConProceso'
    BY <2>1, <2>3 DEF CpuConProceso
  <2> QED BY <2>1, <2>2, <2>7, <2>8, <2>9 DEF TablasInv
<1>7. CASE Desalojar
  <2>1. /\ UNCHANGED <<estado, marcosDe, restan, ultima>> /\ cpu.pc = "desaloja"
        /\ cpu' = [cpu EXCEPT !.pc = "espera"] /\ cargaron' = {} /\ DesalojarProcesoTLB
    BY <1>7 DEF Desalojar
  <2>2. IInv' /\ TlbNext
    BY <2>1, DesalojarConserva DEF TablasInv, TlbNext
  <2>3. TypeOK' /\ Cargados' /\ CpuConProceso'
    BY <2>1, <2>2 DEF TablasInv, TypeOK, IInv, Cargados, CpuConProceso, Residentes
  <2> QED BY <2>2, <2>3 DEF TablasInv
<1>8. CASE SyscallEjecutada
  <2>1. /\ UNCHANGED tlbVars /\ UNCHANGED <<estado, marcosDe, restan, ultima, cargaron>>
        /\ cpu' = [pid |-> Nadie, pc |-> "lista"]
    BY <1>8 DEF SyscallEjecutada
  <2>2. IInv'
    BY <2>1, TlbQuieta DEF TablasInv
  <2>3. TypeOK' /\ Cargados' /\ CpuConProceso'
    BY <2>1, <2>2 DEF TablasInv, TypeOK, IInv, Cargados, CpuConProceso, Residentes
  <2> QED BY <2>1, <2>2, <2>3 DEF TablasInv
<1> QED BY <1>1, <1>2, <1>3, <1>4, <1>5, <1>6, <1>7, <1>8 DEF Next

THEOREM InvarianteDeTablas == Spec => []TablasInv
<1> QED BY TablasIniciales, TablasPasos, PTL DEF Spec

\* Every variable of the CPU, its TLB and the processes has its type: a walk never
\* answers -1 for a page the process has.
THEOREM TiposDeTraduccion == Spec => []TypeOK
<1>1. TablasInv => TypeOK
  BY DEF TablasInv
<1> QED BY <1>1, InvarianteDeTablas, PTL

\* crear_nivel_tabla and obtener_marco_de_pagina_logica agree, for any number of
\* levels and of entries: the divisions of the walk undo the order of the tree.
THEOREM TablasCompletas == Spec => []TablaCompleta
<1>1. TablasInv => TablaCompleta
  <2> SUFFICES ASSUME TablasInv, NEW p \in Residentes, NEW pag \in 0 .. Capacidad - 1
               PROVE  ObtenerMarco(TablaRaiz(marcosDe[p]), pag) =
                        IF pag < Paginas[p] THEN marcosDe[p][pag + 1] ELSE -1
    BY DEF TablaCompleta
  <2>1. p \in Procs /\ Len(marcosDe[p]) = Paginas[p] /\ marcosDe[p] \in Seq(0 .. Marcos - 1)
    BY DEF TablasInv, TypeOK, Cargados, Residentes
  <2>2. marcosDe[p] \in Seq(Int)
    BY <2>1, TraduccionAssumption
  <2> QED BY <2>1, <2>2, ObtenerMarcoEs
<1> QED BY <1>1, InvarianteDeTablas, PTL

\* The CPU uses its TLB as TlbSpec says, with pages and frames that exist: what is
\* proved of the TLB alone holds of the one of a running CPU.
THEOREM LaCpuUsaLaTlb == Spec => EsTlb
<1>1. Init => TlbInit
  BY DEF Init
<1>2. TablasInv /\ [Next]_vars => [TlbNext]_tlbVars
  BY TablasPasos
<1> QED BY <1>1, <1>2, InvarianteDeTablas, PTL DEF Spec, EsTlb, TlbSpec

-----------------------------------------------------------------------------
(* Ordered enumerations of a set of entries.                               *)

Ordena(q, S, k) ==
    /\ q \in [1 .. Cardinality(S) -> S]
    /\ \A i \in S : \E n \in 1 .. Cardinality(S) : q[n] = i
    /\ \A m, n \in 1 .. Cardinality(S) : m < n => k[q[m]] < k[q[n]]

\* A sequence without its element n.
Quitar(s, n) == SubSeq(s, 1, n - 1) \o SubSeq(s, n + 1, Len(s))

LEMMA EntradasFinitas ==
    ASSUME NEW S \in SUBSET Entradas
    PROVE  IsFiniteSet(S) /\ Cardinality(S) \in Nat /\ (Cardinality(S) = ENTRADAS_TLB <=> S = Entradas)
<1>1. IsFiniteSet(Entradas) /\ Cardinality(Entradas) = ENTRADAS_TLB
  BY Anillo, FS_Interval DEF Entradas
<1>2. IsFiniteSet(S) /\ (Cardinality(S) = Cardinality(Entradas) => S = Entradas)
  BY <1>1, FS_Subset
<1> QED BY <1>1, <1>2, FS_CardinalityType

\* An ordered enumeration is the one EnOrden is: n - 1 elements go before the one at n.
LEMMA EnOrdenEs ==
    ASSUME NEW S \in SUBSET Entradas, NEW k, \A i \in S : k[i] \in Int, NEW q, Ordena(q, S, k)
    PROVE  EnOrden(S, k) = q
<1> DEFINE N == Cardinality(S)
           Previos(i) == {j \in S : k[j] < k[i]}
<1>1. N \in Nat /\ IsFiniteSet(S) /\ q \in [1 .. N -> S]
  BY EntradasFinitas DEF Ordena
<1>2. ASSUME NEW n \in 1 .. N PROVE Cardinality(Previos(q[n])) = n - 1
  <2> DEFINE f == [m \in 1 .. n - 1 |-> q[m]]
  <2>1. \A m \in 1 .. n - 1 : m \in 1 .. N /\ m < n
    BY <1>1
  <2>2. f \in [1 .. n - 1 -> Previos(q[n])]
    BY <1>1, <2>1 DEF Ordena
  <2>3. ASSUME NEW a \in 1 .. n - 1, NEW b \in 1 .. n - 1, f[a] = f[b] PROVE a = b
    <3>1. a \in 1 .. N /\ b \in 1 .. N /\ q[a] = q[b] /\ q[a] \in S /\ k[q[a]] \in Int
      BY <1>1, <2>1, <2>3
    <3>2. ~(a < b) /\ ~(b < a)
      BY <3>1 DEF Ordena
    <3> QED BY <3>1, <3>2
  <2>4. ASSUME NEW j \in Previos(q[n]) PROVE \E m \in 1 .. n - 1 : f[m] = j
    <3>1. PICK m \in 1 .. N : q[m] = j
      BY <2>4 DEF Ordena
    <3>2. k[q[m]] < k[q[n]] /\ k[q[m]] \in Int /\ k[q[n]] \in Int
      BY <1>1, <3>1, <2>4
    <3>3. m # n /\ ~(n < m)
      BY <3>2 DEF Ordena
    <3>4. m \in 1 .. n - 1
      BY <1>1, <3>3
    <3> QED BY <3>1, <3>4
  <2>5. f \in Bijection(1 .. n - 1, Previos(q[n]))
    <3> HIDE DEF f, Previos
    <3>1. DOMAIN f = 1 .. n - 1
      BY <2>2
    <3>2. IsInjective(f)
      BY <2>3, <3>1 DEF IsInjective
    <3>3. f \in Injection(1 .. n - 1, Previos(q[n]))
      BY <2>2, <3>2 DEF Injection
    <3>4. f \in Surjection(1 .. n - 1, Previos(q[n]))
      BY <2>2, <2>4 DEF Surjection
    <3> QED BY <3>3, <3>4 DEF Bijection
  <2>6. IsFiniteSet(1 .. n - 1) /\ Cardinality(1 .. n - 1) = n - 1
    <3>1. n - 1 \in Nat /\ 1 \in Int /\ n - 1 \in Int
      BY <1>1
    <3>2. \A c \in Nat : (IF 1 > c THEN 0 ELSE c - 1 + 1) = c
      OBVIOUS
    <3> HIDE DEF f, Previos
    <3> QED BY <3>1, <3>2, FS_Interval
  <2> QED BY <2>5, <2>6, FS_Bijection DEF ExistsBijection
<1>3. ASSUME NEW n \in 1 .. N
      PROVE  (CHOOSE i \in S : Cardinality({j \in S : k[j] < k[i]}) = n - 1) = q[n]
  <2>1. q[n] \in S /\ Cardinality(Previos(q[n])) = n - 1
    BY <1>1, <1>2
  <2>2. ASSUME NEW i \in S, Cardinality(Previos(i)) = n - 1 PROVE i = q[n]
    <3>1. PICK m \in 1 .. N : q[m] = i
      BY DEF Ordena
    <3>2. Cardinality(Previos(i)) = m - 1
      BY <1>2, <3>1
    <3>3. m = n
      BY <2>2, <3>2, <1>1
    <3> QED BY <3>1, <3>3
  <2> QED BY <2>1, <2>2
<1> QED BY <1>1, <1>3 DEF EnOrden

\* What Quitar returns.
LEMMA QuitarEs ==
    ASSUME NEW S, NEW s \in Seq(S), NEW n \in 1 .. Len(s)
    PROVE  /\ Quitar(s, n) \in Seq(S)
           /\ Len(Quitar(s, n)) = Len(s) - 1
           /\ \A i \in 1 .. Len(s) - 1 : Quitar(s, n)[i] = IF i < n THEN s[i] ELSE s[i + 1]
<1> DEFINE a == SubSeq(s, 1, n - 1)
           b == SubSeq(s, n + 1, Len(s))
<1>1. Len(s) \in Nat /\ \A i \in 1 .. Len(s) : s[i] \in S
  OBVIOUS
<1>2. a \in Seq(S) /\ Len(a) = n - 1 /\ \A i \in 1 .. n - 1 : a[i] = s[i]
  BY <1>1, SubSeqProperties
<1>3. b \in Seq(S) /\ Len(b) = Len(s) - n /\ \A i \in 1 .. Len(s) - n : b[i] = s[n + i]
  BY <1>1, SubSeqProperties
<1> HIDE DEF a, b
<1>4. /\ a \o b \in Seq(S) /\ Len(a \o b) = Len(a) + Len(b)
      /\ \A i \in 1 .. Len(a) + Len(b) : (a \o b)[i] = IF i <= Len(a) THEN a[i] ELSE b[i - Len(a)]
  BY <1>2, <1>3, ConcatProperties
<1>5. ASSUME NEW i \in 1 .. Len(s) - 1
      PROVE  (a \o b)[i] = IF i < n THEN s[i] ELSE s[i + 1]
  <2>1. CASE i < n
    BY <1>1, <1>2, <1>3, <1>4, <2>1
  <2>2. CASE ~(i < n)
    <3>1. i - (n - 1) \in 1 .. Len(s) - n /\ n + (i - (n - 1)) = i + 1 /\ ~(i <= n - 1)
      BY <1>1, <2>2
    <3>2. i \in 1 .. Len(a) + Len(b) /\ ~(i <= Len(a))
      BY <1>1, <1>2, <1>3, <2>2
    <3>3. (a \o b)[i] = b[i - (n - 1)]
      BY <1>2, <1>4, <3>2
    <3> QED BY <1>3, <2>2, <3>1, <3>3
  <2> QED BY <2>1, <2>2
<1>6. Quitar(s, n) = a \o b
  BY DEF Quitar, a, b
<1>7. Len(a \o b) = Len(s) - 1
  BY <1>1, <1>2, <1>3, <1>4
<1> QED BY <1>4, <1>5, <1>6, <1>7

\* One more element, after all the others.
LEMMA OrdenaAlFinal ==
    ASSUME NEW S \in SUBSET Entradas, NEW e \in Entradas \ S, NEW k, NEW l, NEW q, Ordena(q, S, k),
           \A i, j \in S : k[i] < k[j] => l[i] < l[j],
           \A i \in S : l[i] < l[e]
    PROVE  Ordena(Append(q, e), S \cup {e}, l)
<1> DEFINE N == Cardinality(S)
           r == Append(q, e)
<1>1. N \in Nat /\ Cardinality(S \cup {e}) = N + 1
  BY EntradasFinitas, FS_AddElement
<1>2. q \in [1 .. N -> S] /\ q \in Seq(Entradas) /\ Len(q) = N
  BY <1>1 DEF Ordena
<1>3. Len(r) = N + 1 /\ DOMAIN r = 1 .. N + 1 /\ r \in Seq(Entradas) /\ r[N + 1] = e /\ \A i \in 1 .. N : r[i] = q[i]
  BY <1>1, <1>2
<1> HIDE DEF r
<1>4. r \in [1 .. N + 1 -> S \cup {e}]
  BY <1>1, <1>2, <1>3
<1>5. \A i \in S \cup {e} : \E n \in 1 .. N + 1 : r[n] = i
  <2>1. ASSUME NEW i \in S PROVE \E n \in 1 .. N + 1 : r[n] = i
    <3>1. PICK n \in 1 .. N : q[n] = i
      BY DEF Ordena
    <3> QED BY <1>1, <1>3, <3>1
  <2> QED BY <1>1, <1>3, <2>1
<1>6. ASSUME NEW m \in 1 .. N + 1, NEW n \in 1 .. N + 1, m < n PROVE l[r[m]] < l[r[n]]
  <2>1. m \in 1 .. N /\ r[m] = q[m] /\ q[m] \in S
    BY <1>1, <1>2, <1>3, <1>6
  <2>2. CASE n = N + 1
    BY <1>3, <2>1, <2>2
  <2>3. CASE n \in 1 .. N
    <3>1. r[n] = q[n] /\ q[n] \in S /\ k[q[m]] < k[q[n]]
      BY <1>2, <1>3, <1>6, <2>1, <2>3 DEF Ordena
    <3> QED BY <2>1, <3>1
  <2> QED BY <1>1, <2>2, <2>3
<1> QED BY <1>1, <1>4, <1>5, <1>6 DEF Ordena, r

\* One element less.
LEMMA OrdenaSinUno ==
    ASSUME NEW S \in SUBSET Entradas, NEW k, \A i \in S : k[i] \in Int, NEW l, NEW q, Ordena(q, S, k),
           NEW n \in 1 .. Cardinality(S),
           \A i, j \in S \ {q[n]} : k[i] < k[j] => l[i] < l[j]
    PROVE  Ordena(Quitar(q, n), S \ {q[n]}, l)
<1> DEFINE N == Cardinality(S)
           r == Quitar(q, n)
           T == S \ {q[n]}
           Otro(m) == IF m < n THEN m ELSE m + 1
<1>1. N \in Nat /\ q \in [1 .. N -> S] /\ q \in Seq(Entradas) /\ Len(q) = N
  BY EntradasFinitas DEF Ordena
<1>2. Cardinality(T) = N - 1
  BY <1>1, EntradasFinitas, FS_RemoveElement
<1>3. Len(r) = N - 1 /\ r \in Seq(Entradas) /\ \A i \in 1 .. N - 1 : r[i] = q[Otro(i)]
  <2> HIDE DEF N, T, Otro
  <2>1. n \in 1 .. Len(q)
    BY <1>1 DEF N
  <2>2. q \in Seq(Entradas)
    BY <1>1
  <2>4. /\ Quitar(q, n) \in Seq(Entradas) /\ Len(Quitar(q, n)) = Len(q) - 1
        /\ \A i \in 1 .. Len(q) - 1 : Quitar(q, n)[i] = IF i < n THEN q[i] ELSE q[i + 1]
    <3> HIDE DEF r
    <3> QED BY ONLY <2>1, <2>2, QuitarEs
  <2>3. ASSUME NEW i \in 1 .. N - 1 PROVE r[i] = q[Otro(i)]
    <3>1. r[i] = IF i < n THEN q[i] ELSE q[i + 1]
      BY <1>1, <2>4
    <3> QED BY <3>1 DEF Otro
  <2>5. r \in Seq(Entradas) /\ Len(r) = Len(q) - 1
    BY <2>4
  <2> HIDE DEF r
  <2> QED BY <1>1, <2>3, <2>5
<1>4. \A i, j \in 1 .. N : q[i] = q[j] => i = j
  <2> SUFFICES ASSUME NEW i \in 1 .. N, NEW j \in 1 .. N, q[i] = q[j] PROVE i = j
    OBVIOUS
  <2>1. k[q[i]] \in Int /\ ~(i < j) /\ ~(j < i)
    BY <1>1 DEF Ordena
  <2> QED BY <2>1
<1>5. ASSUME NEW i \in 1 .. N - 1 PROVE Otro(i) \in 1 .. N /\ Otro(i) # n /\ q[Otro(i)] \in T
  <2>1. Otro(i) \in 1 .. N /\ Otro(i) # n
    BY <1>1
  <2> QED BY <1>1, <1>4, <2>1
<1> HIDE DEF r
<1>6. r \in [1 .. N - 1 -> T]
  <2>1. DOMAIN r = 1 .. N - 1
    BY <1>3
  <2> HIDE DEF Otro, T
  <2>2. \A i \in 1 .. N - 1 : r[i] \in T
    BY <1>3, <1>5
  <2>3. r = [i \in 1 .. N - 1 |-> r[i]]
    BY <1>3, <2>1
  <2> QED BY <2>2, <2>3
<1>7. ASSUME NEW i \in T PROVE \E m \in 1 .. N - 1 : r[m] = i
  <2>1. PICK m \in 1 .. N : q[m] = i
    BY DEF Ordena
  <2>2. m # n
    BY <2>1
  <2>3. CASE m < n
    <3>1. m \in 1 .. N - 1 /\ Otro(m) = m
      BY <1>1, <2>3
    <3> QED BY <1>3, <2>1, <3>1
  <2>4. CASE m > n
    <3>1. m - 1 \in 1 .. N - 1 /\ Otro(m - 1) = m
      BY <1>1, <2>4
    <3> QED BY <1>3, <2>1, <3>1
  <2> QED BY <1>1, <2>2, <2>3, <2>4
<1>8. ASSUME NEW a \in 1 .. N - 1, NEW b \in 1 .. N - 1, a < b PROVE l[r[a]] < l[r[b]]
  <2>1. Otro(a) < Otro(b)
    BY <1>1, <1>8
  <2>2. Otro(a) \in 1 .. N /\ Otro(b) \in 1 .. N /\ q[Otro(a)] \in T /\ q[Otro(b)] \in T
    BY <1>5
  <2>3. r[a] = q[Otro(a)] /\ r[b] = q[Otro(b)]
    BY <1>3
  <2> HIDE DEF Otro
  <2>4. k[q[Otro(a)]] < k[q[Otro(b)]]
    BY <2>1, <2>2 DEF Ordena
  <2> QED BY <2>2, <2>3, <2>4
<1> QED BY <1>2, <1>6, <1>7, <1>8 DEF Ordena, r

-----------------------------------------------------------------------------
(* The queue.                                                              *)

Par == [pag : NrosPagina \cup {-1}, marco : NrosMarco \cup {-1}]

\* What the entries of a sequence translate.
Vista(tlb, q) == [n \in 1 .. Len(q) |-> [pag |-> tlb[q[n]].numPag, marco |-> tlb[q[n]].numMarco]]

LEMMA VistaEs ==
    ASSUME NEW tlb \in [Entradas -> Entrada], NEW q \in Seq(Entradas)
    PROVE  /\ Vista(tlb, q) \in Seq(Par)
           /\ Len(Vista(tlb, q)) = Len(q)
           /\ \A n \in 1 .. Len(q) : /\ Vista(tlb, q)[n].pag = tlb[q[n]].numPag
                                     /\ Vista(tlb, q)[n].marco = tlb[q[n]].numMarco
<1>1. Len(q) \in Nat /\ \A n \in 1 .. Len(q) : tlb[q[n]] \in Entrada
  OBVIOUS
<1>2. Vista(tlb, q) \in [1 .. Len(q) -> Par]
  BY <1>1 DEF Vista, Par, Entrada
<1>3. Vista(tlb, q) \in Seq(Par) /\ Len(Vista(tlb, q)) = Len(q)
  BY <1>1, <1>2
<1>4. \A n \in 1 .. Len(q) : Vista(tlb, q)[n] = [pag |-> tlb[q[n]].numPag, marco |-> tlb[q[n]].numMarco]
  BY DEF Vista
<1>5. ASSUME NEW n \in 1 .. Len(q)
      PROVE  Vista(tlb, q)[n].pag = tlb[q[n]].numPag /\ Vista(tlb, q)[n].marco = tlb[q[n]].numMarco
  <2>1. Vista(tlb, q)[n] = [pag |-> tlb[q[n]].numPag, marco |-> tlb[q[n]].numMarco]
    BY <1>4
  <2> QED BY <2>1
<1> QED BY <1>3, <1>5

LEMMA VistaIgual ==
    ASSUME NEW tlb \in [Entradas -> Entrada], NEW uno \in [Entradas -> Entrada], NEW q \in Seq(Entradas),
           \A n \in 1 .. Len(q) : tlb[q[n]].numPag = uno[q[n]].numPag /\ tlb[q[n]].numMarco = uno[q[n]].numMarco
    PROVE  Vista(tlb, q) = Vista(uno, q)
  BY DEF Vista

LEMMA VistaAlFinal ==
    ASSUME NEW tlb \in [Entradas -> Entrada], NEW q \in Seq(Entradas), NEW e \in Entradas
    PROVE  Vista(tlb, Append(q, e)) = Append(Vista(tlb, q), [pag |-> tlb[e].numPag, marco |-> tlb[e].numMarco])
<1> DEFINE t == [pag |-> tlb[e].numPag, marco |-> tlb[e].numMarco]
           r == Append(q, e)
           v == Vista(tlb, q)
<1>1. /\ r \in Seq(Entradas) /\ Len(r) = Len(q) + 1 /\ Len(q) \in Nat
      /\ r[Len(q) + 1] = e /\ \A i \in 1 .. Len(q) : r[i] = q[i]
  OBVIOUS
<1>2. v \in Seq(Par) /\ Len(v) = Len(q) /\ t \in Par
  BY VistaEs DEF Par, Entrada
<1>3. /\ Append(v, t) \in Seq(Par) /\ Len(Append(v, t)) = Len(q) + 1
      /\ Append(v, t)[Len(q) + 1] = t /\ \A i \in 1 .. Len(q) : Append(v, t)[i] = v[i]
  BY <1>2, AppendProperties
<1>4. Vista(tlb, r) \in Seq(Par) /\ Len(Vista(tlb, r)) = Len(q) + 1
  BY <1>1, VistaEs
<1>5. ASSUME NEW i \in 1 .. Len(q) + 1 PROVE Vista(tlb, r)[i] = Append(v, t)[i]
  <2>1. CASE i = Len(q) + 1
    <3> HIDE DEF r
    <3> QED BY <1>1, <1>3, <2>1 DEF Vista
  <2>2. CASE i \in 1 .. Len(q)
    <3> HIDE DEF r, t
    <3>1. i \in 1 .. Len(r) /\ i \in 1 .. Len(q) /\ r[i] = q[i]
      BY <1>1, <2>2
    <3>2. Vista(tlb, r)[i] = v[i]
      BY <3>1 DEF Vista
    <3> QED BY <1>3, <3>1, <3>2
  <2>3. i = Len(q) + 1 \/ i \in 1 .. Len(q)
    BY <1>1
  <2> QED BY <2>1, <2>2, <2>3
<1> HIDE DEF r, v, t
<1>6. Vista(tlb, r) = Append(v, t)
  BY <1>3, <1>4, <1>5
<1> QED BY <1>6 DEF r, v, t

LEMMA VistaSinUno ==
    ASSUME NEW tlb \in [Entradas -> Entrada], NEW q \in Seq(Entradas), NEW n \in 1 .. Len(q)
    PROVE  Vista(tlb, Quitar(q, n)) = Quitar(Vista(tlb, q), n)
<1> DEFINE r == Quitar(q, n)
           v == Vista(tlb, q)
<1>1. /\ r \in Seq(Entradas) /\ Len(r) = Len(q) - 1 /\ Len(q) \in Nat
      /\ \A i \in 1 .. Len(q) - 1 : r[i] = IF i < n THEN q[i] ELSE q[i + 1]
  <2>1. /\ Quitar(q, n) \in Seq(Entradas) /\ Len(Quitar(q, n)) = Len(q) - 1
        /\ \A i \in 1 .. Len(q) - 1 : Quitar(q, n)[i] = IF i < n THEN q[i] ELSE q[i + 1]
    BY QuitarEs
  <2> QED BY <2>1
<1>2. v \in Seq(Par) /\ Len(v) = Len(q)
  BY VistaEs
<1>3. /\ Quitar(v, n) \in Seq(Par) /\ Len(Quitar(v, n)) = Len(q) - 1
      /\ \A i \in 1 .. Len(q) - 1 : Quitar(v, n)[i] = IF i < n THEN v[i] ELSE v[i + 1]
  <2> HIDE DEF v
  <2> QED BY <1>2, QuitarEs
<1> HIDE DEF r
<1>4. Vista(tlb, r) \in Seq(Par) /\ Len(Vista(tlb, r)) = Len(q) - 1
  BY <1>1, VistaEs
<1>5. ASSUME NEW i \in 1 .. Len(q) - 1 PROVE Vista(tlb, r)[i] = Quitar(v, n)[i]
  <2>1. i \in 1 .. Len(r) /\ i \in 1 .. Len(q) /\ i + 1 \in 1 .. Len(q)
    BY <1>1
  <2>2. CASE i < n
    BY <1>1, <1>3, <2>1, <2>2 DEF Vista
  <2>3. CASE ~(i < n)
    BY <1>1, <1>3, <2>1, <2>3 DEF Vista
  <2> QED BY <2>2, <2>3
<1> HIDE DEF v
<1>6. Vista(tlb, r) = Quitar(v, n)
  BY <1>3, <1>4, <1>5
<1> QED BY <1>6 DEF r, v

\* Without the first element.
LEMMA QuitarPrimero ==
    ASSUME NEW S, NEW s \in Seq(S), Len(s) > 0
    PROVE  Quitar(s, 1) = Tail(s)
<1>1. s # <<>> /\ Len(s) \in Nat /\ 1 \in 1 .. Len(s)
  OBVIOUS
<1>2. Tail(s) \in Seq(S) /\ Len(Tail(s)) = Len(s) - 1 /\ \A i \in 1 .. Len(s) - 1 : Tail(s)[i] = s[i + 1]
  BY <1>1, HeadTailProperties
<1>3. Quitar(s, 1) \in Seq(S) /\ Len(Quitar(s, 1)) = Len(s) - 1
      /\ \A i \in 1 .. Len(s) - 1 : Quitar(s, 1)[i] = s[i + 1]
  BY <1>1, QuitarEs
<1> QED BY <1>2, <1>3

-----------------------------------------------------------------------------
(* The invariant.                                                          *)

HayOrden == \E q : Ordena(q, Usadas, Turno)

\* Under FIFO the entries in use are the last ones the pointer will meet.
Contiguas ==
    reemplazo = "FIFO" => \A i, j \in Entradas : EnUso(i) /\ Distancia(i) < Distancia(j) => EnUso(j)

OrdenInv == IInv /\ HayOrden /\ Contiguas

LEMMA TurnoTipo ==
    ASSUME TlbTypeOK
    PROVE  Usadas \in SUBSET Entradas /\ Turno \in [Entradas -> Int] /\ listaTlb \in [Entradas -> Entrada]
<1>1. listaTlb \in [Entradas -> Entrada] /\ punterosPos \in Int /\ ENTRADAS_TLB \in Int /\ Entradas \subseteq Int
  BY Anillo DEF TlbTypeOK, Entrada, Entradas
<1>2. ASSUME NEW i \in Entradas PROVE -listaTlb[i].tiempo \in Int /\ Distancia(i) \in Int
  BY <1>1 DEF Entrada, Distancia
<1> QED BY <1>1, <1>2 DEF Usadas, Turno

LEMMA ColaEs ==
    ASSUME TlbTypeOK, NEW q, Ordena(q, Usadas, Turno)
    PROVE  Cola = Vista(listaTlb, q) /\ q \in Seq(Entradas) /\ Len(q) = Cardinality(Usadas)
<1>1. Usadas \in SUBSET Entradas /\ \A i \in Usadas : Turno[i] \in Int
  BY TurnoTipo
<1>2. Cardinality(Usadas) \in Nat
  BY <1>1, EntradasFinitas
<1>3. EnOrden(Usadas, Turno) = q
  BY <1>1, EnOrdenEs
<1>4. q \in [1 .. Cardinality(Usadas) -> Usadas]
  BY DEF Ordena
<1>5. q \in Seq(Entradas) /\ Len(q) = Cardinality(Usadas)
  BY <1>1, <1>2, <1>4
<1> QED BY <1>3, <1>5 DEF Cola, Vista

\* What the TLB is after a step, given the enumeration of its entries.
LEMMA SigueEnOrden ==
    ASSUME TlbTypeOK', NEW r, Ordena(r, Usadas', Turno')
    PROVE  Cola' = Vista(listaTlb', r) /\ r \in Seq(Entradas) /\ HayOrden'
<1>1. listaTlb' \in [Entradas -> Entrada] /\ punterosPos' \in Int /\ ENTRADAS_TLB \in Int /\ Entradas \subseteq Int
  BY Anillo DEF TlbTypeOK, Entrada, Entradas
<1>2. Usadas' \in SUBSET Entradas
  BY DEF Usadas, Entradas
<1>3. \A i \in Usadas' : Turno'[i] \in Int
  BY <1>1, <1>2 DEF Entrada, Turno, Distancia, Entradas
<1>4. Cardinality(Usadas') \in Nat
  BY <1>2, EntradasFinitas
<1>5. EnOrden(Usadas', Turno') = r
  BY <1>2, <1>3, EnOrdenEs
<1>6. r \in [1 .. Cardinality(Usadas') -> Usadas']
  BY DEF Ordena
<1>7. r \in Seq(Entradas) /\ Len(r) = Cardinality(Usadas')
  BY <1>2, <1>4, <1>6
<1> QED BY <1>5, <1>7 DEF Cola, Vista, HayOrden

\* A page in use is used again: its entry goes to the end.
LEMMA UsarAlFinal ==
    ASSUME TlbTypeOK, TlbTypeOK', NEW q, Ordena(q, Usadas, Turno), NEW n \in 1 .. Cardinality(Usadas),
           Usadas' = Usadas,
           \A i \in Usadas : listaTlb'[i].numPag = listaTlb[i].numPag /\ listaTlb'[i].numMarco = listaTlb[i].numMarco,
           \A i, j \in Usadas \ {q[n]} : Turno[i] < Turno[j] => Turno'[i] < Turno'[j],
           \A i \in Usadas \ {q[n]} : Turno'[i] < Turno'[q[n]]
    PROVE  Cola' = Append(Quitar(Cola, n), Cola[n]) /\ HayOrden'
<1> DEFINE e == q[n]
           s == Quitar(q, n)
           r == Append(s, e)
<1>1. Usadas \in SUBSET Entradas /\ (\A i \in Usadas : Turno[i] \in Int) /\ listaTlb \in [Entradas -> Entrada]
  BY TurnoTipo
<1>2. Cola = Vista(listaTlb, q) /\ q \in Seq(Entradas) /\ Len(q) = Cardinality(Usadas)
  BY ColaEs
<1>3. n \in 1 .. Len(q) /\ e \in Usadas /\ e \in Entradas
  BY <1>1, <1>2 DEF Ordena
<1>4. Ordena(s, Usadas \ {e}, Turno')
  BY <1>1, OrdenaSinUno
<1>5. s \in Seq(Entradas)
  BY <1>2, <1>3, QuitarEs
<1>6. Ordena(r, (Usadas \ {e}) \cup {e}, Turno')
  <2>1. (Usadas \ {e}) \in SUBSET Entradas /\ e \in Entradas \ (Usadas \ {e})
    BY <1>1, <1>3
  <2>2. \A i, j \in Usadas \ {e} : Turno'[i] < Turno'[j] => Turno'[i] < Turno'[j]
    OBVIOUS
  <2> HIDE DEF e, s
  <2>3. \A i \in Usadas \ {e} : Turno'[i] < Turno'[e]
    BY DEF e
  <2> QED BY <1>4, <2>1, <2>2, <2>3, OrdenaAlFinal
<1>7. (Usadas \ {e}) \cup {e} = Usadas'
  BY <1>3
<1>8. Cola' = Vista(listaTlb', r) /\ HayOrden' /\ r \in Seq(Entradas)
  <2> HIDE DEF r
  <2> QED BY <1>6, <1>7, SigueEnOrden
<1>9. listaTlb' \in [Entradas -> Entrada]
  BY DEF TlbTypeOK, Entrada, Entradas
<1>10. Vista(listaTlb', r) = Vista(listaTlb, r)
  <2>1. \A i \in 1 .. Len(r) : r[i] \in Usadas
    <3> HIDE DEF e, s, r
    <3>1. r \in [1 .. Cardinality(Usadas') -> Usadas']
      BY <1>6, <1>7 DEF Ordena
    <3>2. DOMAIN r = 1 .. Len(r)
      BY <1>8
    <3> QED BY <3>1, <3>2
  <2> HIDE DEF r
  <2> QED BY <1>1, <1>8, <1>9, <2>1, VistaIgual
<1>11. Vista(listaTlb, r) = Append(Vista(listaTlb, s), [pag |-> listaTlb[e].numPag, marco |-> listaTlb[e].numMarco])
  <2> HIDE DEF e, s
  <2> QED BY <1>1, <1>3, <1>5, VistaAlFinal
<1>12. Vista(listaTlb, s) = Quitar(Cola, n)
  BY <1>1, <1>2, <1>3, VistaSinUno
<1>13. Cola[n] = [pag |-> listaTlb[e].numPag, marco |-> listaTlb[e].numMarco]
  BY <1>2, <1>3 DEF Vista
<1> QED BY <1>8, <1>10, <1>11, <1>12, <1>13

\* A page is loaded in entry e, which is free or the first of a full TLB, and goes last.
LEMMA AgregarAlFinal ==
    ASSUME TlbTypeOK, TlbTypeOK', NEW q, Ordena(q, Usadas, Turno), NEW e \in Entradas,
           NEW pag \in NrosPagina, NEW marco \in NrosMarco,
           Usadas' = Usadas \cup {e},
           e \notin Usadas \/ (Usadas = Entradas /\ q[1] = e),
           listaTlb'[e].numPag = pag /\ listaTlb'[e].numMarco = marco,
           \A i \in Usadas \ {e} : listaTlb'[i].numPag = listaTlb[i].numPag /\ listaTlb'[i].numMarco = listaTlb[i].numMarco,
           \A i, j \in Usadas \ {e} : Turno[i] < Turno[j] => Turno'[i] < Turno'[j],
           \A i \in Usadas \ {e} : Turno'[i] < Turno'[e]
    PROVE  /\ Cola' = Append(IF Len(Cola) = ENTRADAS_TLB THEN Tail(Cola) ELSE Cola, [pag |-> pag, marco |-> marco])
           /\ HayOrden'
<1> DEFINE N == Cardinality(Usadas)
           s == IF e \in Usadas THEN Quitar(q, 1) ELSE q
           r == Append(s, e)
<1>1. Usadas \in SUBSET Entradas /\ (\A i \in Usadas : Turno[i] \in Int) /\ listaTlb \in [Entradas -> Entrada]
  BY TurnoTipo
<1>2. Cola = Vista(listaTlb, q) /\ q \in Seq(Entradas) /\ Len(q) = N /\ Len(Cola) = N /\ N \in Nat
  BY <1>1, ColaEs, VistaEs, EntradasFinitas
<1>3. N = ENTRADAS_TLB <=> e \in Usadas
  BY <1>1, EntradasFinitas
<1>4. e \in Usadas => 1 \in 1 .. N /\ q[1] = e
  BY <1>2, <1>3, Anillo
<1>5. Ordena(s, Usadas \ {e}, Turno') /\ s \in Seq(Entradas)
      /\ Vista(listaTlb, s) = IF Len(Cola) = ENTRADAS_TLB THEN Tail(Cola) ELSE Cola
  <2>1. CASE e \in Usadas
    <3>1. s = Quitar(q, 1) /\ q[1] = e /\ 1 \in 1 .. N
      BY <1>4, <2>1
    <3>2. Ordena(Quitar(q, 1), Usadas \ {q[1]}, Turno')
      <4>1. \A i, j \in Usadas \ {q[1]} : Turno[i] < Turno[j] => Turno'[i] < Turno'[j]
        BY <3>1
      <4> HIDE DEF s
      <4> QED BY <1>1, <3>1, <4>1, OrdenaSinUno
    <3>3. Quitar(q, 1) \in Seq(Entradas) /\ Vista(listaTlb, Quitar(q, 1)) = Quitar(Cola, 1)
      <4>1. 1 \in 1 .. Len(q)
        BY <1>2, <3>1
      <4> HIDE DEF s
      <4> QED BY <1>1, <1>2, <4>1, QuitarEs, VistaSinUno
    <3>4. Cola \in Seq(Par) /\ Len(Cola) > 0
      BY <1>1, <1>2, <3>1, VistaEs
    <3>5. Quitar(Cola, 1) = Tail(Cola)
      BY <3>4, QuitarPrimero
    <3> QED BY <1>2, <1>3, <2>1, <3>1, <3>2, <3>3, <3>5
  <2>2. CASE e \notin Usadas
    <3>1. s = q /\ Usadas \ {e} = Usadas
      BY <2>2
    <3>2. Ordena(q, Usadas, Turno')
      BY <1>1, <2>2 DEF Ordena
    <3> QED BY <1>2, <1>3, <2>2, <3>1, <3>2
  <2> QED BY <2>1, <2>2
<1> HIDE DEF s
<1>6. Ordena(r, (Usadas \ {e}) \cup {e}, Turno')
  <2>1. (Usadas \ {e}) \in SUBSET Entradas /\ e \in Entradas \ (Usadas \ {e})
    BY <1>1
  <2>2. \A i, j \in Usadas \ {e} : Turno'[i] < Turno'[j] => Turno'[i] < Turno'[j]
    OBVIOUS
  <2> QED BY <1>5, <2>1, <2>2, OrdenaAlFinal
<1>7. (Usadas \ {e}) \cup {e} = Usadas'
  OBVIOUS
<1>8. Cola' = Vista(listaTlb', r) /\ HayOrden' /\ r \in Seq(Entradas)
  <2> HIDE DEF r
  <2> QED BY <1>6, <1>7, SigueEnOrden
<1>9. listaTlb' \in [Entradas -> Entrada]
  BY DEF TlbTypeOK, Entrada, Entradas
<1>10. Vista(listaTlb', r) = Append(Vista(listaTlb', s), [pag |-> pag, marco |-> marco])
  BY <1>5, <1>9, VistaAlFinal
<1>11. Vista(listaTlb', s) = Vista(listaTlb, s)
  <2>1. \A i \in 1 .. Len(s) : s[i] \in Usadas \ {e}
    <3>1. s \in [1 .. Cardinality(Usadas \ {e}) -> Usadas \ {e}]
      BY <1>5 DEF Ordena
    <3>2. DOMAIN s = 1 .. Len(s)
      BY <1>5
    <3> QED BY <3>1, <3>2
  <2> QED BY <1>1, <1>5, <1>9, <2>1, VistaIgual
<1> QED BY <1>5, <1>8, <1>10, <1>11

-----------------------------------------------------------------------------
(* The steps of the queue.                                                 *)

\* A hit.
LEMMA AciertoUsa ==
    ASSUME OrdenInv, TlbTypeOK', NEW pag \in NrosPagina, Acierto(pag)
    PROVE  HayOrden' /\ Contiguas' /\ (Abstracto!Usar(pag) \/ UNCHANGED Abstracto!vars)
<1>1. /\ listaTlb \in [Entradas -> Entrada] /\ listaTlb' \in [Entradas -> Entrada]
      /\ listaTlb' = ModificarReferencia(listaTlb, pag) /\ Esta(listaTlb, pag)
      /\ reemplazo' = reemplazo /\ punterosPos' = punterosPos
  BY BuscarEncuentra DEF OrdenInv, IInv, TlbTypeOK, Acierto, TrasBuscar, Entrada, Entradas
<1>2. \A i \in Entradas :
        /\ listaTlb'[i].numPag = listaTlb[i].numPag
        /\ listaTlb'[i].numMarco = listaTlb[i].numMarco
        /\ listaTlb'[i].tiempo = IF listaTlb[i].numPag = pag THEN 0 ELSE listaTlb[i].tiempo + 1
        /\ listaTlb[i].tiempo \in Int
  BY <1>1 DEF ModificarReferencia, Entrada
<1>3. Usadas' = Usadas /\ Usadas \in SUBSET Entradas
  BY <1>2 DEF Usadas, EnUso, Entradas
<1>4. PICK q : Ordena(q, Usadas, Turno)
  BY DEF OrdenInv, HayOrden
<1>5. TlbTypeOK /\ reemplazo \in {"FIFO", "LRU"}
  BY TlbAssumption DEF OrdenInv, IInv, TlbTypeOK
<1>6. Contiguas'
  BY <1>1, <1>2 DEF OrdenInv, Contiguas, EnUso, Distancia, Entradas
<1>7. Cola = Vista(listaTlb, q) /\ q \in Seq(Entradas) /\ Len(q) = Cardinality(Usadas)
  BY <1>4, <1>5, ColaEs
<1>8. CASE reemplazo = "FIFO"
  <2>1. Turno' = Turno
    BY <1>1, <1>8 DEF Turno, Distancia, Entradas
  <2>2. Ordena(q, Usadas', Turno')
    BY <1>3, <1>4, <2>1
  <2>3. Cola' = Vista(listaTlb', q) /\ HayOrden'
    BY <2>2, SigueEnOrden
  <2>4. Vista(listaTlb', q) = Vista(listaTlb, q)
    <3>1. \A n \in 1 .. Len(q) : q[n] \in Entradas
      BY <1>7
    <3> QED BY <1>1, <1>2, <1>7, <3>1, VistaIgual
  <2> QED BY <1>1, <1>6, <1>7, <2>3, <2>4 DEF Abstracto!vars
<1>9. CASE reemplazo = "LRU"
  <2>1. PICK e \in Entradas : listaTlb[e].numPag = pag
    BY <1>1 DEF Esta
  <2>2. pag # -1 /\ e \in Usadas
    BY <2>1, TlbAssumption DEF Usadas, EnUso
  <2>3. PICK n \in 1 .. Cardinality(Usadas) : q[n] = e
    BY <1>4, <2>2 DEF Ordena
  <2>4. ASSUME NEW i \in Usadas \ {e}
        PROVE  listaTlb[i].numPag # pag /\ listaTlb[i].tiempo >= 0 /\ i \in Entradas
    BY <1>3, <2>1, <2>2, <2>4 DEF OrdenInv, IInv, SinRepetidas, Contadores, Usadas, EnUso
  <2>5. \A i \in Entradas : Turno[i] = -listaTlb[i].tiempo /\ Turno'[i] = -listaTlb'[i].tiempo
    BY <1>1, <1>9 DEF Turno, Entradas
  <2>6. \A i, j \in Usadas \ {q[n]} : Turno[i] < Turno[j] => Turno'[i] < Turno'[j]
    <3> SUFFICES ASSUME NEW i \in Usadas \ {e}, NEW j \in Usadas \ {e}, Turno[i] < Turno[j]
                 PROVE  Turno'[i] < Turno'[j]
      BY <2>3
    <3> QED BY <1>2, <2>4, <2>5
  <2>7. \A i \in Usadas \ {q[n]} : Turno'[i] < Turno'[q[n]]
    <3> SUFFICES ASSUME NEW i \in Usadas \ {e} PROVE Turno'[i] < Turno'[e]
      BY <2>3
    <3> QED BY <1>2, <2>1, <2>4, <2>5
  <2>8. \A i \in Usadas : listaTlb'[i].numPag = listaTlb[i].numPag /\ listaTlb'[i].numMarco = listaTlb[i].numMarco
    BY <1>2, <1>3
  <2>9. Cola' = Append(Quitar(Cola, n), Cola[n]) /\ HayOrden'
    BY <1>3, <1>4, <1>5, <2>6, <2>7, <2>8, UsarAlFinal
  <2>10. n \in DOMAIN Cola /\ Cola[n].pag = pag
    <3>1. n \in 1 .. Len(q)
      BY <1>7
    <3> QED BY <1>7, <2>1, <2>3, <3>1 DEF Vista
  <2>11. Abstracto!Usar(pag)
    BY <1>1, <1>9, <2>9, <2>10 DEF Abstracto!Usar, Abstracto!RemoveAt, Quitar
  <2> QED BY <1>6, <2>9, <2>11
<1> QED BY <1>5, <1>8, <1>9

\* The page is not in the queue when the search does not find it.
LEMMA NoEstaEnCola ==
    ASSUME OrdenInv, NEW pag \in NrosPagina, ~Esta(listaTlb, pag)
    PROVE  ~Abstracto!EstaPag(pag)
<1>1. PICK q : Ordena(q, Usadas, Turno)
  BY DEF OrdenInv, HayOrden
<1>2. Cola = Vista(listaTlb, q) /\ q \in Seq(Entradas)
  BY <1>1, ColaEs DEF OrdenInv, IInv
<1>3. \A n \in 1 .. Len(q) : q[n] \in Entradas /\ listaTlb[q[n]].numPag # pag
  BY <1>2 DEF Esta
<1> QED BY <1>2, <1>3 DEF Abstracto!EstaPag, Vista

\* A load under LRU takes a free entry, or that of the first.
LEMMA LruAgrega ==
    ASSUME OrdenInv, TlbTypeOK', NEW pag \in NrosPagina, NEW marco \in NrosMarco, ~Esta(listaTlb, pag),
           reemplazo = "LRU", reemplazo' = reemplazo,
           listaTlb' = ConLru(listaTlb, pag, marco), punterosPos' = punterosPos
    PROVE  HayOrden' /\ Contiguas' /\ Abstracto!Agregar(pag, marco)
<1> DEFINE e == ElegidaLru(listaTlb)
<1>1. PICK q : Ordena(q, Usadas, Turno)
  BY DEF OrdenInv, HayOrden
<1>2. /\ e \in Entradas
      /\ listaTlb'[e].numPag = pag /\ listaTlb'[e].numMarco = marco /\ listaTlb'[e].tiempo = 0
      /\ \A i \in Entradas \ {e} :
           /\ listaTlb'[i].numPag = listaTlb[i].numPag
           /\ listaTlb'[i].numMarco = listaTlb[i].numMarco
           /\ listaTlb'[i].tiempo = listaTlb[i].tiempo + (IF listaTlb[i].numPag = -1 THEN 1 ELSE 2)
           /\ listaTlb[i].tiempo \in Int
  <2> HIDE DEF e
  <2>1. \A k : k = ElegidaLru(listaTlb) => k = e
    BY DEF e
  <2> QED BY LruDeja DEF OrdenInv, e
<1>3. TlbTypeOK /\ listaTlb \in [Entradas -> Entrada] /\ pag # -1 /\ Usadas \in SUBSET Entradas
  BY TurnoTipo, TlbAssumption DEF OrdenInv, IInv
<1>4. e \notin Usadas \/ (Usadas = Entradas /\ q[1] = e)
  <2>1. CASE Libres(listaTlb) # {}
    <3>1. Libres(listaTlb) \subseteq Nat
      BY Anillo DEF Libres
    <3>2. \E m \in Libres(listaTlb) : \A n \in Libres(listaTlb) : m <= n
      BY <2>1, <3>1, MenorNatural
    <3>3. Min(Libres(listaTlb)) \in Libres(listaTlb)
      BY <3>2 DEF Min
    <3> QED BY <2>1, <3>3 DEF ElegidaLru, Libres, Usadas, EnUso
  <2>2. CASE Libres(listaTlb) = {}
    <3>1. Usadas = Entradas
      BY <2>2 DEF Libres, Usadas, EnUso
    <3>2. e = MenosReferenciada(listaTlb)
      BY <2>2 DEF ElegidaLru
    <3>3. \A j \in Entradas : listaTlb[j].tiempo <= listaTlb[e].tiempo
      <4>1. \E i \in Entradas : /\ \A j \in Entradas : listaTlb[j].tiempo <= listaTlb[i].tiempo
                                /\ \A j \in 1 .. i - 1 : listaTlb[j].tiempo < listaTlb[i].tiempo
        BY <1>3, PrimeraDeLasViejas
      <4> QED BY <3>2, <4>1 DEF MenosReferenciada
    <3> HIDE DEF e
    <3>4. PICK n \in 1 .. Cardinality(Usadas) : q[n] = e
      BY <1>1, <1>2, <3>1 DEF Ordena
    <3>5. Cardinality(Usadas) \in Nat /\ 1 \in 1 .. Cardinality(Usadas) /\ q[1] \in Entradas
      BY <1>1, <1>3, <3>4, EntradasFinitas DEF Ordena
    <3>6. CASE n = 1
      BY <3>1, <3>4, <3>6
    <3>7. CASE n # 1
      <4>1. Turno[q[1]] < Turno[e]
        BY <1>1, <3>4, <3>5, <3>7 DEF Ordena
      <4>2. Turno[q[1]] = -listaTlb[q[1]].tiempo /\ Turno[e] = -listaTlb[e].tiempo
        BY <1>2, <3>5 DEF Turno
      <4>3. listaTlb[q[1]].tiempo \in Int /\ listaTlb[e].tiempo \in Int /\ listaTlb[q[1]].tiempo <= listaTlb[e].tiempo
        BY <1>2, <1>3, <3>3, <3>5 DEF Entrada
      <4> QED BY <4>1, <4>2, <4>3
    <3> QED BY <3>6, <3>7
  <2> QED BY <2>1, <2>2
<1> HIDE DEF e
<1>5. Usadas' = Usadas \cup {e}
  <2>1. \A i \in Entradas : EnUso(i)' <=> (i = e \/ EnUso(i))
    BY <1>2, <1>3 DEF EnUso
  <2> QED BY <1>2, <2>1 DEF Usadas, Entradas
<1>6. \A i \in Entradas : Turno[i] = -listaTlb[i].tiempo /\ Turno'[i] = -listaTlb'[i].tiempo
  BY DEF Turno, Entradas
<1>7. ASSUME NEW i \in Usadas \ {e}
      PROVE  /\ i \in Entradas /\ listaTlb[i].tiempo \in Int /\ listaTlb[i].tiempo >= 0
             /\ listaTlb'[i].tiempo = listaTlb[i].tiempo + 2
  BY <1>2, <1>3, <1>7 DEF OrdenInv, IInv, Contadores, Usadas, EnUso
<1>8. \A i, j \in Usadas \ {e} : Turno[i] < Turno[j] => Turno'[i] < Turno'[j]
  <2> SUFFICES ASSUME NEW i \in Usadas \ {e}, NEW j \in Usadas \ {e}, Turno[i] < Turno[j]
               PROVE  Turno'[i] < Turno'[j]
    OBVIOUS
  <2> QED BY <1>6, <1>7
<1>9. \A i \in Usadas \ {e} : Turno'[i] < Turno'[e]
  <2> SUFFICES ASSUME NEW i \in Usadas \ {e} PROVE Turno'[i] < Turno'[e]
    OBVIOUS
  <2> QED BY <1>2, <1>6, <1>7
<1>10. \A i \in Usadas \ {e} : listaTlb'[i].numPag = listaTlb[i].numPag /\ listaTlb'[i].numMarco = listaTlb[i].numMarco
  BY <1>2, <1>3
<1>11. /\ Cola' = Append(IF Len(Cola) = ENTRADAS_TLB THEN Tail(Cola) ELSE Cola, [pag |-> pag, marco |-> marco])
       /\ HayOrden'
  BY <1>1, <1>2, <1>3, <1>4, <1>5, <1>8, <1>9, <1>10, AgregarAlFinal
<1>12. Abstracto!Agregar(pag, marco)
  BY <1>11, NoEstaEnCola DEF Abstracto!Agregar
<1> QED BY <1>11, <1>12 DEF Contiguas

\* A load under FIFO takes the entry of the pointer.
LEMMA FifoAgrega ==
    ASSUME OrdenInv, TlbTypeOK', NEW pag \in NrosPagina, NEW marco \in NrosMarco, ~Esta(listaTlb, pag),
           reemplazo = "FIFO", reemplazo' = reemplazo,
           listaTlb' = Colocar(listaTlb, punterosPos, pag, marco),
           punterosPos' = SiguienteEntrada(punterosPos)
    PROVE  HayOrden' /\ Contiguas' /\ Abstracto!Agregar(pag, marco)
<1>0. PICK e : e = punterosPos
  OBVIOUS
<1>1. PICK q : Ordena(q, Usadas, Turno)
  BY DEF OrdenInv, HayOrden
<1>2. TlbTypeOK /\ listaTlb \in [Entradas -> Entrada] /\ pag # -1 /\ Usadas \in SUBSET Entradas
  BY TurnoTipo, TlbAssumption DEF OrdenInv, IInv
<1>3. /\ e \in Entradas
      /\ listaTlb'[e].numPag = pag /\ listaTlb'[e].numMarco = marco
      /\ \A i \in Entradas \ {e} : listaTlb'[i] = listaTlb[i]
  BY <1>0, <1>2 DEF TlbTypeOK, Colocar, Entrada
<1>4. /\ Distancia(e) = 0 /\ Distancia(e)' = ENTRADAS_TLB - 1
      /\ \A i \in Entradas \ {e} : /\ Distancia(i) \in 1 .. ENTRADAS_TLB - 1
                                   /\ Distancia(i)' = Distancia(i) - 1
  <2>1. ENTRADAS_TLB \in Nat \ {0} /\ e \in Nat /\ 1 <= e /\ e <= ENTRADAS_TLB
    BY <1>3, Anillo DEF Entradas
  <2>2. punterosPos' = IF e = ENTRADAS_TLB THEN 1 ELSE e + 1
    BY <1>0 DEF SiguienteEntrada
  <2>3. ASSUME NEW i \in Entradas \ {e}
        PROVE  Distancia(i) \in 1 .. ENTRADAS_TLB - 1 /\ Distancia(i)' = Distancia(i) - 1
    <3>1. i \in Nat /\ 1 <= i /\ i <= ENTRADAS_TLB /\ i # e
      BY <2>1 DEF Entradas
    <3>2. CASE e = ENTRADAS_TLB
      BY <1>0, <2>1, <2>2, <3>1, <3>2 DEF Distancia
    <3>3. CASE e # ENTRADAS_TLB
      BY <1>0, <2>1, <2>2, <3>1, <3>3 DEF Distancia
    <3> QED BY <3>2, <3>3
  <2>4. Distancia(e) = 0 /\ Distancia(e)' = ENTRADAS_TLB - 1
    BY <1>0, <2>1, <2>2 DEF Distancia
  <2> QED BY <2>3, <2>4
<1>5. \A i \in Entradas : Turno[i] = Distancia(i) /\ Turno'[i] = Distancia(i)'
  BY DEF Turno, Entradas
<1>6. e \notin Usadas \/ (Usadas = Entradas /\ q[1] = e)
  <2> SUFFICES ASSUME e \in Usadas PROVE Usadas = Entradas /\ q[1] = e
    OBVIOUS
  <2>1. Usadas = Entradas
    <3>1. ASSUME NEW i \in Entradas \ {e} PROVE EnUso(i)
      <4>1. Distancia(e) < Distancia(i) /\ EnUso(e)
        BY <1>4 DEF Usadas
      <4> QED BY <1>3, <4>1 DEF OrdenInv, Contiguas
    <3> QED BY <3>1 DEF Usadas
  <2>2. PICK n \in 1 .. Cardinality(Usadas) : q[n] = e
    BY <1>1 DEF Ordena
  <2>3. Cardinality(Usadas) \in Nat /\ 1 \in 1 .. Cardinality(Usadas) /\ q[1] \in Entradas
    BY <1>1, <1>2, <2>2, EntradasFinitas DEF Ordena
  <2>4. CASE n # 1
    <3>1. Turno[q[1]] < Turno[e]
      BY <1>1, <2>2, <2>3, <2>4 DEF Ordena
    <3> QED BY <1>3, <1>4, <1>5, <2>3, <3>1
  <2> QED BY <2>1, <2>2, <2>4
<1>7. \A i \in Entradas : EnUso(i)' <=> (i = e \/ EnUso(i))
  BY <1>2, <1>3 DEF EnUso
<1>8. Usadas' = Usadas \cup {e}
  BY <1>3, <1>7 DEF Usadas, Entradas
<1>9. \A i, j \in Usadas \ {e} : Turno[i] < Turno[j] => Turno'[i] < Turno'[j]
  <2> SUFFICES ASSUME NEW i \in Usadas \ {e}, NEW j \in Usadas \ {e}, Turno[i] < Turno[j]
               PROVE  Turno'[i] < Turno'[j]
    OBVIOUS
  <2> QED BY <1>2, <1>4, <1>5
<1>10. \A i \in Usadas \ {e} : Turno'[i] < Turno'[e]
  <2> SUFFICES ASSUME NEW i \in Usadas \ {e} PROVE Turno'[i] < Turno'[e]
    OBVIOUS
  <2> QED BY <1>2, <1>3, <1>4, <1>5, Anillo
<1>11. \A i \in Usadas \ {e} : listaTlb'[i].numPag = listaTlb[i].numPag /\ listaTlb'[i].numMarco = listaTlb[i].numMarco
  BY <1>2, <1>3
<1>12. /\ Cola' = Append(IF Len(Cola) = ENTRADAS_TLB THEN Tail(Cola) ELSE Cola, [pag |-> pag, marco |-> marco])
       /\ HayOrden'
  BY <1>1, <1>2, <1>3, <1>6, <1>8, <1>9, <1>10, <1>11, AgregarAlFinal
<1>13. Abstracto!Agregar(pag, marco)
  BY <1>12, NoEstaEnCola DEF Abstracto!Agregar
<1>14. Contiguas'
  <2> SUFFICES ASSUME NEW i \in Entradas, NEW j \in Entradas, EnUso(i)', Distancia(i)' < Distancia(j)'
               PROVE  EnUso(j)'
    BY DEF Contiguas, Entradas
  <2>1. CASE j = e
    BY <1>7, <2>1
  <2>2. CASE j # e
    <3>1. i # e
      BY <1>4, <2>2, Anillo
    <3>2. EnUso(i) /\ Distancia(i) < Distancia(j)
      BY <1>4, <1>7, <2>2, <3>1
    <3>3. EnUso(j)
      BY <3>2 DEF OrdenInv, Contiguas
    <3> QED BY <1>7, <3>3
  <2> QED BY <2>1, <2>2
<1> QED BY <1>12, <1>13, <1>14

LEMMA FalloAgrega ==
    ASSUME OrdenInv, TlbTypeOK', NEW pag \in NrosPagina, NEW marco \in NrosMarco, Fallo(pag, marco)
    PROVE  HayOrden' /\ Contiguas' /\ Abstracto!Agregar(pag, marco)
<1>1. ~Esta(listaTlb, pag) /\ TrasBuscar(pag) = listaTlb
  BY BuscarEncuentra DEF Fallo, TrasBuscar, OrdenInv
<1>2. CASE reemplazo = "FIFO"
  BY <1>1, <1>2, FifoAgrega DEF Fallo, AgregarEntradaATLB
<1>3. CASE reemplazo = "LRU"
  BY <1>1, <1>3, LruAgrega DEF Fallo, AgregarEntradaATLB
<1> QED BY <1>2, <1>3 DEF Fallo, AgregarEntradaATLB

\* An empty TLB is the empty queue.
LEMMA NadaEnUso ==
    ASSUME \A i \in Entradas : ~EnUso(i)
    PROVE  Cola = <<>> /\ HayOrden /\ Contiguas
<1>1. Usadas = {} /\ Cardinality(Usadas) = 0
  BY FS_EmptySet DEF Usadas
<1>2. Ordena(<<>>, Usadas, Turno)
  BY <1>1 DEF Ordena
<1> QED BY <1>1, <1>2 DEF Cola, HayOrden, Contiguas

LEMMA DesalojarVacia ==
    ASSUME DesalojarProcesoTLB
    PROVE  HayOrden' /\ Contiguas' /\ Abstracto!Vaciar
<1>1. \A i \in Entradas : ~EnUso(i)'
  BY DEF DesalojarProcesoTLB, EnUso, Vacia
<1>2. Usadas' = {} /\ Cardinality(Usadas') = 0
  BY <1>1, FS_EmptySet DEF Usadas, Entradas
<1>3. Ordena(<<>>, Usadas', Turno')
  BY <1>2 DEF Ordena
<1> QED BY <1>1, <1>2, <1>3 DEF Cola, HayOrden, Contiguas, Abstracto!Vaciar, DesalojarProcesoTLB, Entradas

LEMMA OrdenPasos ==
    ASSUME OrdenInv, IInv', [TlbNext]_tlbVars
    PROVE  OrdenInv' /\ [Abstracto!Next]_(Abstracto!vars)
<1>1. TlbTypeOK'
  BY DEF IInv
<1>2. CASE \E pag \in NrosPagina : Acierto(pag)
  BY <1>1, <1>2, AciertoUsa DEF OrdenInv, Abstracto!Next
<1>3. CASE \E pag \in NrosPagina : \E marco \in NrosMarco : Fallo(pag, marco)
  BY <1>1, <1>3, FalloAgrega DEF OrdenInv, Abstracto!Next
<1>4. CASE DesalojarProcesoTLB
  BY <1>4, DesalojarVacia DEF OrdenInv, Abstracto!Next
<1>5. CASE UNCHANGED tlbVars
  <2>1. UNCHANGED <<Usadas, Turno, Cola, reemplazo>>
    BY <1>5 DEF tlbVars, Usadas, EnUso, Turno, Distancia, Cola, Entradas
  <2>2. HayOrden' /\ Contiguas'
    BY <1>5, <2>1 DEF OrdenInv, HayOrden, Contiguas, EnUso, Distancia, tlbVars, Entradas
  <2> QED BY <2>1, <2>2 DEF OrdenInv, Abstracto!vars
<1> QED BY <1>2, <1>3, <1>4, <1>5 DEF TlbNext

\* A TLB of any size, with FIFO or LRU, is the bounded queue of Reemplazo.
THEOREM TlbEsReemplazo == TlbSpec => CumpleReemplazo
<1>1. TlbInit => Abstracto!Init /\ OrdenInv
  <2> SUFFICES ASSUME TlbInit PROVE Abstracto!Init /\ OrdenInv
    OBVIOUS
  <2>1. \A i \in Entradas : ~EnUso(i)
    BY DEF TlbInit, EnUso, Vacia
  <2> QED BY <2>1, NadaEnUso, IniciaInvariante DEF TlbInit, Abstracto!Init, OrdenInv
<1>2. OrdenInv /\ IInv' /\ [TlbNext]_tlbVars => OrdenInv' /\ [Abstracto!Next]_(Abstracto!vars)
  BY OrdenPasos
<1> QED BY <1>1, <1>2, InvarianteDeTlb, PTL DEF TlbSpec, CumpleReemplazo, Abstracto!Spec

\* So is the one of a running CPU.
THEOREM LaCpuReemplaza == Spec => CumpleReemplazo
<1> QED BY TlbEsReemplazo, LaCpuUsaLaTlb, PTL DEF EsTlb

=============================================================================
