-------------------------------- MODULE Tlb --------------------------------
(***************************************************************************)
(* The TLB of a CPU (traduccion.c): a ring of entries that are found by page *)
(* number alone and replaced by FIFO, with a pointer, or by LRU, with a      *)
(* counter per entry of the accesses since it was last used.                 *)
(***************************************************************************)
EXTENDS Integers, FiniteSetsExt

CONSTANTS
    ENTRADAS_TLB,
    Reemplazos,       \* values REEMPLAZO_TLB may have
    NrosPagina,       \* page numbers a program may use
    NrosMarco         \* frames a walk may answer

ASSUME TlbAssumption ==
    /\ ENTRADAS_TLB \in Nat \ {0}
    /\ Reemplazos \subseteq {"FIFO", "LRU"}
    /\ NrosPagina \subseteq Nat
    /\ NrosMarco \subseteq Nat

VARIABLES
    reemplazo,        \* REEMPLAZO_TLB
    listaTlb,         \* the ring
    punterosPos       \* where FIFO replaces next

tlbVars == <<reemplazo, listaTlb, punterosPos>>

Entradas == 1 .. ENTRADAS_TLB

Vacia == [numPag |-> -1, numMarco |-> -1, tiempo |-> 0]

EnUso(i) == listaTlb[i].numPag # -1

-----------------------------------------------------------------------------
(* Searching.                                                              *)

\* Mutant: the search stops one entry early.
EstaSinUltima(tlb, pag) == \E i \in 1 .. ENTRADAS_TLB - 1 : tlb[i].numPag = pag

Esta(tlb, pag) == \E i \in Entradas : tlb[i].numPag = pag

\* Mutant: the other entries do not grow older.
ReferenciaSoloPropia(tlb, pag) ==
    [i \in Entradas |-> [tlb[i] EXCEPT !.tiempo = IF tlb[i].numPag = pag THEN 0 ELSE @]]

\* modificarReferencia: pag was just used, every other entry grows older.
ModificarReferencia(tlb, pag) ==
    [i \in Entradas |-> [tlb[i] EXCEPT !.tiempo = IF tlb[i].numPag = pag THEN 0 ELSE @ + 1]]

\* The entry a search finds, and what buscarTlb answers.
Encontrada(pag) ==
    CHOOSE i \in Entradas : listaTlb[i].numPag = pag /\ \A j \in 1 .. i - 1 : listaTlb[j].numPag # pag

BuscarTlb(pag) == IF Esta(listaTlb, pag) THEN listaTlb[Encontrada(pag)].numMarco ELSE -1

\* The ring after a search.
TrasBuscar(pag) == IF Esta(listaTlb, pag) THEN ModificarReferencia(listaTlb, pag) ELSE listaTlb

-----------------------------------------------------------------------------
(* Replacing.                                                              *)

Colocar(tlb, i, pag, marco) == [tlb EXCEPT ![i] = [numPag |-> pag, numMarco |-> marco, tiempo |-> 0]]

Libres(tlb) == {i \in Entradas : tlb[i].numPag = -1}

\* Mutant: the comparison is the other way round.
MasReferenciada(tlb) ==
    CHOOSE i \in Entradas : /\ \A j \in Entradas : tlb[i].tiempo <= tlb[j].tiempo
                            /\ \A j \in 1 .. i - 1 : tlb[j].tiempo > tlb[i].tiempo

\* encontrarNodoConMenosReferencia: the first of the oldest.
MenosReferenciada(tlb) ==
    CHOOSE i \in Entradas : /\ \A j \in Entradas : tlb[j].tiempo <= tlb[i].tiempo
                            /\ \A j \in 1 .. i - 1 : tlb[j].tiempo < tlb[i].tiempo

ElegidaLru(tlb) == IF Libres(tlb) # {} THEN Min(Libres(tlb)) ELSE MenosReferenciada(tlb)

\* actualizarContadores.
ActualizarContadores(tlb, pag) ==
    [i \in Entradas |-> IF tlb[i].numPag \in {-1, pag} THEN tlb[i] ELSE [tlb[i] EXCEPT !.tiempo = @ + 1]]

\* implementarAlgoritmoLRU and the modificarReferencia that follows it.
ConLru(tlb, pag, marco) ==
    ModificarReferencia(ActualizarContadores(Colocar(tlb, ElegidaLru(tlb), pag, marco), pag), pag)

SiguienteEntrada(i) == IF i = ENTRADAS_TLB THEN 1 ELSE i + 1

\* agregarEntradaATLB, on the ring a search left.
AgregarEntradaATLB(tlb, pag, marco) ==
    \/ /\ reemplazo = "FIFO"
       /\ listaTlb' = Colocar(tlb, punterosPos, pag, marco)
       /\ punterosPos' = SiguienteEntrada(punterosPos)
    \/ /\ reemplazo = "LRU"
       /\ listaTlb' = ConLru(tlb, pag, marco)
       /\ UNCHANGED punterosPos

-----------------------------------------------------------------------------
(* What a CPU does with its TLB.                                           *)

\* The page is found with a frame.
Acierto(pag) ==
    /\ BuscarTlb(pag) # -1
    /\ listaTlb' = TrasBuscar(pag)
    /\ UNCHANGED <<reemplazo, punterosPos>>

\* It is not, and the frame a walk gives is added.
Fallo(pag, marco) ==
    /\ BuscarTlb(pag) = -1
    /\ AgregarEntradaATLB(TrasBuscar(pag), pag, marco)
    /\ UNCHANGED reemplazo

\* Mutant: the last entry is not emptied.
DesalojarMenosUno ==
    /\ listaTlb' = [i \in Entradas |-> IF i = ENTRADAS_TLB THEN listaTlb[i] ELSE [Vacia EXCEPT !.tiempo = -1]]
    /\ UNCHANGED <<reemplazo, punterosPos>>

\* desalojarProcesoTLB; the pointer stays where it was.
DesalojarProcesoTLB ==
    /\ listaTlb' = [i \in Entradas |-> [Vacia EXCEPT !.tiempo = -1]]
    /\ UNCHANGED <<reemplazo, punterosPos>>

TlbInit ==
    /\ reemplazo \in Reemplazos
    /\ listaTlb = [i \in Entradas |-> Vacia]
    /\ punterosPos = 1

TlbNext ==
    \/ \E pag \in NrosPagina : Acierto(pag) \/ \E marco \in NrosMarco : Fallo(pag, marco)
    \/ DesalojarProcesoTLB

TlbSpec == TlbInit /\ [][TlbNext]_tlbVars

-----------------------------------------------------------------------------
(* What makes it correct.                                                  *)

TlbTypeOK ==
    /\ reemplazo \in Reemplazos
    /\ listaTlb \in [Entradas -> [numPag : NrosPagina \cup {-1}, numMarco : NrosMarco \cup {-1}, tiempo : Int]]
    /\ punterosPos \in Entradas

\* No page has two entries: buscarTlb takes the first one it meets, and a second
\* one would answer for it after the first is replaced.
SinRepetidas == \A i, j \in Entradas : EnUso(i) /\ listaTlb[i].numPag = listaTlb[j].numPag => i = j

\* Under LRU no two entries are equally old, although a hit, a load and the
\* emptying count in different ways: encontrarNodoConMenosReferencia, which
\* settles ties by position, never has one to settle.
ContadoresDistintos ==
    reemplazo = "LRU" =>
      \A i, j \in Entradas :
        i # j /\ EnUso(i) /\ EnUso(j) => listaTlb[i].tiempo # listaTlb[j].tiempo

=============================================================================
