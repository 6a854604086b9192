---------------------------- MODULE TlbReemplazo ----------------------------
(***************************************************************************)
(* The TLB as the queue of Reemplazo: its entries in use, in the order in    *)
(* which they will be replaced.                                              *)
(***************************************************************************)
EXTENDS Tlb

Usadas == {i \in Entradas : EnUso(i)}

\* How far the pointer of FIFO is from an entry.
Distancia(i) == IF punterosPos <= i THEN i - punterosPos ELSE i - punterosPos + ENTRADAS_TLB

\* Who goes first: under LRU the entry with the highest counter, under FIFO the
\* next one the pointer meets.
Turno == [i \in Entradas |-> IF reemplazo = "LRU" THEN -listaTlb[i].tiempo ELSE Distancia(i)]

\* The elements of a set of entries, by their turn: so many go before each one.
EnOrden(S, turno) ==
    [n \in 1 .. Cardinality(S) |->
       CHOOSE i \in S : Cardinality({j \in S : turno[j] < turno[i]}) = n - 1]

Cola ==
    LET q == EnOrden(Usadas, Turno)
    IN  [n \in 1 .. Cardinality(Usadas) |->
           [pag |-> listaTlb[q[n]].numPag, marco |-> listaTlb[q[n]].numMarco]]

Abstracto == INSTANCE Reemplazo WITH Capacidad <- ENTRADAS_TLB, orden <- Cola

\* The ring with its counters, or its pointer, is a bounded queue of translations
\* from which the least recently used, or the oldest, goes first.
CumpleReemplazo == Abstracto!Spec

=============================================================================
