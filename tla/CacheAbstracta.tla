--------------------------- MODULE CacheAbstracta ---------------------------
(***************************************************************************)
(* What a page cache is, whatever it is replaced by: a bounded set of pages  *)
(* that grows on a miss, and gives one page up for another only when full.  *)
(***************************************************************************)
EXTENDS Naturals, FiniteSets

CONSTANTS Capacidad, NrosPagina

VARIABLE paginas

Init == paginas = {}

Cargar(pag) ==
    /\ pag \notin paginas
    /\ Cardinality(paginas) < Capacidad
    /\ paginas' = paginas \cup {pag}

Reemplazar(pag, victima) ==
    /\ pag \notin paginas
    /\ victima \in paginas
    /\ Cardinality(paginas) = Capacidad
    /\ paginas' = (paginas \ {victima}) \cup {pag}

Sacar(pag) ==
    /\ pag \in paginas
    /\ paginas' = paginas \ {pag}

Next ==
    \E pag \in NrosPagina :
        Cargar(pag) \/ Sacar(pag) \/ \E victima \in paginas : Reemplazar(pag, victima)

Spec == Init /\ [][Next]_paginas

=============================================================================
