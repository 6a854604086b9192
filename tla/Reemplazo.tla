----------------------------- MODULE Reemplazo -----------------------------
(***************************************************************************)
(* What a TLB replaced by FIFO or LRU is: a bounded queue of translations    *)
(* whose head goes first.  Under LRU a translation that is used goes to the  *)
(* end of the queue, under FIFO it stays.                                    *)
(***************************************************************************)
EXTENDS Integers, SequencesExt

CONSTANTS Capacidad, NrosPagina, NrosMarco, Reemplazos

VARIABLES reemplazo, orden

vars == <<reemplazo, orden>>

EstaPag(pag) == \E n \in DOMAIN orden : orden[n].pag = pag

Init == reemplazo \in Reemplazos /\ orden = <<>>

Usar(pag) ==
    /\ reemplazo = "LRU"
    /\ \E n \in DOMAIN orden : orden[n].pag = pag /\ orden' = Append(RemoveAt(orden, n), orden[n])
    /\ UNCHANGED reemplazo

Agregar(pag, marco) ==
    /\ ~EstaPag(pag)
    /\ orden' = Append(IF Len(orden) = Capacidad THEN Tail(orden) ELSE orden,
                       [pag |-> pag, marco |-> marco])
    /\ UNCHANGED reemplazo

Vaciar == orden' = <<>> /\ UNCHANGED reemplazo

Next ==
    \/ \E pag \in NrosPagina : Usar(pag) \/ \E marco \in NrosMarco : Agregar(pag, marco)
    \/ Vaciar

Spec == Init /\ [][Next]_vars

=============================================================================
