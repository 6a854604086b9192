----------------------------- MODULE Paginacion -----------------------------
(***************************************************************************)
(* The page tables of the memory module: a tree of CANTIDAD_NIVELES levels   *)
(* whose last level holds frames, and the walks over it.  A table is the     *)
(* sequence of its entries; NULL is the empty sequence.                      *)
(***************************************************************************)
EXTENDS Integers, Sequences, FiniteSetsExt

CONSTANTS ENTRADAS_POR_TABLA, CANTIDAD_NIVELES

ASSUME PaginacionAssumption ==
    /\ ENTRADAS_POR_TABLA \in Nat \ {0}
    /\ CANTIDAD_NIVELES \in Nat \ {0}

\* pow(ENTRADAS_POR_TABLA, n).
Potencia[n \in 0 .. CANTIDAD_NIVELES] ==
    IF n = 0 THEN 1 ELSE ENTRADAS_POR_TABLA * Potencia[n - 1]

\* Pages a whole tree can map.
Capacidad == Potencia[CANTIDAD_NIVELES]

\* The entry that page pag uses in its table of a level.
Indice(pag, nivel) == (pag \div Potencia[CANTIDAD_NIVELES - nivel]) % ENTRADAS_POR_TABLA

\* What is left of marcos after the first n.
Desde(marcos, n) == SubSeq(marcos, n + 1, Len(marcos))

\* A table of the last level: as many frames as fit in it.
TablaDeMarcos(marcos) ==
    [tabla |-> SubSeq(marcos, 1, Min({ENTRADAS_POR_TABLA, Len(marcos)})),
     resto |-> Desde(marcos, ENTRADAS_POR_TABLA)]

\* A table of any other level: each entry is what sub builds out of the frames that
\* are left, NULL when there are none.
TablaDeTablas(sub, marcos) ==
    LET Hasta[i \in 0 .. ENTRADAS_POR_TABLA] ==
          IF i = 0 THEN [tabla |-> <<>>, resto |-> marcos]
          ELSE LET previa == Hasta[i - 1]
               IN  IF previa.resto = <<>>
                   THEN [tabla |-> Append(previa.tabla, <<>>), resto |-> <<>>]
                   ELSE [tabla |-> Append(previa.tabla, sub[previa.resto].tabla),
                         resto |-> sub[previa.resto].resto]
    IN  Hasta[ENTRADAS_POR_TABLA]

\* A table of a level, built depth first out of the frames still to be mapped;
\* resto are those that did not fit in it.
CrearNivelTabla[nivel \in 1 .. CANTIDAD_NIVELES] ==
    IF nivel = CANTIDAD_NIVELES
    THEN [marcos \in Seq(Int) |-> TablaDeMarcos(marcos)]
    ELSE [marcos \in Seq(Int) |-> TablaDeTablas(CrearNivelTabla[nivel + 1], marcos)]

\* The tree of a process that was given these frames, in this order.
TablaRaiz(marcos) == CrearNivelTabla[1][marcos].tabla

\* Mutant: the index of the level above is used.
ObtenerMarcoDesplazado(raiz, pag) ==
    LET Tabla[n \in 0 .. CANTIDAD_NIVELES - 1] ==
          IF n = 0 THEN raiz
          ELSE IF Indice(pag, n + 1) >= Len(Tabla[n - 1]) THEN <<>>
          ELSE Tabla[n - 1][Indice(pag, n + 1) + 1]
        hoja == Tabla[CANTIDAD_NIVELES - 1]
    IN  IF Indice(pag, CANTIDAD_NIVELES) >= Len(hoja) THEN -1
        ELSE hoja[Indice(pag, CANTIDAD_NIVELES) + 1]

\* obtener_marco_de_pagina_logica: one index per level, -1 when there is no entry.
ObtenerMarco(raiz, pag) ==
    LET Tabla[n \in 0 .. CANTIDAD_NIVELES - 1] ==
          IF n = 0 THEN raiz
          ELSE IF Indice(pag, n) >= Len(Tabla[n - 1]) THEN <<>>
          ELSE Tabla[n - 1][Indice(pag, n) + 1]
        hoja == Tabla[CANTIDAD_NIVELES - 1]
    IN  IF Indice(pag, CANTIDAD_NIVELES) >= Len(hoja) THEN -1
        ELSE hoja[Indice(pag, CANTIDAD_NIVELES) + 1]

\* Mutant: the entries of a table are counted from one.
NavegarDesdeUno(raiz, pag) ==
    LET respuesta == [nivel \in 1 .. CANTIDAD_NIVELES |-> ObtenerMarco(raiz, Indice(pag, nivel) + 1)]
    IN  respuesta[CANTIDAD_NIVELES]

\* navegarNiveles: the CPU asks once per level for the entry of that level, the
\* memory module looks each one up as if it were a page, and the last answer stays.
NavegarNiveles(raiz, pag) ==
    LET respuesta == [nivel \in 1 .. CANTIDAD_NIVELES |-> ObtenerMarco(raiz, Indice(pag, nivel))]
    IN  respuesta[CANTIDAD_NIVELES]

=============================================================================
