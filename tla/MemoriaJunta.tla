---------------------------- MODULE MemoriaJunta ----------------------------
(***************************************************************************)
(* Memoria without the restriction of one request per process in the one    *)
(* place where it hides something: the Kernel sends INICIALIZAR_PROCESO_     *)
(* SUSPENDIDO about a process whose SUSPENDER_PROCESO has not been answered, *)
(* because the process left SUSP_BLOCKED meanwhile (transicionar_a_susp_     *)
(* ready).  Both threads of the memory module are then at work on it: for a  *)
(* while it has two entries in procesos_en_memoria, with a table each.       *)
(*                                                                         *)
(* The Kernel learns of the resumption only after the suspension answered;   *)
(* from there on Memoria's actions carry on with it.                       *)
(***************************************************************************)
EXTENDS Memoria

CONSTANT Nadie

VARIABLE vuelta       \* the resumption under way beside a suspension

varsJunta == <<vars, vuelta>>

SinVuelta == [p |-> Nadie, paso |-> "libre", tabla |-> <<>>, datos |-> <<>>]

InitJunta == Init /\ vuelta = SinVuelta

VueltaEn(paso) == vuelta.p # Nadie /\ vuelta.paso = paso

\* The thread of the resumption added its entry, after the one of the suspension.
ConSegundaEntrada(p) == vuelta.p = p /\ vuelta.paso \in {"copiando", "devolviendo", "acepta"}

\* desuspender_proceso finds the record that suspender_proceso just linked, and
\* reads the file.
Volver(p) ==
    /\ vuelta = SinVuelta
    /\ pedido[p] = "SUSPENDER_PROCESO"
    /\ ~EnVuelo("INICIALIZAR_PROCESO_SUSPENDIDO")
    /\ RegistrosDe(p) # {}
    /\ vuelta' = [p |-> p, paso |-> "contando", tabla |-> <<>>,
                  datos |-> SubSeq(archivo, RegistroDe(p).offset + 1, Fin(RegistroDe(p)))]
    /\ UNCHANGED vars

\* inicializar_proceso, for a second entry of the process.
VueltaCuenta ==
    /\ VueltaEn("contando")
    /\ vuelta' = [vuelta EXCEPT !.paso = IF Alcanza(vuelta.p) THEN "tomando" ELSE "rechaza"]
    /\ UNCHANGED vars

VueltaToma ==
    /\ VueltaEn("tomando")
    /\ Len(vuelta.tabla) < Paginas[vuelta.p]
    /\ Libres # {}
    /\ ocupado' = ocupado \cup {SiguienteMarcoLibre}
    /\ vuelta' = [vuelta EXCEPT !.tabla = Append(@, SiguienteMarcoLibre)]
    /\ UNCHANGED <<contenido, tabla, enMemoria, swap, hilos, vida, escrito, cuenta>>

VueltaSinMarcos ==
    /\ VueltaEn("tomando")
    /\ Len(vuelta.tabla) < Paginas[vuelta.p]
    /\ Libres = {}
    /\ vuelta' = [vuelta EXCEPT !.paso = "rechaza", !.tabla = <<>>]
    /\ ocupado' = ocupado \ Range(vuelta.tabla)
    /\ UNCHANGED <<contenido, tabla, enMemoria, swap, hilos, vida, escrito, cuenta>>

VueltaAlta ==
    /\ VueltaEn("tomando")
    /\ Len(vuelta.tabla) = Paginas[vuelta.p]
    /\ enMemoria' = enMemoria \cup {vuelta.p}
    /\ vuelta' = [vuelta EXCEPT !.paso = "copiando"]
    /\ UNCHANGED <<fisica, tabla, swap, hilos, vida, escrito, cuenta>>

\* obtener_marcos_proceso takes the first entry of the process: the one of the
\* suspension, if finalizar_proceso has not removed it yet.
PrimeraEntrada(p) == IF En(p, "quitando") THEN tabla[p] ELSE vuelta.tabla

VueltaCopia ==
    /\ VueltaEn("copiando")
    /\ LET t == PrimeraEntrada(vuelta.p)
       IN contenido' = [m \in NroMarcos |->
                            IF \E i \in DOMAIN t : t[i] = m
                            THEN vuelta.datos[CHOOSE i \in DOMAIN t : t[i] = m] ELSE contenido[m]]
    /\ vuelta' = [vuelta EXCEPT !.paso = "devolviendo"]
    /\ UNCHANGED <<ocupado, tabla, enMemoria, swap, hilos, vida, escrito, cuenta>>

\* The hole is given back and the record removed, as when list operations do not
\* overlap.
VueltaDevuelve ==
    /\ VueltaEn("devolviendo")
    /\ Quieta("enlazandoRegistro")
    /\ LET r == RegistroDe(vuelta.p)
       IN huecos' = Append(huecos, [offset |-> r.offset, tam |-> r.tam])
    /\ enSwap' = SinRegistro(vuelta.p)
    /\ vuelta' = [vuelta EXCEPT !.paso = "acepta"]
    /\ UNCHANGED <<fisica, tabla, enMemoria, archivo, hilos, vida, escrito, cuenta>>

\* suspender_proceso: the record is linked, and only then finalizar_proceso
\* removes the first entry of the process.
EnlazarSinQuitar(p) ==
    /\ En(p, "enlazandoRegistro")
    /\ enSwap' = Enlazar(enSwap, ultimo[p], [pid |-> p, offset |-> lugar[p], tam |-> Len(buffer[p])])
    /\ Pasa(p, "quitando")
    /\ UNCHANGED <<fisica, tabla, enMemoria, huecos, archivo, pedido, buffer, lugar, ultimo, vida, escrito,
                   cuenta, vuelta>>

Quitar(p) ==
    /\ En(p, "quitando")
    /\ enMemoria' = IF ConSegundaEntrada(p) THEN enMemoria ELSE enMemoria \ {p}
    /\ Pasa(p, "soltando")
    /\ UNCHANGED <<fisica, tabla, swap, pedido, buffer, lugar, ultimo, vida, escrito, cuenta, vuelta>>

\* The suspension answers; what is left of the resumption, its answer at least,
\* goes on as the request in flight about the process.
ContestarConVuelta(p) ==
    /\ vuelta.p = p
    /\ En(p, "confirma")
    /\ pedido' = [pedido EXCEPT ![p] = "INICIALIZAR_PROCESO_SUSPENDIDO"]
    /\ Pasa(p, vuelta.paso)
    /\ tabla' = [tabla EXCEPT ![p] = vuelta.tabla]
    /\ buffer' = [buffer EXCEPT ![p] = vuelta.datos]
    /\ vida' = [vida EXCEPT ![p] = "suspendido"]
    /\ vuelta' = SinVuelta
    /\ UNCHANGED <<fisica, enMemoria, swap, lugar, ultimo, escrito, cuenta>>

Vuelve == VueltaCuenta \/ VueltaToma \/ VueltaSinMarcos \/ VueltaAlta \/ VueltaCopia \/ VueltaDevuelve

SuspendeAntes(p) == UbicarEnHueco(p) \/ UbicarAlFinal(p) \/ EscribirEnSwap(p) \/ Registrar(p)

TerminaSola(p) == LiberarMarco(p) \/ TablaDestruida(p) \/ (vuelta.p # p /\ Contestar(p))

DeMemoria(p) ==
    /\ Pide(p) \/ Inicializa(p) \/ Reanuda(p) \/ SuspendeAntes(p) \/ TerminaSola(p) \/ EscribirPagina(p)
    /\ UNCHANGED vuelta

NextJunta ==
    \/ \E p \in Procs : Volver(p) \/ EnlazarSinQuitar(p) \/ Quitar(p) \/ ContestarConVuelta(p) \/ DeMemoria(p)
    \/ Vuelve

SpecJunta == InitJunta /\ [][NextJunta]_varsJunta

=============================================================================
