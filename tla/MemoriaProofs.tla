--------------------------- MODULE MemoriaProofs ---------------------------
(***************************************************************************)
(* Machine-checked proofs about Memoria, for any number of processes, frames *)
(* and requests in flight, in four parts: no frame has two owners and none   *)
(* leaks; the types of every variable and who has a record in procesos_swap; *)
(* when list operations do not overlap, areas of the swap file never share a *)
(* page and a process comes back with what it had; and MemoriaAbstracta is   *)
(* implemented, by counting the frames in the page tables.  All of it with   *)
(* one request per process at a time (UnoPorProceso in Memoria), which the   *)
(* Kernel does not ensure.                                                 *)
(***************************************************************************)
EXTENDS Memoria, SumasProofs

(* Who owns each frame: the inductive invariant.                           *)

TiposDeMarcos ==
    /\ ocupado \subseteq NroMarcos
    /\ tabla \in [Procs -> Seq(NroMarcos)]
    /\ enMemoria \subseteq Procs
    /\ pedido \in [Procs -> Pedidos]
    /\ pc \in [Procs -> Pasos]

\* A process that does not own frames has an empty table.
SoloDuenos == \A p \in Procs : p \in Duenos \/ tabla[p] = <<>>

\* Without a request there is no thread at work.
HiloConPedido == \A p \in Procs : pedido[p] = "nada" => pc[p] = "libre"

IInv == TiposDeMarcos /\ MarcosPropios /\ SinFugas /\ SoloDuenos /\ HiloConPedido

-----------------------------------------------------------------------------
(* Facts about sequences and about the lowest free frame.                  *)

\* Appending adds the new element to the range, and taking the head away from a
\* sequence without repetitions removes it from the range.
LEMMA RangoAppend ==
    ASSUME NEW S, NEW s \in Seq(S), NEW e \in S
    PROVE  Range(Append(s, e)) = Range(s) \cup {e}
<1>1. Len(Append(s, e)) = Len(s) + 1 /\ DOMAIN Append(s, e) = 1 .. Len(s) + 1 /\ DOMAIN s = 1 .. Len(s)
  OBVIOUS
<1>2. \A i \in 1 .. Len(s) : Append(s, e)[i] = s[i]
  OBVIOUS
<1>3. Append(s, e)[Len(s) + 1] = e
  OBVIOUS
<1>4. Len(s) \in Nat
  OBVIOUS
<1>5. Range(Append(s, e)) \subseteq Range(s) \cup {e}
  <2> SUFFICES ASSUME NEW i \in 1 .. Len(s) + 1 PROVE Append(s, e)[i] \in Range(s) \cup {e}
    BY <1>1 DEF Range
  <2> QED BY <1>1, <1>2, <1>3, <1>4 DEF Range
<1>6. Range(s) \cup {e} \subseteq Range(Append(s, e))
  <2>1. ASSUME NEW i \in 1 .. Len(s) PROVE s[i] \in Range(Append(s, e))
    BY <1>1, <1>2, <1>4 DEF Range
  <2>2. e \in Range(Append(s, e))
    BY <1>1, <1>3, <1>4 DEF Range
  <2> QED BY <1>1, <2>1, <2>2 DEF Range
<1> QED BY <1>5, <1>6

SinRepetir(s) == \A i, j \in DOMAIN s : s[i] = s[j] => i = j

LEMMA RangoTail ==
    ASSUME NEW S, NEW s \in Seq(S), s # <<>>, SinRepetir(s)
    PROVE  Range(Tail(s)) = Range(s) \ {Head(s)} /\ SinRepetir(Tail(s)) /\ Head(s) \in Range(s)
<1>1. Len(s) \in Nat /\ Len(s) # 0 /\ DOMAIN s = 1 .. Len(s) /\ Head(s) = s[1]
  OBVIOUS
<1>2. Len(Tail(s)) = Len(s) - 1 /\ DOMAIN Tail(s) = 1 .. Len(s) - 1
  OBVIOUS
<1>3. \A i \in 1 .. Len(s) - 1 : Tail(s)[i] = s[i + 1]
  OBVIOUS
<1>4. SinRepetir(Tail(s))
  BY <1>1, <1>2, <1>3 DEF SinRepetir
<1>5. Range(Tail(s)) \subseteq Range(s) \ {Head(s)}
  <2> SUFFICES ASSUME NEW i \in 1 .. Len(s) - 1
               PROVE  Tail(s)[i] \in Range(s) \ {Head(s)}
    BY <1>2 DEF Range
  <2>1. i + 1 \in 1 .. Len(s) /\ 1 \in 1 .. Len(s) /\ i + 1 # 1
    BY <1>1
  <2>2. s[i + 1] # s[1]
    BY <2>1, <1>1 DEF SinRepetir
  <2> QED BY <1>1, <1>3, <2>1, <2>2 DEF Range
<1>6. Range(s) \ {Head(s)} \subseteq Range(Tail(s))
  <2> SUFFICES ASSUME NEW i \in 1 .. Len(s), s[i] # Head(s)
               PROVE  s[i] \in Range(Tail(s))
    BY <1>1 DEF Range
  <2>1. i - 1 \in 1 .. Len(s) - 1 /\ Tail(s)[i - 1] = s[i]
    BY <1>1, <1>3
  <2> QED BY <1>2, <2>1 DEF Range
<1>7. Head(s) \in Range(s)
  BY <1>1 DEF Range
<1> QED BY <1>4, <1>5, <1>6, <1>7

\* obtener_siguiente_marco_libre returns a frame that is free.
LEMMA MarcoLibreExiste ==
    ASSUME Libres # {}
    PROVE  SiguienteMarcoLibre \in Libres
<1>1. Libres \subseteq Nat
  BY MemoriaAssumption DEF Libres, NroMarcos
<1>2. IsWellFoundedOn(OpToRel(<, Nat), Nat)
  BY NatLessThanWellFounded
<1>3. PICK m \in Libres : \A n \in Libres : <<n, m>> \notin OpToRel(<, Nat)
  BY <1>1, <1>2, WFMin
<1>4. \A n \in Libres : m <= n
  <2> SUFFICES ASSUME NEW n \in Libres, n < m PROVE FALSE
    BY <1>1
  <2>1. <<n, m>> \in OpToRel(<, Nat)
    BY <1>1 DEF OpToRel
  <2> QED BY <1>3, <2>1
<1> QED BY <1>4 DEF SiguienteMarcoLibre

-----------------------------------------------------------------------------
THEOREM IniciaInvariante == Init => IInv
<1> SUFFICES ASSUME Init PROVE IInv
  OBVIOUS
<1>1. TiposDeMarcos
  BY DEF Init, TiposDeMarcos, Pedidos, Pasos
<1>2. MarcosPropios
  BY DEF Init, MarcosPropios
<1>3. SinFugas
  BY DEF Init, SinFugas, Duenos
<1>4. SoloDuenos /\ HiloConPedido
  BY DEF Init, SoloDuenos, HiloConPedido
<1> QED BY <1>1, <1>2, <1>3, <1>4 DEF IInv

(* The steps that move no frame.                                           *)

\* A step that moves no frame keeps the account as long as no owner stops being
\* one before its table is empty.
LEMMA SinMoverMarcos ==
    ASSUME IInv, TiposDeMarcos', HiloConPedido', UNCHANGED <<ocupado, tabla>>,
           \A p \in Duenos : p \in Duenos' \/ tabla[p] = <<>>
    PROVE  IInv'
<1> USE DEF IInv
<1>1. MarcosPropios'
  BY DEF MarcosPropios
<1>2. SoloDuenos'
  BY DEF SoloDuenos
<1>3. \A p \in Procs : p \notin Duenos \cap Duenos' => Range(tabla[p]) = {} \/ (p \notin Duenos /\ p \notin Duenos')
  BY DEF SoloDuenos, Range
<1>4. Duenos \subseteq Procs /\ Duenos' \subseteq Procs
  BY DEF TiposDeMarcos, Duenos
<1>5. UNION {Range(tabla[p]) : p \in Duenos} = UNION {Range(tabla[p]) : p \in Duenos'}
  BY <1>3, <1>4
<1>6. SinFugas'
  BY <1>5 DEF SinFugas
<1> QED BY <1>1, <1>2, <1>6

\* A thread that goes from one step to another, when both or none of them give
\* it frames, or when it has none.
LEMMA SoloPasa ==
    ASSUME IInv, NEW p \in Procs, NEW paso \in Pasos, Pasa(p, paso), pedido[p] # "nada",
           UNCHANGED <<ocupado, tabla, enMemoria, pedido>>,
           pc[p] \in {"tomando", "soltando"} =>
              paso \in {"tomando", "soltando"} \/ tabla[p] = <<>>
    PROVE  IInv'
<1> USE DEF IInv
<1>1. TiposDeMarcos'
  BY DEF TiposDeMarcos, Pasa
<1>2. HiloConPedido'
  BY DEF HiloConPedido, Pasa, TiposDeMarcos
<1>3. \A q \in Duenos : q \in Duenos' \/ tabla[q] = <<>>
  BY DEF Duenos, Pasa, TiposDeMarcos
<1> QED BY <1>1, <1>2, <1>3, SinMoverMarcos

\* The same for a new request: the thread was idle.
LEMMA SoloRecibe ==
    ASSUME IInv, NEW p \in Procs, NEW op \in Pedidos \ {"nada"}, NEW paso \in Pasos,
           Recibir(p, op, paso), UnoPorProceso(p), UNCHANGED <<ocupado, tabla, enMemoria>>
    PROVE  IInv'
<1> USE DEF IInv
<1>1. pc[p] = "libre"
  BY DEF HiloConPedido, Recibir, UnoPorProceso
<1>2. TiposDeMarcos'
  BY DEF TiposDeMarcos, Recibir, UnoPorProceso, Pasa
<1>3. HiloConPedido'
  BY DEF HiloConPedido, Recibir, UnoPorProceso, Pasa, TiposDeMarcos
<1>4. \A q \in Duenos : q \in Duenos' \/ tabla[q] = <<>>
  BY <1>1 DEF Duenos, Recibir, UnoPorProceso, Pasa, TiposDeMarcos
<1> QED BY <1>2, <1>3, <1>4, SinMoverMarcos

LEMMA PasoPide ==
    ASSUME IInv, NEW p \in Procs, Pide(p)
    PROVE  IInv'
<1>1. CASE PedirInicio(p)
  BY <1>1, SoloRecibe DEF PedirInicio, fisica, Pedidos, Pasos
<1>2. CASE PedirReanudacion(p)
  BY <1>2, SoloRecibe DEF PedirReanudacion, fisica, Pedidos, Pasos
<1>3. CASE PedirReanudacionSinRegistro(p)
  BY <1>3, SoloRecibe DEF PedirReanudacionSinRegistro, fisica, Pedidos, Pasos
<1>4. CASE PedirSuspension(p)
  <2>1. UNCHANGED <<ocupado, tabla, enMemoria>>
    BY <1>4 DEF PedirSuspension, fisica
  <2>2. CASE tabla[p] = <<>>
    BY <1>4, <2>1, <2>2, SoloRecibe DEF PedirSuspension, Pedidos, Pasos
  <2>3. CASE tabla[p] # <<>>
    BY <1>4, <2>1, <2>3, SoloRecibe DEF PedirSuspension, Pedidos, Pasos
  <2> QED BY <2>2, <2>3
<1>5. CASE PedirFin(p)
  <2> USE <1>5 DEF IInv
  <2>1. pc[p] = "libre" /\ UNCHANGED <<ocupado, tabla>>
    BY DEF PedirFin, Recibir, UnoPorProceso, HiloConPedido, fisica
  <2>2. TiposDeMarcos'
    BY DEF TiposDeMarcos, PedirFin, Recibir, UnoPorProceso, Pasa, Pedidos, Pasos, fisica
  <2>3. HiloConPedido'
    BY DEF HiloConPedido, PedirFin, Recibir, UnoPorProceso, Pasa, TiposDeMarcos
  <2>4. \A q \in Duenos : q \in Duenos' \/ tabla[q] = <<>>
    BY <2>1 DEF Duenos, PedirFin, Recibir, UnoPorProceso, Pasa, TiposDeMarcos
  <2> QED BY <2>1, <2>2, <2>3, <2>4, SinMoverMarcos
<1> QED BY <1>1, <1>2, <1>3, <1>4, <1>5 DEF Pide

\* list_add to procesos_en_memoria keeps the frames the thread took.
LEMMA PasoAlta ==
    ASSUME IInv, NEW p \in Procs, Alta(p)
    PROVE  IInv'
<1> USE DEF IInv
<1>1. pc[p] = "tomando" /\ UNCHANGED <<ocupado, tabla, pedido>>
  BY DEF Alta, En, fisica
<1>2. pc' = [pc EXCEPT ![p] = "acepta"] \/ pc' = [pc EXCEPT ![p] = "copiando"]
  BY DEF Alta, Pasa
<1>3. TiposDeMarcos'
  BY <1>1, <1>2 DEF TiposDeMarcos, Alta, Pasos
<1>4. HiloConPedido'
  BY <1>1, <1>2 DEF HiloConPedido, TiposDeMarcos
<1>5. \A q \in Duenos : q \in Duenos' \/ tabla[q] = <<>>
  BY <1>1, <1>2 DEF Duenos, Alta, TiposDeMarcos
<1> QED BY <1>1, <1>3, <1>4, <1>5, SinMoverMarcos

\* The frame a thread takes belonged to nobody.
LEMMA PasoTomarMarco ==
    ASSUME IInv, NEW p \in Procs, TomarMarco(p)
    PROVE  IInv'
<1> USE DEF IInv
<1> DEFINE m == SiguienteMarcoLibre
<1>1. /\ pc[p] = "tomando"
      /\ ocupado' = ocupado \cup {m}
      /\ tabla' = [tabla EXCEPT ![p] = Append(@, m)]
      /\ UNCHANGED <<enMemoria, pedido, pc>>
  BY DEF TomarMarco, En, hilos
<1>2. m \in NroMarcos /\ m \notin ocupado
  BY MarcoLibreExiste DEF TomarMarco, Libres
<1> HIDE DEF m
<1>3. tabla[p] \in Seq(NroMarcos) /\ Append(tabla[p], m) \in Seq(NroMarcos)
  BY <1>2 DEF TiposDeMarcos
<1>4. tabla' \in [Procs -> Seq(NroMarcos)] /\ tabla'[p] = Append(tabla[p], m)
      /\ \A q \in Procs \ {p} : tabla'[q] = tabla[q]
  BY <1>1, <1>3 DEF TiposDeMarcos
<1>5. TiposDeMarcos'
  BY <1>1, <1>2, <1>4 DEF TiposDeMarcos
<1>6. \A q \in Procs : \A i \in DOMAIN tabla[q] : tabla[q][i] # m
  <2> SUFFICES ASSUME NEW q \in Procs, NEW i \in DOMAIN tabla[q] PROVE tabla[q][i] \in ocupado
    BY <1>2
  <2>1. q \in Duenos
    BY DEF SoloDuenos
  <2> QED BY <2>1 DEF SinFugas, Range
<1>7. MarcosPropios'
  <2>1. DOMAIN tabla[p] = 1 .. Len(tabla[p]) /\ DOMAIN tabla'[p] = 1 .. Len(tabla[p]) + 1
        /\ Len(tabla[p]) \in Nat /\ tabla'[p][Len(tabla[p]) + 1] = m
        /\ \A i \in 1 .. Len(tabla[p]) : tabla'[p][i] = tabla[p][i]
    BY <1>3, <1>4
  <2> SUFFICES ASSUME NEW q \in Procs, NEW r \in Procs,
                      NEW i \in DOMAIN tabla'[q], NEW j \in DOMAIN tabla'[r],
                      tabla'[q][i] = tabla'[r][j]
               PROVE  q = r /\ i = j
    BY DEF MarcosPropios
  <2>2. \A x \in Procs : \A k \in DOMAIN tabla'[x] :
            \/ k \in DOMAIN tabla[x] /\ tabla'[x][k] = tabla[x][k]
            \/ x = p /\ k = Len(tabla[p]) + 1 /\ tabla'[x][k] = m
    <3> SUFFICES ASSUME NEW x \in Procs, NEW k \in DOMAIN tabla'[x]
                 PROVE  \/ k \in DOMAIN tabla[x] /\ tabla'[x][k] = tabla[x][k]
                        \/ x = p /\ k = Len(tabla[p]) + 1 /\ tabla'[x][k] = m
      OBVIOUS
    <3>1. CASE x = p
      BY <3>1, <2>1
    <3>2. CASE x # p
      BY <3>2, <1>4
    <3> QED BY <3>1, <3>2
  <2>3. CASE i \in DOMAIN tabla[q] /\ j \in DOMAIN tabla[r] /\ tabla[q][i] = tabla[r][j]
    BY <2>3 DEF MarcosPropios
  <2> QED BY <1>6, <2>2, <2>3
<1>8. Duenos' = Duenos /\ p \in Duenos /\ Duenos \subseteq Procs
  BY <1>1 DEF Duenos, TiposDeMarcos
<1>9. SinFugas'
  <2>1. Range(tabla'[p]) = Range(tabla[p]) \cup {m}
    BY <1>2, <1>3, <1>4, RangoAppend
  <2>2. \A q \in Duenos \ {p} : Range(tabla'[q]) = Range(tabla[q])
    BY <1>4, <1>8
  <2>3. UNION {Range(tabla'[q]) : q \in Duenos} = (UNION {Range(tabla[q]) : q \in Duenos}) \cup {m}
    BY <1>8, <2>1, <2>2
  <2> QED BY <1>1, <1>8, <2>3 DEF SinFugas
<1>10. SoloDuenos'
  BY <1>4, <1>8 DEF SoloDuenos
<1>11. HiloConPedido'
  BY <1>1 DEF HiloConPedido
<1> QED BY <1>5, <1>7, <1>9, <1>10, <1>11

\* The frame a thread gives back is in no other table.
LEMMA PasoLiberarMarco ==
    ASSUME IInv, NEW p \in Procs, LiberarMarco(p)
    PROVE  IInv'
<1> USE DEF IInv
<1> DEFINE m == Head(tabla[p])
<1>1. /\ pc[p] = "soltando"
      /\ tabla[p] # <<>>
      /\ ocupado' = ocupado \ {m}
      /\ tabla' = [tabla EXCEPT ![p] = Tail(@)]
      /\ UNCHANGED <<enMemoria, pedido, pc>>
  BY DEF LiberarMarco, En, hilos
<1>2. tabla[p] \in Seq(NroMarcos) /\ Tail(tabla[p]) \in Seq(NroMarcos)
      /\ DOMAIN tabla[p] = 1 .. Len(tabla[p]) /\ Len(tabla[p]) \in Nat /\ Len(tabla[p]) # 0
      /\ DOMAIN Tail(tabla[p]) = 1 .. Len(tabla[p]) - 1
      /\ \A i \in 1 .. Len(tabla[p]) - 1 : Tail(tabla[p])[i] = tabla[p][i + 1]
  BY <1>1 DEF TiposDeMarcos
<1>3. tabla' \in [Procs -> Seq(NroMarcos)] /\ tabla'[p] = Tail(tabla[p])
      /\ \A q \in Procs \ {p} : tabla'[q] = tabla[q]
  BY <1>1, <1>2 DEF TiposDeMarcos
<1>4. TiposDeMarcos'
  BY <1>1, <1>3 DEF TiposDeMarcos
<1>5. SinRepetir(tabla[p])
  BY DEF MarcosPropios, SinRepetir
<1>6. Range(Tail(tabla[p])) = Range(tabla[p]) \ {m} /\ m \in Range(tabla[p])
  BY <1>1, <1>2, <1>5, RangoTail
<1>7. MarcosPropios'
  <2> SUFFICES ASSUME NEW q \in Procs, NEW r \in Procs,
                      NEW i \in DOMAIN tabla'[q], NEW j \in DOMAIN tabla'[r],
                      tabla'[q][i] = tabla'[r][j]
               PROVE  q = r /\ i = j
    BY DEF MarcosPropios
  <2>1. CASE q # p /\ r # p
    BY <2>1, <1>3 DEF MarcosPropios
  <2>2. CASE q = p /\ r # p
    <3>1. i + 1 \in DOMAIN tabla[p] /\ tabla'[q][i] = tabla[p][i + 1]
      <4>1. i \in 1 .. Len(tabla[p]) - 1
        BY <2>2, <1>2, <1>3
      <4>2. tabla'[q] = Tail(tabla[p])
        BY <2>2, <1>3
      <4> QED BY <4>1, <4>2, <1>2
    <3>2. tabla'[r] = tabla[r] /\ j \in DOMAIN tabla[r]
      BY <2>2, <1>3
    <3>3. tabla[p][i + 1] = tabla[r][j]
      BY <3>1, <3>2
    <3> QED BY <2>2, <3>1, <3>2, <3>3 DEF MarcosPropios
  <2>3. CASE q # p /\ r = p
    <3>1. j + 1 \in DOMAIN tabla[p] /\ tabla'[r][j] = tabla[p][j + 1]
      <4>1. j \in 1 .. Len(tabla[p]) - 1
        BY <2>3, <1>2, <1>3
      <4>2. tabla'[r] = Tail(tabla[p])
        BY <2>3, <1>3
      <4> QED BY <4>1, <4>2, <1>2
    <3>2. tabla'[q] = tabla[q] /\ i \in DOMAIN tabla[q]
      BY <2>3, <1>3
    <3>3. tabla[q][i] = tabla[p][j + 1]
      BY <3>1, <3>2
    <3> QED BY <2>3, <3>1, <3>2, <3>3 DEF MarcosPropios
  <2>4. CASE q = p /\ r = p
    <3>1. /\ i + 1 \in DOMAIN tabla[p] /\ tabla'[q][i] = tabla[p][i + 1]
          /\ j + 1 \in DOMAIN tabla[p] /\ tabla'[r][j] = tabla[p][j + 1]
          /\ i \in Int /\ j \in Int
      <4>1. i \in 1 .. Len(tabla[p]) - 1 /\ j \in 1 .. Len(tabla[p]) - 1
        BY <2>4, <1>2, <1>3
      <4>2. i + 1 \in DOMAIN tabla[p] /\ j + 1 \in DOMAIN tabla[p] /\ i \in Int /\ j \in Int
        BY <4>1, <1>2
      <4>3. tabla'[q] = Tail(tabla[p]) /\ tabla'[r] = Tail(tabla[p])
        BY <2>4, <1>3
      <4>4. tabla'[q][i] = tabla[p][i + 1] /\ tabla'[r][j] = tabla[p][j + 1]
        BY <4>1, <4>3, <1>2
      <4> QED BY <4>2, <4>4
    <3>2. i + 1 = j + 1
      BY <2>4, <3>1 DEF MarcosPropios
    <3> QED BY <2>4, <3>1, <3>2
  <2> QED BY <2>1, <2>2, <2>3, <2>4
<1>8. Duenos' = Duenos /\ p \in Duenos /\ Duenos \subseteq Procs
  BY <1>1 DEF Duenos, TiposDeMarcos
<1>9. \A q \in Duenos \ {p} : Range(tabla'[q]) = Range(tabla[q]) /\ m \notin Range(tabla[q])
  <2> SUFFICES ASSUME NEW q \in Duenos \ {p}
               PROVE  Range(tabla'[q]) = Range(tabla[q]) /\ m \notin Range(tabla[q])
    OBVIOUS
  <2>1. 1 \in DOMAIN tabla[p] /\ m = tabla[p][1]
    BY <1>1, <1>2
  <2>2. \A i \in DOMAIN tabla[q] : tabla[q][i] # m
    BY <2>1, <1>8 DEF MarcosPropios
  <2> QED BY <2>2, <1>3, <1>8 DEF Range
<1>10. SinFugas'
  <2>1. UNION {Range(tabla'[q]) : q \in Duenos} = (UNION {Range(tabla[q]) : q \in Duenos}) \ {m}
    BY <1>3, <1>6, <1>8, <1>9
  <2> QED BY <1>1, <1>8, <2>1 DEF SinFugas
<1>11. SoloDuenos'
  BY <1>3, <1>8 DEF SoloDuenos
<1>12. HiloConPedido'
  BY <1>1 DEF HiloConPedido
<1> QED BY <1>4, <1>7, <1>10, <1>11, <1>12

LEMMA PasoInicializa ==
    ASSUME IInv, NEW p \in Procs, Inicializa(p)
    PROVE  IInv'
<1> USE DEF IInv
<1>1. CASE Contar(p)
  <2>1. pedido[p] # "nada" /\ pc[p] = "contando" /\ UNCHANGED <<ocupado, tabla, enMemoria, pedido>>
    BY <1>1 DEF Contar, En, HiloConPedido, fisica
  <2>2. Pasa(p, "tomando") \/ Pasa(p, "rechaza")
    BY <1>1 DEF Contar
  <2> QED BY <2>1, <2>2, SoloPasa DEF Pasos
<1>2. CASE TomarMarco(p)
  BY <1>2, PasoTomarMarco
<1>3. CASE SinMarcos(p)
  <2>1. pedido[p] # "nada" /\ UNCHANGED <<ocupado, tabla, enMemoria, pedido>>
    BY <1>3 DEF SinMarcos, En, HiloConPedido, fisica
  <2> QED BY <1>3, <2>1, SoloPasa DEF SinMarcos, Pasos
<1>4. CASE SinPrograma(p)
  <2>1. pedido[p] # "nada" /\ UNCHANGED <<ocupado, tabla, enMemoria, pedido>>
    BY <1>4 DEF SinPrograma, En, HiloConPedido, fisica
  <2> QED BY <1>4, <2>1, SoloPasa DEF SinPrograma, Pasos
<1>5. CASE Alta(p)
  BY <1>5, PasoAlta
<1> QED BY <1>1, <1>2, <1>3, <1>4, <1>5 DEF Inicializa

LEMMA PasoReanuda ==
    ASSUME IInv, NEW p \in Procs, Reanuda(p)
    PROVE  IInv'
<1>1. pc[p] \in {"copiando", "devolviendo", "enlazandoHueco", "olvidando"} /\ pedido[p] # "nada"
  BY DEF Reanuda, CopiarAMarcos, DevolverHueco, EnlazarHueco, OlvidarRegistro, En, IInv, HiloConPedido
<1>2. UNCHANGED <<ocupado, tabla, enMemoria, pedido>>
  BY DEF Reanuda, CopiarAMarcos, DevolverHueco, EnlazarHueco, OlvidarRegistro, fisica
<1>3. \E paso \in Pasos : Pasa(p, paso)
  BY DEF Reanuda, CopiarAMarcos, DevolverHueco, EnlazarHueco, OlvidarRegistro, Pasos
<1> QED BY <1>1, <1>2, <1>3, SoloPasa

LEMMA PasoSuspende ==
    ASSUME IInv, NEW p \in Procs, Suspende(p)
    PROVE  IInv'
<1> USE DEF IInv
<1>1. CASE UbicarEnHueco(p) \/ UbicarAlFinal(p) \/ EscribirEnSwap(p) \/ Registrar(p)
  <2>1. pc[p] \in {"ubicando", "grabando", "registrando"} /\ pedido[p] # "nada"
    BY <1>1 DEF UbicarEnHueco, UbicarAlFinal, EscribirEnSwap, Registrar, En, HiloConPedido
  <2>2. UNCHANGED <<ocupado, tabla, enMemoria, pedido>>
    BY <1>1 DEF UbicarEnHueco, UbicarAlFinal, EscribirEnSwap, Registrar, fisica
  <2>3. \E paso \in Pasos : Pasa(p, paso)
    BY <1>1 DEF UbicarEnHueco, UbicarAlFinal, EscribirEnSwap, Registrar, Pasos
  <2> QED BY <2>1, <2>2, <2>3, SoloPasa
<1>2. CASE EnlazarRegistro(p)
  <2>1. /\ pc[p] = "enlazandoRegistro"
        /\ pc' = [pc EXCEPT ![p] = "soltando"]
        /\ enMemoria' = enMemoria \ {p}
        /\ UNCHANGED <<ocupado, tabla, pedido>>
    BY <1>2 DEF EnlazarRegistro, En, Pasa, fisica
  <2>2. TiposDeMarcos'
    BY <2>1 DEF TiposDeMarcos, Pasos
  <2>3. HiloConPedido'
    BY <2>1 DEF HiloConPedido, TiposDeMarcos
  <2>4. \A q \in Duenos : q \in Duenos' \/ tabla[q] = <<>>
    BY <2>1 DEF Duenos, TiposDeMarcos
  <2> QED BY <2>1, <2>2, <2>3, <2>4, SinMoverMarcos
<1> QED BY <1>1, <1>2 DEF Suspende

LEMMA PasoTermina ==
    ASSUME IInv, NEW p \in Procs, Termina(p)
    PROVE  IInv'
<1> USE DEF IInv
<1>1. CASE LiberarMarco(p)
  BY <1>1, PasoLiberarMarco
<1>2. CASE TablaDestruida(p)
  <2>1. pedido[p] # "nada" /\ tabla[p] = <<>> /\ UNCHANGED <<ocupado, tabla, enMemoria, pedido>>
    BY <1>2 DEF TablaDestruida, En, HiloConPedido, fisica
  <2>2. Pasa(p, "rechaza") \/ Pasa(p, "confirma")
    BY <1>2 DEF TablaDestruida
  <2> QED BY <2>1, <2>2, SoloPasa DEF Pasos
<1>3. CASE Contestar(p)
  <2>1. /\ pc[p] \in {"acepta", "rechaza", "confirma"}
        /\ pc' = [pc EXCEPT ![p] = "libre"]
        /\ pedido' = [pedido EXCEPT ![p] = "nada"]
        /\ UNCHANGED <<ocupado, tabla, enMemoria>>
    BY <1>3 DEF Contestar, Pasa, fisica
  <2>2. TiposDeMarcos'
    BY <2>1 DEF TiposDeMarcos, Pasos, Pedidos
  <2>3. HiloConPedido'
    BY <2>1 DEF HiloConPedido, TiposDeMarcos
  <2>4. \A q \in Duenos : q \in Duenos' \/ tabla[q] = <<>>
    BY <2>1 DEF Duenos, TiposDeMarcos
  <2> QED BY <2>1, <2>2, <2>3, <2>4, SinMoverMarcos
<1> QED BY <1>1, <1>2, <1>3 DEF Termina

\* Every step keeps the invariant.
THEOREM ConservaInvariante == IInv /\ [Next]_vars => IInv'
<1> SUFFICES ASSUME IInv, [Next]_vars PROVE IInv'
  OBVIOUS
<1>1. CASE UNCHANGED vars
  BY <1>1 DEF vars, fisica, hilos, IInv, TiposDeMarcos, MarcosPropios, SinFugas, Duenos, SoloDuenos,
     HiloConPedido
<1>2. ASSUME NEW p \in Procs, EscribirPagina(p) PROVE IInv'
  BY <1>2 DEF EscribirPagina, hilos, IInv, TiposDeMarcos, MarcosPropios, SinFugas, Duenos, SoloDuenos,
     HiloConPedido
<1> QED BY <1>1, <1>2, PasoPide, PasoInicializa, PasoReanuda, PasoSuspende, PasoTermina DEF Next

THEOREM InvarianteDeMarcos == Spec => []IInv
<1> QED BY IniciaInvariante, ConservaInvariante, PTL DEF Spec

-----------------------------------------------------------------------------
\* No frame is ever in two page tables or twice in one, whatever requests run
\* together (obtener_siguiente_marco_libre, destruir_tabla_y_marcos).
THEOREM CadaMarcoUnDueno == Spec => []MarcosPropios
<1>1. IInv => MarcosPropios
  BY DEF IInv
<1> QED BY <1>1, InvarianteDeMarcos, PTL

\* The occupied frames are always those of the residents and of the requests at
\* work: refusals half way, suspensions and ends give back all they held.
THEOREM NingunMarcoSePierde == Spec => []SinFugas
<1>1. IInv => SinFugas
  BY DEF IInv
<1> QED BY <1>1, InvarianteDeMarcos, PTL

-----------------------------------------------------------------------------
(* The inductive invariant, whether list operations overlap or not.        *)

\* Steps of a thread after desuspender_proceso was given its frames, and steps of
\* suspender_proceso before it lets them go.
PasosDeReanudacion == {"copiando", "devolviendo", "enlazandoHueco", "olvidando"}
PasosDeSuspension == {"ubicando", "grabando", "registrando", "enlazandoRegistro"}

\* The request each thread is at work on.
PasoSegunPedido ==
    \A p \in Procs :
        /\ pc[p] = "libre" => pedido[p] = "nada"
        /\ pc[p] \in PasosDeReanudacion => pedido[p] = "INICIALIZAR_PROCESO_SUSPENDIDO"
        /\ pc[p] \in PasosDeSuspension => pedido[p] = "SUSPENDER_PROCESO"
        /\ pc[p] \in {"contando", "tomando", "acepta", "rechaza"} => Entra(p)
        /\ pc[p] = "confirma" => ~Entra(p)

\* What the Kernel may ask about a process depends on what it was last told.
PedidoSegunVida ==
    \A p \in Procs :
        /\ pedido[p] = "INICIALIZAR_PROCESO_DESDE_NEW" => vida[p] = "nuevo"
        /\ pedido[p] = "INICIALIZAR_PROCESO_SUSPENDIDO" => vida[p] = "suspendido"
        /\ pedido[p] = "SUSPENDER_PROCESO" => vida[p] = "residente"

\* The Kernel has one thread of its own for resumptions, one for suspensions.
UnoALaVez ==
    \A p, q \in Procs : \A op \in {"INICIALIZAR_PROCESO_SUSPENDIDO", "SUSPENDER_PROCESO"} :
        pedido[p] = op /\ pedido[q] = op => p = q

\* Who is in procesos_en_memoria, and with how many frames.
PresenteSegunPaso ==
    \A p \in Procs :
        /\ p \in enMemoria => /\ pc[p] \notin {"contando", "tomando", "soltando"}
                              /\ Len(tabla[p]) = Paginas[p]
        /\ pc[p] \in PasosDeReanudacion \cup PasosDeSuspension \cup {"acepta"} => p \in enMemoria
        /\ vida[p] = "nuevo" /\ pc[p] # "acepta" => p \notin enMemoria
        /\ vida[p] = "residente" /\ pedido[p] = "nada" => p \in enMemoria

\* A process has one record at most: it has none from the moment its resumption is
\* accepted until its next suspension registers it, and while it has one it is not
\* resident, except during the last steps of its resumption.
RegistroUnico == \A i, j \in DOMAIN enSwap : enSwap[i].pid = enSwap[j].pid => i = j

PuedeTenerRegistro(p) ==
    /\ vida[p] # "nuevo"
    /\ vida[p] = "residente" => pedido[p] = "SUSPENDER_PROCESO" /\ pc[p] \in {"soltando", "confirma"}
    /\ pc[p] # "acepta"
    /\ pc[p] \in PasosDeReanudacion \/ p \notin enMemoria

SinRegistroResidente == \A i \in DOMAIN enSwap : PuedeTenerRegistro(enSwap[i].pid)

TieneRegistro(p) == \E i \in DOMAIN enSwap : enSwap[i].pid = p

ReanudaConRegistro ==
    \A p \in Procs :
        pc[p] \in PasosDeReanudacion \/ (pedido[p] = "INICIALIZAR_PROCESO_SUSPENDIDO"
                                          /\ pc[p] \in {"contando", "tomando"})
            => TieneRegistro(p)

\* A copy of the pages of a process has all of them.
CopiaEntera ==
    \A p \in Procs :
        /\ pc[p] \in PasosDeSuspension => Len(buffer[p]) = Paginas[p] /\ Paginas[p] # 0
        /\ pedido[p] = "INICIALIZAR_PROCESO_SUSPENDIDO" /\ pc[p] \in {"contando", "tomando", "copiando"}
              => Len(buffer[p]) = Paginas[p]

\* Every area lies in the file, except the one at its end that is about to be written.
DentroDelArchivo ==
    /\ \A i \in DOMAIN enSwap : Fin(enSwap[i]) <= Len(archivo) /\ enSwap[i].tam = Paginas[enSwap[i].pid]
    /\ \A i \in DOMAIN huecos : Fin(huecos[i]) <= Len(archivo)
    /\ \A p \in Procs : pc[p] = "grabando" => lugar[p] <= Len(archivo)
    /\ \A p \in Procs : pc[p] \in {"registrando", "enlazandoRegistro"}
                            => lugar[p] + Len(buffer[p]) <= Len(archivo)

IInvRegistros ==
    /\ IInv /\ TypeOK
    /\ PasoSegunPedido /\ PedidoSegunVida /\ UnoALaVez /\ PresenteSegunPaso
    /\ RegistroUnico /\ SinRegistroResidente /\ ReanudaConRegistro
    /\ CopiaEntera /\ DentroDelArchivo

(* And when they do not.                                                   *)

\* The last node a list_add saw is still the last one when it links its own.
UltimoVigente ==
    \A p \in Procs :
        /\ pc[p] = "enlazandoHueco" => ultimo[p] = Ultimo(huecos)
        /\ pc[p] = "enlazandoRegistro" => ultimo[p] = Ultimo(enSwap)

\* Two areas share no page.
Aparte(o1, n1, o2, n2) == o1 + n1 <= o2 \/ o2 + n2 <= o1

RegistrosAparte ==
    \A i, j \in AreasRegistradas :
        i # j => Aparte(enSwap[i].offset, enSwap[i].tam, enSwap[j].offset, enSwap[j].tam)

HuecosAparte ==
    \A i, j \in DOMAIN huecos :
        i # j => Aparte(huecos[i].offset, huecos[i].tam, huecos[j].offset, huecos[j].tam)

RegistrosYHuecosAparte ==
    \A i \in AreasRegistradas, j \in DOMAIN huecos :
        Aparte(enSwap[i].offset, enSwap[i].tam, huecos[j].offset, huecos[j].tam)

GrabacionAparte ==
    \A p \in EnGrabacion :
        /\ \A i \in AreasRegistradas :
              Aparte(enSwap[i].offset, enSwap[i].tam, lugar[p], Len(buffer[p]))
        /\ \A j \in DOMAIN huecos :
              Aparte(huecos[j].offset, huecos[j].tam, lugar[p], Len(buffer[p]))

\* Every page of the file is in an area.
Cubierta(k) ==
    \/ \E i \in AreasRegistradas : k \in Area(enSwap[i])
    \/ \E i \in DOMAIN huecos : k \in Area(huecos[i])
    \/ \E p \in EnGrabacion : k \in AreaDe(p)

ArchivoCubierto == \A k \in 0 .. Len(archivo) - 1 : Cubierta(k)

(* Where the contents of a process are.                                    *)

\* n pages of the file, from offset o, hold "datos".
EnArchivo(o, n, datos) == \A k \in 1 .. n : archivo[o + k] = datos[k]

ContenidoEnMarcos ==
    \A p \in Procs :
        (vida[p] = "residente" /\ pedido[p] = "nada") \/ pc[p] = "acepta"
          \/ pc[p] \in PasosDeReanudacion \ {"copiando"}
            => Contenidos(p) = escrito[p]

ContenidoEnCopia ==
    \A p \in Procs :
        pc[p] \in PasosDeSuspension
          \/ (pedido[p] = "INICIALIZAR_PROCESO_SUSPENDIDO" /\ pc[p] \in {"contando", "tomando", "copiando"})
            => buffer[p] = escrito[p]

ContenidoEnArchivo ==
    /\ \A i \in AreasRegistradas : 
          /\ Len(escrito[enSwap[i].pid]) = enSwap[i].tam
          /\ EnArchivo(enSwap[i].offset, enSwap[i].tam, escrito[enSwap[i].pid])
    /\ \A p \in Procs : pc[p] \in {"registrando", "enlazandoRegistro"}
                            => EnArchivo(lugar[p], Len(buffer[p]), buffer[p])

Repartido ==
    RegistrosAparte /\ HuecosAparte /\ RegistrosYHuecosAparte /\ GrabacionAparte /\ ArchivoCubierto

IInvSwap == IInvRegistros /\ UltimoVigente /\ Repartido

IInvContenido == IInvSwap /\ ContenidoEnMarcos /\ ContenidoEnCopia /\ ContenidoEnArchivo

-----------------------------------------------------------------------------
(* Steps, requests and who is in memory.                                   *)

Vidas == {"nuevo", "residente", "suspendido", "fin"}

TiposDeControl ==
    /\ pc \in [Procs -> Pasos]
    /\ pedido \in [Procs -> Pedidos]
    /\ vida \in [Procs -> Vidas]
    /\ tabla \in [Procs -> Seq(NroMarcos)]
    /\ enMemoria \subseteq Procs
    /\ Paginas \in [Procs -> Nat]

Control == TiposDeControl /\ HiloConPedido /\ SoloDuenos /\ PasoSegunPedido /\ PedidoSegunVida /\ UnoALaVez
           /\ PresenteSegunPaso

\* The control part of the invariant.
LEMMA ControlVale == ASSUME IInvRegistros PROVE Control
  BY MemoriaAssumption DEF IInvRegistros, IInv, TypeOK, Control, TiposDeControl, Vidas

\* A new request finds an idle thread.
LEMMA ControlPide ==
    ASSUME Control, NEW p \in Procs, Pide(p), TiposDeControl'
    PROVE  PasoSegunPedido' /\ PedidoSegunVida' /\ UnoALaVez'
<1> USE DEF Control
<1>1. pedido[p] = "nada" /\ pc[p] = "libre" /\ UNCHANGED vida
  BY DEF Pide, PedirInicio, PedirReanudacion, PedirReanudacionSinRegistro, PedirSuspension, PedirFin,
     Recibir, UnoPorProceso, HiloConPedido
<1>2. \E op \in Pedidos, paso \in Pasos :
        /\ pedido' = [pedido EXCEPT ![p] = op]
        /\ pc' = [pc EXCEPT ![p] = paso]
        /\ \/ op = "INICIALIZAR_PROCESO_DESDE_NEW" /\ paso = "contando" /\ vida[p] = "nuevo"
           \/ op = "INICIALIZAR_PROCESO_SUSPENDIDO" /\ paso \in {"contando", "rechaza"}
              /\ vida[p] = "suspendido" /\ ~EnVuelo("INICIALIZAR_PROCESO_SUSPENDIDO")
           \/ op = "SUSPENDER_PROCESO" /\ paso \in {"ubicando", "confirma"}
              /\ vida[p] = "residente" /\ ~EnVuelo("SUSPENDER_PROCESO")
           \/ op = "FINALIZAR_PROCESO" /\ paso \in {"soltando", "confirma"}
  BY DEF Pide, PedirInicio, PedirReanudacion, PedirReanudacionSinRegistro, PedirSuspension, PedirFin,
     Recibir, UnoPorProceso, Pasa, Pedidos, Pasos
<1>3. PICK op \in Pedidos, paso \in Pasos :
        /\ pedido' = [pedido EXCEPT ![p] = op]
        /\ pc' = [pc EXCEPT ![p] = paso]
        /\ \/ op = "INICIALIZAR_PROCESO_DESDE_NEW" /\ paso = "contando" /\ vida[p] = "nuevo"
           \/ op = "INICIALIZAR_PROCESO_SUSPENDIDO" /\ paso \in {"contando", "rechaza"}
              /\ vida[p] = "suspendido" /\ ~EnVuelo("INICIALIZAR_PROCESO_SUSPENDIDO")
           \/ op = "SUSPENDER_PROCESO" /\ paso \in {"ubicando", "confirma"}
              /\ vida[p] = "residente" /\ ~EnVuelo("SUSPENDER_PROCESO")
           \/ op = "FINALIZAR_PROCESO" /\ paso \in {"soltando", "confirma"}
  BY <1>2
<1>4. /\ pedido'[p] = op /\ pc'[p] = paso
      /\ \A q \in Procs \ {p} : pedido'[q] = pedido[q] /\ pc'[q] = pc[q]
  BY <1>3 DEF TiposDeControl
<1>5. PasoSegunPedido'
  BY <1>3, <1>4 DEF PasoSegunPedido, Entra, PasosDeReanudacion, PasosDeSuspension
<1>6. PedidoSegunVida'
  BY <1>1, <1>3, <1>4 DEF PedidoSegunVida
<1>7. UnoALaVez'
  BY <1>3, <1>4 DEF UnoALaVez, EnVuelo
<1> QED BY <1>5, <1>6, <1>7

\* A thread that goes on with its request.
LEMMA ControlPasa ==
    ASSUME Control, NEW p \in Procs, NEW paso, Pasa(p, paso), UNCHANGED <<pedido, vida>>,
           paso # "libre",
           paso \in PasosDeReanudacion => pedido[p] = "INICIALIZAR_PROCESO_SUSPENDIDO",
           paso \in PasosDeSuspension => pedido[p] = "SUSPENDER_PROCESO",
           paso \in {"contando", "tomando", "acepta", "rechaza"} => Entra(p),
           paso = "confirma" => ~Entra(p)
    PROVE  PasoSegunPedido' /\ PedidoSegunVida' /\ UnoALaVez'
<1> USE DEF Control
<1>1. pc'[p] = paso /\ \A q \in Procs \ {p} : pc'[q] = pc[q]
  BY DEF Pasa, TiposDeControl
<1>2. PasoSegunPedido'
  BY <1>1 DEF PasoSegunPedido, Entra
<1>3. PedidoSegunVida' /\ UnoALaVez'
  BY DEF PedidoSegunVida, UnoALaVez
<1> QED BY <1>2, <1>3

\* A thread at work keeps its request and the order of its steps.
LEMMA ControlTrabaja ==
    ASSUME Control, NEW p \in Procs, Inicializa(p) \/ Reanuda(p) \/ Suspende(p)
    PROVE  PasoSegunPedido' /\ PedidoSegunVida' /\ UnoALaVez'
<1> USE DEF Control
<1>1. CASE TomarMarco(p)
  BY <1>1 DEF TomarMarco, hilos, PasoSegunPedido, PedidoSegunVida, UnoALaVez, Entra
<1>2. CASE Contar(p) \/ SinMarcos(p) \/ SinPrograma(p) \/ Alta(p)
  <2>1. Entra(p) /\ UNCHANGED <<pedido, vida>>
    BY <1>2 DEF Contar, SinMarcos, SinPrograma, Alta, En, PasoSegunPedido
  <2>2. \/ Pasa(p, "tomando") \/ Pasa(p, "rechaza") \/ Pasa(p, "soltando") \/ Pasa(p, "acepta")
        \/ Pasa(p, "copiando") /\ pedido[p] # "INICIALIZAR_PROCESO_DESDE_NEW"
    BY <1>2 DEF Contar, SinMarcos, SinPrograma, Alta
  <2> QED BY <2>1, <2>2, ControlPasa DEF Entra, PasosDeReanudacion, PasosDeSuspension
<1>3. CASE Reanuda(p)
  <2>1. pedido[p] = "INICIALIZAR_PROCESO_SUSPENDIDO" /\ UNCHANGED <<pedido, vida>>
    BY <1>3 DEF Reanuda, CopiarAMarcos, DevolverHueco, EnlazarHueco, OlvidarRegistro, En, PasoSegunPedido,
       PasosDeReanudacion
  <2>2. \E paso \in PasosDeReanudacion \cup {"acepta"} : Pasa(p, paso)
    BY <1>3 DEF Reanuda, CopiarAMarcos, DevolverHueco, EnlazarHueco, OlvidarRegistro, PasosDeReanudacion
  <2> QED BY <2>1, <2>2, ControlPasa DEF Entra, PasosDeReanudacion, PasosDeSuspension
<1>4. CASE Suspende(p)
  <2>1. pedido[p] = "SUSPENDER_PROCESO" /\ UNCHANGED <<pedido, vida>>
    BY <1>4 DEF Suspende, UbicarEnHueco, UbicarAlFinal, EscribirEnSwap, Registrar, EnlazarRegistro, En,
       PasoSegunPedido, PasosDeSuspension
  <2>2. \E paso \in PasosDeSuspension \cup {"soltando"} : Pasa(p, paso)
    BY <1>4 DEF Suspende, UbicarEnHueco, UbicarAlFinal, EscribirEnSwap, Registrar, EnlazarRegistro,
       PasosDeSuspension
  <2> QED BY <2>1, <2>2, ControlPasa DEF Entra, PasosDeReanudacion, PasosDeSuspension
<1> QED BY <1>1, <1>2, <1>3, <1>4 DEF Inicializa

\* An answer frees the thread and tells the Kernel what became of the process.
LEMMA ControlTermina ==
    ASSUME Control, NEW p \in Procs, Termina(p) \/ EscribirPagina(p)
    PROVE  PasoSegunPedido' /\ PedidoSegunVida' /\ UnoALaVez'
<1> USE DEF Control
<1>1. CASE LiberarMarco(p) \/ EscribirPagina(p)
  BY <1>1 DEF LiberarMarco, EscribirPagina, hilos, PasoSegunPedido, PedidoSegunVida, UnoALaVez, Entra
<1>2. CASE TablaDestruida(p)
  <2>1. UNCHANGED <<pedido, vida>>
    BY <1>2 DEF TablaDestruida
  <2>2. \/ Pasa(p, "rechaza") /\ Entra(p)
        \/ Pasa(p, "confirma") /\ ~Entra(p)
    <3>1. CASE Entra(p)
      BY <1>2, <3>1 DEF TablaDestruida, Pasa
    <3>2. CASE ~Entra(p)
      BY <1>2, <3>2 DEF TablaDestruida, Pasa
    <3> QED BY <3>1, <3>2
  <2> QED BY <2>1, <2>2, ControlPasa DEF PasosDeReanudacion, PasosDeSuspension
<1>3. CASE Contestar(p)
  <2>1. /\ pc'[p] = "libre" /\ pedido'[p] = "nada"
        /\ \A q \in Procs \ {p} : pc'[q] = pc[q] /\ pedido'[q] = pedido[q] /\ vida'[q] = vida[q]
    BY <1>3 DEF Contestar, Pasa, TiposDeControl
  <2>2. PasoSegunPedido'
    BY <2>1 DEF PasoSegunPedido, Entra, PasosDeReanudacion, PasosDeSuspension
  <2>3. PedidoSegunVida' /\ UnoALaVez'
    BY <2>1 DEF PedidoSegunVida, UnoALaVez
  <2> QED BY <2>2, <2>3
<1> QED BY <1>1, <1>2, <1>3 DEF Termina

\* enMemoria agrees with the step of each thread.
LEMMA PresenciaPide ==
    ASSUME IInvRegistros, NEW p \in Procs, Pide(p)
    PROVE  PresenteSegunPaso'
<1>1. Control
  BY ControlVale
<1> USE <1>1 DEF Control
<1>2. pedido[p] = "nada" /\ pc[p] = "libre" /\ UNCHANGED <<vida, tabla>>
  BY DEF Pide, PedirInicio, PedirReanudacion, PedirReanudacionSinRegistro, PedirSuspension, PedirFin,
     Recibir, UnoPorProceso, HiloConPedido
<1>3. pedido'[p] # "nada" /\ \A q \in Procs \ {p} : pedido'[q] = pedido[q] /\ pc'[q] = pc[q]
  BY DEF Pide, PedirInicio, PedirReanudacion, PedirReanudacionSinRegistro, PedirSuspension, PedirFin,
     Recibir, UnoPorProceso, Pasa, TiposDeControl
<1>4. CASE PedirInicio(p)
  <2>1. pc'[p] = "contando" /\ vida[p] = "nuevo" /\ UNCHANGED enMemoria
    BY <1>4 DEF PedirInicio, Recibir, UnoPorProceso, Pasa, TiposDeControl
  <2> QED BY <1>2, <1>3, <2>1 DEF PresenteSegunPaso, PasosDeReanudacion, PasosDeSuspension
<1>5. CASE PedirReanudacion(p)
  <2>1. pc'[p] = "contando" /\ vida[p] = "suspendido" /\ RegistrosDe(p) # {} /\ UNCHANGED enMemoria
    BY <1>5 DEF PedirReanudacion, Recibir, UnoPorProceso, Pasa, TiposDeControl
  <2>2. p \notin enMemoria
    BY <1>2, <2>1 DEF IInvRegistros, SinRegistroResidente, PuedeTenerRegistro, RegistrosDe,
       PasosDeReanudacion
  <2> QED BY <1>2, <1>3, <2>1, <2>2 DEF PresenteSegunPaso, PasosDeReanudacion, PasosDeSuspension
<1>6. CASE PedirReanudacionSinRegistro(p)
  <2>1. pc'[p] = "rechaza" /\ vida[p] = "suspendido" /\ UNCHANGED enMemoria
    BY <1>6 DEF PedirReanudacionSinRegistro, Recibir, UnoPorProceso, Pasa, TiposDeControl
  <2> QED BY <1>2, <1>3, <2>1 DEF PresenteSegunPaso, PasosDeReanudacion, PasosDeSuspension
<1>7. CASE PedirSuspension(p)
  <2>1. pc'[p] \in {"confirma", "ubicando"} /\ vida[p] = "residente" /\ UNCHANGED enMemoria
    BY <1>7 DEF PedirSuspension, Recibir, UnoPorProceso, Pasa, TiposDeControl
  <2> QED BY <1>2, <1>3, <2>1 DEF PresenteSegunPaso, PasosDeReanudacion, PasosDeSuspension
<1>8. CASE PedirFin(p)
  <2>1. pc'[p] \in {"confirma", "soltando"} /\ enMemoria' = enMemoria \ {p}
    BY <1>8 DEF PedirFin, Recibir, UnoPorProceso, Pasa, TiposDeControl
  <2> QED BY <1>2, <1>3, <2>1 DEF PresenteSegunPaso, PasosDeReanudacion, PasosDeSuspension
<1> QED BY <1>4, <1>5, <1>6, <1>7, <1>8 DEF Pide

\* A step that takes nobody in or out of procesos_en_memoria.
LEMMA PresenciaPasa ==
    ASSUME Control, NEW p \in Procs, NEW paso, Pasa(p, paso),
           UNCHANGED <<pedido, vida, tabla>>, pedido[p] # "nada",
           \/ enMemoria' = enMemoria /\ paso \in PasosDeReanudacion \cup PasosDeSuspension \cup {"acepta"}
              /\ p \in enMemoria /\ vida[p] # "nuevo"
           \/ enMemoria' = enMemoria \cup {p} /\ paso \in {"copiando", "acepta"}
              /\ Len(tabla[p]) = Paginas[p] /\ (vida[p] = "nuevo" => paso = "acepta")
           \/ enMemoria' = enMemoria /\ paso \in {"contando", "tomando", "soltando", "rechaza", "confirma"}
              /\ p \notin enMemoria
           \/ enMemoria' = enMemoria \ {p} /\ paso = "soltando"
    PROVE  PresenteSegunPaso'
<1> USE DEF Control
<1>1. pc'[p] = paso /\ \A q \in Procs \ {p} : pc'[q] = pc[q]
  BY DEF Pasa, TiposDeControl
<1>2. ASSUME NEW q \in Procs \ {p}
      PROVE  /\ q \in enMemoria' => /\ pc'[q] \notin {"contando", "tomando", "soltando"}
                                    /\ Len(tabla'[q]) = Paginas[q]
             /\ pc'[q] \in PasosDeReanudacion \cup PasosDeSuspension \cup {"acepta"} => q \in enMemoria'
             /\ vida'[q] = "nuevo" /\ pc'[q] # "acepta" => q \notin enMemoria'
             /\ vida'[q] = "residente" /\ pedido'[q] = "nada" => q \in enMemoria'
  BY <1>1 DEF PresenteSegunPaso
<1>3. /\ p \in enMemoria' => /\ pc'[p] \notin {"contando", "tomando", "soltando"}
                             /\ Len(tabla'[p]) = Paginas[p]
      /\ pc'[p] \in PasosDeReanudacion \cup PasosDeSuspension \cup {"acepta"} => p \in enMemoria'
      /\ vida'[p] = "nuevo" /\ pc'[p] # "acepta" => p \notin enMemoria'
      /\ vida'[p] = "residente" /\ pedido'[p] = "nada" => p \in enMemoria'
  BY <1>1 DEF PresenteSegunPaso, PasosDeReanudacion, PasosDeSuspension
<1> QED BY <1>2, <1>3 DEF PresenteSegunPaso

\* The table of p changes; p is not in memory.
LEMMA PresenciaTabla ==
    ASSUME Control, NEW p \in Procs, pc[p] \in {"tomando", "soltando"}, NEW t,
           tabla' = [tabla EXCEPT ![p] = t], UNCHANGED <<pc, pedido, vida, enMemoria>>
    PROVE  PresenteSegunPaso'
<1> USE DEF Control
<1>1. p \notin enMemoria
  BY DEF PresenteSegunPaso
<1>2. \A q \in Procs \ {p} : tabla'[q] = tabla[q]
  BY DEF TiposDeControl
<1> QED BY <1>1, <1>2 DEF PresenteSegunPaso

\* Admissions, resumptions and suspensions keep residents with all their frames.
LEMMA PresenciaTrabaja ==
    ASSUME Control, NEW p \in Procs, Inicializa(p) \/ Reanuda(p) \/ Suspende(p)
    PROVE  PresenteSegunPaso'
<1> USE DEF Control
<1>1. CASE TomarMarco(p)
  BY <1>1, PresenciaTabla DEF TomarMarco, hilos, En
<1>2. CASE Contar(p) \/ SinMarcos(p) \/ SinPrograma(p)
  <2>1. pc[p] \in {"contando", "tomando"} /\ UNCHANGED <<pedido, vida, tabla, enMemoria>>
    BY <1>2 DEF Contar, SinMarcos, SinPrograma, En
  <2>2. Pasa(p, "tomando") \/ Pasa(p, "rechaza") \/ Pasa(p, "soltando")
    BY <1>2 DEF Contar, SinMarcos, SinPrograma
  <2>3. p \notin enMemoria /\ pedido[p] # "nada"
    BY <2>1 DEF PresenteSegunPaso, HiloConPedido
  <2> QED BY <2>1, <2>2, <2>3, PresenciaPasa
<1>3. CASE Alta(p)
  <2>1. Len(tabla[p]) = Paginas[p] /\ enMemoria' = enMemoria \cup {p} /\ UNCHANGED <<pedido, vida, tabla>>
        /\ pc[p] = "tomando"
    BY <1>3 DEF Alta, En
  <2>2. \/ Pasa(p, "acepta")
        \/ Pasa(p, "copiando") /\ pedido[p] # "INICIALIZAR_PROCESO_DESDE_NEW"
    BY <1>3 DEF Alta
  <2>3. pedido[p] # "nada"
    BY <2>1 DEF HiloConPedido
  <2>4. pedido[p] # "INICIALIZAR_PROCESO_DESDE_NEW" => vida[p] # "nuevo"
    BY <2>1 DEF PasoSegunPedido, PedidoSegunVida, Entra
  <2> QED BY <2>1, <2>2, <2>3, <2>4, PresenciaPasa
<1>4. CASE Reanuda(p)
  <2>1. pc[p] \in PasosDeReanudacion /\ UNCHANGED <<pedido, vida, tabla, enMemoria>>
    BY <1>4 DEF Reanuda, CopiarAMarcos, DevolverHueco, EnlazarHueco, OlvidarRegistro, En, PasosDeReanudacion
  <2>2. \E paso \in PasosDeReanudacion \cup {"acepta"} : Pasa(p, paso)
    BY <1>4 DEF Reanuda, CopiarAMarcos, DevolverHueco, EnlazarHueco, OlvidarRegistro, PasosDeReanudacion
  <2>3. p \in enMemoria /\ pedido[p] # "nada" /\ vida[p] # "nuevo"
    BY <2>1 DEF PresenteSegunPaso, PasoSegunPedido, PedidoSegunVida
  <2> QED BY <2>1, <2>2, <2>3, PresenciaPasa
<1>5. CASE Suspende(p)
  <2>1. pc[p] \in PasosDeSuspension /\ UNCHANGED <<pedido, vida, tabla>>
    BY <1>5 DEF Suspende, UbicarEnHueco, UbicarAlFinal, EscribirEnSwap, Registrar, EnlazarRegistro, En,
       PasosDeSuspension
  <2>2. \/ UNCHANGED enMemoria /\ \E paso \in PasosDeSuspension : Pasa(p, paso)
        \/ enMemoria' = enMemoria \ {p} /\ Pasa(p, "soltando")
    BY <1>5 DEF Suspende, UbicarEnHueco, UbicarAlFinal, EscribirEnSwap, Registrar, EnlazarRegistro,
       PasosDeSuspension
  <2>3. p \in enMemoria /\ pedido[p] # "nada" /\ vida[p] # "nuevo"
    BY <2>1 DEF PresenteSegunPaso, PasoSegunPedido, PedidoSegunVida
  <2> QED BY <2>1, <2>2, <2>3, PresenciaPasa
<1> QED BY <1>1, <1>2, <1>3, <1>4, <1>5 DEF Inicializa

\* So do the release of frames and the answer.
LEMMA PresenciaTermina ==
    ASSUME Control, NEW p \in Procs, Termina(p) \/ EscribirPagina(p)
    PROVE  PresenteSegunPaso'
<1> USE DEF Control
<1>1. CASE LiberarMarco(p)
  BY <1>1, PresenciaTabla DEF LiberarMarco, hilos, En
<1>2. CASE TablaDestruida(p)
  <2>1. pc[p] = "soltando" /\ UNCHANGED <<pedido, vida, tabla, enMemoria>>
    BY <1>2 DEF TablaDestruida, En
  <2>2. \E paso \in {"rechaza", "confirma"} : Pasa(p, paso)
    BY <1>2 DEF TablaDestruida
  <2>3. p \notin enMemoria /\ pedido[p] # "nada"
    BY <2>1 DEF PresenteSegunPaso, HiloConPedido
  <2> QED BY <2>1, <2>2, <2>3, PresenciaPasa
<1>3. CASE Contestar(p)
  <2>1. /\ pc[p] \in {"acepta", "rechaza", "confirma"}
        /\ pc'[p] = "libre"
        /\ vida'[p] = CASE pc[p] = "acepta" -> "residente"
                        [] pc[p] = "rechaza" -> vida[p]
                        [] pedido[p] = "SUSPENDER_PROCESO" -> "suspendido"
                        [] OTHER -> "fin"
        /\ \A q \in Procs \ {p} : pc'[q] = pc[q] /\ pedido'[q] = pedido[q] /\ vida'[q] = vida[q]
        /\ UNCHANGED <<tabla, enMemoria>>
    BY <1>3 DEF Contestar, Pasa, TiposDeControl
  <2>2. vida'[p] = "residente" => pc[p] = "acepta"
    BY <2>1 DEF PasoSegunPedido, PedidoSegunVida, Entra
  <2>3. vida'[p] = "nuevo" => pc[p] # "acepta" /\ vida[p] = "nuevo"
    BY <2>1
  <2> QED BY <2>1, <2>2, <2>3 DEF PresenteSegunPaso, PasosDeReanudacion, PasosDeSuspension
<1>4. CASE EscribirPagina(p)
  BY <1>4 DEF EscribirPagina, hilos, PresenteSegunPaso
<1> QED BY <1>1, <1>2, <1>3, <1>4 DEF Termina

-----------------------------------------------------------------------------
(* The list of records.                                                    *)

\* t is s without its i-th element.
EsQuita(S, s, i, t) ==
    /\ t \in Seq(S) /\ Len(t) = Len(s) - 1
    /\ \A j \in 1 .. Len(s) - 1 : t[j] = IF j < i THEN s[j] ELSE s[j + 1]

\* The elements of t are those of s but the i-th, each one place down at most.
RestoDe(s, i, t) ==
    /\ \A j \in 1 .. Len(t) : \E k \in 1 .. Len(s) :
         k # i /\ t[j] = s[k] /\ k = IF j < i THEN j ELSE j + 1
    /\ \A k \in 1 .. Len(s) : k # i =>
         \E j \in 1 .. Len(t) : t[j] = s[k] /\ k = IF j < i THEN j ELSE j + 1

\* What list_remove_element leaves.
LEMMA RemoveAtPuntos ==
    ASSUME NEW S, NEW s \in Seq(S), NEW i \in 1 .. Len(s)
    PROVE  EsQuita(S, s, i, RemoveAt(s, i))
<1> DEFINE n == Len(s)
           a == SubSeq(s, 1, i - 1)
           b == SubSeq(s, i + 1, n)
           d == a \o b
<1>1. n \in Nat /\ i \in 1 .. n
  OBVIOUS
<1>2. /\ a \in Seq(S) /\ Len(a) = i - 1
      /\ \A j \in 1 .. i - 1 : a[j] = s[j]
  BY <1>1
<1>3. /\ b \in Seq(S) /\ Len(b) = n - i
      /\ \A j \in 1 .. n - i : b[j] = s[i + j]
  BY <1>1
<1>4. RemoveAt(s, i) = d
  BY DEF RemoveAt
<1> HIDE DEF n, a, b
<1>5. d \in Seq(S) /\ Len(d) = Len(a) + Len(b)
  <2>1. a \in Seq(S) /\ b \in Seq(S)
    BY <1>2, <1>3
  <2> QED BY <2>1
<1>6. \A j \in 1 .. i - 1 : d[j] = a[j]
  BY <1>1, <1>2, <1>3
<1>7. \A k \in 1 .. n - i : d[i - 1 + k] = b[k]
  BY <1>1, <1>2, <1>3
<1> HIDE DEF d
<1>8. ASSUME NEW j \in 1 .. n - 1
      PROVE  d[j] = IF j < i THEN s[j] ELSE s[j + 1]
  <2>1. CASE j < i
    BY <2>1, <1>1, <1>2, <1>6
  <2>2. CASE j >= i
    <3> DEFINE k == j - i + 1
    <3>1. k \in 1 .. n - i /\ i - 1 + k = j /\ i + k = j + 1
      BY <2>2, <1>1
    <3> HIDE DEF k
    <3>2. d[i - 1 + k] = s[i + k]
      BY <3>1, <1>3, <1>7
    <3>3. d[j] = s[j + 1]
      BY <3>1, <3>2
    <3> QED BY <3>3, <2>2, <1>1
  <2> QED BY <2>1, <2>2, <1>1
<1>9. Len(d) = n - 1
  BY <1>1, <1>2, <1>3, <1>5
<1> QED BY <1>4, <1>5, <1>8, <1>9 DEF n, EsQuita

\* What is left is what there was, apart from the element that went.
LEMMA QuedaElResto ==
    ASSUME NEW S, NEW s \in Seq(S), NEW i \in 1 .. Len(s), NEW t, EsQuita(S, s, i, t)
    PROVE  RestoDe(s, i, t)
<1>1. Len(s) \in Nat /\ Len(t) = Len(s) - 1 /\ i \in 1 .. Len(s)
  BY DEF EsQuita
<1>2. \A j \in 1 .. Len(s) - 1 : t[j] = IF j < i THEN s[j] ELSE s[j + 1]
  BY DEF EsQuita
<1>3. ASSUME NEW j \in 1 .. Len(t)
      PROVE  \E k \in 1 .. Len(s) : k # i /\ t[j] = s[k] /\ k = IF j < i THEN j ELSE j + 1
  <2>1. CASE j < i
    BY <2>1, <1>1, <1>2
  <2>2. CASE j >= i
    <3>1. j + 1 \in 1 .. Len(s) /\ j + 1 # i /\ t[j] = s[j + 1] /\ ~(j < i)
      BY <2>2, <1>1, <1>2
    <3> QED BY <3>1
  <2> QED BY <2>1, <2>2, <1>1
<1>4. ASSUME NEW k \in 1 .. Len(s), k # i
      PROVE  \E j \in 1 .. Len(t) : t[j] = s[k] /\ k = IF j < i THEN j ELSE j + 1
  <2>1. CASE k < i
    BY <2>1, <1>1, <1>2
  <2>2. CASE k > i
    <3>1. k - 1 \in 1 .. Len(t) /\ ~(k - 1 < i) /\ (k - 1) + 1 = k /\ t[k - 1] = s[k]
      BY <2>2, <1>1, <1>2
    <3> QED BY <3>1
  <2> QED BY <2>1, <2>2, <1>1, <1>4
<1> QED BY <1>3, <1>4 DEF RestoDe

\* The record found is the only one.
LEMMA RegistroHallado ==
    ASSUME enSwap \in Seq(Registro), RegistroUnico, NEW i \in DOMAIN enSwap
    PROVE  PosRegistro(enSwap[i].pid) = i /\ RegistroDe(enSwap[i].pid) = enSwap[i]
<1>1. RegistrosDe(enSwap[i].pid) = {i}
  BY DEF RegistrosDe, RegistroUnico
<1>2. i \in Nat
  OBVIOUS
<1>3. PosRegistro(enSwap[i].pid) = i
  BY <1>1, <1>2 DEF PosRegistro
<1> QED BY <1>3 DEF RegistroDe

\* The list after a step: the same, one more record, or without that of p.
Nuevo(p) == [pid |-> p, offset |-> lugar[p], tam |-> Len(buffer[p])]

Anota(p) ==
    /\ EnlazarRegistro(p)
    /\ Nuevo(p) \in Registro
    /\ enSwap' = Append(enSwap, Nuevo(p))

Borra(p, i) ==
    /\ OlvidarRegistro(p)
    /\ i \in 1 .. Len(enSwap) /\ enSwap[i].pid = p
    /\ EsQuita(Registro, enSwap, i, enSwap')

\* A step appends the record of p, takes it out, or leaves procesos_swap alone.
LEMMA RegistrosTras ==
    ASSUME IInvRegistros, NEW p \in Procs,
           Pide(p) \/ Inicializa(p) \/ Reanuda(p) \/ Suspende(p) \/ Termina(p) \/ EscribirPagina(p)
    PROVE  \/ enSwap' = enSwap /\ ~OlvidarRegistro(p)
           \/ Anota(p)
           \/ \E i \in 1 .. Len(enSwap) : Borra(p, i)
<1>1. enSwap \in Seq(Registro) /\ RegistroUnico /\ Control
  BY ControlVale DEF IInvRegistros, TypeOK
<1>2. CASE OlvidarRegistro(p)
  <2>1. pc[p] \in PasosDeReanudacion
    BY <1>2 DEF OlvidarRegistro, En, PasosDeReanudacion
  <2>2. PICK i \in DOMAIN enSwap : enSwap[i].pid = p
    BY <2>1 DEF IInvRegistros, ReanudaConRegistro, TieneRegistro
  <2>3. i \in 1 .. Len(enSwap)
    BY <1>1
  <2>4. enSwap' = RemoveAt(enSwap, i)
    BY <1>1, <1>2, <2>2, RegistroHallado DEF OlvidarRegistro, SinRegistro
  <2>5. EsQuita(Registro, enSwap, i, enSwap')
    BY <1>1, <2>3, <2>4, RemoveAtPuntos
  <2> QED BY <1>2, <2>2, <2>3, <2>5 DEF Borra
<1>3. CASE EnlazarRegistro(p)
  <2>1. pc[p] \in PasosDeSuspension /\ pc[p] # "olvidando"
    BY <1>3 DEF EnlazarRegistro, En, PasosDeSuspension
  <2>2. Len(buffer[p]) = Paginas[p] /\ Paginas[p] # 0
    BY <2>1 DEF IInvRegistros, CopiaEntera
  <2>3. lugar[p] \in Nat /\ Paginas[p] \in Nat
    BY MemoriaAssumption DEF IInvRegistros, TypeOK
  <2>4. Nuevo(p) \in Registro
    BY <2>2, <2>3 DEF Nuevo, Registro
  <2>5. enSwap' = Append(enSwap, Nuevo(p)) \/ enSwap' = enSwap
    BY <1>3 DEF EnlazarRegistro, Enlazar, Nuevo
  <2>6. ~OlvidarRegistro(p)
    BY <2>1 DEF OlvidarRegistro, En
  <2> QED BY <1>3, <2>4, <2>5, <2>6 DEF Anota
<1>4. CASE ~OlvidarRegistro(p) /\ ~EnlazarRegistro(p)
  <2>1. Pide(p) \/ Inicializa(p) \/ EscribirPagina(p) => enSwap' = enSwap
    BY DEF Pide, PedirInicio, PedirReanudacion, PedirReanudacionSinRegistro, PedirSuspension, PedirFin,
           Inicializa, Contar, TomarMarco, SinMarcos, SinPrograma, Alta, Contestar, EscribirPagina, swap
  <2>2. Reanuda(p) \/ Suspende(p) => enSwap' = enSwap
    BY <1>4 DEF Reanuda, CopiarAMarcos, DevolverHueco, EnlazarHueco, Contestar,
                Suspende, UbicarEnHueco, UbicarAlFinal, EscribirEnSwap, Registrar, swap
  <2>3. Termina(p) => enSwap' = enSwap
    BY DEF Termina, LiberarMarco, TablaDestruida, Contestar, swap
  <2> QED BY <1>4, <2>1, <2>2, <2>3
<1> QED BY <1>2, <1>3, <1>4

\* What a record of the new list is.
LEMMA RegistroNuevoOViejo ==
    ASSUME IInvRegistros, NEW p \in Procs,
           Pide(p) \/ Inicializa(p) \/ Reanuda(p) \/ Suspende(p) \/ Termina(p) \/ EscribirPagina(p),
           NEW j \in DOMAIN enSwap'
    PROVE  \/ Anota(p) /\ j = Len(enSwap) + 1 /\ enSwap'[j] = Nuevo(p)
           \/ \E k \in DOMAIN enSwap : enSwap'[j] = enSwap[k] /\ (OlvidarRegistro(p) => enSwap[k].pid # p)
<1>1. enSwap \in Seq(Registro) /\ RegistroUnico
  BY DEF IInvRegistros, TypeOK
<1>2. CASE Anota(p)
  <2>1. enSwap' = Append(enSwap, Nuevo(p)) /\ Nuevo(p) \in Registro
    BY <1>2 DEF Anota
  <2>2. ~OlvidarRegistro(p)
    BY <1>2 DEF Anota, EnlazarRegistro, OlvidarRegistro, En
  <2>3. j \in 1 .. Len(enSwap) + 1
    BY <1>1, <2>1
  <2>4. CASE j = Len(enSwap) + 1
    <3>1. enSwap'[j] = Nuevo(p)
      BY <1>1, <2>1, <2>4
    <3> QED BY <1>2, <2>4, <3>1
  <2>5. CASE j # Len(enSwap) + 1
    <3>1. j \in DOMAIN enSwap
      BY <1>1, <2>3, <2>5
    <3>2. enSwap'[j] = enSwap[j]
      BY <1>1, <2>1, <3>1
    <3> QED BY <2>2, <3>1, <3>2
  <2> QED BY <2>4, <2>5
<1>3. ASSUME NEW i \in 1 .. Len(enSwap), Borra(p, i)
      PROVE  \E k \in DOMAIN enSwap : enSwap'[j] = enSwap[k] /\ enSwap[k].pid # p
  <2>1. EsQuita(Registro, enSwap, i, enSwap') /\ enSwap[i].pid = p
    BY <1>3 DEF Borra
  <2>2. j \in 1 .. Len(enSwap')
    BY <2>1 DEF EsQuita
  <2>3. PICK k \in 1 .. Len(enSwap) : k # i /\ enSwap'[j] = enSwap[k]
    <3>1. RestoDe(enSwap, i, enSwap')
      BY <1>1, <2>1, QuedaElResto
    <3> QED BY <3>1, <2>2 DEF RestoDe
  <2>4. k \in DOMAIN enSwap /\ i \in DOMAIN enSwap
    BY <1>1
  <2> QED BY <1>1, <2>1, <2>3, <2>4 DEF RegistroUnico
<1> QED BY <1>2, <1>3, RegistrosTras

\* The record of a process goes only when its own thread forgets it.
LEMMA RegistroQueda ==
    ASSUME IInvRegistros, NEW p \in Procs,
           Pide(p) \/ Inicializa(p) \/ Reanuda(p) \/ Suspende(p) \/ Termina(p) \/ EscribirPagina(p),
           NEW q \in Procs, TieneRegistro(q), q = p => ~OlvidarRegistro(p)
    PROVE  TieneRegistro(q)'
<1>1. enSwap \in Seq(Registro)
  BY DEF IInvRegistros, TypeOK
<1>2. PICK k \in DOMAIN enSwap : enSwap[k].pid = q
  BY DEF TieneRegistro
<1>3. CASE enSwap' = enSwap
  BY <1>2, <1>3 DEF TieneRegistro
<1>4. CASE Anota(p)
  <2>1. k \in DOMAIN enSwap' /\ enSwap'[k] = enSwap[k]
    BY <1>1, <1>2, <1>4 DEF Anota
  <2> QED BY <1>2, <2>1 DEF TieneRegistro
<1>5. ASSUME NEW i \in 1 .. Len(enSwap), Borra(p, i) PROVE TieneRegistro(q)'
  <2>1. EsQuita(Registro, enSwap, i, enSwap') /\ enSwap[i].pid = p /\ OlvidarRegistro(p)
    BY <1>5 DEF Borra
  <2>2. k # i /\ k \in 1 .. Len(enSwap)
    BY <1>1, <1>2, <2>1
  <2>3. PICK j \in 1 .. Len(enSwap') : enSwap'[j] = enSwap[k]
    <3>1. \A m \in 1 .. Len(enSwap) : m # i => \E j \in 1 .. Len(enSwap') : enSwap'[j] = enSwap[m]
      <4>1. RestoDe(enSwap, i, enSwap')
        BY <1>1, <2>1, QuedaElResto
      <4> QED BY <4>1 DEF RestoDe
    <3> QED BY <2>2, <3>1
  <2>4. j \in DOMAIN enSwap'
    BY <2>1, <2>3 DEF EsQuita
  <2> QED BY <1>2, <2>3, <2>4 DEF TieneRegistro
<1> QED BY <1>3, <1>4, <1>5, RegistrosTras

Paso(p) == Pide(p) \/ Inicializa(p) \/ Reanuda(p) \/ Suspende(p) \/ Termina(p) \/ EscribirPagina(p)

\* What a step of one process leaves alone in the others.
LEMMA LosDemas ==
    ASSUME Control, NEW p \in Procs, Paso(p), NEW q \in Procs \ {p}
    PROVE  pc'[q] = pc[q] /\ pedido'[q] = pedido[q] /\ vida'[q] = vida[q]
           /\ (q \in enMemoria' <=> q \in enMemoria)
<1> USE DEF Control, TiposDeControl
<1>1. CASE Pide(p)
  BY <1>1 DEF Pide, PedirInicio, PedirReanudacion, PedirReanudacionSinRegistro, PedirSuspension, PedirFin,
     Recibir, UnoPorProceso, Pasa
<1>2. CASE Inicializa(p)
  BY <1>2 DEF Inicializa, Contar, TomarMarco, SinMarcos, SinPrograma, Alta, Pasa, hilos
<1>3. CASE Reanuda(p)
  BY <1>3 DEF Reanuda, CopiarAMarcos, DevolverHueco, EnlazarHueco, OlvidarRegistro, Pasa
<1>4. CASE Suspende(p)
  BY <1>4 DEF Suspende, UbicarEnHueco, UbicarAlFinal, EscribirEnSwap, Registrar, EnlazarRegistro, Pasa
<1>5. CASE Termina(p)
  BY <1>5 DEF Termina, LiberarMarco, TablaDestruida, Contestar, Pasa, hilos
<1>6. CASE EscribirPagina(p)
  BY <1>6 DEF EscribirPagina, hilos
<1> QED BY <1>1, <1>2, <1>3, <1>4, <1>5, <1>6 DEF Paso

\* A process with a record does nothing that one with a record may not do.
LEMMA SigueConRegistro ==
    ASSUME Control, NEW p \in Procs, Paso(p), ~OlvidarRegistro(p), PuedeTenerRegistro(p)
    PROVE  PuedeTenerRegistro(p)'
<1> USE DEF Control, TiposDeControl
<1>1. CASE PedirInicio(p) \/ PedirSuspension(p)
  BY <1>1 DEF PedirInicio, PedirSuspension, Recibir, UnoPorProceso, PuedeTenerRegistro
<1>2. CASE PedirReanudacion(p) \/ PedirReanudacionSinRegistro(p) \/ PedirFin(p)
  <2>1. /\ pedido[p] = "nada" /\ pc[p] = "libre"
        /\ pc'[p] \in {"contando", "rechaza", "confirma", "soltando"}
        /\ vida'[p] = vida[p] /\ (p \in enMemoria' => p \in enMemoria)
    BY <1>2 DEF PedirReanudacion, PedirReanudacionSinRegistro, PedirFin, Recibir, UnoPorProceso, Pasa, HiloConPedido
  <2> QED BY <2>1 DEF PuedeTenerRegistro, PasosDeReanudacion
<1>3. CASE TomarMarco(p) \/ LiberarMarco(p)
  BY <1>3 DEF TomarMarco, LiberarMarco, hilos, PuedeTenerRegistro
<1>4. CASE Contar(p) \/ SinMarcos(p) \/ SinPrograma(p)
  <2>1. /\ pc[p] \in {"contando", "tomando"} /\ pc'[p] \in {"tomando", "rechaza", "soltando"}
        /\ UNCHANGED <<pedido, vida, enMemoria>>
    BY <1>4 DEF Contar, SinMarcos, SinPrograma, En, Pasa
  <2> QED BY <2>1 DEF PuedeTenerRegistro, PasosDeReanudacion
<1>5. CASE Alta(p)
  <2>1. pc[p] = "tomando" /\ UNCHANGED <<pedido, vida>>
    BY <1>5 DEF Alta, En
  <2>2. pedido[p] # "INICIALIZAR_PROCESO_DESDE_NEW"
    BY <2>1 DEF PedidoSegunVida, PuedeTenerRegistro
  <2>3. pc'[p] = "copiando"
    BY <1>5, <2>2 DEF Alta, Pasa
  <2> QED BY <2>1, <2>3 DEF PuedeTenerRegistro, PasosDeReanudacion
<1>6. CASE Reanuda(p)
  <2>1. pc[p] \in PasosDeReanudacion /\ pc'[p] \in PasosDeReanudacion /\ UNCHANGED <<pedido, vida>>
    BY <1>6 DEF Reanuda, CopiarAMarcos, DevolverHueco, EnlazarHueco, En, Pasa, PasosDeReanudacion
  <2> QED BY <2>1 DEF PuedeTenerRegistro, PasosDeReanudacion
<1>7. CASE Suspende(p)
  <2>1. pc[p] \in PasosDeSuspension
    BY <1>7 DEF Suspende, UbicarEnHueco, UbicarAlFinal, EscribirEnSwap, Registrar, EnlazarRegistro, En,
       PasosDeSuspension
  <2> QED BY <2>1 DEF PasoSegunPedido, PedidoSegunVida, PuedeTenerRegistro, PasosDeSuspension
<1>8. CASE TablaDestruida(p)
  <2>1. pc[p] = "soltando" /\ UNCHANGED <<pedido, vida, enMemoria>>
    BY <1>8 DEF TablaDestruida, En
  <2>2. pc'[p] \in {"rechaza", "confirma"} /\ (pedido[p] = "SUSPENDER_PROCESO" => pc'[p] = "confirma")
    BY <1>8 DEF TablaDestruida, Pasa, Entra
  <2> QED BY <2>1, <2>2 DEF PuedeTenerRegistro, PasosDeReanudacion
<1>9. CASE Contestar(p)
  <2>1. /\ pc[p] \in {"acepta", "rechaza", "confirma"}
        /\ pc'[p] = "libre"
        /\ vida'[p] = CASE pc[p] = "acepta" -> "residente"
                        [] pc[p] = "rechaza" -> vida[p]
                        [] pedido[p] = "SUSPENDER_PROCESO" -> "suspendido"
                        [] OTHER -> "fin"
        /\ UNCHANGED enMemoria
    BY <1>9 DEF Contestar, Pasa
  <2>2. vida'[p] \notin {"nuevo", "residente"}
    BY <2>1 DEF PuedeTenerRegistro
  <2> QED BY <2>1, <2>2 DEF PuedeTenerRegistro, PasosDeReanudacion
<1>10. CASE EscribirPagina(p)
  BY <1>10 DEF EscribirPagina, PuedeTenerRegistro
<1> QED BY <1>1, <1>2, <1>3, <1>4, <1>5, <1>6, <1>7, <1>8, <1>9, <1>10
        DEF Paso, Pide, Inicializa, Termina

\* Records stay unique, and of processes that are not resident.
LEMMA RegistrosEnRegla ==
    ASSUME IInvRegistros, NEW p \in Procs, Paso(p)
    PROVE  SinRegistroResidente' /\ RegistroUnico'
<1>1. enSwap \in Seq(Registro) /\ RegistroUnico /\ SinRegistroResidente /\ Control
  BY ControlVale DEF IInvRegistros, TypeOK
<1>2. \A k \in DOMAIN enSwap : enSwap[k].pid \in Procs
  <2>1. \A k \in DOMAIN enSwap : enSwap[k] \in Registro
    BY <1>1
  <2> QED BY <2>1 DEF Registro
<1>3. SinRegistroResidente'
  <2> SUFFICES ASSUME NEW j \in DOMAIN enSwap' PROVE PuedeTenerRegistro(enSwap[j].pid)'
    BY DEF SinRegistroResidente
  <2>1. CASE Anota(p) /\ enSwap'[j] = Nuevo(p)
    <3>1. enSwap'[j].pid = p
      BY <2>1 DEF Nuevo
    <3>2. /\ pc[p] = "enlazandoRegistro" /\ pc' = [pc EXCEPT ![p] = "soltando"]
          /\ enMemoria' = enMemoria \ {p} /\ UNCHANGED <<pedido, vida>>
      BY <2>1 DEF Anota, EnlazarRegistro, En, Pasa
    <3>3. pedido[p] = "SUSPENDER_PROCESO" /\ vida[p] = "residente"
      BY <1>1, <3>2 DEF Control, PasoSegunPedido, PedidoSegunVida, PasosDeSuspension
    <3>4. PuedeTenerRegistro(p)'
      BY <1>1, <3>2, <3>3 DEF Control, TiposDeControl, PuedeTenerRegistro
    <3> QED BY <3>1, <3>4
  <2>2. ASSUME NEW k \in DOMAIN enSwap, enSwap'[j] = enSwap[k],
               OlvidarRegistro(p) => enSwap[k].pid # p
        PROVE  PuedeTenerRegistro(enSwap[j].pid)'
    <3>1. PICK q \in Procs : enSwap[k].pid = q /\ PuedeTenerRegistro(q)
      BY <1>1, <1>2 DEF SinRegistroResidente
    <3>2. PuedeTenerRegistro(q)'
      <4>1. CASE q = p
        BY <1>1, <2>2, <3>1, <4>1, SigueConRegistro
      <4>2. CASE q # p
        <5>1. pc'[q] = pc[q] /\ pedido'[q] = pedido[q] /\ vida'[q] = vida[q]
              /\ (q \in enMemoria' <=> q \in enMemoria)
          BY <1>1, <4>2, LosDemas
        <5> QED BY <3>1, <5>1 DEF PuedeTenerRegistro
      <4> QED BY <4>1, <4>2
    <3> QED BY <2>2, <3>1, <3>2
  <2> QED BY <2>1, <2>2, RegistroNuevoOViejo DEF Paso
<1>4. RegistroUnico'
  <2>1. CASE enSwap' = enSwap
    BY <1>1, <2>1 DEF RegistroUnico
  <2>2. CASE Anota(p)
    <3>1. pc[p] = "enlazandoRegistro"
      BY <2>2 DEF Anota, EnlazarRegistro, En
    <3>2. pedido[p] = "SUSPENDER_PROCESO" /\ vida[p] = "residente"
      BY <1>1, <3>1 DEF Control, PasoSegunPedido, PedidoSegunVida, PasosDeSuspension
    <3>3. \A k \in DOMAIN enSwap : enSwap[k].pid # p
      BY <1>1, <3>1, <3>2 DEF SinRegistroResidente, PuedeTenerRegistro
    <3>4. Nuevo(p).pid = p /\ enSwap' = Append(enSwap, Nuevo(p)) /\ Nuevo(p) \in Registro
      BY <2>2 DEF Anota, Nuevo
    <3>5. DOMAIN enSwap = 1 .. Len(enSwap) /\ DOMAIN enSwap' = 1 .. Len(enSwap) + 1 /\ Len(enSwap) \in Nat
          /\ enSwap'[Len(enSwap) + 1] = Nuevo(p) /\ \A k \in 1 .. Len(enSwap) : enSwap'[k] = enSwap[k]
      BY <1>1, <3>4
    <3> QED BY <1>1, <3>3, <3>4, <3>5 DEF RegistroUnico
  <2>3. ASSUME NEW i \in 1 .. Len(enSwap), Borra(p, i) PROVE RegistroUnico'
    <3>1. EsQuita(Registro, enSwap, i, enSwap')
      BY <2>3 DEF Borra
    <3>2. \A j \in 1 .. Len(enSwap') : \E k \in 1 .. Len(enSwap) :
                 k # i /\ enSwap'[j] = enSwap[k] /\ k = IF j < i THEN j ELSE j + 1
      <4>1. RestoDe(enSwap, i, enSwap')
        BY <1>1, <3>1, QuedaElResto
      <4> QED BY <4>1 DEF RestoDe
    <3>3. DOMAIN enSwap = 1 .. Len(enSwap) /\ DOMAIN enSwap' = 1 .. Len(enSwap')
      BY <1>1, <3>1 DEF EsQuita
    <3> SUFFICES ASSUME NEW j1 \in 1 .. Len(enSwap'), NEW j2 \in 1 .. Len(enSwap'),
                        enSwap'[j1].pid = enSwap'[j2].pid
                 PROVE  j1 = j2
      BY <3>3 DEF RegistroUnico
    <3>4. PICK k1 \in 1 .. Len(enSwap) : enSwap'[j1] = enSwap[k1] /\ k1 = IF j1 < i THEN j1 ELSE j1 + 1
      BY <3>2
    <3>5. PICK k2 \in 1 .. Len(enSwap) : enSwap'[j2] = enSwap[k2] /\ k2 = IF j2 < i THEN j2 ELSE j2 + 1
      BY <3>2
    <3>6. k1 = k2
      BY <1>1, <3>3, <3>4, <3>5 DEF RegistroUnico
    <3> QED BY <3>4, <3>5, <3>6
  <2> QED BY <2>1, <2>2, <2>3, RegistrosTras DEF Paso
<1> QED BY <1>3, <1>4

\* A resumption keeps its record until it forgets it.
LEMMA ReanudacionEnRegla ==
    ASSUME IInvRegistros, NEW p \in Procs, Paso(p)
    PROVE  ReanudaConRegistro'
<1>1. Control /\ ReanudaConRegistro
  BY ControlVale DEF IInvRegistros
<1> DEFINE Reanudandose(q) == pc[q] \in PasosDeReanudacion \/ (pedido[q] = "INICIALIZAR_PROCESO_SUSPENDIDO"
                                          /\ pc[q] \in {"contando", "tomando"})
<1> SUFFICES ASSUME NEW q \in Procs, Reanudandose(q)' PROVE TieneRegistro(q)'
  BY DEF ReanudaConRegistro
<1>2. CASE q # p
  <2>1. Reanudandose(q)
    BY <1>1, <1>2, LosDemas
  <2>2. TieneRegistro(q)
    BY <1>1, <2>1 DEF ReanudaConRegistro
  <2> QED BY <1>2, <2>2, RegistroQueda DEF Paso
<1>3. CASE q = p
  <2>1. pc[p] \in Pasos /\ pedido[p] \in Pedidos /\ \A a : Pasa(p, a) => pc'[p] = a
    BY <1>1 DEF Control, TiposDeControl, Pasa
  <2>2. ~OlvidarRegistro(p)
    BY <1>3, <2>1 DEF OlvidarRegistro, PasosDeReanudacion
  <2>3. CASE TieneRegistro(p)
    BY <1>3, <2>2, <2>3, RegistroQueda DEF Paso
  <2>4. CASE ~TieneRegistro(p)
    <3>1. ~Reanudandose(p)
      BY <1>1, <2>4 DEF ReanudaConRegistro
    <3>2. CASE Pide(p)
      <4>1. RegistrosDe(p) = {}
        BY <2>4 DEF RegistrosDe, TieneRegistro
      <4>2. ~PedirReanudacion(p)
        BY <4>1 DEF PedirReanudacion
      <4>3. pc'[p] \notin PasosDeReanudacion
            /\ (pc'[p] = "contando" => pedido'[p] = "INICIALIZAR_PROCESO_DESDE_NEW")
            /\ pc'[p] # "tomando"
        BY <1>1, <3>2, <4>2 DEF Pide, PedirInicio, PedirReanudacionSinRegistro, PedirSuspension, PedirFin,
           Recibir, UnoPorProceso, Pasa, Control, TiposDeControl, PasosDeReanudacion
      <4> QED BY <1>3, <4>3
    <3>3. CASE Inicializa(p)
      <4>1. pc[p] \in {"contando", "tomando"} /\ UNCHANGED pedido
        BY <3>3 DEF Inicializa, Contar, TomarMarco, SinMarcos, SinPrograma, Alta, En, hilos
      <4>2. pedido[p] = "INICIALIZAR_PROCESO_DESDE_NEW"
        BY <1>1, <3>1, <4>1 DEF Control, PasoSegunPedido, Entra
      <4>3. pc'[p] \notin PasosDeReanudacion
        BY <1>1, <3>3, <4>2 DEF Inicializa, Contar, TomarMarco, SinMarcos, SinPrograma, Alta, En, hilos,
           Pasa, Control, TiposDeControl, PasosDeReanudacion
      <4> QED BY <1>3, <4>1, <4>2, <4>3
    <3>4. CASE Reanuda(p)
      BY <3>1, <3>4 DEF Reanuda, CopiarAMarcos, DevolverHueco, EnlazarHueco, OlvidarRegistro, En,
         PasosDeReanudacion
    <3>5. CASE Suspende(p)
      BY <1>3, <2>1, <3>5 DEF Suspende, UbicarEnHueco, UbicarAlFinal, EscribirEnSwap, Registrar, EnlazarRegistro,
         PasosDeReanudacion
    <3>6. CASE Termina(p) \/ EscribirPagina(p)
      <4>1. \/ pc'[p] = pc[p] /\ UNCHANGED pedido
            \/ pc'[p] \in {"rechaza", "confirma", "libre"}
        BY <2>1, <3>6 DEF Termina, LiberarMarco, TablaDestruida, Contestar, EscribirPagina, hilos, Pasa
      <4> QED BY <1>3, <3>1, <4>1 DEF PasosDeReanudacion
    <3> QED BY <3>2, <3>3, <3>4, <3>5, <3>6 DEF Paso
  <2> QED BY <2>3, <2>4
<1> QED BY <1>2, <1>3

-----------------------------------------------------------------------------
(* Types: the file, the holes and the copies of the pages.                 *)

Mayor(a, b) == IF a < b THEN b ELSE a

\* Writing at most at the end of the file leaves no gap.
LEMMA GrabarPuntos ==
    ASSUME archivo \in Seq(Datos), NEW datos \in Seq(Datos), NEW o \in Nat, o <= Len(archivo)
    PROVE  /\ Grabar(datos, o) \in Seq(Datos)
           /\ Len(Grabar(datos, o)) = Mayor(Len(archivo), o + Len(datos))
           /\ \A k \in 1 .. Mayor(Len(archivo), o + Len(datos)) :
                Grabar(datos, o)[k] = IF k \in o + 1 .. o + Len(datos) THEN datos[k - o] ELSE archivo[k]
<1> DEFINE a == Len(archivo)
           n == Len(datos)
           l == Mayor(a, o + n)
           f(k) == IF k \in o + 1 .. o + n THEN datos[k - o] ELSE archivo[k]
<1>1. a \in Nat /\ n \in Nat /\ o \in Nat /\ o <= a
  OBVIOUS
<1>2. Grabar(datos, o) = [k \in 1 .. l |-> f(k)]
  BY DEF Grabar, Mayor
<1>3. \A k \in 1 .. a : archivo[k] \in Datos
  OBVIOUS
<1>4. \A k \in 1 .. n : datos[k] \in Datos
  OBVIOUS
<1> HIDE DEF a, n
<1>5. l \in Nat /\ \A k \in 1 .. l : k \in o + 1 .. o + n \/ k \in 1 .. a
  BY <1>1 DEF Mayor
<1>6. \A k \in 1 .. l : f(k) \in Datos
  <2> SUFFICES ASSUME NEW k \in 1 .. l PROVE f(k) \in Datos
    OBVIOUS
  <2>1. CASE k \in o + 1 .. o + n
    <3>1. k - o \in 1 .. n
      BY <2>1, <1>1
    <3> QED BY <2>1, <3>1, <1>4
  <2>2. CASE k \notin o + 1 .. o + n
    BY <2>2, <1>3, <1>5
  <2> QED BY <2>1, <2>2
<1> HIDE DEF l, f
<1>7. [k \in 1 .. l |-> f(k)] \in Seq(Datos) /\ Len([k \in 1 .. l |-> f(k)]) = l
  BY <1>5, <1>6
<1> QED BY <1>2, <1>7 DEF l, f, a, n

\* A part of the file.
LEMMA ParteDelArchivo ==
    ASSUME archivo \in Seq(Datos), NEW o \in Nat, NEW n \in Nat, o + n <= Len(archivo)
    PROVE  /\ SubSeq(archivo, o + 1, o + n) \in Seq(Datos)
           /\ Len(SubSeq(archivo, o + 1, o + n)) = n
           /\ \A k \in 1 .. n : SubSeq(archivo, o + 1, o + n)[k] = archivo[o + k]
<1>1. Len(archivo) \in Nat
  OBVIOUS
<1>2. \A i \in o + 1 .. o + n : archivo[i] \in Datos
  BY <1>1
<1>3. /\ SubSeq(archivo, o + 1, o + n) \in Seq(Datos)
      /\ Len(SubSeq(archivo, o + 1, o + n)) = IF o + 1 <= o + n THEN o + n - (o + 1) + 1 ELSE 0
      /\ \A i \in 1 .. o + n - (o + 1) + 1 : SubSeq(archivo, o + 1, o + n)[i] = archivo[o + 1 + i - 1]
  BY <1>1, <1>2
<1> QED BY <1>3

\* The fields of a record.
LEMMA CampoDeRegistro ==
    ASSUME NEW r \in Registro
    PROVE  r.pid \in Procs /\ r.offset \in Nat /\ r.tam \in Nat \ {0}
           /\ [offset |-> r.offset, tam |-> r.tam] \in Hueco /\ Fin(r) = r.offset + r.tam
  BY DEF Registro, Hueco, Fin

\* The fields of a hole.
LEMMA CampoDeHueco ==
    ASSUME NEW h \in Hueco
    PROVE  h.offset \in Nat /\ h.tam \in Nat \ {0} /\ Fin(h) = h.offset + h.tam
  BY DEF Hueco, Fin

\* A hole from which fewer pages than it has were taken is still one.
LEMMA AchicarHueco ==
    ASSUME NEW h \in Hueco, NEW n \in Nat,
           [offset |-> h.offset + n, tam |-> h.tam - n] \in Hueco
    PROVE  Achicar(h, n) = [offset |-> h.offset + n, tam |-> h.tam - n]
<1> DEFINE c == h.offset + n
           d == h.tam - n
           g == [h EXCEPT !.offset = c]
           k == [g EXCEPT !.tam = d]
<1>1. Achicar(h, n) = [h EXCEPT !.offset = c, !.tam = d]
  BY DEF Achicar
<1>2. c \in Nat /\ d \in Nat \ {0}
  BY DEF Hueco
<1> HIDE DEF c, d
<1>3. [h EXCEPT !.offset = c, !.tam = d] = k
  BY DEF Hueco
<1>4. g \in Hueco /\ g.offset = c
  BY <1>2 DEF Hueco
<1> HIDE DEF g
<1>5. k \in Hueco /\ k.offset = c /\ k.tam = d
  BY <1>2, <1>4 DEF Hueco
<1> HIDE DEF k
<1>6. k = [offset |-> c, tam |-> d]
  BY <1>5 DEF Hueco
<1> QED BY <1>1, <1>3, <1>6 DEF c, d

\* The list of holes after a step: the same, the area of p more, or one hole
\* smaller or gone.
Devuelve(p, i) ==
    /\ EnlazarHueco(p)
    /\ i \in DOMAIN enSwap /\ enSwap[i].pid = p
    /\ [offset |-> enSwap[i].offset, tam |-> enSwap[i].tam] \in Hueco
    /\ huecos' = Append(huecos, [offset |-> enSwap[i].offset, tam |-> enSwap[i].tam])

Achica(p, i) ==
    /\ UbicarEnHueco(p)
    /\ i \in 1 .. Len(huecos)
    /\ huecos[i].tam > Len(buffer[p])
    /\ lugar' = [lugar EXCEPT ![p] = huecos[i].offset]
    /\ [offset |-> huecos[i].offset + Len(buffer[p]), tam |-> huecos[i].tam - Len(buffer[p])] \in Hueco
    /\ huecos' = [huecos EXCEPT ![i] = [offset |-> huecos[i].offset + Len(buffer[p]),
                                        tam |-> huecos[i].tam - Len(buffer[p])]]

Agota(p, i) ==
    /\ UbicarEnHueco(p)
    /\ i \in 1 .. Len(huecos)
    /\ huecos[i].tam = Len(buffer[p])
    /\ lugar' = [lugar EXCEPT ![p] = huecos[i].offset]
    /\ EsQuita(Hueco, huecos, i, huecos')

\* A step returns an area to huecos_swap, takes pages from a hole, or leaves the list alone.
LEMMA HuecosTrasPaso ==
    ASSUME IInvRegistros, NEW p \in Procs, Paso(p)
    PROVE  \/ huecos' = huecos /\ ~UbicarEnHueco(p)
           \/ \E i \in DOMAIN enSwap : Devuelve(p, i)
           \/ \E i \in 1 .. Len(huecos) : Achica(p, i) \/ Agota(p, i)
<1>1. /\ enSwap \in Seq(Registro) /\ huecos \in Seq(Hueco) /\ RegistroUnico /\ ReanudaConRegistro
      /\ buffer \in [Procs -> Seq(Datos)]
  BY DEF IInvRegistros, TypeOK
<1>2. CASE EnlazarHueco(p)
  <2>1. pc[p] = "enlazandoHueco"
    BY <1>2 DEF EnlazarHueco, En
  <2>2. PICK i \in DOMAIN enSwap : enSwap[i].pid = p
    BY <1>1, <2>1 DEF ReanudaConRegistro, TieneRegistro, PasosDeReanudacion
  <2>3. RegistroDe(p) = enSwap[i]
    BY <1>1, <2>2, RegistroHallado
  <2>4. enSwap[i] \in Registro
    BY <1>1, <2>2
  <2>5. [offset |-> enSwap[i].offset, tam |-> enSwap[i].tam] \in Hueco
    BY <2>4, CampoDeRegistro
  <2>6. \/ huecos' = huecos
        \/ huecos' = Append(huecos, [offset |-> enSwap[i].offset, tam |-> enSwap[i].tam])
    BY <1>2, <2>3 DEF EnlazarHueco, Enlazar
  <2>7. ~UbicarEnHueco(p)
    BY <2>1 DEF UbicarEnHueco, En
  <2> QED BY <1>2, <2>2, <2>5, <2>6, <2>7 DEF Devuelve
<1>3. CASE UbicarEnHueco(p)
  <2> DEFINE n == Len(buffer[p])
  <2>1. PICK i \in HuecosAptos(n) :
          /\ lugar' = [lugar EXCEPT ![p] = huecos[i].offset]
          /\ huecos' = HuecosTras(i, n)
    BY <1>3 DEF UbicarEnHueco
  <2>2. i \in 1 .. Len(huecos) /\ huecos[i].tam >= n /\ n \in Nat /\ huecos[i] \in Hueco
    BY <1>1 DEF HuecosAptos
  <2>3. huecos[i].offset \in Nat /\ huecos[i].tam \in Nat \ {0}
    BY <2>2, CampoDeHueco
  <2> HIDE DEF n
  <2>4. CASE huecos[i].tam > n
    <3>1. [offset |-> huecos[i].offset + n, tam |-> huecos[i].tam - n] \in Hueco
      BY <2>2, <2>3, <2>4 DEF Hueco
    <3>2. huecos' = [huecos EXCEPT ![i] = Achicar(@, n)]
      BY <2>1, <2>4 DEF HuecosTras
    <3>3. Achicar(huecos[i], n) = [offset |-> huecos[i].offset + n, tam |-> huecos[i].tam - n]
      BY <2>2, <3>1, AchicarHueco
    <3>4. huecos' = [huecos EXCEPT ![i] = [offset |-> huecos[i].offset + n, tam |-> huecos[i].tam - n]]
      BY <3>2, <3>3
    <3> QED BY <1>3, <2>1, <2>2, <2>4, <3>1, <3>4 DEF Achica, n
  <2>5. CASE ~(huecos[i].tam > n)
    <3>1. huecos[i].tam = n
      BY <2>2, <2>3, <2>5
    <3>2. huecos' = RemoveAt(huecos, i)
      BY <2>1, <2>5 DEF HuecosTras
    <3>3. EsQuita(Hueco, huecos, i, huecos')
      BY <1>1, <2>2, <3>2, RemoveAtPuntos
    <3> QED BY <1>3, <2>1, <2>2, <3>1, <3>3 DEF Agota, n
  <2> QED BY <2>4, <2>5
<1>4. CASE ~EnlazarHueco(p) /\ ~UbicarEnHueco(p)
  BY <1>4 DEF Paso, Pide, PedirInicio, PedirReanudacion, PedirReanudacionSinRegistro, PedirSuspension, PedirFin,
     Inicializa, Contar, TomarMarco, SinMarcos, SinPrograma, Alta, Reanuda, CopiarAMarcos, DevolverHueco,
     OlvidarRegistro, Suspende, UbicarAlFinal, EscribirEnSwap, Registrar, EnlazarRegistro,
     Termina, LiberarMarco, TablaDestruida, Contestar, EscribirPagina, swap
<1> QED BY <1>2, <1>3, <1>4

\* The file after a step: the same, or with the copy of p written at its place.
Graba(p) ==
    /\ EscribirEnSwap(p)
    /\ archivo' \in Seq(Datos)
    /\ Len(archivo') = Mayor(Len(archivo), lugar[p] + Len(buffer[p]))
    /\ \A k \in 1 .. Mayor(Len(archivo), lugar[p] + Len(buffer[p])) :
          archivo'[k] = IF k \in lugar[p] + 1 .. lugar[p] + Len(buffer[p]) THEN buffer[p][k - lugar[p]]
                        ELSE archivo[k]

\* A step writes the copy of p to its place, or leaves the file alone.
LEMMA ArchivoTrasPaso ==
    ASSUME IInvRegistros, NEW p \in Procs, Paso(p)
    PROVE  \/ archivo' = archivo /\ ~EscribirEnSwap(p)
           \/ Graba(p)
<1>1. archivo \in Seq(Datos) /\ buffer[p] \in Seq(Datos) /\ lugar[p] \in Nat
  BY DEF IInvRegistros, TypeOK
<1>2. CASE EscribirEnSwap(p)
  <2>1. pc[p] = "grabando" /\ archivo' = Grabar(buffer[p], lugar[p])
    BY <1>2 DEF EscribirEnSwap, En
  <2>2. lugar[p] <= Len(archivo)
    BY <2>1 DEF IInvRegistros, DentroDelArchivo
  <2> QED BY <1>1, <1>2, <2>1, <2>2, GrabarPuntos DEF Graba
<1>3. CASE ~EscribirEnSwap(p)
  BY <1>3 DEF Paso, Pide, PedirInicio, PedirReanudacion, PedirReanudacionSinRegistro, PedirSuspension, PedirFin,
     Inicializa, Contar, TomarMarco, SinMarcos, SinPrograma, Alta, Reanuda, CopiarAMarcos, DevolverHueco,
     EnlazarHueco, OlvidarRegistro, Suspende, UbicarEnHueco, UbicarAlFinal, Registrar, EnlazarRegistro,
     Termina, LiberarMarco, TablaDestruida, Contestar, EscribirPagina, swap
<1> QED BY <1>2, <1>3

\* The file never shrinks.
LEMMA ElArchivoCrece ==
    ASSUME IInvRegistros, NEW p \in Procs, Paso(p)
    PROVE  Len(archivo') \in Nat /\ Len(archivo) \in Nat /\ Len(archivo) <= Len(archivo')
<1>1. archivo \in Seq(Datos) /\ buffer[p] \in Seq(Datos) /\ lugar[p] \in Nat
  BY DEF IInvRegistros, TypeOK
<1>2. Len(archivo) \in Nat /\ Len(buffer[p]) \in Nat
  BY <1>1
<1> QED BY <1>1, <1>2, ArchivoTrasPaso DEF Graba, Mayor

\* The copies of the pages.
LEMMA TiposDeCopia ==
    ASSUME IInvRegistros, NEW p \in Procs, Paso(p)
    PROVE  buffer' \in [Procs -> Seq(Datos)] /\ \A q \in Procs \ {p} : buffer'[q] = buffer[q]
<1>1. /\ buffer \in [Procs -> Seq(Datos)] /\ archivo \in Seq(Datos) /\ enSwap \in Seq(Registro)
      /\ contenido \in [NroMarcos -> Datos] /\ tabla \in [Procs -> Seq(NroMarcos)]
      /\ RegistroUnico /\ DentroDelArchivo
  BY DEF IInvRegistros, TypeOK
<1>2. CASE PedirReanudacion(p)
  <2>1. PICK i \in DOMAIN enSwap : enSwap[i].pid = p
    BY <1>2 DEF PedirReanudacion, RegistrosDe
  <2>2. RegistroDe(p) = enSwap[i] /\ enSwap[i] \in Registro /\ Fin(enSwap[i]) <= Len(archivo)
    BY <1>1, <2>1, RegistroHallado DEF DentroDelArchivo
  <2>3. SubSeq(archivo, enSwap[i].offset + 1, Fin(enSwap[i])) \in Seq(Datos)
    <3>1. enSwap[i].offset \in Nat /\ enSwap[i].tam \in Nat
          /\ Fin(enSwap[i]) = enSwap[i].offset + enSwap[i].tam
      BY <2>2, CampoDeRegistro
    <3> QED BY <1>1, <2>2, <3>1, ParteDelArchivo
  <2>4. buffer' = [buffer EXCEPT ![p] = SubSeq(archivo, enSwap[i].offset + 1, Fin(enSwap[i]))]
    BY <1>2, <2>2 DEF PedirReanudacion
  <2> QED BY <1>1, <2>3, <2>4
<1>3. CASE PedirSuspension(p)
  <2> DEFINE c == [i \in 1 .. Len(tabla[p]) |-> contenido[tabla[p][i]]]
  <2>1. Len(tabla[p]) \in Nat /\ DOMAIN tabla[p] = 1 .. Len(tabla[p])
        /\ \A i \in 1 .. Len(tabla[p]) : tabla[p][i] \in NroMarcos
    BY <1>1
  <2>2. \A i \in 1 .. Len(tabla[p]) : contenido[tabla[p][i]] \in Datos
    BY <1>1, <2>1
  <2>3. c \in Seq(Datos)
    BY <2>1, <2>2
  <2>4. LeerMarcos(p) = c
    BY <2>1 DEF LeerMarcos
  <2>5. buffer' = [buffer EXCEPT ![p] = LeerMarcos(p)]
    BY <1>3 DEF PedirSuspension
  <2> HIDE DEF c
  <2> QED BY <1>1, <2>3, <2>4, <2>5
<1>4. CASE Contestar(p)
  BY <1>1, <1>4 DEF Contestar
<1>5. CASE ~PedirReanudacion(p) /\ ~PedirSuspension(p) /\ ~Contestar(p)
  <2>1. buffer' = buffer
    BY <1>5 DEF Paso, Pide, PedirInicio, PedirReanudacionSinRegistro, PedirFin,
     Inicializa, Contar, TomarMarco, SinMarcos, SinPrograma, Alta, Reanuda, CopiarAMarcos, DevolverHueco,
     EnlazarHueco, OlvidarRegistro, Suspende, UbicarEnHueco, UbicarAlFinal, EscribirEnSwap, Registrar,
     EnlazarRegistro, Termina, LiberarMarco, TablaDestruida, EscribirPagina, hilos
  <2> QED BY <1>1, <2>1
<1> QED BY <1>2, <1>3, <1>4, <1>5

\* Offsets, the last node seen, and the counters of the bounds.
LEMMA TiposDeLugar ==
    ASSUME IInvRegistros, NEW p \in Procs, Paso(p)
    PROVE  lugar' \in [Procs -> Nat] /\ \A q \in Procs \ {p} : lugar'[q] = lugar[q] /\ ultimo'[q] = ultimo[q]
<1>1. lugar \in [Procs -> Nat] /\ archivo \in Seq(Datos) /\ huecos \in Seq(Hueco)
      /\ ultimo \in [Procs -> Nat]
  BY DEF IInvRegistros, TypeOK
<1>2. \E o \in Nat : lugar' = [lugar EXCEPT ![p] = o] \/ lugar' = lugar
  <2>1. CASE UbicarAlFinal(p)
    <3>1. Len(archivo) \in Nat
      BY <1>1
    <3> QED BY <2>1, <3>1 DEF UbicarAlFinal
  <2>2. CASE UbicarEnHueco(p)
    <3>1. PICK i \in DOMAIN huecos : lugar' = [lugar EXCEPT ![p] = huecos[i].offset]
      BY <2>2 DEF UbicarEnHueco, HuecosAptos
    <3>2. huecos[i] \in Hueco
      BY <1>1
    <3>3. huecos[i].offset \in Nat
      BY <3>2, CampoDeHueco
    <3> QED BY <3>1, <3>3
  <2>3. CASE Contestar(p)
    BY <2>3 DEF Contestar
  <2>4. CASE ~UbicarAlFinal(p) /\ ~UbicarEnHueco(p) /\ ~Contestar(p)
    <3>1. lugar' = lugar
      BY <2>4 DEF Paso, Pide, PedirInicio, PedirReanudacion, PedirReanudacionSinRegistro, PedirSuspension,
       PedirFin, Inicializa, Contar, TomarMarco, SinMarcos, SinPrograma, Alta, Reanuda, CopiarAMarcos,
       DevolverHueco, EnlazarHueco, OlvidarRegistro, Suspende, EscribirEnSwap, Registrar,
       EnlazarRegistro, Termina, LiberarMarco, TablaDestruida, EscribirPagina, hilos
    <3> QED BY <3>1
  <2> QED BY <2>1, <2>2, <2>3, <2>4
<1>3. \E u : ultimo' = [ultimo EXCEPT ![p] = u] \/ ultimo' = ultimo
  BY DEF Paso, Pide, PedirInicio, PedirReanudacion, PedirReanudacionSinRegistro, PedirSuspension,
       PedirFin, Inicializa, Contar, TomarMarco, SinMarcos, SinPrograma, Alta, Reanuda, CopiarAMarcos,
       DevolverHueco, EnlazarHueco, OlvidarRegistro, Suspende, UbicarEnHueco, UbicarAlFinal, EscribirEnSwap,
       Registrar, EnlazarRegistro, Termina, LiberarMarco, TablaDestruida, Contestar, EscribirPagina, hilos
<1> QED BY <1>1, <1>2, <1>3

\* The end of the last node of a list is a number.
LEMMA TiposDeUltimo ==
    ASSUME IInvRegistros, NEW p \in Procs, Paso(p)
    PROVE  ultimo' \in [Procs -> Nat]
<1>1. ultimo \in [Procs -> Nat] /\ enSwap \in Seq(Registro) /\ huecos \in Seq(Hueco)
  BY DEF IInvRegistros, TypeOK
<1>2. Ultimo(enSwap) \in Nat
  <2>1. CASE enSwap = <<>>
    BY <2>1 DEF Ultimo
  <2>2. CASE enSwap # <<>>
    <3>1. Last(enSwap) \in Registro
      BY <1>1, <2>2 DEF Last
    <3>2. Fin(Last(enSwap)) \in Nat
      <4> DEFINE r == Last(enSwap)
      <4>1. r \in Registro
        BY <3>1
      <4> HIDE DEF r
      <4>2. r.offset \in Nat /\ r.tam \in Nat /\ Fin(r) = r.offset + r.tam
        BY <4>1, CampoDeRegistro
      <4>3. Fin(r) \in Nat
        BY <4>2
      <4> QED BY <4>3 DEF r
    <3> QED BY <2>2, <3>2 DEF Ultimo
  <2> QED BY <2>1, <2>2
<1>3. Ultimo(huecos) \in Nat
  <2>1. CASE huecos = <<>>
    BY <2>1 DEF Ultimo
  <2>2. CASE huecos # <<>>
    <3>1. Last(huecos) \in Hueco
      BY <1>1, <2>2 DEF Last
    <3>2. Fin(Last(huecos)) \in Nat
      BY <3>1, CampoDeHueco
    <3> QED BY <2>2, <3>2 DEF Ultimo
  <2> QED BY <2>1, <2>2
<1>4. \E u \in Nat : ultimo' = [ultimo EXCEPT ![p] = u] \/ ultimo' = ultimo
  <2>1. CASE Registrar(p) \/ DevolverHueco(p)
    BY <1>2, <1>3, <2>1 DEF Registrar, DevolverHueco
  <2>2. CASE Contestar(p)
    BY <2>2 DEF Contestar
  <2>3. CASE ~Registrar(p) /\ ~DevolverHueco(p) /\ ~Contestar(p)
    <3>1. ultimo' = ultimo
      BY <2>3 DEF Paso, Pide, PedirInicio, PedirReanudacion, PedirReanudacionSinRegistro, PedirSuspension,
       PedirFin, Inicializa, Contar, TomarMarco, SinMarcos, SinPrograma, Alta, Reanuda, CopiarAMarcos,
       EnlazarHueco, OlvidarRegistro, Suspende, UbicarEnHueco, UbicarAlFinal, EscribirEnSwap,
       EnlazarRegistro, Termina, LiberarMarco, TablaDestruida, EscribirPagina, hilos
    <3> QED BY <3>1
  <2> QED BY <2>1, <2>2, <2>3
<1> QED BY <1>1, <1>4

\* vida, and the counters that bound the model.
LEMMA TiposDeVida ==
    ASSUME IInvRegistros, NEW p \in Procs, Paso(p)
    PROVE  /\ vida' \in [Procs -> Vidas]
           /\ escrituras' \in [Procs -> 0 .. MaxEscrituras]
           /\ suspensiones' \in 0 .. MaxSuspensiones
<1>1. /\ vida \in [Procs -> Vidas]
      /\ escrituras \in [Procs -> 0 .. MaxEscrituras]
      /\ suspensiones \in 0 .. MaxSuspensiones
      /\ MaxEscrituras \in Nat /\ MaxSuspensiones \in Nat
  BY MemoriaAssumption DEF IInvRegistros, TypeOK, Vidas
<1>2. CASE Contestar(p)
  <2>1. UNCHANGED <<escrituras, suspensiones>>
    BY <1>2 DEF Contestar, cuenta
  <2> DEFINE v == CASE pc[p] = "acepta" -> "residente"
                    [] pc[p] = "rechaza" -> vida[p]
                    [] pedido[p] = "SUSPENDER_PROCESO" -> "suspendido"
                    [] OTHER -> "fin"
  <2>2. v \in Vidas /\ vida' = [vida EXCEPT ![p] = v]
    BY <1>1, <1>2 DEF Contestar, Vidas
  <2> HIDE DEF v
  <2> QED BY <1>1, <2>1, <2>2
<1>3. CASE PedirSuspension(p)
  BY <1>1, <1>3 DEF PedirSuspension
<1>4. CASE EscribirPagina(p)
  <2>1. escrituras[p] + 1 \in 0 .. MaxEscrituras /\ escrituras' = [escrituras EXCEPT ![p] = @ + 1]
        /\ UNCHANGED <<vida, suspensiones>>
    BY <1>1, <1>4 DEF EscribirPagina
  <2> QED BY <1>1, <2>1
<1>5. CASE ~Contestar(p) /\ ~PedirSuspension(p) /\ ~EscribirPagina(p)
  <2>1. UNCHANGED <<vida, cuenta>>
    BY <1>5 DEF Paso, Pide, PedirInicio, PedirReanudacion, PedirReanudacionSinRegistro,
       PedirFin, Inicializa, Contar, TomarMarco, SinMarcos, SinPrograma, Alta, Reanuda, CopiarAMarcos,
       DevolverHueco, EnlazarHueco, OlvidarRegistro, Suspende, UbicarEnHueco, UbicarAlFinal, EscribirEnSwap,
       Registrar, EnlazarRegistro, Termina, LiberarMarco, TablaDestruida
  <2> QED BY <1>1, <2>1 DEF cuenta
<1> QED BY <1>2, <1>3, <1>4, <1>5

\* A write of p is a datum.
LEMMA DatoEscrito ==
    ASSUME IInvRegistros, NEW p \in Procs, EscribirPagina(p)
    PROVE  \E i \in 1 .. Len(tabla[p]), d \in Datos :
              /\ tabla[p][i] \in NroMarcos
              /\ contenido' = [contenido EXCEPT ![tabla[p][i]] = d]
              /\ escrito' = [escrito EXCEPT ![p][i] = d]
<1>1. /\ escrituras[p] \in Nat /\ escrituras[p] + 1 \in 1 .. MaxEscrituras
      /\ tabla[p] \in Seq(NroMarcos)
  BY MemoriaAssumption DEF IInvRegistros, TypeOK, EscribirPagina
<1>2. PICK i \in DOMAIN tabla[p] :
        LET d == <<p, i, escrituras[p] + 1>>
        IN contenido' = [contenido EXCEPT ![tabla[p][i]] = d] /\ escrito' = [escrito EXCEPT ![p][i] = d]
  BY DEF EscribirPagina
<1>3. i \in 1 .. Len(tabla[p]) /\ i \in Nat /\ tabla[p][i] \in NroMarcos
  BY <1>1
<1>4. <<p, i, escrituras[p] + 1>> \in Datos
  BY <1>1, <1>3 DEF Datos
<1> QED BY <1>2, <1>3, <1>4

\* Changing one page keeps the pages pages.
LEMMA ExceptDatos ==
    ASSUME NEW s \in Seq(Datos), NEW i, NEW d \in Datos
    PROVE  [s EXCEPT ![i] = d] \in Seq(Datos) /\ Len([s EXCEPT ![i] = d]) = Len(s)
<1>1. s \in [1 .. Len(s) -> Datos] /\ Len(s) \in Nat
  OBVIOUS
<1>2. [s EXCEPT ![i] = d] \in [1 .. Len(s) -> Datos]
  BY <1>1
<1> QED BY <1>1, <1>2

\* What the pages should hold are data.
LEMMA TiposDeEscrito ==
    ASSUME IInvRegistros, NEW p \in Procs, Paso(p)
    PROVE  escrito' \in [Procs -> Seq(Datos)]
<1>1. escrito \in [Procs -> Seq(Datos)] /\ contenido \in [NroMarcos -> Datos] /\ tabla \in [Procs -> Seq(NroMarcos)]
  BY DEF IInvRegistros, TypeOK
<1>2. CASE Alta(p)
  <2> DEFINE c == [i \in 1 .. Len(tabla[p]) |-> contenido[tabla[p][i]]]
  <2>1. Len(tabla[p]) \in Nat /\ DOMAIN tabla[p] = 1 .. Len(tabla[p])
        /\ \A i \in 1 .. Len(tabla[p]) : tabla[p][i] \in NroMarcos
    BY <1>1
  <2>2. \A i \in 1 .. Len(tabla[p]) : contenido[tabla[p][i]] \in Datos
    BY <1>1, <2>1
  <2>3. c \in Seq(Datos)
    BY <2>1, <2>2
  <2>4. Contenidos(p) = c
    BY <2>1 DEF Contenidos
  <2>5. escrito' = [escrito EXCEPT ![p] = Contenidos(p)] \/ escrito' = escrito
    BY <1>2 DEF Alta
  <2> HIDE DEF c
  <2> QED BY <1>1, <2>3, <2>4, <2>5
<1>3. CASE EscribirPagina(p)
  <2>1. PICK i \in 1 .. Len(tabla[p]), d \in Datos : escrito' = [escrito EXCEPT ![p][i] = d]
    BY <1>3, DatoEscrito
  <2>2. [escrito[p] EXCEPT ![i] = d] \in Seq(Datos)
    BY <1>1, ExceptDatos
  <2>3. escrito' = [escrito EXCEPT ![p] = [escrito[p] EXCEPT ![i] = d]]
    BY <1>1, <2>1
  <2> HIDE DEF Datos
  <2> QED BY <1>1, <2>2, <2>3
<1>4. CASE ~Alta(p) /\ ~EscribirPagina(p)
  <2>1. escrito' = escrito
    BY <1>4 DEF Paso, Pide, PedirInicio, PedirReanudacion, PedirReanudacionSinRegistro, PedirSuspension,
       PedirFin, Inicializa, Contar, TomarMarco, SinMarcos, SinPrograma, Reanuda, CopiarAMarcos,
       DevolverHueco, EnlazarHueco, OlvidarRegistro, Suspende, UbicarEnHueco, UbicarAlFinal, EscribirEnSwap,
       Registrar, EnlazarRegistro, Termina, LiberarMarco, TablaDestruida, Contestar
  <2> QED BY <1>1, <2>1
<1> QED BY <1>2, <1>3, <1>4

\* A copy that comes back has a page for each frame.
LEMMA CopiaYTabla ==
    ASSUME IInvRegistros, NEW p \in Procs, pc[p] = "copiando"
    PROVE  /\ Len(buffer[p]) = Len(tabla[p]) /\ buffer[p] \in Seq(Datos) /\ tabla[p] \in Seq(NroMarcos)
           /\ Len(tabla[p]) \in Nat
<1>1. buffer[p] \in Seq(Datos) /\ tabla[p] \in Seq(NroMarcos)
  BY DEF IInvRegistros, TypeOK
<1>2. Len(buffer[p]) = Paginas[p]
  BY DEF IInvRegistros, CopiaEntera, PasoSegunPedido, PasosDeReanudacion
<1>3. Len(tabla[p]) = Paginas[p]
  BY DEF IInvRegistros, PresenteSegunPaso, PasosDeReanudacion
<1> QED BY <1>1, <1>2, <1>3

\* What the frames hold are data.
LEMMA TiposDeContenido ==
    ASSUME IInvRegistros, NEW p \in Procs, Paso(p)
    PROVE  contenido' \in [NroMarcos -> Datos]
<1>1. contenido \in [NroMarcos -> Datos]
  BY DEF IInvRegistros, TypeOK
<1>2. CASE CopiarAMarcos(p)
  <2>1. pc[p] = "copiando"
    BY <1>2 DEF CopiarAMarcos, En
  <2>2. DOMAIN tabla[p] = 1 .. Len(buffer[p]) /\ \A i \in 1 .. Len(buffer[p]) : buffer[p][i] \in Datos
    BY <2>1, CopiaYTabla
  <2>3. ASSUME NEW m \in NroMarcos, \E i \in DOMAIN tabla[p] : tabla[p][i] = m
        PROVE  buffer[p][CHOOSE i \in DOMAIN tabla[p] : tabla[p][i] = m] \in Datos
    <3> DEFINE k == CHOOSE i \in DOMAIN tabla[p] : tabla[p][i] = m
    <3>1. k \in DOMAIN tabla[p]
      BY <2>3
    <3> HIDE DEF k
    <3> QED BY <2>2, <3>1 DEF k
  <2>4. contenido' = [m \in NroMarcos |->
                        IF \E i \in DOMAIN tabla[p] : tabla[p][i] = m
                        THEN buffer[p][CHOOSE i \in DOMAIN tabla[p] : tabla[p][i] = m]
                        ELSE contenido[m]]
    BY <1>2 DEF CopiarAMarcos
  <2> QED BY <1>1, <2>3, <2>4
<1>3. CASE EscribirPagina(p)
  <2>1. PICK i \in 1 .. Len(tabla[p]), d \in Datos : contenido' = [contenido EXCEPT ![tabla[p][i]] = d]
    BY <1>3, DatoEscrito
  <2> QED BY <1>1, <2>1
<1>4. CASE ~CopiarAMarcos(p) /\ ~EscribirPagina(p)
  <2>1. contenido' = contenido
    BY <1>4 DEF Paso, Pide, PedirInicio, PedirReanudacion, PedirReanudacionSinRegistro, PedirSuspension,
       PedirFin, Inicializa, Contar, TomarMarco, SinMarcos, SinPrograma, Alta, Reanuda,
       DevolverHueco, EnlazarHueco, OlvidarRegistro, Suspende, UbicarEnHueco, UbicarAlFinal, EscribirEnSwap,
       Registrar, EnlazarRegistro, Termina, LiberarMarco, TablaDestruida, Contestar, fisica
  <2> QED BY <1>1, <2>1
<1> QED BY <1>2, <1>3, <1>4

\* Records, holes and file keep their types.
LEMMA TiposDeListas ==
    ASSUME IInvRegistros, NEW p \in Procs, Paso(p)
    PROVE  enSwap' \in Seq(Registro) /\ huecos' \in Seq(Hueco) /\ archivo' \in Seq(Datos)
<1>1. enSwap \in Seq(Registro) /\ huecos \in Seq(Hueco) /\ archivo \in Seq(Datos)
  BY DEF IInvRegistros, TypeOK
<1>2. enSwap' \in Seq(Registro)
  <2>1. CASE Anota(p)
    BY <1>1, <2>1 DEF Anota
  <2>2. ASSUME NEW i \in 1 .. Len(enSwap), Borra(p, i) PROVE enSwap' \in Seq(Registro)
    BY <2>2 DEF Borra, EsQuita
  <2> QED BY <1>1, <2>1, <2>2, RegistrosTras DEF Paso
<1>3. huecos' \in Seq(Hueco)
  <2>1. ASSUME NEW i \in DOMAIN enSwap, Devuelve(p, i) PROVE huecos' \in Seq(Hueco)
    BY <1>1, <2>1 DEF Devuelve
  <2>2. ASSUME NEW i \in 1 .. Len(huecos), Achica(p, i) PROVE huecos' \in Seq(Hueco)
    BY <1>1, <2>2 DEF Achica
  <2>3. ASSUME NEW i \in 1 .. Len(huecos), Agota(p, i) PROVE huecos' \in Seq(Hueco)
    BY <2>3 DEF Agota, EsQuita
  <2> QED BY <1>1, <2>1, <2>2, <2>3, HuecosTrasPaso
<1>4. archivo' \in Seq(Datos)
  BY <1>1, ArchivoTrasPaso DEF Graba
<1> QED BY <1>2, <1>3, <1>4

\* Every variable keeps its type.
LEMMA TiposSiguen ==
    ASSUME IInvRegistros, NEW p \in Procs, Paso(p)
    PROVE  IInv' /\ TypeOK'
<1>1. IInv'
  BY ConservaInvariante DEF IInvRegistros, Paso, Next
<1>2. TiposDeMarcos'
  BY <1>1 DEF IInv
<1> QED BY <1>1, <1>2, TiposDeCopia, TiposDeLugar, TiposDeUltimo, TiposDeVida, TiposDeEscrito, TiposDeContenido,
       TiposDeListas DEF TypeOK, TiposDeMarcos, Vidas

-----------------------------------------------------------------------------
(* Copies are whole, and areas lie in the file.                            *)

\* A copy has as many pages as its process.
LEMMA CopiaSigueEntera ==
    ASSUME IInvRegistros, NEW p \in Procs, Paso(p)
    PROVE  CopiaEntera'
<1>1. Control /\ CopiaEntera /\ tabla \in [Procs -> Seq(NroMarcos)] /\ Paginas \in [Procs -> Nat]
      /\ buffer \in [Procs -> Seq(Datos)]
  BY ControlVale, MemoriaAssumption DEF IInvRegistros, TypeOK
<1> DEFINE Entera(q) ==
             /\ pc[q] \in PasosDeSuspension => Len(buffer[q]) = Paginas[q] /\ Paginas[q] # 0
             /\ pedido[q] = "INICIALIZAR_PROCESO_SUSPENDIDO" /\ pc[q] \in {"contando", "tomando", "copiando"}
                   => Len(buffer[q]) = Paginas[q]
<1>2. ASSUME NEW q \in Procs \ {p} PROVE Entera(q)'
  <2>1. pc'[q] = pc[q] /\ pedido'[q] = pedido[q] /\ buffer'[q] = buffer[q]
    BY <1>1, LosDemas, TiposDeCopia
  <2> QED BY <1>1, <2>1 DEF CopiaEntera
<1>3. Entera(p)'
  <2> USE DEF Control, TiposDeControl
  <2>1. CASE PedirReanudacion(p)
    <3>1. PICK i \in DOMAIN enSwap : enSwap[i].pid = p
      BY <2>1 DEF PedirReanudacion, RegistrosDe
    <3>2. enSwap \in Seq(Registro) /\ archivo \in Seq(Datos) /\ RegistroUnico /\ DentroDelArchivo
      BY DEF IInvRegistros, TypeOK
    <3>3. RegistroDe(p) = enSwap[i] /\ enSwap[i] \in Registro /\ Fin(enSwap[i]) <= Len(archivo)
          /\ enSwap[i].tam = Paginas[p]
      BY <3>1, <3>2, RegistroHallado DEF DentroDelArchivo
    <3>4. enSwap[i].offset \in Nat /\ enSwap[i].tam \in Nat
          /\ Fin(enSwap[i]) = enSwap[i].offset + enSwap[i].tam
      BY <3>3, CampoDeRegistro
    <3>5. Len(SubSeq(archivo, enSwap[i].offset + 1, Fin(enSwap[i]))) = Paginas[p]
      <4>o. PICK o : o = enSwap[i].offset
        OBVIOUS
      <4>n. PICK n : n = enSwap[i].tam
        OBVIOUS
      <4>1. o \in Nat /\ n \in Nat /\ Fin(enSwap[i]) = o + n /\ o + n <= Len(archivo) /\ n = Paginas[p]
        BY <3>3, <3>4, <4>o, <4>n
      <4>2. Len(SubSeq(archivo, o + 1, o + n)) = n
        BY <3>2, <4>1, ParteDelArchivo
      <4> QED BY <4>1, <4>2, <4>o
    <3>6. buffer'[p] = SubSeq(archivo, enSwap[i].offset + 1, Fin(enSwap[i])) /\ pc'[p] = "contando"
      BY <1>1, <2>1, <3>3 DEF PedirReanudacion, Recibir, UnoPorProceso, Pasa
    <3> QED BY <3>5, <3>6 DEF PasosDeSuspension
  <2>2. CASE PedirSuspension(p)
    <3>1. pedido[p] = "nada" /\ vida[p] = "residente" /\ pedido'[p] = "SUSPENDER_PROCESO"
          /\ buffer'[p] = LeerMarcos(p) /\ (tabla[p] = <<>> => pc'[p] = "confirma")
      BY <1>1, <2>2 DEF PedirSuspension, Recibir, UnoPorProceso, Pasa
    <3>2. Len(tabla[p]) = Paginas[p]
      BY <1>1, <3>1 DEF PresenteSegunPaso
    <3>3. Len(LeerMarcos(p)) = Len(tabla[p])
      BY <1>1 DEF LeerMarcos
    <3>4. tabla[p] # <<>> => Len(tabla[p]) # 0
      BY <1>1
    <3> QED BY <3>1, <3>2, <3>3, <3>4 DEF PasosDeSuspension
  <2>3. CASE PedirInicio(p) \/ PedirReanudacionSinRegistro(p) \/ PedirFin(p) \/ Contestar(p)
    <3>1. \/ pedido'[p] # "INICIALIZAR_PROCESO_SUSPENDIDO" /\ pc'[p] \notin PasosDeSuspension
          \/ pc'[p] = "rechaza"
      BY <1>1, <2>3 DEF PedirInicio, PedirReanudacionSinRegistro, PedirFin, Contestar, Recibir, UnoPorProceso, Pasa,
         PasosDeSuspension
    <3> QED BY <3>1 DEF PasosDeSuspension
  <2>4. CASE Inicializa(p)
    <3>1. /\ pc[p] \in {"contando", "tomando"} /\ UNCHANGED <<pedido, buffer>>
          /\ pc'[p] \in {"tomando", "rechaza", "soltando", "acepta", "copiando"}
      BY <1>1, <2>4 DEF Inicializa, Contar, TomarMarco, SinMarcos, SinPrograma, Alta, En, Pasa, hilos
    <3> QED BY <1>1, <3>1 DEF CopiaEntera, PasosDeSuspension
  <2>5. CASE Reanuda(p)
    <3>1. pc'[p] \in {"devolviendo", "enlazandoHueco", "olvidando", "acepta"}
      BY <1>1, <2>5 DEF Reanuda, CopiarAMarcos, DevolverHueco, EnlazarHueco, OlvidarRegistro, Pasa
    <3> QED BY <3>1 DEF PasosDeSuspension
  <2>6. CASE Suspende(p)
    <3>1. pc[p] \in PasosDeSuspension /\ UNCHANGED <<pedido, buffer>>
      BY <2>6 DEF Suspende, UbicarEnHueco, UbicarAlFinal, EscribirEnSwap, Registrar, EnlazarRegistro, En,
         PasosDeSuspension
    <3> QED BY <1>1, <3>1 DEF CopiaEntera
  <2>7. CASE LiberarMarco(p) \/ TablaDestruida(p) \/ EscribirPagina(p)
    <3>1. UNCHANGED <<pedido, buffer>> /\ (pc'[p] = pc[p] \/ pc'[p] \in {"rechaza", "confirma"})
      BY <1>1, <2>7 DEF LiberarMarco, TablaDestruida, EscribirPagina, Pasa, hilos
    <3> QED BY <1>1, <3>1 DEF CopiaEntera, PasosDeSuspension
  <2> QED BY <2>1, <2>2, <2>3, <2>4, <2>5, <2>6, <2>7 DEF Paso, Pide, Termina
<1>4. \A q \in Procs : Entera(q)'
  BY <1>2, <1>3
<1> QED BY <1>4 DEF CopiaEntera

\* Records lie in the file, with the size of their process.
LEMMA RegistrosDentro ==
    ASSUME IInvRegistros, NEW p \in Procs, Paso(p), NEW j \in DOMAIN enSwap'
    PROVE  Fin(enSwap'[j]) <= Len(archivo') /\ enSwap'[j].tam = Paginas[enSwap'[j].pid]
<1>1. Len(archivo') \in Nat /\ Len(archivo) \in Nat /\ Len(archivo) <= Len(archivo')
  BY ElArchivoCrece
<1>2. CASE Anota(p) /\ enSwap'[j] = Nuevo(p)
  <2>1. pc[p] = "enlazandoRegistro" /\ archivo' = archivo /\ Nuevo(p) \in Registro
    BY <1>2 DEF Anota, EnlazarRegistro, En
  <2>2. lugar[p] + Len(buffer[p]) <= Len(archivo) /\ Len(buffer[p]) = Paginas[p]
    BY <2>1 DEF IInvRegistros, DentroDelArchivo, CopiaEntera, PasosDeSuspension
  <2>3. Nuevo(p).pid = p /\ Nuevo(p).tam = Len(buffer[p]) /\ Fin(Nuevo(p)) = lugar[p] + Len(buffer[p])
    BY DEF Nuevo, Fin
  <2> QED BY <1>2, <2>1, <2>2, <2>3
<1>3. ASSUME NEW k \in DOMAIN enSwap, enSwap'[j] = enSwap[k]
      PROVE  Fin(enSwap'[j]) <= Len(archivo') /\ enSwap'[j].tam = Paginas[enSwap'[j].pid]
  <2>1. Fin(enSwap[k]) <= Len(archivo) /\ enSwap[k].tam = Paginas[enSwap[k].pid]
    BY DEF IInvRegistros, DentroDelArchivo
  <2>2. enSwap[k] \in Registro
    BY DEF IInvRegistros, TypeOK
  <2>3. Fin(enSwap[k]) \in Nat
    <3>1. enSwap[k].offset \in Nat /\ enSwap[k].tam \in Nat /\ Fin(enSwap[k]) = enSwap[k].offset + enSwap[k].tam
      BY <2>2, CampoDeRegistro
    <3> QED BY <3>1
  <2> QED BY <1>1, <1>3, <2>1, <2>3
<1> QED BY <1>2, <1>3, RegistroNuevoOViejo DEF Paso

\* Holes lie in the file.
LEMMA HuecosDentro ==
    ASSUME IInvRegistros, NEW p \in Procs, Paso(p), NEW j \in DOMAIN huecos'
    PROVE  Fin(huecos'[j]) <= Len(archivo')
<1>1. Len(archivo') \in Nat /\ Len(archivo) \in Nat /\ Len(archivo) <= Len(archivo')
  BY ElArchivoCrece
<1>2. huecos \in Seq(Hueco) /\ enSwap \in Seq(Registro) /\ DentroDelArchivo
      /\ buffer[p] \in Seq(Datos)
  BY DEF IInvRegistros, TypeOK
<1>3. ASSUME NEW k \in DOMAIN huecos, huecos'[j] = huecos[k] PROVE Fin(huecos'[j]) <= Len(archivo')
  <2>1. huecos[k] \in Hueco /\ Fin(huecos[k]) <= Len(archivo)
    BY <1>2 DEF DentroDelArchivo
  <2>2. Fin(huecos[k]) \in Nat
    <3>1. huecos[k].offset \in Nat /\ huecos[k].tam \in Nat /\ Fin(huecos[k]) = huecos[k].offset + huecos[k].tam
      BY <2>1, CampoDeHueco
    <3> QED BY <3>1
  <2> QED BY <1>1, <1>3, <2>1, <2>2
<1>4. ASSUME NEW i \in DOMAIN enSwap, Devuelve(p, i) PROVE Fin(huecos'[j]) <= Len(archivo')
  <2> DEFINE h == [offset |-> enSwap[i].offset, tam |-> enSwap[i].tam]
  <2>1. enSwap[i] \in Registro /\ Fin(enSwap[i]) <= Len(archivo)
    BY <1>2 DEF DentroDelArchivo
  <2>2. Fin(h) = Fin(enSwap[i])
    BY DEF Fin
  <2>3. huecos' = Append(huecos, h) /\ h \in Hueco
    BY <1>4 DEF Devuelve
  <2>4. Fin(enSwap[i]) \in Nat
    <3>1. enSwap[i].offset \in Nat /\ enSwap[i].tam \in Nat /\ Fin(enSwap[i]) = enSwap[i].offset + enSwap[i].tam
      BY <2>1, CampoDeRegistro
    <3> QED BY <3>1
  <2> HIDE DEF h
  <2>5. huecos'[j] = h \/ \E k \in DOMAIN huecos : huecos'[j] = huecos[k]
    BY <1>2, <2>3
  <2> QED BY <1>1, <1>3, <2>1, <2>2, <2>4, <2>5
<1>5. ASSUME NEW i \in 1 .. Len(huecos), Achica(p, i) PROVE Fin(huecos'[j]) <= Len(archivo')
  <2> DEFINE n == Len(buffer[p])
             h == [offset |-> huecos[i].offset + n, tam |-> huecos[i].tam - n]
  <2>1. huecos[i] \in Hueco /\ Fin(huecos[i]) <= Len(archivo) /\ i \in DOMAIN huecos
    BY <1>2 DEF DentroDelArchivo
  <2>2. huecos[i].offset \in Nat /\ huecos[i].tam \in Nat /\ Fin(huecos[i]) = huecos[i].offset + huecos[i].tam
    BY <2>1, CampoDeHueco
  <2>3. n \in Nat /\ huecos' = [huecos EXCEPT ![i] = h]
    BY <1>2, <1>5 DEF Achica
  <2>4. Fin(h) = (huecos[i].offset + n) + (huecos[i].tam - n)
    BY DEF Fin
  <2> HIDE DEF n
  <2>5. Fin(h) = Fin(huecos[i])
    BY <2>2, <2>3, <2>4
  <2> HIDE DEF h
  <2>6. huecos'[j] = h \/ \E k \in DOMAIN huecos : huecos'[j] = huecos[k]
    BY <1>2, <2>3
  <2> QED BY <1>1, <1>3, <2>1, <2>2, <2>5, <2>6
<1>6. ASSUME NEW i \in 1 .. Len(huecos), Agota(p, i) PROVE Fin(huecos'[j]) <= Len(archivo')
  <2>1. EsQuita(Hueco, huecos, i, huecos')
    BY <1>6 DEF Agota
  <2>2. j \in 1 .. Len(huecos')
    BY <2>1 DEF EsQuita
  <2>3. PICK k \in 1 .. Len(huecos) : huecos'[j] = huecos[k]
    <3>1. RestoDe(huecos, i, huecos')
      BY <1>2, <2>1, QuedaElResto
    <3> QED BY <3>1, <2>2 DEF RestoDe
  <2>4. k \in DOMAIN huecos
    BY <1>2
  <2> QED BY <1>3, <2>3, <2>4
<1>7. CASE huecos' = huecos
  BY <1>3, <1>7
<1> QED BY <1>4, <1>5, <1>6, <1>7, HuecosTrasPaso

\* A place to write to starts in the file or at its end, and once written lies in it.
LEMMA LugarDentro ==
    ASSUME IInvRegistros, NEW p \in Procs, Paso(p)
    PROVE  /\ \A q \in Procs : pc'[q] = "grabando" => lugar'[q] <= Len(archivo')
           /\ \A q \in Procs : pc'[q] \in {"registrando", "enlazandoRegistro"}
                                  => lugar'[q] + Len(buffer'[q]) <= Len(archivo')
<1>1. Len(archivo') \in Nat /\ Len(archivo) \in Nat /\ Len(archivo) <= Len(archivo')
  BY ElArchivoCrece
<1>2. /\ Control /\ huecos \in Seq(Hueco) /\ DentroDelArchivo
      /\ \A q \in Procs : lugar[q] \in Nat /\ buffer[q] \in Seq(Datos)
  BY ControlVale DEF IInvRegistros, TypeOK
<1>3. \A q \in Procs : Len(buffer[q]) \in Nat
  BY <1>2
<1>4. ASSUME NEW q \in Procs \ {p}
      PROVE  /\ pc'[q] = "grabando" => lugar'[q] <= Len(archivo')
             /\ pc'[q] \in {"registrando", "enlazandoRegistro"} => lugar'[q] + Len(buffer'[q]) <= Len(archivo')
  <2>1. pc'[q] = pc[q] /\ lugar'[q] = lugar[q] /\ buffer'[q] = buffer[q]
    BY <1>2, LosDemas, TiposDeCopia, TiposDeLugar
  <2>2. /\ pc[q] = "grabando" => lugar[q] <= Len(archivo)
        /\ pc[q] \in {"registrando", "enlazandoRegistro"} => lugar[q] + Len(buffer[q]) <= Len(archivo)
    BY <1>2 DEF DentroDelArchivo
  <2>3. lugar[q] \in Nat /\ Len(buffer[q]) \in Nat
    BY <1>2, <1>3
  <2> QED BY <1>1, <2>1, <2>2, <2>3
<1>5. /\ pc'[p] = "grabando" => lugar'[p] <= Len(archivo')
      /\ pc'[p] \in {"registrando", "enlazandoRegistro"} => lugar'[p] + Len(buffer'[p]) <= Len(archivo')
  <2> USE <1>2 DEF Control, TiposDeControl
  <2>1. CASE UbicarEnHueco(p)
    <3>1. PICK i \in DOMAIN huecos : lugar' = [lugar EXCEPT ![p] = huecos[i].offset]
      BY <2>1 DEF UbicarEnHueco, HuecosAptos
    <3>2. huecos[i].offset \in Nat /\ huecos[i].tam \in Nat /\ Fin(huecos[i]) = huecos[i].offset + huecos[i].tam
      <4>1. huecos[i] \in Hueco
        OBVIOUS
      <4> QED BY <4>1, CampoDeHueco
    <3>3. Fin(huecos[i]) <= Len(archivo)
      BY DEF DentroDelArchivo
    <3>4. pc'[p] = "grabando" /\ lugar'[p] = huecos[i].offset
      <4>1. lugar \in [Procs -> Nat]
        BY DEF IInvRegistros, TypeOK
      <4> QED BY <2>1, <3>1, <4>1 DEF UbicarEnHueco, Pasa
    <3> QED BY <1>1, <3>2, <3>3, <3>4
  <2>2. CASE UbicarAlFinal(p)
    <3>1. lugar \in [Procs -> Nat]
      BY DEF IInvRegistros, TypeOK
    <3>2. pc'[p] = "grabando" /\ lugar'[p] = Len(archivo)
      BY <2>2, <3>1 DEF UbicarAlFinal, Pasa
    <3> QED BY <1>1, <3>2
  <2>3. CASE EscribirEnSwap(p)
    <3>1. pc'[p] = "registrando" /\ UNCHANGED <<lugar, buffer>>
      BY <2>3 DEF EscribirEnSwap, Pasa
    <3>2. pc[p] = "grabando"
      BY <2>3 DEF EscribirEnSwap, En
    <3>3. Graba(p)
      BY <2>3, ArchivoTrasPaso
    <3>4. Len(archivo') = Mayor(Len(archivo), lugar[p] + Len(buffer[p])) /\ lugar[p] \in Nat
          /\ Len(buffer[p]) \in Nat
      BY <1>3, <3>3 DEF Graba
    <3>5. lugar[p] + Len(buffer[p]) <= Len(archivo')
      BY <1>1, <3>4 DEF Mayor
    <3> QED BY <3>1, <3>5
  <2>4. CASE Registrar(p)
    <3>1. pc'[p] = "enlazandoRegistro" /\ pc[p] = "registrando" /\ UNCHANGED <<lugar, buffer, archivo>>
      BY <2>4 DEF Registrar, Pasa, En, swap
    <3> QED BY <3>1 DEF DentroDelArchivo
  <2>5. CASE ~UbicarEnHueco(p) /\ ~UbicarAlFinal(p) /\ ~EscribirEnSwap(p) /\ ~Registrar(p)
    <3>1. CASE Pide(p)
      BY <3>1 DEF Pide, PedirInicio, PedirReanudacion, PedirReanudacionSinRegistro, PedirSuspension,
         PedirFin, Recibir, UnoPorProceso, Pasa
    <3>2. CASE Inicializa(p)
      BY <3>2 DEF Inicializa, Contar, TomarMarco, SinMarcos, SinPrograma, Alta, En, Pasa, hilos
    <3>3. CASE Reanuda(p)
      BY <3>3 DEF Reanuda, CopiarAMarcos, DevolverHueco, EnlazarHueco, OlvidarRegistro, Pasa
    <3>4. CASE EnlazarRegistro(p)
      BY <3>4 DEF EnlazarRegistro, Pasa
    <3>5. CASE Termina(p)
      BY <3>5 DEF Termina, LiberarMarco, TablaDestruida, Contestar, En, Pasa, hilos
    <3>6. CASE EscribirPagina(p)
      BY <3>6 DEF EscribirPagina, hilos, HiloConPedido
    <3> QED BY <2>5, <3>1, <3>2, <3>3, <3>4, <3>5, <3>6 DEF Paso, Suspende
  <2> QED BY <2>1, <2>2, <2>3, <2>4, <2>5
<1> QED BY <1>4, <1>5

\* So no area goes past the end of the file.
LEMMA SigueDentro ==
    ASSUME IInvRegistros, NEW p \in Procs, Paso(p)
    PROVE  DentroDelArchivo'
  BY RegistrosDentro, HuecosDentro, LugarDentro DEF DentroDelArchivo

-----------------------------------------------------------------------------
\* At first nobody is in memory, in the swap file or at work.
THEOREM IniciaRegistros == Init => IInvRegistros
<1> SUFFICES ASSUME Init PROVE IInvRegistros
  OBVIOUS
<1>1. IInv
  BY IniciaInvariante
<1>2. contenido \in [NroMarcos -> Datos]
  BY DEF Init, Datos
<1>3. TypeOK
  <2>1. TiposDeMarcos
    BY <1>1 DEF IInv
  <2>2. buffer \in [Procs -> Seq(Datos)] /\ escrito \in [Procs -> Seq(Datos)] /\ archivo \in Seq(Datos)
        /\ enSwap \in Seq(Registro) /\ huecos \in Seq(Hueco)
    BY DEF Init
  <2> QED BY <1>2, <2>1, <2>2, MemoriaAssumption DEF Init, TypeOK, TiposDeMarcos
<1>4. PasoSegunPedido /\ PedidoSegunVida /\ UnoALaVez /\ PresenteSegunPaso
  BY DEF Init, PasoSegunPedido, PedidoSegunVida, UnoALaVez, PresenteSegunPaso, PasosDeReanudacion,
     PasosDeSuspension
<1>5. RegistroUnico /\ SinRegistroResidente /\ ReanudaConRegistro
  BY DEF Init, RegistroUnico, SinRegistroResidente, ReanudaConRegistro, PasosDeReanudacion
<1>6. CopiaEntera /\ DentroDelArchivo
  BY DEF Init, CopiaEntera, DentroDelArchivo, PasosDeSuspension
<1> QED BY <1>1, <1>3, <1>4, <1>5, <1>6 DEF IInvRegistros

\* Every step of every thread keeps the invariant, whether or not list operations
\* overlap.
THEOREM ConservaRegistros == IInvRegistros /\ [Next]_vars => IInvRegistros'
<1> SUFFICES ASSUME IInvRegistros, [Next]_vars PROVE IInvRegistros'
  OBVIOUS
<1>1. ASSUME NEW p \in Procs, Paso(p) PROVE IInvRegistros'
  <2>1. Control
    BY ControlVale
  <2>2. IInv' /\ TypeOK'
    BY <1>1, TiposSiguen
  <2>3. TiposDeControl'
    BY <2>2, MemoriaAssumption DEF TypeOK, TiposDeControl, Vidas
  <2>4. PasoSegunPedido' /\ PedidoSegunVida' /\ UnoALaVez'
    BY <1>1, <2>1, <2>3, ControlPide, ControlTrabaja, ControlTermina DEF Paso
  <2>5. PresenteSegunPaso'
    BY <1>1, <2>1, PresenciaPide, PresenciaTrabaja, PresenciaTermina DEF Paso
  <2>6. RegistroUnico' /\ SinRegistroResidente' /\ ReanudaConRegistro'
    BY <1>1, RegistrosEnRegla, ReanudacionEnRegla
  <2>7. CopiaEntera' /\ DentroDelArchivo'
    BY <1>1, CopiaSigueEntera, SigueDentro
  <2> QED BY <2>2, <2>4, <2>5, <2>6, <2>7 DEF IInvRegistros
<1>2. CASE UNCHANGED vars
  <2>1. IInv'
    BY <1>2, ConservaInvariante DEF IInvRegistros
  <2>2. UNCHANGED <<ocupado, contenido, tabla, enMemoria, enSwap, huecos, archivo, pedido, pc, buffer,
                    lugar, ultimo, vida, escrito, escrituras, suspensiones>>
    BY <1>2 DEF vars, fisica, swap, hilos, cuenta
  <2>3. TypeOK'
    BY <2>2 DEF IInvRegistros, TypeOK
  <2>4. PasoSegunPedido' /\ PedidoSegunVida' /\ UnoALaVez' /\ PresenteSegunPaso'
    BY <2>2 DEF IInvRegistros, PasoSegunPedido, PedidoSegunVida, UnoALaVez, PresenteSegunPaso, Entra
  <2>5. RegistroUnico' /\ SinRegistroResidente' /\ ReanudaConRegistro'
    BY <2>2 DEF IInvRegistros, RegistroUnico, SinRegistroResidente, PuedeTenerRegistro, ReanudaConRegistro,
       TieneRegistro
  <2>6. CopiaEntera' /\ DentroDelArchivo'
    BY <2>2 DEF IInvRegistros, CopiaEntera, DentroDelArchivo, Fin
  <2> QED BY <2>1, <2>3, <2>4, <2>5, <2>6 DEF IInvRegistros
<1> QED BY <1>1, <1>2 DEF Next, Paso

\* The invariant of threads, residents, records and copies holds in every
\* reachable state, whether or not list operations overlap.
THEOREM InvarianteDeRegistros == Spec => []IInvRegistros
<1> QED BY IniciaRegistros, ConservaRegistros, PTL DEF Spec

\* Every variable keeps its type, whether or not list operations overlap: frame
\* numbers stay in memory, no hole is empty (buscar_espacio_libre_swap), and what is
\* copied to frames or read from the file is always there.
THEOREM TiposCorrectos == Spec => []TypeOK
<1>1. IInvRegistros => TypeOK
  BY DEF IInvRegistros
<1> QED BY <1>1, InvarianteDeRegistros, PTL

-----------------------------------------------------------------------------
(* When list operations do not overlap: a list_add loses nothing.          *)

\* Nobody changes a list between the two halves of a list_add to it.
LEMMA UltimoSigueVigente ==
    ASSUME Solapan = FALSE, IInvRegistros, UltimoVigente, NEW p \in Procs, Paso(p)
    PROVE  UltimoVigente'
<1>1. Control /\ UnoALaVez /\ PasoSegunPedido /\ ultimo \in [Procs -> Nat]
  BY ControlVale DEF IInvRegistros, TypeOK
<1> USE <1>1 DEF Control, TiposDeControl
<1>2. ASSUME NEW q \in Procs, pc'[q] = "enlazandoHueco" PROVE ultimo'[q] = Ultimo(huecos')
  <2>1. CASE q = p
    <3>1. DevolverHueco(p)
      <4>1. CASE Pide(p)
        BY <1>2, <2>1, <4>1 DEF Pide, PedirInicio, PedirReanudacion, PedirReanudacionSinRegistro,
           PedirSuspension, PedirFin, Recibir, UnoPorProceso, Pasa
      <4>2. CASE Inicializa(p)
        BY <1>2, <2>1, <4>2 DEF Inicializa, Contar, TomarMarco, SinMarcos, SinPrograma, Alta, En, Pasa, hilos
      <4>3. CASE Reanuda(p)
        BY <1>2, <2>1, <4>3 DEF Reanuda, CopiarAMarcos, DevolverHueco, EnlazarHueco, OlvidarRegistro, Pasa
      <4>4. CASE Suspende(p)
        BY <1>2, <2>1, <4>4 DEF Suspende, UbicarEnHueco, UbicarAlFinal, EscribirEnSwap, Registrar,
           EnlazarRegistro, Pasa
      <4>5. CASE Termina(p)
        BY <1>2, <2>1, <4>5 DEF Termina, LiberarMarco, TablaDestruida, Contestar, En, Pasa, hilos
      <4>6. CASE EscribirPagina(p)
        BY <1>2, <2>1, <4>6 DEF EscribirPagina, hilos, HiloConPedido
      <4> QED BY <4>1, <4>2, <4>3, <4>4, <4>5, <4>6 DEF Paso
    <3>2. huecos' = huecos /\ ultimo'[p] = Ultimo(huecos)
      BY <3>1 DEF DevolverHueco, swap
    <3> QED BY <2>1, <3>2
  <2>2. CASE q # p
    <3>1. pc[q] = "enlazandoHueco" /\ ultimo'[q] = ultimo[q]
      BY <1>2, <2>2, LosDemas, TiposDeLugar
    <3>2. ~UbicarEnHueco(p)
      BY <3>1 DEF UbicarEnHueco, Quieta
    <3>3. ~EnlazarHueco(p)
      <4> SUFFICES ASSUME EnlazarHueco(p) PROVE FALSE
        OBVIOUS
      <4>1. pc[p] = "enlazandoHueco"
        BY DEF EnlazarHueco, En
      <4>2. pedido[p] = "INICIALIZAR_PROCESO_SUSPENDIDO" /\ pedido[q] = "INICIALIZAR_PROCESO_SUSPENDIDO"
        BY <3>1, <4>1 DEF PasoSegunPedido, PasosDeReanudacion
      <4> QED BY <2>2, <4>2 DEF UnoALaVez
    <3>4. huecos' = huecos
      BY <3>2, <3>3, HuecosTrasPaso DEF Devuelve, Achica, Agota
    <3> QED BY <3>1, <3>4 DEF UltimoVigente
  <2> QED BY <2>1, <2>2
<1>3. ASSUME NEW q \in Procs, pc'[q] = "enlazandoRegistro" PROVE ultimo'[q] = Ultimo(enSwap')
  <2>1. CASE q = p
    <3>1. Registrar(p)
      <4>1. CASE Pide(p)
        BY <1>3, <2>1, <4>1 DEF Pide, PedirInicio, PedirReanudacion, PedirReanudacionSinRegistro,
           PedirSuspension, PedirFin, Recibir, UnoPorProceso, Pasa
      <4>2. CASE Inicializa(p)
        BY <1>3, <2>1, <4>2 DEF Inicializa, Contar, TomarMarco, SinMarcos, SinPrograma, Alta, En, Pasa, hilos
      <4>3. CASE Reanuda(p)
        BY <1>3, <2>1, <4>3 DEF Reanuda, CopiarAMarcos, DevolverHueco, EnlazarHueco, OlvidarRegistro, Pasa
      <4>4. CASE Suspende(p)
        BY <1>3, <2>1, <4>4 DEF Suspende, UbicarEnHueco, UbicarAlFinal, EscribirEnSwap, Registrar,
           EnlazarRegistro, Pasa
      <4>5. CASE Termina(p)
        BY <1>3, <2>1, <4>5 DEF Termina, LiberarMarco, TablaDestruida, Contestar, En, Pasa, hilos
      <4>6. CASE EscribirPagina(p)
        BY <1>3, <2>1, <4>6 DEF EscribirPagina, hilos, HiloConPedido
      <4> QED BY <4>1, <4>2, <4>3, <4>4, <4>5, <4>6 DEF Paso
    <3>2. enSwap' = enSwap /\ ultimo'[p] = Ultimo(enSwap)
      BY <3>1 DEF Registrar, swap
    <3> QED BY <2>1, <3>2
  <2>2. CASE q # p
    <3>1. pc[q] = "enlazandoRegistro" /\ ultimo'[q] = ultimo[q]
      BY <1>3, <2>2, LosDemas, TiposDeLugar
    <3>2. ~OlvidarRegistro(p)
      BY <3>1 DEF OlvidarRegistro, Quieta
    <3>3. ~EnlazarRegistro(p)
      <4> SUFFICES ASSUME EnlazarRegistro(p) PROVE FALSE
        OBVIOUS
      <4>1. pc[p] = "enlazandoRegistro"
        BY DEF EnlazarRegistro, En
      <4>2. pedido[p] = "SUSPENDER_PROCESO" /\ pedido[q] = "SUSPENDER_PROCESO"
        BY <3>1, <4>1 DEF PasoSegunPedido, PasosDeSuspension
      <4> QED BY <2>2, <4>2 DEF UnoALaVez
    <3>4. enSwap' = enSwap
      BY <3>2, <3>3, RegistrosTras DEF Anota, Borra, Paso
    <3> QED BY <3>1, <3>4 DEF UltimoVigente
  <2> QED BY <2>1, <2>2
<1> QED BY <1>2, <1>3 DEF UltimoVigente

\* Linking after the last node appends.
LEMMA EnlazarAppend ==
    ASSUME NEW S, NEW lista \in Seq(S), NEW r
    PROVE  Enlazar(lista, Ultimo(lista), r) = Append(lista, r)
<1>1. CASE lista = <<>>
  BY <1>1 DEF Enlazar, Ultimo
<1>2. CASE lista # <<>>
  <2>1. Len(lista) \in DOMAIN lista /\ lista[Len(lista)] = Last(lista)
    BY <1>2 DEF Last
  <2>2. \E i \in DOMAIN lista : Fin(lista[i]) = Ultimo(lista)
    BY <1>2, <2>1 DEF Ultimo
  <2> QED BY <2>2 DEF Enlazar
<1> QED BY <1>1, <1>2

\* So the area of a record that comes back does reach huecos_swap.
LEMMA HuecoDevuelto ==
    ASSUME IInvRegistros, UltimoVigente, NEW p \in Procs, Paso(p)
    PROVE  \/ huecos' = huecos /\ ~UbicarEnHueco(p) /\ ~EnlazarHueco(p)
           \/ \E i \in DOMAIN enSwap : Devuelve(p, i)
           \/ \E i \in 1 .. Len(huecos) : Achica(p, i) \/ Agota(p, i)
<1>1. CASE EnlazarHueco(p)
  <2> DEFINE r == [offset |-> RegistroDe(p).offset, tam |-> RegistroDe(p).tam]
  <2>1. pc[p] = "enlazandoHueco" /\ huecos \in Seq(Hueco)
    BY <1>1 DEF EnlazarHueco, En, IInvRegistros, TypeOK
  <2>2. huecos' = Append(huecos, r)
    BY <1>1, <2>1, EnlazarAppend DEF EnlazarHueco, UltimoVigente
  <2> HIDE DEF r
  <2>3. huecos' # huecos
    <3>1. Len(huecos') = Len(huecos) + 1 /\ Len(huecos) \in Nat
      BY <2>1, <2>2
    <3> QED BY <3>1
  <2> QED BY <2>3, HuecosTrasPaso
<1> QED BY <1>1, HuecosTrasPaso

\* And a suspension does leave its record in procesos_swap.
LEMMA RegistroAnotado ==
    ASSUME IInvRegistros, UltimoVigente, NEW p \in Procs, Paso(p)
    PROVE  \/ enSwap' = enSwap /\ ~OlvidarRegistro(p) /\ ~EnlazarRegistro(p)
           \/ Anota(p)
           \/ \E i \in 1 .. Len(enSwap) : Borra(p, i)
<1>1. CASE EnlazarRegistro(p)
  <2>1. pc[p] = "enlazandoRegistro" /\ enSwap \in Seq(Registro)
    BY <1>1 DEF EnlazarRegistro, En, IInvRegistros, TypeOK
  <2>2. enSwap' = Append(enSwap, Nuevo(p))
    BY <1>1, <2>1, EnlazarAppend DEF EnlazarRegistro, UltimoVigente, Nuevo
  <2>3. enSwap' # enSwap
    <3>1. Len(enSwap') = Len(enSwap) + 1 /\ Len(enSwap) \in Nat
      BY <2>1, <2>2
    <3> QED BY <3>1
  <2> QED BY <2>3, RegistrosTras DEF Paso
<1> QED BY <1>1, RegistrosTras DEF Paso

(* Which areas are in use, after each kind of step.                        *)

\* The registered areas change only when a record comes, goes, or has its hole linked.
LEMMA RegistradasIgual ==
    ASSUME IInvRegistros, NEW p \in Procs, Paso(p), enSwap' = enSwap, ~OlvidarRegistro(p), ~EnlazarHueco(p)
    PROVE  AreasRegistradas' = AreasRegistradas
<1>1. Control /\ enSwap \in Seq(Registro)
  BY ControlVale DEF IInvRegistros, TypeOK
<1>2. pc'[p] = "olvidando" <=> pc[p] = "olvidando"
  <2> USE <1>1 DEF Control, TiposDeControl
  <2>1. CASE Pide(p)
    BY <2>1 DEF Pide, PedirInicio, PedirReanudacion, PedirReanudacionSinRegistro,
       PedirSuspension, PedirFin, Recibir, UnoPorProceso, Pasa, HiloConPedido
  <2>2. CASE Inicializa(p)
    BY <2>2 DEF Inicializa, Contar, TomarMarco, SinMarcos, SinPrograma, Alta, En, Pasa, hilos
  <2>3. CASE Reanuda(p)
    BY <2>3 DEF Reanuda, CopiarAMarcos, DevolverHueco, En, Pasa
  <2>4. CASE Suspende(p)
    BY <2>4 DEF Suspende, UbicarEnHueco, UbicarAlFinal, EscribirEnSwap, Registrar, EnlazarRegistro, En, Pasa
  <2>5. CASE Termina(p)
    BY <2>5 DEF Termina, LiberarMarco, TablaDestruida, Contestar, En, Pasa, hilos
  <2>6. CASE EscribirPagina(p)
    BY <2>6 DEF EscribirPagina, hilos
  <2> QED BY <2>1, <2>2, <2>3, <2>4, <2>5, <2>6 DEF Paso
<1>3. \A i \in DOMAIN enSwap : enSwap[i].pid \in Procs
  <2>1. \A i \in DOMAIN enSwap : enSwap[i] \in Registro
    BY <1>1
  <2> QED BY <2>1, CampoDeRegistro
<1>4. \A q \in Procs : pc'[q] = "olvidando" <=> pc[q] = "olvidando"
  BY <1>1, <1>2, LosDemas
<1> QED BY <1>3, <1>4 DEF AreasRegistradas

\* The place a suspension writes to stays its own until its record is linked.
LEMMA GrabacionIgual ==
    ASSUME IInvRegistros, NEW p \in Procs, Paso(p), ~UbicarEnHueco(p), ~UbicarAlFinal(p), ~EnlazarRegistro(p)
    PROVE  EnGrabacion' = EnGrabacion /\ \A q \in EnGrabacion : lugar'[q] = lugar[q] /\ buffer'[q] = buffer[q]
<1>1. Control
  BY ControlVale
<1> DEFINE G == {"grabando", "registrando", "enlazandoRegistro"}
<1>2. (pc'[p] \in G <=> pc[p] \in G) /\ (pc[p] \in G => UNCHANGED <<lugar, buffer>>)
  <2> USE <1>1 DEF Control, TiposDeControl
  <2>1. CASE Pide(p)
    BY <2>1 DEF Pide, PedirInicio, PedirReanudacion, PedirReanudacionSinRegistro,
       PedirSuspension, PedirFin, Recibir, UnoPorProceso, Pasa, HiloConPedido
  <2>2. CASE Inicializa(p)
    BY <2>2 DEF Inicializa, Contar, TomarMarco, SinMarcos, SinPrograma, Alta, En, Pasa, hilos
  <2>3. CASE Reanuda(p)
    BY <2>3 DEF Reanuda, CopiarAMarcos, DevolverHueco, EnlazarHueco, OlvidarRegistro, En, Pasa
  <2>4. CASE Suspende(p)
    BY <2>4 DEF Suspende, EscribirEnSwap, Registrar, En, Pasa
  <2>5. CASE Termina(p)
    BY <2>5 DEF Termina, LiberarMarco, TablaDestruida, Contestar, En, Pasa, hilos
  <2>6. CASE EscribirPagina(p)
    BY <2>6 DEF EscribirPagina, hilos, HiloConPedido
  <2> QED BY <2>1, <2>2, <2>3, <2>4, <2>5, <2>6 DEF Paso
<1>3. \A q \in Procs \ {p} : pc'[q] = pc[q] /\ lugar'[q] = lugar[q] /\ buffer'[q] = buffer[q]
  BY <1>1, LosDemas, TiposDeCopia, TiposDeLugar
<1> QED BY <1>2, <1>3 DEF EnGrabacion

\* Only one suspension is in flight.
LEMMA UnaGrabacion ==
    ASSUME IInvRegistros, NEW p \in Procs, pc[p] \in PasosDeSuspension
    PROVE  EnGrabacion \subseteq {p}
<1> SUFFICES ASSUME NEW q \in EnGrabacion PROVE q = p
  OBVIOUS
<1>1. q \in Procs /\ pc[q] \in PasosDeSuspension
  BY DEF EnGrabacion, PasosDeSuspension
<1> QED BY <1>1 DEF IInvRegistros, PasoSegunPedido, UnoALaVez

-----------------------------------------------------------------------------
(* The file stays shared out.                                              *)

\* Offsets and sizes are numbers, and areas lie in the file.
LEMMA TiposDeAreas ==
    ASSUME IInvRegistros
    PROVE  /\ enSwap \in Seq(Registro) /\ huecos \in Seq(Hueco) /\ Len(archivo) \in Nat
           /\ \A i \in DOMAIN enSwap : /\ enSwap[i].pid \in Procs
                                       /\ enSwap[i].offset \in Nat /\ enSwap[i].tam \in Nat \ {0}
                                       /\ enSwap[i].offset + enSwap[i].tam <= Len(archivo)
           /\ \A i \in DOMAIN huecos : /\ huecos[i].offset \in Nat /\ huecos[i].tam \in Nat \ {0}
                                       /\ huecos[i].offset + huecos[i].tam <= Len(archivo)
           /\ \A p \in Procs : lugar[p] \in Nat /\ Len(buffer[p]) \in Nat
<1>1. enSwap \in Seq(Registro) /\ huecos \in Seq(Hueco) /\ archivo \in Seq(Datos) /\ DentroDelArchivo
  BY DEF IInvRegistros, TypeOK
<1>2. ASSUME NEW i \in DOMAIN enSwap
      PROVE  /\ enSwap[i].pid \in Procs /\ enSwap[i].offset \in Nat /\ enSwap[i].tam \in Nat \ {0}
             /\ enSwap[i].offset + enSwap[i].tam <= Len(archivo)
  <2>1. enSwap[i] \in Registro
    BY <1>1
  <2> QED BY <1>1, <2>1, CampoDeRegistro DEF DentroDelArchivo
<1>3. ASSUME NEW i \in DOMAIN huecos
      PROVE  /\ huecos[i].offset \in Nat /\ huecos[i].tam \in Nat \ {0}
             /\ huecos[i].offset + huecos[i].tam <= Len(archivo)
  <2>1. huecos[i] \in Hueco
    BY <1>1
  <2> QED BY <1>1, <2>1, CampoDeHueco DEF DentroDelArchivo
<1>4. \A p \in Procs : lugar[p] \in Nat /\ Len(buffer[p]) \in Nat
  <2>1. lugar \in [Procs -> Nat] /\ buffer \in [Procs -> Seq(Datos)]
    BY DEF IInvRegistros, TypeOK
  <2> QED BY <2>1
<1> QED BY <1>1, <1>2, <1>3, <1>4

\* A step that changes no area; the file may grow by what p writes.
LEMMA MismasAreas ==
    ASSUME IInvSwap, NEW p \in Procs, Paso(p), huecos' = huecos, enSwap' = enSwap,
           ~UbicarEnHueco(p), ~UbicarAlFinal(p), ~EnlazarHueco(p), ~OlvidarRegistro(p), ~EnlazarRegistro(p)
    PROVE  Repartido'
<1>1. IInvRegistros /\ Repartido
  BY DEF IInvSwap
<1>2. AreasRegistradas' = AreasRegistradas
  BY <1>1, RegistradasIgual
<1>3. EnGrabacion' = EnGrabacion /\ \A q \in EnGrabacion : lugar'[q] = lugar[q] /\ buffer'[q] = buffer[q]
  BY <1>1, GrabacionIgual
<1>4. RegistrosAparte' /\ HuecosAparte' /\ RegistrosYHuecosAparte'
  BY <1>1, <1>2 DEF Repartido, RegistrosAparte, HuecosAparte, RegistrosYHuecosAparte
<1>5. GrabacionAparte'
  BY <1>1, <1>2, <1>3 DEF Repartido, GrabacionAparte
<1>6. ASSUME NEW k, Cubierta(k) PROVE Cubierta(k)'
  BY <1>2, <1>3, <1>6 DEF Cubierta, Area, AreaDe
<1>7. ASSUME NEW k \in 0 .. Len(archivo') - 1 PROVE Cubierta(k)'
  <2>1. CASE k \in 0 .. Len(archivo) - 1
    BY <1>1, <1>6, <2>1 DEF Repartido, ArchivoCubierto
  <2>2. CASE k \notin 0 .. Len(archivo) - 1
    <3>1. Len(archivo') \in Nat /\ Len(archivo) \in Nat /\ lugar[p] \in Nat /\ Len(buffer[p]) \in Nat
      BY <1>1, ElArchivoCrece, TiposDeAreas
    <3>2. Len(archivo') # Len(archivo)
      BY <2>2
    <3>3. Graba(p)
      BY <1>1, <3>2, ArchivoTrasPaso
    <3>4. pc[p] = "grabando" /\ Len(archivo') = Mayor(Len(archivo), lugar[p] + Len(buffer[p]))
      BY <3>3 DEF Graba, EscribirEnSwap, En
    <3>5. lugar[p] <= Len(archivo) /\ p \in EnGrabacion
      BY <1>1, <3>4 DEF IInvRegistros, DentroDelArchivo, EnGrabacion
    <3>6. k \in AreaDe(p)
      BY <2>2, <3>1, <3>4, <3>5 DEF AreaDe, Mayor
    <3>7. Cubierta(k)
      BY <3>5, <3>6 DEF Cubierta
    <3> QED BY <1>6, <3>7
  <2> QED BY <2>1, <2>2
<1> QED BY <1>4, <1>5, <1>7 DEF Repartido, ArchivoCubierto

\* A place at the end of the file.
LEMMA RepartoUbicarAlFinal ==
    ASSUME IInvSwap, NEW p \in Procs, UbicarAlFinal(p)
    PROVE  Repartido'
<1>1. IInvRegistros /\ Repartido /\ Paso(p)
  BY DEF IInvSwap, Paso, Suspende
<1>2. pc[p] = "ubicando" /\ UNCHANGED <<enSwap, huecos, archivo, buffer>>
  BY DEF UbicarAlFinal, En, swap
<1>3. ~OlvidarRegistro(p) /\ ~EnlazarHueco(p)
  BY <1>2 DEF OlvidarRegistro, EnlazarHueco, En
<1>4. AreasRegistradas' = AreasRegistradas
  BY <1>1, <1>2, <1>3, RegistradasIgual
<1>5. EnGrabacion = {}
  <2>1. EnGrabacion \subseteq {p}
    BY <1>1, <1>2, UnaGrabacion DEF PasosDeSuspension
  <2> QED BY <1>2, <2>1 DEF EnGrabacion
<1>6. EnGrabacion' \subseteq {p} /\ lugar'[p] = Len(archivo)
  <2>1. lugar \in [Procs -> Nat] /\ pc \in [Procs -> Pasos]
    BY <1>1 DEF IInvRegistros, TypeOK
  <2>2. lugar'[p] = Len(archivo) /\ \A q \in Procs \ {p} : pc'[q] = pc[q]
    BY <2>1 DEF UbicarAlFinal, Pasa
  <2> QED BY <1>5, <2>2 DEF EnGrabacion
<1>7. RegistrosAparte' /\ HuecosAparte' /\ RegistrosYHuecosAparte'
  BY <1>1, <1>2, <1>4 DEF Repartido, RegistrosAparte, HuecosAparte, RegistrosYHuecosAparte
<1>8. GrabacionAparte'
  <2>1. \A i \in AreasRegistradas : enSwap[i].offset + enSwap[i].tam <= Len(archivo)
    BY <1>1, TiposDeAreas DEF AreasRegistradas
  <2>2. \A i \in DOMAIN huecos : huecos[i].offset + huecos[i].tam <= Len(archivo)
    BY <1>1, TiposDeAreas
  <2> QED BY <1>2, <1>4, <1>6, <2>1, <2>2 DEF GrabacionAparte, Aparte
<1>9. \A k : Cubierta(k) => Cubierta(k)'
  BY <1>2, <1>4, <1>5 DEF Cubierta, Area
<1> QED BY <1>1, <1>2, <1>7, <1>8, <1>9 DEF Repartido, ArchivoCubierto

\* list_add to procesos_swap: the place written becomes a record.
LEMMA RepartoAnota ==
    ASSUME IInvSwap, NEW p \in Procs, Paso(p), Anota(p)
    PROVE  Repartido'
<1>1. IInvRegistros /\ Repartido /\ enSwap \in Seq(Registro)
  BY DEF IInvSwap, IInvRegistros, TypeOK
<1> DEFINE n == Len(enSwap)
<1>2. /\ pc[p] = "enlazandoRegistro" /\ pc' = [pc EXCEPT ![p] = "soltando"]
      /\ UNCHANGED <<huecos, archivo, buffer, lugar>>
      /\ enSwap' = Append(enSwap, Nuevo(p)) /\ Nuevo(p) \in Registro
  BY DEF Anota, EnlazarRegistro, En, Pasa
<1>3. /\ DOMAIN enSwap = 1 .. n /\ DOMAIN enSwap' = 1 .. n + 1 /\ n \in Nat
      /\ enSwap'[n + 1] = Nuevo(p) /\ \A i \in 1 .. n : enSwap'[i] = enSwap[i]
  BY <1>1, <1>2
<1>4. Nuevo(p).pid = p /\ Nuevo(p).offset = lugar[p] /\ Nuevo(p).tam = Len(buffer[p])
  BY DEF Nuevo
<1>5. pc'[p] = "soltando" /\ \A q \in Procs \ {p} : pc'[q] = pc[q]
  BY <1>1, <1>2 DEF IInvRegistros, TypeOK
<1>6. p \in EnGrabacion /\ EnGrabacion' = {}
  <2>1. EnGrabacion \subseteq {p}
    BY <1>1, <1>2, UnaGrabacion DEF PasosDeSuspension
  <2>2. p \in EnGrabacion
    BY <1>2 DEF EnGrabacion
  <2> QED BY <1>5, <2>1, <2>2 DEF EnGrabacion
<1> HIDE DEF n
<1>7. AreasRegistradas' = AreasRegistradas \cup {n + 1} /\ AreasRegistradas \subseteq 1 .. n
  <2>1. \A i \in 1 .. n : enSwap[i].pid \in Procs
    BY <1>1, <1>3, TiposDeAreas
  <2>2. \A i \in 1 .. n : pc'[enSwap'[i].pid] # "olvidando" <=> pc[enSwap[i].pid] # "olvidando"
    BY <1>2, <1>3, <1>5, <2>1
  <2>3. n + 1 \in AreasRegistradas'
    BY <1>3, <1>4, <1>5 DEF AreasRegistradas
  <2> QED BY <1>3, <2>2, <2>3 DEF AreasRegistradas
<1>8. RegistrosAparte'
  <2> SUFFICES ASSUME NEW i \in AreasRegistradas', NEW j \in AreasRegistradas', i # j
               PROVE  Aparte(enSwap'[i].offset, enSwap'[i].tam, enSwap'[j].offset, enSwap'[j].tam)
    BY DEF RegistrosAparte
  <2>1. CASE i \in AreasRegistradas /\ j \in AreasRegistradas
    BY <1>1, <1>3, <1>7, <2>1 DEF Repartido, RegistrosAparte
  <2>2. \A k \in AreasRegistradas : Aparte(enSwap[k].offset, enSwap[k].tam, lugar[p], Len(buffer[p]))
    BY <1>1, <1>6 DEF Repartido, GrabacionAparte
  <2>3. \A k \in AreasRegistradas : Aparte(lugar[p], Len(buffer[p]), enSwap[k].offset, enSwap[k].tam)
    BY <2>2 DEF Aparte
  <2>4. CASE i \in AreasRegistradas /\ j = n + 1
    <3>1. enSwap'[i] = enSwap[i] /\ enSwap'[j] = Nuevo(p)
      BY <1>3, <1>7, <2>4
    <3> QED BY <1>4, <2>2, <2>4, <3>1
  <2>5. CASE i = n + 1 /\ j \in AreasRegistradas
    <3>1. enSwap'[j] = enSwap[j] /\ enSwap'[i] = Nuevo(p)
      BY <1>3, <1>7, <2>5
    <3> QED BY <1>4, <2>3, <2>5, <3>1
  <2> QED BY <1>7, <2>1, <2>4, <2>5
<1>9. HuecosAparte' /\ GrabacionAparte'
  BY <1>1, <1>2, <1>6 DEF Repartido, HuecosAparte, GrabacionAparte
<1>10. RegistrosYHuecosAparte'
  <2> SUFFICES ASSUME NEW i \in AreasRegistradas', NEW j \in DOMAIN huecos
               PROVE  Aparte(enSwap'[i].offset, enSwap'[i].tam, huecos[j].offset, huecos[j].tam)
    BY <1>2 DEF RegistrosYHuecosAparte
  <2>1. CASE i \in AreasRegistradas
    BY <1>1, <1>3, <1>7, <2>1 DEF Repartido, RegistrosYHuecosAparte
  <2>2. CASE i = n + 1
    <3>1. Aparte(huecos[j].offset, huecos[j].tam, lugar[p], Len(buffer[p]))
      BY <1>1, <1>6 DEF Repartido, GrabacionAparte
    <3>2. Aparte(lugar[p], Len(buffer[p]), huecos[j].offset, huecos[j].tam)
      BY <3>1 DEF Aparte
    <3> QED BY <1>3, <1>4, <2>2, <3>2
  <2> QED BY <1>7, <2>1, <2>2
<1>11. ASSUME NEW k, Cubierta(k) PROVE Cubierta(k)'
  <2>1. CASE \E i \in AreasRegistradas : k \in Area(enSwap[i])
    <3>1. PICK i \in AreasRegistradas : k \in Area(enSwap[i])
      BY <2>1
    <3>2. i \in AreasRegistradas' /\ enSwap'[i] = enSwap[i]
      BY <1>3, <1>7
    <3> QED BY <3>1, <3>2 DEF Cubierta, Area
  <2>2. CASE \E i \in DOMAIN huecos : k \in Area(huecos[i])
    BY <1>2, <2>2 DEF Cubierta, Area
  <2>3. CASE \E q \in EnGrabacion : k \in AreaDe(q)
    <3>1. k \in AreaDe(p)
      <4>1. EnGrabacion \subseteq {p}
        BY <1>1, <1>2, UnaGrabacion DEF PasosDeSuspension
      <4> QED BY <2>3, <4>1
    <3>2. k \in Area(Nuevo(p))
      BY <1>4, <3>1 DEF Area, AreaDe
    <3>3. n + 1 \in AreasRegistradas' /\ enSwap'[n + 1] = Nuevo(p)
      BY <1>3, <1>7
    <3> QED BY <3>2, <3>3 DEF Cubierta, Area
  <2> QED BY <1>11, <2>1, <2>2, <2>3 DEF Cubierta
<1> QED BY <1>1, <1>2, <1>8, <1>9, <1>10, <1>11 DEF Repartido, ArchivoCubierto

\* list_add to huecos_swap: the area of a record becomes a hole.
LEMMA RepartoDevuelve ==
    ASSUME IInvSwap, NEW p \in Procs, Paso(p), NEW i \in DOMAIN enSwap, Devuelve(p, i)
    PROVE  Repartido'
<1>1. IInvRegistros /\ Repartido /\ enSwap \in Seq(Registro) /\ huecos \in Seq(Hueco) /\ RegistroUnico
  BY DEF IInvSwap, IInvRegistros, TypeOK
<1> DEFINE n == Len(huecos)
           h == [offset |-> enSwap[i].offset, tam |-> enSwap[i].tam]
<1>2. /\ pc[p] = "enlazandoHueco" /\ pc' = [pc EXCEPT ![p] = "olvidando"]
      /\ UNCHANGED <<enSwap, archivo, buffer, lugar>>
      /\ huecos' = Append(huecos, h) /\ h \in Hueco /\ enSwap[i].pid = p
  BY DEF Devuelve, EnlazarHueco, En, Pasa
<1>3. h.offset = enSwap[i].offset /\ h.tam = enSwap[i].tam
  OBVIOUS
<1> HIDE DEF h
<1>4. /\ DOMAIN huecos = 1 .. n /\ DOMAIN huecos' = 1 .. n + 1 /\ n \in Nat
      /\ huecos'[n + 1] = h /\ \A j \in 1 .. n : huecos'[j] = huecos[j]
  BY <1>1, <1>2
<1> HIDE DEF n
<1>5. pc'[p] = "olvidando" /\ \A q \in Procs \ {p} : pc'[q] = pc[q]
  BY <1>1, <1>2 DEF IInvRegistros, TypeOK
<1>6. i \in AreasRegistradas /\ AreasRegistradas' = AreasRegistradas \ {i}
  <2>1. \A j \in DOMAIN enSwap : enSwap[j].pid \in Procs /\ (enSwap[j].pid = p <=> j = i)
    BY <1>1, <1>2, TiposDeAreas DEF RegistroUnico
  <2>2. \A j \in DOMAIN enSwap : j # i => (pc'[enSwap[j].pid] # "olvidando" <=> pc[enSwap[j].pid] # "olvidando")
    BY <1>5, <2>1
  <2> QED BY <1>2, <1>5, <2>1, <2>2 DEF AreasRegistradas
<1>7. EnGrabacion' = EnGrabacion
  BY <1>2, <1>5 DEF EnGrabacion
<1>8. RegistrosAparte'
  BY <1>1, <1>2, <1>6 DEF Repartido, RegistrosAparte
<1>9. HuecosAparte'
  <2> SUFFICES ASSUME NEW j \in DOMAIN huecos', NEW k \in DOMAIN huecos', j # k
               PROVE  Aparte(huecos'[j].offset, huecos'[j].tam, huecos'[k].offset, huecos'[k].tam)
    BY DEF HuecosAparte
  <2>1. \A m \in DOMAIN huecos : /\ Aparte(enSwap[i].offset, enSwap[i].tam, huecos[m].offset, huecos[m].tam)
                                 /\ Aparte(huecos[m].offset, huecos[m].tam, enSwap[i].offset, enSwap[i].tam)
    BY <1>1, <1>6 DEF Repartido, RegistrosYHuecosAparte, Aparte
  <2>2. CASE j \in 1 .. n /\ k \in 1 .. n
    BY <1>1, <1>4, <2>2 DEF Repartido, HuecosAparte
  <2>3. CASE j \in 1 .. n /\ k = n + 1
    BY <1>3, <1>4, <2>1, <2>3
  <2>4. CASE j = n + 1 /\ k \in 1 .. n
    BY <1>3, <1>4, <2>1, <2>4
  <2> QED BY <1>4, <2>2, <2>3, <2>4
<1>10. RegistrosYHuecosAparte'
  <2> SUFFICES ASSUME NEW j \in AreasRegistradas \ {i}, NEW k \in DOMAIN huecos'
               PROVE  Aparte(enSwap[j].offset, enSwap[j].tam, huecos'[k].offset, huecos'[k].tam)
    BY <1>2, <1>6 DEF RegistrosYHuecosAparte
  <2>1. CASE k \in 1 .. n
    BY <1>1, <1>4, <2>1 DEF Repartido, RegistrosYHuecosAparte
  <2>2. CASE k = n + 1
    BY <1>1, <1>3, <1>4, <1>6, <2>2 DEF Repartido, RegistrosAparte
  <2> QED BY <1>4, <2>1, <2>2
<1>11. GrabacionAparte'
  <2> SUFFICES ASSUME NEW q \in EnGrabacion
               PROVE  /\ \A j \in AreasRegistradas \ {i} :
                            Aparte(enSwap[j].offset, enSwap[j].tam, lugar[q], Len(buffer[q]))
                      /\ \A k \in DOMAIN huecos' :
                            Aparte(huecos'[k].offset, huecos'[k].tam, lugar[q], Len(buffer[q]))
    BY <1>2, <1>6, <1>7 DEF GrabacionAparte
  <2>1. \A j \in AreasRegistradas : Aparte(enSwap[j].offset, enSwap[j].tam, lugar[q], Len(buffer[q]))
    BY <1>1 DEF Repartido, GrabacionAparte
  <2>2. \A k \in 1 .. n : Aparte(huecos[k].offset, huecos[k].tam, lugar[q], Len(buffer[q]))
    BY <1>1, <1>4 DEF Repartido, GrabacionAparte
  <2>3. Aparte(h.offset, h.tam, lugar[q], Len(buffer[q]))
    BY <1>3, <1>6, <2>1
  <2> QED BY <1>4, <2>1, <2>2, <2>3
<1>12. ASSUME NEW k, Cubierta(k) PROVE Cubierta(k)'
  <2>1. CASE k \in Area(enSwap[i])
    <3>1. k \in Area(h)
      BY <1>3, <2>1 DEF Area
    <3>2. n + 1 \in DOMAIN huecos' /\ huecos'[n + 1] = h
      BY <1>4
    <3> QED BY <3>1, <3>2 DEF Cubierta, Area
  <2>2. CASE \E j \in AreasRegistradas \ {i} : k \in Area(enSwap[j])
    BY <1>2, <1>6, <2>2 DEF Cubierta, Area
  <2>3. CASE \E j \in DOMAIN huecos : k \in Area(huecos[j])
    <3>1. PICK j \in DOMAIN huecos : k \in Area(huecos[j])
      BY <2>3
    <3>2. j \in DOMAIN huecos' /\ huecos'[j] = huecos[j]
      BY <1>4
    <3> QED BY <3>1, <3>2 DEF Cubierta, Area
  <2>4. CASE \E q \in EnGrabacion : k \in AreaDe(q)
    BY <1>2, <1>7, <2>4 DEF Cubierta, AreaDe
  <2> QED BY <1>12, <2>1, <2>2, <2>3, <2>4 DEF Cubierta
<1> QED BY <1>1, <1>2, <1>8, <1>9, <1>10, <1>11, <1>12 DEF Repartido, ArchivoCubierto

\* list_remove_element: the areas that stay registered are those of the other records.
LEMMA RegistradasTrasBorrar ==
    ASSUME IInvRegistros, NEW p \in Procs, Paso(p), NEW i \in 1 .. Len(enSwap), Borra(p, i)
    PROVE  /\ \A j \in AreasRegistradas' : \E k \in AreasRegistradas :
                 enSwap'[j] = enSwap[k] /\ k = IF j < i THEN j ELSE j + 1
           /\ \A k \in AreasRegistradas : \E j \in AreasRegistradas' : enSwap'[j] = enSwap[k]
           /\ AreasRegistradas' \subseteq Nat
<1>1. enSwap \in Seq(Registro) /\ RegistroUnico
  BY DEF IInvRegistros, TypeOK
<1>2. /\ pc[p] = "olvidando" /\ pc' = [pc EXCEPT ![p] = "acepta"]
      /\ UNCHANGED <<huecos, archivo, buffer, lugar>>
      /\ enSwap[i].pid = p /\ EsQuita(Registro, enSwap, i, enSwap')
  BY DEF Borra, OlvidarRegistro, En, Pasa
<1>3. /\ DOMAIN enSwap = 1 .. Len(enSwap) /\ DOMAIN enSwap' = 1 .. Len(enSwap')
      /\ \A j \in 1 .. Len(enSwap') : \E k \in 1 .. Len(enSwap) :
            k # i /\ enSwap'[j] = enSwap[k] /\ k = IF j < i THEN j ELSE j + 1
      /\ \A k \in 1 .. Len(enSwap) : k # i =>
            \E j \in 1 .. Len(enSwap') : enSwap'[j] = enSwap[k] /\ k = IF j < i THEN j ELSE j + 1
  <2>1. EsQuita(Registro, enSwap, i, enSwap') /\ enSwap \in Seq(Registro)
    BY <1>1, <1>2
  <2>2. enSwap' \in Seq(Registro)
    BY <1>2 DEF EsQuita
  <2>3. DOMAIN enSwap = 1 .. Len(enSwap) /\ DOMAIN enSwap' = 1 .. Len(enSwap')
    BY <1>1, <2>2
  <2>4. RestoDe(enSwap, i, enSwap')
    BY <2>1, QuedaElResto
  <2> QED BY <2>3, <2>4 DEF RestoDe
<1>4. pc'[p] = "acepta" /\ \A q \in Procs \ {p} : pc'[q] = pc[q]
  BY <1>1, <1>2 DEF IInvRegistros, TypeOK
<1>5. \A k \in 1 .. Len(enSwap) : enSwap[k].pid \in Procs /\ (enSwap[k].pid = p <=> k = i)
  BY <1>1, <1>2, <1>3, TiposDeAreas DEF RegistroUnico
<1>6. \A j \in AreasRegistradas' : \E k \in AreasRegistradas :
         enSwap'[j] = enSwap[k] /\ k = IF j < i THEN j ELSE j + 1
  <2> SUFFICES ASSUME NEW j \in AreasRegistradas'
               PROVE  \E k \in AreasRegistradas : enSwap'[j] = enSwap[k] /\ k = IF j < i THEN j ELSE j + 1
    OBVIOUS
  <2>1. j \in 1 .. Len(enSwap') /\ pc'[enSwap'[j].pid] # "olvidando"
    BY <1>3 DEF AreasRegistradas
  <2>2. PICK k \in 1 .. Len(enSwap) : k # i /\ enSwap'[j] = enSwap[k] /\ k = IF j < i THEN j ELSE j + 1
    BY <1>3, <2>1
  <2>3. k \in AreasRegistradas
    BY <1>3, <1>4, <1>5, <2>1, <2>2 DEF AreasRegistradas
  <2> QED BY <2>2, <2>3
<1>7. \A k \in AreasRegistradas : \E j \in AreasRegistradas' : enSwap'[j] = enSwap[k]
  <2> SUFFICES ASSUME NEW k \in AreasRegistradas
               PROVE  \E j \in AreasRegistradas' : enSwap'[j] = enSwap[k]
    OBVIOUS
  <2>1. k \in 1 .. Len(enSwap) /\ pc[enSwap[k].pid] # "olvidando" /\ k # i
    BY <1>2, <1>3 DEF AreasRegistradas
  <2>2. PICK j \in 1 .. Len(enSwap') : enSwap'[j] = enSwap[k]
    BY <1>3, <2>1
  <2>3. j \in AreasRegistradas'
    BY <1>3, <1>4, <1>5, <2>1, <2>2 DEF AreasRegistradas
  <2> QED BY <2>2, <2>3
<1>8. AreasRegistradas' \subseteq Nat
  BY <1>3 DEF AreasRegistradas
<1> QED BY <1>6, <1>7, <1>8

\* The record whose area is a hole already goes.
LEMMA RepartoBorra ==
    ASSUME IInvSwap, NEW p \in Procs, Paso(p), NEW i \in 1 .. Len(enSwap), Borra(p, i)
    PROVE  Repartido'
<1>1. IInvRegistros /\ Repartido
  BY DEF IInvSwap
<1>2. /\ pc[p] = "olvidando" /\ pc' = [pc EXCEPT ![p] = "acepta"]
      /\ UNCHANGED <<huecos, archivo, buffer, lugar>>
  BY DEF Borra, OlvidarRegistro, En, Pasa
<1>3. pc'[p] = "acepta" /\ \A q \in Procs \ {p} : pc'[q] = pc[q]
  BY <1>1, <1>2 DEF IInvRegistros, TypeOK
<1>4. \A j \in AreasRegistradas' : \E k \in AreasRegistradas :
         enSwap'[j] = enSwap[k] /\ k = IF j < i THEN j ELSE j + 1
  BY <1>1, RegistradasTrasBorrar
<1>5. \A k \in AreasRegistradas : \E j \in AreasRegistradas' : enSwap'[j] = enSwap[k]
  BY <1>1, RegistradasTrasBorrar
<1>6. EnGrabacion' = EnGrabacion
  BY <1>2, <1>3 DEF EnGrabacion
<1>7. RegistrosAparte'
  <2> SUFFICES ASSUME NEW j1 \in AreasRegistradas', NEW j2 \in AreasRegistradas', j1 # j2
               PROVE  Aparte(enSwap'[j1].offset, enSwap'[j1].tam, enSwap'[j2].offset, enSwap'[j2].tam)
    BY DEF RegistrosAparte
  <2>1. PICK k1 \in AreasRegistradas : enSwap'[j1] = enSwap[k1] /\ k1 = IF j1 < i THEN j1 ELSE j1 + 1
    BY <1>4
  <2>2. PICK k2 \in AreasRegistradas : enSwap'[j2] = enSwap[k2] /\ k2 = IF j2 < i THEN j2 ELSE j2 + 1
    BY <1>4
  <2>3. k1 # k2
    <3>1. j1 \in Nat /\ j2 \in Nat
      BY <1>1, RegistradasTrasBorrar
    <3> QED BY <2>1, <2>2, <3>1
  <2> QED BY <1>1, <2>1, <2>2, <2>3 DEF Repartido, RegistrosAparte
<1>8. HuecosAparte'
  BY <1>1, <1>2 DEF Repartido, HuecosAparte
<1>9. RegistrosYHuecosAparte'
  BY <1>1, <1>2, <1>4 DEF Repartido, RegistrosYHuecosAparte
<1>10. GrabacionAparte'
  BY <1>1, <1>2, <1>4, <1>6 DEF Repartido, GrabacionAparte
<1>11. ASSUME NEW k, Cubierta(k) PROVE Cubierta(k)'
  BY <1>2, <1>5, <1>6, <1>11 DEF Cubierta, Area, AreaDe
<1> QED BY <1>1, <1>2, <1>7, <1>8, <1>9, <1>10, <1>11 DEF Repartido, ArchivoCubierto

\* What both ways of taking a hole have in common.
LEMMA TomaHueco ==
    ASSUME IInvSwap, NEW p \in Procs, UbicarEnHueco(p), NEW i \in 1 .. Len(huecos),
           lugar' = [lugar EXCEPT ![p] = huecos[i].offset]
    PROVE  /\ IInvRegistros /\ Repartido /\ UNCHANGED <<enSwap, archivo, buffer>>
           /\ AreasRegistradas' = AreasRegistradas
           /\ EnGrabacion = {} /\ EnGrabacion' = {p} /\ lugar'[p] = huecos[i].offset
           /\ Len(buffer[p]) \in Nat \ {0}
<1>1. IInvRegistros /\ Repartido /\ Paso(p)
  BY DEF IInvSwap, Paso, Suspende
<1>2. pc[p] = "ubicando" /\ pc' = [pc EXCEPT ![p] = "grabando"] /\ UNCHANGED <<enSwap, archivo, buffer>>
  BY DEF UbicarEnHueco, En, Pasa
<1>3. ~OlvidarRegistro(p) /\ ~EnlazarHueco(p)
  BY <1>2 DEF OlvidarRegistro, EnlazarHueco, En
<1>4. AreasRegistradas' = AreasRegistradas
  BY <1>1, <1>2, <1>3, RegistradasIgual
<1>5. EnGrabacion = {}
  <2>1. EnGrabacion \subseteq {p}
    BY <1>1, <1>2, UnaGrabacion DEF PasosDeSuspension
  <2> QED BY <1>2, <2>1 DEF EnGrabacion
<1>6. pc \in [Procs -> Pasos] /\ lugar \in [Procs -> Nat] /\ Paginas \in [Procs -> Nat]
  BY <1>1, MemoriaAssumption DEF IInvRegistros, TypeOK
<1>7. EnGrabacion' = {p}
  <2>1. pc'[p] = "grabando" /\ \A q \in Procs \ {p} : pc'[q] = pc[q]
    BY <1>2, <1>6
  <2> QED BY <1>5, <2>1 DEF EnGrabacion
<1>8. Len(buffer[p]) \in Nat \ {0}
  BY <1>1, <1>2, <1>6 DEF IInvRegistros, CopiaEntera, PasosDeSuspension
<1> QED BY <1>1, <1>2, <1>4, <1>5, <1>6, <1>7, <1>8

\* First fit: the front of a hole that is left with something.
LEMMA RepartoAchica ==
    ASSUME IInvSwap, NEW p \in Procs, NEW i \in 1 .. Len(huecos), Achica(p, i)
    PROVE  Repartido'
<1> DEFINE n == Len(buffer[p])
           o == huecos[i].offset
           t == huecos[i].tam
           h == [offset |-> o + n, tam |-> t - n]
<1>1. /\ IInvRegistros /\ Repartido /\ UNCHANGED <<enSwap, archivo, buffer>>
      /\ AreasRegistradas' = AreasRegistradas
      /\ EnGrabacion = {} /\ EnGrabacion' = {p} /\ lugar'[p] = o /\ n \in Nat \ {0}
  BY TomaHueco DEF Achica
<1>2. /\ huecos \in Seq(Hueco) /\ DOMAIN huecos = 1 .. Len(huecos)
      /\ \A j \in DOMAIN huecos : huecos[j].offset \in Nat /\ huecos[j].tam \in Nat
      /\ \A j \in DOMAIN enSwap : enSwap[j].offset \in Nat /\ enSwap[j].tam \in Nat
  BY <1>1, TiposDeAreas
<1>3. o \in Nat /\ t \in Nat /\ t > n
  BY <1>2 DEF Achica
<1>4. h.offset = o + n /\ h.tam = t - n
  OBVIOUS
<1>5. huecos' = [huecos EXCEPT ![i] = h]
  BY DEF Achica
<1>6. DOMAIN huecos' = DOMAIN huecos /\ huecos'[i] = h /\ \A j \in DOMAIN huecos : j # i => huecos'[j] = huecos[j]
  BY <1>2, <1>5
<1>7. ASSUME NEW a \in Nat, NEW b \in Nat, Aparte(a, b, o, t)
      PROVE  Aparte(a, b, o, n) /\ Aparte(a, b, h.offset, h.tam)
             /\ Aparte(o, n, a, b) /\ Aparte(h.offset, h.tam, a, b)
  <2> HIDE DEF n, o, t, h
  <2> QED BY <1>1, <1>3, <1>4, <1>7 DEF Aparte
<1>8. Aparte(h.offset, h.tam, o, n)
  <2> HIDE DEF n, o, t, h
  <2> QED BY <1>1, <1>3, <1>4 DEF Aparte
<1>9. \A j \in AreasRegistradas : j \in DOMAIN enSwap /\ Aparte(enSwap[j].offset, enSwap[j].tam, o, t)
  BY <1>1, <1>2 DEF Repartido, RegistrosYHuecosAparte, AreasRegistradas
<1>10. \A j \in DOMAIN huecos : j # i => Aparte(huecos[j].offset, huecos[j].tam, o, t)
  BY <1>1, <1>2 DEF Repartido, HuecosAparte
<1> HIDE DEF n, o, t, h
<1>11. RegistrosAparte'
  BY <1>1 DEF Repartido, RegistrosAparte
<1>12. HuecosAparte'
  <2> SUFFICES ASSUME NEW j \in DOMAIN huecos, NEW k \in DOMAIN huecos, j # k
               PROVE  Aparte(huecos'[j].offset, huecos'[j].tam, huecos'[k].offset, huecos'[k].tam)
    BY <1>6 DEF HuecosAparte
  <2>1. CASE j = i
    BY <1>2, <1>6, <1>7, <1>10, <2>1
  <2>2. CASE k = i
    BY <1>2, <1>6, <1>7, <1>10, <2>2
  <2>3. CASE j # i /\ k # i
    BY <1>1, <1>6, <2>3 DEF Repartido, HuecosAparte
  <2> QED BY <2>1, <2>2, <2>3
<1>13. RegistrosYHuecosAparte'
  <2> SUFFICES ASSUME NEW j \in AreasRegistradas, NEW k \in DOMAIN huecos
               PROVE  Aparte(enSwap[j].offset, enSwap[j].tam, huecos'[k].offset, huecos'[k].tam)
    BY <1>1, <1>6 DEF RegistrosYHuecosAparte
  <2>1. CASE k = i
    BY <1>2, <1>6, <1>7, <1>9, <2>1
  <2>2. CASE k # i
    BY <1>1, <1>6, <2>2 DEF Repartido, RegistrosYHuecosAparte
  <2> QED BY <2>1, <2>2
<1>14. GrabacionAparte'
  <2>1. \A j \in AreasRegistradas : Aparte(enSwap[j].offset, enSwap[j].tam, o, n)
    BY <1>2, <1>7, <1>9
  <2>2. \A j \in DOMAIN huecos : Aparte(huecos'[j].offset, huecos'[j].tam, o, n)
    BY <1>2, <1>6, <1>7, <1>8, <1>10
  <2> QED BY <1>1, <1>6, <2>1, <2>2 DEF GrabacionAparte, n
<1>15. ASSUME NEW k, Cubierta(k) PROVE Cubierta(k)'
  <2>1. CASE \E j \in AreasRegistradas : k \in Area(enSwap[j])
    BY <1>1, <2>1 DEF Cubierta, Area
  <2>2. CASE \E j \in DOMAIN huecos : j # i /\ k \in Area(huecos[j])
    BY <1>6, <2>2 DEF Cubierta, Area
  <2>3. CASE k \in Area(huecos[i])
    <3>1. k \in o .. o + t - 1
      BY <2>3 DEF Area, o, t
    <3>2. k \in o .. o + n - 1 \/ k \in o + n .. (o + n) + (t - n) - 1
      BY <1>1, <1>3, <3>1
    <3>3. CASE k \in o .. o + n - 1
      <4>1. k \in lugar'[p] .. lugar'[p] + Len(buffer'[p]) - 1
        BY <1>1, <3>3 DEF n
      <4> QED BY <1>1, <4>1 DEF Cubierta, AreaDe
    <3>4. CASE k \in o + n .. (o + n) + (t - n) - 1
      <4>1. k \in Area(huecos'[i])
        BY <1>4, <1>6, <3>4 DEF Area
      <4>2. i \in DOMAIN huecos'
        BY <1>2, <1>6
      <4> QED BY <4>1, <4>2 DEF Cubierta, Area
    <3> QED BY <3>2, <3>3, <3>4
  <2> QED BY <1>1, <1>15, <2>1, <2>2, <2>3 DEF Cubierta
<1> QED BY <1>1, <1>11, <1>12, <1>13, <1>14, <1>15 DEF Repartido, ArchivoCubierto

\* First fit: the whole hole.
LEMMA RepartoAgota ==
    ASSUME IInvSwap, NEW p \in Procs, NEW i \in 1 .. Len(huecos), Agota(p, i)
    PROVE  Repartido'
<1> DEFINE n == Len(buffer[p])
           o == huecos[i].offset
<1>1. /\ IInvRegistros /\ Repartido /\ UNCHANGED <<enSwap, archivo, buffer>>
      /\ AreasRegistradas' = AreasRegistradas
      /\ EnGrabacion = {} /\ EnGrabacion' = {p} /\ lugar'[p] = o /\ n \in Nat \ {0}
  BY TomaHueco DEF Agota
<1>2. huecos[i].tam = n /\ EsQuita(Hueco, huecos, i, huecos') /\ huecos \in Seq(Hueco)
      /\ i \in DOMAIN huecos
  BY <1>1 DEF Agota, IInvRegistros, TypeOK
<1>3. /\ DOMAIN huecos = 1 .. Len(huecos) /\ DOMAIN huecos' = 1 .. Len(huecos')
      /\ \A j \in 1 .. Len(huecos') : \E k \in 1 .. Len(huecos) :
            k # i /\ huecos'[j] = huecos[k] /\ k = IF j < i THEN j ELSE j + 1
      /\ \A k \in 1 .. Len(huecos) : k # i =>
            \E j \in 1 .. Len(huecos') : huecos'[j] = huecos[k] /\ k = IF j < i THEN j ELSE j + 1
  <2>1. EsQuita(Hueco, huecos, i, huecos') /\ huecos \in Seq(Hueco)
    BY <1>2
  <2>2. huecos' \in Seq(Hueco)
    BY <1>2 DEF EsQuita
  <2>3. DOMAIN huecos = 1 .. Len(huecos) /\ DOMAIN huecos' = 1 .. Len(huecos')
    BY <1>2, <2>2
  <2>4. RestoDe(huecos, i, huecos')
    BY <2>1, QuedaElResto
  <2> QED BY <2>3, <2>4 DEF RestoDe
<1>4. \A k, m \in 1 .. Len(huecos) : k # m => Aparte(huecos[k].offset, huecos[k].tam, huecos[m].offset, huecos[m].tam)
  BY <1>1, <1>3 DEF Repartido, HuecosAparte
<1>5. o = huecos[i].offset /\ n = huecos[i].tam
  BY <1>2
<1> HIDE DEF n, o
<1>6. RegistrosAparte'
  BY <1>1 DEF Repartido, RegistrosAparte
<1>7. HuecosAparte'
  <2> SUFFICES ASSUME NEW j1 \in 1 .. Len(huecos'), NEW j2 \in 1 .. Len(huecos'), j1 # j2
               PROVE  Aparte(huecos'[j1].offset, huecos'[j1].tam, huecos'[j2].offset, huecos'[j2].tam)
    BY <1>3 DEF HuecosAparte
  <2>1. PICK k1 \in 1 .. Len(huecos) : huecos'[j1] = huecos[k1] /\ k1 = IF j1 < i THEN j1 ELSE j1 + 1
    BY <1>3
  <2>2. PICK k2 \in 1 .. Len(huecos) : huecos'[j2] = huecos[k2] /\ k2 = IF j2 < i THEN j2 ELSE j2 + 1
    BY <1>3
  <2>3. k1 # k2
    BY <2>1, <2>2
  <2> QED BY <1>4, <2>1, <2>2, <2>3
<1>8. RegistrosYHuecosAparte'
  <2> SUFFICES ASSUME NEW r \in AreasRegistradas, NEW j \in 1 .. Len(huecos')
               PROVE  Aparte(enSwap[r].offset, enSwap[r].tam, huecos'[j].offset, huecos'[j].tam)
    BY <1>1, <1>3 DEF RegistrosYHuecosAparte
  <2>1. PICK k \in 1 .. Len(huecos) : huecos'[j] = huecos[k]
    BY <1>3
  <2> QED BY <1>1, <1>3, <2>1 DEF Repartido, RegistrosYHuecosAparte
<1>9. GrabacionAparte'
  <2>1. \A r \in AreasRegistradas : Aparte(enSwap[r].offset, enSwap[r].tam, o, n)
    BY <1>1, <1>2, <1>5 DEF Repartido, RegistrosYHuecosAparte
  <2>2. ASSUME NEW j \in 1 .. Len(huecos') PROVE Aparte(huecos'[j].offset, huecos'[j].tam, o, n)
    <3>1. PICK k \in 1 .. Len(huecos) : k # i /\ huecos'[j] = huecos[k]
      BY <1>3
    <3>2. Aparte(huecos[k].offset, huecos[k].tam, huecos[i].offset, huecos[i].tam)
      BY <1>4, <3>1
    <3> QED BY <1>5, <3>1, <3>2
  <2> QED BY <1>1, <1>3, <2>1, <2>2 DEF GrabacionAparte, n
<1>10. ASSUME NEW k, Cubierta(k) PROVE Cubierta(k)'
  <2>1. CASE \E j \in AreasRegistradas : k \in Area(enSwap[j])
    BY <1>1, <2>1 DEF Cubierta, Area
  <2>2. CASE \E j \in DOMAIN huecos : j # i /\ k \in Area(huecos[j])
    <3>1. PICK m \in 1 .. Len(huecos) : m # i /\ k \in Area(huecos[m])
      BY <1>3, <2>2
    <3>2. PICK j \in 1 .. Len(huecos') : huecos'[j] = huecos[m]
      BY <1>3, <3>1
    <3> QED BY <1>3, <3>1, <3>2 DEF Cubierta, Area
  <2>3. CASE k \in Area(huecos[i])
    <3>1. k \in lugar'[p] .. lugar'[p] + Len(buffer'[p]) - 1
      BY <1>1, <1>5, <2>3 DEF Area, n
    <3> QED BY <1>1, <3>1 DEF Cubierta, AreaDe
  <2> QED BY <1>1, <1>10, <2>1, <2>2, <2>3 DEF Cubierta
<1> QED BY <1>1, <1>6, <1>7, <1>8, <1>9, <1>10 DEF Repartido, ArchivoCubierto

\* Every step leaves the file shared out.
LEMMA RepartidoSigue ==
    ASSUME IInvSwap, NEW p \in Procs, Paso(p)
    PROVE  Repartido'
<1>1. IInvRegistros /\ UltimoVigente
  BY DEF IInvSwap
<1>2. CASE huecos' = huecos /\ ~UbicarEnHueco(p) /\ ~EnlazarHueco(p)
  <2>1. CASE UbicarAlFinal(p)
    BY <2>1, RepartoUbicarAlFinal
  <2>2. CASE ~UbicarAlFinal(p) /\ enSwap' = enSwap /\ ~OlvidarRegistro(p) /\ ~EnlazarRegistro(p)
    BY <1>2, <2>2, MismasAreas
  <2>3. CASE Anota(p)
    BY <2>3, RepartoAnota
  <2>4. CASE \E i \in 1 .. Len(enSwap) : Borra(p, i)
    BY <2>4, RepartoBorra
  <2> QED BY <1>1, <2>1, <2>2, <2>3, <2>4, RegistroAnotado
<1>3. CASE \E i \in DOMAIN enSwap : Devuelve(p, i)
  BY <1>3, RepartoDevuelve
<1>4. CASE \E i \in 1 .. Len(huecos) : Achica(p, i) \/ Agota(p, i)
  BY <1>4, RepartoAchica, RepartoAgota
<1> QED BY <1>1, <1>2, <1>3, <1>4, HuecoDevuelto

\* At first there is no file and no area.
LEMMA IniciaSwap == Init => IInvSwap
<1> SUFFICES ASSUME Init PROVE IInvSwap
  OBVIOUS
<1>1. IInvRegistros
  BY IniciaRegistros
<1>2. /\ enSwap = <<>> /\ huecos = <<>> /\ archivo = <<>>
      /\ \A p \in Procs : pc[p] = "libre"
  BY DEF Init
<1>3. AreasRegistradas = {} /\ EnGrabacion = {} /\ DOMAIN huecos = {} /\ 0 .. Len(archivo) - 1 = {}
  BY <1>2 DEF AreasRegistradas, EnGrabacion
<1>4. UltimoVigente
  BY <1>2 DEF UltimoVigente
<1>5. Repartido
  BY <1>3 DEF Repartido, RegistrosAparte, HuecosAparte, RegistrosYHuecosAparte, GrabacionAparte, ArchivoCubierto
<1> QED BY <1>1, <1>4, <1>5 DEF IInvSwap

\* Every step keeps the invariant of the areas when list operations do not overlap.
LEMMA ConservaSwap ==
    ASSUME Solapan = FALSE, IInvSwap, [Next]_vars
    PROVE  IInvSwap'
<1>1. IInvRegistros /\ UltimoVigente /\ Repartido
  BY DEF IInvSwap
<1>2. IInvRegistros'
  BY <1>1, ConservaRegistros
<1>3. CASE Next
  <2>1. PICK p \in Procs : Paso(p)
    BY <1>3 DEF Next, Paso
  <2>2. UltimoVigente'
    BY <1>1, <2>1, UltimoSigueVigente
  <2>3. Repartido'
    BY <2>1, RepartidoSigue
  <2> QED BY <1>2, <2>2, <2>3 DEF IInvSwap
<1>4. CASE UNCHANGED vars
  <2>1. UNCHANGED <<enSwap, huecos, archivo, pc, buffer, lugar, ultimo>>
    BY <1>4 DEF vars, swap, hilos
  <2>2. AreasRegistradas' = AreasRegistradas /\ EnGrabacion' = EnGrabacion
    BY <2>1 DEF AreasRegistradas, EnGrabacion
  <2>3. UltimoVigente'
    BY <1>1, <2>1 DEF UltimoVigente, Ultimo, Fin
  <2>4. RegistrosAparte' /\ HuecosAparte' /\ RegistrosYHuecosAparte' /\ GrabacionAparte'
    BY <1>1, <2>1, <2>2 DEF Repartido, RegistrosAparte, HuecosAparte, RegistrosYHuecosAparte, GrabacionAparte
  <2>5. ArchivoCubierto'
    BY <1>1, <2>1, <2>2 DEF Repartido, ArchivoCubierto, Cubierta, Area, AreaDe
  <2> QED BY <1>2, <2>3, <2>4, <2>5 DEF IInvSwap, Repartido
<1> QED BY <1>3, <1>4

\* When list operations do not overlap, the strengthened invariant holds in every
\* reachable state: the last node a list_add saw is still the last one, areas share no page, and together they
\* are the file.
THEOREM InvarianteDelSwap ==
    ASSUME Solapan = FALSE
    PROVE  Spec => []IInvSwap
<1>1. IInvSwap /\ [Next]_vars => IInvSwap'
  BY ConservaSwap
<1> QED BY IniciaSwap, <1>1, PTL DEF Spec

\* Areas apart have no page in common.
LEMMA AparteDisjuntas ==
    ASSUME NEW o1 \in Nat, NEW n1 \in Nat, NEW o2 \in Nat, NEW n2 \in Nat, Aparte(o1, n1, o2, n2)
    PROVE  (o1 .. o1 + n1 - 1) \cap (o2 .. o2 + n2 - 1) = {}
BY DEF Aparte

\* The invariant says what SwapRepartido does, with sets of pages.
LEMMA RepartidoAlcanza == IInvSwap => SwapRepartido
<1> SUFFICES ASSUME IInvSwap PROVE SwapRepartido
  OBVIOUS
<1> DEFINE procesos == {<<"proceso", i>> : i \in AreasRegistradas}
           libres == {<<"hueco", i>> : i \in DOMAIN huecos}
           grabando == {<<"grabando", p>> : p \in EnGrabacion}
           usadas == procesos \cup libres \cup grabando
           area(u) == CASE u[1] = "proceso" -> Area(enSwap[u[2]])
                        [] u[1] = "hueco" -> Area(huecos[u[2]])
                        [] OTHER -> AreaDe(u[2])
<1>1. IInvRegistros /\ Repartido
  BY DEF IInvSwap
<1>2. /\ \A i \in AreasRegistradas : i \in DOMAIN enSwap /\ enSwap[i].offset \in Nat /\ enSwap[i].tam \in Nat
      /\ \A i \in DOMAIN huecos : huecos[i].offset \in Nat /\ huecos[i].tam \in Nat
      /\ \A p \in EnGrabacion : lugar[p] \in Nat /\ Len(buffer[p]) \in Nat
  BY <1>1, TiposDeAreas DEF AreasRegistradas, EnGrabacion
<1>3. \A p, q \in EnGrabacion : p = q
  <2> SUFFICES ASSUME NEW p \in EnGrabacion, NEW q \in EnGrabacion PROVE p = q
    OBVIOUS
  <2>1. p \in Procs /\ pc[p] \in PasosDeSuspension
    BY DEF EnGrabacion, PasosDeSuspension
  <2> QED BY <1>1, <2>1, UnaGrabacion
<1>4. \A i, j \in AreasRegistradas : i # j => Area(enSwap[i]) \cap Area(enSwap[j]) = {}
  BY <1>1, <1>2, AparteDisjuntas DEF Repartido, RegistrosAparte, Area
<1>5. \A i, j \in DOMAIN huecos : i # j => Area(huecos[i]) \cap Area(huecos[j]) = {}
  BY <1>1, <1>2, AparteDisjuntas DEF Repartido, HuecosAparte, Area
<1>6. \A i \in AreasRegistradas, j \in DOMAIN huecos : Area(enSwap[i]) \cap Area(huecos[j]) = {}
  BY <1>1, <1>2, AparteDisjuntas DEF Repartido, RegistrosYHuecosAparte, Area
<1>7. \A p \in EnGrabacion : /\ \A i \in AreasRegistradas : Area(enSwap[i]) \cap AreaDe(p) = {}
                             /\ \A j \in DOMAIN huecos : Area(huecos[j]) \cap AreaDe(p) = {}
  BY <1>1, <1>2, AparteDisjuntas DEF Repartido, GrabacionAparte, Area, AreaDe
<1>8. /\ \A u \in procesos : \E i \in AreasRegistradas : u = <<"proceso", i>> /\ area(u) = Area(enSwap[i])
      /\ \A u \in libres : \E i \in DOMAIN huecos : u = <<"hueco", i>> /\ area(u) = Area(huecos[i])
      /\ \A u \in grabando : \E p \in EnGrabacion : u = <<"grabando", p>> /\ area(u) = AreaDe(p)
  OBVIOUS
<1>9. /\ \A i \in AreasRegistradas : <<"proceso", i>> \in usadas /\ area(<<"proceso", i>>) = Area(enSwap[i])
      /\ \A i \in DOMAIN huecos : <<"hueco", i>> \in usadas /\ area(<<"hueco", i>>) = Area(huecos[i])
      /\ \A p \in EnGrabacion : <<"grabando", p>> \in usadas /\ area(<<"grabando", p>>) = AreaDe(p)
  OBVIOUS
<1>10. SwapRepartido <=> /\ \A u, v \in usadas : u # v => area(u) \cap area(v) = {}
                         /\ 0 .. Len(archivo) - 1 \subseteq UNION {area(u) : u \in usadas}
  BY DEF SwapRepartido
<1> HIDE DEF area, procesos, libres, grabando
<1>11. ASSUME NEW u \in usadas, NEW v \in usadas, u # v PROVE area(u) \cap area(v) = {}
  <2>1. CASE u \in procesos /\ v \in procesos
    BY <1>4, <1>8, <1>11, <2>1
  <2>2. CASE u \in libres /\ v \in libres
    BY <1>5, <1>8, <1>11, <2>2
  <2>3. CASE u \in grabando /\ v \in grabando
    BY <1>3, <1>8, <1>11, <2>3
  <2>4. CASE u \in procesos /\ v \in libres
    BY <1>6, <1>8, <2>4
  <2>5. CASE u \in libres /\ v \in procesos
    BY <1>6, <1>8, <2>5
  <2>6. CASE u \in procesos \cup libres /\ v \in grabando
    BY <1>7, <1>8, <2>6
  <2>7. CASE u \in grabando /\ v \in procesos \cup libres
    BY <1>7, <1>8, <2>7
  <2> QED BY <2>1, <2>2, <2>3, <2>4, <2>5, <2>6, <2>7
<1>12. ASSUME NEW k \in 0 .. Len(archivo) - 1 PROVE \E u \in usadas : k \in area(u)
  <2>1. Cubierta(k)
    BY <1>1 DEF Repartido, ArchivoCubierto
  <2> QED BY <1>9, <2>1 DEF Cubierta
<1> HIDE DEF usadas
<1>13. 0 .. Len(archivo) - 1 \subseteq UNION {area(u) : u \in usadas}
  BY <1>12
<1> QED BY <1>10, <1>11, <1>13

\* Two areas of the swap file never share a page, and together they are the whole
\* file, for any number of processes, pages and suspensions
\* (buscar_espacio_libre_swap, desuspender_proceso).  On two hypotheses that the code
\* does not ensure: list operations do not overlap (Solapan = FALSE), and there is
\* one request per process at a time (UnoPorProceso, in the model).
THEOREM SwapBienRepartido ==
    ASSUME Solapan = FALSE
    PROVE  Spec => []SwapRepartido
<1> QED BY InvarianteDelSwap, RepartidoAlcanza, PTL

-----------------------------------------------------------------------------
(* What a process finds when it comes back.                                *)

\* escrito changes only when a process is admitted or written to.
LEMMA EscritoSigue ==
    ASSUME IInvRegistros, NEW p \in Procs, Paso(p)
    PROVE  /\ \A q \in Procs \ {p} : escrito'[q] = escrito[q]
           /\ \/ escrito'[p] = escrito[p]
              \/ EscribirPagina(p)
              \/ Alta(p) /\ pedido[p] = "INICIALIZAR_PROCESO_DESDE_NEW" /\ escrito'[p] = Contenidos(p)
<1>1. escrito \in [Procs -> Seq(Datos)]
  BY DEF IInvRegistros, TypeOK
<1>2. CASE Alta(p)
  <2>1. \/ pedido[p] = "INICIALIZAR_PROCESO_DESDE_NEW" /\ escrito' = [escrito EXCEPT ![p] = Contenidos(p)]
        \/ escrito' = escrito
    BY <1>2 DEF Alta
  <2> QED BY <1>1, <1>2, <2>1
<1>3. CASE EscribirPagina(p)
  <2>1. PICK i \in 1 .. Len(tabla[p]), d \in Datos : escrito' = [escrito EXCEPT ![p][i] = d]
    BY <1>3, DatoEscrito
  <2> QED BY <1>1, <1>3, <2>1
<1>4. CASE ~Alta(p) /\ ~EscribirPagina(p)
  <2>1. escrito' = escrito
    BY <1>4 DEF Paso, Pide, PedirInicio, PedirReanudacion, PedirReanudacionSinRegistro, PedirSuspension,
       PedirFin, Inicializa, Contar, TomarMarco, SinMarcos, SinPrograma, Reanuda, CopiarAMarcos,
       DevolverHueco, EnlazarHueco, OlvidarRegistro, Suspende, UbicarEnHueco, UbicarAlFinal, EscribirEnSwap,
       Registrar, EnlazarRegistro, Termina, LiberarMarco, TablaDestruida, Contestar
  <2> QED BY <2>1
<1> QED BY <1>2, <1>3, <1>4

\* A process with a record is neither admitted nor written to.
LEMMA ConRegistroNadaSeEscribe ==
    ASSUME IInvRegistros, NEW p \in Procs, Paso(p), NEW q \in Procs, PuedeTenerRegistro(q)
    PROVE  escrito'[q] = escrito[q]
<1>1. Control
  BY ControlVale
<1>2. CASE q = p
  <2>1. ~EscribirPagina(p)
    BY <1>2 DEF EscribirPagina, PuedeTenerRegistro
  <2>2. pedido[p] # "INICIALIZAR_PROCESO_DESDE_NEW"
    BY <1>1, <1>2 DEF Control, PedidoSegunVida, PuedeTenerRegistro
  <2> QED BY <1>2, <2>1, <2>2, EscritoSigue
<1> QED BY <1>2, EscritoSigue

\* Frames change hands and contents only in the tables of the process that moves.
LEMMA MarcosDeLosDemas ==
    ASSUME IInvRegistros, NEW p \in Procs, Paso(p), NEW q \in Procs \ {p}
    PROVE  tabla'[q] = tabla[q] /\ Contenidos(q)' = Contenidos(q)
<1>1. /\ tabla \in [Procs -> Seq(NroMarcos)] /\ contenido \in [NroMarcos -> Datos] /\ MarcosPropios
      /\ \A r \in Procs : DOMAIN tabla[r] = 1 .. Len(tabla[r])
      /\ \A r \in Procs : \A i \in DOMAIN tabla[r] : tabla[r][i] \in NroMarcos
  <2>1. /\ tabla \in [Procs -> Seq(NroMarcos)] /\ contenido \in [NroMarcos -> Datos]
        /\ MarcosPropios
    BY DEF IInvRegistros, TypeOK, IInv
  <2>2. ASSUME NEW r \in Procs
        PROVE  DOMAIN tabla[r] = 1 .. Len(tabla[r]) /\ \A i \in DOMAIN tabla[r] : tabla[r][i] \in NroMarcos
    BY <2>1
  <2> QED BY <2>1, <2>2
<1>2. tabla'[q] = tabla[q]
  <2>1. CASE TomarMarco(p) \/ LiberarMarco(p)
    BY <1>1, <2>1 DEF TomarMarco, LiberarMarco
  <2>2. CASE ~TomarMarco(p) /\ ~LiberarMarco(p)
    BY <2>2 DEF Paso, Pide, PedirInicio, PedirReanudacion, PedirReanudacionSinRegistro, PedirSuspension,
       PedirFin, Inicializa, Contar, SinMarcos, SinPrograma, Alta, Reanuda, CopiarAMarcos,
       DevolverHueco, EnlazarHueco, OlvidarRegistro, Suspende, UbicarEnHueco, UbicarAlFinal, EscribirEnSwap,
       Registrar, EnlazarRegistro, Termina, TablaDestruida, Contestar, EscribirPagina
  <2> QED BY <2>1, <2>2
<1>3. \A i \in DOMAIN tabla[q] : contenido'[tabla[q][i]] = contenido[tabla[q][i]]
  <2> SUFFICES ASSUME NEW i \in DOMAIN tabla[q]
               PROVE  contenido'[tabla[q][i]] = contenido[tabla[q][i]]
    OBVIOUS
  <2>1. tabla[q][i] \in NroMarcos /\ \A j \in DOMAIN tabla[p] : tabla[p][j] # tabla[q][i]
    BY <1>1 DEF MarcosPropios
  <2>2. CASE CopiarAMarcos(p)
    BY <2>1, <2>2 DEF CopiarAMarcos
  <2>3. CASE EscribirPagina(p)
    <3>1. PICK j \in 1 .. Len(tabla[p]), d \in Datos : contenido' = [contenido EXCEPT ![tabla[p][j]] = d]
      BY <2>3, DatoEscrito
    <3> QED BY <1>1, <2>1, <3>1
  <2>4. CASE ~CopiarAMarcos(p) /\ ~EscribirPagina(p)
    BY <2>4 DEF Paso, Pide, PedirInicio, PedirReanudacion, PedirReanudacionSinRegistro, PedirSuspension,
       PedirFin, Inicializa, Contar, TomarMarco, SinMarcos, SinPrograma, Alta, Reanuda,
       DevolverHueco, EnlazarHueco, OlvidarRegistro, Suspende, UbicarEnHueco, UbicarAlFinal, EscribirEnSwap,
       Registrar, EnlazarRegistro, Termina, LiberarMarco, TablaDestruida, Contestar, fisica
  <2> QED BY <2>2, <2>3, <2>4
<1> QED BY <1>2, <1>3 DEF Contenidos

\* desuspender_proceso puts every page in the frame of its number.
LEMMA CopiaEnMarcos ==
    ASSUME IInvRegistros, NEW p \in Procs, CopiarAMarcos(p)
    PROVE  Contenidos(p)' = buffer[p]
<1>1. pc[p] = "copiando" /\ tabla' = tabla
  BY DEF CopiarAMarcos, En
<1>2. /\ Len(buffer[p]) = Len(tabla[p]) /\ buffer[p] \in Seq(Datos) /\ tabla[p] \in Seq(NroMarcos)
      /\ Len(tabla[p]) \in Nat
  BY <1>1, CopiaYTabla
<1>3. DOMAIN buffer[p] = 1 .. Len(tabla[p]) /\ DOMAIN tabla[p] = 1 .. Len(tabla[p])
      /\ \A i \in DOMAIN tabla[p] : tabla[p][i] \in NroMarcos
  BY <1>2
<1>4. ASSUME NEW i \in DOMAIN tabla[p] PROVE contenido'[tabla[p][i]] = buffer[p][i]
  <2> DEFINE k == CHOOSE j \in DOMAIN tabla[p] : tabla[p][j] = tabla[p][i]
  <2>1. k \in DOMAIN tabla[p] /\ tabla[p][k] = tabla[p][i]
    OBVIOUS
  <2>2. contenido'[tabla[p][i]] = buffer[p][k]
    BY <1>3 DEF CopiarAMarcos
  <2> HIDE DEF k
  <2>3. k = i
    BY <2>1 DEF IInvRegistros, IInv, MarcosPropios
  <2> QED BY <2>2, <2>3
<1>5. Contenidos(p)' = [i \in DOMAIN tabla[p] |-> contenido'[tabla[p][i]]]
  BY <1>1 DEF Contenidos
<1>6. [i \in DOMAIN tabla[p] |-> contenido'[tabla[p][i]]] = [i \in DOMAIN buffer[p] |-> buffer[p][i]]
  BY <1>3, <1>4
<1>7. buffer[p] = [i \in DOMAIN buffer[p] |-> buffer[p][i]]
  BY <1>2
<1> QED BY <1>5, <1>6, <1>7

\* An update reaches the frame of the page and nothing else.
LEMMA EscrituraEnMarcos ==
    ASSUME IInvRegistros, NEW p \in Procs, EscribirPagina(p), Contenidos(p) = escrito[p]
    PROVE  Contenidos(p)' = escrito'[p]
<1>1. /\ tabla[p] \in Seq(NroMarcos) /\ contenido \in [NroMarcos -> Datos] /\ tabla' = tabla
      /\ escrito \in [Procs -> Seq(Datos)]
  BY DEF EscribirPagina, IInvRegistros, TypeOK
<1>2. PICK i \in 1 .. Len(tabla[p]), d \in Datos :
        /\ tabla[p][i] \in NroMarcos
        /\ contenido' = [contenido EXCEPT ![tabla[p][i]] = d]
        /\ escrito' = [escrito EXCEPT ![p][i] = d]
  BY DatoEscrito
<1>3. DOMAIN tabla[p] = 1 .. Len(tabla[p]) /\ \A j \in DOMAIN tabla[p] : tabla[p][j] \in NroMarcos
  BY <1>1
<1>4. escrito'[p] = [escrito[p] EXCEPT ![i] = d]
  BY <1>1, <1>2
<1>5. \A j \in DOMAIN tabla[p] : contenido'[tabla[p][j]] = IF j = i THEN d ELSE contenido[tabla[p][j]]
  <2>1. \A j \in DOMAIN tabla[p] : tabla[p][j] = tabla[p][i] => j = i
    BY <1>3 DEF IInvRegistros, IInv, MarcosPropios
  <2> QED BY <1>1, <1>2, <1>3, <2>1
<1>6. escrito[p] = [j \in DOMAIN tabla[p] |-> contenido[tabla[p][j]]]
  BY DEF Contenidos
<1>7. escrito'[p] = [j \in DOMAIN tabla[p] |-> IF j = i THEN d ELSE contenido[tabla[p][j]]]
  BY <1>4, <1>6
<1>8. Contenidos(p)' = [j \in DOMAIN tabla[p] |-> contenido'[tabla[p][j]]]
  BY <1>1 DEF Contenidos
<1> QED BY <1>5, <1>7, <1>8

ConSusPaginas(p) ==
    \/ vida[p] = "residente" /\ pedido[p] = "nada"
    \/ pc[p] = "acepta"
    \/ pc[p] \in {"devolviendo", "enlazandoHueco", "olvidando"}

\* The processes whose frames hold what they should.
LEMMA ConPaginasDef ==
    ContenidoEnMarcos <=> \A p \in Procs : ConSusPaginas(p) => Contenidos(p) = escrito[p]
BY DEF ContenidoEnMarcos, ConSusPaginas, PasosDeReanudacion

\* Frames hold what they should after every step.
LEMMA ContenidoEnMarcosSigue ==
    ASSUME IInvRegistros, ContenidoEnMarcos, ContenidoEnCopia, NEW p \in Procs, Paso(p)
    PROVE  ContenidoEnMarcos'
<1>1. Control
  BY ControlVale
<1>2. ASSUME NEW q \in Procs \ {p}, ConSusPaginas(q)' PROVE Contenidos(q)' = escrito'[q]
  <2>1. ConSusPaginas(q)
    BY <1>1, <1>2, LosDemas DEF ConSusPaginas
  <2> QED BY <2>1, ConPaginasDef, EscritoSigue, MarcosDeLosDemas
<1>3. ASSUME ConSusPaginas(p)' PROVE Contenidos(p)' = escrito'[p]
  <2> USE <1>1 DEF Control, TiposDeControl
  <2>1. CASE CopiarAMarcos(p)
    <3>1. pc[p] = "copiando" /\ pedido[p] = "INICIALIZAR_PROCESO_SUSPENDIDO" /\ escrito' = escrito
      BY <2>1 DEF CopiarAMarcos, En, PasoSegunPedido, PasosDeReanudacion
    <3>2. buffer[p] = escrito[p]
      BY <3>1 DEF ContenidoEnCopia
    <3> QED BY <2>1, <3>1, <3>2, CopiaEnMarcos
  <2>2. CASE EscribirPagina(p)
    <3>1. ConSusPaginas(p)
      BY <2>2 DEF EscribirPagina, ConSusPaginas
    <3> QED BY <2>2, <3>1, ConPaginasDef, EscrituraEnMarcos
  <2>3. CASE Alta(p)
    <3>1. UNCHANGED <<contenido, tabla>> /\ pc[p] = "tomando" /\ UNCHANGED <<vida, pedido>>
      BY <2>3 DEF Alta, fisica, En
    <3>2. pedido[p] # "nada"
      BY <3>1 DEF HiloConPedido
    <3>3. pedido[p] = "INICIALIZAR_PROCESO_DESDE_NEW"
      BY <1>3, <2>3, <3>1, <3>2 DEF Alta, Pasa, ConSusPaginas
    <3>4. escrito'[p] = Contenidos(p)
      <4>1. escrito \in [Procs -> Seq(Datos)]
        BY DEF IInvRegistros, TypeOK
      <4> QED BY <2>3, <3>3, <4>1 DEF Alta
    <3> QED BY <3>1, <3>4 DEF Contenidos
  <2>4. CASE TomarMarco(p) \/ LiberarMarco(p)
    <3>1. pc[p] \in {"tomando", "soltando"} /\ UNCHANGED <<pc, pedido>>
      BY <2>4 DEF TomarMarco, LiberarMarco, En, hilos
    <3>2. pedido[p] # "nada"
      BY <3>1 DEF HiloConPedido
    <3> QED BY <1>3, <3>1, <3>2 DEF ConSusPaginas
  <2>5. CASE Pide(p)
    <3>1. pedido'[p] # "nada" /\ pc'[p] \in {"contando", "rechaza", "confirma", "ubicando", "soltando"}
      BY <2>5 DEF Pide, PedirInicio, PedirReanudacion, PedirReanudacionSinRegistro, PedirSuspension,
         PedirFin, Recibir, UnoPorProceso, Pasa
    <3> QED BY <1>3, <3>1 DEF ConSusPaginas
  <2>6. CASE Contar(p) \/ SinMarcos(p) \/ SinPrograma(p) \/ Suspende(p) \/ TablaDestruida(p)
    <3>1. pc[p] # "libre" /\ UNCHANGED pedido
      BY <2>6 DEF Contar, SinMarcos, SinPrograma, TablaDestruida, Suspende, UbicarEnHueco, UbicarAlFinal,
         EscribirEnSwap, Registrar, EnlazarRegistro, En
    <3>2. pc'[p] \notin {"acepta", "devolviendo", "enlazandoHueco", "olvidando"}
      BY <2>6 DEF Contar, SinMarcos, SinPrograma, TablaDestruida, Suspende, UbicarEnHueco, UbicarAlFinal,
         EscribirEnSwap, Registrar, EnlazarRegistro, Pasa
    <3>3. pedido[p] # "nada"
      BY <3>1 DEF HiloConPedido
    <3> QED BY <1>3, <3>1, <3>2, <3>3 DEF ConSusPaginas
  <2>7. CASE DevolverHueco(p) \/ EnlazarHueco(p) \/ OlvidarRegistro(p)
    <3>1. ConSusPaginas(p) /\ UNCHANGED <<contenido, tabla, escrito>>
      BY <2>7 DEF DevolverHueco, EnlazarHueco, OlvidarRegistro, En, fisica, ConSusPaginas
    <3> QED BY <3>1, ConPaginasDef DEF Contenidos
  <2>8. CASE Contestar(p)
    <3>1. UNCHANGED <<contenido, tabla, escrito>> /\ pc'[p] = "libre"
      BY <2>8 DEF Contestar, fisica, Pasa
    <3>2. vida'[p] = "residente"
      BY <1>3, <3>1 DEF ConSusPaginas
    <3>3. pc[p] = "acepta" \/ (pc[p] = "rechaza" /\ vida[p] = "residente")
      BY <2>8, <3>2 DEF Contestar
    <3>4. pc[p] = "acepta"
      <4> SUFFICES ASSUME pc[p] = "rechaza", vida[p] = "residente" PROVE FALSE
        BY <3>3
      <4>1. Entra(p)
        BY DEF PasoSegunPedido
      <4> QED BY <4>1 DEF Entra, PedidoSegunVida
    <3> QED BY <3>1, <3>4, ConPaginasDef DEF Contenidos, ConSusPaginas
  <2> QED BY <2>1, <2>2, <2>3, <2>4, <2>5, <2>6, <2>7, <2>8 DEF Paso, Inicializa, Reanuda, Termina
<1>4. \A q \in Procs : ConSusPaginas(q)' => Contenidos(q)' = escrito'[q]
  BY <1>2, <1>3
<1> QED BY <1>4 DEF ContenidoEnMarcos, ConSusPaginas, PasosDeReanudacion

\* Lists with the same elements in the same places are the same.
LEMMA MismaLista ==
    ASSUME NEW S, NEW a \in Seq(S), NEW b \in Seq(S), Len(a) = Len(b), \A k \in 1 .. Len(a) : a[k] = b[k]
    PROVE  a = b
<1>1. a = [k \in 1 .. Len(a) |-> a[k]] /\ b = [k \in 1 .. Len(a) |-> b[k]]
  OBVIOUS
<1>2. [k \in 1 .. Len(a) |-> a[k]] = [k \in 1 .. Len(a) |-> b[k]]
  OBVIOUS
<1> QED BY <1>1, <1>2

\* What the file holds for a process that is out of memory is what it should hold.
LEMMA LoQueHayEnSwap ==
    ASSUME IInvContenido, NEW p \in Procs, pedido[p] = "nada", RegistrosDe(p) # {}
    PROVE  SubSeq(archivo, RegistroDe(p).offset + 1, Fin(RegistroDe(p))) = escrito[p]
<1>1. IInvRegistros /\ HiloConPedido
  BY DEF IInvContenido, IInvSwap, IInvRegistros, IInv
<1>2. PICK i \in DOMAIN enSwap : enSwap[i].pid = p
  BY DEF RegistrosDe
<1>3. /\ enSwap \in Seq(Registro) /\ archivo \in Seq(Datos) /\ RegistroUnico
      /\ escrito \in [Procs -> Seq(Datos)]
  BY <1>1 DEF IInvRegistros, TypeOK
<1>4. /\ enSwap[i].offset \in Nat /\ enSwap[i].tam \in Nat
      /\ enSwap[i].offset + enSwap[i].tam <= Len(archivo)
  BY <1>1, <1>2, TiposDeAreas
<1>5. RegistroDe(p) = enSwap[i] /\ Fin(enSwap[i]) = enSwap[i].offset + enSwap[i].tam
  BY <1>2, <1>3, RegistroHallado DEF Fin
<1>6. i \in AreasRegistradas
  BY <1>1, <1>2 DEF AreasRegistradas, HiloConPedido
<1>7. Len(escrito[p]) = enSwap[i].tam /\ EnArchivo(enSwap[i].offset, enSwap[i].tam, escrito[p])
  BY <1>2, <1>6 DEF IInvContenido, ContenidoEnArchivo
<1> DEFINE b == SubSeq(archivo, enSwap[i].offset + 1, enSwap[i].offset + enSwap[i].tam)
<1>8. /\ b \in Seq(Datos) /\ Len(b) = enSwap[i].tam
      /\ \A k \in 1 .. enSwap[i].tam : b[k] = archivo[enSwap[i].offset + k]
  BY <1>3, <1>4, ParteDelArchivo
<1> HIDE DEF b
<1>9. b = escrito[p]
  <2>1. escrito[p] \in Seq(Datos) /\ Len(escrito[p]) = Len(b)
    BY <1>3, <1>7, <1>8
  <2>2. \A k \in 1 .. Len(b) : b[k] = escrito[p][k]
    BY <1>7, <1>8 DEF EnArchivo
  <2> QED BY <1>8, <2>1, <2>2, MismaLista
<1> QED BY <1>5, <1>9 DEF b

\* So do the copies suspender_proceso and desuspender_proceso work with.
LEMMA ContenidoEnCopiaSigue ==
    ASSUME IInvContenido, NEW p \in Procs, Paso(p)
    PROVE  ContenidoEnCopia'
<1>1. IInvRegistros /\ Control
  BY ControlVale DEF IInvContenido, IInvSwap
<1> DEFINE ConCopia(q) ==
        \/ pc[q] \in PasosDeSuspension
        \/ pedido[q] = "INICIALIZAR_PROCESO_SUSPENDIDO" /\ pc[q] \in {"contando", "tomando", "copiando"}
<1>2. \A q \in Procs : ConCopia(q) => buffer[q] = escrito[q]
  BY DEF IInvContenido, ContenidoEnCopia
<1>3. ASSUME NEW q \in Procs \ {p}, ConCopia(q)' PROVE buffer'[q] = escrito'[q]
  <2>1. ConCopia(q)
    BY <1>1, <1>3, LosDemas
  <2> QED BY <1>1, <1>2, <2>1, EscritoSigue, TiposDeCopia
<1>4. ASSUME ConCopia(p)' PROVE buffer'[p] = escrito'[p]
  <2> USE <1>1 DEF Control, TiposDeControl
  <2>1. CASE PedirReanudacion(p)
    <3>1. buffer \in [Procs -> Seq(Datos)]
      BY DEF IInvRegistros, TypeOK
    <3>2. /\ buffer'[p] = SubSeq(archivo, RegistroDe(p).offset + 1, Fin(RegistroDe(p)))
          /\ escrito' = escrito /\ pedido[p] = "nada" /\ RegistrosDe(p) # {}
      BY <2>1, <3>1 DEF PedirReanudacion, Recibir, UnoPorProceso
    <3> QED BY <3>2, LoQueHayEnSwap
  <2>2. CASE PedirSuspension(p)
    <3>1. buffer \in [Procs -> Seq(Datos)]
      BY DEF IInvRegistros, TypeOK
    <3>2. vida[p] = "residente" /\ pedido[p] = "nada" /\ buffer'[p] = LeerMarcos(p) /\ escrito' = escrito
      BY <2>2, <3>1 DEF PedirSuspension, Recibir, UnoPorProceso
    <3>3. LeerMarcos(p) = Contenidos(p)
      BY DEF LeerMarcos, Contenidos
    <3>4. Contenidos(p) = escrito[p]
      BY <3>2 DEF IInvContenido, ContenidoEnMarcos
    <3> QED BY <3>2, <3>3, <3>4
  <2>3. CASE PedirInicio(p) \/ PedirReanudacionSinRegistro(p) \/ PedirFin(p)
    <3>1. \/ pedido'[p] # "INICIALIZAR_PROCESO_SUSPENDIDO" /\ pc'[p] \in {"contando", "confirma", "soltando"}
          \/ pc'[p] = "rechaza"
      BY <2>3 DEF PedirInicio, PedirReanudacionSinRegistro, PedirFin, Recibir, UnoPorProceso, Pasa
    <3> QED BY <1>4, <3>1 DEF PasosDeSuspension
  <2>4. CASE Contestar(p)
    <3>1. pc'[p] = "libre"
      BY <2>4 DEF Contestar, Pasa
    <3> QED BY <1>4, <3>1 DEF PasosDeSuspension
  <2>5. CASE ~PedirReanudacion(p) /\ ~PedirSuspension(p) /\ ~Contestar(p) /\ ~PedirInicio(p)
             /\ ~PedirReanudacionSinRegistro(p) /\ ~PedirFin(p)
    <3>1. buffer' = buffer /\ pedido' = pedido
      BY <2>5 DEF Paso, Pide, Inicializa, Contar, TomarMarco, SinMarcos, SinPrograma, Alta, Reanuda,
         CopiarAMarcos, DevolverHueco, EnlazarHueco, OlvidarRegistro, Suspende, UbicarEnHueco, UbicarAlFinal,
         EscribirEnSwap, Registrar, EnlazarRegistro, Termina, LiberarMarco, TablaDestruida, EscribirPagina, hilos
    <3>2. ConCopia(p)
      <4>1. CASE Inicializa(p)
        <5>1. pc[p] \in {"contando", "tomando"} 
              /\ pc'[p] \in {"tomando", "rechaza", "soltando", "acepta", "copiando"}
              /\ (pc'[p] = "copiando" => pedido[p] # "INICIALIZAR_PROCESO_DESDE_NEW")
          BY <4>1 DEF Inicializa, Contar, TomarMarco, SinMarcos, SinPrograma, Alta, En, Pasa, hilos
        <5> QED BY <1>4, <3>1, <5>1 DEF PasosDeSuspension
      <4>2. CASE Reanuda(p)
        <5>1. pc'[p] \in {"devolviendo", "enlazandoHueco", "olvidando", "acepta"}
          BY <4>2 DEF Reanuda, CopiarAMarcos, DevolverHueco, EnlazarHueco, OlvidarRegistro, Pasa
        <5> QED BY <1>4, <5>1 DEF PasosDeSuspension
      <4>3. CASE Suspende(p)
        BY <4>3 DEF Suspende, UbicarEnHueco, UbicarAlFinal, EscribirEnSwap, Registrar, EnlazarRegistro, En,
           PasosDeSuspension
      <4>4. CASE LiberarMarco(p) \/ TablaDestruida(p) \/ EscribirPagina(p)
        <5>1. pc'[p] = pc[p] \/ pc'[p] \in {"rechaza", "confirma"}
          BY <4>4 DEF LiberarMarco, TablaDestruida, EscribirPagina, Pasa, hilos
        <5> QED BY <1>4, <3>1, <5>1 DEF PasosDeSuspension
      <4> QED BY <2>5, <4>1, <4>2, <4>3, <4>4 DEF Paso, Pide, Termina
    <3>3. escrito'[p] = escrito[p]
      <4>1. ~EscribirPagina(p)
        BY <3>2 DEF EscribirPagina, HiloConPedido, PasosDeSuspension
      <4>2. ~(Alta(p) /\ pedido[p] = "INICIALIZAR_PROCESO_DESDE_NEW")
        <5>1. pedido[p] = "INICIALIZAR_PROCESO_DESDE_NEW" => pc[p] \in PasosDeSuspension
          BY <3>2
        <5> QED BY <5>1 DEF Alta, En, PasosDeSuspension
      <4> QED BY <4>1, <4>2, EscritoSigue
    <3> QED BY <1>2, <3>1, <3>2, <3>3
  <2> QED BY <2>1, <2>2, <2>3, <2>4, <2>5
<1>5. \A q \in Procs : ConCopia(q)' => buffer'[q] = escrito'[q]
  BY <1>3, <1>4
<1> QED BY <1>5 DEF ContenidoEnCopia

\* Writing the copy of p leaves every other area of the file as it was.
LEMMA ArchivoEnOtras ==
    ASSUME IInvContenido, NEW p \in Procs, Paso(p), NEW o \in Nat, NEW n \in Nat, NEW datos,
           o + n <= Len(archivo), EnArchivo(o, n, datos), Aparte(o, n, lugar[p], Len(buffer[p]))
    PROVE  \A k \in 1 .. n : archivo'[o + k] = datos[k]
<1>1. IInvRegistros
  BY DEF IInvContenido, IInvSwap
<1>2. CASE archivo' = archivo
  BY <1>2 DEF EnArchivo
<1>3. CASE Graba(p)
  <2>1. lugar[p] \in Nat /\ Len(buffer[p]) \in Nat /\ Len(archivo) \in Nat
    BY <1>1, TiposDeAreas
  <2>2. ASSUME NEW k \in 1 .. n PROVE archivo'[o + k] = archivo[o + k]
    <3> DEFINE l == lugar[p]
               m == Len(buffer[p])
               a == Len(archivo)
    <3>1. o + k \in 1 .. Mayor(a, l + m) /\ o + k \notin l + 1 .. l + m
      <4>1. l \in Nat /\ m \in Nat /\ a \in Nat /\ o + n <= a /\ Aparte(o, n, l, m)
        BY <2>1
      <4> HIDE DEF l, m, a
      <4> QED BY <4>1 DEF Mayor, Aparte
    <3> QED BY <1>3, <3>1 DEF Graba
  <2> QED BY <2>2 DEF EnArchivo
<1> QED BY <1>1, <1>2, <1>3, ArchivoTrasPaso

\* Only forgetting its record takes a thread past that step.
LEMMA SaleDeOlvidando ==
    ASSUME Control, NEW p \in Procs, Paso(p), ~OlvidarRegistro(p), pc[p] = "olvidando"
    PROVE  pc'[p] = "olvidando"
<1> USE DEF Control, TiposDeControl
<1>1. CASE Pide(p)
  BY <1>1 DEF Pide, PedirInicio, PedirReanudacion, PedirReanudacionSinRegistro,
     PedirSuspension, PedirFin, Recibir, UnoPorProceso, HiloConPedido
<1>2. CASE Inicializa(p)
  BY <1>2 DEF Inicializa, Contar, TomarMarco, SinMarcos, SinPrograma, Alta, En
<1>3. CASE Reanuda(p)
  BY <1>3 DEF Reanuda, CopiarAMarcos, DevolverHueco, EnlazarHueco, En
<1>4. CASE Suspende(p)
  BY <1>4 DEF Suspende, UbicarEnHueco, UbicarAlFinal, EscribirEnSwap, Registrar, EnlazarRegistro, En
<1>5. CASE Termina(p)
  BY <1>5 DEF Termina, LiberarMarco, TablaDestruida, Contestar, En
<1>6. CASE EscribirPagina(p)
  BY <1>6 DEF EscribirPagina, hilos
<1> QED BY <1>1, <1>2, <1>3, <1>4, <1>5, <1>6 DEF Paso

\* The three ways the list of records changes, for what the file holds.
LEMMA RegistrosConContenido ==
    ASSUME IInvContenido, NEW p \in Procs, Paso(p), NEW j \in AreasRegistradas',
           j \in DOMAIN enSwap'
    PROVE  /\ Len(escrito'[enSwap'[j].pid]) = enSwap'[j].tam
           /\ \A k \in 1 .. enSwap'[j].tam :
                 archivo'[enSwap'[j].offset + k] = escrito'[enSwap'[j].pid][k]
<1>1. /\ IInvSwap /\ IInvRegistros /\ UltimoVigente /\ Repartido /\ Control
      /\ enSwap \in Seq(Registro) /\ pc \in [Procs -> Pasos] /\ ContenidoEnArchivo /\ ContenidoEnCopia
  BY ControlVale DEF IInvContenido, IInvSwap, IInvRegistros, TypeOK
\* A record that was there before.
<1>2. ASSUME NEW k \in AreasRegistradas
      PROVE  /\ Len(escrito'[enSwap[k].pid]) = enSwap[k].tam
             /\ \A m \in 1 .. enSwap[k].tam : archivo'[enSwap[k].offset + m] = escrito'[enSwap[k].pid][m]
  <2>1. /\ k \in DOMAIN enSwap /\ enSwap[k].pid \in Procs /\ enSwap[k].offset \in Nat /\ enSwap[k].tam \in Nat
        /\ enSwap[k].offset + enSwap[k].tam <= Len(archivo)
    BY <1>1, TiposDeAreas DEF AreasRegistradas
  <2>2. escrito'[enSwap[k].pid] = escrito[enSwap[k].pid]
    BY <1>1, <2>1, ConRegistroNadaSeEscribe DEF IInvRegistros, SinRegistroResidente
  <2>3. /\ Len(escrito[enSwap[k].pid]) = enSwap[k].tam
        /\ \A m \in 1 .. enSwap[k].tam : archivo[enSwap[k].offset + m] = escrito[enSwap[k].pid][m]
    BY <1>1 DEF ContenidoEnArchivo, EnArchivo
  <2>4. CASE archivo' = archivo
    BY <2>2, <2>3, <2>4
  <2>5. CASE Graba(p)
    <3>1. p \in EnGrabacion
      BY <2>5 DEF Graba, EscribirEnSwap, En, EnGrabacion
    <3>2. Aparte(enSwap[k].offset, enSwap[k].tam, lugar[p], Len(buffer[p]))
      BY <1>1, <3>1 DEF Repartido, GrabacionAparte
    <3>3. EnArchivo(enSwap[k].offset, enSwap[k].tam, escrito[enSwap[k].pid])
      BY <2>3 DEF EnArchivo
    <3> DEFINE o == enSwap[k].offset
               n == enSwap[k].tam
               d == escrito[enSwap[k].pid]
    <3>4. /\ o \in Nat /\ n \in Nat /\ o + n <= Len(archivo) /\ EnArchivo(o, n, d)
          /\ Aparte(o, n, lugar[p], Len(buffer[p]))
      BY <2>1, <3>2, <3>3
    <3>5. \A m \in 1 .. n : archivo'[o + m] = d[m]
      <4> HIDE DEF o, n, d
      <4> QED BY <3>4, ArchivoEnOtras
    <3> QED BY <2>2, <2>3, <3>5
  <2> QED BY <1>1, <2>4, <2>5, ArchivoTrasPaso
<1>3. CASE enSwap' = enSwap /\ ~OlvidarRegistro(p)
  <2>1. j \in AreasRegistradas
    <3>1. enSwap[j].pid \in Procs /\ j \in DOMAIN enSwap
      BY <1>1, <1>3, TiposDeAreas
    <3>2. \A q \in Procs : pc[q] = "olvidando" => pc'[q] = "olvidando"
      <4>1. pc[p] = "olvidando" => pc'[p] = "olvidando"
        BY <1>1, <1>3, SaleDeOlvidando
      <4> QED BY <1>1, <4>1, LosDemas
    <3> QED BY <1>3, <3>1, <3>2 DEF AreasRegistradas
  <2> QED BY <1>2, <1>3, <2>1
<1>4. CASE Anota(p)
  <2> DEFINE n == Len(enSwap)
  <2>1. /\ pc[p] = "enlazandoRegistro" /\ pc' = [pc EXCEPT ![p] = "soltando"]
        /\ UNCHANGED <<archivo, escrito>> /\ enSwap' = Append(enSwap, Nuevo(p))
    BY <1>4 DEF Anota, EnlazarRegistro, En, Pasa
  <2>2. /\ DOMAIN enSwap = 1 .. n /\ DOMAIN enSwap' = 1 .. n + 1 /\ n \in Nat
        /\ enSwap'[n + 1] = Nuevo(p) /\ \A i \in 1 .. n : enSwap'[i] = enSwap[i]
    BY <1>1, <2>1
  <2> HIDE DEF n
  <2>3. CASE j \in 1 .. n
    <3>1. enSwap'[j] = enSwap[j] /\ enSwap[j].pid \in Procs /\ j \in DOMAIN enSwap
      BY <1>1, <2>2, <2>3, TiposDeAreas
    <3>2. pc'[enSwap[j].pid] # "olvidando"
      BY <3>1 DEF AreasRegistradas
    <3>3. pc[enSwap[j].pid] # "olvidando"
      BY <1>1, <2>1, <3>1, <3>2
    <3>4. j \in AreasRegistradas
      BY <3>1, <3>3 DEF AreasRegistradas
    <3> QED BY <1>2, <3>1, <3>4
  <2>4. CASE j = n + 1
    <3>1. enSwap'[j].pid = p /\ enSwap'[j].offset = lugar[p] /\ enSwap'[j].tam = Len(buffer[p])
      BY <2>2, <2>4 DEF Nuevo
    <3>2. buffer[p] = escrito[p] /\ EnArchivo(lugar[p], Len(buffer[p]), buffer[p])
      BY <1>1, <2>1 DEF ContenidoEnCopia, ContenidoEnArchivo, PasosDeSuspension
    <3> QED BY <2>1, <3>1, <3>2 DEF EnArchivo
  <2> QED BY <2>2, <2>3, <2>4
<1>5. ASSUME NEW i \in 1 .. Len(enSwap), Borra(p, i)
      PROVE  \E k \in AreasRegistradas : enSwap'[j] = enSwap[k]
  BY <1>1, <1>5, RegistradasTrasBorrar
<1>6. CASE \E i \in 1 .. Len(enSwap) : Borra(p, i)
  <2>1. PICK k \in AreasRegistradas : enSwap'[j] = enSwap[k]
    BY <1>5, <1>6
  <2> QED BY <1>2, <2>1
<1> QED BY <1>1, <1>3, <1>4, <1>6, RegistroAnotado

\* So do the areas of the file.
LEMMA ContenidoEnArchivoSigue ==
    ASSUME IInvContenido, NEW p \in Procs, Paso(p)
    PROVE  ContenidoEnArchivo'
<1>1. /\ IInvSwap /\ IInvRegistros /\ Control /\ ContenidoEnArchivo
  BY ControlVale DEF IInvContenido, IInvSwap
<1>2. ASSUME NEW j \in AreasRegistradas'
      PROVE  /\ Len(escrito'[enSwap'[j].pid]) = enSwap'[j].tam
             /\ \A k \in 1 .. enSwap'[j].tam :
                   archivo'[enSwap'[j].offset + k] = escrito'[enSwap'[j].pid][k]
  <2>1. j \in DOMAIN enSwap'
    BY DEF AreasRegistradas
  <2> QED BY <2>1, RegistrosConContenido
<1>3. ASSUME NEW q \in Procs, pc'[q] \in {"registrando", "enlazandoRegistro"}
      PROVE  \A k \in 1 .. Len(buffer'[q]) : archivo'[lugar'[q] + k] = buffer'[q][k]
  <2> USE <1>1 DEF Control, TiposDeControl
  <2>1. CASE EscribirEnSwap(p) /\ q = p
    <3>1. Graba(p) /\ UNCHANGED <<buffer, lugar>>
      BY <2>1, ArchivoTrasPaso DEF EscribirEnSwap
    <3>2. lugar[p] \in Nat /\ Len(buffer[p]) \in Nat /\ Len(archivo) \in Nat
      BY TiposDeAreas
    <3> DEFINE l == lugar[p]
               m == Len(buffer[p])
               a == Len(archivo)
               b == buffer[p]
    <3>3. ASSUME NEW k \in 1 .. m PROVE archivo'[l + k] = b[k]
      <4>1. \A n \in 1 .. Mayor(a, l + m) : archivo'[n] = IF n \in l + 1 .. l + m THEN b[n - l] ELSE archivo[n]
        BY <3>1 DEF Graba
      <4>2. l \in Nat /\ m \in Nat /\ a \in Nat
        BY <3>2
      <4> HIDE DEF l, m, a, b
      <4>3. l + k \in 1 .. Mayor(a, l + m) /\ l + k \in l + 1 .. l + m /\ (l + k) - l = k
        BY <4>2 DEF Mayor
      <4>4. archivo'[l + k] = b[(l + k) - l]
        BY <4>1, <4>3
      <4> QED BY <4>3, <4>4
    <3> QED BY <2>1, <3>1, <3>3
  <2>2. CASE EscribirEnSwap(p) /\ q # p
    <3>1. pc[p] = "grabando" /\ pc[q] \in {"registrando", "enlazandoRegistro"}
      BY <1>3, <2>2, LosDemas DEF EscribirEnSwap, En
    <3>2. q \in EnGrabacion /\ pc[p] \in PasosDeSuspension
      BY <3>1 DEF EnGrabacion, PasosDeSuspension
    <3> QED BY <2>2, <3>2, UnaGrabacion
  <2>3. CASE ~EscribirEnSwap(p)
    <3>1. archivo' = archivo
      BY <2>3, ArchivoTrasPaso DEF Graba
    <3>2. pc[q] \in {"registrando", "enlazandoRegistro"} /\ buffer'[q] = buffer[q] /\ lugar'[q] = lugar[q]
      <4>1. CASE q # p
        BY <1>3, <4>1, LosDemas, TiposDeCopia, TiposDeLugar
      <4>2. CASE q = p
        <5>1. CASE Pide(p)
          BY <1>3, <4>2, <5>1 DEF Pide, PedirInicio, PedirReanudacion, PedirReanudacionSinRegistro,
             PedirSuspension, PedirFin, Recibir, UnoPorProceso, Pasa
        <5>2. CASE Inicializa(p)
          BY <1>3, <4>2, <5>2 DEF Inicializa, Contar, TomarMarco, SinMarcos, SinPrograma, Alta, En, Pasa, hilos
        <5>3. CASE Reanuda(p)
          BY <1>3, <4>2, <5>3 DEF Reanuda, CopiarAMarcos, DevolverHueco, EnlazarHueco, OlvidarRegistro, Pasa
        <5>4. CASE Suspende(p)
          BY <1>3, <2>3, <4>2, <5>4 DEF Suspende, UbicarEnHueco, UbicarAlFinal, Registrar, EnlazarRegistro,
             En, Pasa
        <5>5. CASE Termina(p)
          BY <1>3, <4>2, <5>5 DEF Termina, LiberarMarco, TablaDestruida, Contestar, En, Pasa, hilos
        <5>6. CASE EscribirPagina(p)
          BY <1>3, <4>2, <5>6 DEF EscribirPagina, hilos
        <5> QED BY <5>1, <5>2, <5>3, <5>4, <5>5, <5>6 DEF Paso
      <4> QED BY <4>1, <4>2
    <3> QED BY <3>1, <3>2 DEF ContenidoEnArchivo, EnArchivo
  <2> QED BY <2>1, <2>2, <2>3
<1> QED BY <1>2, <1>3 DEF ContenidoEnArchivo, EnArchivo

\* At first there is nothing to hold.
LEMMA IniciaContenido == Init => IInvContenido
<1> SUFFICES ASSUME Init PROVE IInvContenido
  OBVIOUS
<1>1. IInvSwap
  BY IniciaSwap
<1>2. /\ enSwap = <<>> /\ \A p \in Procs : pc[p] = "libre" /\ vida[p] = "nuevo"
  BY DEF Init
<1>3. ContenidoEnMarcos /\ ContenidoEnCopia
  BY <1>2 DEF ContenidoEnMarcos, ContenidoEnCopia, PasosDeReanudacion, PasosDeSuspension
<1>4. ContenidoEnArchivo
  BY <1>2 DEF ContenidoEnArchivo, AreasRegistradas
<1> QED BY <1>1, <1>3, <1>4 DEF IInvContenido

\* Every step keeps contents where they should be when list operations do not overlap.
LEMMA ConservaContenido ==
    ASSUME Solapan = FALSE, IInvContenido, [Next]_vars
    PROVE  IInvContenido'
<1>1. IInvSwap /\ IInvRegistros /\ ContenidoEnMarcos /\ ContenidoEnCopia /\ ContenidoEnArchivo
  BY DEF IInvContenido, IInvSwap
<1>2. IInvSwap'
  BY <1>1, ConservaSwap
<1>3. CASE Next
  <2>1. PICK p \in Procs : Paso(p)
    BY <1>3 DEF Next, Paso
  <2> QED BY <1>1, <1>2, <2>1, ContenidoEnMarcosSigue, ContenidoEnCopiaSigue, ContenidoEnArchivoSigue
      DEF IInvContenido
<1>4. CASE UNCHANGED vars
  <2>1. UNCHANGED <<contenido, tabla, enSwap, archivo, pedido, pc, buffer, lugar, vida, escrito>>
    BY <1>4 DEF vars, fisica, swap, hilos
  <2>2. ContenidoEnMarcos' /\ ContenidoEnCopia'
    BY <1>1, <2>1 DEF ContenidoEnMarcos, ContenidoEnCopia, Contenidos
  <2>3. AreasRegistradas' = AreasRegistradas
    BY <2>1 DEF AreasRegistradas
  <2>4. ContenidoEnArchivo'
    BY <1>1, <2>1, <2>3 DEF ContenidoEnArchivo, EnArchivo
  <2> QED BY <1>2, <2>2, <2>4 DEF IInvContenido
<1> QED BY <1>3, <1>4

\* Beside the areas, what the frames of every process, the copies in flight and
\* the areas of the file hold.
THEOREM InvarianteDeContenido ==
    ASSUME Solapan = FALSE
    PROVE  Spec => []IInvContenido
<1>1. IInvContenido /\ [Next]_vars => IInvContenido'
  BY ConservaContenido
<1> QED BY IniciaContenido, <1>1, PTL DEF Spec

\* A process finds in its frames what it last wrote there, however often it was
\* suspended and resumed, whichever frames and holes it was given, and whatever the
\* others did meanwhile (suspender_proceso, desuspender_proceso,
\* actualizar_pagina_completa).  On the same two hypotheses: MemoriaJunta.cfg loses
\* the contents of a process whose resumption overlaps its suspension.
THEOREM ContenidoSePreserva ==
    ASSUME Solapan = FALSE
    PROVE  Spec => []ContenidoPreservado
<1>1. IInvContenido => ContenidoPreservado
  <2> SUFFICES ASSUME IInvContenido, NEW p \in Procs, pedido[p] = "nada"
               PROVE  /\ vida[p] = "residente" => Contenidos(p) = escrito[p]
                      /\ vida[p] = "suspendido" /\ RegistrosDe(p) # {} =>
                            SubSeq(archivo, RegistroDe(p).offset + 1, Fin(RegistroDe(p))) = escrito[p]
    BY DEF ContenidoPreservado
  <2>1. vida[p] = "residente" => Contenidos(p) = escrito[p]
    BY DEF IInvContenido, ContenidoEnMarcos
  <2> QED BY <2>1, LoQueHayEnSwap
<1> QED BY <1>1, InvarianteDeContenido, PTL

-----------------------------------------------------------------------------
(* A suspended process can come back.                                      *)

\* A process that is out of memory, or on its way out with its record linked, has
\* one.
DebeTenerRegistro(p) ==
    /\ Paginas[p] > 0
    /\ \/ vida[p] = "suspendido" /\ pc[p] # "acepta"
       \/ pedido[p] = "SUSPENDER_PROCESO" /\ pc[p] \in {"soltando", "confirma"}

SuspendidoConRegistro == \A p \in Procs : DebeTenerRegistro(p) => TieneRegistro(p)

IInvVuelta == IInvSwap /\ SuspendidoConRegistro

\* A suspended process with pages keeps its record.
LEMMA SuspendidoSigueConRegistro ==
    ASSUME IInvVuelta, NEW p \in Procs, Paso(p)
    PROVE  SuspendidoConRegistro'
<1>1. IInvSwap /\ IInvRegistros /\ UltimoVigente /\ Control /\ SuspendidoConRegistro
      /\ enSwap \in Seq(Registro) /\ Paginas \in [Procs -> Nat]
  BY ControlVale, MemoriaAssumption DEF IInvVuelta, IInvSwap, IInvRegistros, TypeOK
<1> SUFFICES ASSUME NEW q \in Procs, DebeTenerRegistro(q)' PROVE TieneRegistro(q)'
  BY DEF SuspendidoConRegistro
<1> USE <1>1 DEF Control, TiposDeControl
<1>2. Paginas[q] > 0 
  BY DEF DebeTenerRegistro
<1>3. CASE q # p
  <2>1. DebeTenerRegistro(q)
    BY <1>3, LosDemas DEF DebeTenerRegistro
  <2> QED BY <1>3, <2>1, RegistroQueda DEF SuspendidoConRegistro, Paso
<1>4. CASE q = p
  <2>1. CASE Anota(p)
    <3>1. Len(enSwap) + 1 \in DOMAIN enSwap' /\ enSwap'[Len(enSwap) + 1].pid = p
      BY <2>1 DEF Anota, Nuevo
    <3> QED BY <1>4, <3>1 DEF TieneRegistro
  <2>2. CASE OlvidarRegistro(p)
    <3>1. pc[p] = "olvidando" /\ pc'[p] = "acepta" /\ UNCHANGED <<pedido, vida>>
      BY <2>2 DEF OlvidarRegistro, En, Pasa
    <3>2. pedido[p] = "INICIALIZAR_PROCESO_SUSPENDIDO"
      BY <3>1 DEF PasoSegunPedido, PasosDeReanudacion
    <3> QED BY <1>4, <3>1, <3>2 DEF DebeTenerRegistro
  <2>3. CASE ~Anota(p) /\ ~OlvidarRegistro(p)
    <3>1. ~EnlazarRegistro(p)
      BY <2>3, RegistroAnotado DEF Borra
    <3>2. DebeTenerRegistro(p)
      <4>1. CASE PedirInicio(p) \/ PedirReanudacion(p) \/ PedirReanudacionSinRegistro(p) \/ PedirFin(p)
        <5>1. vida' = vida /\ pedido'[p] # "SUSPENDER_PROCESO" /\ pedido[p] = "nada"
          BY <4>1 DEF PedirInicio, PedirReanudacion, PedirReanudacionSinRegistro, PedirFin, Recibir, UnoPorProceso
        <5>2. pc[p] = "libre"
          BY <5>1 DEF HiloConPedido
        <5> QED BY <1>4, <5>1, <5>2 DEF DebeTenerRegistro
      <4>2. CASE PedirSuspension(p)
        <5>1. vida[p] = "residente" /\ pedido[p] = "nada" /\ vida' = vida
              /\ (tabla[p] # <<>> => pc'[p] = "ubicando")
          BY <4>2 DEF PedirSuspension, Recibir, UnoPorProceso, Pasa
        <5>2. Len(tabla[p]) = Paginas[p]
          BY <5>1 DEF PresenteSegunPaso
        <5>3. tabla[p] # <<>>
          BY <1>2, <1>4, <5>2
        <5> QED BY <1>4, <5>1, <5>3 DEF DebeTenerRegistro
      <4>3. CASE Contestar(p)
        <5>1. vida'[p] = "suspendido" /\ pc[p] \in {"acepta", "rechaza", "confirma"} /\ pedido'[p] = "nada"
          BY <1>4, <4>3 DEF Contestar, DebeTenerRegistro
        <5> DEFINE v == CASE pc[p] = "acepta" -> "residente"
                          [] pc[p] = "rechaza" -> vida[p]
                          [] pedido[p] = "SUSPENDER_PROCESO" -> "suspendido"
                          [] OTHER -> "fin"
        <5>2. v = "suspendido"
          BY <4>3, <5>1 DEF Contestar
        <5>3. \/ pc[p] = "rechaza" /\ vida[p] = "suspendido"
              \/ pc[p] = "confirma" /\ pedido[p] = "SUSPENDER_PROCESO"
          <6>1. pc[p] \in {"acepta", "rechaza"} => pedido[p] # "SUSPENDER_PROCESO"
            BY DEF PasoSegunPedido, Entra
          <6> QED BY <5>1, <5>2, <6>1
        <5> HIDE DEF v
        <5> QED BY <1>2, <1>4, <5>3 DEF DebeTenerRegistro
      <4>4. CASE Inicializa(p)
        <5>1. pc[p] \in {"contando", "tomando"} /\ UNCHANGED <<pedido, vida>>
          BY <4>4 DEF Inicializa, Contar, TomarMarco, SinMarcos, SinPrograma, Alta, En, hilos
        <5>2. pedido[p] # "SUSPENDER_PROCESO"
          BY <5>1 DEF PasoSegunPedido, Entra
        <5> QED BY <1>4, <5>1, <5>2 DEF DebeTenerRegistro
      <4>5. CASE Reanuda(p)
        <5>1. pc[p] # "acepta" /\ UNCHANGED <<pedido, vida>> /\ pc[p] \in PasosDeReanudacion
          BY <2>3, <4>5 DEF Reanuda, CopiarAMarcos, DevolverHueco, EnlazarHueco, En, PasosDeReanudacion
        <5>2. pedido[p] # "SUSPENDER_PROCESO"
          BY <5>1 DEF PasoSegunPedido
        <5> QED BY <1>4, <5>1, <5>2 DEF DebeTenerRegistro
      <4>6. CASE Suspende(p)
        <5>1. /\ pc[p] # "acepta" /\ UNCHANGED <<pedido, vida>>
              /\ pc'[p] \in {"grabando", "registrando", "enlazandoRegistro"}
          BY <3>1, <4>6 DEF Suspende, UbicarEnHueco, UbicarAlFinal, EscribirEnSwap, Registrar, En, Pasa
        <5> QED BY <1>4, <5>1 DEF DebeTenerRegistro
      <4>7. CASE LiberarMarco(p) \/ TablaDestruida(p)
        <5>1. pc[p] = "soltando" /\ UNCHANGED <<pedido, vida>>
          BY <4>7 DEF LiberarMarco, TablaDestruida, En, hilos
        <5> QED BY <1>4, <5>1 DEF DebeTenerRegistro
      <4>8. CASE EscribirPagina(p)
        BY <1>4, <4>8 DEF EscribirPagina, hilos, DebeTenerRegistro
      <4> QED BY <4>1, <4>2, <4>3, <4>4, <4>5, <4>6, <4>7, <4>8 DEF Paso, Pide, Termina
    <3> QED BY <1>4, <2>3, <3>2, RegistroQueda DEF SuspendidoConRegistro, Paso
  <2> QED BY <2>1, <2>2, <2>3
<1> QED BY <1>3, <1>4

\* Every step keeps the invariant of suspended processes.
LEMMA ConservaVuelta ==
    ASSUME Solapan = FALSE, IInvVuelta, [Next]_vars
    PROVE  IInvVuelta'
<1>1. IInvSwap'
  BY ConservaSwap DEF IInvVuelta
<1>2. CASE Next
  <2>1. PICK p \in Procs : Paso(p)
    BY <1>2 DEF Next, Paso
  <2> QED BY <1>1, <2>1, SuspendidoSigueConRegistro DEF IInvVuelta
<1>3. CASE UNCHANGED vars
  <2>1. UNCHANGED <<enSwap, pedido, pc, vida>>
    BY <1>3 DEF vars, swap, hilos
  <2> QED BY <1>1, <2>1 DEF IInvVuelta, SuspendidoConRegistro, DebeTenerRegistro, TieneRegistro
<1> QED BY <1>2, <1>3

\* A suspended process that has pages has exactly one record in procesos_swap, so
\* desuspender_proceso can bring it back.  On the same two hypotheses: the first is
\* that no list operation overlaps another, by which run memoria_solapada loses the
\* record; that is the only way in which requests of different processes lose one.
THEOREM LosSuspendidosVuelven ==
    ASSUME Solapan = FALSE
    PROVE  Spec => []ConPaginasEnSwap
<1>1. Init => IInvVuelta
  <2> SUFFICES ASSUME Init PROVE IInvVuelta
    OBVIOUS
  <2>1. \A p \in Procs : vida[p] = "nuevo" /\ pedido[p] = "nada"
    BY DEF Init
  <2> QED BY <2>1, IniciaSwap DEF IInvVuelta, SuspendidoConRegistro, DebeTenerRegistro
<1>2. IInvVuelta /\ [Next]_vars => IInvVuelta'
  BY ConservaVuelta
<1>3. IInvVuelta => ConPaginasEnSwap
  <2> SUFFICES ASSUME IInvVuelta, NEW p \in Procs, vida[p] = "suspendido", pedido[p] = "nada", Paginas[p] > 0
               PROVE  Cardinality(RegistrosDe(p)) = 1
    BY DEF ConPaginasEnSwap
  <2>1. IInvRegistros /\ HiloConPedido /\ RegistroUnico
    BY DEF IInvVuelta, IInvSwap, IInvRegistros, IInv
  <2>2. TieneRegistro(p)
    BY <2>1 DEF HiloConPedido, IInvVuelta, SuspendidoConRegistro, DebeTenerRegistro
  <2>3. \E i : RegistrosDe(p) = {i}
    BY <2>1, <2>2 DEF TieneRegistro, RegistrosDe, RegistroUnico
  <2> QED BY <2>3, FS_Singleton
<1> QED BY <1>1, <1>2, <1>3, PTL DEF Spec

-----------------------------------------------------------------------------
(* The count of frames, which the promise of MemoriaAbstracta rests on.     *)

LargosDe(t) == [q \in Procs |-> Len(t[q])]
Largos == LargosDe(tabla)

\* The occupied frames are as many as the page tables hold together.
CuentaMarcos == Cardinality(ocupado) = Suma(Largos, Procs)

\* No table outgrows its process.
TablaAcotada == \A q \in Procs : Len(tabla[q]) <= Paginas[q]

IInvCuenta == IInvRegistros /\ CuentaMarcos /\ TablaAcotada

LEMMA TiposDeLargos ==
    ASSUME NEW t \in [Procs -> Seq(NroMarcos)]
    PROVE  /\ LargosDe(t) \in [Procs -> Nat] /\ Paginas \in [Procs -> Nat] /\ IsFiniteSet(Procs)
           /\ \A q \in Procs : Len(t[q]) \in Nat /\ LargosDe(t)[q] = Len(t[q])
<1>1. \A q \in Procs : t[q] \in Seq(NroMarcos)
  OBVIOUS
<1> QED BY <1>1, MemoriaAssumption DEF LargosDe

\* Every frame is occupied or free.
LEMMA LibresYOcupados ==
    ASSUME NEW o \in SUBSET NroMarcos
    PROVE  /\ IsFiniteSet(o) /\ Cardinality(o) \in Nat /\ Cardinality(NroMarcos \ o) \in Nat
           /\ Cardinality(o) + Cardinality(NroMarcos \ o) = Marcos
<1>1. IsFiniteSet(NroMarcos) /\ Cardinality(NroMarcos) = Marcos
  <2>1. 0 \in Int /\ Marcos - 1 \in Int /\ Marcos \in Nat
    BY MemoriaAssumption
  <2>2. Cardinality(0 .. Marcos - 1) = IF 0 > Marcos - 1 THEN 0 ELSE Marcos - 1 - 0 + 1
    BY <2>1, FS_Interval
  <2>3. IsFiniteSet(0 .. Marcos - 1)
    BY <2>1, FS_Interval
  <2> QED BY <2>1, <2>2, <2>3 DEF NroMarcos
<1>2. NroMarcos \cap o = o
  OBVIOUS
<1>3. IsFiniteSet(o) /\ IsFiniteSet(NroMarcos \ o)
  BY <1>1, FS_Subset
<1>4. Cardinality(NroMarcos \ o) = Cardinality(NroMarcos) - Cardinality(o)
  BY <1>1, <1>2, FS_Difference
<1>5. Cardinality(o) \in Nat /\ Cardinality(NroMarcos \ o) \in Nat
  BY <1>3, FS_CardinalityType
<1> QED BY <1>1, <1>3, <1>4, <1>5, MemoriaAssumption

\* Only these two actions move a frame.
LEMMA QuienMueveMarcos ==
    ASSUME NEW p \in Procs, Paso(p), ~TomarMarco(p), ~LiberarMarco(p)
    PROVE  UNCHANGED <<ocupado, tabla>>
<1>1. CASE Pide(p)
  BY <1>1 DEF Pide, PedirInicio, PedirReanudacion, PedirReanudacionSinRegistro, PedirSuspension, PedirFin,
     fisica
<1>2. CASE Inicializa(p)
  BY <1>2 DEF Inicializa, Contar, SinMarcos, SinPrograma, Alta, fisica
<1>3. CASE Reanuda(p)
  BY <1>3 DEF Reanuda, CopiarAMarcos, DevolverHueco, EnlazarHueco, OlvidarRegistro, fisica
<1>4. CASE Suspende(p)
  BY <1>4 DEF Suspende, UbicarEnHueco, UbicarAlFinal, EscribirEnSwap, Registrar, EnlazarRegistro, fisica
<1>5. CASE Termina(p)
  BY <1>5 DEF Termina, TablaDestruida, Contestar, fisica
<1>6. CASE EscribirPagina(p)
  BY <1>6 DEF EscribirPagina
<1> QED BY <1>1, <1>2, <1>3, <1>4, <1>5, <1>6 DEF Paso

\* One table changes.
LEMMA CuentaCambia ==
    ASSUME TypeOK, TypeOK', CuentaMarcos, NEW p \in Procs,
           \A q \in Procs \ {p} : tabla'[q] = tabla[q],
           Cardinality(ocupado') - Len(tabla'[p]) = Cardinality(ocupado) - Len(tabla[p])
    PROVE  CuentaMarcos'
<1> DEFINE f == LargosDe(tabla)
           g == LargosDe(tabla')
<1>1. f \in [Procs -> Nat] /\ IsFiniteSet(Procs) /\ f[p] = Len(tabla[p]) /\ \A q \in Procs : f[q] = Len(tabla[q])
  BY TiposDeLargos DEF TypeOK
<1>2. g \in [Procs -> Nat] /\ g[p] = Len(tabla'[p]) /\ \A q \in Procs : g[q] = Len(tabla'[q])
  BY TiposDeLargos DEF TypeOK
<1>3. Cardinality(ocupado) \in Nat /\ Cardinality(ocupado') \in Nat
  BY LibresYOcupados DEF TypeOK
<1>4. Cardinality(ocupado) = Suma(f, Procs)
  BY DEF CuentaMarcos, Largos
<1>5. (CuentaMarcos)' <=> Cardinality(ocupado') = Suma(g, Procs)
  BY DEF CuentaMarcos, Largos
<1> HIDE DEF f, g
<1>6. \A q \in Procs : q # p => g[q] = f[q]
  BY <1>1, <1>2
<1>7. Suma(g, Procs) + f[p] = Suma(f, Procs) + g[p]
  <2>1. IsFiniteSet(Procs) /\ f \in [Procs -> Nat] /\ g \in [Procs -> Nat]
    BY <1>1, <1>2
  <2> QED BY <1>6, <2>1, SumaCambia
<1>8. Suma(f, Procs) \in Nat /\ Suma(g, Procs) \in Nat
  BY <1>1, <1>2, SumaTipo
<1>9. f[p] \in Nat /\ g[p] \in Nat
  BY <1>1, <1>2
<1>10. Cardinality(ocupado') = Suma(g, Procs)
  <2>1. Cardinality(ocupado') - g[p] = Suma(f, Procs) - f[p]
    BY <1>1, <1>2, <1>4
  <2>2. Cardinality(ocupado') \in Nat
    BY <1>3
  <2>3. g[p] \in Nat /\ f[p] \in Nat /\ Suma(f, Procs) \in Nat /\ Suma(g, Procs) \in Nat
    BY <1>8, <1>9
  <2>4. PICK lf \in Nat, lg \in Nat, sf \in Nat, sg \in Nat :
          f[p] = lf /\ g[p] = lg /\ Suma(f, Procs) = sf /\ Suma(g, Procs) = sg
    BY <2>3
  <2>5. sg + lf = sf + lg
    BY <1>7, <2>4
  <2>6. Cardinality(ocupado') - lg = sf - lf
    BY <2>1, <2>4
  <2>7. Cardinality(ocupado') = sg
    BY <2>2, <2>5, <2>6
  <2> QED BY <2>4, <2>7
<1> QED BY <1>5, <1>10

LEMMA IniciaCuenta == Init => IInvCuenta
<1> SUFFICES ASSUME Init PROVE IInvCuenta
  OBVIOUS
<1>1. IInvRegistros /\ TypeOK
  BY IniciaRegistros DEF IInvRegistros
<1>2. Largos \in [Procs -> Nat] /\ IsFiniteSet(Procs) /\ \A q \in Procs : Largos[q] = 0
  BY <1>1, TiposDeLargos DEF Init, TypeOK, Largos
<1>3. Suma(Largos, Procs) <= Suma(Largos, {})
  BY <1>2, FS_EmptySet, SumaDomina
<1>4. Suma(Largos, Procs) = 0
  BY <1>2, <1>3, SumaVacia, SumaTipo
<1>5. CuentaMarcos
  BY <1>4, FS_EmptySet DEF Init, CuentaMarcos
<1>6. TablaAcotada
  BY MemoriaAssumption DEF Init, TablaAcotada
<1> QED BY <1>1, <1>5, <1>6 DEF IInvCuenta

LEMMA CuentaSigue ==
    ASSUME IInvCuenta, TypeOK', NEW p \in Procs, Paso(p)
    PROVE  CuentaMarcos' /\ TablaAcotada'
<1>1. TypeOK /\ CuentaMarcos /\ TablaAcotada /\ IInv
  BY DEF IInvCuenta, IInvRegistros
<1>2. /\ IsFiniteSet(ocupado) /\ Cardinality(ocupado) \in Nat
      /\ tabla[p] \in Seq(NroMarcos) /\ Len(tabla[p]) \in Nat /\ Len(tabla[p]) <= Paginas[p] /\ Paginas[p] \in Nat
  BY <1>1, LibresYOcupados, TiposDeLargos DEF TypeOK, TablaAcotada
<1>3. CASE TomarMarco(p)
  <2> DEFINE m == SiguienteMarcoLibre
  <2>1. m \in NroMarcos /\ m \notin ocupado
    BY <1>3, MarcoLibreExiste DEF TomarMarco, Libres
  <2>2. ocupado' = ocupado \cup {m} /\ tabla' = [tabla EXCEPT ![p] = Append(@, m)]
        /\ Len(tabla[p]) < Paginas[p]
    BY <1>3 DEF TomarMarco
  <2> HIDE DEF m
  <2>3. tabla'[p] = Append(tabla[p], m) /\ \A q \in Procs \ {p} : tabla'[q] = tabla[q]
    BY <1>1, <2>2 DEF TypeOK
  <2>4. Len(tabla'[p]) = Len(tabla[p]) + 1
    BY <1>2, <2>1, <2>3
  <2>5. Cardinality(ocupado') = Cardinality(ocupado) + 1
    BY <1>2, <2>1, <2>2, FS_AddElement
  <2>6. CuentaMarcos'
    BY <1>1, <1>2, <2>3, <2>4, <2>5, CuentaCambia
  <2>7. TablaAcotada'
    <3>1. Len(tabla'[p]) <= Paginas[p]
      BY <1>2, <2>2, <2>4
    <3>2. \A q \in Procs : Len(tabla'[q]) <= Paginas[q]
      BY <1>1, <2>3, <3>1 DEF TablaAcotada
    <3> QED BY <3>2 DEF TablaAcotada
  <2> QED BY <2>6, <2>7
<1>4. CASE LiberarMarco(p)
  <2> DEFINE m == Head(tabla[p])
  <2>1. /\ ocupado' = ocupado \ {m} /\ tabla' = [tabla EXCEPT ![p] = Tail(@)]
        /\ pc[p] = "soltando" /\ tabla[p] # <<>>
    BY <1>4 DEF LiberarMarco, En
  <2>2. m \in ocupado
    <3>1. p \in Duenos
      BY <2>1 DEF Duenos
    <3>2. m \in Range(tabla[p])
      BY <1>2, <2>1 DEF Range
    <3> QED BY <1>1, <3>1, <3>2 DEF IInv, SinFugas
  <2>3. Len(Tail(tabla[p])) = Len(tabla[p]) - 1
    BY <1>2, <2>1
  <2>4. tabla'[p] = Tail(tabla[p]) /\ \A q \in Procs \ {p} : tabla'[q] = tabla[q]
    BY <1>1, <2>1 DEF TypeOK
  <2> HIDE DEF m
  <2>5. Cardinality(ocupado') = Cardinality(ocupado) - 1
    BY <1>2, <2>1, <2>2, FS_RemoveElement
  <2>6. CuentaMarcos'
    <3>1. Cardinality(ocupado') - Len(tabla'[p]) = Cardinality(ocupado) - Len(tabla[p])
      BY <1>2, <2>3, <2>4, <2>5
    <3> QED BY <1>1, <2>4, <3>1, CuentaCambia
  <2>7. TablaAcotada'
    <3>1. Len(tabla'[p]) <= Paginas[p]
      BY <1>2, <2>3, <2>4
    <3>2. \A q \in Procs : Len(tabla'[q]) <= Paginas[q]
      BY <1>1, <2>4, <3>1 DEF TablaAcotada
    <3> QED BY <3>2 DEF TablaAcotada
  <2> QED BY <2>6, <2>7
<1>5. CASE ~TomarMarco(p) /\ ~LiberarMarco(p)
  <2>1. UNCHANGED <<ocupado, tabla>>
    BY <1>5, QuienMueveMarcos
  <2> QED BY <1>1, <2>1 DEF CuentaMarcos, Largos, TablaAcotada
<1> QED BY <1>3, <1>4, <1>5

LEMMA ConservaCuenta == IInvCuenta /\ [Next]_vars => IInvCuenta'
<1> SUFFICES ASSUME IInvCuenta, [Next]_vars PROVE IInvCuenta'
  OBVIOUS
<1>1. IInvRegistros' /\ TypeOK'
  BY ConservaRegistros DEF IInvCuenta, IInvRegistros
<1>2. ASSUME NEW p \in Procs, Paso(p) PROVE CuentaMarcos' /\ TablaAcotada'
  BY <1>1, <1>2, CuentaSigue
<1>3. CASE UNCHANGED vars
  <2>1. UNCHANGED <<ocupado, tabla>>
    BY <1>3 DEF vars, fisica
  <2>2. CuentaMarcos' /\ TablaAcotada'
    BY <2>1 DEF IInvCuenta, CuentaMarcos, Largos, TablaAcotada
  <2> QED BY <1>1, <2>2 DEF IInvCuenta
<1> QED BY <1>1, <1>2, <1>3 DEF IInvCuenta, Next, Paso

\* In every reachable state the occupied frames are counted by the page tables.
THEOREM InvarianteDeCuenta == Spec => []IInvCuenta
<1> QED BY IniciaCuenta, ConservaCuenta, PTL DEF Spec

-----------------------------------------------------------------------------
(* MemoriaAbstracta is implemented.                                         *)

Estado == [q \in Procs |-> Situacion(q)]

\* Situacion, when no process that waits for frames or gives them back is a resident:
\* the cases of its definition exclude each other.
LEMMA SituacionSegunPaso ==
    ASSUME NEW p \in Procs
    PROVE  /\ pc[p] \in {"contando", "tomando"} /\ p \notin enMemoria => Situacion(p) = "entrando"
           /\ pc[p] = "soltando" /\ p \notin enMemoria => Situacion(p) = "saliendo"
           /\ pc[p] \notin {"contando", "tomando", "soltando"} /\ p \in enMemoria => Situacion(p) = "residente"
           /\ pc[p] \notin {"contando", "tomando", "soltando"} /\ p \notin enMemoria => Situacion(p) = "afuera"
           /\ pc'[p] \in {"contando", "tomando"} /\ p \notin enMemoria' => Situacion(p)' = "entrando"
           /\ pc'[p] = "soltando" /\ p \notin enMemoria' => Situacion(p)' = "saliendo"
           /\ pc'[p] \notin {"contando", "tomando", "soltando"} /\ p \in enMemoria' => Situacion(p)' = "residente"
           /\ pc'[p] \notin {"contando", "tomando", "soltando"} /\ p \notin enMemoria' => Situacion(p)' = "afuera"
<1>1. /\ pc[p] \in {"contando", "tomando"} /\ p \notin enMemoria => Situacion(p) = "entrando"
      /\ pc[p] = "soltando" /\ p \notin enMemoria => Situacion(p) = "saliendo"
      /\ pc[p] \notin {"contando", "tomando", "soltando"} /\ p \in enMemoria => Situacion(p) = "residente"
      /\ pc[p] \notin {"contando", "tomando", "soltando"} /\ p \notin enMemoria => Situacion(p) = "afuera"
  BY DEF Situacion, En
<1>2. /\ pc'[p] \in {"contando", "tomando"} /\ p \notin enMemoria' => Situacion(p)' = "entrando"
      /\ pc'[p] = "soltando" /\ p \notin enMemoria' => Situacion(p)' = "saliendo"
      /\ pc'[p] \notin {"contando", "tomando", "soltando"} /\ p \in enMemoria' => Situacion(p)' = "residente"
      /\ pc'[p] \notin {"contando", "tomando", "soltando"} /\ p \notin enMemoria' => Situacion(p)' = "afuera"
  BY DEF Situacion, En
<1> QED BY <1>1, <1>2

\* A step of a process changes its own situation at most.
LEMMA CambiaUno ==
    ASSUME Control, NEW p \in Procs, Paso(p)
    PROVE  Estado' = [Estado EXCEPT ![p] = Situacion(p)']
<1>1. ASSUME NEW q \in Procs \ {p} PROVE Situacion(q)' = Situacion(q)
  <2>1. pc'[q] = pc[q] /\ (q \in enMemoria' <=> q \in enMemoria)
    BY LosDemas
  <2> QED BY <2>1 DEF Situacion, En
<1> QED BY <1>1 DEF Estado

\* What the steps of the abstract memory are, in terms of Situacion.
LEMMA OcupanSuma == \A S : Abstracta!Ocupan(S) = Suma(Paginas, S)
BY DEF Abstracta!Ocupan, Suma, MapThenSumSet, Abstracta!MapThenSumSet, MapThenFoldSet, Abstracta!MapThenFoldSet

LEMMA PasosAbstractos ==
    ASSUME NEW p \in Procs, NEW s, Estado' = [Estado EXCEPT ![p] = s],
           \/ Situacion(p) = "afuera" /\ s = "entrando"
           \/ /\ Situacion(p) = "entrando" /\ s = "residente"
              /\ Suma(Paginas, {q \in Procs : Situacion(q) = "residente"} \cup {p}) <= Marcos
           \/ /\ Situacion(p) = "entrando" /\ s \in {"afuera", "saliendo"}
              /\ \/ p \in SinArchivo
                 \/ Suma(Paginas, (Procs \ {q \in Procs : Situacion(q) = "afuera"}) \cup {p}) > Marcos
           \/ Situacion(p) = "residente" /\ s = "saliendo"
           \/ Situacion(p) = "saliendo" /\ s = "afuera"
    PROVE  Abstracta!Next
<1>1. Abstracta!Cambia(p, s) /\ Estado[p] = Situacion(p)
  BY DEF Abstracta!Cambia, Estado
<1>2. \A t : Abstracta!En(t) = {q \in Procs : Situacion(q) = t}
  BY DEF Abstracta!En
<1>3. Abstracta!Ocupan(Abstracta!En("residente") \cup {p})
        = Suma(Paginas, {q \in Procs : Situacion(q) = "residente"} \cup {p})
  BY <1>2, OcupanSuma
<1>4. Abstracta!Ocupan((Procs \ Abstracta!En("afuera")) \cup {p})
        = Suma(Paginas, (Procs \ {q \in Procs : Situacion(q) = "afuera"}) \cup {p})
  BY <1>2, OcupanSuma
<1>5. CASE Situacion(p) = "afuera" /\ s = "entrando"
  BY <1>1, <1>5 DEF Abstracta!Next, Abstracta!Pedir, Estado
<1>6. CASE /\ Situacion(p) = "entrando" /\ s = "residente"
           /\ Suma(Paginas, {q \in Procs : Situacion(q) = "residente"} \cup {p}) <= Marcos
  <2>1. Abstracta!Admitir(p)
    BY <1>1, <1>3, <1>6 DEF Abstracta!Admitir, Estado
  <2> QED BY <2>1 DEF Abstracta!Next
<1>7. CASE /\ Situacion(p) = "entrando" /\ s \in {"afuera", "saliendo"}
           /\ \/ p \in SinArchivo
              \/ Suma(Paginas, (Procs \ {q \in Procs : Situacion(q) = "afuera"}) \cup {p}) > Marcos
  <2>1. Abstracta!Rechazar(p)
    BY <1>1, <1>4, <1>7 DEF Abstracta!Rechazar, Estado
  <2> QED BY <2>1 DEF Abstracta!Next
<1>8. CASE Situacion(p) = "residente" /\ s = "saliendo"
  BY <1>1, <1>8 DEF Abstracta!Next, Abstracta!Sacar, Estado
<1>9. CASE Situacion(p) = "saliendo" /\ s = "afuera"
  BY <1>1, <1>9 DEF Abstracta!Next, Abstracta!Salir, Estado
<1> QED BY <1>5, <1>6, <1>7, <1>8, <1>9

\* The residents and one that has all its frames fit.
LEMMA Caben ==
    ASSUME IInvCuenta, NEW p \in Procs, Len(tabla[p]) = Paginas[p]
    PROVE  Suma(Paginas, {q \in Procs : Situacion(q) = "residente"} \cup {p}) <= Marcos
<1> DEFINE f == LargosDe(tabla)
           S == {q \in Procs : Situacion(q) = "residente"} \cup {p}
<1>1. TypeOK /\ PresenteSegunPaso /\ CuentaMarcos
  BY DEF IInvCuenta, IInvRegistros
<1>2. f \in [Procs -> Nat] /\ Paginas \in [Procs -> Nat] /\ IsFiniteSet(Procs)
      /\ \A q \in Procs : f[q] = Len(tabla[q])
  BY <1>1, TiposDeLargos DEF TypeOK
<1>3. \A q \in S : f[q] = Paginas[q]
  <2> SUFFICES ASSUME NEW q \in S, q # p PROVE Len(tabla[q]) = Paginas[q]
    BY <1>2
  <2>1. q \in enMemoria
    BY SituacionSegunPaso
  <2> QED BY <1>1, <2>1 DEF PresenteSegunPaso
<1>4. Cardinality(ocupado) = Suma(f, Procs)
  BY <1>1 DEF CuentaMarcos, Largos
<1>5. Cardinality(ocupado) <= Marcos
  <2>1. ocupado \in SUBSET NroMarcos
    BY <1>1 DEF TypeOK
  <2>2. Cardinality(ocupado) \in Nat /\ Cardinality(NroMarcos \ ocupado) \in Nat
        /\ Cardinality(ocupado) + Cardinality(NroMarcos \ ocupado) = Marcos
    BY <2>1, LibresYOcupados
  <2> QED BY <2>2, MemoriaAssumption
<1> HIDE DEF f
<1>6. S \in SUBSET Procs /\ \A q \in S : Paginas[q] <= f[q]
  BY <1>2, <1>3
<1> HIDE DEF S
<1>7. IsFiniteSet(S) /\ \A q \in S : Paginas[q] = 0 \/ (q \in Procs /\ Paginas[q] <= f[q])
  BY <1>2, <1>6, FS_Subset
<1>8. Suma(Paginas, S) <= Suma(f, Procs)
  BY <1>2, <1>6, <1>7, SumaDomina
<1>9. Suma(Paginas, S) \in Nat /\ Suma(f, Procs) \in Nat
  BY <1>2, <1>6, <1>7, SumaTipo
<1>10. Suma(Paginas, S) <= Marcos
  BY <1>4, <1>5, <1>8, <1>9, MemoriaAssumption
<1> QED BY <1>10 DEF S

\* When what is free and what a request has do not reach, everything in progress
\* takes more than there is.
LEMMA NoCaben ==
    ASSUME IInvCuenta, NEW p \in Procs, pc[p] \in {"contando", "tomando"},
           Cardinality(Libres) + Len(tabla[p]) < Paginas[p]
    PROVE  Suma(Paginas, (Procs \ {q \in Procs : Situacion(q) = "afuera"}) \cup {p}) > Marcos
<1> DEFINE f == LargosDe(tabla)
           A == (Procs \ {q \in Procs : Situacion(q) = "afuera"}) \cup {p}
<1>1. TypeOK /\ IInv /\ PresenteSegunPaso /\ CuentaMarcos /\ TablaAcotada
  BY DEF IInvCuenta, IInvRegistros
<1>2. f \in [Procs -> Nat] /\ Paginas \in [Procs -> Nat] /\ IsFiniteSet(Procs)
      /\ \A q \in Procs : f[q] = Len(tabla[q])
  BY <1>1, TiposDeLargos DEF TypeOK
<1>3. \A q \in Procs \ {p} : f[q] = 0 \/ (q \in A \ {p} /\ f[q] <= Paginas[q])
  <2> SUFFICES ASSUME NEW q \in Procs \ {p} PROVE f[q] = 0 \/ (q \in A \ {p} /\ f[q] <= Paginas[q])
    OBVIOUS
  <2>1. CASE tabla[q] = <<>>
    BY <1>2, <2>1
  <2>2. CASE tabla[q] # <<>>
    <3>1. q \in Duenos
      BY <1>1, <2>2 DEF IInv, SoloDuenos
    <3>2. Situacion(q) # "afuera"
      <4>1. CASE pc[q] \in {"contando", "tomando", "soltando"}
        BY <1>1, <4>1, SituacionSegunPaso DEF PresenteSegunPaso
      <4>2. CASE pc[q] \notin {"contando", "tomando", "soltando"}
        <5>1. q \in enMemoria
          BY <3>1, <4>2 DEF Duenos
        <5>2. Situacion(q) = "residente"
          BY <4>2, <5>1, SituacionSegunPaso
        <5> QED BY <5>2
      <4> QED BY <4>1, <4>2
    <3> QED BY <1>1, <1>2, <3>2 DEF TablaAcotada
  <2> QED BY <2>1, <2>2
<1>4. /\ Cardinality(ocupado) = Suma(f, Procs) /\ Cardinality(Libres) \in Nat
      /\ Cardinality(ocupado) + Cardinality(Libres) = Marcos
  <2>1. ocupado \in SUBSET NroMarcos
    BY <1>1 DEF TypeOK
  <2>2. Cardinality(Libres) \in Nat /\ Cardinality(ocupado) + Cardinality(Libres) = Marcos
    BY <2>1, LibresYOcupados DEF Libres
  <2> QED BY <1>1, <2>2 DEF CuentaMarcos, Largos
<1>5. A \in SUBSET Procs /\ p \in A
  OBVIOUS
<1> HIDE DEF f, A
<1>6. IsFiniteSet(A) /\ IsFiniteSet(A \ {p}) /\ IsFiniteSet(Procs \ {p})
  BY <1>2, <1>5, FS_Subset
<1>7. Suma(f, Procs \ {p}) <= Suma(Paginas, A \ {p})
  BY <1>2, <1>3, <1>5, <1>6, SumaDomina
<1>8. Suma(f, Procs) = f[p] + Suma(f, Procs \ {p})
  BY <1>2, SumaSin
<1>9. Suma(Paginas, A) = Paginas[p] + Suma(Paginas, A \ {p})
  BY <1>2, <1>5, <1>6, SumaSin
<1>10. Suma(f, Procs \ {p}) \in Nat /\ Suma(Paginas, A \ {p}) \in Nat
  BY <1>2, <1>5, <1>6, SumaTipo
<1>11. f[p] \in Nat /\ Paginas[p] \in Nat /\ f[p] = Len(tabla[p])
  BY <1>2
<1>12. \A a, b, c, l, g, x \in Nat : a + b = x /\ a = l + c /\ c <= g /\ b + l < Paginas[p] => Paginas[p] + g > x
  BY <1>11
<1>13. Cardinality(ocupado) \in Nat /\ Marcos \in Nat
  BY <1>4, <1>8, <1>10, <1>11, MemoriaAssumption
<1>14. Suma(Paginas, A) > Marcos
  <2>1. Cardinality(ocupado) = f[p] + Suma(f, Procs \ {p}) /\ Cardinality(Libres) + f[p] < Paginas[p]
    BY <1>4, <1>8, <1>11
  <2>2. Paginas[p] + Suma(Paginas, A \ {p}) > Marcos
    BY <1>4, <1>7, <1>10, <1>11, <1>12, <1>13, <2>1
  <2> QED BY <1>9, <2>2
<1> QED BY <1>14 DEF A

\* A request changes the situation of its process as MemoriaAbstracta allows, or
\* not at all.
Cumple == Abstracta!Next \/ Estado' = Estado

LEMMA CumpleQuieto ==
    ASSUME Control, NEW p \in Procs, Paso(p), Situacion(p)' = Situacion(p)
    PROVE  Cumple
<1>1. Estado' = [Estado EXCEPT ![p] = Situacion(p)]
  BY CambiaUno
<1> QED BY <1>1 DEF Estado, Cumple

LEMMA CumplePide ==
    ASSUME IInvCuenta, NEW p \in Procs, Pide(p)
    PROVE  Cumple
<1>1. Control /\ PresenteSegunPaso /\ SinRegistroResidente
  BY ControlVale DEF IInvCuenta, IInvRegistros
<1>2. Paso(p)
  BY DEF Paso
<1>3. pedido[p] = "nada" /\ pc[p] = "libre"
  BY <1>1 DEF Pide, PedirInicio, PedirReanudacion, PedirReanudacionSinRegistro, PedirSuspension, PedirFin,
     Recibir, UnoPorProceso, HiloConPedido, Control
<1>4. pc \in [Procs -> Pasos]
  BY <1>1 DEF Control, TiposDeControl
<1>5. Estado' = [Estado EXCEPT ![p] = Situacion(p)']
  BY <1>1, <1>2, CambiaUno
<1>6. CASE PedirInicio(p) \/ PedirReanudacion(p)
  <2>1. p \notin enMemoria
    <3>1. CASE PedirInicio(p)
      BY <1>1, <1>3, <3>1 DEF PedirInicio, PresenteSegunPaso
    <3>2. CASE PedirReanudacion(p)
      <4>1. PICK i \in DOMAIN enSwap : enSwap[i].pid = p
        BY <3>2 DEF PedirReanudacion, RegistrosDe
      <4>2. PuedeTenerRegistro(p)
        BY <1>1, <4>1 DEF SinRegistroResidente
      <4> QED BY <1>3, <4>2 DEF PuedeTenerRegistro, PasosDeReanudacion
    <3> QED BY <1>6, <3>1, <3>2
  <2>2. pc'[p] = "contando" /\ enMemoria' = enMemoria
    BY <1>4, <1>6 DEF PedirInicio, PedirReanudacion, Recibir, UnoPorProceso, Pasa
  <2>3. Situacion(p) = "afuera" /\ Situacion(p)' = "entrando"
    BY <1>3, <2>1, <2>2, SituacionSegunPaso
  <2> QED BY <1>5, <2>3, PasosAbstractos DEF Cumple
<1>7. CASE PedirReanudacionSinRegistro(p) \/ PedirSuspension(p)
  <2>1. pc'[p] \notin {"contando", "tomando", "soltando"} /\ enMemoria' = enMemoria
    BY <1>4, <1>7 DEF PedirReanudacionSinRegistro, PedirSuspension, Recibir, UnoPorProceso, Pasa
  <2>2. Situacion(p)' = Situacion(p)
    BY <1>3, <2>1, SituacionSegunPaso
  <2> QED BY <1>1, <1>2, <2>2, CumpleQuieto
<1>8. CASE PedirFin(p) /\ p \in enMemoria
  <2>1. pc'[p] = "soltando" /\ p \notin enMemoria'
    BY <1>4, <1>8 DEF PedirFin, Recibir, UnoPorProceso, Pasa
  <2>2. Situacion(p) = "residente" /\ Situacion(p)' = "saliendo"
    BY <1>3, <1>8, <2>1, SituacionSegunPaso
  <2> QED BY <1>5, <2>2, PasosAbstractos DEF Cumple
<1>9. CASE PedirFin(p) /\ p \notin enMemoria
  <2>1. pc'[p] = "confirma" /\ p \notin enMemoria'
    BY <1>4, <1>9 DEF PedirFin, Recibir, UnoPorProceso, Pasa
  <2>2. Situacion(p)' = Situacion(p)
    BY <1>3, <1>9, <2>1, SituacionSegunPaso
  <2> QED BY <1>1, <1>2, <2>2, CumpleQuieto
<1> QED BY <1>6, <1>7, <1>8, <1>9 DEF Pide

LEMMA CumpleInicializa ==
    ASSUME IInvCuenta, NEW p \in Procs, Inicializa(p)
    PROVE  Cumple
<1>1. Control /\ PresenteSegunPaso /\ TypeOK
  BY ControlVale DEF IInvCuenta, IInvRegistros
<1>2. Paso(p)
  BY DEF Paso
<1>3. pc[p] \in {"contando", "tomando"} /\ p \notin enMemoria /\ Situacion(p) = "entrando"
  <2>1. pc[p] \in {"contando", "tomando"}
    BY DEF Inicializa, Contar, TomarMarco, SinMarcos, SinPrograma, Alta, En
  <2> QED BY <1>1, <2>1, SituacionSegunPaso DEF PresenteSegunPaso
<1>4. pc \in [Procs -> Pasos]
  BY <1>1 DEF Control, TiposDeControl
<1>5. Estado' = [Estado EXCEPT ![p] = Situacion(p)']
  BY <1>1, <1>2, CambiaUno
<1>6. tabla[p] \in Seq(NroMarcos) /\ Len(tabla[p]) \in Nat /\ Paginas[p] \in Nat /\ Cardinality(Libres) \in Nat
  <2>1. ocupado \in SUBSET NroMarcos /\ tabla[p] \in Seq(NroMarcos)
    BY <1>1 DEF TypeOK
  <2>2. Cardinality(Libres) \in Nat
    BY <2>1, LibresYOcupados DEF Libres
  <2> QED BY <2>1, <2>2, MemoriaAssumption
<1>7. CASE Contar(p)
  <2>1. En(p, "contando") /\ enMemoria' = enMemoria
        /\ (Alcanza(p) => pc'[p] = "tomando") /\ (~Alcanza(p) => pc'[p] = "rechaza")
    BY <1>4, <1>7 DEF Contar, Pasa
  <2>2. CASE Alcanza(p)
    <3>1. Situacion(p)' = Situacion(p)
      BY <1>3, <2>1, <2>2, SituacionSegunPaso
    <3> QED BY <1>1, <1>2, <3>1, CumpleQuieto
  <2>3. CASE ~Alcanza(p)
    <3>1. Situacion(p)' = "afuera"
      BY <1>3, <2>1, <2>3, SituacionSegunPaso
    <3>2. Len(tabla[p]) = 0
      <4>1. p \notin Duenos
        BY <1>3, <2>1 DEF Duenos, En
      <4> QED BY <1>1, <4>1 DEF Control, SoloDuenos
    <3>3. Cardinality(Libres) + Len(tabla[p]) < Paginas[p]
      BY <1>6, <2>3, <3>2 DEF Alcanza
    <3>4. Suma(Paginas, (Procs \ {q \in Procs : Situacion(q) = "afuera"}) \cup {p}) > Marcos
      BY <1>3, <3>3, NoCaben
    <3> QED BY <1>3, <1>5, <3>1, <3>4, PasosAbstractos DEF Cumple
  <2> QED BY <2>2, <2>3
<1>8. CASE TomarMarco(p)
  <2>1. Situacion(p)' = Situacion(p)
    BY <1>8 DEF TomarMarco, hilos, Situacion, En
  <2> QED BY <1>1, <1>2, <2>1, CumpleQuieto
<1>9. CASE SinMarcos(p)
  <2>1. pc'[p] = "soltando" /\ enMemoria' = enMemoria /\ Len(tabla[p]) < Paginas[p] /\ Libres = {}
    BY <1>4, <1>9 DEF SinMarcos, Pasa
  <2>2. Situacion(p)' = "saliendo"
    BY <1>3, <2>1, SituacionSegunPaso
  <2>3. Cardinality(Libres) + Len(tabla[p]) < Paginas[p]
    BY <1>6, <2>1, FS_EmptySet
  <2>4. Suma(Paginas, (Procs \ {q \in Procs : Situacion(q) = "afuera"}) \cup {p}) > Marcos
    BY <1>3, <2>3, NoCaben
  <2> QED BY <1>3, <1>5, <2>2, <2>4, PasosAbstractos DEF Cumple
<1>10. CASE SinPrograma(p)
  <2>1. pc'[p] = "soltando" /\ enMemoria' = enMemoria /\ p \in SinArchivo
    BY <1>4, <1>10 DEF SinPrograma, Pasa
  <2>2. Situacion(p)' = "saliendo"
    BY <1>3, <2>1, SituacionSegunPaso
  <2> QED BY <1>3, <1>5, <2>1, <2>2, PasosAbstractos DEF Cumple
<1>11. CASE Alta(p)
  <2>1. pc'[p] \in {"acepta", "copiando"} /\ p \in enMemoria' /\ Len(tabla[p]) = Paginas[p]
    BY <1>4, <1>11 DEF Alta, Pasa
  <2>2. Situacion(p)' = "residente"
    BY <2>1, SituacionSegunPaso
  <2>3. Suma(Paginas, {q \in Procs : Situacion(q) = "residente"} \cup {p}) <= Marcos
    BY <2>1, Caben
  <2> QED BY <1>3, <1>5, <2>2, <2>3, PasosAbstractos DEF Cumple
<1> QED BY <1>7, <1>8, <1>9, <1>10, <1>11 DEF Inicializa

\* The rest of a request that was admitted, and of a suspension.
LEMMA CumpleTrabaja ==
    ASSUME IInvCuenta, NEW p \in Procs, Reanuda(p) \/ Suspende(p)
    PROVE  Cumple
<1>1. Control /\ PresenteSegunPaso
  BY ControlVale DEF IInvCuenta, IInvRegistros
<1>2. Paso(p)
  BY DEF Paso
<1>3. pc \in [Procs -> Pasos]
  BY <1>1 DEF Control, TiposDeControl
<1>4. pc[p] \in PasosDeReanudacion \cup PasosDeSuspension
  BY DEF Reanuda, CopiarAMarcos, DevolverHueco, EnlazarHueco, OlvidarRegistro, Suspende, UbicarEnHueco,
     UbicarAlFinal, EscribirEnSwap, Registrar, EnlazarRegistro, En, PasosDeReanudacion, PasosDeSuspension
<1>5. Situacion(p) = "residente" /\ p \in enMemoria
  BY <1>1, <1>4, SituacionSegunPaso DEF PresenteSegunPaso, PasosDeReanudacion, PasosDeSuspension
<1>6. CASE EnlazarRegistro(p)
  <2>1. pc'[p] = "soltando" /\ p \notin enMemoria'
    BY <1>3, <1>6 DEF EnlazarRegistro, Pasa
  <2>2. Situacion(p)' = "saliendo"
    BY <2>1, SituacionSegunPaso
  <2>3. Estado' = [Estado EXCEPT ![p] = Situacion(p)']
    BY <1>1, <1>2, CambiaUno
  <2> QED BY <1>5, <2>2, <2>3, PasosAbstractos DEF Cumple
<1>7. CASE ~EnlazarRegistro(p)
  <2>1. pc'[p] \in PasosDeReanudacion \cup PasosDeSuspension \cup {"acepta"} /\ enMemoria' = enMemoria
    BY <1>3, <1>7 DEF Reanuda, CopiarAMarcos, DevolverHueco, EnlazarHueco, OlvidarRegistro, Suspende,
       UbicarEnHueco, UbicarAlFinal, EscribirEnSwap, Registrar, Pasa, PasosDeReanudacion, PasosDeSuspension
  <2>2. Situacion(p)' = "residente"
    BY <1>5, <2>1, SituacionSegunPaso DEF PasosDeReanudacion, PasosDeSuspension
  <2> QED BY <1>1, <1>2, <1>5, <2>2, CumpleQuieto
<1> QED BY <1>6, <1>7

LEMMA CumpleTermina ==
    ASSUME IInvCuenta, NEW p \in Procs, Termina(p) \/ EscribirPagina(p)
    PROVE  Cumple
<1>1. Control /\ PresenteSegunPaso
  BY ControlVale DEF IInvCuenta, IInvRegistros
<1>2. Paso(p)
  BY DEF Paso
<1>3. pc \in [Procs -> Pasos]
  BY <1>1 DEF Control, TiposDeControl
<1>4. CASE LiberarMarco(p) \/ EscribirPagina(p)
  <2>1. Situacion(p)' = Situacion(p)
    BY <1>4 DEF LiberarMarco, EscribirPagina, hilos, Situacion, En
  <2> QED BY <1>1, <1>2, <2>1, CumpleQuieto
<1>5. CASE TablaDestruida(p)
  <2>1. pc[p] = "soltando" /\ pc'[p] \in {"rechaza", "confirma"} /\ enMemoria' = enMemoria
    BY <1>3, <1>5 DEF TablaDestruida, Pasa, En
  <2>2. p \notin enMemoria
    BY <1>1, <2>1 DEF PresenteSegunPaso
  <2>3. Situacion(p) = "saliendo" /\ Situacion(p)' = "afuera"
    BY <2>1, <2>2, SituacionSegunPaso
  <2>4. Estado' = [Estado EXCEPT ![p] = Situacion(p)']
    BY <1>1, <1>2, CambiaUno
  <2> QED BY <2>3, <2>4, PasosAbstractos DEF Cumple
<1>6. CASE Contestar(p)
  <2>1. pc[p] \in {"acepta", "rechaza", "confirma"} /\ pc'[p] = "libre" /\ enMemoria' = enMemoria
    BY <1>3, <1>6 DEF Contestar, Pasa
  <2>2. Situacion(p)' = Situacion(p)
    BY <2>1, SituacionSegunPaso
  <2> QED BY <1>1, <1>2, <2>2, CumpleQuieto
<1> QED BY <1>4, <1>5, <1>6 DEF Termina

\* The memory implements what it promises the Kernel, whether or not list
\* operations overlap: residents fit, and nobody is turned away who would fit
\* beside everything in progress (inicializar_proceso, suspender_proceso,
\* finalizar_proceso).
THEOREM MemoriaCumpleLoPrometido == Spec => CumpleMemoriaAbstracta
<1>1. Init => Abstracta!Init
  BY DEF Init, Abstracta!Init, Situacion, En
<1>2. IInvCuenta /\ [Next]_vars => [Abstracta!Next]_Estado
  <2> SUFFICES ASSUME IInvCuenta, [Next]_vars PROVE Abstracta!Next \/ Estado' = Estado
    OBVIOUS
  <2>1. ASSUME NEW p \in Procs, Paso(p) PROVE Cumple
    BY <2>1, CumplePide, CumpleInicializa, CumpleTrabaja, CumpleTermina DEF Paso
  <2>2. CASE UNCHANGED vars
    <3>1. Estado' = Estado
      BY <2>2 DEF vars, hilos, Estado, Situacion, En
    <3> QED BY <3>1
  <2> QED BY <2>1, <2>2 DEF Next, Paso, Cumple
<1>3. [Abstracta!Next]_Estado <=> [Abstracta!Next]_([p \in Procs |-> Situacion(p)])
  BY DEF Estado
<1> QED BY <1>1, <1>2, <1>3, InvarianteDeCuenta, PTL DEF Spec, CumpleMemoriaAbstracta, Abstracta!Spec

=============================================================================
