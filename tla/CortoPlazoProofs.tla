-------------------------- MODULE CortoPlazoProofs --------------------------
(***************************************************************************)
(* Machine-checked proofs about CortoPlazo, for any number of processes,     *)
(* CPUs, execution threads and any estimates: nothing but a late cut of the  *)
(* planner puts READY out of order, its semaphore counts it, no CPU and no process is shared; the Kernel and each *)
(* CPU take turns on their socket, from which every type follows; and with   *)
(* preemption there are posts of REPLANIFICAR for whom a free CPU could take. *)
(***************************************************************************)
EXTENDS CortoPlazo, SequenceTheorems, FiniteSetTheorems, TLAPS

-----------------------------------------------------------------------------
(* A sorted insertion, and the removal of the first.                       *)

\* d is c with p put at i.
EsInsercion(S, c, i, p, d) ==
    /\ d \in Seq(S) /\ Len(d) = Len(c) + 1
    /\ \A j \in 1 .. Len(c) + 1 :
         d[j] = IF j < i THEN c[j] ELSE IF j = i THEN p ELSE c[j - 1]

\* Where each element ends up.
LEMMA InsertAtPuntos ==
    ASSUME NEW S, NEW c \in Seq(S), NEW p \in S, NEW i \in 1 .. Len(c) + 1
    PROVE  EsInsercion(S, c, i, p, InsertAt(c, i, p))
<1> DEFINE n == Len(c)
           a == SubSeq(c, 1, i - 1)
           b == SubSeq(c, i, n)
           e == a \o <<p>>
           d == e \o b
<1>1. n \in Nat /\ i \in 1 .. n + 1
  OBVIOUS
<1>2. /\ a \in Seq(S) /\ Len(a) = i - 1
      /\ \A j \in 1 .. i - 1 : a[j] = c[j]
  BY <1>1
<1>3. /\ b \in Seq(S) /\ Len(b) = n - i + 1
      /\ \A j \in 1 .. n - i + 1 : b[j] = c[i + j - 1]
  BY <1>1
<1>4. <<p>> \in Seq(S) /\ Len(<<p>>) = 1 /\ <<p>>[1] = p
  OBVIOUS
<1>5. InsertAt(c, i, p) = d
  BY DEF InsertAt
<1> HIDE DEF n, a, b
<1>6. /\ e \in Seq(S) /\ Len(e) = i
      /\ \A j \in 1 .. i : e[j] = IF j < i THEN c[j] ELSE p
  BY <1>1, <1>2, <1>4
<1> HIDE DEF e
<1>7. d \in Seq(S)
  BY <1>3, <1>6
<1>8. Len(d) = n + 1
  <2>1. e \in Seq(S) /\ b \in Seq(S)
    BY <1>3, <1>6
  <2>2. Len(d) = Len(e) + Len(b)
    BY <2>1
  <2> HIDE DEF d
  <2> QED BY <2>2, <1>1, <1>3, <1>6
<1>9. \A j \in 1 .. i : d[j] = e[j]
  BY <1>1, <1>3, <1>6
<1>10. \A k \in 1 .. n - i + 1 : d[i + k] = b[k]
  BY <1>1, <1>3, <1>6
<1> HIDE DEF d
<1>11. ASSUME NEW j \in 1 .. n + 1
       PROVE  d[j] = IF j < i THEN c[j] ELSE IF j = i THEN p ELSE c[j - 1]
  <2>1. CASE j <= i
    BY <2>1, <1>1, <1>6, <1>9
  <2>2. CASE j > i
    <3> DEFINE k == j - i
    <3>1. k \in 1 .. n - i + 1 /\ i + k = j /\ i + k - 1 = j - 1
      BY <2>2, <1>1
    <3> HIDE DEF k
    <3>2. d[i + k] = c[i + k - 1]
      BY <3>1, <1>3, <1>10
    <3> QED BY <3>1, <3>2, <2>2, <1>1
  <2> QED BY <2>1, <2>2, <1>1
<1> QED BY <1>5, <1>7, <1>8, <1>11 DEF n, EsInsercion

Distintos == \A i, j \in DOMAIN ready : i # j => ready[i] # ready[j]

\* A process that was not in READY is put there.
LEMMA Insertado ==
    ASSUME NEW S, ready \in Seq(S), NEW p \in S, NEW e, ready' \in Ordenadas(p, e)
    PROVE  /\ ready' \in Seq(S) /\ Len(ready') = Len(ready) + 1
           /\ EnReady' = EnReady \cup {p}
           /\ Distintos /\ p \notin EnReady => Distintos'
<1>1. PICK i \in 1 .. Len(ready) + 1 : ready' = InsertAt(ready, i, p)
  BY DEF Ordenadas
<1> DEFINE n == Len(ready)
<1>2. n \in Nat /\ DOMAIN ready = 1 .. n
  OBVIOUS
<1>3. /\ ready' \in Seq(S) /\ Len(ready') = n + 1
      /\ \A j \in 1 .. n + 1 :
           ready'[j] = IF j < i THEN ready[j] ELSE IF j = i THEN p ELSE ready[j - 1]
  <2>1. EsInsercion(S, ready, i, p, ready')
    BY <1>1, InsertAtPuntos
  <2> QED BY <2>1 DEF EsInsercion
<1>4. DOMAIN ready' = 1 .. n + 1
  BY <1>3
<1> HIDE DEF n
<1>5. EnReady' \subseteq EnReady \cup {p}
  <2> SUFFICES ASSUME NEW j \in 1 .. n + 1 PROVE ready'[j] \in EnReady \cup {p}
    BY <1>4 DEF EnReady
  <2>1. j < i => j \in 1 .. n
    BY <1>2 DEF n
  <2>2. j > i => j - 1 \in 1 .. n
    BY <1>2 DEF n
  <2> QED BY <1>2, <1>3, <2>1, <2>2 DEF EnReady
<1>6. EnReady \cup {p} \subseteq EnReady'
  <2>1. p \in EnReady'
    <3>1. i \in 1 .. n + 1 /\ ready'[i] = p
      BY <1>3, <1>2 DEF n
    <3> QED BY <3>1, <1>4 DEF EnReady
  <2>2. ASSUME NEW j \in 1 .. n PROVE ready[j] \in EnReady'
    <3>1. CASE j < i
      <4>1. j \in 1 .. n + 1 /\ ready'[j] = ready[j]
        BY <3>1, <1>3, <1>2
      <4> QED BY <4>1, <1>4 DEF EnReady
    <3>2. CASE j >= i
      <4>1. j + 1 \in 1 .. n + 1 /\ ready'[j + 1] = ready[j]
        BY <3>2, <1>3, <1>2
      <4> QED BY <4>1, <1>4 DEF EnReady
    <3> QED BY <3>1, <3>2, <1>2
  <2> QED BY <2>1, <2>2, <1>2 DEF EnReady
<1>7. ASSUME Distintos, p \notin EnReady PROVE Distintos'
  <2> SUFFICES ASSUME NEW j \in 1 .. n + 1, NEW k \in 1 .. n + 1, j # k
               PROVE  ready'[j] # ready'[k]
    BY <1>4 DEF Distintos
  <2> DEFINE de(x) == IF x < i THEN x ELSE x - 1
  <2>1. \A x \in 1 .. n + 1 : x # i => de(x) \in 1 .. n /\ ready'[x] = ready[de(x)]
    BY <1>2, <1>3 DEF n
  <2>2. \A x \in 1 .. n : ready[x] # p
    BY <1>2, <1>7 DEF EnReady
  <2>3. j # i /\ k # i => de(j) # de(k)
    BY <1>2 DEF n
  <2>4. ready'[i] = p
    BY <1>2, <1>3 DEF n
  <2> HIDE DEF de
  <2> QED BY <2>1, <2>2, <2>3, <2>4, <1>2, <1>7 DEF Distintos
<1> QED BY <1>3, <1>5, <1>6, <1>7 DEF n

\* It is put where its estimate goes, so READY stays sorted as long as no estimate
\* of those already there changes.
LEMMA InsertadoOrdenado ==
    ASSUME NEW S, ready \in Seq(S), NEW p \in S, NEW e \in Int,
           est \in [S -> Int], est' \in [S -> Int], est'[p] = e,
           \A q \in EnReady : est'[q] = est[q],
           ready' \in Ordenadas(p, e), ReadyOrdenada
    PROVE  ReadyOrdenada'
<1>1. PICK i \in 1 .. Len(ready) + 1 :
          /\ ready' = InsertAt(ready, i, p)
          /\ \A j \in 1 .. i - 1 : est[ready[j]] <= e
          /\ i <= Len(ready) => e <= est[ready[i]]
  BY DEF Ordenadas
<1> DEFINE n == Len(ready)
<1>2. n \in Nat /\ DOMAIN ready = 1 .. n
  OBVIOUS
<1>3. /\ ready' \in Seq(S) /\ Len(ready') = n + 1
      /\ \A j \in 1 .. n + 1 :
           ready'[j] = IF j < i THEN ready[j] ELSE IF j = i THEN p ELSE ready[j - 1]
  <2>1. EsInsercion(S, ready, i, p, ready')
    BY <1>1, InsertAtPuntos
  <2> QED BY <2>1 DEF EsInsercion
<1>4. DOMAIN ready' = 1 .. n + 1
  BY <1>3
<1>5. \A j \in 1 .. n : ready[j] \in S /\ est[ready[j]] \in Int /\ est'[ready[j]] = est[ready[j]]
  <2> TAKE j \in 1 .. n
  <2>1. ready[j] \in S /\ ready[j] \in EnReady
    BY <1>2 DEF EnReady
  <2> QED BY <2>1
<1>6. \A j, k \in 1 .. n : j < k => est[ready[j]] <= est[ready[k]]
  BY <1>2 DEF ReadyOrdenada
<1>7. /\ i \in 1 .. n + 1
      /\ \A j \in 1 .. n : j < i => est[ready[j]] <= e
      /\ \A j \in 1 .. n : j >= i => e <= est[ready[j]]
  <2>1. /\ i \in 1 .. n + 1
        /\ \A j \in 1 .. n : j < i => est[ready[j]] <= e
        /\ i <= n => e <= est[ready[i]]
    BY <1>1, <1>2
  <2> HIDE DEF n
  <2>2. ASSUME NEW j \in 1 .. n, j >= i PROVE e <= est[ready[j]]
    <3>1. i \in 1 .. n /\ e <= est[ready[i]]
      BY <2>1, <2>2, <1>2
    <3>2. est[ready[i]] <= est[ready[j]]
      BY <3>1, <2>2, <1>2, <1>5, <1>6
    <3> QED BY <3>1, <3>2, <2>2, <1>5
  <2> QED BY <2>1, <2>2
<1> DEFINE v(x) == est'[ready'[x]]
<1> HIDE DEF n
<1>8. ASSUME NEW x \in 1 .. n + 1
      PROVE  /\ x < i => x \in 1 .. n /\ v(x) = est[ready[x]]
             /\ x = i => v(x) = e
             /\ x > i => x - 1 \in 1 .. n /\ v(x) = est[ready[x - 1]]
  <2>1. CASE x < i
    <3>1. x \in 1 .. n
      BY <2>1, <1>2, <1>7
    <3>2. ready'[x] = ready[x]
      BY <2>1, <1>2, <1>3, <1>7
    <3> QED BY <2>1, <3>1, <3>2, <1>2, <1>5, <1>7
  <2>2. CASE x = i
    BY <2>2, <1>2, <1>3, <1>7
  <2>3. CASE x > i
    <3>1. x - 1 \in 1 .. n
      BY <2>3, <1>2, <1>7
    <3>2. ready'[x] = ready[x - 1]
      BY <2>3, <1>2, <1>3, <1>7
    <3> QED BY <2>3, <3>1, <3>2, <1>2, <1>5, <1>7
  <2> QED BY <2>1, <2>2, <2>3, <1>2, <1>7
<1> HIDE DEF v
<1>9. ASSUME NEW j \in 1 .. n + 1, NEW k \in 1 .. n + 1, j < k
      PROVE  v(j) <= v(k)
  <2>1. CASE k < i
    BY <2>1, <1>9, <1>8, <1>6, <1>2, <1>7
  <2>2. CASE k = i
    BY <2>2, <1>9, <1>8, <1>7, <1>2
  <2>3. CASE k > i /\ j = i
    BY <2>3, <1>9, <1>8, <1>7, <1>2
  <2>4. CASE k > i /\ j < i
    <3>1. v(j) = est[ready[j]] /\ j \in 1 .. n /\ v(k) = est[ready[k - 1]] /\ k - 1 \in 1 .. n
      BY <2>4, <1>8
    <3>2. est[ready[j]] <= e /\ e <= est[ready[k - 1]]
      BY <3>1, <2>4, <1>7, <1>2
    <3> QED BY <3>1, <3>2, <1>5
  <2>5. CASE k > i /\ j > i
    <3>1. v(j) = est[ready[j - 1]] /\ j - 1 \in 1 .. n /\ v(k) = est[ready[k - 1]] /\ k - 1 \in 1 .. n
      BY <2>5, <1>8
    <3> QED BY <3>1, <1>9, <1>6, <1>2
  <2> QED BY <2>1, <2>2, <2>3, <2>4, <2>5, <1>2, <1>7
<1> QED BY <1>4, <1>9 DEF ReadyOrdenada, v

\* The first one goes.
LEMMA Sacado ==
    ASSUME NEW S, ready \in Seq(S), ready # <<>>, ready' = Tail(ready)
    PROVE  /\ Head(ready) \in EnReady /\ EnReady \subseteq S
           /\ ready' \in Seq(S) /\ Len(ready') = Len(ready) - 1
           /\ Distintos => EnReady' = EnReady \ {Head(ready)} /\ Distintos'
           /\ ReadyOrdenada /\ est' = est => ReadyOrdenada'
<1> DEFINE n == Len(ready)
<1>1. n \in Nat /\ n >= 1 /\ DOMAIN ready = 1 .. n
  OBVIOUS
<1>2. /\ ready' \in Seq(S) /\ Len(ready') = n - 1 /\ DOMAIN ready' = 1 .. n - 1
      /\ \A j \in 1 .. n - 1 : ready'[j] = ready[j + 1]
  OBVIOUS
<1>3. Head(ready) = ready[1] /\ ready[1] \in EnReady /\ EnReady \subseteq S
  BY <1>1 DEF EnReady
<1> HIDE DEF n
<1>4. ASSUME Distintos PROVE EnReady' = EnReady \ {ready[1]} /\ Distintos'
  <2>1. EnReady' \subseteq EnReady \ {ready[1]}
    <3> SUFFICES ASSUME NEW j \in 1 .. n - 1 PROVE ready'[j] \in EnReady \ {ready[1]}
      BY <1>2 DEF EnReady
    <3>1. j + 1 \in 1 .. n /\ j + 1 # 1 /\ 1 \in 1 .. n
      BY <1>1
    <3> QED BY <3>1, <1>1, <1>2, <1>4 DEF EnReady, Distintos
  <2>2. EnReady \ {ready[1]} \subseteq EnReady'
    <3> SUFFICES ASSUME NEW j \in 1 .. n, j # 1 PROVE ready[j] \in EnReady'
      BY <1>1 DEF EnReady
    <3>1. j - 1 \in 1 .. n - 1 /\ ready'[j - 1] = ready[j]
      BY <1>1, <1>2
    <3> QED BY <3>1, <1>2 DEF EnReady
  <2>3. Distintos'
    BY <1>1, <1>2, <1>4 DEF Distintos
  <2> QED BY <2>1, <2>2, <2>3
<1>5. ReadyOrdenada /\ est' = est => ReadyOrdenada'
  BY <1>1, <1>2 DEF ReadyOrdenada
<1> QED BY <1>2, <1>3, <1>4, <1>5 DEF n

-----------------------------------------------------------------------------
(* The inductive invariant.                                                *)

PP == DOMAIN programa
Campos == {"pc", "proc", "cpu", "motivo"}
CamposPlani == {"pc", "cpu", "proc", "faltan", "victima", "base"}

\* Threads with a process; those of them that hold its CPU; those whose CPU may
\* still have the process written in it.
Ocupado(h) == hilo[h].pc # "libre"
ConCpu(h) == hilo[h].pc \in {"asigna", "espera", "atiende", "libera", "desfasado"}
Escrito(h) == hilo[h].pc \notin {"libre", "sale"}

Tipos ==
    /\ ready \in Seq(PP)
    /\ est \in [PP -> Nat]
    /\ enReady \in Nat
    /\ puedeUsarse \in [Cpus -> BOOLEAN]
    /\ conectadas \subseteq Cpus
    /\ DOMAIN ejecutando = Cpus
    /\ DOMAIN plani = CamposPlani
    /\ plani.pc = "resta" => plani.cpu \in Cpus
    /\ plani.pc = "escribe" => plani.victima \in PP /\ plani.base \in Nat
    /\ DOMAIN hilo = Hilos
    /\ \A h \in Hilos : DOMAIN hilo[h] = Campos

\* A process is in one place: outside, in READY once, or in one thread.
UnLugar ==
    /\ Distintos
    /\ \A p \in fuera : p \in PP /\ p \notin EnReady
    /\ \A h \in Hilos : Ocupado(h) =>
         hilo[h].proc \in PP /\ hilo[h].proc \notin EnReady /\ hilo[h].proc \notin fuera
    /\ \A g, h \in Hilos : Ocupado(g) /\ Ocupado(h) /\ g # h => hilo[g].proc # hilo[h].proc

\* A CPU that is taken belongs to one thread, or to the planner about to make one.
UnDuenio ==
    /\ \A h \in Hilos : ConCpu(h) => hilo[h].cpu \in conectadas /\ ~puedeUsarse[hilo[h].cpu]
    /\ \A g, h \in Hilos : ConCpu(g) /\ ConCpu(h) /\ g # h => hilo[g].cpu # hilo[h].cpu
    /\ plani.pc = "despacha" =>
         /\ plani.cpu \in conectadas /\ ~puedeUsarse[plani.cpu]
         /\ \A h \in Hilos : ConCpu(h) => hilo[h].cpu # plani.cpu

\* The process written in a CPU is the one of a thread.
EscritoPorHilo ==
    \A c \in Cpus : ejecutando[c] \in Procs =>
        \E h \in Hilos : Escrito(h) /\ hilo[h].cpu = c /\ hilo[h].proc = ejecutando[c]

IInv == Tipos /\ UnLugar /\ UnDuenio /\ EscritoPorHilo /\ FichasDeReady

-----------------------------------------------------------------------------
(* Parts of it that a step leaves alone.                                   *)

\* A step that changes the pc of one thread, and nothing of the others.
Movido(h, pc) ==
    /\ DOMAIN hilo' = Hilos
    /\ \A g \in Hilos : DOMAIN hilo'[g] = Campos
    /\ \A g \in Hilos : hilo'[g].proc = hilo[g].proc /\ hilo'[g].cpu = hilo[g].cpu
    /\ \A g \in Hilos : g # h => hilo'[g].pc = hilo[g].pc
    /\ hilo'[h].pc = pc

LEMMA PasaMueve ==
    ASSUME Tipos, NEW h \in Hilos, NEW x, Pasa(h, x)
    PROVE  Movido(h, x)
  BY DEF Tipos, Campos, Pasa, Movido

LEMMA UnLugarIgual ==
    ASSUME UnLugar, UNCHANGED <<ready, fuera, programa, hilo>>
    PROVE  UnLugar'
  BY DEF UnLugar, Ocupado, EnReady, Distintos, PP

LEMMA UnLugarQuieto ==
    ASSUME UnLugar, NEW h \in Hilos, NEW x, Movido(h, x), Ocupado(h),
           ready' = ready, fuera' = fuera, programa' = programa
    PROVE  UnLugar'
  BY DEF UnLugar, Ocupado, Movido, EnReady, Distintos, PP

LEMMA UnDuenioQuieto ==
    ASSUME UnDuenio, NEW h \in Hilos, NEW x, Movido(h, x), ConCpu(h),
           puedeUsarse' = puedeUsarse, conectadas' = conectadas, plani' = plani
    PROVE  UnDuenio'
  BY DEF UnDuenio, ConCpu, Movido

\* Whether the queues, their threads and the CPUs stay as they are.
Iguales == UNCHANGED <<programa, ready, fuera, est, hilo, conectadas, puedeUsarse, ejecutando>>

\* The CPUs, and the interrupts.
LEMMA NadaCambia ==
    ASSUME IInv, Iguales, UNCHANGED <<enReady, plani>>, ~caido \/ UNCHANGED caido
    PROVE  IInv'
<1>1. Tipos'
  BY DEF IInv, Iguales, Tipos, PP
<1>2. UnLugar'
  BY UnLugarIgual DEF IInv, Iguales
<1>3. UnDuenio'
  BY DEF IInv, Iguales, UnDuenio, ConCpu
<1>4. EscritoPorHilo'
  BY DEF IInv, Iguales, EscritoPorHilo, Escrito
<1>5. FichasDeReady'
  BY DEF IInv, Iguales, FichasDeReady
<1> QED BY <1>1, <1>2, <1>3, <1>4, <1>5 DEF IInv

-----------------------------------------------------------------------------
(* The planner.                                                            *)

\* A planner that is awake goes on to another step of the comparison.
LEMMA PlaniSigue ==
    ASSUME IInv, ~caido, Iguales, UNCHANGED enReady, plani.pc # "duerme",
           DOMAIN plani' = CamposPlani, plani'.pc # "duerme", plani'.pc # "despacha",
           plani'.pc = "resta" => plani'.cpu \in Cpus,
           plani'.pc = "escribe" => plani'.victima \in PP /\ plani'.base \in Nat
    PROVE  IInv'
<1>1. Tipos'
  BY DEF IInv, Iguales, Tipos, PP
<1>2. UnLugar'
  BY UnLugarIgual DEF IInv, Iguales
<1>3. UnDuenio'
  BY DEF IInv, Iguales, UnDuenio, ConCpu
<1>4. EscritoPorHilo'
  BY DEF IInv, Iguales, EscritoPorHilo, Escrito
<1>5. FichasDeReady'
  BY DEF IInv, Iguales, FichasDeReady
<1> QED BY <1>1, <1>2, <1>3, <1>4, <1>5 DEF IInv

LEMMA RecorridaSigue ==
    ASSUME DOMAIN plani = CamposPlani, NEW c, NEW lazo, NEW luego
    PROVE  /\ DOMAIN Recorrida(c, lazo, luego) = CamposPlani
           /\ Recorrida(c, lazo, luego).pc \in {lazo, luego}
  BY DEF Recorrida, Suelta, CamposPlani

\* It takes a CPU, or finds none.
LEMMA PlaniDespiertaInv ==
    ASSUME IInv, PlaniDespierta
    PROVE  IInv'
<1>1. enReady \in Nat /\ enReady > 0 /\ enReady' = enReady - 1
  BY DEF PlaniDespierta, EsperarSemaforos, IInv, Tipos
<1>2. Len(ready) = enReady' + 1 /\ enReady' \in Nat
  <2>1. Len(ready) = enReady + 0
    BY DEF PlaniDespierta, IInv, FichasDeReady
  <2> QED BY <1>1, <2>1
<1>3. DOMAIN plani' = CamposPlani /\ plani'.pc \in {"despacha", "copia"}
  BY DEF PlaniDespierta, Duerme, CamposPlani
<1>4. puedeUsarse' \in [Cpus -> BOOLEAN]
  BY DEF PlaniDespierta, BuscarCpuLibre, IInv, Tipos
<1>5. Tipos'
  BY <1>2, <1>3, <1>4 DEF PlaniDespierta, IInv, Tipos, PP, colas
<1>6. UnLugar'
  BY UnLugarIgual DEF PlaniDespierta, IInv, colas
<1>7. UnDuenio'
  <2>1. CASE plani'.pc = "despacha"
    <3>1. PICK c \in Cpus : BuscarCpuLibre(c) /\ plani' = [Duerme EXCEPT !.pc = "despacha", !.cpu = c]
      BY <2>1 DEF PlaniDespierta, Duerme
    <3>2. plani'.cpu = c /\ c \in conectadas /\ puedeUsarse[c]
      BY <3>1 DEF Duerme, BuscarCpuLibre, CpusUsables
    <3>3. ~puedeUsarse'[c] /\ \A d \in Cpus : d # c => puedeUsarse'[d] = puedeUsarse[d]
      BY <3>1 DEF BuscarCpuLibre, IInv, Tipos
    <3>4. \A h \in Hilos : ConCpu(h) => hilo[h].cpu \in Cpus /\ hilo[h].cpu # c
      BY <3>2 DEF IInv, UnDuenio, Tipos
    <3>5. hilo' = hilo /\ conectadas' = conectadas
      BY DEF PlaniDespierta
    <3> QED BY <3>2, <3>3, <3>4, <3>5 DEF IInv, UnDuenio, ConCpu
  <2>2. CASE plani'.pc = "copia"
    <3>1. puedeUsarse' = puedeUsarse
      BY <2>2 DEF PlaniDespierta, Duerme
    <3> QED BY <3>1, <2>2 DEF PlaniDespierta, IInv, UnDuenio, ConCpu
  <2> QED BY <2>1, <2>2, <1>3
<1>8. EscritoPorHilo'
  BY DEF PlaniDespierta, IInv, EscritoPorHilo, Escrito
<1>9. FichasDeReady'
  BY <1>2, <1>3 DEF PlaniDespierta, FichasDeReady, colas
<1> QED BY <1>5, <1>6, <1>7, <1>8, <1>9 DEF IInv

\* The first of READY goes to a new thread.
LEMMA PlaniDespachaInv ==
    ASSUME IInv, NEW h \in Hilos, PlaniDespacha(h)
    PROVE  IInv'
<1> DEFINE p == Head(ready)
<1>1. Len(ready) = enReady + 1 /\ enReady \in Nat /\ enReady' = enReady
  BY DEF PlaniDespacha, Sigue, IInv, Tipos, FichasDeReady
<1>2. ready \in Seq(PP) /\ ready # <<>> /\ ready' = Tail(ready)
  <2>1. Len(<<>>) = 0
    OBVIOUS
  <2> QED BY <1>1, <2>1 DEF PlaniDespacha, IInv, Tipos
<1>3. /\ p \in EnReady /\ EnReady \subseteq PP
      /\ ready' \in Seq(PP) /\ Len(ready') = Len(ready) - 1
      /\ EnReady' = EnReady \ {p} /\ Distintos'
  BY <1>2, Sacado DEF IInv, UnLugar
<1> HIDE DEF p
<1>5. plani' = Duerme /\ plani.pc = "despacha"
  BY DEF PlaniDespacha
<1>6. /\ DOMAIN hilo' = Hilos /\ \A g \in Hilos : g # h => hilo'[g] = hilo[g]
      /\ hilo'[h] = [HiloLibre EXCEPT !.pc = "asigna", !.proc = p, !.cpu = plani.cpu]
      /\ hilo[h] = HiloLibre
  BY DEF PlaniDespacha, IInv, Tipos, p
<1>7. /\ hilo'[h].pc = "asigna" /\ hilo'[h].proc = p /\ hilo'[h].cpu = plani.cpu
      /\ DOMAIN hilo'[h] = Campos /\ hilo[h].pc = "libre"
  BY <1>6 DEF HiloLibre, Campos
<1>8. Tipos'
  <2>1. /\ PP' = PP /\ UNCHANGED <<est, puedeUsarse, conectadas, ejecutando>>
    BY DEF PlaniDespacha, PP, instancias
  <2>2. DOMAIN plani' = CamposPlani /\ plani'.pc \notin {"resta", "escribe"}
    BY <1>5 DEF Duerme, CamposPlani
  <2>3. \A g \in Hilos : DOMAIN hilo'[g] = Campos
    BY <1>6, <1>7 DEF IInv, Tipos
  <2> QED BY <1>1, <1>3, <1>6, <2>1, <2>2, <2>3 DEF IInv, Tipos
<1>9. UnLugar'
  <2>1. fuera' = fuera /\ PP' = PP
    BY DEF PlaniDespacha, PP
  <2>2. \A q \in fuera' : q \in PP' /\ q \notin EnReady'
    BY <1>3, <2>1 DEF IInv, UnLugar
  <2>3. \A g \in Hilos : Ocupado(g)' =>
           /\ hilo'[g].proc \in PP' /\ hilo'[g].proc \notin EnReady' /\ hilo'[g].proc \notin fuera'
           /\ g # h => Ocupado(g) /\ hilo'[g].proc = hilo[g].proc /\ hilo'[g].proc # p
    BY <1>3, <1>6, <1>7, <2>1 DEF IInv, UnLugar, Ocupado
  <2>4. \A f, g \in Hilos : Ocupado(f)' /\ Ocupado(g)' /\ f # g => hilo'[f].proc # hilo'[g].proc
    BY <1>7, <2>3 DEF IInv, UnLugar
  <2> QED BY <1>3, <2>2, <2>3, <2>4 DEF UnLugar
<1>10. UnDuenio'
  <2>1. puedeUsarse' = puedeUsarse /\ conectadas' = conectadas
    BY DEF PlaniDespacha, instancias
  <2>2. plani'.pc = "duerme"
    BY <1>5 DEF Duerme
  <2>3. plani.cpu \in conectadas /\ ~puedeUsarse[plani.cpu]
    BY <1>5 DEF IInv, UnDuenio
  <2>4. \A g \in Hilos : g # h /\ ConCpu(g)' =>
           ConCpu(g) /\ hilo'[g].cpu = hilo[g].cpu /\ hilo'[g].cpu # plani.cpu
    BY <1>5, <1>6 DEF IInv, UnDuenio, ConCpu
  <2> QED BY <1>7, <2>1, <2>2, <2>3, <2>4 DEF IInv, UnDuenio
<1>11. EscritoPorHilo'
  <2>1. ejecutando' = ejecutando
    BY DEF PlaniDespacha, instancias
  <2>2. \A g \in Hilos : Escrito(g) => g # h /\ Escrito(g)' /\ hilo'[g] = hilo[g]
    BY <1>6, <1>7 DEF Escrito
  <2> QED BY <2>1, <2>2 DEF IInv, EscritoPorHilo
<1>12. FichasDeReady'
  BY <1>1, <1>3, <1>5 DEF FichasDeReady, Duerme
<1> QED BY <1>8, <1>9, <1>10, <1>11, <1>12 DEF IInv

\* The steps of the comparison that touch nothing else of the invariant.
LEMMA PlaniComparaInv ==
    ASSUME IInv, PlaniCopia \/ Elige \/ \E c \in Cpus : FrenaMira(c) \/ Recorre(c)
    PROVE  IInv'
<1>1. DOMAIN plani = CamposPlani
  BY DEF IInv, Tipos
<1>2. Iguales /\ UNCHANGED enReady /\ ~caido
  BY DEF PlaniCopia, FrenaMira, Recorre, Elige, Sigue, Iguales, colas, sems, instancias
<1>3. plani.pc # "duerme"
  BY DEF PlaniCopia, FrenaMira, Recorre, Elige
<1>4. CASE PlaniCopia
  <2>1. DOMAIN plani' = CamposPlani /\ plani'.pc = "frena"
    BY <1>1, <1>4 DEF PlaniCopia, CamposPlani
  <2> QED BY <2>1, <1>2, <1>3, PlaniSigue
<1>5. ASSUME NEW c \in Cpus, FrenaMira(c) PROVE IInv'
  <2>1. CASE plani' = Recorrida(c, "frena", "recorre")
    <3>1. DOMAIN plani' = CamposPlani /\ plani'.pc \in {"frena", "recorre"}
      BY <1>1, <2>1, RecorridaSigue
    <3> QED BY <3>1, <1>2, <1>3, PlaniSigue
  <2>2. CASE plani' = [plani EXCEPT !.pc = "resta", !.cpu = c]
    <3>1. DOMAIN plani' = CamposPlani /\ plani'.pc = "resta" /\ plani'.cpu = c
      BY <1>1, <2>2 DEF CamposPlani
    <3> QED BY <3>1, <1>2, <1>3, PlaniSigue
  <2> QED BY <2>1, <2>2, <1>5 DEF FrenaMira
<1>6. ASSUME NEW c \in Cpus, Recorre(c) PROVE IInv'
  <2>1. CASE plani' = Recorrida(c, "recorre", "reanuda")
    <3>1. DOMAIN plani' = CamposPlani /\ plani'.pc \in {"recorre", "reanuda"}
      BY <1>1, <2>1, RecorridaSigue
    <3> QED BY <3>1, <1>2, <1>3, PlaniSigue
  <2>2. CASE plani' = [plani EXCEPT !.pc = "elige"]
    <3>1. DOMAIN plani' = CamposPlani /\ plani'.pc = "elige"
      BY <1>1, <2>2 DEF CamposPlani
    <3> QED BY <3>1, <1>2, <1>3, PlaniSigue
  <2> QED BY <2>1, <2>2, <1>6 DEF Recorre
<1>7. CASE Elige
  <2>1. DOMAIN plani' = CamposPlani /\ plani'.pc = "reanuda"
    BY <1>1, <1>7 DEF Elige, CamposPlani
  <2> QED BY <2>1, <1>2, <1>3, PlaniSigue
<1> QED BY <1>4, <1>5, <1>6, <1>7

\* What is loaded is a process of a thread, so one there is.
LEMMA FrenaCargaInv ==
    ASSUME IInv, FrenaCarga
    PROVE  IInv'
<1>1. Iguales /\ UNCHANGED enReady /\ ~caido /\ plani.pc = "resta" /\ DOMAIN plani = CamposPlani
  BY DEF FrenaCarga, Iguales, colas, sems, instancias, IInv, Tipos
<1>2. CASE ~Valida(plani.cpu)
  <2>1. plani' = plani
    BY <1>2 DEF FrenaCarga
  <2>2. plani'.pc = "resta" => plani'.cpu \in Cpus
    BY <2>1 DEF IInv, Tipos
  <2> QED BY <2>1, <2>2, <1>1, PlaniSigue
<1>3. CASE Valida(plani.cpu)
  <2>1. PICK q : q = ejecutando[plani.cpu]
    OBVIOUS
  <2>2. plani' = [plani EXCEPT !.pc = "escribe", !.victima = q, !.base = est[q]]
    BY <1>3, <2>1 DEF FrenaCarga
  <2>3. DOMAIN plani' = CamposPlani /\ plani'.pc = "escribe" /\ plani'.victima = q /\ plani'.base = est[q]
    BY <2>2, <1>1 DEF CamposPlani
  <2>4. plani.cpu \in Cpus /\ q \in Procs
    BY <1>1, <1>3, <2>1 DEF IInv, Tipos, Valida
  <2>5. PICK h \in Hilos : Escrito(h) /\ hilo[h].proc = q
    BY <2>1, <2>4 DEF IInv, EscritoPorHilo
  <2>6. q \in PP /\ est[q] \in Nat
    BY <2>5 DEF IInv, UnLugar, Escrito, Ocupado, Tipos
  <2> QED BY <2>3, <2>6, <1>1, PlaniSigue
<1> QED BY <1>2, <1>3

\* An estimate below one of two is stored.
LEMMA CorteGuardado ==
    ASSUME FrenaEscribe, NEW S, 0 .. Mayor(plani.base, est[plani.victima]) \subseteq S,
           est \in [PP -> S], plani.victima \in PP
    PROVE  /\ est' \in [PP -> S]
           /\ \A q \in PP : q # plani.victima => est'[q] = est[q]
<1>1. PICK v : v = plani.victima
  OBVIOUS
<1>2. PICK e \in 0 .. Mayor(plani.base, est[v]) : est' = [est EXCEPT ![v] = e]
  BY <1>1 DEF FrenaEscribe
<1>3. e \in S
  BY <1>1, <1>2
<1> QED BY <1>1, <1>2, <1>3

LEMMA FrenaEscribeInv ==
    ASSUME IInv, FrenaEscribe
    PROVE  IInv'
<1>1. DOMAIN plani' = CamposPlani /\ plani'.pc \in {"frena", "recorre"}
  BY RecorridaSigue DEF FrenaEscribe, IInv, Tipos
<1>2. plani.victima \in PP /\ plani.pc = "escribe" /\ ~caido /\ est \in [PP -> Nat]
  BY DEF FrenaEscribe, IInv, Tipos
<1>3. est' \in [PP -> Nat]
  <2>1. 0 .. Mayor(plani.base, est[plani.victima]) \subseteq Nat
    OBVIOUS
  <2> QED BY <2>1, <1>2, CorteGuardado
<1>4. UNCHANGED <<programa, ready, fuera, enReady, hilo, conectadas, puedeUsarse, ejecutando>>
  BY DEF FrenaEscribe, colas, sems, instancias
<1>5. Tipos'
  BY <1>1, <1>3, <1>4 DEF IInv, Tipos, PP
<1>6. UnLugar'
  BY <1>4, UnLugarIgual DEF IInv
<1>7. UnDuenio'
  BY <1>1, <1>4 DEF IInv, UnDuenio, ConCpu
<1>8. EscritoPorHilo'
  BY <1>4 DEF IInv, EscritoPorHilo, Escrito
<1>9. FichasDeReady'
  BY <1>1, <1>2, <1>4 DEF IInv, FichasDeReady
<1> QED BY <1>5, <1>6, <1>7, <1>8, <1>9 DEF IInv

LEMMA ReanudaInv ==
    ASSUME IInv, NEW c \in Cpus, Reanuda(c)
    PROVE  IInv'
<1>1. Iguales
  BY DEF Reanuda, Iguales, colas, instancias
<1>2. CASE plani.faltan = {c} /\ Valida(c)
  <2>1. plani' = Duerme /\ enReady' = enReady + 1 /\ plani.pc = "reanuda" /\ ~caido
    BY <1>2 DEF Reanuda
  <2>2. DOMAIN plani' = CamposPlani /\ plani'.pc = "duerme"
    BY <2>1 DEF Duerme, CamposPlani
  <2>3. Tipos'
    BY <1>1, <2>1, <2>2 DEF IInv, Iguales, Tipos, PP
  <2>4. UnLugar'
    BY <1>1, UnLugarIgual DEF IInv, Iguales
  <2>5. UnDuenio'
    BY <1>1, <2>2 DEF IInv, Iguales, UnDuenio, ConCpu
  <2>6. EscritoPorHilo'
    BY <1>1 DEF IInv, Iguales, EscritoPorHilo, Escrito
  <2>7. FichasDeReady'
    <3>1. Len(ready) = enReady + 1 /\ enReady \in Nat
      BY <2>1 DEF IInv, Tipos, FichasDeReady
    <3>2. Len(ready') = enReady' + 0
      BY <3>1, <2>1, <1>1 DEF Iguales
    <3> QED BY <3>2, <2>2 DEF FichasDeReady
  <2> QED BY <2>3, <2>4, <2>5, <2>6, <2>7 DEF IInv
<1>3. CASE ~(plani.faltan = {c} /\ Valida(c))
  <2>1. plani' = Recorrida(c, "reanuda", "reanuda") /\ UNCHANGED enReady /\ plani.pc = "reanuda" /\ ~caido
    BY <1>3 DEF Reanuda
  <2>2. DOMAIN plani' = CamposPlani /\ plani'.pc = "reanuda"
    BY <2>1, RecorridaSigue DEF IInv, Tipos
  <2> QED BY <1>1, <2>1, <2>2, PlaniSigue
<1> QED BY <1>2, <1>3

-----------------------------------------------------------------------------
(* The threads.                                                            *)

\* One more step of a thread that keeps its process and its CPU.
LEMMA HiloSigue ==
    ASSUME IInv, NEW h \in Hilos, NEW x, Movido(h, x), Escrito(h), ConCpu(h), x \notin {"libre", "sale"},
           ~caido,
           UNCHANGED <<programa, ready, fuera, est, enReady, plani, conectadas, puedeUsarse, ejecutando>>
    PROVE  IInv'
<1>1. Tipos'
  BY DEF IInv, Tipos, Movido, PP
<1>2. UnLugar'
  BY UnLugarQuieto DEF IInv, Escrito, Ocupado
<1>3. UnDuenio'
  BY UnDuenioQuieto DEF IInv
<1>4. EscritoPorHilo'
  BY DEF IInv, EscritoPorHilo, Escrito, Movido
<1>5. FichasDeReady'
  BY DEF IInv, FichasDeReady
<1> QED BY <1>1, <1>2, <1>3, <1>4, <1>5 DEF IInv

LEMMA HiloAsignaInv ==
    ASSUME IInv, NEW h \in Hilos, HiloAsigna(h)
    PROVE  IInv'
<1>1. Movido(h, "espera")
  BY PasaMueve DEF HiloAsigna, IInv
<1>2. hilo[h].pc = "asigna" /\ ConCpu(h) /\ Ocupado(h)
  BY DEF HiloAsigna, En, ConCpu, Ocupado
<1>3. UNCHANGED <<programa, ready, fuera, est, enReady, plani, conectadas, puedeUsarse>> /\ ~caido
  BY DEF HiloAsigna, Sigue, colas, sems
<1>4. /\ hilo[h].cpu \in Cpus /\ DOMAIN ejecutando' = Cpus
      /\ ejecutando'[hilo[h].cpu] = hilo[h].proc
      /\ \A c \in Cpus : c # hilo[h].cpu => ejecutando'[c] = ejecutando[c]
  BY <1>2 DEF HiloAsigna, IInv, Tipos, UnDuenio
<1>5. Tipos'
  BY <1>1, <1>3, <1>4 DEF IInv, Tipos, Movido, PP
<1>6. UnLugar'
  BY <1>1, <1>2, <1>3, UnLugarQuieto DEF IInv
<1>7. UnDuenio'
  BY <1>1, <1>2, <1>3, UnDuenioQuieto DEF IInv
<1>8. EscritoPorHilo'
  <2> SUFFICES ASSUME NEW c \in Cpus, ejecutando'[c] \in Procs
               PROVE  \E g \in Hilos : Escrito(g)' /\ hilo'[g].cpu = c /\ hilo'[g].proc = ejecutando'[c]
    BY DEF EscritoPorHilo
  <2>1. \A g \in Hilos : Escrito(g) => Escrito(g)'
    BY <1>1 DEF Escrito, Movido
  <2>2. Escrito(h)'
    BY <1>1 DEF Escrito, Movido
  <2>3. CASE c = hilo[h].cpu
    BY <2>2, <2>3, <1>1, <1>4 DEF Movido
  <2>4. CASE c # hilo[h].cpu
    BY <2>1, <2>4, <1>1, <1>4 DEF IInv, EscritoPorHilo, Movido
  <2> QED BY <2>3, <2>4
<1>9. FichasDeReady'
  BY <1>3 DEF IInv, FichasDeReady
<1> QED BY <1>5, <1>6, <1>7, <1>8, <1>9 DEF IInv

\* The process is sent, and comes back.
LEMMA HiloEsperaInv ==
    ASSUME IInv, NEW h \in Hilos, HiloEspera(h)
    PROVE  IInv'
<1>1. PICK x \in {"atiende", "desfasado"} : Movido(h, x)
  BY PasaMueve DEF HiloEspera, IInv
<1>2. ConCpu(h) /\ Escrito(h)
  BY DEF HiloEspera, En, ConCpu, Escrito
<1>3. UNCHANGED <<programa, ready, fuera, est, enReady, plani, conectadas, puedeUsarse, ejecutando>> /\ ~caido
  BY DEF HiloEspera, Sigue, colas, sems, instancias
<1> QED BY <1>1, <1>2, <1>3, HiloSigue

LEMMA HiloAtiendeInv ==
    ASSUME IInv, NEW h \in Hilos, HiloAtiende(h)
    PROVE  IInv'
<1>1. \/ Movido(h, "espera")
      \/ Movido(h, "libera")
  <2>1. CASE Pasa(h, "espera")
    BY <2>1, PasaMueve DEF IInv
  <2>2. CASE \E m : hilo' = [hilo EXCEPT ![h].pc = "libera", ![h].motivo = m]
    BY <2>2 DEF IInv, Tipos, Campos, Movido
  <2> QED BY <2>1, <2>2 DEF HiloAtiende
<1>2. ConCpu(h) /\ Escrito(h)
  BY DEF HiloAtiende, En, ConCpu, Escrito
<1>3. UNCHANGED <<programa, ready, fuera, est, enReady, plani, conectadas, puedeUsarse, ejecutando>> /\ ~caido
  BY DEF HiloAtiende, Sigue, sems, instancias
<1> QED BY <1>1, <1>2, <1>3, HiloSigue

\* The CPU is offered: the only thread that held it lets it go.
LEMMA HiloLiberaInv ==
    ASSUME IInv, NEW h \in Hilos, HiloLibera(h)
    PROVE  IInv'
<1>1. Movido(h, "borra")
  BY PasaMueve DEF HiloLibera, IInv
<1>2. hilo[h].pc = "libera" /\ ConCpu(h) /\ Ocupado(h)
  BY DEF HiloLibera, En, ConCpu, Ocupado
<1>3. UNCHANGED <<programa, ready, fuera, est, enReady, plani, conectadas, ejecutando>> /\ ~caido
  BY DEF HiloLibera, Sigue, colas, sems
<1>4. /\ puedeUsarse' \in [Cpus -> BOOLEAN]
      /\ \A c \in Cpus : c # hilo[h].cpu => puedeUsarse'[c] = puedeUsarse[c]
  BY DEF HiloLibera, IInv, Tipos
<1>5. Tipos'
  BY <1>1, <1>3, <1>4 DEF IInv, Tipos, Movido, PP
<1>6. UnLugar'
  BY <1>1, <1>2, <1>3, UnLugarQuieto DEF IInv
<1>7. UnDuenio'
  <2>1. \A g \in Hilos : ConCpu(g)' =>
          g # h /\ ConCpu(g) /\ hilo'[g].cpu = hilo[g].cpu /\ hilo[g].cpu # hilo[h].cpu
    BY <1>1, <1>2 DEF IInv, UnDuenio, ConCpu, Movido
  <2>2. \A g \in Hilos : ConCpu(g)' => hilo'[g].cpu \in conectadas' /\ ~puedeUsarse'[hilo'[g].cpu]
    BY <2>1, <1>3, <1>4 DEF IInv, UnDuenio, Tipos
  <2>3. \A f, g \in Hilos : ConCpu(f)' /\ ConCpu(g)' /\ f # g => hilo'[f].cpu # hilo'[g].cpu
    BY <2>1 DEF IInv, UnDuenio
  <2>4. plani'.pc = "despacha" =>
          /\ plani'.cpu \in conectadas' /\ ~puedeUsarse'[plani'.cpu]
          /\ \A g \in Hilos : ConCpu(g)' => hilo'[g].cpu # plani'.cpu
    BY <2>1, <1>2, <1>3, <1>4 DEF IInv, UnDuenio, Tipos
  <2> QED BY <2>2, <2>3, <2>4 DEF UnDuenio
<1>8. EscritoPorHilo'
  BY <1>1, <1>2, <1>3 DEF IInv, EscritoPorHilo, Escrito, Movido
<1>9. FichasDeReady'
  BY <1>3 DEF IInv, FichasDeReady
<1> QED BY <1>5, <1>6, <1>7, <1>8, <1>9 DEF IInv

LEMMA HiloBorraInv ==
    ASSUME IInv, NEW h \in Hilos, HiloBorra(h)
    PROVE  IInv'
<1>1. Movido(h, "sale")
  BY PasaMueve DEF HiloBorra, IInv
<1>2. hilo[h].pc = "borra" /\ ~ConCpu(h) /\ Ocupado(h)
  BY DEF HiloBorra, En, ConCpu, Ocupado
<1>3. UNCHANGED <<programa, ready, fuera, est, enReady, plani, conectadas, puedeUsarse>> /\ ~caido
  BY DEF HiloBorra, Sigue, colas
<1>4. /\ DOMAIN ejecutando' = Cpus
      /\ \A c \in Cpus : ejecutando'[c] = IF c = hilo[h].cpu THEN Nadie ELSE ejecutando[c]
  BY DEF HiloBorra, IInv, Tipos
<1>5. Tipos'
  BY <1>1, <1>3, <1>4 DEF IInv, Tipos, Movido, PP
<1>6. UnLugar'
  BY <1>1, <1>2, <1>3, UnLugarQuieto DEF IInv
<1>7. UnDuenio'
  BY <1>1, <1>2, <1>3 DEF IInv, UnDuenio, ConCpu, Movido
<1>8. EscritoPorHilo'
  <2> SUFFICES ASSUME NEW c \in Cpus, ejecutando'[c] \in Procs
               PROVE  \E g \in Hilos : Escrito(g)' /\ hilo'[g].cpu = c /\ hilo'[g].proc = ejecutando'[c]
    BY DEF EscritoPorHilo
  <2>1. c # hilo[h].cpu /\ ejecutando'[c] = ejecutando[c]
    BY <1>4, CortoPlazoAssumption
  <2>2. PICK g \in Hilos : Escrito(g) /\ hilo[g].cpu = c /\ hilo[g].proc = ejecutando[c]
    BY <2>1 DEF IInv, EscritoPorHilo
  <2>3. g # h
    BY <2>1, <2>2
  <2> QED BY <2>1, <2>2, <2>3, <1>1 DEF Escrito, Movido
<1>9. FichasDeReady'
  BY <1>3 DEF IInv, FichasDeReady
<1> QED BY <1>5, <1>6, <1>7, <1>8, <1>9 DEF IInv

\* A thread ends: no CPU was its own any more.
Terminado(h) ==
    /\ hilo[h].pc = "sale"
    /\ DOMAIN hilo' = Hilos /\ DOMAIN hilo'[h] = Campos /\ hilo'[h].pc = "libre"
    /\ \A g \in Hilos : g # h => hilo'[g] = hilo[g]

LEMMA LibreTermina ==
    ASSUME Tipos, NEW h \in Hilos, En(h, "sale"), hilo' = [hilo EXCEPT ![h] = HiloLibre]
    PROVE  Terminado(h)
  BY DEF Tipos, Terminado, En, HiloLibre, Campos

LEMMA TerminadoCpus ==
    ASSUME IInv, NEW h \in Hilos, Terminado(h),
           UNCHANGED <<plani, conectadas, puedeUsarse, ejecutando>>
    PROVE  UnDuenio' /\ EscritoPorHilo'
<1>1. UnDuenio'
  <2>1. \A g \in Hilos : ConCpu(g)' => ConCpu(g) /\ hilo'[g] = hilo[g]
    BY DEF Terminado, ConCpu
  <2> QED BY <2>1 DEF IInv, UnDuenio
<1>2. EscritoPorHilo'
  <2>1. \A g \in Hilos : Escrito(g) => Escrito(g)' /\ hilo'[g] = hilo[g]
    BY DEF Terminado, Escrito
  <2> QED BY <2>1 DEF IInv, EscritoPorHilo
<1> QED BY <1>1, <1>2

\* Its process ends, or blocks, or is in READY.
LEMMA TerminadoProcesos ==
    ASSUME IInv, NEW h \in Hilos, Terminado(h), PP' = PP, Distintos',
           \/ EnReady' = EnReady /\ fuera' = fuera
           \/ EnReady' = EnReady /\ fuera' = fuera \cup {hilo[h].proc}
           \/ EnReady' = EnReady \cup {hilo[h].proc} /\ fuera' = fuera
    PROVE  UnLugar'
<1> DEFINE p == hilo[h].proc
<1>1. p \in PP /\ p \notin EnReady /\ p \notin fuera
  BY DEF IInv, UnLugar, Terminado, Ocupado
<1>2. \A g \in Hilos : Ocupado(g)' => Ocupado(g) /\ hilo'[g] = hilo[g] /\ hilo[g].proc # p
  BY DEF IInv, UnLugar, Terminado, Ocupado
<1> HIDE DEF p
<1>3. /\ EnReady' \subseteq EnReady \cup {p} /\ fuera' \subseteq fuera \cup {p}
      /\ p \notin EnReady' \/ p \notin fuera'
  BY <1>1 DEF p
<1>4. \A q \in fuera' : q \in PP' /\ q \notin EnReady'
  BY <1>1, <1>3 DEF IInv, UnLugar
<1>5. \A g \in Hilos : Ocupado(g)' =>
         hilo'[g].proc \in PP' /\ hilo'[g].proc \notin EnReady' /\ hilo'[g].proc \notin fuera'
  BY <1>2, <1>3 DEF IInv, UnLugar
<1>6. \A f, g \in Hilos : Ocupado(f)' /\ Ocupado(g)' /\ f # g => hilo'[f].proc # hilo'[g].proc
  BY <1>2 DEF IInv, UnLugar
<1> QED BY <1>4, <1>5, <1>6 DEF UnLugar

LEMMA SaleExitInv ==
    ASSUME IInv, NEW h \in Hilos, SaleExit(h)
    PROVE  IInv'
<1>1. Terminado(h)
  BY LibreTermina DEF SaleExit, IInv
<1>2. UNCHANGED <<programa, ready, fuera, est, enReady, plani, conectadas, puedeUsarse, ejecutando>> /\ ~caido
  BY DEF SaleExit, Sigue, colas, sems, instancias
<1>3. Tipos'
  BY <1>1, <1>2 DEF IInv, Tipos, Terminado, PP
<1>4. UnLugar'
  <2>1. PP' = PP /\ Distintos' /\ EnReady' = EnReady
    BY <1>2 DEF IInv, UnLugar, PP, Distintos, EnReady
  <2> QED BY <2>1, <1>1, <1>2, TerminadoProcesos
<1>5. UnDuenio' /\ EscritoPorHilo'
  BY <1>1, <1>2, TerminadoCpus
<1>6. FichasDeReady'
  BY <1>2 DEF IInv, FichasDeReady
<1> QED BY <1>3, <1>4, <1>5, <1>6 DEF IInv

\* An estimate that changes is not one of READY.
LEMMA EstimacionNueva ==
    ASSUME IInv, NEW p \in PP, p \notin EnReady, NEW e \in Estimaciones,
           est' = [est EXCEPT ![p] = e]
    PROVE  /\ est \in [PP -> Int] /\ est' \in [PP -> Nat] /\ est' \in [PP -> Int]
           /\ e \in Int /\ est'[p] = e
           /\ \A q \in EnReady : est'[q] = est[q]
<1>1. e \in Nat
  BY CortoPlazoAssumption DEF Estimaciones
<1>2. est \in [PP -> Nat] /\ EnReady \subseteq PP
  BY DEF IInv, Tipos, EnReady
<1>3. est' \in [PP -> Nat] /\ est'[p] = e /\ \A q \in PP : q # p => est'[q] = est[q]
  BY <1>1, <1>2
<1>4. est \in [PP -> Int] /\ est' \in [PP -> Int]
  BY <1>2, <1>3
<1> QED BY <1>1, <1>2, <1>3, <1>4

LEMMA SaleIoInv ==
    ASSUME IInv, NEW h \in Hilos, SaleIo(h)
    PROVE  IInv'
<1> DEFINE p == hilo[h].proc
<1>1. Terminado(h)
  BY LibreTermina DEF SaleIo, IInv
<1>2. p \in PP /\ p \notin EnReady
  BY <1>1 DEF IInv, UnLugar, Terminado, Ocupado
<1>3. UNCHANGED <<programa, ready, enReady, plani, conectadas, puedeUsarse, ejecutando>> /\ ~caido
  BY DEF SaleIo, Sigue, sems, instancias
<1>4. /\ est' \in [PP -> Nat]
      /\ \A q \in EnReady : est'[q] = est[q]
  <2>1. CASE est' = est
    BY <2>1 DEF IInv, Tipos
  <2>2. CASE \E e \in Estimaciones : est' = [est EXCEPT ![p] = e]
    BY <2>2, <1>2, EstimacionNueva
  <2> QED BY <2>1, <2>2 DEF SaleIo, ProximaEstimacion
<1>5. Tipos'
  BY <1>1, <1>3, <1>4 DEF IInv, Tipos, Terminado, PP
<1>6. UnLugar'
  <2>1. PP' = PP /\ Distintos' /\ EnReady' = EnReady
    BY <1>3 DEF IInv, UnLugar, PP, Distintos, EnReady
  <2>2. fuera' = fuera \/ fuera' = fuera \cup {p}
    BY DEF SaleIo
  <2> QED BY <2>1, <2>2, <1>1, TerminadoProcesos
<1>7. UnDuenio' /\ EscritoPorHilo'
  BY <1>1, <1>3, TerminadoCpus
<1>8. FichasDeReady'
  BY <1>3 DEF IInv, FichasDeReady
<1> QED BY <1>5, <1>6, <1>7, <1>8 DEF IInv

\* Back to READY, where its new estimate goes.
LEMMA SaleDesalojoInv ==
    ASSUME IInv, NEW h \in Hilos, SaleDesalojo(h)
    PROVE  IInv'
<1> DEFINE p == hilo[h].proc
<1>1. Terminado(h)
  BY LibreTermina DEF SaleDesalojo, IInv
<1>2. p \in PP /\ p \notin EnReady
  BY <1>1 DEF IInv, UnLugar, Terminado, Ocupado
<1>3. UNCHANGED <<programa, fuera, plani, conectadas, puedeUsarse, ejecutando>> /\ ~caido
  BY DEF SaleDesalojo, Sigue, instancias
<1>4. PICK e \in Estimaciones : est' = [est EXCEPT ![p] = e] /\ ready' \in Ordenadas(p, e)
  BY DEF SaleDesalojo, ProximaEstimacion
<1>5. ready \in Seq(PP) /\ enReady \in Nat /\ enReady' = enReady + 1
  BY DEF SaleDesalojo, IInv, Tipos
<1> HIDE DEF p
<1>6. /\ est \in [PP -> Int] /\ est' \in [PP -> Nat] /\ est' \in [PP -> Int]
      /\ e \in Int /\ est'[p] = e
      /\ \A q \in EnReady : est'[q] = est[q]
  BY <1>2, <1>4, EstimacionNueva
<1>7. /\ ready' \in Seq(PP) /\ Len(ready') = Len(ready) + 1
      /\ EnReady' = EnReady \cup {p} /\ Distintos'
  BY <1>2, <1>4, <1>5, Insertado DEF IInv, UnLugar
<1>8. Tipos'
  <2>1. PP' = PP
    BY <1>3 DEF PP
  <2>2. ready' \in Seq(PP') /\ est' \in [PP' -> Nat] /\ enReady' \in Nat
    BY <2>1, <1>5, <1>6, <1>7
  <2>3. DOMAIN hilo' = Hilos /\ \A g \in Hilos : DOMAIN hilo'[g] = Campos
    BY <1>1 DEF IInv, Tipos, Terminado
  <2> QED BY <2>1, <2>2, <2>3, <1>3 DEF IInv, Tipos
<1>9. UnLugar'
  <2>1. PP' = PP
    BY <1>3 DEF PP
  <2> QED BY <2>1, <1>1, <1>3, <1>7, TerminadoProcesos DEF p
<1>10. UnDuenio' /\ EscritoPorHilo'
  BY <1>1, <1>3, TerminadoCpus
<1>11. FichasDeReady'
  BY <1>3, <1>5, <1>7 DEF IInv, FichasDeReady
<1> QED BY <1>8, <1>9, <1>10, <1>11 DEF IInv

-----------------------------------------------------------------------------
(* The rest of the Kernel.                                                 *)

LEMMA TransicionarInv ==
    ASSUME IInv, NEW p, TransicionarAReady(p)
    PROVE  IInv'
<1>1. p \in fuera /\ p \in PP /\ p \notin EnReady
  BY DEF TransicionarAReady, IInv, UnLugar
<1>2. UNCHANGED <<programa, est, hilo, plani, conectadas, puedeUsarse, ejecutando>> /\ ~caido
  BY DEF TransicionarAReady, Sigue, instancias
<1>3. /\ ready \in Seq(PP) /\ ready' \in Ordenadas(p, est[p])
      /\ enReady \in Nat /\ enReady' = enReady + 1
  BY DEF TransicionarAReady, IInv, Tipos
<1>4. /\ ready' \in Seq(PP) /\ Len(ready') = Len(ready) + 1
      /\ EnReady' = EnReady \cup {p} /\ Distintos'
  BY <1>1, <1>3, Insertado DEF IInv, UnLugar
<1>5. Tipos'
  BY <1>2, <1>3, <1>4 DEF IInv, Tipos, PP
<1>6. UnLugar'
  <2>1. fuera' = fuera \ {p} /\ PP' = PP
    BY <1>2 DEF TransicionarAReady, PP
  <2>2. \A q \in fuera' : q \in PP' /\ q \notin EnReady'
    BY <2>1, <1>4 DEF IInv, UnLugar
  <2>3. \A g \in Hilos : Ocupado(g)' =>
           /\ Ocupado(g) /\ hilo'[g].proc = hilo[g].proc
           /\ hilo'[g].proc \in PP' /\ hilo'[g].proc \notin EnReady' /\ hilo'[g].proc \notin fuera'
    BY <2>1, <1>1, <1>2, <1>4 DEF IInv, UnLugar, Ocupado
  <2> QED BY <2>2, <2>3, <1>2, <1>4 DEF IInv, UnLugar
<1>7. UnDuenio'
  BY <1>2 DEF IInv, UnDuenio, ConCpu
<1>8. EscritoPorHilo'
  BY <1>2 DEF IInv, EscritoPorHilo, Escrito
<1>9. FichasDeReady'
  BY <1>2, <1>3, <1>4 DEF IInv, FichasDeReady
<1> QED BY <1>5, <1>6, <1>7, <1>8, <1>9 DEF IInv

LEMMA ConectarInv ==
    ASSUME IInv, NEW c \in Cpus, ConectarCpu(c)
    PROVE  IInv'
<1>1. UNCHANGED <<programa, ready, fuera, est, enReady, hilo, plani, ejecutando>> /\ ~caido
  BY DEF ConectarCpu, Sigue, colas
<1>2. /\ c \notin conectadas /\ conectadas' = conectadas \cup {c}
      /\ puedeUsarse' \in [Cpus -> BOOLEAN]
      /\ \A d \in Cpus : d # c => puedeUsarse'[d] = puedeUsarse[d]
  BY DEF ConectarCpu, IInv, Tipos
<1>3. \A d \in conectadas : d \in conectadas' /\ puedeUsarse'[d] = puedeUsarse[d]
  BY <1>2 DEF IInv, Tipos
<1>4. Tipos'
  BY <1>1, <1>2 DEF IInv, Tipos, PP
<1>5. UnLugar'
  BY <1>1, UnLugarIgual DEF IInv
<1>6. UnDuenio'
  BY <1>1, <1>3 DEF IInv, UnDuenio, ConCpu
<1>7. EscritoPorHilo'
  BY <1>1 DEF IInv, EscritoPorHilo, Escrito
<1>8. FichasDeReady'
  BY <1>1 DEF IInv, FichasDeReady, ConectarCpu, Sigue
<1> QED BY <1>4, <1>5, <1>6, <1>7, <1>8 DEF IInv

-----------------------------------------------------------------------------
(* Every step.                                                             *)

LEMMA InitInv == Init => IInv
<1> SUFFICES ASSUME Init PROVE IInv
  OBVIOUS
<1>1. ready = <<>> /\ ready \in Seq(PP) /\ Len(ready) = 0 /\ DOMAIN ready = {}
  BY DEF Init
<1>2. \A h \in Hilos : hilo[h].pc = "libre" /\ DOMAIN hilo[h] = Campos
  BY DEF Init, HiloLibre, Campos
<1>3. plani.pc = "duerme" /\ DOMAIN plani = CamposPlani
  BY DEF Init, Duerme, CamposPlani
<1>4. \A c \in Cpus : ejecutando[c] \notin Procs
  BY CortoPlazoAssumption DEF Init
<1>5. est \in [PP -> Nat]
  <2>1. est = [p \in PP |-> programa[p].est] /\ programa \in Programas
    BY DEF Init, PP
  <2>2. \A p \in PP : programa[p] \in [hace : SUBSET {"NOOP", "INIT_PROC", "IO"}, veces : Nat, est : Estimaciones]
    BY <2>1, CortoPlazoAssumption DEF PP
  <2>3. \A p \in PP : programa[p].est \in Estimaciones
    BY <2>2
  <2>4. Estimaciones \subseteq Nat
    BY CortoPlazoAssumption DEF Estimaciones
  <2> QED BY <2>1, <2>3, <2>4
<1>6. Tipos
  BY <1>1, <1>2, <1>3, <1>5 DEF Init, Tipos
<1>7. UnLugar
  BY <1>1, <1>2 DEF Init, UnLugar, Distintos, EnReady, Ocupado, PP
<1>8. UnDuenio /\ EscritoPorHilo
  BY <1>2, <1>3, <1>4 DEF UnDuenio, ConCpu, EscritoPorHilo
<1>9. FichasDeReady
  BY <1>1, <1>3 DEF Init, FichasDeReady
<1> QED BY <1>6, <1>7, <1>8, <1>9 DEF IInv

LEMMA CicloInv ==
    ASSUME IInv, NEW c \in Cpus, Ciclo(c) \/ LlegaInterrupcion(c)
    PROVE  IInv'
<1>1. kernelVars' = kernelVars /\ ~caido
  BY DEF Ciclo, CpuSolicita, CpuRecibeProceso, CpuNoop, CpuSyscall, CpuRecibeSyscall, CpuAcepta,
         CpuSigue, CpuRecibeDesalojo, LlegaInterrupcion, Sigue
<1>2. Iguales /\ UNCHANGED <<enReady, plani>>
  BY <1>1 DEF kernelVars, colas, sems, instancias, Iguales
<1> QED BY <1>1, <1>2, NadaCambia

LEMMA NextInv ==
    ASSUME IInv, [Next]_vars
    PROVE  IInv'
<1>1. CASE UNCHANGED vars
  BY <1>1, NadaCambia DEF vars, colas, sems, instancias, Iguales
<1>2. ASSUME NEW p \in Procs, TransicionarAReady(p) PROVE IInv'
  BY <1>2, TransicionarInv
<1>3. CASE Planificador
  BY <1>3, PlaniDespiertaInv, FrenaCargaInv, FrenaEscribeInv, PlaniDespachaInv, PlaniComparaInv, ReanudaInv
     DEF Planificador
<1>4. ASSUME NEW h \in Hilos, Hilo(h) PROVE IInv'
  BY <1>4, HiloAsignaInv, HiloEsperaInv, HiloAtiendeInv, HiloLiberaInv, HiloBorraInv,
     SaleExitInv, SaleIoInv, SaleDesalojoInv DEF Hilo
<1>5. ASSUME NEW c \in Cpus, ConectarCpu(c) \/ Ciclo(c) \/ LlegaInterrupcion(c) PROVE IInv'
  BY <1>5, ConectarInv, CicloInv
<1> QED BY <1>1, <1>2, <1>3, <1>4, <1>5 DEF Next

LEMMA SpecInv == Spec => []IInv
<1> QED BY InitInv, NextInv, PTL DEF Spec

-----------------------------------------------------------------------------
(* The theorems.                                                           *)

\* CANTIDAD_DE_PROCESOS_EN[READY] and the process the planner deals with add up to
\* READY: sacar_primero_de_la_lista never finds it empty.
THEOREM SpecFichasDeReady == Spec => []FichasDeReady
<1>1. IInv => FichasDeReady
  BY DEF IInv
<1> QED BY <1>1, SpecInv, PTL

\* No two threads of the Kernel hold the same CPU or the same process, and none of
\* the CPUs they hold is offered.
THEOREM SpecSinCompartir == Spec => []SinCompartir
<1>1. IInv => SinCompartir
  <2> SUFFICES ASSUME IInv PROVE SinCompartir
    OBVIOUS
  <2>1. \A h \in HilosEn({"asigna", "espera", "atiende", "libera"}) :
          h \in Hilos /\ ConCpu(h) /\ Ocupado(h)
    BY DEF HilosEn, ConCpu, Ocupado
  <2> QED BY <2>1 DEF IInv, UnLugar, UnDuenio, SinCompartir
<1> QED BY <1>1, SpecInv, PTL

\* What the steps that touch READY or an estimate do to the order.
LEMMA TransicionarOrdena ==
    ASSUME IInv, ReadyOrdenada, NEW p, TransicionarAReady(p)
    PROVE  ReadyOrdenada'
<1>1. p \in PP /\ est' = est /\ ready \in Seq(PP) /\ ready' \in Ordenadas(p, est[p])
  BY DEF TransicionarAReady, IInv, UnLugar, Tipos
<1>2. est \in [PP -> Int] /\ est' \in [PP -> Int] /\ est[p] \in Int /\ est'[p] = est[p]
  BY <1>1 DEF IInv, Tipos
<1>3. \A q \in EnReady : est'[q] = est[q]
  BY <1>1
<1> QED BY <1>1, <1>2, <1>3, InsertadoOrdenado

LEMMA SaleDesalojoOrdena ==
    ASSUME IInv, ReadyOrdenada, NEW h \in Hilos, SaleDesalojo(h)
    PROVE  ReadyOrdenada'
<1>1. PICK p : p = hilo[h].proc
  OBVIOUS
<1>2. p \in PP /\ p \notin EnReady /\ ready \in Seq(PP)
  BY <1>1 DEF SaleDesalojo, En, IInv, UnLugar, Ocupado, Tipos
<1>3. PICK e \in Estimaciones : est' = [est EXCEPT ![p] = e] /\ ready' \in Ordenadas(p, e)
  BY <1>1 DEF SaleDesalojo, ProximaEstimacion
<1>4. /\ est \in [PP -> Int] /\ est' \in [PP -> Int] /\ e \in Int /\ est'[p] = e
      /\ \A q \in EnReady : est'[q] = est[q]
  BY <1>2, <1>3, EstimacionNueva
<1> QED BY <1>2, <1>3, <1>4, InsertadoOrdenado

LEMMA SaleIoOrdena ==
    ASSUME IInv, ReadyOrdenada, NEW h \in Hilos, SaleIo(h)
    PROVE  ReadyOrdenada'
<1>1. PICK p : p = hilo[h].proc
  OBVIOUS
<1>2. p \in PP /\ p \notin EnReady /\ ready' = ready
  BY <1>1 DEF SaleIo, En, IInv, UnLugar, Ocupado
<1>3. \A q \in EnReady : est'[q] = est[q]
  <2>1. CASE est' = est
    BY <2>1
  <2>2. CASE \E e \in Estimaciones : est' = [est EXCEPT ![p] = e]
    BY <2>2, <1>2, EstimacionNueva
  <2> QED BY <2>1, <2>2, <1>1 DEF SaleIo, ProximaEstimacion
<1> QED BY <1>2, <1>3 DEF ReadyOrdenada, EnReady

LEMMA PlaniDespachaOrdena ==
    ASSUME IInv, ReadyOrdenada, NEW h \in Hilos, PlaniDespacha(h)
    PROVE  ReadyOrdenada'
<1>1. Len(ready) = enReady + 1 /\ enReady \in Nat /\ ready \in Seq(PP)
  BY DEF PlaniDespacha, Sigue, IInv, Tipos, FichasDeReady
<1>2. ready # <<>>
  <2>1. Len(<<>>) = 0
    OBVIOUS
  <2> QED BY <1>1, <2>1
<1>3. ready' = Tail(ready) /\ est' = est
  BY DEF PlaniDespacha
<1> QED BY <1>1, <1>2, <1>3, Sacado

LEMMA FrenaEscribeOrdena ==
    ASSUME IInv, ReadyOrdenada, FrenaEscribe, plani.victima \notin EnReady
    PROVE  ReadyOrdenada'
<1>1. plani.victima \in PP /\ est \in [PP -> Nat] /\ ready \in Seq(PP)
  BY DEF FrenaEscribe, IInv, Tipos
<1>2. \A q \in PP : q # plani.victima => est'[q] = est[q]
  <2>1. 0 .. Mayor(plani.base, est[plani.victima]) \subseteq Nat
    OBVIOUS
  <2> QED BY <2>1, <1>1, CorteGuardado
<1>3. \A i \in DOMAIN ready : ready[i] \in PP /\ ready[i] # plani.victima
  BY <1>1 DEF EnReady
<1>4. ready' = ready
  BY DEF FrenaEscribe, colas
<1> QED BY <1>2, <1>3, <1>4 DEF ReadyOrdenada

\* list_add_sorted keeps READY sorted, and no thread writes an estimate of a process
\* of READY, except for the planner, whose victim may have been sorted there since
\* frenar_y_restar_cronometros loaded it: then, and only then, the order is lost.
THEOREM SpecSoloUnCorteDesordena == Spec => SoloUnCorteDesordena
<1>1. IInv /\ [Next]_vars => [ReadyOrdenada => ReadyOrdenada' \/ CorteTardio]_vars
  <2> SUFFICES ASSUME IInv, [Next]_vars, ReadyOrdenada, ~CorteTardio
               PROVE  ReadyOrdenada'
    OBVIOUS
  <2>q. UNCHANGED <<ready, est>> => ReadyOrdenada'
    BY DEF ReadyOrdenada
  <2>1. CASE UNCHANGED vars
    BY <2>1, <2>q DEF vars, colas
  <2>2. ASSUME NEW p \in Procs, TransicionarAReady(p) PROVE ReadyOrdenada'
    BY <2>2, TransicionarOrdena
  <2>3. CASE Planificador
    <3>1. PlaniDespierta => ReadyOrdenada'
      BY <2>q, Zenon DEF PlaniDespierta, colas
    <3>2. PlaniCopia \/ FrenaCarga \/ Elige => ReadyOrdenada'
      BY <2>q DEF PlaniCopia, FrenaCarga, Elige, colas
    <3>3. FrenaEscribe => ReadyOrdenada'
      BY FrenaEscribeOrdena DEF CorteTardio
    <3>4. ASSUME NEW h \in Hilos, PlaniDespacha(h) PROVE ReadyOrdenada'
      BY <3>4, PlaniDespachaOrdena
    <3>5. ASSUME NEW c \in Cpus, FrenaMira(c) \/ Recorre(c) \/ Reanuda(c) PROVE ReadyOrdenada'
      BY <3>5, <2>q DEF FrenaMira, Recorre, Reanuda, colas
    <3> QED BY <2>3, <3>1, <3>2, <3>3, <3>4, <3>5, Zenon DEF Planificador
  <2>4. ASSUME NEW h \in Hilos, Hilo(h) PROVE ReadyOrdenada'
    <3>1. HiloAsigna(h) \/ HiloEspera(h) \/ HiloAtiende(h) => ReadyOrdenada'
      BY <2>q DEF HiloAsigna, HiloEspera, HiloAtiende, colas
    <3>2. HiloLibera(h) \/ HiloBorra(h) \/ SaleExit(h) => ReadyOrdenada'
      BY <2>q DEF HiloLibera, HiloBorra, SaleExit, colas
    <3> QED BY <2>4, <3>1, <3>2, SaleIoOrdena, SaleDesalojoOrdena, Zenon DEF Hilo
  <2>5. ASSUME NEW c \in Cpus, ConectarCpu(c) \/ Ciclo(c) \/ LlegaInterrupcion(c) PROVE ReadyOrdenada'
    <3>1. ConectarCpu(c) => ReadyOrdenada'
      BY <2>q DEF ConectarCpu, colas
    <3>2. Ciclo(c) \/ LlegaInterrupcion(c) => kernelVars' = kernelVars
      BY DEF Ciclo, CpuSolicita, CpuRecibeProceso, CpuNoop, CpuSyscall, CpuRecibeSyscall, CpuAcepta,
             CpuSigue, CpuRecibeDesalojo, LlegaInterrupcion
    <3> QED BY <2>5, <3>1, <3>2, <2>q DEF kernelVars, colas
  <2> QED BY <2>1, <2>2, <2>3, <2>4, <2>5, Zenon DEF Next
<1> QED BY <1>1, SpecInv, PTL DEF Spec, SoloUnCorteDesordena

-----------------------------------------------------------------------------
(* The types of the rest, and the conversation of the Kernel and each CPU.  *)

OpsDeCpu == {"CPU_LISTA", "INIT_PROC", "IO", "EXIT", "DESALOJO_ACEPTADO"}
OpsDelKernel == {"ENVIO_PID_Y_PC", "SYSCALL_EJECUTADA", "DESALOJO_REALIZADO"}
PcsDeCpu == {"solicita", "esperaProceso", "ejecuta", "chequea", "esperaSyscall", "esperaDesalojo",
             "desfasada"}
PcsDePlani == {"duerme", "despacha", "copia", "frena", "resta", "escribe", "recorre", "elige", "reanuda"}
MotivosConRespuesta == {"EXIT", "DESALOJO_ACEPTADO"}

TiposDatos ==
    /\ algoritmo \in Algoritmos /\ programa \in Programas /\ caido \in BOOLEAN
    /\ exec \subseteq PP /\ salieron \subseteq PP
    /\ est \in [PP -> Estimaciones]
    /\ cpusLibres \in Nat /\ replanificar \in Nat
    /\ ejecutando \in [Cpus -> PP \cup {Nadie, Basura}]

TiposPlani ==
    /\ plani.pc \in PcsDePlani /\ plani.cpu \in Cpus \cup {Nadie}
    /\ plani.proc \in PP \cup {Nadie} /\ plani.faltan \subseteq conectadas
    /\ plani.victima \in PP \cup {Nadie} /\ plani.base \in Estimaciones

TiposHilos ==
    \A h \in Hilos : /\ hilo[h].proc \in PP \cup {Nadie} /\ hilo[h].cpu \in Cpus \cup {Nadie}
                     /\ Ocupado(h) => hilo[h].cpu \in Cpus

TiposKernel == TiposDatos /\ TiposPlani /\ TiposHilos

TiposCpu ==
    /\ alKernel \in [Cpus -> Seq([op : OpsDeCpu, proc : PP \cup {Nadie}])]
    /\ aCpu \in [Cpus -> Seq([op : OpsDelKernel, proc : PP \cup {Nadie}])]
    /\ cpu \in [Cpus -> [pc : PcsDeCpu, proc : PP \cup {Nadie}, hayInterrupcion : BOOLEAN,
                         bloqueante : BOOLEAN, solicitar : BOOLEAN]]

\* A thread waits for what the process of c does; one owes c an answer.
Atendida(c) == \E h \in Hilos : hilo[h].cpu = c /\ hilo[h].pc = "atiende"
Adeuda(h) == hilo[h].pc \in {"libera", "borra", "sale"} /\ hilo[h].motivo \in MotivosConRespuesta
Debe(c) == \E h \in Hilos : hilo[h].cpu = c /\ Adeuda(h)

Solo(s, ops) == Len(s) = 1 /\ s[1].op \in ops

\* It is the turn of the CPU, or its message is in the socket, or a thread of the
\* Kernel has it, or the answer is in the socket: one of them.  Only after an IO
\* does the CPU go on and ask for a process before the Kernel read the IO.
Turno(c, ops) ==
    \/ Solo(alKernel[c], ops) /\ Atendida(c) /\ aCpu[c] = <<>> /\ ~Debe(c)
    \/ alKernel[c] = <<>> /\ ~Atendida(c) /\ aCpu[c] = <<>> /\ Debe(c)
    \/ alKernel[c] = <<>> /\ ~Atendida(c) /\ Len(aCpu[c]) = 1 /\ ~Debe(c)

Charla(c) ==
    /\ cpu[c].pc = "solicita" =>
         /\ aCpu[c] = <<>> /\ ~Debe(c)
         /\ \/ alKernel[c] = <<>> /\ ~Atendida(c)
            \/ Solo(alKernel[c], {"IO"}) /\ Atendida(c)
    /\ cpu[c].pc = "esperaProceso" =>
         /\ ~Debe(c) /\ ~cpu[c].solicitar
         /\ \/ Solo(alKernel[c], {"CPU_LISTA"}) /\ aCpu[c] = <<>> /\ ~Atendida(c)
            \/ /\ Len(alKernel[c]) = 2 /\ alKernel[c][1].op = "IO" /\ alKernel[c][2].op = "CPU_LISTA"
               /\ aCpu[c] = <<>> /\ Atendida(c)
            \/ alKernel[c] = <<>> /\ Solo(aCpu[c], {"ENVIO_PID_Y_PC"}) /\ aCpu[c][1].proc \in PP /\ Atendida(c)
    /\ cpu[c].pc = "ejecuta" =>
         /\ alKernel[c] = <<>> /\ aCpu[c] = <<>> /\ Atendida(c) /\ ~Debe(c)
         /\ ~cpu[c].solicitar /\ cpu[c].proc \in PP
    /\ cpu[c].pc = "chequea" =>
         /\ aCpu[c] = <<>> /\ ~Debe(c)
         /\ \/ alKernel[c] = <<>> /\ Atendida(c) /\ ~cpu[c].solicitar /\ cpu[c].proc \in PP
            \/ alKernel[c] = <<>> /\ ~Atendida(c) /\ cpu[c].solicitar
            \/ /\ Solo(alKernel[c], {"IO"}) /\ Atendida(c)
               /\ cpu[c].solicitar /\ cpu[c].bloqueante
    /\ cpu[c].pc = "esperaSyscall" => cpu[c].solicitar /\ Turno(c, {"INIT_PROC", "EXIT"})
    /\ cpu[c].pc = "esperaDesalojo" =>
         \/ Turno(c, {"DESALOJO_ACEPTADO"})
         \/ Solo(alKernel[c], {"DESALOJO_ACEPTADO"}) /\ ~Atendida(c) /\ aCpu[c] = <<>> /\ ~Debe(c)
    /\ cpu[c].pc = "desfasada" => alKernel[c] = <<>> /\ aCpu[c] = <<>> /\ ~Debe(c)

UnaDeuda == \A g, h \in Hilos : Adeuda(g) /\ Adeuda(h) /\ hilo[g].cpu = hilo[h].cpu => g = h

Conversan == UnaDeuda /\ \A c \in Cpus : Charla(c)

IInvTipos == IInv /\ TiposKernel /\ TiposCpu /\ Conversan

-----------------------------------------------------------------------------
(* Short sequences.                                                        *)

\* One message after none.
LEMMA AgregarAVacia ==
    ASSUME NEW S, NEW s \in Seq(S), s = <<>>, NEW e \in S
    PROVE  Append(s, e) \in Seq(S) /\ Len(Append(s, e)) = 1 /\ Append(s, e)[1] = e
<1>1. Len(s) = 0
  BY EmptySeq
<1> QED BY <1>1, AppendProperties

\* One after another.
LEMMA AgregarAUna ==
    ASSUME NEW S, NEW s \in Seq(S), NEW e \in S
    PROVE  Len(s) = 1 => /\ Append(s, e) \in Seq(S) /\ Len(Append(s, e)) = 2
                         /\ Append(s, e)[1] = s[1] /\ Append(s, e)[2] = e
<1>1. /\ Append(s, e) \in Seq(S) /\ Len(Append(s, e)) = Len(s) + 1
      /\ \A i \in 1 .. Len(s) : Append(s, e)[i] = s[i]
      /\ Append(s, e)[Len(s) + 1] = e
  BY AppendProperties
<1>2. 1 \in 1 .. 1 /\ 1 + 1 = 2
  OBVIOUS
<1> QED BY <1>1, <1>2

\* The only message is taken.
LEMMA QuitarDeUna ==
    ASSUME NEW S, NEW s \in Seq(S), Len(s) = 1
    PROVE  s # <<>> /\ Head(s) = s[1] /\ Head(s) \in S /\ Tail(s) = <<>>
<1>1. s # <<>>
  BY EmptySeq
<1>2. Tail(s) \in Seq(S) /\ Len(Tail(s)) = 0 /\ Head(s) = s[1] /\ Head(s) \in S
  BY <1>1, HeadTailProperties
<1> QED BY <1>1, <1>2, EmptySeq

\* The first of two is taken.
LEMMA QuitarDeDos ==
    ASSUME NEW S, NEW s \in Seq(S), Len(s) = 2
    PROVE  /\ s # <<>> /\ Head(s) = s[1] /\ Head(s) \in S
           /\ Tail(s) \in Seq(S) /\ Len(Tail(s)) = 1 /\ Tail(s)[1] = s[2]
<1>0. Len(<<>>) = 0 /\ 2 # 0 /\ 2 - 1 = 1 /\ 1 + 1 = 2 /\ 1 \in 1 .. 1
  BY EmptySeq
<1>1. s # <<>>
  BY <1>0
<1>2. /\ Tail(s) \in Seq(S) /\ Len(Tail(s)) = Len(s) - 1 /\ Head(s) = s[1] /\ Head(s) \in S
      /\ \A i \in 1 .. Len(Tail(s)) : Tail(s)[i] = s[i + 1]
  BY <1>1, HeadTailProperties
<1> QED BY <1>0, <1>1, <1>2

\* The first message and the rest have the type of all.
LEMMA QuitarTipo ==
    ASSUME NEW S, NEW s \in Seq(S), s # <<>>
    PROVE  Head(s) \in S /\ Tail(s) \in Seq(S)
  BY HeadTailProperties

-----------------------------------------------------------------------------
(* The steps of a CPU.                                                     *)

MsgCpu == [op : OpsDeCpu, proc : PP \cup {Nadie}]
MsgKernel == [op : OpsDelKernel, proc : PP \cup {Nadie}]
EstadoCpu == [pc : PcsDeCpu, proc : PP \cup {Nadie}, hayInterrupcion : BOOLEAN,
              bloqueante : BOOLEAN, solicitar : BOOLEAN]

\* The sockets and the CPUs, with their types named.
LEMMA TiposCpuPartes ==
    TiposCpu <=> /\ alKernel \in [Cpus -> Seq(MsgCpu)]
                 /\ aCpu \in [Cpus -> Seq(MsgKernel)]
                 /\ cpu \in [Cpus -> EstadoCpu]
  BY DEF TiposCpu, MsgCpu, MsgKernel, EstadoCpu

\* The state of one CPU is replaced.
LEMMA CpuQueda ==
    ASSUME TiposCpu, NEW c \in Cpus, NEW r \in EstadoCpu, cpu' = [cpu EXCEPT ![c] = r]
    PROVE  cpu' \in [Cpus -> EstadoCpu] /\ cpu'[c] = r /\ \A d \in Cpus : d # c => cpu'[d] = cpu[d]
<1>1. cpu \in [Cpus -> EstadoCpu]
  BY TiposCpuPartes
<1> QED BY <1>1

\* Nothing of what Charla says of c changes.
LEMMA CharlaIgual ==
    ASSUME NEW c, Charla(c), PP' = PP,
           cpu'[c] = cpu[c], alKernel'[c] = alKernel[c], aCpu'[c] = aCpu[c],
           Atendida(c)' <=> Atendida(c), Debe(c)' <=> Debe(c)
    PROVE  Charla(c)'
  BY DEF Charla, Turno, Solo

\* What a CPU does leaves the others and the threads alone.
SoloCpu(c) ==
    /\ UNCHANGED <<hilo, programa>>
    /\ \A d \in Cpus : d # c =>
         cpu'[d] = cpu[d] /\ alKernel'[d] = alKernel[d] /\ aCpu'[d] = aCpu[d]

\* No thread moves: the same ones wait and owe.
LEMMA HilosQuietos ==
    ASSUME hilo' = hilo
    PROVE  /\ \A d : (Atendida(d)' <=> Atendida(d)) /\ (Debe(d)' <=> Debe(d))
           /\ UnaDeuda => UnaDeuda'
  BY DEF Atendida, Debe, Adeuda, UnaDeuda

\* After a step of c, it is enough to look at c.
LEMMA CpuConversa ==
    ASSUME Conversan, NEW c \in Cpus, SoloCpu(c), Charla(c)'
    PROVE  Conversan'
<1>1. PP' = PP
  BY DEF SoloCpu, PP
<1>2. ASSUME NEW d \in Cpus, d # c PROVE Charla(d)'
  BY <1>1, <1>2, HilosQuietos, CharlaIgual DEF SoloCpu, Conversan
<1> QED BY <1>2, HilosQuietos DEF Conversan, SoloCpu

\* It sends a message.
LEMMA CpuEnvia ==
    ASSUME TiposCpu, NEW c \in Cpus, NEW op \in OpsDeCpu, EnviarAlKernel(c, op)
    PROVE  /\ alKernel' \in [Cpus -> Seq(MsgCpu)]
           /\ \A d \in Cpus : d # c => alKernel'[d] = alKernel[d]
           /\ alKernel[c] = <<>> => Solo(alKernel'[c], {op})
           /\ Len(alKernel[c]) = 1 => /\ Len(alKernel'[c]) = 2
                                      /\ alKernel'[c][1] = alKernel[c][1] /\ alKernel'[c][2].op = op
<1> DEFINE m == Mensaje(op, cpu[c].proc)
<1>1. alKernel \in [Cpus -> Seq(MsgCpu)] /\ cpu[c].proc \in PP \cup {Nadie}
  BY DEF TiposCpu, MsgCpu
<1>2. m \in MsgCpu /\ m.op = op
  BY <1>1 DEF Mensaje, MsgCpu
<1>3. alKernel' = [alKernel EXCEPT ![c] = Append(@, m)]
  BY DEF EnviarAlKernel
<1> HIDE DEF m
<1>4. alKernel[c] \in Seq(MsgCpu) /\ Append(alKernel[c], m) \in Seq(MsgCpu)
  BY <1>1, <1>2, AppendProperties
<1>5. alKernel' \in [Cpus -> Seq(MsgCpu)] /\ alKernel'[c] = Append(alKernel[c], m)
      /\ \A d \in Cpus : d # c => alKernel'[d] = alKernel[d]
  BY <1>1, <1>3, <1>4
<1>6. alKernel[c] = <<>> => Len(alKernel'[c]) = 1 /\ alKernel'[c][1] = m
  BY <1>2, <1>4, <1>5, AgregarAVacia
<1>7. Len(alKernel[c]) = 1 => /\ Len(alKernel'[c]) = 2
                              /\ alKernel'[c][1] = alKernel[c][1] /\ alKernel'[c][2] = m
  BY <1>2, <1>4, <1>5, AgregarAUna
<1> QED BY <1>2, <1>5, <1>6, <1>7 DEF Solo

\* It reads one.
LEMMA CpuLee ==
    ASSUME TiposCpu, NEW c \in Cpus, QuitarDeCpu(c), Len(aCpu[c]) \in {0, 1}
    PROVE  /\ aCpu' \in [Cpus -> Seq(MsgKernel)]
           /\ \A d \in Cpus : d # c => aCpu'[d] = aCpu[d]
           /\ aCpu'[c] = <<>> /\ Head(aCpu[c]) = aCpu[c][1] /\ Head(aCpu[c]) \in MsgKernel
           /\ Len(aCpu[c]) = 1
<1>1. aCpu \in [Cpus -> Seq(MsgKernel)]
  BY TiposCpuPartes
<1>2. aCpu[c] # <<>> /\ aCpu' = [aCpu EXCEPT ![c] = Tail(@)]
  BY DEF QuitarDeCpu
<1>3. Len(aCpu[c]) = 1
  BY <1>1, <1>2, EmptySeq
<1>4. Tail(aCpu[c]) = <<>> /\ Head(aCpu[c]) = aCpu[c][1] /\ Head(aCpu[c]) \in MsgKernel
  BY <1>1, <1>3, QuitarDeUna
<1>5. <<>> \in Seq(MsgKernel)
  OBVIOUS
<1> QED BY <1>1, <1>2, <1>3, <1>4, <1>5

\* The types of the sockets and of the CPUs, after a step.
LEMMA TiposCpuSigue ==
    ASSUME programa' = programa, alKernel' \in [Cpus -> Seq(MsgCpu)], aCpu' \in [Cpus -> Seq(MsgKernel)],
           cpu' \in [Cpus -> EstadoCpu]
    PROVE  TiposCpu'
<1>1. PP' = PP
  BY DEF PP
<1> QED BY <1>1 DEF TiposCpu, MsgCpu, MsgKernel, EstadoCpu

\* CPU_LISTA: nothing was in the socket, or an IO that was not read yet.
LEMMA CpuSolicitaConversa ==
    ASSUME TiposCpu, Conversan, NEW c \in Cpus, CpuSolicita(c)
    PROVE  TiposCpu' /\ Conversan'
<1>1. /\ cpu' \in [Cpus -> EstadoCpu] /\ cpu'[c].pc = "esperaProceso" /\ ~cpu'[c].solicitar
      /\ \A d \in Cpus : d # c => cpu'[d] = cpu[d]
  <2> DEFINE r == [cpu[c] EXCEPT !.pc = "esperaProceso", !.solicitar = FALSE]
  <2>1. cpu \in [Cpus -> EstadoCpu] /\ cpu[c] \in EstadoCpu
    BY TiposCpuPartes
  <2>2. "esperaProceso" \in PcsDeCpu
    BY DEF PcsDeCpu
  <2>3. r \in EstadoCpu /\ r.pc = "esperaProceso" /\ r.solicitar = FALSE
    BY <2>1, <2>2 DEF EstadoCpu
  <2>4. cpu' = [cpu EXCEPT ![c] = r]
    BY <2>1 DEF CpuSolicita
  <2> HIDE DEF r
  <2> QED BY <2>3, <2>4, CpuQueda
<1>2. programa' = programa /\ hilo' = hilo /\ aCpu' = aCpu /\ cpu[c].pc = "solicita"
      /\ EnviarAlKernel(c, "CPU_LISTA")
  BY DEF CpuSolicita, kernelVars
<1>3. "CPU_LISTA" \in OpsDeCpu
  BY DEF OpsDeCpu
<1>4. /\ alKernel' \in [Cpus -> Seq(MsgCpu)]
      /\ \A d \in Cpus : d # c => alKernel'[d] = alKernel[d]
      /\ alKernel[c] = <<>> => Solo(alKernel'[c], {"CPU_LISTA"})
      /\ Len(alKernel[c]) = 1 => /\ Len(alKernel'[c]) = 2
                                 /\ alKernel'[c][1] = alKernel[c][1] /\ alKernel'[c][2].op = "CPU_LISTA"
  BY <1>2, <1>3, CpuEnvia
<1>5. TiposCpu'
  BY <1>1, <1>2, <1>4, TiposCpuPartes, TiposCpuSigue
<1>6. SoloCpu(c)
  BY <1>1, <1>2, <1>4 DEF SoloCpu
<1>7. (Atendida(c)' <=> Atendida(c)) /\ (Debe(c)' <=> Debe(c))
  BY <1>2, HilosQuietos
<1>8. Charla(c)
  BY DEF Conversan
<1>9. Charla(c)'
  BY <1>1, <1>2, <1>4, <1>7, <1>8 DEF Charla, Solo
<1> QED BY <1>5, <1>6, <1>9, CpuConversa

\* What comes while it waits for a process is one.
LEMMA CpuRecibeProcesoConversa ==
    ASSUME TiposCpu, Conversan, NEW c \in Cpus, CpuRecibeProceso(c)
    PROVE  TiposCpu' /\ Conversan'
<1>1. cpu[c].pc = "esperaProceso" /\ QuitarDeCpu(c) /\ alKernel' = alKernel
      /\ programa' = programa /\ hilo' = hilo
  BY DEF CpuRecibeProceso, kernelVars
<1>2. aCpu[c] # <<>> /\ Charla(c)
  BY <1>1 DEF QuitarDeCpu, Conversan
<1>3. /\ ~Debe(c) /\ ~cpu[c].solicitar /\ alKernel[c] = <<>> /\ Atendida(c)
      /\ Len(aCpu[c]) = 1 /\ aCpu[c][1].op = "ENVIO_PID_Y_PC" /\ aCpu[c][1].proc \in PP
  BY <1>1, <1>2 DEF Charla, Solo
<1>4. /\ aCpu' \in [Cpus -> Seq(MsgKernel)] /\ \A d \in Cpus : d # c => aCpu'[d] = aCpu[d]
      /\ aCpu'[c] = <<>> /\ Head(aCpu[c]) = aCpu[c][1]
  BY <1>1, <1>3, CpuLee
<1>5. cpu' = [cpu EXCEPT ![c].pc = "ejecuta", ![c].proc = aCpu[c][1].proc]
  BY <1>3, <1>4 DEF CpuRecibeProceso
<1>6. /\ cpu' \in [Cpus -> EstadoCpu] /\ cpu'[c].pc = "ejecuta" /\ cpu'[c].proc = aCpu[c][1].proc
      /\ cpu'[c].solicitar = cpu[c].solicitar
      /\ \A d \in Cpus : d # c => cpu'[d] = cpu[d]
  <2> DEFINE r == [cpu[c] EXCEPT !.pc = "ejecuta", !.proc = aCpu[c][1].proc]
  <2>1. cpu \in [Cpus -> EstadoCpu] /\ cpu[c] \in EstadoCpu
    BY TiposCpuPartes
  <2>2. "ejecuta" \in PcsDeCpu
    BY DEF PcsDeCpu
  <2>3. r \in EstadoCpu /\ r.pc = "ejecuta" /\ r.proc = aCpu[c][1].proc /\ r.solicitar = cpu[c].solicitar
    BY <1>3, <2>1, <2>2 DEF EstadoCpu
  <2>4. cpu' = [cpu EXCEPT ![c] = r]
    BY <1>5, <2>1
  <2> HIDE DEF r
  <2> QED BY <2>3, <2>4, CpuQueda
<1>7. TiposCpu'
  BY <1>1, <1>4, <1>6, TiposCpuPartes, TiposCpuSigue
<1>8. SoloCpu(c)
  BY <1>1, <1>4, <1>6 DEF SoloCpu
<1>9. (Atendida(c)' <=> Atendida(c)) /\ (Debe(c)' <=> Debe(c)) /\ PP' = PP
  BY <1>1, HilosQuietos DEF PP
<1>10. Charla(c)'
  BY <1>1, <1>3, <1>4, <1>6, <1>9 DEF Charla
<1> QED BY <1>7, <1>8, <1>10, CpuConversa

\* An instruction that is no syscall: the thread goes on waiting.
LEMMA CpuNoopConversa ==
    ASSUME TiposCpu, Conversan, NEW c \in Cpus, CpuNoop(c)
    PROVE  TiposCpu' /\ Conversan'
<1>1. cpu[c].pc = "ejecuta" /\ alKernel' = alKernel /\ aCpu' = aCpu
      /\ programa' = programa /\ hilo' = hilo
  BY DEF CpuNoop, kernelVars, sockets
<1>2. /\ cpu' \in [Cpus -> EstadoCpu] /\ cpu'[c].pc = "chequea" /\ cpu'[c].proc = cpu[c].proc
      /\ cpu'[c].solicitar = cpu[c].solicitar
      /\ \A d \in Cpus : d # c => cpu'[d] = cpu[d]
  BY TiposCpuPartes DEF CpuNoop, EstadoCpu, PcsDeCpu
<1>3. TiposCpu' /\ SoloCpu(c)
  BY <1>1, <1>2, TiposCpuPartes, TiposCpuSigue DEF SoloCpu
<1>4. (Atendida(c)' <=> Atendida(c)) /\ (Debe(c)' <=> Debe(c)) /\ PP' = PP
  BY <1>1, HilosQuietos DEF PP
<1>5. Charla(c)
  BY DEF Conversan
<1>6. Charla(c)'
  BY <1>1, <1>2, <1>4, <1>5 DEF Charla
<1> QED BY <1>3, <1>6, CpuConversa

\* A syscall goes to the thread that waits for it.
LEMMA CpuSyscallConversa ==
    ASSUME TiposCpu, Conversan, NEW c \in Cpus, NEW op \in {"INIT_PROC", "IO", "EXIT"}, CpuSyscall(c, op)
    PROVE  TiposCpu' /\ Conversan'
<1>1. cpu[c].pc = "ejecuta" /\ EnviarAlKernel(c, op) /\ aCpu' = aCpu
      /\ programa' = programa /\ hilo' = hilo
  BY DEF CpuSyscall, kernelVars
<1>2. /\ cpu' \in [Cpus -> EstadoCpu] /\ cpu'[c].solicitar
      /\ cpu'[c].pc = IF op = "IO" THEN "chequea" ELSE "esperaSyscall"
      /\ op = "IO" => cpu'[c].bloqueante
      /\ \A d \in Cpus : d # c => cpu'[d] = cpu[d]
  <2> DEFINE x == IF op = "IO" THEN "chequea" ELSE "esperaSyscall"
             b == cpu[c].bloqueante \/ op # "INIT_PROC"
  <2>1. cpu' = [cpu EXCEPT ![c].pc = x, ![c].solicitar = TRUE, ![c].bloqueante = b]
    BY DEF CpuSyscall
  <2>2. x \in PcsDeCpu
    BY DEF PcsDeCpu
  <2>12. op = "IO" => b
    OBVIOUS
  <2>3. b \in BOOLEAN
    OBVIOUS
  <2> HIDE DEF x, b
  <2>4. PICK z \in BOOLEAN : z = b
    BY <2>3
  <2>5. cpu' = [cpu EXCEPT ![c].pc = x, ![c].solicitar = TRUE, ![c].bloqueante = z]
    BY <2>1, <2>4
  <2> DEFINE r == [cpu[c] EXCEPT !.pc = x, !.solicitar = TRUE, !.bloqueante = z]
  <2>6. cpu[c] \in EstadoCpu /\ cpu \in [Cpus -> EstadoCpu]
    BY TiposCpuPartes
  <2>7. r \in EstadoCpu /\ r.pc = x
    BY <2>2, <2>6 DEF EstadoCpu
  <2>8. cpu' = [cpu EXCEPT ![c] = r]
    BY <2>5, <2>6 DEF EstadoCpu
  <2> HIDE DEF r
  <2>9. /\ cpu' \in [Cpus -> EstadoCpu] /\ cpu'[c].pc = x
        /\ \A d \in Cpus : d # c => cpu'[d] = cpu[d]
    BY <2>6, <2>7, <2>8
  <2>10. cpu'[c].solicitar
    BY <2>1, TiposCpuPartes DEF EstadoCpu
  <2>11. cpu'[c].bloqueante = b
    BY <2>1, TiposCpuPartes DEF EstadoCpu
  <2> QED BY <2>9, <2>12, <2>10, <2>11 DEF x
<1>3. op \in OpsDeCpu
  BY DEF OpsDeCpu
<1>4. /\ alKernel' \in [Cpus -> Seq(MsgCpu)]
      /\ \A d \in Cpus : d # c => alKernel'[d] = alKernel[d]
      /\ alKernel[c] = <<>> => Solo(alKernel'[c], {op})
  BY <1>1, <1>3, CpuEnvia
<1>5. TiposCpu' /\ SoloCpu(c)
  BY <1>1, <1>2, <1>4, TiposCpuPartes, TiposCpuSigue DEF SoloCpu
<1>6. (Atendida(c)' <=> Atendida(c)) /\ (Debe(c)' <=> Debe(c))
  BY <1>1, HilosQuietos
<1>7. /\ aCpu'[c] = <<>> /\ Atendida(c)' /\ ~Debe(c)'
      /\ Solo(alKernel'[c], {op})
  BY <1>1, <1>4, <1>6 DEF Conversan, Charla
<1>8. CASE op = "IO"
  BY <1>2, <1>5, <1>7, <1>8, CpuConversa DEF Charla
<1>9. CASE op # "IO"
  <2>1. Solo(alKernel'[c], {"INIT_PROC", "EXIT"})
    BY <1>7, <1>9 DEF Solo
  <2> QED BY <1>2, <1>5, <1>7, <1>9, <2>1, CpuConversa DEF Charla, Turno
<1> QED BY <1>8, <1>9

\* The answer to a syscall, or to a preemption.
LEMMA CpuRecibeSyscallConversa ==
    ASSUME TiposCpu, Conversan, NEW c \in Cpus, CpuRecibeSyscall(c)
    PROVE  TiposCpu' /\ Conversan'
<1>1. cpu[c].pc = "esperaSyscall" /\ QuitarDeCpu(c) /\ alKernel' = alKernel
      /\ programa' = programa /\ hilo' = hilo
  BY DEF CpuRecibeSyscall, kernelVars
<1>2. aCpu[c] # <<>> /\ Charla(c)
  BY <1>1 DEF QuitarDeCpu, Conversan
<1>3. /\ ~Debe(c) /\ cpu[c].solicitar /\ alKernel[c] = <<>> /\ ~Atendida(c) /\ Len(aCpu[c]) = 1
  BY <1>1, <1>2 DEF Charla, Turno
<1>4. /\ aCpu' \in [Cpus -> Seq(MsgKernel)] /\ \A d \in Cpus : d # c => aCpu'[d] = aCpu[d]
      /\ aCpu'[c] = <<>>
  BY <1>1, <1>3, CpuLee
<1>5. PICK x \in {"chequea", "desfasada"} : cpu' = [cpu EXCEPT ![c].pc = x]
  BY DEF CpuRecibeSyscall
<1>6. /\ cpu' \in [Cpus -> EstadoCpu] /\ cpu'[c].pc = x
      /\ cpu'[c].solicitar = cpu[c].solicitar
      /\ \A d \in Cpus : d # c => cpu'[d] = cpu[d]
  <2> DEFINE r == [cpu[c] EXCEPT !.pc = x]
  <2>1. cpu \in [Cpus -> EstadoCpu] /\ cpu[c] \in EstadoCpu
    BY TiposCpuPartes
  <2>2. x \in PcsDeCpu
    BY DEF PcsDeCpu
  <2>3. r \in EstadoCpu /\ r.pc = x /\ r.solicitar = cpu[c].solicitar
    BY <2>1, <2>2 DEF EstadoCpu
  <2>4. cpu' = [cpu EXCEPT ![c] = r]
    BY <1>5, <2>1
  <2> HIDE DEF r
  <2> QED BY <2>3, <2>4, CpuQueda
<1>7. TiposCpu' /\ SoloCpu(c)
  BY <1>1, <1>4, <1>6, TiposCpuPartes, TiposCpuSigue DEF SoloCpu
<1>8. (Atendida(c)' <=> Atendida(c)) /\ (Debe(c)' <=> Debe(c))
  BY <1>1, HilosQuietos
<1>9. Charla(c)'
  BY <1>1, <1>3, <1>4, <1>6, <1>8 DEF Charla
<1> QED BY <1>7, <1>9, CpuConversa

\* What comes after a preemption is the answer to it, and then nobody owes.
LEMMA CpuRecibeDesalojoConversa ==
    ASSUME TiposCpu, Conversan, NEW c \in Cpus, CpuRecibeDesalojo(c)
    PROVE  TiposCpu' /\ Conversan'
<1>1. cpu[c].pc = "esperaDesalojo" /\ QuitarDeCpu(c) /\ alKernel' = alKernel
      /\ programa' = programa /\ hilo' = hilo
  BY DEF CpuRecibeDesalojo, kernelVars
<1>2. aCpu[c] # <<>> /\ Charla(c)
  BY <1>1 DEF QuitarDeCpu, Conversan
<1>3. /\ ~Debe(c) /\ alKernel[c] = <<>> /\ ~Atendida(c) /\ Len(aCpu[c]) = 1
  BY <1>1, <1>2 DEF Charla, Turno
<1>4. /\ aCpu' \in [Cpus -> Seq(MsgKernel)] /\ \A d \in Cpus : d # c => aCpu'[d] = aCpu[d]
      /\ aCpu'[c] = <<>>
  BY <1>1, <1>3, CpuLee
<1>5. PICK x \in {"solicita", "desfasada"} : cpu' = [cpu EXCEPT ![c].pc = x]
  BY DEF CpuRecibeDesalojo
<1>6. /\ cpu' \in [Cpus -> EstadoCpu] /\ cpu'[c].pc = x
      /\ \A d \in Cpus : d # c => cpu'[d] = cpu[d]
  BY <1>5, TiposCpuPartes DEF EstadoCpu, PcsDeCpu
<1>7. TiposCpu' /\ SoloCpu(c)
  BY <1>1, <1>4, <1>6, TiposCpuPartes, TiposCpuSigue DEF SoloCpu
<1>8. (Atendida(c)' <=> Atendida(c)) /\ (Debe(c)' <=> Debe(c))
  BY <1>1, HilosQuietos
<1>9. Charla(c)'
  BY <1>1, <1>3, <1>4, <1>6, <1>8 DEF Charla
<1> QED BY <1>7, <1>9, CpuConversa

\* check_interrupt.  After an IO the syscall was a blocking one.
LEMMA CpuAceptaConversa ==
    ASSUME TiposCpu, Conversan, NEW c \in Cpus, CpuAcepta(c)
    PROVE  TiposCpu' /\ Conversan'
<1>1. cpu[c].pc = "chequea" /\ ~cpu[c].bloqueante /\ EnviarAlKernel(c, "DESALOJO_ACEPTADO") /\ aCpu' = aCpu
      /\ programa' = programa /\ hilo' = hilo
  BY DEF CpuAcepta, kernelVars
<1>2. /\ cpu' \in [Cpus -> EstadoCpu] /\ cpu'[c].pc = "esperaDesalojo"
      /\ \A d \in Cpus : d # c => cpu'[d] = cpu[d]
  BY TiposCpuPartes DEF CpuAcepta, EstadoCpu, PcsDeCpu
<1>3. "DESALOJO_ACEPTADO" \in OpsDeCpu
  BY DEF OpsDeCpu
<1>4. /\ alKernel' \in [Cpus -> Seq(MsgCpu)]
      /\ \A d \in Cpus : d # c => alKernel'[d] = alKernel[d]
      /\ alKernel[c] = <<>> => Solo(alKernel'[c], {"DESALOJO_ACEPTADO"})
  BY <1>1, <1>3, CpuEnvia
<1>5. TiposCpu' /\ SoloCpu(c)
  BY <1>1, <1>2, <1>4, TiposCpuPartes, TiposCpuSigue DEF SoloCpu
<1>6. (Atendida(c)' <=> Atendida(c)) /\ (Debe(c)' <=> Debe(c))
  BY <1>1, HilosQuietos
<1>7. aCpu[c] = <<>> /\ ~Debe(c) /\ alKernel[c] = <<>>
  BY <1>1 DEF Conversan, Charla
<1>8. Charla(c)'
  BY <1>1, <1>2, <1>4, <1>6, <1>7 DEF Charla, Turno
<1> QED BY <1>5, <1>8, CpuConversa

\* The loop goes on to ask for a process only when it was told to.
LEMMA CpuSigueConversa ==
    ASSUME TiposCpu, Conversan, NEW c \in Cpus, CpuSigue(c)
    PROVE  TiposCpu' /\ Conversan'
<1>1. cpu[c].pc = "chequea" /\ alKernel' = alKernel /\ aCpu' = aCpu
      /\ programa' = programa /\ hilo' = hilo
  BY DEF CpuSigue, kernelVars, sockets
<1>2. /\ cpu' \in [Cpus -> EstadoCpu] /\ cpu'[c].proc = cpu[c].proc
      /\ cpu'[c].pc = IF cpu[c].solicitar THEN "solicita" ELSE "ejecuta"
      /\ cpu'[c].solicitar = cpu[c].solicitar
      /\ \A d \in Cpus : d # c => cpu'[d] = cpu[d]
  <2> DEFINE x == IF cpu[c].solicitar THEN "solicita" ELSE "ejecuta"
             b == cpu[c].bloqueante /\ cpu[c].hayInterrupcion
  <2>1. cpu' = [cpu EXCEPT ![c].pc = x, ![c].hayInterrupcion = FALSE, ![c].bloqueante = b]
    BY DEF CpuSigue, Vuelta
  <2>2. x \in PcsDeCpu
    BY DEF PcsDeCpu
  <2>3. b \in BOOLEAN
    OBVIOUS
  <2> HIDE DEF x, b
  <2>4. PICK z \in BOOLEAN : z = b
    BY <2>3
  <2>5. cpu' = [cpu EXCEPT ![c].pc = x, ![c].hayInterrupcion = FALSE, ![c].bloqueante = z]
    BY <2>1, <2>4
  <2> DEFINE r == [cpu[c] EXCEPT !.pc = x, !.hayInterrupcion = FALSE, !.bloqueante = z]
  <2>6. cpu \in [Cpus -> EstadoCpu] /\ cpu[c] \in EstadoCpu
    BY TiposCpuPartes
  <2>7. r \in EstadoCpu /\ r.pc = x /\ r.proc = cpu[c].proc /\ r.solicitar = cpu[c].solicitar
    BY <2>2, <2>6 DEF EstadoCpu
  <2>8. cpu' = [cpu EXCEPT ![c] = r]
    BY <2>5, <2>6
  <2> HIDE DEF r
  <2> QED BY <2>7, <2>8, CpuQueda DEF x
<1>3. TiposCpu' /\ SoloCpu(c)
  BY <1>1, <1>2, TiposCpuPartes, TiposCpuSigue DEF SoloCpu
<1>4. (Atendida(c)' <=> Atendida(c)) /\ (Debe(c)' <=> Debe(c)) /\ PP' = PP
  BY <1>1, HilosQuietos DEF PP
<1>5. Charla(c)
  BY DEF Conversan
<1>6. Charla(c)'
  BY <1>1, <1>2, <1>4, <1>5 DEF Charla
<1> QED BY <1>3, <1>6, CpuConversa

\* An interrupt only sets its flag.
LEMMA InterrupcionConversa ==
    ASSUME TiposCpu, Conversan, NEW c \in Cpus, LlegaInterrupcion(c)
    PROVE  TiposCpu' /\ Conversan'
<1>1. alKernel' = alKernel /\ aCpu' = aCpu /\ programa' = programa /\ hilo' = hilo
  BY DEF LlegaInterrupcion, kernelVars
<1>2. /\ cpu' \in [Cpus -> EstadoCpu] /\ cpu'[c].proc = cpu[c].proc /\ cpu'[c].pc = cpu[c].pc
      /\ cpu'[c].solicitar = cpu[c].solicitar /\ cpu'[c].bloqueante = cpu[c].bloqueante
      /\ \A d \in Cpus : d # c => cpu'[d] = cpu[d]
  BY TiposCpuPartes DEF LlegaInterrupcion, EstadoCpu
<1>3. TiposCpu' /\ SoloCpu(c)
  BY <1>1, <1>2, TiposCpuPartes, TiposCpuSigue DEF SoloCpu
<1>4. (Atendida(c)' <=> Atendida(c)) /\ (Debe(c)' <=> Debe(c)) /\ PP' = PP
  BY <1>1, HilosQuietos DEF PP
<1>5. Charla(c)
  BY DEF Conversan
<1>6. Charla(c)'
  BY <1>1, <1>2, <1>4, <1>5 DEF Charla, Turno, Solo
<1> QED BY <1>3, <1>6, CpuConversa

\* All the steps of a CPU.
LEMMA CicloConversa ==
    ASSUME TiposCpu, Conversan, NEW c \in Cpus, Ciclo(c) \/ LlegaInterrupcion(c)
    PROVE  TiposCpu' /\ Conversan'
  BY CpuSolicitaConversa, CpuRecibeProcesoConversa, CpuNoopConversa, CpuSyscallConversa, CpuRecibeSyscallConversa,
     CpuAceptaConversa, CpuSigueConversa, CpuRecibeDesalojoConversa, InterrupcionConversa DEF Ciclo

-----------------------------------------------------------------------------
(* The steps of a thread of the Kernel.                                    *)

\* Only thread h changes.
SoloHilo(h) == \A g \in Hilos \ {h} : hilo'[g] = hilo[g]

\* Pasa(h, x) moves thread h and nothing else of it.
LEMMA PasaSolo ==
    ASSUME Tipos, NEW h \in Hilos, NEW x, Pasa(h, x)
    PROVE  /\ SoloHilo(h) /\ hilo'[h].pc = x /\ hilo'[h].cpu = hilo[h].cpu
           /\ hilo'[h].motivo = hilo[h].motivo /\ hilo'[h].proc = hilo[h].proc
  BY DEF Tipos, Campos, Pasa, SoloHilo

\* A thread that ends.
LEMMA TerminaSolo ==
    ASSUME Tipos, NEW h \in Hilos, hilo' = [hilo EXCEPT ![h] = HiloLibre]
    PROVE  /\ SoloHilo(h) /\ hilo'[h].pc = "libre" /\ hilo'[h].cpu = Nadie
           /\ hilo'[h].proc = Nadie /\ hilo'[h].motivo = "EXIT"
  BY DEF Tipos, HiloLibre, SoloHilo

\* Who waits for c and who owes it an answer, when h did not deal with c or goes on
\* as it was.
LEMMA DeOtraCpu ==
    ASSUME NEW h \in Hilos, SoloHilo(h), NEW d, hilo[h].cpu # d,
           hilo'[h].cpu = hilo[h].cpu \/ hilo'[h].pc = "libre"
    PROVE  (Atendida(d)' <=> Atendida(d)) /\ (Debe(d)' <=> Debe(d))
  BY DEF SoloHilo, Atendida, Debe, Adeuda

\* A thread that neither starts nor stops waiting, nor owing.
LEMMA MudoConversa ==
    ASSUME Conversan, NEW h \in Hilos, SoloHilo(h), UNCHANGED <<alKernel, aCpu, cpu, programa>>,
           \/ hilo'[h].cpu = hilo[h].cpu
           \/ hilo[h].pc # "atiende" /\ ~Adeuda(h),
           hilo'[h].pc = "atiende" <=> hilo[h].pc = "atiende",
           Adeuda(h)' <=> Adeuda(h)
    PROVE  Conversan'
<1>1. PP' = PP
  BY DEF PP
<1>2. \A g \in Hilos : (Adeuda(g)' <=> Adeuda(g)) /\ (Adeuda(g) => hilo'[g].cpu = hilo[g].cpu)
  BY DEF SoloHilo, Adeuda
<1>3. ASSUME NEW d \in Cpus PROVE Charla(d)'
  <2>1. Debe(d)' <=> Debe(d)
    BY <1>2 DEF Debe
  <2>2. Atendida(d)' <=> Atendida(d)
    BY DEF SoloHilo, Atendida
  <2>3. Charla(d)
    BY DEF Conversan
  <2> QED BY <1>1, <2>1, <2>2, <2>3, CharlaIgual
<1>4. UnaDeuda'
  BY <1>2 DEF Conversan, UnaDeuda
<1> QED BY <1>3, <1>4 DEF Conversan

\* A thread that deals with c.
LEMMA HiloConversa ==
    ASSUME Conversan, NEW h \in Hilos, NEW c \in Cpus, hilo[h].cpu = c, SoloHilo(h), UNCHANGED <<cpu, programa>>,
           hilo'[h].cpu = hilo[h].cpu \/ hilo'[h].pc = "libre",
           \A d \in Cpus : d # c => alKernel'[d] = alKernel[d] /\ aCpu'[d] = aCpu[d],
           Adeuda(h)' => ~Debe(c),
           Charla(c)'
    PROVE  Conversan'
<1>1. PP' = PP
  BY DEF PP
<1>2. ASSUME NEW d \in Cpus, d # c PROVE Charla(d)'
  <2>1. (Atendida(d)' <=> Atendida(d)) /\ (Debe(d)' <=> Debe(d))
    BY <1>2, DeOtraCpu
  <2>2. Charla(d)
    BY DEF Conversan
  <2> QED BY <1>1, <1>2, <2>1, <2>2, CharlaIgual
<1>3. UnaDeuda'
  <2> SUFFICES ASSUME NEW f \in Hilos, NEW g \in Hilos, Adeuda(f)', Adeuda(g)', hilo'[f].cpu = hilo'[g].cpu
               PROVE  f = g
    BY DEF UnaDeuda
  <2>1. CASE f # h /\ g # h
    BY <2>1 DEF SoloHilo, Conversan, UnaDeuda, Adeuda
  <2>2. ASSUME NEW k \in Hilos, k # h, Adeuda(k)', Adeuda(h)', hilo'[k].cpu = hilo'[h].cpu PROVE FALSE
    <3>1. hilo'[h].cpu = c
      BY <2>2 DEF Adeuda
    <3>2. Adeuda(k) /\ hilo[k].cpu = c
      BY <2>2, <3>1 DEF SoloHilo, Adeuda
    <3> QED BY <2>2, <3>2 DEF Debe
  <2> QED BY <2>1, <2>2
<1> QED BY <1>2, <1>3 DEF Conversan

\* It sends a message.
LEMMA HiloEnvia ==
    ASSUME TiposCpu, NEW c \in Cpus, NEW op \in OpsDelKernel, NEW p \in PP \cup {Nadie}, EnviarACpu(c, op, p)
    PROVE  /\ aCpu' \in [Cpus -> Seq(MsgKernel)]
           /\ \A d \in Cpus : d # c => aCpu'[d] = aCpu[d]
           /\ aCpu[c] = <<>> => Len(aCpu'[c]) = 1 /\ aCpu'[c][1].op = op /\ aCpu'[c][1].proc = p
<1> DEFINE m == Mensaje(op, p)
<1>1. aCpu \in [Cpus -> Seq(MsgKernel)]
  BY TiposCpuPartes
<1>2. m \in MsgKernel /\ m.op = op /\ m.proc = p
  BY DEF Mensaje, MsgKernel
<1>3. aCpu' = [aCpu EXCEPT ![c] = Append(@, m)]
  BY DEF EnviarACpu
<1>4. aCpu[c] \in Seq(MsgKernel) /\ Append(aCpu[c], m) \in Seq(MsgKernel)
  BY <1>1, <1>2, AppendProperties
<1>5. aCpu' \in [Cpus -> Seq(MsgKernel)] /\ aCpu'[c] = Append(aCpu[c], m)
      /\ \A d \in Cpus : d # c => aCpu'[d] = aCpu[d]
  BY <1>1, <1>3, <1>4
<1>6. aCpu[c] = <<>> => Len(aCpu'[c]) = 1 /\ aCpu'[c][1] = m
  BY <1>2, <1>4, <1>5, AgregarAVacia
<1> QED BY <1>2, <1>5, <1>6

\* It reads one.
LEMMA HiloLee ==
    ASSUME TiposCpu, NEW c \in Cpus, alKernel[c] # <<>>, alKernel' = [alKernel EXCEPT ![c] = Tail(@)]
    PROVE  /\ alKernel' \in [Cpus -> Seq(MsgCpu)] /\ Head(alKernel[c]) \in MsgCpu
           /\ \A d \in Cpus : d # c => alKernel'[d] = alKernel[d]
           /\ Len(alKernel[c]) = 1 => alKernel'[c] = <<>> /\ Head(alKernel[c]) = alKernel[c][1]
           /\ Len(alKernel[c]) = 2 => /\ Len(alKernel'[c]) = 1 /\ alKernel'[c][1] = alKernel[c][2]
                                      /\ Head(alKernel[c]) = alKernel[c][1]
<1>1. alKernel \in [Cpus -> Seq(MsgCpu)]
  BY TiposCpuPartes
<1>2. alKernel[c] \in Seq(MsgCpu) /\ Tail(alKernel[c]) \in Seq(MsgCpu) /\ Head(alKernel[c]) \in MsgCpu
  BY <1>1, QuitarTipo
<1>3. /\ alKernel' \in [Cpus -> Seq(MsgCpu)] /\ alKernel'[c] = Tail(alKernel[c])
      /\ \A d \in Cpus : d # c => alKernel'[d] = alKernel[d]
  BY <1>1, <1>2
<1>4. Len(alKernel[c]) = 1 => alKernel'[c] = <<>> /\ Head(alKernel[c]) = alKernel[c][1]
  BY <1>2, <1>3, QuitarDeUna
<1>5. Len(alKernel[c]) = 2 => /\ Len(alKernel'[c]) = 1 /\ alKernel'[c][1] = alKernel[c][2]
                              /\ Head(alKernel[c]) = alKernel[c][1]
  BY <1>2, <1>3, QuitarDeDos
<1> QED BY <1>2, <1>3, <1>4, <1>5

\* The only thread that holds c is h.
LEMMA SoloSuHilo ==
    ASSUME IInv, NEW h \in Hilos, ConCpu(h)
    PROVE  /\ hilo[h].cpu \in Cpus
           /\ Atendida(hilo[h].cpu) <=> hilo[h].pc = "atiende"
           /\ \A g \in Hilos : g # h => ~(hilo[g].cpu = hilo[h].cpu /\ hilo[g].pc = "atiende")
<1>1. hilo[h].cpu \in Cpus
  BY DEF IInv, Tipos, UnDuenio
<1>2. \A g \in Hilos : g # h => ~(hilo[g].cpu = hilo[h].cpu /\ hilo[g].pc = "atiende")
  BY DEF IInv, UnDuenio, ConCpu
<1> QED BY <1>1, <1>2 DEF Atendida

\* A word of the CPU is read and the process is sent: it was CPU_LISTA or an IO.
LEMMA HiloEsperaConversa ==
    ASSUME IInv, TiposCpu, Conversan, NEW h \in Hilos, HiloEspera(h)
    PROVE  TiposCpu' /\ Conversan'
<1>c. PICK c : c = hilo[h].cpu
  OBVIOUS
<1>1. /\ hilo[h].pc = "espera" /\ alKernel[c] # <<>> /\ alKernel' = [alKernel EXCEPT ![c] = Tail(@)]
      /\ EnviarACpu(c, "ENVIO_PID_Y_PC", hilo[h].proc) /\ UNCHANGED <<cpu, programa>>
      /\ Pasa(h, IF Head(alKernel[c]).op = "CPU_LISTA" THEN "atiende" ELSE "desfasado")
  BY <1>c DEF HiloEspera, En
<1>2. ConCpu(h) /\ hilo[h].proc \in PP
  BY <1>1 DEF ConCpu, IInv, UnLugar, Ocupado
<1>3. /\ c \in Cpus /\ ~Atendida(c)
      /\ \A g \in Hilos : g # h => ~(hilo[g].cpu = c /\ hilo[g].pc = "atiende")
  BY <1>c, <1>1, <1>2, SoloSuHilo
<1>4. /\ SoloHilo(h) /\ hilo'[h].cpu = c
      /\ hilo'[h].pc = IF Head(alKernel[c]).op = "CPU_LISTA" THEN "atiende" ELSE "desfasado"
  BY <1>c, <1>1, PasaSolo DEF IInv
<1>5. "ENVIO_PID_Y_PC" \in OpsDelKernel
  BY DEF OpsDelKernel
<1>6. /\ aCpu' \in [Cpus -> Seq(MsgKernel)] /\ \A d \in Cpus : d # c => aCpu'[d] = aCpu[d]
      /\ aCpu[c] = <<>> => Len(aCpu'[c]) = 1 /\ aCpu'[c][1].op = "ENVIO_PID_Y_PC"
                           /\ aCpu'[c][1].proc = hilo[h].proc
  BY <1>1, <1>2, <1>3, <1>5, HiloEnvia
<1>7. /\ alKernel' \in [Cpus -> Seq(MsgCpu)]
      /\ \A d \in Cpus : d # c => alKernel'[d] = alKernel[d]
      /\ Len(alKernel[c]) = 1 => alKernel'[c] = <<>> /\ Head(alKernel[c]) = alKernel[c][1]
  BY <1>1, <1>3, HiloLee
<1>8. TiposCpu'
  BY <1>1, <1>6, <1>7, TiposCpuPartes, TiposCpuSigue
<1>9. Charla(c)
  BY <1>3 DEF Conversan
<1>10. PP' = PP /\ (Atendida(c)' <=> hilo'[h].pc = "atiende") /\ (~Debe(c) => ~Debe(c)')
  <2>1. PP' = PP
    BY <1>1 DEF PP
  <2>2. Atendida(c)' <=> hilo'[h].pc = "atiende"
    BY <1>3, <1>4 DEF Atendida, SoloHilo
  <2>3. ~Debe(c) => ~Debe(c)'
    BY <1>4 DEF Debe, Adeuda, SoloHilo
  <2> QED BY <2>1, <2>2, <2>3
<1>11. /\ cpu[c].pc \in {"esperaProceso", "esperaDesalojo"} /\ Len(alKernel[c]) = 1
       /\ cpu[c].pc = "esperaProceso" => alKernel[c][1].op = "CPU_LISTA" /\ ~cpu[c].solicitar
       /\ cpu[c].pc = "esperaDesalojo" => alKernel[c][1].op = "DESALOJO_ACEPTADO"
       /\ aCpu[c] = <<>> /\ ~Debe(c)
  <2>1. cpu[c].pc \in PcsDeCpu
    BY <1>3 DEF TiposCpu
  <2> QED BY <2>1, <1>1, <1>3, <1>9 DEF Charla, Turno, Solo, PcsDeCpu
<1>12. Charla(c)'
  <2>1. CASE cpu[c].pc = "esperaProceso"
    BY <2>1, <1>1, <1>2, <1>4, <1>6, <1>7, <1>10, <1>11 DEF Charla, Solo
  <2>2. CASE cpu[c].pc = "esperaDesalojo"
    BY <2>2, <1>1, <1>4, <1>6, <1>7, <1>10, <1>11 DEF Charla, Turno
  <2> QED BY <1>11, <2>1, <2>2
<1>13. ~Adeuda(h)'
  BY <1>4 DEF Adeuda
<1> QED BY <1>1, <1>3, <1>4, <1>6, <1>7, <1>8, <1>12, <1>13, <1>c, HiloConversa

\* The thread reads why the process returns: it owes an answer unless it gives it now, or it was an IO.
LEMMA HiloAtiendeConversa ==
    ASSUME IInv, TiposCpu, Conversan, NEW h \in Hilos, HiloAtiende(h)
    PROVE  TiposCpu' /\ Conversan'
<1>c. PICK c, m : c = hilo[h].cpu /\ m = Head(alKernel[c]).op
  OBVIOUS
<1>1. /\ hilo[h].pc = "atiende" /\ alKernel[c] # <<>> /\ alKernel' = [alKernel EXCEPT ![c] = Tail(@)]
      /\ UNCHANGED <<cpu, programa>>
      /\ m = "INIT_PROC" => Pasa(h, "espera") /\ EnviarACpu(c, "SYSCALL_EJECUTADA", Nadie)
      /\ m # "INIT_PROC" => hilo' = [hilo EXCEPT ![h].pc = "libera", ![h].motivo = m] /\ aCpu' = aCpu
  BY <1>c DEF HiloAtiende, En
<1>2. ConCpu(h)
  BY <1>1 DEF ConCpu
<1>3. /\ c \in Cpus /\ Atendida(c)
      /\ \A g \in Hilos : g # h => ~(hilo[g].cpu = c /\ hilo[g].pc = "atiende")
  BY <1>c, <1>1, <1>2, SoloSuHilo
<1>4. /\ SoloHilo(h) /\ hilo'[h].cpu = c
      /\ m = "INIT_PROC" => hilo'[h].pc = "espera"
      /\ m # "INIT_PROC" => hilo'[h].pc = "libera" /\ hilo'[h].motivo = m
  <2>1. CASE m = "INIT_PROC"
    BY <1>c, <1>1, <2>1, PasaSolo DEF IInv
  <2>2. CASE m # "INIT_PROC"
    BY <1>c, <1>1, <2>2 DEF IInv, Tipos, Campos, SoloHilo
  <2> QED BY <2>1, <2>2
<1>5. /\ alKernel' \in [Cpus -> Seq(MsgCpu)]
      /\ \A d \in Cpus : d # c => alKernel'[d] = alKernel[d]
      /\ Len(alKernel[c]) = 1 => alKernel'[c] = <<>> /\ Head(alKernel[c]) = alKernel[c][1]
      /\ Len(alKernel[c]) = 2 => /\ Len(alKernel'[c]) = 1 /\ alKernel'[c][1] = alKernel[c][2]
                                 /\ Head(alKernel[c]) = alKernel[c][1]
  BY <1>1, <1>3, HiloLee
<1>6. /\ aCpu' \in [Cpus -> Seq(MsgKernel)] /\ \A d \in Cpus : d # c => aCpu'[d] = aCpu[d]
      /\ m # "INIT_PROC" => aCpu' = aCpu
      /\ m = "INIT_PROC" /\ aCpu[c] = <<>> => Len(aCpu'[c]) = 1
  <2>1. CASE m = "INIT_PROC"
    <3>1. "SYSCALL_EJECUTADA" \in OpsDelKernel /\ Nadie \in PP \cup {Nadie}
      BY DEF OpsDelKernel
    <3> QED BY <1>1, <1>3, <2>1, <3>1, HiloEnvia
  <2>2. CASE m # "INIT_PROC"
    BY <1>1, <2>2, TiposCpuPartes
  <2> QED BY <2>1, <2>2
<1>7. TiposCpu'
  BY <1>1, <1>5, <1>6, TiposCpuPartes, TiposCpuSigue
<1>8. Charla(c)
  BY <1>3 DEF Conversan
<1>9. /\ ~Atendida(c)'
      /\ ~Debe(c) => (Debe(c)' <=> Adeuda(h)')
  <2>1. ~Atendida(c)'
    BY <1>3, <1>4 DEF Atendida, SoloHilo
  <2>2. ~Debe(c) => (Debe(c)' <=> Adeuda(h)')
    BY <1>4 DEF Debe, Adeuda, SoloHilo
  <2> QED BY <2>1, <2>2
<1>10. Adeuda(h)' <=> m \in MotivosConRespuesta
  BY <1>4 DEF Adeuda, MotivosConRespuesta
<1>11. /\ ~Debe(c) /\ aCpu[c] = <<>> /\ m = alKernel[c][1].op
       /\ \/ cpu[c].pc = "solicita" /\ Len(alKernel[c]) = 1 /\ m = "IO"
          \/ /\ cpu[c].pc = "esperaProceso" /\ ~cpu[c].solicitar
             /\ Len(alKernel[c]) = 2 /\ m = "IO" /\ alKernel[c][2].op = "CPU_LISTA"
          \/ cpu[c].pc = "chequea" /\ Len(alKernel[c]) = 1 /\ m = "IO" /\ cpu[c].solicitar
          \/ /\ cpu[c].pc = "esperaSyscall" /\ cpu[c].solicitar
             /\ Len(alKernel[c]) = 1 /\ m \in {"INIT_PROC", "EXIT"}
          \/ cpu[c].pc = "esperaDesalojo" /\ Len(alKernel[c]) = 1 /\ m = "DESALOJO_ACEPTADO"
  <2>1. cpu[c].pc \in PcsDeCpu
    BY <1>3 DEF TiposCpu
  <2> QED BY <2>1, <1>c, <1>1, <1>3, <1>5, <1>8 DEF Charla, Turno, Solo, PcsDeCpu
<1>12. Charla(c)'
  <2>1. CASE m = "IO"
    <3>1. ~Debe(c)' /\ aCpu'[c] = <<>>
      BY <2>1, <1>3, <1>6, <1>9, <1>10, <1>11 DEF MotivosConRespuesta
    <3> QED BY <2>1, <3>1, <1>1, <1>5, <1>9, <1>11 DEF Charla, Solo
  <2>2. CASE m = "INIT_PROC"
    <3>1. ~Debe(c)' /\ Len(aCpu'[c]) = 1 /\ alKernel'[c] = <<>>
      BY <2>2, <1>3, <1>5, <1>6, <1>9, <1>10, <1>11 DEF MotivosConRespuesta
    <3> QED BY <2>2, <3>1, <1>1, <1>9, <1>11 DEF Charla, Turno
  <2>3. CASE m \in MotivosConRespuesta
    <3>1. Debe(c)' /\ aCpu'[c] = <<>> /\ alKernel'[c] = <<>>
      BY <2>3, <1>3, <1>5, <1>6, <1>9, <1>10, <1>11 DEF MotivosConRespuesta
    <3>2. \A ops : Turno(c, ops)'
      BY <3>1, <1>9 DEF Turno
    <3>3. cpu'[c].pc = "esperaDesalojo" \/ (cpu'[c].pc = "esperaSyscall" /\ cpu'[c].solicitar)
      BY <2>3, <1>1, <1>11 DEF MotivosConRespuesta
    <3> QED BY <3>2, <3>3 DEF Charla
  <2> QED BY <1>11, <2>1, <2>2, <2>3 DEF MotivosConRespuesta
<1> QED BY <1>1, <1>3, <1>4, <1>5, <1>6, <1>7, <1>11, <1>12, <1>c, HiloConversa

\* liberar_cpu, and the assignment before the process is sent.
LEMMA HiloMudo ==
    ASSUME IInv, TiposCpu, Conversan, NEW h \in Hilos, HiloAsigna(h) \/ HiloLibera(h) \/ HiloBorra(h)
    PROVE  TiposCpu' /\ Conversan'
<1>1. /\ UNCHANGED <<alKernel, aCpu, cpu, programa>>
      /\ \/ hilo[h].pc = "asigna" /\ Pasa(h, "espera")
         \/ hilo[h].pc = "libera" /\ Pasa(h, "borra")
         \/ hilo[h].pc = "borra" /\ Pasa(h, "sale")
  BY DEF HiloAsigna, HiloLibera, HiloBorra, En, sockets
<1>2. PICK x : Pasa(h, x) /\ hilo[h].pc # "atiende" /\ x # "atiende"
               /\ (x \in {"libera", "borra", "sale"} <=> hilo[h].pc \in {"libera", "borra", "sale"})
  BY <1>1
<1>3. /\ SoloHilo(h) /\ hilo'[h].pc = x /\ hilo'[h].cpu = hilo[h].cpu
      /\ hilo'[h].motivo = hilo[h].motivo
  BY <1>2, PasaSolo DEF IInv
<1>4. Adeuda(h)' <=> Adeuda(h)
  BY <1>2, <1>3 DEF Adeuda
<1>5. TiposCpu'
  BY <1>1, TiposCpuPartes, TiposCpuSigue
<1> QED BY <1>1, <1>2, <1>3, <1>4, <1>5, MudoConversa

\* The CPU is answered.
LEMMA SaleConRespuesta ==
    ASSUME IInv, TiposCpu, Conversan, NEW h \in Hilos, hilo[h].cpu \in Cpus, SaleExit(h) \/ SaleDesalojo(h)
    PROVE  TiposCpu' /\ Conversan'
<1>c. PICK c : c = hilo[h].cpu
  OBVIOUS
<1>1. /\ hilo[h].pc = "sale" /\ hilo[h].motivo \in MotivosConRespuesta
      /\ UNCHANGED <<alKernel, cpu, programa>> /\ hilo' = [hilo EXCEPT ![h] = HiloLibre]
  BY DEF SaleExit, SaleDesalojo, En, MotivosConRespuesta
<1>2. PICK op \in OpsDelKernel : EnviarACpu(c, op, Nadie)
  BY <1>c DEF SaleExit, SaleDesalojo, OpsDelKernel
<1>3. SoloHilo(h) /\ hilo'[h].pc = "libre"
  BY <1>1, TerminaSolo DEF IInv
<1>4. Adeuda(h) /\ ~Adeuda(h)' /\ c \in Cpus
  BY <1>c, <1>1, <1>3 DEF Adeuda
<1>5. /\ aCpu' \in [Cpus -> Seq(MsgKernel)] /\ \A d \in Cpus : d # c => aCpu'[d] = aCpu[d]
      /\ aCpu[c] = <<>> => Len(aCpu'[c]) = 1
  <2>1. Nadie \in PP \cup {Nadie}
    OBVIOUS
  <2> QED BY <1>2, <1>4, <2>1, HiloEnvia
<1>6. TiposCpu'
  BY <1>1, <1>5, TiposCpuPartes, TiposCpuSigue
<1>7. Debe(c) /\ ~Debe(c)' /\ (Atendida(c)' <=> Atendida(c))
  <2>1. \A g \in Hilos : g # h => ~(hilo[g].cpu = c /\ Adeuda(g))
    BY <1>c, <1>4 DEF Conversan, UnaDeuda
  <2>2. ~Debe(c)'
    BY <2>1, <1>3, <1>4 DEF Debe, Adeuda, SoloHilo
  <2>3. Atendida(c)' <=> Atendida(c)
    BY <1>1, <1>3 DEF Atendida, SoloHilo
  <2> QED BY <2>2, <2>3, <1>c, <1>4 DEF Debe
<1>8. /\ alKernel[c] = <<>> /\ ~Atendida(c) /\ aCpu[c] = <<>>
      /\ cpu[c].pc \in {"esperaSyscall", "esperaDesalojo"}
      /\ cpu[c].pc = "esperaSyscall" => cpu[c].solicitar
  <2>1. cpu[c].pc \in PcsDeCpu /\ Charla(c)
    BY <1>4 DEF TiposCpu, Conversan
  <2> QED BY <2>1, <1>7 DEF Charla, Turno, PcsDeCpu
<1>9. Charla(c)'
  BY <1>1, <1>5, <1>7, <1>8 DEF Charla, Turno
<1> QED BY <1>1, <1>3, <1>4, <1>5, <1>6, <1>9, <1>c, HiloConversa

\* After an IO nothing is owed.
LEMMA SaleIoConversa ==
    ASSUME IInv, TiposCpu, Conversan, NEW h \in Hilos, SaleIo(h)
    PROVE  TiposCpu' /\ Conversan'
<1>1. /\ hilo[h].pc = "sale" /\ hilo[h].motivo = "IO"
      /\ UNCHANGED <<alKernel, aCpu, cpu, programa>> /\ hilo' = [hilo EXCEPT ![h] = HiloLibre]
  BY DEF SaleIo, En, sockets
<1>2. SoloHilo(h) /\ hilo'[h].pc = "libre"
  BY <1>1, TerminaSolo DEF IInv
<1>3. ~Adeuda(h) /\ ~Adeuda(h)'
  BY <1>1, <1>2 DEF Adeuda, MotivosConRespuesta
<1>4. TiposCpu'
  BY <1>1, TiposCpuPartes, TiposCpuSigue
<1> QED BY <1>1, <1>2, <1>3, <1>4, MudoConversa

\* The new thread neither waits nor owes yet.
LEMMA PlaniDespachaConversa ==
    ASSUME IInv, TiposCpu, Conversan, NEW h \in Hilos, PlaniDespacha(h)
    PROVE  TiposCpu' /\ Conversan'
<1>1. /\ hilo[h] = HiloLibre /\ UNCHANGED <<alKernel, aCpu, cpu, programa>>
      /\ hilo' = [hilo EXCEPT ![h] = [HiloLibre EXCEPT !.pc = "asigna", !.proc = Head(ready), !.cpu = plani.cpu]]
  BY DEF PlaniDespacha, sockets
<1>2. SoloHilo(h) /\ hilo'[h].pc = "asigna" /\ hilo[h].pc = "libre"
  BY <1>1 DEF IInv, Tipos, SoloHilo, HiloLibre
<1>3. ~Adeuda(h) /\ ~Adeuda(h)'
  BY <1>2 DEF Adeuda
<1>4. TiposCpu'
  BY <1>1, TiposCpuPartes, TiposCpuSigue
<1> QED BY <1>1, <1>2, <1>3, <1>4, MudoConversa

\* The others leave the threads and the sockets they read alone.
LEMMA QuietoConversa ==
    ASSUME TiposCpu, Conversan, UNCHANGED <<alKernel, aCpu, cpu, programa, hilo>>
    PROVE  TiposCpu' /\ Conversan'
<1>1. TiposCpu'
  BY TiposCpuPartes, TiposCpuSigue
<1>2. PP' = PP
  BY DEF PP
<1>3. ASSUME NEW d \in Cpus PROVE Charla(d)'
  <2>1. Charla(d)
    BY DEF Conversan
  <2> QED BY <1>2, <2>1, HilosQuietos, CharlaIgual
<1> QED BY <1>1, <1>3, HilosQuietos DEF Conversan

\* The planner touches neither sockets nor CPUs, and threads only to create one.
LEMMA PlaniDejaHilos ==
    ASSUME Planificador
    PROVE  /\ UNCHANGED <<alKernel, aCpu, cpu, programa, restan, algoritmo>>
           /\ (\E h \in Hilos : PlaniDespacha(h)) \/ UNCHANGED <<hilo, exec, salieron>>
<1>1. CASE PlaniDespierta
  <2>1. UNCHANGED <<algoritmo, programa, colas, est, hilo, conectadas, ejecutando, sockets, cpu, restan>>
    BY <1>1, Zenon DEF PlaniDespierta
  <2> QED BY <2>1 DEF colas, sockets
<1> USE DEF colas, sockets
<1>2. CASE PlaniCopia
  BY <1>2 DEF PlaniCopia
<1>3. CASE FrenaCarga \/ FrenaEscribe
  BY <1>3 DEF FrenaCarga, FrenaEscribe
<1>4. CASE Elige
  BY <1>4 DEF Elige
<1>5. ASSUME NEW h \in Hilos, PlaniDespacha(h)
      PROVE  UNCHANGED <<alKernel, aCpu, cpu, programa, restan, algoritmo>>
  BY <1>5 DEF PlaniDespacha
<1>6. ASSUME NEW c \in Cpus, FrenaMira(c)
      PROVE  UNCHANGED <<alKernel, aCpu, cpu, programa, restan, algoritmo, hilo, exec, salieron>>
  BY <1>6 DEF FrenaMira
<1>7. ASSUME NEW c \in Cpus, Recorre(c)
      PROVE  UNCHANGED <<alKernel, aCpu, cpu, programa, restan, algoritmo, hilo, exec, salieron>>
  BY <1>7 DEF Recorre
<1>8. ASSUME NEW c \in Cpus, Reanuda(c)
      PROVE  UNCHANGED <<alKernel, aCpu, cpu, programa, restan, algoritmo, hilo, exec, salieron>>
  BY <1>8 DEF Reanuda
<1> QED BY <1>1, <1>2, <1>3, <1>4, <1>5, <1>6, <1>7, <1>8 DEF Planificador

\* Every step keeps the conversation.
LEMMA NextConversa ==
    ASSUME IInv, TiposKernel, TiposCpu, Conversan, [Next]_vars
    PROVE  TiposCpu' /\ Conversan'
<1>1. CASE UNCHANGED vars
  BY <1>1, QuietoConversa DEF vars, sockets
<1>2. ASSUME NEW p \in Procs, TransicionarAReady(p) PROVE TiposCpu' /\ Conversan'
  BY <1>2, QuietoConversa DEF TransicionarAReady, sockets
<1>3. CASE Planificador
  <2>1. CASE \E h \in Hilos : PlaniDespacha(h)
    BY <2>1, PlaniDespachaConversa
  <2>2. CASE ~\E h \in Hilos : PlaniDespacha(h)
    BY <1>3, <2>2, PlaniDejaHilos, QuietoConversa
  <2> QED BY <2>1, <2>2
<1>4. ASSUME NEW h \in Hilos, Hilo(h) PROVE TiposCpu' /\ Conversan'
  <2>1. SaleExit(h) \/ SaleDesalojo(h) => hilo[h].cpu \in Cpus
    BY DEF SaleExit, SaleDesalojo, En, TiposKernel, TiposHilos, Ocupado
  <2> QED BY <1>4, <2>1, HiloEsperaConversa, HiloAtiendeConversa, HiloMudo, SaleConRespuesta, SaleIoConversa DEF Hilo
<1>5. ASSUME NEW c \in Cpus, ConectarCpu(c) \/ Ciclo(c) \/ LlegaInterrupcion(c) PROVE TiposCpu' /\ Conversan'
  <2>1. CASE ConectarCpu(c)
    BY <2>1, QuietoConversa DEF ConectarCpu, sockets
  <2>2. CASE Ciclo(c) \/ LlegaInterrupcion(c)
    BY <2>2, CicloConversa
  <2> QED BY <1>5, <2>1, <2>2
<1> QED BY <1>1, <1>2, <1>3, <1>4, <1>5 DEF Next

-----------------------------------------------------------------------------
(* The types of the Kernel's own data.                                     *)

LEMMA CeroEstima == 0 \in Estimaciones
  BY CortoPlazoAssumption DEF Estimaciones

\* A step that is not of the planner.
LEMMA PlaniQuieto ==
    ASSUME TiposPlani, programa' = programa, plani' = plani, conectadas \subseteq conectadas'
    PROVE  TiposPlani'
<1>1. PP' = PP
  BY DEF PP
<1> QED BY <1>1 DEF TiposPlani

\* While the planner deals with a process, READY is not empty.
LEMMA PlaniTienePrimero ==
    ASSUME IInv, ~caido, plani.pc # "duerme"
    PROVE  ready # <<>> /\ Head(ready) \in PP
<1>1. ready \in Seq(PP) /\ enReady \in Nat /\ Len(ready) = enReady + 1
  BY DEF IInv, Tipos, FichasDeReady
<1>2. ready # <<>>
  BY <1>1, EmptySeq
<1> QED BY <1>1, <1>2, QuitarTipo

\* The loop over the CPUs that are connected.
LEMMA RecorridaTipos ==
    ASSUME IInv, TiposPlani, NEW c, NEW lazo \in PcsDePlani, NEW luego \in PcsDePlani,
           plani' = Recorrida(c, lazo, luego), conectadas' = conectadas, programa' = programa
    PROVE  TiposPlani'
<1>1. DOMAIN plani = CamposPlani /\ PP' = PP
  BY DEF IInv, Tipos, PP
<1>2. CASE plani.faltan = {c}
  <2>1. plani' = [Suelta EXCEPT !.pc = luego, !.faltan = conectadas]
    BY <1>2 DEF Recorrida
  <2> QED BY <1>1, <2>1, CeroEstima DEF TiposPlani, CamposPlani, Suelta
<1>3. CASE plani.faltan # {c}
  <2>1. plani' = [Suelta EXCEPT !.pc = lazo, !.faltan = @ \ {c}]
    BY <1>3 DEF Recorrida
  <2> QED BY <1>1, <2>1, CeroEstima DEF TiposPlani, CamposPlani, Suelta
<1> QED BY <1>2, <1>3

\* The steps of the planner.
LEMMA PlanificadorPlani ==
    ASSUME IInv, TiposDatos, TiposPlani, Planificador
    PROVE  TiposPlani'
<1>p. PP' = PP /\ DOMAIN plani = CamposPlani /\ conectadas \subseteq Cpus /\ Nadie \in Cpus \cup {Nadie}
  <2>1. programa' = programa
    BY PlaniDejaHilos
  <2> QED BY <2>1 DEF PP, IInv, Tipos
<1>d. plani' = Duerme => TiposPlani'
  <2>1. "duerme" \in PcsDePlani
    BY DEF PcsDePlani
  <2>2. /\ Duerme.pc = "duerme" /\ Duerme.cpu = Nadie /\ Duerme.proc = Nadie /\ Duerme.faltan = {}
        /\ Duerme.victima = Nadie /\ Duerme.base = 0
    BY DEF Duerme
  <2> QED BY <2>1, <2>2, CeroEstima DEF TiposPlani
<1>s. {"frena", "recorre", "elige", "reanuda", "copia", "despacha", "resta", "escribe"} \subseteq PcsDePlani
  BY DEF PcsDePlani
<1>1. CASE PlaniDespierta
  <2>1. ASSUME NEW c \in Cpus, plani' = [Duerme EXCEPT !.pc = "despacha", !.cpu = c] PROVE TiposPlani'
    <3>1. plani'.pc = "despacha" /\ plani'.cpu = c /\ plani'.proc = Nadie /\ plani'.faltan = {}
          /\ plani'.victima = Nadie /\ plani'.base = 0
      BY <2>1 DEF Duerme
    <3> QED BY <3>1, <1>s, CeroEstima DEF TiposPlani
  <2>2. CASE plani' = [Duerme EXCEPT !.pc = "copia"]
    <3>1. plani'.pc = "copia" /\ plani'.cpu = Nadie /\ plani'.proc = Nadie /\ plani'.faltan = {}
          /\ plani'.victima = Nadie /\ plani'.base = 0
      BY <2>2 DEF Duerme
    <3> QED BY <3>1, <1>s, CeroEstima DEF TiposPlani
  <2>3. \/ \E c \in Cpus : plani' = [Duerme EXCEPT !.pc = "despacha", !.cpu = c]
        \/ plani' = [Duerme EXCEPT !.pc = "copia"]
    BY <1>1, Zenon DEF PlaniDespierta
  <2> QED BY <2>1, <2>2, <2>3, Zenon
<1>2. CASE PlaniCopia
  <2>1. Head(ready) \in PP
    BY <1>2, PlaniTienePrimero DEF PlaniCopia, Sigue
  <2>2. /\ conectadas' = conectadas
        /\ plani' = [plani EXCEPT !.pc = "frena", !.proc = Head(ready), !.faltan = conectadas]
    BY <1>2 DEF PlaniCopia, instancias
  <2> QED BY <1>p, <1>s, <2>1, <2>2 DEF TiposPlani, CamposPlani
<1>3. CASE Elige
  <2>1. conectadas' = conectadas /\ plani' = [plani EXCEPT !.pc = "reanuda", !.faltan = conectadas]
    BY <1>3 DEF Elige, instancias
  <2> QED BY <1>p, <1>s, <2>1 DEF TiposPlani, CamposPlani
<1>4. CASE FrenaEscribe
  <2>1. conectadas' = conectadas /\ programa' = programa /\ plani' = Recorrida(plani.cpu, "frena", "recorre")
    BY <1>4 DEF FrenaEscribe, instancias
  <2> QED BY <1>s, <2>1, RecorridaTipos
<1>9. CASE FrenaCarga
  <2>1. conectadas' = conectadas
    BY <1>9 DEF FrenaCarga, instancias
  <2>2. CASE Valida(plani.cpu)
    <3>1. PICK q : q = ejecutando[plani.cpu]
      OBVIOUS
    <3>2. plani' = [plani EXCEPT !.pc = "escribe", !.victima = q, !.base = est[q]]
      BY <1>9, <2>2, <3>1 DEF FrenaCarga
    <3>3. plani.cpu \in Cpus /\ q \in Procs
      BY <1>9, <2>2, <3>1 DEF FrenaCarga, IInv, Tipos, Valida
    <3>4. q \in PP /\ est[q] \in Estimaciones
      BY <3>1, <3>3, CortoPlazoAssumption DEF TiposDatos
    <3> QED BY <1>p, <1>s, <2>1, <3>2, <3>4 DEF TiposPlani, CamposPlani
  <2>3. CASE ~Valida(plani.cpu)
    BY <1>9, <1>p, <2>1, <2>3 DEF FrenaCarga, TiposPlani
  <2> QED BY <2>2, <2>3
<1>5. ASSUME NEW h \in Hilos, PlaniDespacha(h) PROVE TiposPlani'
  BY <1>5, <1>d DEF PlaniDespacha
<1>6. ASSUME NEW c \in Cpus, FrenaMira(c) PROVE TiposPlani'
  <2>1. conectadas' = conectadas /\ programa' = programa
    BY <1>6 DEF FrenaMira, instancias
  <2>2. CASE plani' = Recorrida(c, "frena", "recorre")
    BY <1>s, <2>1, <2>2, RecorridaTipos
  <2>3. CASE plani' = [plani EXCEPT !.pc = "resta", !.cpu = c]
    BY <1>p, <1>s, <2>1, <2>3 DEF TiposPlani, CamposPlani
  <2> QED BY <1>6, <2>2, <2>3 DEF FrenaMira
<1>7. ASSUME NEW c \in Cpus, Recorre(c) PROVE TiposPlani'
  <2>1. conectadas' = conectadas /\ programa' = programa
    BY <1>7 DEF Recorre, instancias
  <2>2. CASE plani' = Recorrida(c, "recorre", "reanuda")
    BY <1>s, <2>1, <2>2, RecorridaTipos
  <2>3. CASE plani' = [plani EXCEPT !.pc = "elige"]
    BY <1>p, <1>s, <2>1, <2>3 DEF TiposPlani, CamposPlani
  <2> QED BY <1>7, <2>2, <2>3 DEF Recorre
<1>8. ASSUME NEW c \in Cpus, Reanuda(c) PROVE TiposPlani'
  <2>1. conectadas' = conectadas /\ programa' = programa
    BY <1>8 DEF Reanuda, instancias
  <2>2. CASE plani' = Recorrida(c, "reanuda", "reanuda")
    BY <1>s, <2>1, <2>2, RecorridaTipos
  <2> QED BY <1>8, <1>d, <2>2 DEF Reanuda
<1> QED BY <1>1, <1>2, <1>3, <1>4, <1>5, <1>6, <1>7, <1>8, <1>9 DEF Planificador

\* The planner keeps its types.
LEMMA NextPlani ==
    ASSUME IInv, TiposDatos, TiposPlani, [Next]_vars
    PROVE  TiposPlani'
<1>1. CASE UNCHANGED vars
  BY <1>1, PlaniQuieto DEF vars, instancias
<1>2. ASSUME NEW p \in Procs, TransicionarAReady(p) PROVE TiposPlani'
  BY <1>2, PlaniQuieto DEF TransicionarAReady, instancias
<1>3. CASE Planificador
  BY <1>3, PlanificadorPlani
<1>4. ASSUME NEW h \in Hilos, Hilo(h) PROVE TiposPlani'
  <2>1. programa' = programa /\ plani' = plani /\ conectadas' = conectadas
    BY <1>4 DEF Hilo, HiloAsigna, HiloEspera, HiloAtiende, HiloLibera, HiloBorra, SaleExit, SaleIo, SaleDesalojo,
                instancias
  <2> QED BY <2>1, PlaniQuieto
<1>5. ASSUME NEW c \in Cpus, ConectarCpu(c) \/ Ciclo(c) \/ LlegaInterrupcion(c) PROVE TiposPlani'
  <2>1. programa' = programa /\ plani' = plani /\ conectadas \subseteq conectadas'
    BY <1>5 DEF ConectarCpu, Ciclo, CpuSolicita, CpuRecibeProceso, CpuNoop, CpuSyscall, CpuRecibeSyscall, CpuAcepta,
                CpuSigue, CpuRecibeDesalojo, LlegaInterrupcion, kernelVars, instancias
  <2> QED BY <2>1, PlaniQuieto
<1> QED BY <1>1, <1>2, <1>3, <1>4, <1>5 DEF Next

\* The threads.
LEMMA HilosSiguen ==
    ASSUME TiposHilos, programa' = programa, NEW h \in Hilos, SoloHilo(h),
           hilo'[h].proc \in PP \cup {Nadie}, hilo'[h].cpu \in Cpus \cup {Nadie},
           hilo'[h].cpu \in Cpus \/ hilo'[h].pc = "libre"
    PROVE  TiposHilos'
<1>1. PP' = PP
  BY DEF PP
<1> QED BY <1>1 DEF TiposHilos, SoloHilo, Ocupado

\* The steps of a thread.
LEMMA HiloTipos ==
    ASSUME IInv, TiposHilos, NEW h \in Hilos, Hilo(h)
    PROVE  TiposHilos'
<1>1. programa' = programa
  BY DEF Hilo, HiloAsigna, HiloEspera, HiloAtiende, HiloLibera, HiloBorra, SaleExit, SaleIo, SaleDesalojo
<1>2. CASE \E x : Pasa(h, x) /\ Ocupado(h)
  <2>1. SoloHilo(h) /\ hilo'[h].cpu = hilo[h].cpu /\ hilo'[h].proc = hilo[h].proc /\ Ocupado(h)
    BY <1>2, PasaSolo DEF IInv
  <2> QED BY <1>1, <2>1, HilosSiguen DEF TiposHilos
<1>3. CASE \E m : hilo' = [hilo EXCEPT ![h].pc = "libera", ![h].motivo = m] /\ Ocupado(h)
  <2>1. SoloHilo(h) /\ hilo'[h].cpu = hilo[h].cpu /\ hilo'[h].proc = hilo[h].proc /\ Ocupado(h)
    BY <1>3 DEF IInv, Tipos, Campos, SoloHilo
  <2> QED BY <1>1, <2>1, HilosSiguen DEF TiposHilos
<1>4. CASE hilo' = [hilo EXCEPT ![h] = HiloLibre]
  BY <1>1, <1>4, TerminaSolo, HilosSiguen DEF IInv
<1>5. CASE HiloAtiende(h)
  BY <1>2, <1>3, <1>5 DEF HiloAtiende, En, Ocupado
<1>6. CASE HiloAsigna(h) \/ HiloEspera(h) \/ HiloLibera(h) \/ HiloBorra(h)
  BY <1>2, <1>6 DEF HiloAsigna, HiloEspera, HiloLibera, HiloBorra, En, Ocupado
<1>7. CASE SaleExit(h) \/ SaleIo(h) \/ SaleDesalojo(h)
  BY <1>4, <1>7 DEF SaleExit, SaleIo, SaleDesalojo
<1> QED BY <1>5, <1>6, <1>7 DEF Hilo

\* The thread that the planner creates has a process and a CPU.
LEMMA DespachaHilo ==
    ASSUME IInv, TiposHilos, NEW h \in Hilos, PlaniDespacha(h)
    PROVE  TiposHilos'
<1>1. /\ plani.pc = "despacha" /\ ~caido /\ programa' = programa
      /\ hilo' = [hilo EXCEPT ![h] = [HiloLibre EXCEPT !.pc = "asigna", !.proc = Head(ready), !.cpu = plani.cpu]]
  BY DEF PlaniDespacha, Sigue
<1>2. Head(ready) \in PP
  BY <1>1, PlaniTienePrimero
<1>3. plani.cpu \in Cpus
  BY <1>1 DEF IInv, UnDuenio, Tipos
<1>4. SoloHilo(h) /\ hilo'[h].proc = Head(ready) /\ hilo'[h].cpu = plani.cpu
  BY <1>1 DEF IInv, Tipos, HiloLibre, SoloHilo
<1> QED BY <1>1, <1>2, <1>3, <1>4, HilosSiguen

\* A step with no thread.
LEMMA HilosIguales ==
    ASSUME TiposHilos, programa' = programa, hilo' = hilo
    PROVE  TiposHilos'
<1>1. PP' = PP
  BY DEF PP
<1> QED BY <1>1 DEF TiposHilos, Ocupado

\* Threads keep their types.
LEMMA NextHilos ==
    ASSUME IInv, TiposHilos, [Next]_vars
    PROVE  TiposHilos'
<1>1. CASE UNCHANGED vars
  BY <1>1, HilosIguales DEF vars
<1>2. ASSUME NEW p \in Procs, TransicionarAReady(p) PROVE TiposHilos'
  BY <1>2, HilosIguales DEF TransicionarAReady
<1>3. CASE Planificador
  <2>1. CASE \E h \in Hilos : PlaniDespacha(h)
    BY <2>1, DespachaHilo
  <2>2. CASE ~\E h \in Hilos : PlaniDespacha(h)
    <3>1. programa' = programa /\ hilo' = hilo
      BY <1>3, <2>2, PlaniDejaHilos
    <3> QED BY <3>1, HilosIguales
  <2> QED BY <2>1, <2>2
<1>4. ASSUME NEW h \in Hilos, Hilo(h) PROVE TiposHilos'
  BY <1>4, HiloTipos
<1>5. ASSUME NEW c \in Cpus, ConectarCpu(c) \/ Ciclo(c) \/ LlegaInterrupcion(c) PROVE TiposHilos'
  <2>1. programa' = programa /\ hilo' = hilo
    BY <1>5 DEF ConectarCpu, Ciclo, CpuSolicita, CpuRecibeProceso, CpuNoop, CpuSyscall, CpuRecibeSyscall, CpuAcepta,
                CpuSigue, CpuRecibeDesalojo, LlegaInterrupcion, kernelVars
  <2> QED BY <2>1, HilosIguales
<1> QED BY <1>1, <1>2, <1>3, <1>4, <1>5 DEF Next

\* The scalars that a step may change: each one has its type when it comes from
\* where the code takes it.
LEMMA DatosSiguen ==
    ASSUME programa \in Programas, programa' = programa, algoritmo \in Algoritmos, algoritmo' = algoritmo,
           caido' \in BOOLEAN, exec' \subseteq PP, salieron' \subseteq PP, est' \in [PP -> Estimaciones],
           cpusLibres' \in Nat, replanificar' \in Nat, ejecutando' \in [Cpus -> PP \cup {Nadie, Basura}]
    PROVE  TiposDatos'
<1>1. PP' = PP
  BY DEF PP
<1> QED BY <1>1 DEF TiposDatos

\* Estimates are naturals, and what is left of one is an estimate.
LEMMA EstimacionesNat == Estimaciones \subseteq Nat /\ \A e \in Estimaciones : 0 .. e \subseteq Estimaciones
  BY CortoPlazoAssumption DEF Estimaciones

\* A new estimate.
LEMMA EstTipos ==
    ASSUME est \in [PP -> Estimaciones], NEW p \in PP, NEW e \in Estimaciones, est' = [est EXCEPT ![p] = e]
    PROVE  est' \in [PP -> Estimaciones]
  OBVIOUS

\* A step that leaves the data alone.
LEMMA DatosIguales ==
    ASSUME TiposDatos, UNCHANGED <<programa, algoritmo, exec, salieron, est, ejecutando>>,
           caido' \in BOOLEAN, cpusLibres' \in Nat, replanificar' \in Nat
    PROVE  TiposDatos'
  BY DatosSiguen DEF TiposDatos

\* What the planner writes.
LEMMA PlanificadorDatos ==
    ASSUME IInv, TiposDatos, TiposPlani, Planificador
    PROVE  TiposDatos'
<1>1. CASE PlaniDespierta
  <2>1. UNCHANGED <<programa, algoritmo, colas, est, ejecutando>> /\ EsperarSemaforos
    BY <1>1, Zenon DEF PlaniDespierta
  <2>2. caido' \in BOOLEAN
    BY <1>1, Zenon DEF PlaniDespierta
  <2>3. cpusLibres' \in Nat /\ replanificar' \in Nat
    BY <2>1 DEF EsperarSemaforos, TiposDatos
  <2> QED BY <2>1, <2>2, <2>3, DatosIguales DEF colas
<1>2. CASE PlaniCopia
  <2>1. UNCHANGED <<programa, algoritmo, exec, salieron, est, ejecutando, cpusLibres, replanificar>> /\ caido' = FALSE
    BY <1>2 DEF PlaniCopia, Sigue, colas, sems, instancias
  <2> QED BY <2>1, DatosIguales DEF TiposDatos
<1>3. CASE FrenaEscribe
  <2>1. /\ UNCHANGED <<programa, algoritmo, exec, salieron, ejecutando, cpusLibres, replanificar>>
        /\ plani.victima \in PP /\ plani.base \in Estimaciones
    BY <1>3 DEF FrenaEscribe, colas, sems, instancias, IInv, Tipos, TiposPlani
  <2>2. caido' \in BOOLEAN
    BY <1>3 DEF FrenaEscribe
  <2>3. est' \in [PP -> Estimaciones]
    <3>1. est \in [PP -> Estimaciones] /\ est[plani.victima] \in Estimaciones
      BY <2>1 DEF TiposDatos
    <3>2. 0 .. Mayor(plani.base, est[plani.victima]) \subseteq Estimaciones
      BY <2>1, <3>1, EstimacionesNat DEF Mayor
    <3> QED BY <1>3, <2>1, <3>1, <3>2, CorteGuardado
  <2> QED BY <2>1, <2>2, <2>3, DatosSiguen DEF TiposDatos
<1>9. CASE FrenaCarga
  <2>1. UNCHANGED <<programa, algoritmo, exec, salieron, est, ejecutando, cpusLibres, replanificar>>
    BY <1>9 DEF FrenaCarga, colas, sems, instancias
  <2>2. caido' \in BOOLEAN
    BY <1>9, Zenon DEF FrenaCarga
  <2> QED BY <2>1, <2>2, DatosIguales DEF TiposDatos
<1>4. CASE Elige
  <2>1. UNCHANGED <<programa, algoritmo, exec, salieron, est, ejecutando, cpusLibres, replanificar>>
    BY <1>4 DEF Elige, colas, sems, instancias
  <2>2. caido' \in BOOLEAN
    BY <1>4, Zenon DEF Elige
  <2> QED BY <2>1, <2>2, DatosIguales DEF TiposDatos
<1>5. ASSUME NEW h \in Hilos, PlaniDespacha(h) PROVE TiposDatos'
  <2>1. /\ UNCHANGED <<programa, algoritmo, salieron, est, ejecutando, replanificar>> /\ caido' = FALSE
        /\ plani.pc = "despacha" /\ ~caido /\ exec' = exec \cup {Head(ready)}
        /\ cpusLibres' = cpusLibres \/ cpusLibres' = cpusLibres + 1
    BY <1>5 DEF PlaniDespacha, Sigue, instancias
  <2>2. Head(ready) \in PP
    BY <2>1, PlaniTienePrimero
  <2>3. cpusLibres' \in Nat /\ exec' \subseteq PP
    BY <2>1, <2>2 DEF TiposDatos
  <2> QED BY <2>1, <2>3, DatosSiguen DEF TiposDatos
<1>6. ASSUME NEW c \in Cpus, FrenaMira(c) PROVE TiposDatos'
  <2>1. UNCHANGED <<programa, algoritmo, exec, salieron, est, ejecutando, cpusLibres, replanificar>> /\ caido' = FALSE
    BY <1>6 DEF FrenaMira, Sigue, colas, sems, instancias
  <2> QED BY <2>1, DatosIguales DEF TiposDatos
<1>7. ASSUME NEW c \in Cpus, Recorre(c) PROVE TiposDatos'
  <2>1. UNCHANGED <<programa, algoritmo, exec, salieron, est, ejecutando, cpusLibres, replanificar>>
    BY <1>7 DEF Recorre, colas, sems, instancias
  <2>2. caido' \in BOOLEAN
    BY <1>7, Zenon DEF Recorre
  <2> QED BY <2>1, <2>2, DatosIguales DEF TiposDatos
<1>8. ASSUME NEW c \in Cpus, Reanuda(c) PROVE TiposDatos'
  <2>1. /\ UNCHANGED <<programa, algoritmo, exec, salieron, est, ejecutando, replanificar>>
        /\ cpusLibres' = cpusLibres \/ cpusLibres' = cpusLibres + 1
    BY <1>8 DEF Reanuda, colas, sems, instancias
  <2>2. caido' \in BOOLEAN
    BY <1>8, Zenon DEF Reanuda
  <2> QED BY <2>1, <2>2, DatosIguales DEF TiposDatos
<1> QED BY <1>1, <1>2, <1>3, <1>4, <1>5, <1>6, <1>7, <1>8, <1>9 DEF Planificador

\* What a thread writes.
LEMMA HiloDatos ==
    ASSUME IInv, TiposDatos, NEW h \in Hilos, Hilo(h)
    PROVE  TiposDatos'
<1>1. UNCHANGED <<programa, algoritmo>> /\ caido' = FALSE /\ Ocupado(h)
  BY DEF Hilo, HiloAsigna, HiloEspera, HiloAtiende, HiloLibera, HiloBorra, SaleExit, SaleIo, SaleDesalojo, En, Sigue,
         Ocupado
<1>2. PICK p : p = hilo[h].proc
  OBVIOUS
<1>3. p \in PP
  BY <1>1, <1>2 DEF IInv, UnLugar
<1>4. CASE HiloAsigna(h)
  <2>1. /\ UNCHANGED <<exec, salieron, est, cpusLibres, replanificar>>
        /\ ejecutando' = [ejecutando EXCEPT ![hilo[h].cpu] = p]
    BY <1>2, <1>4 DEF HiloAsigna, colas, sems
  <2>2. ejecutando' \in [Cpus -> PP \cup {Nadie, Basura}]
    BY <2>1, <1>3 DEF TiposDatos
  <2> QED BY <1>1, <2>1, <2>2, DatosSiguen DEF TiposDatos
<1>5. CASE HiloEspera(h) \/ HiloLibera(h) \/ SaleExit(h)
  <2>1. UNCHANGED <<exec, salieron, est, ejecutando, cpusLibres, replanificar>>
    BY <1>5 DEF HiloEspera, HiloLibera, SaleExit, colas, sems, instancias
  <2> QED BY <1>1, <2>1, DatosIguales DEF TiposDatos
<1>6. CASE HiloAtiende(h)
  <2>1. /\ UNCHANGED <<est, ejecutando, cpusLibres, replanificar>>
        /\ exec' \subseteq exec /\ salieron' \subseteq salieron \cup {p}
    BY <1>2, <1>6 DEF HiloAtiende, sems, instancias
  <2> QED BY <1>1, <1>3, <2>1, DatosSiguen DEF TiposDatos
<1>7. CASE HiloBorra(h)
  <2>1. /\ UNCHANGED <<exec, salieron, est>>
        /\ ejecutando' = [ejecutando EXCEPT ![hilo[h].cpu] = Nadie]
        /\ cpusLibres' = cpusLibres \/ cpusLibres' = cpusLibres + 1
        /\ replanificar' = replanificar \/ replanificar' = replanificar + 1
    BY <1>7 DEF HiloBorra, colas
  <2>2. ejecutando' \in [Cpus -> PP \cup {Nadie, Basura}]
    BY <2>1 DEF TiposDatos
  <2>3. cpusLibres' \in Nat /\ replanificar' \in Nat
    BY <2>1 DEF TiposDatos
  <2> QED BY <1>1, <2>1, <2>2, <2>3, DatosSiguen DEF TiposDatos
<1>8. CASE SaleIo(h)
  <2>1. /\ UNCHANGED <<ejecutando, cpusLibres, replanificar>>
        /\ exec' \subseteq exec /\ salieron' \subseteq salieron \cup {p}
        /\ est' = est \/ \E e \in Estimaciones : est' = [est EXCEPT ![p] = e]
    BY <1>2, <1>8 DEF SaleIo, ProximaEstimacion, sems, instancias
  <2>2. est' \in [PP -> Estimaciones]
    BY <2>1, <1>3, EstTipos DEF TiposDatos
  <2> QED BY <1>1, <1>3, <2>1, <2>2, DatosSiguen DEF TiposDatos
<1>9. CASE SaleDesalojo(h)
  <2>1. /\ UNCHANGED <<salieron, ejecutando, cpusLibres, replanificar>> /\ exec' \subseteq exec
        /\ \E e \in Estimaciones : est' = [est EXCEPT ![p] = e]
    BY <1>2, <1>9 DEF SaleDesalojo, ProximaEstimacion, instancias
  <2>2. est' \in [PP -> Estimaciones]
    BY <2>1, <1>3, EstTipos DEF TiposDatos
  <2> QED BY <1>1, <2>1, <2>2, DatosSiguen DEF TiposDatos
<1> QED BY <1>4, <1>5, <1>6, <1>7, <1>8, <1>9 DEF Hilo

\* The data keep their types.
LEMMA NextDatos ==
    ASSUME IInv, TiposDatos, TiposPlani, [Next]_vars
    PROVE  TiposDatos'
<1>1. CASE UNCHANGED vars
  BY <1>1, DatosIguales DEF vars, colas, sems, instancias, TiposDatos
<1>2. ASSUME NEW p \in Procs, TransicionarAReady(p) PROVE TiposDatos'
  <2>1. /\ UNCHANGED <<programa, algoritmo, exec, salieron, est, ejecutando, cpusLibres>> /\ caido' = FALSE
        /\ replanificar' = replanificar \/ replanificar' = replanificar + 1
    BY <1>2 DEF TransicionarAReady, Sigue, instancias
  <2>2. cpusLibres' \in Nat /\ replanificar' \in Nat
    BY <2>1 DEF TiposDatos
  <2> QED BY <2>1, <2>2, DatosIguales
<1>3. CASE Planificador
  BY <1>3, PlanificadorDatos
<1>4. ASSUME NEW h \in Hilos, Hilo(h) PROVE TiposDatos'
  BY <1>4, HiloDatos
<1>5. ASSUME NEW c \in Cpus, ConectarCpu(c) PROVE TiposDatos'
  <2>1. /\ UNCHANGED <<programa, algoritmo, exec, salieron, est, ejecutando, replanificar>> /\ caido' = FALSE
        /\ cpusLibres' = cpusLibres + 1
    BY <1>5 DEF ConectarCpu, Sigue, colas
  <2>2. cpusLibres' \in Nat /\ replanificar' \in Nat
    BY <2>1 DEF TiposDatos
  <2> QED BY <2>1, <2>2, DatosIguales
<1>6. ASSUME NEW c \in Cpus, Ciclo(c) \/ LlegaInterrupcion(c) PROVE TiposDatos'
  <2>1. kernelVars' = kernelVars /\ caido' = FALSE
    BY <1>6 DEF Ciclo, CpuSolicita, CpuRecibeProceso, CpuNoop, CpuSyscall, CpuRecibeSyscall, CpuAcepta,
                CpuSigue, CpuRecibeDesalojo, LlegaInterrupcion, Sigue
  <2> QED BY <2>1, DatosIguales DEF TiposDatos, kernelVars, colas, sems, instancias
<1> QED BY <1>1, <1>2, <1>3, <1>4, <1>5, <1>6 DEF Next

\* At the beginning every CPU asks for a process and nobody waits.
LEMMA InitTipos == Init => TiposKernel /\ TiposCpu /\ Conversan
<1> SUFFICES ASSUME Init PROVE TiposKernel /\ TiposCpu /\ Conversan
  OBVIOUS
<1>1. \A h \in Hilos : hilo[h].pc = "libre" /\ hilo[h].proc = Nadie /\ hilo[h].cpu = Nadie
  BY DEF Init, HiloLibre
<1>2. est \in [PP -> Estimaciones]
  <2>1. est = [p \in PP |-> programa[p].est] /\ programa \in Programas
    BY DEF Init, PP
  <2>2. \A p \in PP : programa[p] \in [hace : SUBSET {"NOOP", "INIT_PROC", "IO"}, veces : Nat, est : Estimaciones]
    BY <2>1, CortoPlazoAssumption DEF PP
  <2>3. \A p \in PP : programa[p].est \in Estimaciones
    BY <2>2
  <2> QED BY <2>1, <2>3
<1>3. TiposDatos
  BY <1>2 DEF Init, TiposDatos
<1>4. TiposPlani
  BY CeroEstima DEF Init, Duerme, TiposPlani, PcsDePlani
<1>5. TiposHilos
  BY <1>1 DEF TiposHilos, Ocupado
<1>6. TiposCpu
  <2>1. /\ alKernel = [c \in Cpus |-> <<>>] /\ aCpu = [c \in Cpus |-> <<>>]
        /\ cpu = [c \in Cpus |-> [pc |-> "solicita", proc |-> Nadie, hayInterrupcion |-> FALSE,
                                  bloqueante |-> FALSE, solicitar |-> TRUE]]
    BY DEF Init
  <2>2. cpu \in [Cpus -> EstadoCpu]
    BY <2>1 DEF EstadoCpu, PcsDeCpu
  <2>3. alKernel \in [Cpus -> Seq(MsgCpu)] /\ aCpu \in [Cpus -> Seq(MsgKernel)]
    BY <2>1
  <2> QED BY <2>2, <2>3, TiposCpuPartes
<1>7. Conversan
  <2>1. \A c \in Cpus : cpu[c].pc = "solicita" /\ alKernel[c] = <<>> /\ aCpu[c] = <<>>
    BY DEF Init
  <2>2. \A h \in Hilos : ~Adeuda(h)
    BY <1>1 DEF Adeuda
  <2>3. \A c : ~Atendida(c) /\ ~Debe(c)
    BY <1>1, <2>2 DEF Atendida, Debe
  <2>4. UnaDeuda
    BY <2>2 DEF UnaDeuda
  <2> QED BY <2>1, <2>3, <2>4 DEF Conversan, Charla
<1> QED BY <1>3, <1>4, <1>5, <1>6, <1>7 DEF TiposKernel

\* The invariant with the types and the conversation.
LEMMA SpecTipos == Spec => []IInvTipos
<1>1. Init => IInvTipos
  BY InitInv, InitTipos DEF IInvTipos
<1>2. IInvTipos /\ [Next]_vars => IInvTipos'
  BY NextInv, NextDatos, NextPlani, NextHilos, NextConversa DEF IInvTipos, TiposKernel
<1> QED BY <1>1, <1>2, PTL DEF Spec

\* Neither socket of a CPU ever has more than two messages.
LEMMA PocosMensajes ==
    ASSUME TiposCpu, Conversan, NEW c \in Cpus
    PROVE  Len(alKernel[c]) <= 2 /\ Len(aCpu[c]) <= 2
<1>1. cpu[c].pc \in PcsDeCpu /\ Charla(c)
  BY DEF TiposCpu, Conversan
<1>2. /\ alKernel[c] = <<>> \/ Len(alKernel[c]) = 1 \/ Len(alKernel[c]) = 2
      /\ aCpu[c] = <<>> \/ Len(aCpu[c]) = 1
  BY <1>1 DEF Charla, Turno, Solo, PcsDeCpu
<1>3. /\ alKernel[c] = <<>> => Len(alKernel[c]) = 0
      /\ aCpu[c] = <<>> => Len(aCpu[c]) = 0
  BY EmptySeq
<1>4. Len(alKernel[c]) \in 0 .. 2 /\ Len(aCpu[c]) \in 0 .. 2
  <2>1. 0 \in 0 .. 2 /\ 1 \in 0 .. 2 /\ 2 \in 0 .. 2
    OBVIOUS
  <2> QED BY <2>1, <1>2, <1>3, Zenon
<1>5. \A n \in 0 .. 2 : n <= 2
  OBVIOUS
<1> QED BY <1>4, <1>5, Zenon

\* Every variable has its type.  That no socket holds more than two messages comes
\* from the whole conversation: whose turn it is, thread by thread and CPU by CPU.
THEOREM SpecTypeOK == Spec => []TypeOK
<1>1. IInvTipos => TypeOK
  <2> SUFFICES ASSUME IInvTipos PROVE TypeOK
    OBVIOUS
  <2>1. IInv /\ TiposDatos /\ TiposPlani /\ TiposHilos /\ TiposCpu /\ Conversan
    BY DEF IInvTipos, TiposKernel
  <2>2. PP \subseteq Procs
    BY <2>1, CortoPlazoAssumption DEF TiposDatos, PP
  <2>3. /\ ready \in Seq(Procs) /\ exec \subseteq Procs /\ fuera \subseteq Procs /\ salieron \subseteq Procs
    <3>1. ready \in Seq(PP) /\ \A p \in fuera : p \in PP
      BY <2>1 DEF IInv, Tipos, UnLugar
    <3>2. ready \in Seq(Procs)
      BY <2>2, <3>1
    <3> QED BY <2>1, <2>2, <3>1, <3>2 DEF TiposDatos
  <2>4. /\ algoritmo \in Algoritmos /\ est \in [DOMAIN programa -> Estimaciones]
        /\ {enReady, cpusLibres, replanificar} \subseteq Nat /\ caido \in BOOLEAN
    BY <2>1 DEF IInv, Tipos, TiposDatos, PP
  <2>5. /\ plani.pc \in {"duerme", "despacha", "copia", "frena", "resta", "escribe", "recorre", "elige", "reanuda"}
        /\ plani.cpu \in Cpus \cup {Nadie} /\ plani.proc \in Procs \cup {Nadie} /\ plani.faltan \subseteq conectadas
        /\ plani.victima \in Procs \cup {Nadie} /\ plani.base \in Estimaciones
    BY <2>1, <2>2 DEF TiposPlani, PcsDePlani
  <2>6. \A h \in Hilos : hilo[h].proc \in Procs \cup {Nadie} /\ hilo[h].cpu \in Cpus \cup {Nadie}
    BY <2>1, <2>2 DEF TiposHilos
  <2>7. conectadas \subseteq Cpus /\ puedeUsarse \in [Cpus -> BOOLEAN]
    BY <2>1 DEF IInv, Tipos
  <2>8. ejecutando \in [Cpus -> Procs \cup {Nadie, Basura}]
    BY <2>1, <2>2 DEF TiposDatos
  <2>9. \A c \in Cpus : Len(alKernel[c]) <= 2 /\ Len(aCpu[c]) <= 2 /\ cpu[c].proc \in Procs \cup {Nadie}
    <3> SUFFICES ASSUME NEW c \in Cpus
                 PROVE  Len(alKernel[c]) <= 2 /\ Len(aCpu[c]) <= 2 /\ cpu[c].proc \in Procs \cup {Nadie}
      OBVIOUS
    <3>1. cpu[c].proc \in PP \cup {Nadie}
      BY <2>1 DEF TiposCpu
    <3> QED BY <2>1, <2>2, <3>1, PocosMensajes
  <2> QED BY <2>3, <2>4, <2>5, <2>6, <2>7, <2>8, <2>9 DEF TypeOK
<1> QED BY <1>1, SpecTipos, PTL

-----------------------------------------------------------------------------
(* REPLANIFICAR, with preemption: the rest of the inductive invariant.       *)

\* Some program ran an instruction.
Gastado == restan # Veces
Gasto ==
    /\ restan \in [PP -> Int]
    /\ \A p \in PP : restan[p] <= programa[p].veces

\* A process was dispatched: from then on no CPU connects (Tarde is FALSE).
Comenzo == exec # {} \/ salieron # {} \/ Gastado

\* Who leaves EXEC for another queue than EXIT ran an instruction first: until one
\* did, CPUs say that they are ready and that their process ended, and no more.
OpsPrevias == {"CPU_LISTA", "EXIT"}
MsgPrevio == [op : OpsPrevias, proc : PP \cup {Nadie}]
Previo ==
    /\ \A c \in Cpus : /\ cpu[c].pc \in {"chequea", "esperaSyscall"} => cpu[c].bloqueante
                       /\ alKernel[c] \in Seq(MsgPrevio)
    /\ \A h \in Hilos : hilo[h].motivo \in OpsPrevias
VaGastado == Gastado \/ Previo

\* Until a process is dispatched every CPU is free, or the planner took it.
SinUso ==
    /\ cpusLibres > 0 \/ plani.pc # "duerme" => conectadas # {}
    /\ \A c \in conectadas : puedeUsarse[c] \/ plani.pc = "despacha" \/ Comenzo
    /\ plani.pc \notin {"duerme", "despacha"} => Comenzo

Borran == HilosEn({"borra"})
Avisos == replanificar + Cardinality(Borran)
PorDespachar == Len(ready) - (IF plani.pc = "despacha" THEN 1 ELSE 0)
Desalojos == {h \in Hilos : hilo[h].pc \in {"borra", "sale"} /\ hilo[h].motivo = "DESALOJO_ACEPTADO"}

\* There is a post for each CPU that is free; or one for each process of READY, and
\* for each one that is on its way back to it.
Alcanza ==
    \/ Comenzo /\ Cardinality(CpusUsables) <= Avisos
    \/ PorDespachar + Cardinality(Desalojos) <= Avisos

IInvAvisos == IInvTipos /\ Gasto /\ VaGastado /\ (ConDesalojo => SinUso /\ (~caido => Alcanza))

-----------------------------------------------------------------------------
(* What was run never comes back.                                          *)

\* How many instructions each program has.
LEMMA VecesTipo ==
    ASSUME programa \in Programas
    PROVE  /\ Veces \in [PP -> Nat]
           /\ \A p \in PP : programa[p].veces \in Nat /\ Veces[p] = programa[p].veces
<1>1. \A p \in PP : programa[p] \in [hace : SUBSET {"NOOP", "INIT_PROC", "IO"}, veces : Nat, est : Estimaciones]
  BY CortoPlazoAssumption DEF PP
<1>2. \A p \in PP : programa[p].veces \in Nat
  BY <1>1
<1> QED BY <1>2 DEF Veces, PP

\* An instruction is taken off a program.
Resta(p) == restan' = [restan EXCEPT ![p] = @ - 1]

\* One instruction less: from now on the program ran.
LEMMA GastoSigue ==
    ASSUME Gasto, programa \in Programas, programa' = programa,
           restan' = restan \/ \E p \in PP : Resta(p)
    PROVE  /\ Gasto' /\ (Gastado => Gastado')
           /\ (\E p \in PP : Resta(p)) => Gastado'
<1>1. PP' = PP /\ Veces' = Veces
  BY DEF PP, Veces
<1>2. Veces \in [PP -> Nat] /\ \A p \in PP : programa[p].veces \in Nat /\ Veces[p] = programa[p].veces
  BY VecesTipo
<1>3. CASE restan' = restan /\ ~\E p \in PP : Resta(p)
  BY <1>1, <1>3 DEF Gasto, Gastado
<1>4. ASSUME NEW p \in PP, Resta(p) PROVE Gasto' /\ Gastado'
  <2>1. restan \in [PP -> Int] /\ restan[p] \in Int /\ restan[p] <= programa[p].veces
    BY DEF Gasto
  <2>2. restan' \in [PP -> Int] /\ restan'[p] = restan[p] - 1 /\ \A q \in PP : q # p => restan'[q] = restan[q]
    BY <1>4, <2>1 DEF Resta
  <2>3. restan'[p] < programa[p].veces /\ restan'[p] <= programa[p].veces
    BY <1>2, <2>1, <2>2
  <2>4. Gasto'
    BY <1>1, <2>2, <2>3 DEF Gasto
  <2>5. restan'[p] # Veces[p]
    BY <1>2, <2>2, <2>3
  <2> QED BY <1>1, <2>4, <2>5 DEF Gastado
<1> QED BY <1>3, <1>4

\* A CPU goes on and sends nothing.
LEMMA PrevioIgual ==
    ASSUME Previo, NEW c \in Cpus, PP' = PP, hilo' = hilo,
           \A d \in Cpus : d # c => cpu'[d] = cpu[d] /\ alKernel'[d] = alKernel[d],
           cpu'[c].pc \in {"chequea", "esperaSyscall"} => cpu'[c].bloqueante,
           alKernel'[c] \in Seq(MsgPrevio)
    PROVE  Previo'
<1>1. MsgPrevio' = MsgPrevio
  BY DEF MsgPrevio
<1> QED BY <1>1 DEF Previo

\* Nothing of what Previo says changes.
LEMMA PrevioQuieto ==
    ASSUME Previo, programa' = programa, alKernel' = alKernel, cpu' = cpu,
           \A h \in Hilos : hilo'[h].motivo \in OpsPrevias
    PROVE  Previo'
<1>1. MsgPrevio' = MsgPrevio
  BY DEF MsgPrevio, PP
<1> QED BY <1>1 DEF Previo

\* The instruction cycle: what it runs, and what it says.
LEMMA CicloGasta ==
    ASSUME IInvTipos, Gasto, VaGastado, NEW c \in Cpus, Ciclo(c) \/ LlegaInterrupcion(c)
    PROVE  Gasto' /\ VaGastado' /\ (Gastado => Gastado')
<1>1. /\ programa \in Programas /\ TiposCpu /\ Charla(c)
      /\ cpu \in [Cpus -> EstadoCpu] /\ alKernel \in [Cpus -> Seq(MsgCpu)]
  BY TiposCpuPartes DEF IInvTipos, TiposKernel, TiposDatos, Conversan
<1>2. programa' = programa /\ hilo' = hilo /\ PP' = PP
  BY DEF Ciclo, CpuSolicita, CpuRecibeProceso, CpuNoop, CpuSyscall, CpuRecibeSyscall, CpuAcepta,
         CpuSigue, CpuRecibeDesalojo, LlegaInterrupcion, kernelVars, PP
<1>r. ASSUME restan' = restan, Previo => Previo' PROVE Gasto' /\ VaGastado' /\ (Gastado => Gastado')
  BY <1>r, <1>1, <1>2, GastoSigue DEF VaGastado
<1>g. ASSUME NEW p \in PP, Resta(p) PROVE Gasto' /\ VaGastado' /\ (Gastado => Gastado')
  BY <1>g, <1>1, <1>2, GastoSigue DEF VaGastado
<1>m. ASSUME NEW op \in OpsPrevias, EnviarAlKernel(c, op), Previo
      PROVE  alKernel'[c] \in Seq(MsgPrevio) /\ \A d \in Cpus : d # c => alKernel'[d] = alKernel[d]
  <2>1. PICK m : m = Mensaje(op, cpu[c].proc)
    OBVIOUS
  <2>2. m \in MsgPrevio
    BY <1>1, <1>m, <2>1 DEF MsgPrevio, Mensaje, EstadoCpu
  <2>3. alKernel[c] \in Seq(MsgPrevio)
    BY <1>m DEF Previo
  <2>4. Append(alKernel[c], m) \in Seq(MsgPrevio)
    BY <2>2, <2>3, AppendProperties
  <2>5. alKernel' = [alKernel EXCEPT ![c] = Append(@, m)]
    BY <1>m, <2>1 DEF EnviarAlKernel
  <2> QED BY <1>1, <2>4, <2>5
<1>q. ASSUME alKernel' = alKernel, Previo
      PROVE  alKernel'[c] \in Seq(MsgPrevio) /\ \A d \in Cpus : d # c => alKernel'[d] = alKernel[d]
  BY <1>q DEF Previo
<1>o. {"CPU_LISTA", "EXIT"} \subseteq OpsPrevias
  BY DEF OpsPrevias
<1>3. CASE CpuSolicita(c)
  <2>1. restan' = restan /\ EnviarAlKernel(c, "CPU_LISTA")
    BY <1>3 DEF CpuSolicita
  <2>2. cpu'[c].pc = "esperaProceso" /\ \A d \in Cpus : d # c => cpu'[d] = cpu[d]
    BY <1>1, <1>3 DEF CpuSolicita, EstadoCpu
  <2> QED BY <1>2, <1>m, <1>o, <1>r, <2>1, <2>2, PrevioIgual
<1>4. CASE CpuRecibeProceso(c)
  <2>1. restan' = restan /\ alKernel' = alKernel
    BY <1>4 DEF CpuRecibeProceso
  <2>2. cpu'[c].pc \in {"ejecuta", "desfasada"} /\ \A d \in Cpus : d # c => cpu'[d] = cpu[d]
    BY <1>1, <1>4 DEF CpuRecibeProceso, EstadoCpu
  <2> QED BY <1>2, <1>q, <1>r, <2>1, <2>2, PrevioIgual
<1>5. CASE CpuNoop(c)
  <2>1. cpu[c].pc = "ejecuta" /\ Resta(cpu[c].proc)
    BY <1>5 DEF CpuNoop, Resta
  <2>2. cpu[c].proc \in PP
    BY <1>1, <2>1 DEF Charla
  <2> QED BY <1>g, <2>1, <2>2
<1>6. ASSUME NEW op \in {"INIT_PROC", "IO", "EXIT"}, CpuSyscall(c, op)
      PROVE  Gasto' /\ VaGastado' /\ (Gastado => Gastado')
  <2>1. CASE op # "EXIT"
    <3>1. cpu[c].pc = "ejecuta" /\ Resta(cpu[c].proc)
      BY <1>6, <2>1 DEF CpuSyscall, Resta
    <3>2. cpu[c].proc \in PP
      BY <1>1, <3>1 DEF Charla
    <3> QED BY <1>g, <3>1, <3>2
  <2>2. CASE op = "EXIT"
    <3>1. restan' = restan /\ EnviarAlKernel(c, "EXIT")
      BY <1>6, <2>2 DEF CpuSyscall
    <3>2. cpu' = [cpu EXCEPT ![c].pc = "esperaSyscall", ![c].solicitar = TRUE, ![c].bloqueante = @ \/ op # "INIT_PROC"]
      BY <1>6, <2>2 DEF CpuSyscall
    <3>3. (cpu[c].bloqueante \/ op # "INIT_PROC") = TRUE
      BY <2>2
    <3>4. cpu' = [cpu EXCEPT ![c].pc = "esperaSyscall", ![c].solicitar = TRUE, ![c].bloqueante = TRUE]
      BY <3>2, <3>3
    <3>5. cpu'[c].bloqueante /\ \A d \in Cpus : d # c => cpu'[d] = cpu[d]
      BY <1>1, <3>4 DEF EstadoCpu
    <3> QED BY <1>2, <1>m, <1>o, <1>r, <3>1, <3>5, PrevioIgual
  <2> QED BY <2>1, <2>2
<1>7. CASE CpuRecibeSyscall(c)
  <2>1. restan' = restan /\ alKernel' = alKernel /\ cpu[c].pc = "esperaSyscall"
    BY <1>7 DEF CpuRecibeSyscall
  <2>2. PICK x : cpu' = [cpu EXCEPT ![c].pc = x]
    BY <1>7 DEF CpuRecibeSyscall
  <2>3. cpu'[c].bloqueante = cpu[c].bloqueante /\ \A d \in Cpus : d # c => cpu'[d] = cpu[d]
    BY <1>1, <2>2 DEF EstadoCpu
  <2>4. Previo => cpu'[c].bloqueante
    BY <2>1, <2>3 DEF Previo
  <2> QED BY <1>2, <1>q, <1>r, <2>1, <2>3, <2>4, PrevioIgual
<1>8. CASE CpuAcepta(c)
  <2>1. restan' = restan /\ cpu[c].pc = "chequea" /\ ~cpu[c].bloqueante
    BY <1>8 DEF CpuAcepta
  <2>2. ~Previo
    BY <2>1 DEF Previo
  <2> QED BY <1>r, <2>1, <2>2
<1>9. CASE CpuSigue(c)
  <2>1. restan' = restan /\ alKernel' = alKernel
    BY <1>9 DEF CpuSigue, sockets
  <2>2. PICK x \in {"solicita", "ejecuta"} :
             \E b : cpu' = [cpu EXCEPT ![c].pc = x, ![c].hayInterrupcion = FALSE, ![c].bloqueante = b]
    BY <1>9 DEF CpuSigue, Vuelta
  <2>3. cpu'[c].pc = x /\ \A d \in Cpus : d # c => cpu'[d] = cpu[d]
    BY <1>1, <2>2 DEF EstadoCpu
  <2> QED BY <1>2, <1>q, <1>r, <2>1, <2>3, PrevioIgual
<1>10. CASE CpuRecibeDesalojo(c)
  <2>1. restan' = restan /\ alKernel' = alKernel
    BY <1>10 DEF CpuRecibeDesalojo
  <2>2. PICK x \in {"solicita", "desfasada"} : cpu' = [cpu EXCEPT ![c].pc = x]
    BY <1>10 DEF CpuRecibeDesalojo
  <2>3. cpu'[c].pc = x /\ \A d \in Cpus : d # c => cpu'[d] = cpu[d]
    BY <1>1, <2>2 DEF EstadoCpu
  <2> QED BY <1>2, <1>q, <1>r, <2>1, <2>3, PrevioIgual
<1>11. CASE LlegaInterrupcion(c)
  <2>1. restan' = restan /\ alKernel' = alKernel
    BY <1>11 DEF LlegaInterrupcion
  <2>2. /\ cpu'[c].pc = cpu[c].pc /\ cpu'[c].bloqueante = cpu[c].bloqueante
        /\ \A d \in Cpus : d # c => cpu'[d] = cpu[d]
    BY <1>1, <1>11 DEF LlegaInterrupcion, EstadoCpu
  <2>3. Previo => (cpu'[c].pc \in {"chequea", "esperaSyscall"} => cpu'[c].bloqueante)
    BY <2>2 DEF Previo
  <2> QED BY <1>2, <1>q, <1>r, <2>1, <2>2, <2>3, PrevioIgual
<1> QED BY <1>3, <1>4, <1>5, <1>6, <1>7, <1>8, <1>9, <1>10, <1>11 DEF Ciclo

\* The threads.
LEMMA HiloGasta ==
    ASSUME IInvTipos, Gasto, VaGastado, NEW h \in Hilos, Hilo(h)
    PROVE  Gasto' /\ VaGastado' /\ (Gastado => Gastado')
<1>1. programa \in Programas /\ TiposCpu /\ IInv /\ alKernel \in [Cpus -> Seq(MsgCpu)]
  BY TiposCpuPartes DEF IInvTipos, TiposKernel, TiposDatos
<1>2. programa' = programa /\ restan' = restan /\ cpu' = cpu
  BY DEF Hilo, HiloAsigna, HiloEspera, HiloAtiende, HiloLibera, HiloBorra, SaleExit, SaleIo, SaleDesalojo
<1>3. ASSUME Previo => Previo' PROVE Gasto' /\ VaGastado' /\ (Gastado => Gastado')
  BY <1>1, <1>2, <1>3, GastoSigue DEF VaGastado
<1>t. ASSUME Previo, alKernel' = alKernel
             \/ (alKernel[hilo[h].cpu] # <<>> /\ alKernel' = [alKernel EXCEPT ![hilo[h].cpu] = Tail(@)]),
             SoloHilo(h), hilo'[h].motivo \in OpsPrevias
      PROVE  Previo'
  <2>1. MsgPrevio' = MsgPrevio
    BY <1>2 DEF MsgPrevio, PP
  <2>2. \A c \in Cpus : alKernel'[c] \in Seq(MsgPrevio)
    <3>1. CASE alKernel' = alKernel
      BY <1>t, <3>1 DEF Previo
    <3>2. ASSUME NEW c, c = hilo[h].cpu, alKernel[c] # <<>>, alKernel' = [alKernel EXCEPT ![c] = Tail(@)]
          PROVE  \A d \in Cpus : alKernel'[d] \in Seq(MsgPrevio)
      <4>1. ASSUME c \in Cpus PROVE Tail(alKernel[c]) \in Seq(MsgPrevio)
        <5>1. alKernel[c] \in Seq(MsgPrevio)
          BY <1>t, <4>1 DEF Previo
        <5> QED BY <3>2, <5>1, QuitarTipo
      <4>2. \A d \in Cpus : alKernel[d] \in Seq(MsgPrevio)
        BY <1>t DEF Previo
      <4> QED BY <1>1, <3>2, <4>1, <4>2
    <3> QED BY <1>t, <3>1, <3>2
  <2>3. \A g \in Hilos : hilo'[g].motivo \in OpsPrevias
    BY <1>t DEF Previo, SoloHilo
  <2> QED BY <1>2, <1>t, <2>1, <2>2, <2>3 DEF Previo
<1>4. CASE HiloAsigna(h) \/ HiloLibera(h) \/ HiloBorra(h) \/ HiloEspera(h)
  <2>1. PICK x : Pasa(h, x)
    BY <1>4 DEF HiloAsigna, HiloLibera, HiloBorra, HiloEspera
  <2>2. SoloHilo(h) /\ hilo'[h].motivo = hilo[h].motivo
    BY <1>1, <2>1, PasaSolo DEF IInv
  <2>3. \/ alKernel' = alKernel
        \/ alKernel[hilo[h].cpu] # <<>> /\ alKernel' = [alKernel EXCEPT ![hilo[h].cpu] = Tail(@)]
    BY <1>4 DEF HiloAsigna, HiloLibera, HiloBorra, HiloEspera, sockets
  <2>4. Previo => hilo'[h].motivo \in OpsPrevias
    BY <2>2 DEF Previo
  <2> QED BY <1>3, <1>t, <2>2, <2>3, <2>4
<1>5. CASE SaleExit(h) \/ SaleIo(h) \/ SaleDesalojo(h)
  <2>1. hilo' = [hilo EXCEPT ![h] = HiloLibre] /\ alKernel' = alKernel
    BY <1>5 DEF SaleExit, SaleIo, SaleDesalojo, sockets
  <2>2. SoloHilo(h) /\ hilo'[h].motivo \in OpsPrevias
    BY <1>1, <2>1, TerminaSolo DEF IInv, OpsPrevias
  <2> QED BY <1>3, <1>t, <2>1, <2>2
<1>6. CASE HiloAtiende(h)
  <2>1. PICK c, m : c = hilo[h].cpu /\ m = Head(alKernel[c]).op
    OBVIOUS
  <2>2. /\ hilo[h].pc = "atiende" /\ alKernel[c] # <<>> /\ alKernel' = [alKernel EXCEPT ![c] = Tail(@)]
        /\ m = "INIT_PROC" => Pasa(h, "espera")
        /\ m # "INIT_PROC" => hilo' = [hilo EXCEPT ![h].pc = "libera", ![h].motivo = m]
    BY <1>6, <2>1 DEF HiloAtiende, En
  <2>3. c \in Cpus
    BY <1>1, <2>1, <2>2, SoloSuHilo DEF ConCpu
  <2>4. Previo => m \in OpsPrevias
    <3>1. Previo => alKernel[c] \in Seq(MsgPrevio)
      BY <2>3 DEF Previo
    <3>2. Previo => Head(alKernel[c]) \in MsgPrevio
      BY <2>2, <3>1, QuitarTipo
    <3> QED BY <2>1, <3>2 DEF MsgPrevio
  <2>5. SoloHilo(h) /\ (hilo'[h].motivo = hilo[h].motivo \/ hilo'[h].motivo = m)
    <3>1. CASE m = "INIT_PROC"
      BY <1>1, <2>2, <3>1, PasaSolo DEF IInv
    <3>2. CASE m # "INIT_PROC"
      BY <1>1, <2>2, <3>2 DEF IInv, Tipos, Campos, SoloHilo
    <3> QED BY <3>1, <3>2
  <2>6. Previo => hilo'[h].motivo \in OpsPrevias
    BY <2>4, <2>5 DEF Previo
  <2> QED BY <1>3, <1>t, <2>1, <2>2, <2>5, <2>6
<1> QED BY <1>4, <1>5, <1>6 DEF Hilo

\* Programs only run forward, and until one runs messages are CPU_LISTA and EXIT.
LEMMA NextGasta ==
    ASSUME IInvTipos, Gasto, VaGastado, [Next]_vars
    PROVE  Gasto' /\ VaGastado' /\ (Gastado => Gastado')
<1>1. programa \in Programas /\ IInv
  BY DEF IInvTipos, TiposKernel, TiposDatos
<1>2. ASSUME programa' = programa, restan' = restan, alKernel' = alKernel, cpu' = cpu,
             Previo => \A h \in Hilos : hilo'[h].motivo \in OpsPrevias
      PROVE  Gasto' /\ VaGastado' /\ (Gastado => Gastado')
  BY <1>1, <1>2, GastoSigue, PrevioQuieto DEF VaGastado
<1>q. hilo' = hilo => (Previo => \A h \in Hilos : hilo'[h].motivo \in OpsPrevias)
  BY DEF Previo
<1>3. CASE UNCHANGED vars
  BY <1>2, <1>3, <1>q DEF vars, sockets
<1>4. ASSUME NEW p \in Procs, TransicionarAReady(p) PROVE Gasto' /\ VaGastado' /\ (Gastado => Gastado')
  BY <1>2, <1>4, <1>q DEF TransicionarAReady, sockets
<1>5. CASE Planificador
  <2>1. CASE hilo' = hilo
    BY <1>2, <1>5, <1>q, <2>1, PlaniDejaHilos
  <2>2. ASSUME NEW h \in Hilos, PlaniDespacha(h) PROVE Previo => \A g \in Hilos : hilo'[g].motivo \in OpsPrevias
    <3>1. hilo' = [hilo EXCEPT ![h] = [HiloLibre EXCEPT !.pc = "asigna", !.proc = Head(ready), !.cpu = plani.cpu]]
      BY <2>2 DEF PlaniDespacha
    <3>2. SoloHilo(h) /\ hilo'[h].motivo = "EXIT"
      BY <1>1, <3>1 DEF IInv, Tipos, HiloLibre, SoloHilo
    <3> QED BY <3>2 DEF Previo, SoloHilo, OpsPrevias
  <2> QED BY <1>2, <1>5, <2>1, <2>2, PlaniDejaHilos
<1>6. ASSUME NEW h \in Hilos, Hilo(h) PROVE Gasto' /\ VaGastado' /\ (Gastado => Gastado')
  BY <1>6, HiloGasta
<1>7. ASSUME NEW c \in Cpus, ConectarCpu(c) PROVE Gasto' /\ VaGastado' /\ (Gastado => Gastado')
  BY <1>2, <1>7, <1>q DEF ConectarCpu, sockets
<1>8. ASSUME NEW c \in Cpus, Ciclo(c) \/ LlegaInterrupcion(c) PROVE Gasto' /\ VaGastado' /\ (Gastado => Gastado')
  BY <1>8, CicloGasta
<1> QED BY <1>3, <1>4, <1>5, <1>6, <1>7, <1>8 DEF Next

\* Once a process was dispatched, it is in EXEC, or ended, or ran an instruction.
LEMMA ComenzoSigue ==
    ASSUME IInvTipos, Gasto, VaGastado, [Next]_vars
    PROVE  Comenzo => Comenzo'
<1>1. Gastado => Gastado'
  BY NextGasta
<1>2. \A h \in Hilos : hilo[h].motivo \in {"IO", "DESALOJO_ACEPTADO"} => Gastado
  BY DEF VaGastado, Previo, OpsPrevias
<1>q. exec' = exec /\ salieron' = salieron => (Comenzo => Comenzo')
  BY <1>1 DEF Comenzo
<1>3. CASE UNCHANGED vars
  BY <1>3, <1>q DEF vars, colas
<1>4. ASSUME NEW p \in Procs, TransicionarAReady(p) PROVE Comenzo => Comenzo'
  BY <1>4, <1>q DEF TransicionarAReady
<1>5. CASE Planificador
  <2>1. ASSUME NEW h \in Hilos, PlaniDespacha(h) PROVE Comenzo'
    <3>1. Head(ready) \in exec'
      BY <2>1 DEF PlaniDespacha
    <3> QED BY <3>1 DEF Comenzo
  <2> QED BY <1>5, <1>q, <2>1, PlaniDejaHilos
<1>6. ASSUME NEW h \in Hilos, Hilo(h) PROVE Comenzo => Comenzo'
  <2>1. CASE HiloAsigna(h) \/ HiloEspera(h) \/ HiloLibera(h) \/ HiloBorra(h) \/ SaleExit(h)
    BY <1>q, <2>1 DEF HiloAsigna, HiloEspera, HiloLibera, HiloBorra, SaleExit, colas
  <2>2. CASE HiloAtiende(h)
    <3>1. hilo[h].proc \in salieron' \/ (exec' = exec /\ salieron' = salieron)
      BY <2>2 DEF HiloAtiende
    <3> QED BY <1>q, <3>1 DEF Comenzo
  <2>3. CASE SaleIo(h) \/ SaleDesalojo(h)
    <3>1. Gastado'
      BY <1>1, <1>2, <2>3 DEF SaleIo, SaleDesalojo
    <3> QED BY <3>1 DEF Comenzo
  <2> QED BY <1>6, <2>1, <2>2, <2>3 DEF Hilo
<1>7. ASSUME NEW c \in Cpus, ConectarCpu(c) PROVE Comenzo => Comenzo'
  BY <1>7, <1>q DEF ConectarCpu, colas
<1>8. ASSUME NEW c \in Cpus, Ciclo(c) \/ LlegaInterrupcion(c) PROVE Comenzo => Comenzo'
  BY <1>8, <1>q DEF Ciclo, CpuSolicita, CpuRecibeProceso, CpuNoop, CpuSyscall, CpuRecibeSyscall, CpuAcepta,
                    CpuSigue, CpuRecibeDesalojo, LlegaInterrupcion, kernelVars, colas
<1> QED BY <1>3, <1>4, <1>5, <1>6, <1>7, <1>8 DEF Next

-----------------------------------------------------------------------------
(* CPUs that nobody used yet.                                              *)

\* A step that takes no CPU.
LEMMA SinUsoQuieto ==
    ASSUME SinUso, Comenzo => Comenzo', conectadas' = conectadas,
           \A c \in conectadas : puedeUsarse[c] => puedeUsarse'[c],
           cpusLibres' > 0 \/ plani'.pc # "duerme" => cpusLibres > 0 \/ plani.pc # "duerme",
           plani.pc = "despacha" => plani'.pc = "despacha" \/ Comenzo',
           plani'.pc \notin {"duerme", "despacha"} => plani.pc \notin {"duerme", "despacha"}
    PROVE  SinUso'
  BY DEF SinUso

\* Until a process is dispatched every CPU is free.
LEMMA SinUsoSigue ==
    ASSUME IInvTipos, Gasto, VaGastado, ConDesalojo, SinUso, ~Tarde, [Next]_vars
    PROVE  SinUso'
<1>1. Comenzo => Comenzo'
  BY ComenzoSigue
<1>2. IInv /\ cpusLibres \in Nat /\ plani.pc \in PcsDePlani
  BY DEF IInvTipos, TiposKernel, TiposDatos, TiposPlani
<1>q. UNCHANGED <<cpusLibres, plani, conectadas, puedeUsarse>> => SinUso'
  BY <1>1, SinUsoQuieto
<1>3. CASE UNCHANGED vars
  BY <1>3, <1>q DEF vars, sems, instancias
<1>4. ASSUME NEW p \in Procs, TransicionarAReady(p) PROVE SinUso'
  BY <1>4, <1>q DEF TransicionarAReady, instancias
<1>5. CASE PlaniDespierta
  <2>1. /\ conectadas # {} /\ conectadas' = conectadas /\ plani.pc = "duerme"
        /\ \A c \in conectadas : puedeUsarse[c] \/ Comenzo
    <3>1. plani.pc = "duerme" /\ EsperarSemaforos /\ conectadas' = conectadas
      BY <1>5, Zenon DEF PlaniDespierta
    <3>2. cpusLibres > 0
      BY <3>1 DEF EsperarSemaforos
    <3> QED BY <3>1, <3>2 DEF SinUso
  <2>2. CASE \E c \in Cpus : plani' = [Duerme EXCEPT !.pc = "despacha", !.cpu = c]
    <3>1. plani'.pc = "despacha"
      BY <2>2 DEF Duerme
    <3> QED BY <2>1, <3>1 DEF SinUso
  <2>3. CASE CpusUsables = {} /\ plani' = [Duerme EXCEPT !.pc = "copia"]
    <3>1. Comenzo
      BY <2>1, <2>3 DEF CpusUsables
    <3> QED BY <2>1, <1>1, <3>1 DEF SinUso
  <2> QED BY <1>5, <2>2, <2>3, Zenon DEF PlaniDespierta
<1>6. ASSUME NEW h \in Hilos, PlaniDespacha(h) PROVE SinUso'
  <2>1. Head(ready) \in exec' /\ conectadas' = conectadas /\ plani.pc = "despacha" /\ plani' = Duerme
    BY <1>6 DEF PlaniDespacha, instancias
  <2>2. Comenzo' /\ conectadas # {} /\ plani'.pc = "duerme"
    BY <2>1 DEF Comenzo, SinUso, Duerme
  <2> QED BY <2>1, <2>2 DEF SinUso
<1>7. CASE plani.pc \notin {"duerme", "despacha"} /\ conectadas' = conectadas /\ puedeUsarse' = puedeUsarse
  <2>1. Comenzo /\ conectadas # {}
    BY <1>7 DEF SinUso
  <2> QED BY <1>1, <1>7, <2>1 DEF SinUso
<1>8. CASE PlaniCopia \/ FrenaCarga \/ FrenaEscribe \/ Elige
  BY <1>7, <1>8 DEF PlaniCopia, FrenaCarga, FrenaEscribe, Elige, instancias
<1>9. ASSUME NEW c \in Cpus, FrenaMira(c) \/ Recorre(c) \/ Reanuda(c) PROVE SinUso'
  BY <1>7, <1>9 DEF FrenaMira, Recorre, Reanuda, instancias
<1>10. ASSUME NEW h \in Hilos, Hilo(h) PROVE SinUso'
  <2>1. UNCHANGED <<plani, conectadas, cpusLibres>>
    BY <1>10 DEF Hilo, HiloAsigna, HiloEspera, HiloAtiende, HiloLibera, HiloBorra, SaleExit, SaleIo, SaleDesalojo,
                 instancias, sems
  <2>2. \A c \in Cpus : puedeUsarse[c] => puedeUsarse'[c]
    <3>1. CASE HiloLibera(h)
      BY <1>2, <3>1 DEF HiloLibera, IInv, Tipos
    <3>2. CASE ~HiloLibera(h)
      BY <1>10, <3>2 DEF Hilo, HiloAsigna, HiloEspera, HiloAtiende, HiloBorra, SaleExit, SaleIo, SaleDesalojo, instancias
    <3> QED BY <3>1, <3>2
  <2>3. conectadas \subseteq Cpus
    BY <1>2 DEF IInv, Tipos
  <2> QED BY <1>1, <2>1, <2>2, <2>3, SinUsoQuieto
<1>11. ASSUME NEW c \in Cpus, ConectarCpu(c) PROVE SinUso'
  <2>1. /\ plani' = plani /\ conectadas' = conectadas \cup {c}
        /\ puedeUsarse' = [puedeUsarse EXCEPT ![c] = TRUE]
    BY <1>11 DEF ConectarCpu
  <2>2. puedeUsarse'[c] /\ \A d \in conectadas : puedeUsarse[d] => puedeUsarse'[d]
    BY <1>2, <2>1 DEF IInv, Tipos
  <2> QED BY <1>1, <2>1, <2>2 DEF SinUso
<1>12. ASSUME NEW c \in Cpus, Ciclo(c) \/ LlegaInterrupcion(c) PROVE SinUso'
  <2>1. kernelVars' = kernelVars
    BY <1>12 DEF Ciclo, CpuSolicita, CpuRecibeProceso, CpuNoop, CpuSyscall, CpuRecibeSyscall, CpuAcepta,
                CpuSigue, CpuRecibeDesalojo, LlegaInterrupcion
  <2> QED BY <1>q, <2>1 DEF kernelVars, sems, instancias
<1> QED BY <1>3, <1>4, <1>5, <1>6, <1>8, <1>9, <1>10, <1>11, <1>12 DEF Next, Planificador

-----------------------------------------------------------------------------
(* The posts are enough.                                                   *)

\* What is counted.
Contadas ==
    /\ Cardinality(CpusUsables) \in Nat /\ IsFiniteSet(CpusUsables)
    /\ Cardinality(Borran) \in Nat /\ IsFiniteSet(Borran)
    /\ Cardinality(Desalojos) \in Nat /\ IsFiniteSet(Desalojos)
    /\ replanificar \in Nat /\ Len(ready) \in Nat
    /\ Avisos \in Nat /\ PorDespachar \in Int

\* CPUs, threads, posts and READY are counted with naturals.
LEMMA Cuentas == IInvTipos => Contadas
<1> SUFFICES ASSUME IInvTipos PROVE Contadas
  OBVIOUS
<1>1. CpusUsables \subseteq Cpus
  BY DEF CpusUsables, IInvTipos, IInv, Tipos
<1>2. Borran \subseteq Hilos /\ Desalojos \subseteq Hilos
  BY DEF Borran, Desalojos, HilosEn
<1>3. IsFiniteSet(CpusUsables) /\ IsFiniteSet(Borran) /\ IsFiniteSet(Desalojos)
  BY <1>1, <1>2, CortoPlazoAssumption, FS_Subset
<1>4. replanificar \in Nat /\ ready \in Seq(PP)
  BY DEF IInvTipos, TiposKernel, TiposDatos, IInv, Tipos
<1>5. Len(ready) \in Nat
  BY <1>4
<1>6. Cardinality(CpusUsables) \in Nat /\ Cardinality(Borran) \in Nat /\ Cardinality(Desalojos) \in Nat
  BY <1>3, FS_CardinalityType
<1>7. Avisos \in Nat
  BY <1>4, <1>6 DEF Avisos
<1>8. PorDespachar \in Int
  <2>1. PICK e \in {0, 1} : e = (IF plani.pc = "despacha" THEN 1 ELSE 0)
    OBVIOUS
  <2>2. PorDespachar = Len(ready) - e
    BY <2>1 DEF PorDespachar
  <2> QED BY <1>5, <2>1, <2>2
<1> QED BY <1>3, <1>4, <1>5, <1>6, <1>7, <1>8 DEF Contadas

\* ... and after a step.
LEMMA CuentasLuego == IInvTipos' => Contadas'
  BY Cuentas, PTL

\* u, d: free CPUs and preemptions; a, q: posts and READY.
LEMMA AlcanzaCuenta ==
    ASSUME NEW u \in Nat, NEW d \in Nat, NEW a \in Nat, NEW q \in Int,
           NEW u1 \in Nat, NEW d1 \in Nat, NEW a1 \in Nat, NEW q1 \in Int,
           u1 - a1 <= u - a, q1 + d1 - a1 <= q + d - a
    PROVE  (u <= a => u1 <= a1) /\ (q + d <= a => q1 + d1 <= a1)
  OBVIOUS

\* Neither free CPUs, nor processes that are or will be in READY, grow more than posts.
LEMMA AlcanzaSigue ==
    ASSUME IInvTipos, IInvTipos', Alcanza, Comenzo => Comenzo',
           NEW du \in Int, NEW dd \in Int, NEW da \in Int, NEW dq \in Int,
           Cardinality(CpusUsables)' <= Cardinality(CpusUsables) + du,
           Cardinality(Desalojos)' <= Cardinality(Desalojos) + dd,
           Avisos' = Avisos + da, PorDespachar' = PorDespachar + dq,
           du <= da, dq + dd <= da
    PROVE  Alcanza'
<1>1. Contadas /\ Contadas'
  BY Cuentas, CuentasLuego
<1>2. PICK u, d, a, q, u1, d1, a1, q1 :
        /\ u = Cardinality(CpusUsables) /\ d = Cardinality(Desalojos) /\ a = Avisos /\ q = PorDespachar
        /\ u1 = Cardinality(CpusUsables)' /\ d1 = Cardinality(Desalojos)' /\ a1 = Avisos' /\ q1 = PorDespachar'
  OBVIOUS
<1>3. u \in Nat /\ d \in Nat /\ a \in Nat /\ q \in Int /\ u1 \in Nat /\ d1 \in Nat /\ a1 \in Nat /\ q1 \in Int
  BY <1>1, <1>2 DEF Contadas
<1>4. u1 <= u + du /\ d1 <= d + dd /\ a1 = a + da /\ q1 = q + dq
  BY <1>2
<1>5. u1 - a1 <= u - a /\ q1 + d1 - a1 <= q + d - a
  BY <1>3, <1>4
<1>6. (u <= a => u1 <= a1) /\ (q + d <= a => q1 + d1 <= a1)
  BY <1>3, <1>5, AlcanzaCuenta
<1>7. (Comenzo /\ u <= a) \/ q + d <= a
  BY <1>2 DEF Alcanza
<1>8. (Comenzo' /\ u1 <= a1) \/ q1 + d1 <= a1
  BY <1>6, <1>7
<1> QED BY <1>2, <1>8 DEF Alcanza

\* A step that leaves alone what is counted.
LEMMA AlcanzaQuieto ==
    ASSUME Alcanza, Comenzo => Comenzo', CpusUsables' = CpusUsables, Borran' = Borran, Desalojos' = Desalojos,
           replanificar' = replanificar, PorDespachar' = PorDespachar
    PROVE  Alcanza'
  BY DEF Alcanza, Avisos

\* The same CPUs are free.
LEMMA UsablesQuietas ==
    ASSUME conectadas' = conectadas, puedeUsarse' = puedeUsarse
    PROVE  CpusUsables' = CpusUsables
  BY DEF CpusUsables

\* The same processes are in READY.
LEMMA PorDespacharQuieto ==
    ASSUME ready' = ready, plani'.pc = "despacha" <=> plani.pc = "despacha"
    PROVE  PorDespachar' = PorDespachar
  BY DEF PorDespachar

\* Threads that leave, or a thread that has not begun to.
LEMMA HilosQueNoCuentan ==
    ASSUME NEW h \in Hilos, SoloHilo(h), hilo[h].pc \notin {"borra", "sale"}, hilo'[h].pc \notin {"borra", "sale"}
    PROVE  Borran' = Borran /\ Desalojos' = Desalojos
  BY DEF SoloHilo, Borran, HilosEn, Desalojos

\* No thread moves.
LEMMA HilosQuietosCuentan ==
    ASSUME hilo' = hilo
    PROVE  Borran' = Borran /\ Desalojos' = Desalojos
  BY DEF Borran, HilosEn, Desalojos

\* The planner wakes up: with a CPU, it takes a post and a process; with none, no
\* CPU was free.
LEMMA PlaniDespiertaAlcanza ==
    ASSUME IInvTipos, IInvTipos', ConDesalojo, SinUso, Alcanza, Comenzo => Comenzo', PlaniDespierta
    PROVE  Alcanza'
<1>1. plani.pc = "duerme" /\ ready' = ready /\ conectadas' = conectadas /\ hilo' = hilo
  <2>1. plani.pc = "duerme" /\ UNCHANGED <<algoritmo, programa, colas, est, hilo, conectadas, ejecutando, sockets, cpu, restan>>
    BY Zenon DEF PlaniDespierta
  <2> QED BY <2>1 DEF colas
<1>2. cpusLibres > 0 /\ replanificar' = replanificar - 1
  <2>1. EsperarSemaforos
    BY Zenon DEF PlaniDespierta
  <2> QED BY <2>1 DEF EsperarSemaforos
<1>3. \/ \E c \in Cpus : BuscarCpuLibre(c) /\ plani' = [Duerme EXCEPT !.pc = "despacha", !.cpu = c]
      \/ CpusUsables = {} /\ puedeUsarse' = puedeUsarse
  BY Zenon DEF PlaniDespierta
<1>4. Borran' = Borran /\ Desalojos' = Desalojos
  BY <1>1, HilosQuietosCuentan
<1>5. Contadas /\ Contadas'
  BY Cuentas, CuentasLuego
<1>6. ASSUME NEW c \in Cpus, BuscarCpuLibre(c), plani' = [Duerme EXCEPT !.pc = "despacha", !.cpu = c]
      PROVE  Alcanza'
  <2>1. c \in CpusUsables /\ CpusUsables' = CpusUsables \ {c}
    <3>1. c \in CpusUsables /\ puedeUsarse' = [puedeUsarse EXCEPT ![c] = FALSE]
      BY <1>6 DEF BuscarCpuLibre
    <3>2. conectadas \subseteq Cpus /\ puedeUsarse \in [Cpus -> BOOLEAN]
      BY DEF IInvTipos, IInv, Tipos
    <3> QED BY <1>1, <3>1, <3>2 DEF CpusUsables
  <2>2. Cardinality(CpusUsables)' = Cardinality(CpusUsables) - 1
    BY <1>5, <2>1, FS_RemoveElement DEF Contadas
  <2>3. PorDespachar' = PorDespachar - 1
    <3>1. plani'.pc = "despacha"
      BY <1>6 DEF Duerme
    <3>2. PorDespachar = Len(ready) - 0
      BY <1>1 DEF PorDespachar
    <3>3. PorDespachar' = Len(ready) - 1
      BY <1>1, <3>1 DEF PorDespachar
    <3>4. Len(ready) \in Nat
      BY <1>5 DEF Contadas
    <3> QED BY <3>2, <3>3, <3>4
  <2>4. Avisos' = Avisos - 1
    <3>1. Avisos' = replanificar' + Cardinality(Borran)
      BY <1>4 DEF Avisos
    <3>2. replanificar \in Nat /\ Cardinality(Borran) \in Nat
      BY <1>5 DEF Contadas
    <3> QED BY <1>2, <3>1, <3>2 DEF Avisos
  <2>5. PICK m \in Int : m = 0 - 1
    OBVIOUS
  <2>6. Cardinality(CpusUsables)' <= Cardinality(CpusUsables) + m
    <3>1. PICK u, u1 : u = Cardinality(CpusUsables) /\ u1 = Cardinality(CpusUsables)'
      OBVIOUS
    <3>2. u \in Nat
      BY <1>5, <3>1 DEF Contadas
    <3>3. u1 = u - 1
      BY <2>2, <3>1
    <3>4. u1 <= u + m
      BY <2>5, <3>2, <3>3
    <3> QED BY <3>1, <3>4
  <2>7. Cardinality(Desalojos)' <= Cardinality(Desalojos) + 0
    <3>1. Cardinality(Desalojos)' = Cardinality(Desalojos) /\ Cardinality(Desalojos) \in Nat
      BY <1>4, <1>5 DEF Contadas
    <3> QED BY <3>1
  <2>8. Avisos' = Avisos + m /\ PorDespachar' = PorDespachar + m
    BY <1>5, <2>3, <2>4, <2>5 DEF Contadas
  <2>9. m <= m /\ m + 0 <= m
    BY <2>5
  <2> QED BY <2>6, <2>7, <2>8, <2>9, AlcanzaSigue
<1>7. CASE CpusUsables = {} /\ puedeUsarse' = puedeUsarse
  <2>1. CpusUsables' = {}
    BY <1>1, <1>7, UsablesQuietas
  <2>2. Cardinality(CpusUsables)' = 0
    BY <2>1, FS_EmptySet
  <2>3. 0 <= Avisos'
    BY <1>5 DEF Contadas
  <2>4. Comenzo
    <3>1. conectadas # {} /\ \A c \in conectadas : puedeUsarse[c] \/ Comenzo
      BY <1>1, <1>2 DEF SinUso
    <3> QED BY <1>7, <3>1 DEF CpusUsables
  <2> QED BY <2>2, <2>3, <2>4 DEF Alcanza
<1> QED BY <1>3, <1>6, <1>7, Zenon

\* The process and the CPU it takes were discounted already.
LEMMA PlaniDespachaAlcanza ==
    ASSUME IInvTipos, Alcanza, Comenzo => Comenzo', NEW h \in Hilos, PlaniDespacha(h)
    PROVE  Alcanza'
<1>1. /\ plani.pc = "despacha" /\ ~caido /\ plani' = Duerme /\ ready' = Tail(ready)
      /\ UNCHANGED <<conectadas, puedeUsarse, replanificar>> /\ hilo[h].pc = "libre"
  BY DEF PlaniDespacha, Sigue, instancias, HiloLibre
<1>2. hilo' = [hilo EXCEPT ![h] = [HiloLibre EXCEPT !.pc = "asigna", !.proc = Head(ready), !.cpu = plani.cpu]]
  BY DEF PlaniDespacha
<1>3. SoloHilo(h) /\ hilo'[h].pc = "asigna"
  BY <1>2 DEF IInvTipos, IInv, Tipos, SoloHilo, HiloLibre
<1>4. Borran' = Borran /\ Desalojos' = Desalojos
  BY <1>1, <1>3, HilosQueNoCuentan
<1>5. PorDespachar' = PorDespachar
  <2>1. ready # <<>> /\ ready \in Seq(PP)
    BY <1>1, PlaniTienePrimero DEF IInvTipos, IInv, Tipos
  <2>2. Len(ready) \in Nat /\ Len(ready') = Len(ready) - 1
    BY <1>1, <2>1, Sacado
  <2>3. PorDespachar = Len(ready) - 1 /\ PorDespachar' = Len(ready') - 0
    BY <1>1 DEF PorDespachar, Duerme
  <2> QED BY <2>2, <2>3
<1> QED BY <1>1, <1>4, <1>5, UsablesQuietas, AlcanzaQuieto

\* The rest of the planner only looks.
LEMMA PlaniMiraAlcanza ==
    ASSUME IInvTipos, Alcanza, Comenzo => Comenzo',
           UNCHANGED <<ready, hilo, conectadas, puedeUsarse, replanificar>>,
           plani.pc # "despacha", plani'.pc # "despacha"
    PROVE  Alcanza'
  BY UsablesQuietas, HilosQuietosCuentan, PorDespacharQuieto, AlcanzaQuieto

\* The loop does not dispatch.
LEMMA RecorridaPc ==
    ASSUME IInv, NEW c, NEW lazo, NEW luego, lazo # "despacha", luego # "despacha",
           plani' = Recorrida(c, lazo, luego)
    PROVE  plani'.pc # "despacha"
<1>1. DOMAIN plani = CamposPlani
  BY DEF IInv, Tipos
<1> QED BY <1>1 DEF Recorrida, Suelta, CamposPlani

\* The steps of the planner.
LEMMA PlanificadorAlcanza ==
    ASSUME IInvTipos, IInvTipos', ConDesalojo, SinUso, Alcanza, Comenzo => Comenzo', Planificador
    PROVE  Alcanza'
<1>1. IInv /\ DOMAIN plani = CamposPlani
  BY DEF IInvTipos, IInv, Tipos
<1>2. CASE PlaniDespierta
  BY <1>2, PlaniDespiertaAlcanza
<1>3. ASSUME NEW h \in Hilos, PlaniDespacha(h) PROVE Alcanza'
  BY <1>3, PlaniDespachaAlcanza
<1> USE DEF colas, sems, instancias
<1>4. CASE PlaniCopia
  <2>1. plani' = [plani EXCEPT !.pc = "frena", !.proc = Head(ready), !.faltan = conectadas]
    BY <1>4 DEF PlaniCopia
  <2>2. plani'.pc # "despacha"
    BY <1>1, <2>1 DEF CamposPlani
  <2>3. UNCHANGED <<ready, hilo, conectadas, puedeUsarse, replanificar>> /\ plani.pc # "despacha"
    BY <1>4 DEF PlaniCopia
  <2> QED BY <2>2, <2>3, PlaniMiraAlcanza
<1>5. CASE Elige
  <2>1. plani' = [plani EXCEPT !.pc = "reanuda", !.faltan = conectadas]
    BY <1>5 DEF Elige
  <2>2. plani'.pc # "despacha"
    BY <1>1, <2>1 DEF CamposPlani
  <2>3. UNCHANGED <<ready, hilo, conectadas, puedeUsarse, replanificar>> /\ plani.pc # "despacha"
    BY <1>5 DEF Elige
  <2> QED BY <2>2, <2>3, PlaniMiraAlcanza
<1>6. CASE FrenaCarga \/ FrenaEscribe
  <2>1. plani'.pc # "despacha"
    <3>1. CASE FrenaCarga
      BY <1>1, <3>1 DEF FrenaCarga, CamposPlani
    <3>2. CASE FrenaEscribe
      BY <1>1, <3>2, RecorridaPc DEF FrenaEscribe
    <3> QED BY <1>6, <3>1, <3>2
  <2>2. UNCHANGED <<ready, hilo, conectadas, puedeUsarse, replanificar>> /\ plani.pc # "despacha"
    BY <1>6 DEF FrenaCarga, FrenaEscribe
  <2> QED BY <2>1, <2>2, PlaniMiraAlcanza
<1>7. ASSUME NEW c \in Cpus, FrenaMira(c) PROVE Alcanza'
  <2>1. plani'.pc # "despacha"
    <3>1. CASE plani' = Recorrida(c, "frena", "recorre")
      BY <1>1, <3>1, RecorridaPc
    <3>2. CASE plani' = [plani EXCEPT !.pc = "resta", !.cpu = c]
      BY <1>1, <3>2 DEF CamposPlani
    <3> QED BY <1>7, <3>1, <3>2 DEF FrenaMira
  <2>2. UNCHANGED <<ready, hilo, conectadas, puedeUsarse, replanificar>> /\ plani.pc # "despacha"
    BY <1>7 DEF FrenaMira
  <2> QED BY <2>1, <2>2, PlaniMiraAlcanza
<1>8. ASSUME NEW c \in Cpus, Recorre(c) PROVE Alcanza'
  <2>1. plani'.pc # "despacha"
    <3>1. CASE plani' = Recorrida(c, "recorre", "reanuda")
      BY <1>1, <3>1, RecorridaPc
    <3>2. CASE plani' = [plani EXCEPT !.pc = "elige"]
      BY <1>1, <3>2 DEF CamposPlani
    <3> QED BY <1>8, <3>1, <3>2 DEF Recorre
  <2>2. UNCHANGED <<ready, hilo, conectadas, puedeUsarse, replanificar>> /\ plani.pc # "despacha"
    BY <1>8 DEF Recorre
  <2> QED BY <2>1, <2>2, PlaniMiraAlcanza
<1>9. ASSUME NEW c \in Cpus, Reanuda(c) PROVE Alcanza'
  <2>1. plani'.pc # "despacha"
    <3>1. CASE plani' = Recorrida(c, "reanuda", "reanuda")
      BY <1>1, <3>1, RecorridaPc
    <3>2. CASE plani' = Duerme
      BY <3>2 DEF Duerme
    <3> QED BY <1>9, <3>1, <3>2 DEF Reanuda
  <2>2. UNCHANGED <<ready, hilo, conectadas, puedeUsarse, replanificar>> /\ plani.pc # "despacha"
    BY <1>9 DEF Reanuda
  <2> QED BY <2>1, <2>2, PlaniMiraAlcanza
<1> QED BY <1>2, <1>3, <1>4, <1>5, <1>6, <1>7, <1>8, <1>9 DEF Planificador

\* A thread that neither frees its CPU nor leaves.
LEMMA HiloAlcanzaQuieto ==
    ASSUME Alcanza, Comenzo => Comenzo', NEW h \in Hilos, SoloHilo(h),
           hilo[h].pc \notin {"borra", "sale"}, hilo'[h].pc \notin {"borra", "sale"},
           UNCHANGED <<ready, plani, conectadas, puedeUsarse, replanificar>>
    PROVE  Alcanza'
  BY UsablesQuietas, HilosQueNoCuentan, PorDespacharQuieto, AlcanzaQuieto

\* A thread frees its CPU: from now on it owes a post.
LEMMA HiloLiberaAlcanza ==
    ASSUME IInvTipos, IInvTipos', Alcanza, Comenzo => Comenzo', NEW h \in Hilos, HiloLibera(h)
    PROVE  Alcanza'
<1>1. /\ En(h, "libera") /\ Pasa(h, "borra") /\ UNCHANGED <<ready, plani, conectadas, replanificar>>
      /\ puedeUsarse' = [puedeUsarse EXCEPT ![hilo[h].cpu] = TRUE]
  BY DEF HiloLibera, colas, sems
<1>2. SoloHilo(h) /\ hilo[h].pc = "libera" /\ hilo'[h].pc = "borra"
  BY <1>1, PasaSolo DEF IInvTipos, IInv, En
<1>3. Contadas /\ Contadas'
  BY Cuentas, CuentasLuego
<1>4. PICK c : c = hilo[h].cpu
  OBVIOUS
<1>5. Cardinality(CpusUsables)' <= Cardinality(CpusUsables) + 1
  <2>1. CpusUsables' \subseteq CpusUsables \cup {c}
    <3>1. puedeUsarse \in [Cpus -> BOOLEAN] /\ conectadas \subseteq Cpus
      BY DEF IInvTipos, IInv, Tipos
    <3> QED BY <1>1, <1>4, <3>1 DEF CpusUsables
  <2>2. PICK T, T1 : T = CpusUsables /\ T1 = CpusUsables'
    OBVIOUS
  <2>3. IsFiniteSet(T) /\ Cardinality(T) \in Nat /\ Cardinality(T1) \in Nat /\ T1 \subseteq T \cup {c}
    BY <1>3, <2>1, <2>2 DEF Contadas
  <2>4. IsFiniteSet(T \cup {c}) /\ Cardinality(T \cup {c}) = IF c \in T THEN Cardinality(T) ELSE Cardinality(T) + 1
    BY <2>3, FS_AddElement
  <2>5. Cardinality(T1) <= Cardinality(T \cup {c})
    BY <2>3, <2>4, FS_Subset
  <2>6. Cardinality(T1) <= Cardinality(T) + 1
    BY <2>3, <2>4, <2>5
  <2> QED BY <2>2, <2>6
<1>6. Cardinality(Borran)' = Cardinality(Borran) + 1
  <2>1. h \notin Borran /\ Borran' = Borran \cup {h}
    BY <1>2 DEF Borran, HilosEn, SoloHilo
  <2> QED BY <1>3, <2>1, FS_AddElement DEF Contadas
<1>7. Avisos' = Avisos + 1
  <2>1. replanificar \in Nat /\ Cardinality(Borran) \in Nat
    BY <1>3 DEF Contadas
  <2>2. Avisos' = replanificar + (Cardinality(Borran) + 1)
    BY <1>1, <1>6 DEF Avisos
  <2> QED BY <2>1, <2>2 DEF Avisos
<1>8. PorDespachar' = PorDespachar + 0
  <2>1. PorDespachar' = PorDespachar /\ PorDespachar \in Int
    BY <1>1, <1>3, PorDespacharQuieto DEF Contadas
  <2> QED BY <2>1
<1>9. Cardinality(Desalojos)' <= Cardinality(Desalojos) + 1
  <2>1. Desalojos' = Desalojos \/ (h \notin Desalojos /\ Desalojos' = Desalojos \cup {h})
    BY <1>2 DEF Desalojos, SoloHilo
  <2>2. IsFiniteSet(Desalojos) /\ Cardinality(Desalojos) \in Nat
    BY <1>3 DEF Contadas
  <2>3. Cardinality(Desalojos)' = Cardinality(Desalojos) \/ Cardinality(Desalojos)' = Cardinality(Desalojos) + 1
    BY <2>1, <2>2, FS_AddElement
  <2> QED BY <2>2, <2>3
<1>10. 1 <= 1 /\ 0 + 1 <= 1
  OBVIOUS
<1> QED BY <1>5, <1>7, <1>8, <1>9, <1>10, AlcanzaSigue

\* ... which it gives.
LEMMA HiloBorraAlcanza ==
    ASSUME IInvTipos, ConDesalojo, Alcanza, Comenzo => Comenzo', NEW h \in Hilos, HiloBorra(h)
    PROVE  Alcanza'
<1>1. /\ En(h, "borra") /\ Pasa(h, "sale") /\ UNCHANGED <<ready, plani, conectadas, puedeUsarse>>
      /\ replanificar' = replanificar + 1
  BY DEF HiloBorra, colas
<1>2. SoloHilo(h) /\ hilo[h].pc = "borra" /\ hilo'[h].pc = "sale" /\ hilo'[h].motivo = hilo[h].motivo
  BY <1>1, PasaSolo DEF IInvTipos, IInv, En
<1>3. Contadas
  BY Cuentas
<1>4. Desalojos' = Desalojos
  BY <1>2 DEF Desalojos, SoloHilo
<1>5. Cardinality(Borran)' = Cardinality(Borran) - 1
  <2>1. h \in Borran /\ Borran' = Borran \ {h}
    BY <1>2 DEF Borran, HilosEn, SoloHilo
  <2> QED BY <1>3, <2>1, FS_RemoveElement DEF Contadas
<1>6. Avisos' = Avisos
  <2>1. replanificar \in Nat /\ Cardinality(Borran) \in Nat
    BY <1>3 DEF Contadas
  <2>2. Avisos' = (replanificar + 1) + (Cardinality(Borran) - 1)
    BY <1>1, <1>5 DEF Avisos
  <2> QED BY <2>1, <2>2 DEF Avisos
<1>7. PorDespachar' = PorDespachar /\ CpusUsables' = CpusUsables
  BY <1>1, PorDespacharQuieto, UsablesQuietas
<1> QED BY <1>4, <1>6, <1>7 DEF Alcanza

\* A thread that leaves with no preemption.
LEMMA SaleAlcanza ==
    ASSUME IInvTipos, Alcanza, Comenzo => Comenzo', NEW h \in Hilos, SaleExit(h) \/ SaleIo(h)
    PROVE  Alcanza'
<1>1. /\ hilo[h].pc = "sale" /\ hilo[h].motivo # "DESALOJO_ACEPTADO" /\ hilo' = [hilo EXCEPT ![h] = HiloLibre]
      /\ UNCHANGED <<ready, plani, conectadas, puedeUsarse, replanificar>>
  BY DEF SaleExit, SaleIo, En, colas, sems, instancias
<1>2. SoloHilo(h) /\ hilo'[h].pc = "libre"
  BY <1>1, TerminaSolo DEF IInvTipos, IInv
<1>3. Borran' = Borran /\ Desalojos' = Desalojos
  BY <1>1, <1>2 DEF Borran, HilosEn, Desalojos, SoloHilo
<1> QED BY <1>1, <1>3, UsablesQuietas, PorDespacharQuieto, AlcanzaQuieto

\* A process that is preempted was counted before it gets to READY.
LEMMA SaleDesalojoAlcanza ==
    ASSUME IInvTipos, IInvTipos', Alcanza, Comenzo => Comenzo', NEW h \in Hilos, SaleDesalojo(h)
    PROVE  Alcanza'
<1>1. /\ hilo[h].pc = "sale" /\ hilo[h].motivo = "DESALOJO_ACEPTADO" /\ hilo' = [hilo EXCEPT ![h] = HiloLibre]
      /\ UNCHANGED <<plani, conectadas, puedeUsarse, replanificar>>
      /\ \E e \in ProximaEstimacion : ready' \in Ordenadas(hilo[h].proc, e)
  BY DEF SaleDesalojo, En, instancias
<1>2. SoloHilo(h) /\ hilo'[h].pc = "libre"
  BY <1>1, TerminaSolo DEF IInvTipos, IInv
<1>3. Contadas /\ Contadas'
  BY Cuentas, CuentasLuego
<1>4. Borran' = Borran /\ CpusUsables' = CpusUsables
  BY <1>1, <1>2, UsablesQuietas DEF Borran, HilosEn, SoloHilo
<1>5. Len(ready') = Len(ready) + 1
  <2>1. ready \in Seq(PP \cup {Nadie}) /\ hilo[h].proc \in PP \cup {Nadie}
    BY DEF IInvTipos, IInv, Tipos, TiposKernel, TiposHilos
  <2> QED BY <1>1, <2>1, Insertado
<1>6. PorDespachar' = PorDespachar + 1
  <2>1. PICK k \in {0, 1} : k = (IF plani.pc = "despacha" THEN 1 ELSE 0)
    OBVIOUS
  <2>2. PorDespachar = Len(ready) - k
    BY <2>1 DEF PorDespachar
  <2>3. PorDespachar' = Len(ready') - k
    BY <1>1, <2>1 DEF PorDespachar
  <2>4. Len(ready) \in Nat
    BY <1>3 DEF Contadas
  <2> QED BY <1>5, <2>1, <2>2, <2>3, <2>4
<1>7. Cardinality(Desalojos)' = Cardinality(Desalojos) - 1
  <2>1. h \in Desalojos /\ Desalojos' = Desalojos \ {h}
    BY <1>1, <1>2 DEF Desalojos, SoloHilo
  <2> QED BY <1>3, <2>1, FS_RemoveElement DEF Contadas
<1>8. PICK m \in Int : m = 0 - 1
  OBVIOUS
<1>9. Cardinality(Desalojos)' <= Cardinality(Desalojos) + m
  <2>1. PICK d, d1 : d = Cardinality(Desalojos) /\ d1 = Cardinality(Desalojos)'
    OBVIOUS
  <2>2. d \in Nat
    BY <1>3, <2>1 DEF Contadas
  <2>3. d1 = d - 1
    BY <1>7, <2>1
  <2>4. d1 <= d + m
    BY <1>8, <2>2, <2>3
  <2> QED BY <2>1, <2>4
<1>10. Cardinality(CpusUsables)' <= Cardinality(CpusUsables) + 0
  <2>1. Cardinality(CpusUsables) \in Nat /\ Cardinality(CpusUsables)' = Cardinality(CpusUsables)
    BY <1>3, <1>4 DEF Contadas
  <2> QED BY <2>1
<1>11. Avisos' = Avisos + 0
  <2>1. Avisos' = Avisos /\ Avisos \in Nat
    BY <1>1, <1>3, <1>4 DEF Avisos, Contadas
  <2> QED BY <2>1
<1>12. 0 <= 0 /\ 1 + m <= 0
  BY <1>8
<1> QED BY <1>6, <1>8, <1>9, <1>10, <1>11, <1>12, AlcanzaSigue

\* The steps of a thread.
LEMMA HiloAlcanza ==
    ASSUME IInvTipos, IInvTipos', ConDesalojo, Alcanza, Comenzo => Comenzo', NEW h \in Hilos, Hilo(h)
    PROVE  Alcanza'
<1>1. Tipos
  BY DEF IInvTipos, IInv
<1> USE DEF En, colas, sems, instancias
<1>2. CASE HiloAsigna(h)
  <2>1. hilo[h].pc = "asigna" /\ Pasa(h, "espera") /\ UNCHANGED <<ready, plani, conectadas, puedeUsarse, replanificar>>
    BY <1>2 DEF HiloAsigna
  <2> QED BY <1>1, <2>1, PasaSolo, HiloAlcanzaQuieto
<1>3. CASE HiloEspera(h)
  <2>1. hilo[h].pc = "espera" /\ UNCHANGED <<ready, plani, conectadas, puedeUsarse, replanificar>>
    BY <1>3 DEF HiloEspera
  <2>2. SoloHilo(h) /\ hilo'[h].pc \in {"atiende", "desfasado"}
    BY <1>1, <1>3, PasaSolo DEF HiloEspera
  <2> QED BY <2>1, <2>2, HiloAlcanzaQuieto
<1>4. CASE HiloAtiende(h)
  <2>1. hilo[h].pc = "atiende" /\ UNCHANGED <<ready, plani, conectadas, puedeUsarse, replanificar>>
    BY <1>4 DEF HiloAtiende
  <2>2. Pasa(h, "espera") \/ \E m : hilo' = [hilo EXCEPT ![h].pc = "libera", ![h].motivo = m]
    BY <1>4 DEF HiloAtiende
  <2>3. SoloHilo(h) /\ hilo'[h].pc \in {"espera", "libera"}
    <3>1. CASE Pasa(h, "espera")
      BY <1>1, <3>1, PasaSolo
    <3>2. CASE \E m : hilo' = [hilo EXCEPT ![h].pc = "libera", ![h].motivo = m]
      BY <1>1, <3>2 DEF Tipos, Campos, SoloHilo
    <3> QED BY <2>2, <3>1, <3>2
  <2> QED BY <2>1, <2>3, HiloAlcanzaQuieto
<1> QED BY <1>2, <1>3, <1>4, HiloLiberaAlcanza, HiloBorraAlcanza, SaleAlcanza, SaleDesalojoAlcanza DEF Hilo

\* REPLANIFICAR is posted when a process gets to READY.
LEMMA TransicionarAlcanza ==
    ASSUME IInvTipos, IInvTipos', ConDesalojo, Alcanza, Comenzo => Comenzo', NEW p \in Procs, TransicionarAReady(p)
    PROVE  Alcanza'
<1>1. /\ ready' \in Ordenadas(p, est[p]) /\ replanificar' = replanificar + 1
      /\ UNCHANGED <<plani, hilo, conectadas, puedeUsarse>>
  BY DEF TransicionarAReady, instancias
<1>2. Contadas /\ Contadas'
  BY Cuentas, CuentasLuego
<1>3. Borran' = Borran /\ Desalojos' = Desalojos /\ CpusUsables' = CpusUsables
  BY <1>1, HilosQuietosCuentan, UsablesQuietas
<1>4. Len(ready') = Len(ready) + 1
  <2>1. ready \in Seq(PP \cup {p})
    BY DEF IInvTipos, IInv, Tipos
  <2> QED BY <1>1, <2>1, Insertado
<1>5. PorDespachar' = PorDespachar + 1
  <2>1. PICK k \in {0, 1} : k = (IF plani.pc = "despacha" THEN 1 ELSE 0)
    OBVIOUS
  <2>2. PorDespachar = Len(ready) - k
    BY <2>1 DEF PorDespachar
  <2>3. PorDespachar' = Len(ready') - k
    BY <1>1, <2>1 DEF PorDespachar
  <2>4. Len(ready) \in Nat
    BY <1>2 DEF Contadas
  <2> QED BY <1>4, <2>1, <2>2, <2>3, <2>4
<1>6. Avisos' = Avisos + 1
  <2>1. replanificar \in Nat /\ Cardinality(Borran) \in Nat
    BY <1>2 DEF Contadas
  <2>2. Avisos' = (replanificar + 1) + Cardinality(Borran)
    BY <1>1, <1>3 DEF Avisos
  <2> QED BY <2>1, <2>2 DEF Avisos
<1>7. Cardinality(CpusUsables)' <= Cardinality(CpusUsables) + 0 /\ Cardinality(Desalojos)' <= Cardinality(Desalojos) + 0
  <2>1. Cardinality(CpusUsables)' = Cardinality(CpusUsables) /\ Cardinality(Desalojos)' = Cardinality(Desalojos)
    BY <1>3
  <2>2. Cardinality(CpusUsables) \in Nat /\ Cardinality(Desalojos) \in Nat
    BY <1>2 DEF Contadas
  <2> QED BY <2>1, <2>2
<1>8. 0 <= 1 /\ 1 + 0 <= 1
  OBVIOUS
<1> QED BY <1>5, <1>6, <1>7, <1>8, AlcanzaSigue

\* A CPU connects: no process was dispatched, so it is READY that is counted.
LEMMA ConectarAlcanza ==
    ASSUME ~Tarde, Alcanza, NEW c \in Cpus, ConectarCpu(c)
    PROVE  Alcanza'
<1>1. UNCHANGED <<plani, hilo, ready, replanificar>> /\ NadieEjecuto
  BY DEF ConectarCpu, colas
<1>2. ~Comenzo
  BY <1>1 DEF NadieEjecuto, Comenzo, Gastado
<1>3. PorDespachar + Cardinality(Desalojos) <= Avisos
  BY <1>2 DEF Alcanza
<1>4. PorDespachar' = PorDespachar /\ Avisos' = Avisos /\ Desalojos' = Desalojos
  BY <1>1, PorDespacharQuieto, HilosQuietosCuentan DEF Avisos
<1> QED BY <1>3, <1>4 DEF Alcanza

\* Every step keeps the posts enough.
LEMMA NextAvisos ==
    ASSUME IInvAvisos, IInvTipos', ~Tarde, [Next]_vars
    PROVE  IInvAvisos'
<1>1. IInvTipos /\ Gasto /\ VaGastado
  BY DEF IInvAvisos
<1>2. Gasto' /\ VaGastado' /\ (Comenzo => Comenzo')
  BY <1>1, NextGasta, ComenzoSigue
<1>3. ConDesalojo' => ConDesalojo
  <2>1. algoritmo' = algoritmo
    <3>1. CASE UNCHANGED vars
      BY <3>1 DEF vars
    <3>2. CASE Planificador
      BY <3>2, PlaniDejaHilos
    <3>3. ASSUME NEW p \in Procs, TransicionarAReady(p) PROVE algoritmo' = algoritmo
      BY <3>3 DEF TransicionarAReady
    <3>4. ASSUME NEW h \in Hilos, Hilo(h) PROVE algoritmo' = algoritmo
      BY <3>4 DEF Hilo, HiloAsigna, HiloEspera, HiloAtiende, HiloLibera, HiloBorra, SaleExit, SaleIo, SaleDesalojo
    <3>5. ASSUME NEW c \in Cpus, ConectarCpu(c) \/ Ciclo(c) \/ LlegaInterrupcion(c) PROVE algoritmo' = algoritmo
      BY <3>5 DEF ConectarCpu, Ciclo, CpuSolicita, CpuRecibeProceso, CpuNoop, CpuSyscall, CpuRecibeSyscall,
                  CpuAcepta, CpuSigue, CpuRecibeDesalojo, LlegaInterrupcion, kernelVars
    <3> QED BY <3>1, <3>2, <3>3, <3>4, <3>5 DEF Next
  <2> QED BY <2>1 DEF ConDesalojo
<1>4. ASSUME ConDesalojo PROVE SinUso'
  <2>1. SinUso
    BY <1>4 DEF IInvAvisos
  <2> QED BY <1>1, <1>4, <2>1, SinUsoSigue
<1>5. ~caido' => ~caido
  <2>1. CASE UNCHANGED vars
    BY <2>1 DEF vars
  <2>2. ASSUME NEW p \in Procs, TransicionarAReady(p) PROVE ~caido
    BY <2>2 DEF TransicionarAReady, Sigue
  <2>3. PlaniDespierta => ~caido
    BY Zenon DEF PlaniDespierta
  <2>4. PlaniCopia \/ FrenaCarga \/ FrenaEscribe \/ Elige => ~caido
    BY DEF PlaniCopia, FrenaCarga, FrenaEscribe, Elige, Sigue
  <2>5. ASSUME NEW h \in Hilos, PlaniDespacha(h) PROVE ~caido
    BY <2>5 DEF PlaniDespacha, Sigue
  <2>6. ASSUME NEW c \in Cpus, FrenaMira(c) \/ Recorre(c) \/ Reanuda(c) PROVE ~caido
    BY <2>6 DEF FrenaMira, Recorre, Reanuda, Sigue
  <2>7. ASSUME NEW h \in Hilos, Hilo(h) PROVE ~caido
    BY <2>7 DEF Hilo, HiloAsigna, HiloEspera, HiloAtiende, HiloLibera, HiloBorra, SaleExit, SaleIo, SaleDesalojo, Sigue
  <2>8. ASSUME NEW c \in Cpus, ConectarCpu(c) \/ Ciclo(c) \/ LlegaInterrupcion(c) PROVE ~caido
    BY <2>8 DEF ConectarCpu, Ciclo, CpuSolicita, CpuRecibeProceso, CpuNoop, CpuSyscall, CpuRecibeSyscall,
                CpuAcepta, CpuSigue, CpuRecibeDesalojo, LlegaInterrupcion, Sigue
  <2> QED BY <2>1, <2>2, <2>3, <2>4, <2>5, <2>6, <2>7, <2>8, Zenon DEF Next, Planificador
<1>6. ASSUME ConDesalojo, ~caido PROVE Alcanza'
  <2>1. SinUso /\ Alcanza
    BY <1>6 DEF IInvAvisos
  <2>q. UNCHANGED <<ready, hilo, plani, conectadas, puedeUsarse, replanificar>> => Alcanza'
    BY <1>2, <2>1, UsablesQuietas, HilosQuietosCuentan, PorDespacharQuieto, AlcanzaQuieto
  <2>2. CASE UNCHANGED vars
    BY <2>2, <2>q DEF vars, colas, sems, instancias
  <2>3. CASE Planificador
    BY <1>1, <1>2, <1>6, <2>1, <2>3, PlanificadorAlcanza
  <2>4. ASSUME NEW p \in Procs, TransicionarAReady(p) PROVE Alcanza'
    BY <1>1, <1>2, <1>6, <2>1, <2>4, TransicionarAlcanza
  <2>5. ASSUME NEW h \in Hilos, Hilo(h) PROVE Alcanza'
    BY <1>1, <1>2, <1>6, <2>1, <2>5, HiloAlcanza
  <2>6. ASSUME NEW c \in Cpus, ConectarCpu(c) PROVE Alcanza'
    BY <2>1, <2>6, ConectarAlcanza
  <2>7. ASSUME NEW c \in Cpus, Ciclo(c) \/ LlegaInterrupcion(c) PROVE Alcanza'
    BY <2>7, <2>q DEF Ciclo, CpuSolicita, CpuRecibeProceso, CpuNoop, CpuSyscall, CpuRecibeSyscall, CpuAcepta,
                      CpuSigue, CpuRecibeDesalojo, LlegaInterrupcion, kernelVars, colas, sems, instancias
  <2> QED BY <2>2, <2>3, <2>4, <2>5, <2>6, <2>7 DEF Next
<1> QED BY <1>2, <1>3, <1>4, <1>5, <1>6 DEF IInvAvisos

\* At the beginning there is nobody to take and no CPU.
LEMMA InitAvisos == Init => IInvAvisos
<1> SUFFICES ASSUME Init PROVE IInvAvisos
  OBVIOUS
<1>1. IInvTipos
  BY InitInv, InitTipos DEF IInvTipos
<1>2. \A h \in Hilos : hilo[h].pc = "libre" /\ hilo[h].motivo = "EXIT"
  BY DEF Init, HiloLibre
<1>3. Gasto
  <2>1. restan = Veces /\ programa \in Programas
    BY DEF Init
  <2>2. Veces \in [PP -> Nat] /\ \A p \in PP : programa[p].veces \in Nat /\ Veces[p] = programa[p].veces
    BY <2>1, VecesTipo
  <2>3. restan \in [PP -> Int]
    BY <2>1, <2>2
  <2>4. \A p \in PP : restan[p] <= programa[p].veces
    BY <2>1, <2>2
  <2> QED BY <2>3, <2>4 DEF Gasto
<1>4. Previo
  <2>1. \A c \in Cpus : cpu[c].pc = "solicita" /\ alKernel[c] = <<>>
    BY DEF Init
  <2>2. <<>> \in Seq(MsgPrevio)
    OBVIOUS
  <2>3. "EXIT" \in OpsPrevias
    BY DEF OpsPrevias
  <2> QED BY <1>2, <2>1, <2>2, <2>3 DEF Previo
<1>5. SinUso
  BY DEF Init, SinUso, Duerme
<1>6. Alcanza
  <2>1. Borran = {} /\ Desalojos = {}
    BY <1>2 DEF Borran, HilosEn, Desalojos
  <2>2. Cardinality(Borran) = 0 /\ Cardinality(Desalojos) = 0
    BY <2>1, FS_EmptySet
  <2>3. replanificar = 0 /\ Len(ready) = 0 /\ plani.pc = "duerme"
    BY EmptySeq DEF Init, Duerme
  <2>4. PorDespachar = 0 - 0
    BY <2>3 DEF PorDespachar
  <2>5. Avisos = 0 + 0
    BY <2>2, <2>3 DEF Avisos
  <2> QED BY <2>2, <2>4, <2>5 DEF Alcanza
<1> QED BY <1>1, <1>3, <1>4, <1>5, <1>6 DEF IInvAvisos, VaGastado

\* The invariant with the posts, when no CPU connects after processes ran.
LEMMA SpecAvisos == ASSUME ~Tarde PROVE Spec => []IInvAvisos
<1>1. Init => IInvAvisos
  BY InitAvisos
<1>2. IInvTipos' /\ IInvAvisos /\ [Next]_vars => IInvAvisos'
  BY NextAvisos, Zenon
<1> QED BY <1>1, <1>2, SpecTipos, PTL DEF Spec

\* With preemption, when no CPU connects after processes ran: a post of
\* REPLANIFICAR, given or about to be, for each process that a free CPU could take,
\* although a process that is preempted goes back to READY without one.  Either
\* the free CPUs have them all, or READY has: Alcanza.
THEOREM SpecReplanificarAlcanza == ASSUME ~Tarde PROVE Spec => []ReplanificarAlcanza
<1>1. IInvAvisos => ReplanificarAlcanza
  <2> SUFFICES ASSUME IInvAvisos, ConDesalojo, ~caido
               PROVE  Menor(PorDespachar, Cardinality(CpusUsables)) <= Avisos
    BY DEF ReplanificarAlcanza, PorDespachar, Avisos, Borran
  <2>1. Alcanza /\ Contadas
    BY Cuentas DEF IInvAvisos
  <2>2. PICK u, d, a, q : u = Cardinality(CpusUsables) /\ d = Cardinality(Desalojos) /\ a = Avisos /\ q = PorDespachar
    OBVIOUS
  <2>3. u \in Nat /\ d \in Nat /\ a \in Nat /\ q \in Int
    BY <2>1, <2>2 DEF Contadas
  <2>4. u <= a \/ q + d <= a
    BY <2>1, <2>2 DEF Alcanza
  <2>5. Menor(q, u) <= a
    BY <2>3, <2>4 DEF Menor
  <2> QED BY <2>2, <2>5
<1> QED BY <1>1, SpecAvisos, PTL

=============================================================================
