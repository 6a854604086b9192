\* Two processes of different sizes share a CPU with FIFO or LRU.
SPECIFICATION Spec
CONSTANTS
    p1 = p1
    p2 = p2
    p3 = p3
    Nadie = Nadie
    Procs = {p1, p3}
    Paginas <- PaginasVarias
    Marcos = 4
    Salidas = {"IO"}
    MaxAccesos = 4
    ENTRADAS_TLB = 3
    Reemplazos = {"FIFO", "LRU"}
    ENTRADAS_POR_TABLA = 2
    CANTIDAD_NIVELES = 2
    NrosPagina = {0, 1, 2, 3}
    NrosMarco = {0, 1, 2, 3}
INVARIANTS
    SinRepetidas
    ContadoresDistintos
    TablaCompleta
    TlbCoherente
PROPERTIES
    EsTlb
    CumpleReemplazo
\* Nothing is left to execute once every process ended.
CHECK_DEADLOCK FALSE
