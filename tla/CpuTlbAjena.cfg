\* Two processes alternate on a CPU.
SPECIFICATION Spec
CONSTANTS
    p1 = p1
    p2 = p2
    p3 = p3
    Nadie = Nadie
    Procs = {p2, p3}
    Paginas <- PaginasVarias
    Marcos = 3
    Salidas = {"IO"}
    MaxAccesos = 2
    ENTRADAS_TLB = 2
    Reemplazos = {"FIFO", "LRU"}
    ENTRADAS_POR_TABLA = 2
    CANTIDAD_NIVELES = 2
    NrosPagina = {0, 1, 2, 3}
    NrosMarco = {0, 1, 2}
INVARIANTS
    TraduccionCorrecta
\* Nothing is left to execute once every process ended.
CHECK_DEADLOCK FALSE
