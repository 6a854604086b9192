\* The reply that CLOCKM leaves unread.
SPECIFICATION Spec
CONSTANTS
    p1 = p1
    p2 = p2
    Nadie = Nadie
    Procs = {p1}
    MarcosDe <- MarcosVarios
    Marcos = 4
    ENTRADAS_CACHE = 2
    Algoritmos = {"CLOCKM"}
    CodigoExito = 4
    Salidas = {"EXIT"}
    MaxAccesos <- Cinco
    ENTRADAS_TLB = 2
    Reemplazos = {"FIFO"}
    ENTRADAS_POR_TABLA = 2
    CANTIDAD_NIVELES = 2
    NrosPagina = {0, 1, 2}
    NrosMarco = {0, 1, 2, 3, 4, 5}
INVARIANTS
    MarcoDeMemoria
\* Nothing is left to execute once every process ended or used up its accesses.
CHECK_DEADLOCK FALSE
