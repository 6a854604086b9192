\* Requests about processes that do not all fit.
SPECIFICATION Spec
CONSTANTS
    p1 = p1
    p2 = p2
    p3 = p3
    p4 = p4
    Procs = {p1, p2, p3, p4}
    Paginas <- PaginasVarias
    Marcos = 2
    SinArchivo = {p4}
    MaxEscrituras = 1
    MaxSuspensiones = 2
    Solapan = FALSE
INVARIANTS
    TypeOK
    MarcosPropios
    SinFugas
    SwapRepartido
    ContenidoPreservado
    ConPaginasEnSwap
PROPERTIES
    CumpleMemoriaAbstracta
\* Nothing is left to ask once every process ended.
CHECK_DEADLOCK FALSE
