\* A suspension and a resumption use the list of swapped processes at once.
SPECIFICATION Spec
CONSTANTS
    p1 = p1
    p2 = p2
    p3 = p3
    p4 = p4
    Procs = {p1, p2}
    Paginas <- PaginasVarias
    Marcos = 3
    SinArchivo = {}
    MaxEscrituras = 0
    MaxSuspensiones = 2
    Solapan = TRUE
INVARIANTS
    ConPaginasEnSwap
\* Nothing is left to ask once every process ended.
CHECK_DEADLOCK FALSE
