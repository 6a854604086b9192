\* A process without memory is suspended.
SPECIFICATION Spec
CONSTANTS
    p1 = p1
    p2 = p2
    p3 = p3
    p4 = p4
    Procs = {p1, p3}
    Paginas <- PaginasVarias
    Marcos = 1
    SinArchivo = {}
    MaxEscrituras = 0
    MaxSuspensiones = 1
    Solapan = FALSE
INVARIANTS
    SuspendidoEnSwap
\* Nothing is left to ask once every process ended.
CHECK_DEADLOCK FALSE
