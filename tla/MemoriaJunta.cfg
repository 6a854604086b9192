\* A process is resumed while its suspension is still at work.
SPECIFICATION SpecJunta
CONSTANTS
    p1 = p1
    p2 = p2
    Nadie = Nadie
    Procs = {p1, p2}
    Paginas <- UnaPagina
    Marcos = 3
    SinArchivo = {}
    MaxEscrituras = 1
    MaxSuspensiones = 2
    Solapan = FALSE
INVARIANTS
    ContenidoPreservado
\* Nothing is left to ask once every process ended.
CHECK_DEADLOCK FALSE
