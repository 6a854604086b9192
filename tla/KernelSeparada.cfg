\* Suspensions and bursts whose threads do not overlap; memory for two frames of four; liveness.
SPECIFICATION FairSpec
CONSTANTS
    p1 = p1
    p2 = p2
    p3 = p3
    Procs = {p1, p2, p3}
    ProcesoInicial = p1
    Cpus = {c1}
    Ios = {i1}
    Hilos = {1, 2, 3}
    Nombres = {"disco"}
    NombreDe <- UnNombre
    Tam <- TamDos
    Marcos = 2
    MaxSyscalls <- DosYNada
    Syscalls = {"INIT_PROC", "IO"}
    Suspension = "separada"
    Nadie = Nadie
INVARIANTS
    UnaSolaCola
    ResidenteSiEjecuta
    AvisosDeIo
PROPERTIES
    ImplementaCiclo
    TodosTerminan
\* The Kernel has nothing left to do once every process ended, or it died.
CHECK_DEADLOCK FALSE
