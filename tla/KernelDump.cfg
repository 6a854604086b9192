\* Dumps and contention for memory, two CPUs, liveness.
SPECIFICATION FairSpec
CONSTANTS
    p1 = p1
    p2 = p2
    p3 = p3
    Procs = {p1, p2, p3}
    ProcesoInicial = p1
    Cpus = {c1, c2}
    Ios = {i1}
    Hilos = {1, 2, 3}
    Nombres = {"disco"}
    NombreDe <- UnNombre
    Tam <- TamDos
    Marcos = 2
    MaxSyscalls <- DosCadaUno
    Syscalls = {"INIT_PROC", "DUMP_MEMORY"}
    Suspension = "libre"
    Nadie = Nadie
INVARIANTS
    UnProcesoPorCpu
PROPERTIES
    TodosTerminan
\* The Kernel has nothing left to do once every process ended, or it died.
CHECK_DEADLOCK FALSE
