\* The end of the burst against the suspension.
SPECIFICATION Spec
CONSTANTS
    p1 = p1
    p2 = p2
    p3 = p3
    Procs = {p1, p2}
    ProcesoInicial = p1
    Cpus = {c1}
    Ios = {i1}
    Hilos = {1, 2, 3}
    Nombres = {"disco"}
    NombreDe <- UnNombre
    Tam <- TamUno
    Marcos = 1
    MaxSyscalls <- DosCadaUno
    Syscalls = {"INIT_PROC", "IO"}
    Suspension = "libre"
    Nadie = Nadie
INVARIANTS
    SuspReadySuspendido
\* The Kernel has nothing left to do once every process ended, or it died.
CHECK_DEADLOCK FALSE
