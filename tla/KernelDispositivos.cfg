\* Two devices with one name and processes that come back to them, with suspensions.
SPECIFICATION Spec
CONSTANTS
    p1 = p1
    p2 = p2
    p3 = p3
    Procs = {p1, p2}
    ProcesoInicial = p1
    Cpus = {c1}
    Ios = {i1, i2}
    Hilos = {1, 2}
    Nombres = {"disco"}
    NombreDe <- UnNombre
    Tam <- TamUno
    Marcos = 2
    MaxSyscalls <- TresYDos
    Syscalls = {"INIT_PROC", "IO"}
    Suspension = "separada"
    Nadie = Nadie
INVARIANTS
    UnDispositivoPorProceso
    AvisosDeIo
SYMMETRY IosIguales
\* The Kernel has nothing left to do once every process ended, or it died.
CHECK_DEADLOCK FALSE
