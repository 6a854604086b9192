\* Timers and bursts that end in any order, two devices with one name, room for both.
SPECIFICATION Spec
CONSTANTS
    p1 = p1
    p2 = p2
    p3 = p3
    Procs = {p1, p2}
    ProcesoInicial = p1
    Cpus = {c1}
    Ios = {i1, i2}
    Hilos = {1, 2}
    Nombres = {"disco"}
    NombreDe <- UnNombre
    Tam <- TamUno
    Marcos = 2
    MaxSyscalls <- DosOUna
    Syscalls = {"INIT_PROC", "IO", "DUMP_MEMORY"}
    Suspension = "libre"
    Nadie = Nadie
INVARIANTS
    TypeOK
    FichasDeColas
    FichasDeCpu
    NingunoPerdido
SYMMETRY IosIguales
\* The Kernel has nothing left to do once every process ended, or it died.
CHECK_DEADLOCK FALSE
