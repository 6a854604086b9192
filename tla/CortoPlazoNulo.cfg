\* A CPU with no process among those that are compared.
SPECIFICATION Spec
CONSTANTS
    p1 = p1
    p2 = p2
    p3 = p3
    c1 = c1
    c2 = c2
    Procs = {p1, p2, p3}
    Cpus = {c1, c2}
    Nadie = Nadie
    Hilos = {1, 2, 3}
    Algoritmos = {"SJF_CON_DESALOJO"}
    MaxEstimacion = 1
    Programas <- LargoOConIo
    Tarde = FALSE
INVARIANTS
    ComparaConProcesos
\* The Kernel has nothing left to do once every process ended, or it died.
CHECK_DEADLOCK FALSE
