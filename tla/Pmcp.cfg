\* Admission by size: three processes of two sizes, one suspension each.
SPECIFICATION FairSpec
CONSTANTS
    p1 = p1
    p2 = p2
    p3 = p3
    Procs = {p1, p2, p3}
    ProcesoInicial = p1
    Nadie = Nadie
    Tam <- Chicos
    Marcos = 2
    MaxSuspensiones <- UnaCadaUno
INVARIANTS
    FichasDeAdmision
    AdmiteAlConsultado
PROPERTIES
    TerminanSalvoOlvido
\* The Kernel has nothing left to do once every process ended.
CHECK_DEADLOCK FALSE
