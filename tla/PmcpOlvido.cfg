\* SUSP_READY under PMCP: one that is forgotten, because another one is the one to ask about.
SPECIFICATION FairSpec
CONSTANTS
    p1 = p1
    p2 = p2
    p3 = p3
    Procs = {p1, p2, p3}
    ProcesoInicial = p1
    Nadie = Nadie
    Tam <- Chicos
    Marcos = 2
    MaxSuspensiones <- UnaCadaUno
PROPERTIES
    SuspReadyVuelve
CHECK_DEADLOCK FALSE
