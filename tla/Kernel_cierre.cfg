CONSTANTS
  NumCPU = 1
  NumProgramas = 1
  MaxTID = 2
  Rutinas = {"crea", "join", "entrada"}
  Recursos = {}
  SeVa = {1}
  CotaListas = 1
  CotaExec = 2
SPECIFICATION FairSpec
INVARIANTS SoloUnKM
PROPERTIES FichasListo CPUVuelve ImplementaVida
CHECK_DEADLOCK FALSE
