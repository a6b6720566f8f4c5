CONSTANTS
  NumCPU = 1
  NumProgramas = 1
  MaxTID = 1
  Rutinas = {"nada"}
  Recursos = {}
  SeVa = {1}
  CotaListas = 1
  CotaExec = 2
SPECIFICATION FairSpec
PROPERTIES DesconexionAborta
CHECK_DEADLOCK FALSE
