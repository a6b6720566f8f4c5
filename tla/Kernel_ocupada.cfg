CONSTANTS
  NumCPU = 2
  NumProgramas = 2
  MaxTID = 2
  Rutinas = {"nada"}
  Recursos = {}
  SeVa = {}
  CotaListas = 1
  CotaExec = 2
SPECIFICATION Spec
INVARIANTS OcupadaConPID
CHECK_DEADLOCK FALSE
