CONSTANTS
  NumCPU = 2
  NumProgramas = 2
  MaxTID = 2
  Rutinas = {"nada"}
  Recursos = {}
  SeVa = {}
  CotaListas = 1
  CotaExec = 1
SPECIFICATION Spec
INVARIANTS FichasCPU UnTurnoPorCPU SinDuplicar BloqueadosLlaman
CHECK_DEADLOCK FALSE
