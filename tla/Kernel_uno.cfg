CONSTANTS
  NumCPU = 1
  NumProgramas = 1
  MaxTID = 2
  Rutinas = {"nada", "crea", "join", "blok", "wake"}
  Recursos = {1}
  SeVa = {}
  CotaListas = 1
  CotaExec = 2
SPECIFICATION FairSpec
INVARIANTS TypeOK CuentaDeHilos
PROPERTIES SeDespacha LlamadaVuelve
CHECK_DEADLOCK FALSE
