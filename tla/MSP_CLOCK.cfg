CONSTANTS
  h1 = h1
  h2 = h2
  Nada = Nada
  Hilos = {h1}
  PIDs = {1, 2}
  NumSID = 1
  MaxPag = 3
  NumMarcos = 2
  TamPag = 2
  CantidadSwap = 6
  MaxSegmento = 6
  TopeLRU = 100
  Algoritmo = "CLOCK"
  DiscoFalla = TRUE
  MaxContador = 4
  Tamanios = {3, 6}
  Bytes = {0, 1, 2}
  Lecturas <- LecturasMC
  Escrituras <- EscriturasTambienPag1
SPECIFICATION FairSpec
PROPERTIES ImplementaMemoria MutexSeLibera
INVARIANTS CaidaSoloPorDisco Aislamiento
\* The server may crash.
CHECK_DEADLOCK FALSE
