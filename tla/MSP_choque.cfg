CONSTANTS
  h1 = h1
  h2 = h2
  Nada = Nada
  Hilos = {h1}
  PIDs = {1, 10}
  NumSID = 2
  MaxPag = 11
  NumMarcos = 1
  TamPag = 1
  CantidadSwap = 12
  MaxSegmento = 11
  TopeLRU = 100
  Algoritmo = "LRU"
  DiscoFalla = FALSE
  MaxContador = 4
  Tamanios = {1, 11}
  Bytes = {0, 1, 10}
  Lecturas <- LecturasChoque
  Escrituras <- EscriturasChoque
SPECIFICATION Spec
INVARIANT Aislamiento
