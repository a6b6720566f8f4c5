CONSTANTS
  h1 = h1
  h2 = h2
  Nada = Nada
  Hilos = {h1}
  PIDs = {1, 2}
  NumSID = 2
  MaxPag = 2
  NumMarcos = 2
  TamPag = 2
  CantidadSwap = 4
  MaxSegmento = 4
  TopeLRU = 100
  Algoritmo = "LRU"
  DiscoFalla = FALSE
  MaxContador = 4
  Tamanios = {3, 5}
  Bytes = {0, 1, 2}
  Lecturas <- LecturasMC
  Escrituras <- EscriturasMC
SPECIFICATION FairSpec
PROPERTY SwapInvisible
