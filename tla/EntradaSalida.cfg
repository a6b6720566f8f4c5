SPECIFICATION FairSpec
CONSTANTS
  Consolas = {1, 2}
  Descriptores = {1, 2}
  CPUs = {1, 2}
  Tamanios = {2, 200}
  Basura = {0}
  Largos = {3}
  SeVan = {2}
  Desconectan = {2}
  MaxHilos = 2
  MaxMensajes = 1
INVARIANTS SesionPropia RespuestaPropia
CHECK_DEADLOCK FALSE
PROPERTY EntradaVuelve
