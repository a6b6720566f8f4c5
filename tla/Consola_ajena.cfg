SPECIFICATION Spec
CONSTANTS
  Consolas = {1, 2}
  Descriptores = {1, 2}
  CPUs = {1, 2}
  Tamanios = {2, 200}
  Basura = {0}
  Largos = {3}
  SeVan = {2}
  Desconectan = {2}
  MaxHilos = 2
  MaxMensajes = 1
INVARIANT PantallaPropia
CHECK_DEADLOCK FALSE
