SPECIFICATION Spec
CONSTANTS
  Tamanio <- TresPaquetes
  Cabecera = 3
  Capacidad = 4
  Basuras <- TresBasuras
INVARIANTS EnvioJusto PaquetesFieles EnFase
CHECK_DEADLOCK FALSE
