SPECIFICATION Spec
CONSTANTS
  NumProcesos = 2
  BITS = 4
  QUANTUM = 3
  TAMANIO_STACK = 8
  SEG = 1024
  BasuraLoad = 1919
  Cargas <- MCCargas
  SinMarco <- MCSinMarco
  Numeros <- MCNumeros
  Cadenas <- MCCadenas
PROPERTIES CursorDelHijo
CHECK_DEADLOCK FALSE
