SPECIFICATION Spec
CONSTANTS
  BITS = 8
  Fuentes <- MCFuentes
  CABEN = 2
INVARIANTS SalidaFiel DecompilaFiel CaidaJustificada
CHECK_DEADLOCK FALSE
