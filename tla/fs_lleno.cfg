SPECIFICATION Spec
CONSTANTS
  d1 = d1
  d2 = d2
  Dumps <- UnDump
  Tamano <- Chicos
  BlockSize = 8
  BlockCount = 2
  Pagina = 32
  Previos <- Vacia
  MaxCaidas = 0
INVARIANT ConfirmadoGuardado
CHECK_DEADLOCK FALSE
