SPECIFICATION Spec
CONSTANTS
  d1 = d1
  d2 = d2
  Dumps <- DosDumps
  Tamano <- Chicos
  BlockSize = 8
  Pagina = 16
  BlockCount = 5
  Previos <- Vacia
  MaxCaidas = 0
INVARIANT SinDobleReserva
CHECK_DEADLOCK FALSE
