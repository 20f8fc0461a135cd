SPECIFICATION FairSpec
CONSTANTS
  d1 = d1
  d2 = d2
  Dumps <- DosDumps
  Tamano <- Grandes
  BlockSize = 16
  BlockCount = 8
  Pagina = 144
  Previos <- Todos
  MaxCaidas = 1
INVARIANTS TypeOK ConfirmadoIntegro ReservadosMarcados RechazoSinRastro
PROPERTY TodoDumpSeContesta
CHECK_DEADLOCK FALSE
