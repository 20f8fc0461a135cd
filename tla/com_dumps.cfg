SPECIFICATION FairSpec
CONSTANTS
  k1 = k1
  k2 = k2
  u = u
  f2 = f2
  NULO = NULO
  DeKernel = {k1, k2}
  DeCpu = {u}
  DeDump = {f2}
  Guion <- Tres
  DumpDe <- SuDump
  Codigos <- CodigosUsados
  Valores <- ValoresUsados
  Octetos = 2
  Cortes = FALSE
INVARIANTS TypeOK Encuadre
PROPERTIES CumpleLlamadas TodoPedidoSeContesta
CHECK_DEADLOCK FALSE
