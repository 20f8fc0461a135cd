SPECIFICATION Spec
CONSTANTS
  k1 = k1
  k2 = k2
  u = u
  f2 = f2
  NULO = NULO
  DeKernel = {k2}
  DeCpu = {}
  DeDump = {f2}
  Guion <- Tres
  DumpDe <- SuDump
  Codigos <- CodigosUsados
  Valores <- ValoresUsados
  Octetos = 1
  Cortes = TRUE
INVARIANT DumpIntegro
CHECK_DEADLOCK FALSE
