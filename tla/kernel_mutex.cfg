SPECIFICATION Spec
CONSTANTS
  CP = CP
  LP = LP
  NULO = NULO
  PROC = PROC
  HILO = HILO
  OTRO = OTRO
  M = M
  MaxPid = 1
  MaxTid = 4
  Algoritmo = "CMN"
  Archivos <- Archivos3
  Recursos <- Recursos1
  Programa <- MutexProc
  ArchivosIniciales <- UnProceso
  Existe <- Archivos3
  Exceden <- Nada
  Cupo = 1
  DumpPuedeFallar = FALSE
INVARIANTS EnOrden ExclusionMutua FinLimpio MutexCoherente NingunHiloPerdido ReadyTieneContexto SinFallo SinReentrada
CHECK_DEADLOCK FALSE
