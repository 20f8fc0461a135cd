SPECIFICATION FairSpec
CONSTANTS
  CP = CP
  LP = LP
  NULO = NULO
  PROC = PROC
  HILO = HILO
  OTRO = OTRO
  M = M
  MaxPid = 4
  MaxTid = 3
  Algoritmo = "PRIORIDADES"
  Archivos <- Archivos3
  Recursos <- Recursos1
  Programa <- Plani
  ArchivosIniciales <- UnProceso
  Existe <- Archivos3
  Exceden <- SoloOtro
  Cupo = 2
  DumpPuedeFallar = FALSE
INVARIANTS JoinEsperaVivo ParticionesConDueno SinFallo
PROPERTIES Termina SinInanicion
CHECK_DEADLOCK FALSE
