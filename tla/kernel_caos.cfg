SPECIFICATION Spec
CONSTANTS
  CP = CP
  LP = LP
  NULO = NULO
  PROC = PROC
  HILO = HILO
  OTRO = OTRO
  M = M
  MaxPid = 2
  MaxTid = 3
  Algoritmo = "FIFO"
  Archivos <- Archivos3
  Recursos <- Recursos1
  Programa <- Caos
  ArchivosIniciales <- UnProceso
  Existe <- SinOtro
  Exceden <- Nada
  Cupo = 1
  DumpPuedeFallar = TRUE
INVARIANTS TypeOK SemReadyCubre SemNewCuenta UnSoloLugar
CHECK_DEADLOCK FALSE
