SPECIFICATION FairSpec
CONSTANTS
  h1 = h1
  h2 = h2
  h3 = h3
  NULO = NULO
  Hilos = {h1, h2, h3}
  Pid <- Procesos2
  Programa <- Carrera
  Contexto <- Contiguos
  Registros <- Registros4
  Octetos = 2
  Valores = 4
  TamMemoria = 8
  MaxRelojes = 1
INVARIANTS TypeOK Correspondencia CpuSigue
PROPERTIES CumpleComputo TodosTerminan
CHECK_DEADLOCK FALSE
