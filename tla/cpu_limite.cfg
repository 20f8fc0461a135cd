SPECIFICATION Spec
CONSTANTS
  h1 = h1
  h2 = h2
  h3 = h3
  NULO = NULO
  Hilos = {h1, h3}
  Pid <- Procesos2
  Programa <- Borde
  Contexto <- Bajo
  Registros <- Registros4
  Octetos = 2
  Valores = 4
  TamMemoria = 8
  MaxRelojes = 1
PROPERTY Aislamiento
CHECK_DEADLOCK FALSE
