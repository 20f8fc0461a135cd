SPECIFICATION Spec
CONSTANTS
  TamMemoria = 12
  Esquema = "FIJAS"
  Busqueda = "WORST"
  Tamanios <- Tres
  Procesos <- Procesos3
  Hebras <- Hebras2
  Tamano <- ParaFijas
  Legibles <- SinUno
  Clientes <- Todos
  EnParalelo = TRUE
  CancelaPrincipal = TRUE
INVARIANTS RangoEsParticion HilosComparten
PROPERTY CumplePromesa
CHECK_DEADLOCK FALSE
