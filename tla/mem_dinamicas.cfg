SPECIFICATION Spec
CONSTANTS
  TamMemoria = 8
  Esquema = "DINAMICAS"
  Busqueda = "BEST"
  Tamanios <- SinFijas
  Procesos <- Procesos6
  Hebras <- Hebras2
  Tamano <- Grandes
  Legibles <- Procesos6
  Clientes <- KernelSinDump
  EnParalelo = FALSE
  CancelaPrincipal = FALSE
INVARIANTS TypeOK Teselado SinFuga RangoEsParticion
PROPERTY CumplePromesa
CHECK_DEADLOCK FALSE
