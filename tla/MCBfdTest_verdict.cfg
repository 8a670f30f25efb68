CONSTANTS
  r1 = r1
  r2 = r2
  r3 = r3
  Routers <- ThreeRouters
  Rut = r1
  V6 = 2
  MaxFlaps = 2
SPECIFICATION Spec
CHECK_DEADLOCK FALSE
INVARIANT TypeOK
INVARIANT VerdictIsExact
INVARIANT PassRestores
INVARIANT UnconfiguresItsOwn
