SPECIFICATION Spec
CONSTANT MaxTouches = 4
INVARIANT
  TypeOK
  OnlyInterruptionTraps
PROPERTY
  AlertsArrive
