\* The clock's routines, interrupted anywhere
SPECIFICATION Spec
CONSTANTS
  Devices = {0, 1, 12}
  Freqs = {2, 256}
  Disabled = {1, 16}
INVARIANTS
  TypeOK
  MasksAgree
  NoPanic
  RegistersKept
  NothingInService
PROPERTY
  TickWakes
