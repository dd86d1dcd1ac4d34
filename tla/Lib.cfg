\* The routines of lib.c
CONSTANTS
  MemSize = 24
  Places <- SomePlaces
  Lengths <- SomeLengths
  Strings <- AllStrings
  CommandLines <- AllLines
  Buffer = 7
  Nibbles = 2
  Values <- SomeValues
  Directives <- AllDirectives
  Tails <- AllTails
SPECIFICATION Spec
INVARIANTS
  RoutinesRight
  CommandSplit
  Printed
