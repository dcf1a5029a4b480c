CONSTANTS
  timer = timer
  usart = usart
  clock = clock
  pins = pins
  port = port
  buffer = buffer
  Contexts = {main, timer, usart}
  Main = main
  Priority <- MCPriority
  Globals = {clock, pins, port, buffer}
  Uses <- MCUses
  Reached <- MCReached
SPECIFICATION FairSpec
INVARIANTS
  TypeOK
  InitialisedOnce
  ReadyWhenUsed
  OncePerContext
PROPERTIES
  InitialiserCompletes
