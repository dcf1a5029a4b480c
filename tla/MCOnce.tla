-------------------------------- MODULE MCOnce --------------------------------
(* The main program and two handlers that nest, four globals: the          *)
(* initialiser of `port` needs `pins` and `clock`, that of `pins` needs    *)
(* `clock`; a handler reaches `clock` through `pins`, another one `port`.  *)
EXTENDS Once, TLC

CONSTANTS timer, usart, clock, pins, port, buffer

MCPriority == (Main :> 0) @@ (timer :> 1) @@ (usart :> 2)

MCUses ==
  (Main :> {pins, port}) @@ (timer :> {pins, buffer}) @@ (usart :> {port})
    @@ (clock :> {}) @@ (pins :> {clock}) @@ (port :> {pins, clock}) @@ (buffer :> {})

MCReached ==
  (Main :> {pins, port, clock}) @@ (timer :> {pins, buffer, clock})
    @@ (usart :> {port, pins, clock})
    @@ (clock :> {clock}) @@ (pins :> {pins, clock}) @@ (port :> {port, pins, clock})
    @@ (buffer :> {buffer})
=============================================================================
