-------------------------------- MODULE MCBus ---------------------------------
(***************************************************************************)
(* Model values for the runs of W5x00Bus: the driver task and tcpip_thread *)
(* and the interrupt handler, on every kind of bus, lock and board.        *)
(***************************************************************************)
EXTENDS W5x00Bus

CONSTANTS tcpip, driver, isr

MCUsers == {tcpip, driver}

MCBuilds == [bus : {"spi", "dma", "pio"}, lock : {"critical", "mutex"}, irq : BOOLEAN]
\* Boards on which everything is left, and one thing is missing.
Whole == [program |-> TRUE, sm |-> TRUE, dma |-> 2]
MCBoards == {Whole, [Whole EXCEPT !.program = FALSE], [Whole EXCEPT !.sm = FALSE],
             [Whole EXCEPT !.dma = 1], [Whole EXCEPT !.dma = 0]}
===============================================================================
