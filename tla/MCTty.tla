-------------------------------- MODULE MCTty -------------------------------
(***************************************************************************)
(* The two halves of the terminal: Console, which takes input in, and      *)
(* Uart, which sends output, with short buffers whose indices wrap         *)
(* quickly.  They share no variable: all that input asks of output is an   *)
(* echo, and Uart lets any CPU echo at any time.  So each half is explored *)
(* while the other rests in its initial state.                             *)
(***************************************************************************)
EXTENDS Console

CONSTANTS Writers, Echoers, Intr, Echo, OutChars, UART_TX_BUF_SIZE, TX_WRAP, DEPTH

VARIABLES tx_buf, tx_r, tx_w, tx_lock, tx_pc, ch, epc, fifo, irq, overrun, out,
          half

txVars == <<tx_buf, tx_r, tx_w, tx_lock, tx_pc, ch, epc, fifo, irq, overrun, out>>

U == INSTANCE Uart WITH Chars <- OutChars, WRAP <- TX_WRAP, lock <- tx_lock, pc <- tx_pc

ASSUME OutputAssumption == U!Constants

TtyInit == Init /\ U!Init /\ half \in {"input", "output"}

TtyNext == \/ half = "input" /\ Next /\ UNCHANGED <<txVars, half>>
           \/ half = "output" /\ U!Next /\ UNCHANGED <<vars, half>>

TtySpec == TtyInit /\ [][TtyNext]_<<vars, txVars, half>> /\ U!Fairness

\* Input never comes to a standstill with a full buffer (NoStandstill), and
\* output neither stalls nor is overrun: whenever uart_tx_lock is free and
\* characters are waiting, the UART is busy, or an interrupt is pending or
\* being handled, and no writer sleeps while there is room (Uart!NoStall).
NoStall == NoStandstill /\ U!NoStall

\* Characters given to uartputc reach the line in order, each once, whatever
\* uartputc_sync prints in between (Uart!OutputInOrder).
OutputInOrder == U!OutputInOrder

\* A writer asleep in uartputc is woken, once direct output pauses for good
\* (Uart!WriterWakes).
WriterWakes == U!WriterWakes
=============================================================================
