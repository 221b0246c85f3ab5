-------------------------------- MODULE Uart --------------------------------
(***************************************************************************)
(* Console output (uart.c): write() puts characters in a buffer that is    *)
(* sent by interrupts (uartputc, uartstart, uartintr), printf and the echo *)
(* of input write to the UART directly (uartputc_sync), without the lock   *)
(* of the buffer.  tx_r and tx_w are unsigned and wrap at WRAP.            *)
(*                                                                         *)
(* Reading the line status and writing the holding register are separate   *)
(* steps.  The UART sends from a queue of DEPTH characters (FCR enables    *)
(* it), reports itself ready when the queue is empty, and then raises an   *)
(* interrupt that writing a character or reading ISR takes back.           *)
(***************************************************************************)
EXTENDS Integers, Sequences, FiniteSets

CONSTANTS Writers,   \* processes in write()
          Echoers,   \* CPUs that may be in uartputc_sync
          Intr,      \* the interrupt handler
          Nobody, Chars, Echo,
          UART_TX_BUF_SIZE, WRAP, DEPTH

Constants ==
  /\ Intr \notin Writers /\ Nobody \notin Writers \cup {Intr}
  /\ Echo \notin Chars /\ Chars # {}
  /\ UART_TX_BUF_SIZE \in Nat \ {0} /\ DEPTH \in Nat
  /\ WRAP \in Nat /\ WRAP > UART_TX_BUF_SIZE /\ WRAP % UART_TX_BUF_SIZE = 0

VARIABLES
  tx_buf, tx_r, tx_w,
  lock,            \* the holder of uart_tx_lock
  pc, ch,          \* position of a thread, character of a writer
  epc,             \* position of uartputc_sync on each CPU
  fifo, irq, overrun, out   \* the UART: queue, interrupt, has it lost a
                            \* character, last buffered character it sent

bufVars == <<tx_buf, tx_r, tx_w>>
uartVars == <<fifo, irq, overrun, out>>
vars == <<bufVars, lock, pc, ch, epc, uartVars>>

Threads == Writers \cup {Intr}
PCs == {"idle", "acquire", "test", "sleep", "start", "send"}
Slot(k) == k % UART_TX_BUF_SIZE
Empty == tx_w = tx_r
Blank == CHOOSE c \in Chars : TRUE   \* a character that no longer matters

\* LSR_TX_IDLE
Ready == fifo = <<>>
-----------------------------------------------------------------------------
(* Faulty variants of the definitions below, kept for the sensitivity      *)
(* checks of the properties; no specification uses them.                   *)

\* The full test compares without wrapping.
Full_NoWrap == tx_w = tx_r + UART_TX_BUF_SIZE

\* uartputc leaves sending to the interrupt handler.
AfterPut_Leave == "idle"

\* uartstart wakes nobody.
Woken_None(t) == [pc EXCEPT ![t] = "start"]
-----------------------------------------------------------------------------

Add(k, d) == (k + d) % WRAP

Full == tx_w = Add(tx_r, UART_TX_BUF_SIZE)

\* WriteReg(THR, c)
THR(c) == /\ fifo' = IF Len(fifo) < DEPTH THEN Append(fifo, c) ELSE fifo
          /\ overrun' = IF Len(fifo) < DEPTH THEN overrun ELSE 1
          /\ irq' = 0
          /\ UNCHANGED out

(* uartputc                                                                *)

uartputc(p, c) ==
  /\ pc[p] = "idle"
  /\ ch' = [ch EXCEPT ![p] = c]
  /\ pc' = [pc EXCEPT ![p] = "acquire"]
  /\ UNCHANGED <<bufVars, lock, epc, uartVars>>

acquire(t) ==
  /\ pc[t] = "acquire" /\ lock = Nobody
  /\ lock' = t
  /\ pc' = [pc EXCEPT ![t] = IF t = Intr THEN "start" ELSE "test"]
  /\ UNCHANGED <<bufVars, ch, epc, uartVars>>

uartputc_sleep(p) ==
  /\ pc[p] = "test" /\ Full
  /\ pc' = [pc EXCEPT ![p] = "sleep"]
  /\ lock' = Nobody
  /\ UNCHANGED <<bufVars, ch, epc, uartVars>>

AfterPut == "start"

uartputc_put(p) ==
  /\ pc[p] = "test" /\ ~Full
  /\ tx_buf' = [tx_buf EXCEPT ![Slot(tx_w)] = ch[p]]
  /\ tx_w' = Add(tx_w, 1)
  /\ pc' = [pc EXCEPT ![p] = AfterPut]
  /\ lock' = IF AfterPut = "idle" THEN Nobody ELSE lock
  /\ ch' = [ch EXCEPT ![p] = Blank]
  /\ UNCHANGED <<tx_r, epc, uartVars>>

(* uartstart, in a thread with the lock                                    *)

uartstart_return(t) ==
  /\ pc[t] = "start" /\ (Empty \/ ~Ready)
  /\ irq' = IF Empty THEN 0 ELSE irq
  /\ pc' = [pc EXCEPT ![t] = "idle"]
  /\ lock' = Nobody
  /\ UNCHANGED <<bufVars, ch, epc, fifo, overrun, out>>

uartstart_ready(t) ==
  /\ pc[t] = "start" /\ ~Empty /\ Ready
  /\ pc' = [pc EXCEPT ![t] = "send"]
  /\ UNCHANGED <<bufVars, lock, ch, epc, uartVars>>

Woken(t) == [u \in Threads |-> IF u = t THEN "start"
                               ELSE IF pc[u] = "sleep" THEN "acquire" ELSE pc[u]]

uartstart_send(t) ==
  /\ pc[t] = "send"
  /\ THR(tx_buf[Slot(tx_r)])
  /\ tx_r' = Add(tx_r, 1)
  /\ pc' = Woken(t)
  /\ UNCHANGED <<tx_buf, tx_w, lock, ch, epc>>

(* uartputc_sync                                                           *)

uartputc_sync(c) ==
  /\ epc[c] = "idle"
  /\ epc' = [epc EXCEPT ![c] = "poll"]
  /\ UNCHANGED <<bufVars, lock, pc, ch, uartVars>>

MayWrite == Ready

uartputc_sync_poll(c) ==
  /\ epc[c] = "poll" /\ MayWrite
  /\ epc' = [epc EXCEPT ![c] = "write"]
  /\ UNCHANGED <<bufVars, lock, pc, ch, uartVars>>

uartputc_sync_write(c) ==
  /\ epc[c] = "write"
  /\ THR(Echo)
  /\ epc' = [epc EXCEPT ![c] = "idle"]
  /\ UNCHANGED <<bufVars, lock, pc, ch>>

\* The output part of uartintr; the PLIC lets one handler in at a time.
uartintr ==
  /\ irq = 1 /\ pc[Intr] = "idle"
  /\ pc' = [pc EXCEPT ![Intr] = "acquire"]
  /\ UNCHANGED <<bufVars, lock, ch, epc, uartVars>>

\* The UART sends a character.
transmit ==
  /\ fifo # <<>>
  /\ fifo' = Tail(fifo)
  /\ out' = IF Head(fifo) = Echo THEN out ELSE Head(fifo)
  /\ irq' = IF Len(fifo) = 1 THEN 1 ELSE irq
  /\ UNCHANGED <<bufVars, lock, pc, ch, epc, overrun>>
-----------------------------------------------------------------------------

Init ==
  /\ tx_buf = [k \in 0..(UART_TX_BUF_SIZE - 1) |-> Blank]
  /\ ch = [p \in Writers |-> Blank] /\ out = Blank
  /\ tx_r = 0 /\ tx_w = 0 /\ lock = Nobody
  /\ pc = [t \in Threads |-> "idle"] /\ epc = [c \in Echoers |-> "idle"]
  /\ fifo = <<>> /\ irq = 0 /\ overrun = 0

Step(t) == \/ acquire(t) \/ uartputc_sleep(t) \/ uartputc_put(t)
           \/ uartstart_return(t) \/ uartstart_ready(t) \/ uartstart_send(t)

Next ==
  \/ \E t \in Threads : Step(t)
  \/ \E p \in Writers, c \in Chars : uartputc(p, c)
  \/ \E c \in Echoers : uartputc_sync(c) \/ uartputc_sync_poll(c) \/ uartputc_sync_write(c)
  \/ uartintr \/ transmit

\* The UART sends, interrupts are taken, threads run and get the lock, and
\* a direct write that has begun is carried out.
Fairness ==
  /\ WF_vars(transmit) /\ SF_vars(uartintr)
  /\ \A t \in Threads : SF_vars(Step(t))
  /\ \A c \in Echoers : WF_vars(uartputc_sync_write(c))

Spec == Init /\ [][Next]_vars /\ Fairness
-----------------------------------------------------------------------------

(* Every variable has its type; the indices stay below WRAP.               *)
TypeOK ==
  /\ tx_buf \in [0..(UART_TX_BUF_SIZE - 1) -> Chars]
  /\ tx_r \in 0..(WRAP - 1) /\ tx_w \in 0..(WRAP - 1)
  /\ lock \in Threads \cup {Nobody}
  /\ pc \in [Threads -> PCs] /\ ch \in [Writers -> Chars]
  /\ epc \in [Echoers -> {"idle", "poll", "write"}]
  /\ fifo \in Seq(Chars \cup {Echo}) /\ Len(fifo) <= DEPTH
  /\ irq \in {0, 1} /\ overrun \in {0, 1} /\ out \in Chars

\* Output neither stalls nor is overrun: whenever the lock is free and
\* characters are waiting, the UART is busy, or an interrupt is pending or
\* being handled, and no writer sleeps while there is room.  Writing to the
\* UART without a common lock, as uartputc_sync does, loses nothing if its
\* queue has room for one character of the buffer and one from each CPU.
NoStall ==
  /\ TypeOK
  /\ DEPTH > Cardinality(Echoers) => overrun = 0
  /\ lock = Nobody =>
       /\ ~Empty => fifo # <<>> \/ irq = 1 \/ pc[Intr] = "acquire"
       /\ \A p \in Writers : pc[p] = "sleep" => Full

Used == (tx_w - tx_r) % WRAP

F == INSTANCE Fifo WITH
       Bytes <- Chars, Capacity <- UART_TX_BUF_SIZE + DEPTH, last <- out,
       ropen <- 1, wopen <- 1,
       queue <- SelectSeq(fifo, LAMBDA c : c # Echo)
                \o [k \in 1..Used |-> tx_buf[Slot(Add(tx_r, k - 1))]]

\* Characters written reach the line in order, each once, whatever else is
\* printed in between.
OutputInOrder == F!Spec

\* A writer waiting for room is woken, once direct output pauses for good
\* (printing without end does keep the buffer from being sent).
WriterWakes ==
  <>[](\A c \in Echoers : epc[c] = "idle")
    => \A p \in Writers : pc[p] = "sleep" ~> pc[p] # "sleep"
=============================================================================
