CONSTANTS
  Chars = {a, NL, EOF}
  NL = NL
  EOF = EOF
  CR = CR
  Readers = {p1, p2}
  Nobody = Nobody
  Killable = {p1}
  INPUT_BUF_SIZE = 3
  WRAP = 6
  MaxN = 2
  Writers = {p1, p2}
  Echoers = {c1}
  Intr = Intr
  OutChars = {a, b}
  Echo = Echo
  UART_TX_BUF_SIZE = 2
  TX_WRAP = 4
  DEPTH = 2
SPECIFICATION TtySpec
INVARIANT NoStall
PROPERTIES IsTerminal OutputInOrder WriterWakes
