\* Every payload shape of the kinds below, List payloads of up to three
\* entries over two messages; the call returns and the page goes on.
SPECIFICATION Spec
CONSTANTS
  m1 = m1
  m2 = m2
  instr = instr
  raw = raw
  Msgs <- MCMsgs
  Instr = instr
  RawText = raw
  MaxEntries = 3
  Kinds = {"Generic", "Single", "List", "Log", "Unknown", "Text"}
INVARIANT EveryEntryShownOnce
CHECK_DEADLOCK FALSE
