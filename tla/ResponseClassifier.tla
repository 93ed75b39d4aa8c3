------------------------- MODULE ResponseClassifier -------------------------
(***************************************************************************)
(* formatServerResponseMessages (run_command.js): one inbound payload of   *)
(* the execution channel becomes the lines written to the pseudo terminal. *)
(* A line is its level (the colour log_text_with_colour gives it, or RAW   *)
(* for text appended as it came) and its words: the messages, the         *)
(* instruction name, the "Ok:" and "Fail:" tags, and the ", " separators  *)
(* and "[ ", " ]" brackets of the joined lists.  Timestamps and HTML are   *)
(* left out.  The rendering rule of the specification (section 4.4) is     *)
(* stated beside it as SpecListLines.                                      *)
(***************************************************************************)
EXTENDS Naturals, Sequences, SequencesExt

CONSTANTS
  Msgs,        \* the message strings entries may carry
  Instr,       \* getInstructionName of the command the payload answers
  RawText,     \* the text of a payload that is not JSON
  MaxEntries,  \* bound on the entries of a List payload
  Kinds        \* the payload shapes the run draws from

Entry == [is_success : BOOLEAN, message : Msgs]

\* The shapes of a payload: the three variants of OrchestrationProtocolResponse,
\* a Log, JSON of some other shape, and text that is not JSON.
AllPayloads ==
       [kind : {"Generic", "Single"}, is_success : BOOLEAN, message : Msgs]
  \cup [kind : {"List"}, entries : BoundedSeq(Entry, MaxEntries)]
  \cup [kind : {"Log", "Unknown", "Text"}]

Payloads == {p \in AllPayloads : p.kind \in Kinds}

Line(is_success, words) ==
  [level |-> IF is_success THEN "INFO" ELSE "ERROR", words |-> words]

RawLine == [level |-> "RAW", words |-> <<RawText>>]

\* Array.join(", ")
Join(xs) == [i \in 1 .. (2 * Len(xs)) - 1 |-> IF i % 2 = 1 THEN xs[(i + 1) \div 2] ELSE ","]

Bracketed(xs) == <<"[">> \o Join(xs) \o <<"]">>

\* The messages of the entries with the given success flag, in list order.
MessagesWith(entries, flag) ==
  LET picked == SelectSeq(entries, LAMBDA e : e.is_success = flag)
  IN [i \in 1 .. Len(picked) |-> picked[i].message]

-----------------------------------------------------------------------------
\* Mutant: the Fail line is guarded by the Ok line's condition.
ListLines_failGuard(entries) ==
  LET successful == MessagesWith(entries, TRUE)
      failed     == MessagesWith(entries, FALSE)
      OkText     == IF Len(successful) = 1 THEN Join(successful) ELSE Bracketed(successful)
      FailText   == IF Len(successful) = 1 THEN Join(failed) ELSE Bracketed(failed)
  IN  (IF Len(successful) > 0 THEN <<Line(TRUE, <<Instr, "Ok:">> \o OkText)>> ELSE <<>>)
   \o (IF Len(successful) > 0 /\ Len(failed) > 0
         THEN <<Line(FALSE, <<"Fail:">> \o FailText)>> ELSE <<>>)

\* The List branch: partition, then one Ok line and one Fail line, each only
\* if non-empty; a single-entry line is not bracketed.
ListLines(entries) ==
  LET successful == MessagesWith(entries, TRUE)
      failed     == MessagesWith(entries, FALSE)
      OkText     == IF Len(successful) = 1 THEN Join(successful) ELSE Bracketed(successful)
      FailText   == IF Len(successful) = 1 THEN Join(failed) ELSE Bracketed(failed)
  IN  (IF Len(successful) > 0 THEN <<Line(TRUE, <<Instr, "Ok:">> \o OkText)>> ELSE <<>>)
   \o (IF Len(failed) > 0 THEN <<Line(FALSE, <<"Fail:">> \o FailText)>> ELSE <<>>)

\* The switch on the first key.  A Log is only reported on the console, and
\* so is JSON matching none of the keys; text that does not parse is caught
\* and appended unchanged.
formatServerResponseMessages(p) ==
  CASE p.kind \in {"Generic", "Single"} -> <<Line(p.is_success, <<p.message>>)>>
    [] p.kind = "List"                  -> ListLines(p.entries)
    [] p.kind \in {"Log", "Unknown"}    -> <<>>
    [] p.kind = "Text"                  -> <<RawLine>>

-----------------------------------------------------------------------------
\* Specification 4.4: successful entries joined on one line after the
\* instruction name and "Ok:", failed ones (if any) on a line after "Fail:",
\* and only a line of several entries wrapped in brackets.
SpecWrap(xs) == IF Len(xs) = 1 THEN xs ELSE Bracketed(xs)

SpecListLines(entries) ==
  LET Tag(flag) == IF flag THEN <<Instr, "Ok:">> ELSE <<"Fail:">>
      flags     == SelectSeq(<<TRUE, FALSE>>, LAMBDA f : MessagesWith(entries, f) # <<>>)
  IN [i \in 1 .. Len(flags) |->
        Line(flags[i], Tag(flags[i]) \o SpecWrap(MessagesWith(entries, flags[i])))]

-----------------------------------------------------------------------------
\* One call of formatServerResponseMessages on a payload.
VARIABLES
  payload,    \* the text frame handed over by handle_message
  displayed,  \* the call has returned
  terminal    \* the lines it appended to #pseudoTerminal

vars == <<payload, displayed, terminal>>

Init ==
  /\ payload \in Payloads
  /\ displayed = FALSE
  /\ terminal = <<>>

Display ==
  /\ ~displayed
  /\ displayed' = TRUE
  /\ terminal' = formatServerResponseMessages(payload)
  /\ UNCHANGED payload

Spec == Init /\ [][Display]_vars

-----------------------------------------------------------------------------
\* The messages on the INFO lines, read in order, are the messages of the
\* successful List entries in list order, and the ERROR lines likewise hold
\* the failed ones: the partition in formatServerResponseMessages loses,
\* repeats and reorders no entry.
MessagesOn(level) ==
  SelectSeq(FlattenSeq([i \in 1 .. Len(terminal) |->
                          IF terminal[i].level = level THEN terminal[i].words ELSE <<>>]),
            LAMBDA w : w \in Msgs)

EveryEntryShownOnce ==
  displayed /\ payload.kind = "List" =>
    /\ MessagesOn("INFO") = MessagesWith(payload.entries, TRUE)
    /\ MessagesOn("ERROR") = MessagesWith(payload.entries, FALSE)

\* A List payload is rendered as specification 4.4 says: an Ok line and a
\* Fail line, each only if it has entries, and brackets only around a line
\* of several entries.  The code picks the Fail line's wrapping by the
\* number of successful entries.
ListRenderedAsSpecified ==
  displayed /\ payload.kind = "List" => terminal = SpecListLines(payload.entries)

\* A payload that is not one of Generic, Single, List or Log is shown as raw
\* text (specification 3: "treated as raw display text, not an error").
\* The code shows text that is not JSON, and reports JSON of another shape
\* only on the console.
UnparsedShownRaw ==
  displayed /\ payload.kind \in {"Unknown", "Text"} => terminal = <<RawLine>>

=============================================================================
