--------------------------- MODULE CommandBuilder ---------------------------
(***************************************************************************)
(* The command form of run_command.js and get_button_command_json, which   *)
(* turns a button press and the form into the command_json handed to       *)
(* request_command.  The form is the page state the menu and dropdown      *)
(* handlers keep: the closure variables selectedOption, selectedToolOption *)
(* and selectedSnapshotOption, the inputs generateInputs put in             *)
(* #execDynamicButtons and #dynamicButtons, and the guest dropdowns         *)
(* addDeviceDropDown fills when its state request answers.  Text typed in  *)
(* an input is a string over a small alphabet, a sequence of characters,   *)
(* because the tokeniser of convertCommandToListOfStrings is about them;   *)
(* the values of the other inputs are abstracted to their field names.     *)
(***************************************************************************)
EXTENDS Naturals, Sequences, SequencesExt, FiniteSets

CONSTANTS
  Texts,            \* the strings an operator may type in a text input
  Tools,            \* keys of toolOptions offered in #toolOptionsDropdown
  Guests,           \* names in the deployment's state json (model values)
  GuestSelectOrder  \* document order of the two panels holding a #guestName

ASSUME /\ Guests # {}
       /\ GuestSelectOrder \in {<<"snapshot", "exec">>, <<"exec", "snapshot">>}

Quote == "\""
Blank == " "

-----------------------------------------------------------------------------
(* Strings.  A string is a sequence of one-character strings.               *)

IsWordChar(c) == c \notin {Blank, Quote}

\* .trim().replace(/\s+/g, ' '): a blank is kept only between two runs of
\* other characters, once.
Normalize(s) ==
  LET keep(i) == \/ s[i] # Blank
                 \/ /\ i > 1 /\ s[i - 1] # Blank
                    /\ \E j \in i + 1 .. Len(s) : s[j] # Blank
      kept    == SelectSeq([i \in 1 .. Len(s) |-> i], LAMBDA i : keep(i))
  IN [k \in 1 .. Len(kept) |-> s[kept[k]]]

\* The closing quote of a quoted run opening at i, or 0 when there is none.
ClosingQuote(s, i) ==
  IF \E j \in i + 1 .. Len(s) : s[j] = Quote
  THEN CHOOSE j \in i + 1 .. Len(s) : s[j] = Quote /\ \A k \in i + 1 .. j - 1 : s[k] # Quote
  ELSE 0

\* One match of /(?:[^\s"]+|"[^"]*")+/ tried at position i: the position
\* after its end, or i when neither alternative matches there.
RECURSIVE MatchEnd(_, _)
MatchEnd(s, i) ==
  IF i > Len(s) THEN i
  ELSE IF IsWordChar(s[i]) THEN MatchEnd(s, i + 1)
  ELSE IF s[i] = Quote /\ ClosingQuote(s, i) > 0 THEN MatchEnd(s, ClosingQuote(s, i) + 1)
  ELSE i

\* Mutant: the scan stops at the first position where no match starts.
RECURSIVE Matches_stopAtGap(_, _)
Matches_stopAtGap(s, i) ==
  IF i > Len(s) \/ MatchEnd(s, i) = i THEN <<>>
  ELSE <<SubSeq(s, i, MatchEnd(s, i) - 1)>> \o Matches_stopAtGap(s, MatchEnd(s, i))

\* String.match with the g flag: every match, scanning on past a position
\* where none starts.
RECURSIVE Matches(_, _)
Matches(s, i) ==
  IF i > Len(s) THEN <<>>
  ELSE IF MatchEnd(s, i) = i THEN Matches(s, i + 1)
  ELSE <<SubSeq(s, i, MatchEnd(s, i) - 1)>> \o Matches(s, MatchEnd(s, i))

\* Mutant: the matched arguments are kept with their quotes.
StripQuotes_kept(tok) == tok

\* arg.replace(/(^"|"$)/g, ''): one leading and one trailing quote go.
StripQuotes(tok) ==
  SubSeq(tok, IF tok[1] = Quote THEN 2 ELSE 1,
              IF Len(tok) > 1 /\ tok[Len(tok)] = Quote THEN Len(tok) - 1 ELSE Len(tok))

\* convertCommandToListOfStrings on a normalised command: match returns
\* null when nothing matches, and null.map throws.
Tokenize(s) ==
  LET ms == Matches(s, 1)
  IN IF ms = <<>> THEN [throws |-> TRUE, args |-> <<>>]
     ELSE [throws |-> FALSE, args |-> [i \in 1 .. Len(ms) |-> StripQuotes(ms[i])]]

-----------------------------------------------------------------------------
(* Specification 4.1: text is tokenized into an argument list honouring     *)
(* double-quoted substrings as single tokens.  The reference reads a string *)
(* left to right: a quote toggles quoting and is dropped, a blank outside   *)
(* quotes ends a token.                                                     *)
RECURSIVE Scan(_, _, _, _, _, _)
Scan(s, i, cur, started, quoted, acc) ==
  IF i > Len(s) THEN IF started THEN Append(acc, cur) ELSE acc
  ELSE IF s[i] = Quote THEN Scan(s, i + 1, cur, TRUE, ~quoted, acc)
  ELSE IF s[i] = Blank /\ ~quoted
       THEN Scan(s, i + 1, <<>>, FALSE, quoted, IF started THEN Append(acc, cur) ELSE acc)
  ELSE Scan(s, i + 1, Append(cur, s[i]), TRUE, quoted, acc)

SpecTokens(s) == Scan(s, 1, <<>>, FALSE, FALSE, <<>>)

\* Quotes come in pairs, each opening one at the start of a word and each
\* closing one at its end: the inputs on which the specification's wording
\* leaves no doubt.
WellQuoted(s) ==
  LET qs   == SelectSeq([i \in 1 .. Len(s) |-> i], LAMBDA i : s[i] = Quote)
      open(k) == k % 2 = 1
  IN /\ Len(qs) % 2 = 0
     /\ \A k \in 1 .. Len(qs) :
          IF open(k) THEN qs[k] = 1 \/ s[qs[k] - 1] = Blank
          ELSE qs[k] = Len(s) \/ s[qs[k] + 1] = Blank

-----------------------------------------------------------------------------
(* The form.                                                                *)

\* toolOptions: the tools whose form has a Command text input.
CommandTools == {"a_d_b", "test_permissions", "test_privacy", "t_l_s_intercept"}

\* The inputs generateInputs creates for an exec subcommand, a tool and a
\* snapshot subcommand (a 'guest' field is a dropdown, not an input).
ExecFields(o) ==
  CASE o = "shell_command" -> {"command"}
    [] o = "user_script"   -> {"script", "run_on_master"}
    [] OTHER               -> {}

ToolFields(t) == IF t \in CommandTools THEN {"command"} ELSE {}

SnapshotFields(o) ==
  CASE o \in {"create", "delete", "restore"} -> {"snapshot", "all"}
    [] o = "list"                           -> {"all"}
    [] OTHER                                -> {}

ExecSubcommands == {"shell_command", "user_script", "tool"}
SnapshotSubcommands == {"create", "delete", "info", "list", "restore"}

\* The buttons of class orchestration-button, and the string sub-commands.
Buttons == {"upButton", "downButton", "snapshotButton", "generateArtefactsButton",
            "clearArtefactsButton", "testbedSnapshotButton", "listCloudImagesButton",
            "analysisToolsButton", "execButton"}

PlainCommand(b) ==
  CASE b = "downButton"              -> "Down"
    [] b = "generateArtefactsButton" -> "GenerateArtefacts"
    [] b = "clearArtefactsButton"    -> "ClearArtefacts"
    [] b = "listCloudImagesButton"   -> "CloudImages"

Panels == {"exec", "snapshot"}

VARIABLES
  selectedOption,          \* exec subcommand last picked in #execSubcommandMenu
  selectedToolOption,      \* last value the #toolOptionsDropdown change handler saw
  selectedSnapshotOption,  \* snapshot subcommand last picked in #subcommandMenu
  tool_select,             \* value shown by #toolOptionsDropdown, or "absent"
  exec_inputs,             \* ids of the inputs in #execDynamicButtons
  snap_inputs,             \* ids of the inputs in #dynamicButtons
  guest,                   \* per panel: its guest row "none", "pending", or the guest selected
  request,                 \* command_json of the last press, Threw, or NoRequest
  typed                    \* history: the normalised Command text the last press read

vars == <<selectedOption, selectedToolOption, selectedSnapshotOption, tool_select,
          exec_inputs, snap_inputs, guest, request, typed>>

NoRequest == [kind |-> "none"]
Threw     == [kind |-> "threw"]

\* toolingGetGuestName: $('#guestName').val() reads the first #guestName
\* in the document; with none it is undefined.
GuestName ==
  LET loaded == SelectSeq(GuestSelectOrder, LAMBDA p : guest[p] \in Guests)
  IN IF loaded = <<>> THEN "undefined" ELSE guest[Head(loaded)]

\* The Exec sub_command for the typed text t (read only if a Command input
\* is on the form).  A tool with arguments has its command tokenized; a
\* tool without is named alone.
ExecRequest(t) ==
  LET tool == selectedOption = "tool"
      cmd  == IF "command" \in exec_inputs THEN Normalize(t) ELSE <<>>
      tok  == Tokenize(cmd)
      conv == tool /\ exec_inputs # {} /\ selectedToolOption \in CommandTools
  IN IF conv /\ ("command" \notin exec_inputs \/ tok.throws) THEN Threw
     ELSE [kind    |-> "Exec",
           guest   |-> GuestName,
           ctype   |-> selectedOption,
           tool    |-> IF tool THEN selectedToolOption ELSE "",
           args    |-> IF tool /\ selectedToolOption = "frida_setup" THEN {} ELSE exec_inputs,
           command |-> IF conv THEN tok.args
                       ELSE IF "command" \in exec_inputs THEN <<cmd>> ELSE <<>>]

\* Mutant: an unlisted button sends its id as the sub-command.
Commands_buttonId(b, t) ==
  CASE b = "upButton" ->
         {[kind |-> "Up", provision |-> p, rerun_scripts |-> r, reapply_acl |-> FALSE] :
            p, r \in BOOLEAN}
    [] b = "snapshotButton" ->
         {[kind |-> "Snapshot", sub |-> selectedSnapshotOption, args |-> snap_inputs]}
    [] b = "testbedSnapshotButton" ->
         {[kind |-> "TestbedSnapshot", snapshot_guests |-> g] : g \in BOOLEAN}
    [] b = "execButton" -> {ExecRequest(t)}
    [] b = "analysisToolsButton" -> {[kind |-> "null"]}
    [] OTHER -> {[kind |-> b]}

\* get_button_command_json for button b and the text t in the Command
\* input: the commands it can build from the checkboxes.  #upReRunACLFlag is looked up
\* without its '#', so reapply_acl is always false.
Commands(b, t) ==
  CASE b = "upButton" ->
         {[kind |-> "Up", provision |-> p, rerun_scripts |-> r, reapply_acl |-> FALSE] :
            p, r \in BOOLEAN}
    [] b = "snapshotButton" ->
         {[kind |-> "Snapshot", sub |-> selectedSnapshotOption, args |-> snap_inputs]}
    [] b = "testbedSnapshotButton" ->
         {[kind |-> "TestbedSnapshot", snapshot_guests |-> g] : g \in BOOLEAN}
    [] b = "execButton" -> {ExecRequest(t)}
    [] b = "analysisToolsButton" -> {[kind |-> "null"]}
    [] OTHER -> {[kind |-> PlainCommand(b)]}

-----------------------------------------------------------------------------
Init ==
  /\ selectedOption = ""
  /\ selectedToolOption = ""
  /\ selectedSnapshotOption = ""
  /\ tool_select = "absent"
  /\ exec_inputs = {}
  /\ snap_inputs = {}
  /\ guest = [p \in Panels |-> "none"]
  /\ request = NoRequest
  /\ typed = <<>>

\* A click in #execSubcommandMenu: both handlers run.  "tool" replaces the
\* panel by a fresh dropdown showing "Select Tool Option"; any other
\* subcommand by its inputs and a guest row whose state request is sent.
SelectExecSubcommand(o) ==
  /\ selectedOption' = o
  /\ IF o = "tool"
     THEN /\ tool_select' = ""
          /\ exec_inputs' = {}
          /\ guest' = [guest EXCEPT !["exec"] = "none"]
     ELSE /\ tool_select' = "absent"
          /\ exec_inputs' = ExecFields(o)
          /\ guest' = [guest EXCEPT !["exec"] = "pending"]
  /\ UNCHANGED <<selectedToolOption, selectedSnapshotOption, snap_inputs, request, typed>>

\* The delegated change handler on #execDynamicButtons stores the value of
\* #toolOptionsDropdown in the closure variable.
StoreSelectedTool(t) == selectedToolOption' = t

\* A change of #toolOptionsDropdown: the handler bound on the dropdown
\* rebuilds the inputs and the guest row, and the delegated one stores the
\* value in selectedToolOption.
ChooseTool(t) ==
  /\ tool_select # "absent"
  /\ tool_select' = t
  /\ StoreSelectedTool(t)
  /\ exec_inputs' = ToolFields(t)
  /\ guest' = [guest EXCEPT !["exec"] = "pending"]
  /\ UNCHANGED <<selectedOption, selectedSnapshotOption, snap_inputs, request, typed>>

\* A click in #subcommandMenu: both handlers run; every snapshot form has a
\* guest row.
SelectSnapshotSubcommand(o) ==
  /\ selectedSnapshotOption' = o
  /\ snap_inputs' = SnapshotFields(o)
  /\ guest' = [guest EXCEPT !["snapshot"] = "pending"]
  /\ UNCHANGED <<selectedOption, selectedToolOption, tool_select, exec_inputs, request, typed>>

\* The state request of the panel's current guest row answers: the select
\* is filled and shows the first guest of the state json.  (Answers for
\* rows already removed fill detached elements.)
FirstGuest == CHOOSE g \in Guests : TRUE

GuestsLoaded(p) ==
  /\ guest[p] = "pending"
  /\ guest' = [guest EXCEPT ![p] = FirstGuest]
  /\ UNCHANGED <<selectedOption, selectedToolOption, selectedSnapshotOption,
                 tool_select, exec_inputs, snap_inputs, request, typed>>

\* The operator picks another guest in a filled dropdown.
PickGuest(p) ==
  /\ guest[p] \in Guests
  /\ \E g \in Guests : guest' = [guest EXCEPT ![p] = g]
  /\ UNCHANGED <<selectedOption, selectedToolOption, selectedSnapshotOption,
                 tool_select, exec_inputs, snap_inputs, request, typed>>

\* An orchestration button: the command is built and handed to
\* request_command, unless building it throws.
Click(b) ==
  /\ \E t \in IF b = "execButton" /\ "command" \in exec_inputs THEN Texts ELSE {<<>>} :
       /\ request' \in Commands(b, t)
       /\ typed' = Normalize(t)
  /\ UNCHANGED <<selectedOption, selectedToolOption, selectedSnapshotOption,
                 tool_select, exec_inputs, snap_inputs, guest>>

Next ==
  \/ \E o \in ExecSubcommands : SelectExecSubcommand(o)
  \/ \E t \in {""} \cup Tools : ChooseTool(t)
  \/ \E o \in SnapshotSubcommands : SelectSnapshotSubcommand(o)
  \/ \E p \in Panels : GuestsLoaded(p) \/ PickGuest(p)
  \/ \E b \in Buttons : Click(b)

\* Every step is the operator's or an answer the browser may never get: no
\* fairness, and only safety is checked.
Spec == Init /\ [][Next]_vars

-----------------------------------------------------------------------------
TypeOK ==
  /\ selectedOption \in {""} \cup ExecSubcommands
  /\ selectedToolOption \in {""} \cup Tools
  /\ selectedSnapshotOption \in {""} \cup SnapshotSubcommands
  /\ tool_select \in {"absent", ""} \cup Tools
  /\ exec_inputs \subseteq {"command", "script", "run_on_master"}
  /\ snap_inputs \subseteq {"snapshot", "all"}
  /\ guest \in [Panels -> {"none", "pending"} \cup Guests]
  /\ typed \in {Normalize(t) : t \in Texts \cup {<<>>}}
  /\ request.kind \in {"none", "threw", "Up", "Down", "Snapshot", "GenerateArtefacts",
                       "ClearArtefacts", "TestbedSnapshot", "CloudImages", "null", "Exec"}

(* The tokeniser of convertCommandToListOfStrings splits a tool command as  *)
(* specification 4.1 says: whenever its quotes pair up around whole words, *)
(* the argument list sent is the words, a quoted run being one word        *)
(* without its quotes, in order.                                           *)
TokensAsSpecified ==
  /\ request.kind = "Exec" /\ request.tool \in CommandTools /\ "command" \in request.args
  /\ WellQuoted(typed)
  => request.command = SpecTokens(typed)

(* A press of the exec button fails only on a tool command without a word: *)
(* String.match returning null, which makes the handler throw and send     *)
(* nothing, needs a command of only blanks or a lone quote.                *)
BuildFailsOnlyWithoutWords ==
  request = Threw => ~\E i \in DOMAIN typed : IsWordChar(typed[i])

(* Every tool command names the tool the dropdown shows.  Leaving "tool"   *)
(* for another subcommand and coming back shows a fresh dropdown on "Select *)
(* Tool Option", but selectedToolOption keeps the tool chosen before, and a *)
(* press of the exec button sends that tool without arguments.             *)
ToolRequestMatchesTool ==
  [][(\E b \in Buttons : Click(b)) =>
       (request'.kind = "Exec" /\ request'.ctype = "tool" => request'.tool = tool_select)]_vars

(* An exec command targets the guest selected in the exec panel, and none   *)
(* while that panel's dropdown has not been filled.  toolingGetGuestName    *)
(* reads the first element with id guestName, which the snapshot panel's   *)
(* guest row also has.                                                     *)
ExecGuestFromExecPanel ==
  [][(\E b \in Buttons : Click(b)) /\ request'.kind = "Exec" =>
       request'.guest = IF guest["exec"] \in Guests THEN guest["exec"] ELSE "undefined"]_vars

=============================================================================
