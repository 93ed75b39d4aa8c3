------------------------- MODULE MCCommandBuilder --------------------------
(* Model values and bounded inputs for CommandBuilder.                      *)
EXTENDS CommandBuilder

CONSTANTS g1, g2

\* Every string of up to three characters over a letter, a blank and a
\* quote: blank-only, lone, paired and unpaired quotes, quotes inside and
\* around words.
Short == UNION {[1 .. n -> {"a", " ", "\""}] : n \in 0 .. 3}

\* Longer commands with two quoted runs, blanks inside them, runs of blanks
\* and a second letter to tell the arguments' order: "a b" "a", a "b  a" b,
\* "a" "b", ' "a" a "b" ', and "a""b" a (two runs glued into one match).
Q == "\""
B == " "
Long == {<<Q, "a", B, "b", Q, B, Q, "a", Q>>,
         <<"a", B, Q, "b", B, B, "a", Q, B, "b">>,
         <<Q, "a", Q, B, Q, "b", Q>>,
         <<B, Q, "a", Q, B, "a", B, Q, "b", Q, B>>,
         <<Q, "a", Q, Q, "b", Q, B, "a">>}

MCTexts == Short \cup Long

\* A tool with a Command input and frida_setup, which has none.
MCTools == {"a_d_b", "frida_setup"}

MCGuests == {g1, g2}

\* The snapshot panel precedes the exec panel in the page.
MCGuestSelectOrder == <<"snapshot", "exec">>
=============================================================================
