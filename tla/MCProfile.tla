------------------------------ MODULE MCProfile ------------------------------
(***************************************************************************)
(* An instance of ProfileDialogue.                                         *)
(***************************************************************************)
EXTENDS ProfileDialogue

CONSTANTS n1, n2

Filled(pass, details) ==
    [NewUser EXCEPT !.name = n1, !.crossplay = TRUE, !.contact = TRUE,
                    !.pass = pass, !.details = details]

Citizen == [given |-> TRUE, foreigner |-> FALSE, cyrillic |-> TRUE, latin |-> FALSE]

Foreigner == [given |-> TRUE, foreigner |-> TRUE, cyrillic |-> TRUE, latin |-> TRUE]

\* A new player, and players without a pass, with one and with a foreigner's.
MCStarts == {NewUser, Filled("not_needed", NoDetails), Filled("needed", Citizen),
             Filled("needed", Foreigner)}
=============================================================================
