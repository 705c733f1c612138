------------------------------ MODULE MCPlayer ------------------------------
(***************************************************************************)
(* Instances of PlayerDialogue.                                            *)
(***************************************************************************)
EXTENDS PlayerDialogue

CONSTANTS g1, g2

Row(status) == [status |-> status, opened |-> TRUE, archived |-> FALSE, exists |-> TRUE]

Start(row1, row2, reg1, reg2, screen) ==
    [games |-> [g \in Games |-> IF g = g1 THEN row1 ELSE row2],
     regs |-> [g \in Games |-> IF g = g1 THEN reg1 ELSE reg2],
     wished |-> IF reg1 = "confirmed" THEN {g1} ELSE {},
     user |-> NewUser, keyboard |-> screen]

\* The menu of a player who is asked about g2, with the rest of the screen.
Asked(start, state, context, buttons) ==
    [start EXCEPT !.user.state = state, !.user.context = context, !.user.buttons = buttons,
                  !.keyboard = @ \cup buttons]

\* A signup beside a game that is not yet open, and one that is archived.
SigningUp ==
    {Start(row, Row("created"), "none", "none", Choice({"start", "enlist"}, {g2}))
        : row \in {[Row("created") EXCEPT !.opened = FALSE], [Row("closed") EXCEPT !.archived = TRUE]}}

Confirming == Start(Row("confirmation_open"), Row("confirmation_open"), "confirmed", "waiting",
                    Choice({"confirm"}, {g2}) \cup Choice({"cancel"}, {g1, g2}))

Wishing == Start(Row("created"), Row("created"), "waiting", "waiting",
                 Choice({"character", "co-player"}, {g1}) \cup Choice({"answer"}, {g2}))

InDialogue ==
    {Asked(s, "ENLIST_WISH_PLAY", About(g2), Buttons({"enlist:skip"}, NoGame, <<g2>>))
        : s \in {t \in SigningUp : t.games[g1].archived}}
    \cup {Asked(Confirming, "CANCEL_CONFIRM", About(g1), Buttons({"cancel:yes"}, NoGame, <<g1>>)),
          Asked(Confirming, "CONFIRM_REPLACE", [About(g2) EXCEPT !.replaced = g1], {QuestionAbout(g2, g1)})}

MCSigningUp == SigningUp

MCConfirming == {Confirming}

MCStarts == SigningUp \cup {Confirming, Wishing} \cup InDialogue
=============================================================================
