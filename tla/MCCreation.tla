------------------------------ MODULE MCCreation ------------------------------
(***************************************************************************)
(* A dialogue from its first question without failures, and the creation   *)
(* of a planned game by an administrator or a moderator with failures and  *)
(* changes of roles.                                                       *)
(***************************************************************************)
EXTENDS GameCreation

CONSTANT x

At(state, context, own, other, fails, changes) ==
    [user |-> [state |-> state, context |-> context],
     role |-> [p \in People \cup {Self} |-> IF p = Self THEN own ELSE other],
     failures |-> fails, moves |-> changes]

\* A game on day 1 that closes soon after.
Prepared(close) == [NoContext EXCEPT !.date = 1, !.amount = 1, !.close = close]

Ready(master, later, fails, changes) ==
    At("CREATE_CONFIRMATION_DEADLINE",
       [Prepared(3) EXCEPT !.master = master, !.later = later, !.confirm = 1], "admin", "moderator",
       fails, changes)

MCStarts ==
    {At("CREATE_NAME", NoContext, "moderator", "none", 0, 0),
     At("CREATE_MASTER_CHOICE", Prepared(2), "admin", "none", 0, 1),
     Ready(Self, FALSE, 1, 1), Ready(None, TRUE, 1, 0), Ready(x, FALSE, 2, 0), Ready(x, FALSE, 1, 1)}
===============================================================================
