------------------------------- MODULE MCDynamo -------------------------------
(***************************************************************************)
(* Three overlapping calls of one repository: every choice of methods of   *)
(* the events, of the registrations and of the users.                      *)
(***************************************************************************)
EXTENDS DynamoStore, TLC

CONSTANTS e1, e2, p1, p2, t1, t2, h1, h2, o1, o2, c1, c2, c3

Asking(method, game) ==
    [method |-> method, game |-> game, people |-> {}, op |-> o1, value |-> None, chat |-> None,
     up |-> None, down |-> None]

For(method, people) == [Asking(method, e1) EXCEPT !.people = people]

MCEventCalls ==
    {Asking(m, e1) : m \in {"delete", "list_leaders", "archive", "unarchive",
        "complete_scheduled_close_actions", "open_confirmation", "set_public_table"}}
    \cup {For("add_leader", {p2}), For("remove_leader", {p1}), Asking("delete", e2)}
    \cup {[Asking("start_scheduled_close", e1) EXCEPT !.op = o] : o \in Operations}
    \cup {[Asking("set_status", e1) EXCEPT !.value = "created"],
          [Asking("set_registration_open_at", e1) EXCEPT !.value = TRUE],
          [Asking("create", e2) EXCEPT !.value = t1, !.people = {p1}],
          [Asking("create", e2) EXCEPT !.value = t2],
          [Asking("bind_telegram_chat", e1) EXCEPT !.chat = h1],
          [Asking("bind_telegram_chat", e2) EXCEPT !.chat = h1],
          [Asking("migrate_telegram_chat", e1) EXCEPT !.value = h1, !.chat = h2]}

MCRegistrationCalls ==
    {For(m, {p1}) : m \in {"enlist", "cancel_linked", "remove_many", "mark_delivered"}}
    \cup {[For("enlist", {p}) EXCEPT !.op = o2] : p \in People}
    \cup {For("update_linked_wish", {p1, p2}),
          [For("confirm_linked", {p1, p2}) EXCEPT !.op = o2],
          [For("confirm_linked", {p1}) EXCEPT !.value = e2],
          [For("swap_queue_positions", {p1, p2}) EXCEPT
            !.up = p2, !.down = p1, !.value = <<1, 0>>, !.op = o2],
          Asking("sift_waiting_to_end", e1), Asking("delete_for_event", e1)}

MCUserCalls ==
    {For("save", {p1}), For("clear_privileged_role", {p1}), For("grant_larp_experience", {p1})}
    \cup {[For("claim_delivery", {p1}) EXCEPT !.op = o] : o \in Operations}
    \cup {[For("set_privileged_role", {p1}) EXCEPT !.op = o2, !.value = r] :
            r \in {"moderator", "viewer"}}

\* Two arbitrary calls of a repository, and one that takes or frees what they use.
Beside(offered, third) ==
    {f \in [Process -> offered \cup {third}] : f[c3] = third /\ f[c1] \in offered /\ f[c2] \in offered}

\* Whoever creates a game does it from the same staged row.
OneRow(calling) ==
    \A c, d \in Process :
        calling[c].method = "create" /\ calling[d].method = "create" => calling[c] = calling[d]

MCWorkloads ==
    {f \in Beside(MCEventCalls, [Asking("bind_telegram_chat", e2) EXCEPT !.chat = h1]) : OneRow(f)}
    \cup Beside(MCRegistrationCalls, For("remove_many", {p1}))
    \cup Beside(MCUserCalls, For("clear_privileged_role", {p1}))

Tables(rows) == [k \in Key |-> IF k \in DOMAIN rows THEN rows[k] ELSE NoDoc]

Enrolled(status, at) ==
    [kind |-> "registration", status |-> status, at |-> at, op |-> None, told |-> FALSE]

Player == [NewUser EXCEPT !.role = "moderator", !.grant = o1]

People1 ==
    (<<"registration", e1, p1>> :> Enrolled("waiting", 0))
    @@ (<<"registration", e1, p2>> :> Enrolled("confirmed", 1))
    @@ (<<"registration", e2, p1>> :> Enrolled("confirmed", 0))
    @@ (<<"user", p1>> :> Player)

MCStores ==
    {Tables((<<"event", e1>> :> [NewEvent(t1) EXCEPT !.planned = TRUE, !.chat = h1])
            @@ (<<"leader", e1, p1>> :> Leader) @@ People1),
     Tables((<<"event", e1>> :> NewEvent(t1)) @@ (<<"event", e2>> :> NewEvent(t2)))}

MCSymmetry == Permutations({c1, c2})
=============================================================================
