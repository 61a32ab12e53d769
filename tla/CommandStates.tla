---------------------------- MODULE CommandStates ----------------------------
(***************************************************************************)
(* The life of a command row as data: the states, the transition table of *)
(* the Python state machine, the transition table of the database trigger, *)
(* and what one call of transition_command does when the row it locks and *)
(* the object the session already holds (the view) disagree.               *)
(*                                                                         *)
(* Sources: app/commands/models.py, app/commands/state_machine.py,         *)
(* migrations/versions/007_add_state_transition_constraints.py.            *)
(***************************************************************************)

CommandState ==
    {"received", "validated", "awaiting_approval", "approved", "rejected",
     "queued", "delivered", "acknowledged", "running", "succeeded", "failed",
     "timed_out", "cancelled", "expired", "blocked_by_emergency_stop"}

TaskState ==
    {"pending", "queued", "delivered", "acknowledged", "running", "succeeded",
     "failed", "timed_out", "cancelled"}

ApprovalStatus == {"pending", "approved", "rejected", "expired"}

TERMINAL_STATES ==
    {"succeeded", "failed", "timed_out", "cancelled", "expired", "rejected",
     "blocked_by_emergency_stop"}

\* The Python table, as the set of pairs <<from, to>>.
ALLOWED_TRANSITIONS ==
    {"received"} \X {"validated"}
    \cup {"validated"} \X
        {"awaiting_approval", "queued", "rejected", "blocked_by_emergency_stop"}
    \cup {"awaiting_approval"} \X
        {"approved", "rejected", "expired", "cancelled"}
    \cup {"approved"} \X
        {"queued", "blocked_by_emergency_stop", "expired", "cancelled"}
    \cup {"queued"} \X
        {"delivered", "blocked_by_emergency_stop", "expired", "cancelled",
         "failed"}
    \cup {"delivered"} \X {"acknowledged", "timed_out", "cancelled", "failed"}
    \cup {"acknowledged"} \X {"running", "failed", "cancelled"}
    \cup {"running"} \X {"succeeded", "failed", "timed_out", "cancelled"}

\* The table of the trigger validate_command_state_transition.
TriggerTransitions ==
    {"received"} \X {"validated", "awaiting_approval", "queued", "cancelled"}
    \cup {"validated"} \X {"awaiting_approval", "queued", "cancelled"}
    \cup {"awaiting_approval"} \X
        {"approved", "rejected", "expired", "cancelled"}
    \cup {"approved"} \X {"queued", "cancelled"}
    \cup {"queued"} \X
        {"delivered", "expired", "cancelled", "blocked_by_emergency_stop"}
    \cup {"delivered"} \X {"acknowledged", "expired", "cancelled"}
    \cup {"acknowledged"} \X {"running", "expired", "cancelled"}
    \cup {"running"} \X {"succeeded", "failed", "cancelled", "timed_out"}
    \cup {"blocked_by_emergency_stop"} \X {"queued", "cancelled"}

\* The two checks of transition_command on the state it sees; moving to the
\* current state passes both.
PythonAllows(view, new) ==
    \/ view = new
    \/ view \notin TERMINAL_STATES /\ <<view, new>> \in ALLOWED_TRANSITIONS

\* Mutant of TriggerAllows: the migration was never applied.
NoTrigger(old, new) == TRUE

TriggerAllows(old, new) ==
    old = new \/ <<old, new>> \in TriggerTransitions

\* transition_command: the check reads the view; assigning the value the view
\* already has emits no UPDATE of the state column, any other assignment is
\* judged by the trigger against the row itself.
Outcome(view, row, new) ==
    IF ~PythonAllows(view, new) THEN "StateTransitionError"
    ELSE IF view # new /\ ~TriggerAllows(row, new) THEN "DBError"
    ELSE "ok"

RowAfter(view, row, new) == IF view = new THEN row ELSE new
=============================================================================
