------------------------------ MODULE TaskTables ------------------------------
(***************************************************************************)
(* The tables the Task Engine is driven by: the states of a task and of a  *)
(* step of its plan, the moves the state machine allows, and for every     *)
(* operation of the engine the states it applies from, the state it leads  *)
(* to and whether it carries an idempotency key.                           *)
(***************************************************************************)

\* The row of a task that was never created.
Absent == "absent"

TerminalStates == {"completed", "failed", "cancelled", "denied", "expired"}

LiveStates == {"created", "planning", "waiting_approval", "queued", "executing"}

TaskStates == LiveStates \cup TerminalStates

Transitions(s) ==
    CASE s = "created"          -> {"planning", "cancelled", "expired"}
      [] s = "planning"         -> {"waiting_approval", "queued", "failed",
                                    "denied", "cancelled", "expired"}
      [] s = "waiting_approval" -> {"queued", "denied", "cancelled", "expired"}
      [] s = "queued"           -> {"executing", "cancelled", "expired"}
      [] s = "executing"        -> {"completed", "failed", "waiting_approval", "queued",
                                    "denied", "cancelled", "expired"}
      [] OTHER                  -> {}

Operations == {"start_planning", "request_approval", "approve", "deny_by_approval",
               "deny_by_decision", "queue", "start", "complete", "fail", "cancel",
               "expire", "recover", "deny_by_cap", "deny_by_planning"}

Sources(op) ==
    CASE op = "start_planning"                            -> {"created"}
      [] op \in {"approve", "deny_by_approval"}           -> {"waiting_approval"}
      [] op = "start"                                     -> {"queued"}
      [] op = "deny_by_planning"                          -> {"planning"}
      [] op \in {"complete", "recover", "deny_by_cap"}    -> {"executing"}
      [] op \in {"request_approval", "deny_by_decision",
                 "queue", "fail"}                         -> {"planning", "executing"}
      [] OTHER                                            -> LiveStates

Target(op) ==
    CASE op = "start_planning"             -> "planning"
      [] op = "request_approval"           -> "waiting_approval"
      [] op \in {"approve", "queue"}       -> "queued"
      [] op = "start"                      -> "executing"
      [] op = "complete"                   -> "completed"
      [] op \in {"fail", "recover"}        -> "failed"
      [] op = "cancel"                     -> "cancelled"
      [] op = "expire"                     -> "expired"
      [] OTHER                             -> "denied"

Keyed == {"request_approval", "approve", "deny_by_approval", "deny_by_decision",
          "complete", "deny_by_cap", "deny_by_planning"}

-------------------------------------------------------------------------------

StepStates == {"pending", "running", "completed", "failed", "cancelled"}

StepTransitions(s) ==
    CASE s = "pending" -> {"running", "cancelled"}
      [] s = "running" -> {"completed", "failed", "pending", "cancelled"}
      [] OTHER         -> {}

StepOperations == {"start_step", "complete_step", "fail_step",
                   "cancel_step", "release_step", "stop_step"}

StepSource(op) == IF op \in {"start_step", "cancel_step"} THEN "pending" ELSE "running"

\* Mutant: a stopped step is given a state of its own, which no reader knows.
StepTargetStopped(op) ==
    CASE op = "start_step"    -> "running"
      [] op = "complete_step" -> "completed"
      [] op = "fail_step"     -> "failed"
      [] op = "release_step"  -> "pending"
      [] op = "stop_step"     -> "stopped"
      [] OTHER                -> "cancelled"

StepTarget(op) ==
    CASE op = "start_step"    -> "running"
      [] op = "complete_step" -> "completed"
      [] op = "fail_step"     -> "failed"
      [] op = "release_step"  -> "pending"
      [] OTHER                -> "cancelled"

KeyedSteps == {"complete_step", "release_step"}

\* The step operations that also apply to a task that has ended.
Closings == {"complete_step", "fail_step", "stop_step"}

\* ... and the one that applies to nothing else.
EndedOnly == {"stop_step"}
===============================================================================
