------------------------------ MODULE Protocol ------------------------------
(***************************************************************************)
(* The typed run protocol of ultracode/protocol.py: the states of a run,   *)
(* the events that may move it, and the replay of an ordered event stream  *)
(* into the one snapshot it determines.  Constant-level: the module has no *)
(* variables.  Objectives, reasons, messages and time stamps are left out, *)
(* and so are the hashes that chain the events: a TLA+ sequence is ordered *)
(* and contiguous by itself.                                               *)
(***************************************************************************)
EXTENDS Naturals, Sequences, SequencesExt

CONSTANTS
  Instructions,  \* instruction identifiers a planner may submit
  Results,       \* executor results a worker may submit
  Evidenced,     \* the results that carry at least one evidence item
  Workers,       \* worker identities
  Keys,          \* idempotency keys chosen by callers
  NoKey,         \* a call without a key: the controller generates a fresh one
  None           \* Python's None

ASSUME EvidencedAssumption == Evidenced \subseteq Results

ASSUME NoneAssumption ==
  None \notin Instructions \cup Results \cup Workers \cup Keys

ASSUME NoKeyAssumption == NoKey \notin Keys

-----------------------------------------------------------------------------
RunStates ==
  {"NEW", "PLANNING", "READY_FOR_CODEX", "CODEX_RUNNING", "CODEX_COMPLETE",
   "REVIEWING", "HUMAN_REQUIRED", "FAILED", "COMPLETE", "PAUSED", "STOPPED"}

TerminalStates == {"HUMAN_REQUIRED", "FAILED", "COMPLETE", "STOPPED"}

EventTypes ==
  {"RUN_CREATED", "PLANNING_STARTED", "INSTRUCTION_SUBMITTED", "TURN_CLAIMED",
   "RESULT_SUBMITTED", "REVIEW_STARTED", "HUMAN_REQUESTED", "PAUSED",
   "RESUMED", "STOPPED", "COMPLETED", "FAILED", "LEASE_EXPIRED",
   "PROGRESS_REPORTED"}

(***************************************************************************)
(* An event carries its type, the caller's idempotency key (NoKey when the *)
(* controller generated one) and the one payload item the protocol reads:  *)
(* the instruction, the result, the claiming worker or the resume state.   *)
(* A creation event carries the iteration limit instead.                   *)
(***************************************************************************)
Payloads == Instructions \cup Results \cup Workers \cup RunStates \cup {None}

Events ==
       [type: EventTypes \ {"RUN_CREATED"}, key: Keys \cup {NoKey}, arg: Payloads]
  \cup [type: {"RUN_CREATED"}, key: Keys \cup {NoKey}, max: Nat \ {0}]

Event(type, k, arg) == [type |-> type, key |-> k, arg |-> arg]

RunCreated(k, max) == [type |-> "RUN_CREATED", key |-> k, max |-> max]

(***************************************************************************)
(* What replay knows of a run.  "ABSENT" stands for the missing snapshot   *)
(* (None in apply_event), "REJECTED" for a replay that raised.             *)
(***************************************************************************)
Snapshots ==
  [state: RunStates \cup {"ABSENT", "REJECTED"},
   iteration: Nat,
   maxIterations: Nat,
   instruction: Instructions \cup {None},
   result: Results \cup {None},
   pausedFrom: RunStates \cup {None}]

Absent ==
  [state |-> "ABSENT", iteration |-> 0, maxIterations |-> 0,
   instruction |-> None, result |-> None, pausedFrom |-> None]

Rejected == [Absent EXCEPT !.state = "REJECTED"]

-----------------------------------------------------------------------------
\* Mutant of ActiveStates: is_terminal is never true.
ActiveStatesAll == RunStates

\* not is_terminal
ActiveStates == RunStates \ TerminalStates

\* The states an event of each type may start from.
LegalFrom(type) ==
  CASE type = "RUN_CREATED"           -> {"ABSENT"}
    [] type = "PLANNING_STARTED"      -> {"NEW"}
    [] type = "INSTRUCTION_SUBMITTED" -> {"PLANNING", "REVIEWING"}
    [] type = "TURN_CLAIMED"          -> {"READY_FOR_CODEX"}
    [] type = "RESULT_SUBMITTED"      -> {"CODEX_RUNNING"}
    [] type = "REVIEW_STARTED"        -> {"CODEX_COMPLETE"}
    [] type = "HUMAN_REQUESTED"       ->
         {"CODEX_RUNNING", "CODEX_COMPLETE", "REVIEWING"}
    [] type = "PAUSED"                -> ActiveStates \ {"PAUSED"}
    [] type = "RESUMED"               -> {"PAUSED"}
    [] type = "LEASE_EXPIRED"         -> {"CODEX_RUNNING"}
    [] type = "PROGRESS_REPORTED"     -> {"CODEX_RUNNING"}
    [] type = "COMPLETED"             -> {"REVIEWING"}
    [] type \in {"FAILED", "STOPPED"} -> ActiveStates

\* The state a pause preserves: a running turn goes back to the ready queue.
ResumeState(s) ==
  IF s.state = "CODEX_RUNNING" THEN "READY_FOR_CODEX" ELSE s.state

Legal(s, e) ==
  /\ s.state \in LegalFrom(e.type)
  /\ e.type = "INSTRUCTION_SUBMITTED" => s.iteration < s.maxIterations
  /\ e.type = "PAUSED" => e.arg = ResumeState(s)
  /\ e.type = "RESUMED" => s.pausedFrom # None

\* Mutant of NewTurn: the result of the turn before stays.
NewTurnKeepsResult(s, i) ==
  [s EXCEPT !.state = "READY_FOR_CODEX", !.iteration = @ + 1, !.instruction = i]

NewTurn(s, i) ==
  [s EXCEPT !.state = "READY_FOR_CODEX", !.iteration = @ + 1,
            !.instruction = i, !.result = None]

\* Mutant of BackFromPause: paused_from is cleared before it is read.
BackFromPauseCleared(s) == [s EXCEPT !.state = None, !.pausedFrom = None]

BackFromPause(s) == [s EXCEPT !.state = s.pausedFrom, !.pausedFrom = None]

\* The snapshot after a legal event.
ApplyEvent(s, e) ==
  CASE e.type = "RUN_CREATED" ->
         [Absent EXCEPT !.state = "NEW", !.maxIterations = e.max]
    [] e.type = "PLANNING_STARTED" -> [s EXCEPT !.state = "PLANNING"]
    [] e.type = "INSTRUCTION_SUBMITTED" -> NewTurn(s, e.arg)
    [] e.type = "TURN_CLAIMED"     -> [s EXCEPT !.state = "CODEX_RUNNING"]
    [] e.type = "RESULT_SUBMITTED" ->
         [s EXCEPT !.state = "CODEX_COMPLETE", !.result = e.arg]
    [] e.type = "REVIEW_STARTED"   -> [s EXCEPT !.state = "REVIEWING"]
    [] e.type = "HUMAN_REQUESTED"  -> [s EXCEPT !.state = "HUMAN_REQUIRED"]
    [] e.type = "PAUSED"  -> [s EXCEPT !.state = "PAUSED", !.pausedFrom = e.arg]
    [] e.type = "RESUMED" -> BackFromPause(s)
    [] e.type = "LEASE_EXPIRED"     -> [s EXCEPT !.state = "READY_FOR_CODEX"]
    [] e.type = "PROGRESS_REPORTED" -> s
    [] e.type = "COMPLETED"         -> [s EXCEPT !.state = "COMPLETE"]
    [] e.type = "FAILED"            -> [s EXCEPT !.state = "FAILED"]
    [] e.type = "STOPPED"           -> [s EXCEPT !.state = "STOPPED"]

\* apply_event: the snapshot after the event, or the error it raises.
Applied(s, e) == IF Legal(s, e) THEN ApplyEvent(s, e) ELSE Rejected

\* The snapshot a stored stream determines, event by event; the first illegal
\* event fails the replay, and no event is legal after it.
Replay(log) ==
  LET after[n \in 0..Len(log)] ==
        IF n = 0 THEN Absent ELSE Applied(after[n - 1], log[n])
  IN  after[Len(log)]
=============================================================================
