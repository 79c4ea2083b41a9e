----------------------------- MODULE WorkerOnce -----------------------------
(***************************************************************************)
(* The worker command: `ultracode worker-once` (ultracode/cli.py), which   *)
(* claims a turn, runs the Codex CLI on its instruction and submits what   *)
(* comes back (execute_one and execute_claim of ultracode/executor.py),    *)
(* next to planner, control and MCP workers that call the same controller. *)
(*                                                                         *)
(* Every invocation uses the same worker id and the default keys of the    *)
(* command line.  How long the CLI runs is up to the clock: by default it  *)
(* may take 900 seconds, while the lease is for 300.                       *)
(***************************************************************************)
EXTENDS Controller

CONSTANTS
  Invocations,  \* invocations of the command
  Me,           \* its --worker-id
  ClaimKey,     \* --claim-key, "worker-once:claim" by default
  ResultKey,    \* --result-key, "worker-once:result" by default
  BlockerKey,   \* the result key with ":blocker" appended
  LeaseTime     \* default_lease_seconds

\* The keys are the defaults of the command line, which are three strings.
ASSUME CommandAssumption ==
  /\ Me \in Workers
  /\ {ClaimKey, ResultKey, BlockerKey} \subseteq Keys
  /\ ClaimKey # ResultKey /\ ClaimKey # BlockerKey /\ ResultKey # BlockerKey
  /\ LeaseTime \in Durations

\* Of each invocation: where it stands, its claim, its result.  It stands at
\* "idle", "executing", "failed" or "finished" (the execution), "answered" or
\* "unrecorded" (its result), "escalated" or "unescalated" (its failure).
VARIABLE job

commandVars == <<vars, job>>

CommandInit ==
  /\ Init
  /\ job = [v \in Invocations |-> [at |-> "idle", token |-> 0, result |-> None]]

RunOf(v) == issued[job[v].token].run

\* The next invocation starts where the one before has ended.
Ended(v) == job[v].at \notin {"executing", "failed", "finished"}

Begins(v, t) ==
  job' = [job EXCEPT ![v] = [at |-> "executing", token |-> t, result |-> None]]

Reaches(v, station) == job' = [job EXCEPT ![v].at = station]

-----------------------------------------------------------------------------
\* claim_turn hands out a new claim.
ClaimNew(v, r) ==
  /\ Ended(v)
  /\ ClaimTurn(r, ClaimKey, Me, LeaseTime)
  /\ Begins(v, Len(issued) + 1)

\* The key was used before: claim_turn returns the stored claim, and looks at
\* neither the state of the run nor its lease.
ClaimStored(v, r) ==
  /\ Ended(v)
  /\ ops[r][ClaimKey] # NoOp
  /\ Begins(v, ops[r][ClaimKey].token)
  /\ UNCHANGED vars

\* executor.execute returns a result or raises ExecutorError.
Execute(v) ==
  /\ job[v].at = "executing"
  /\ \/ \E x \in Results :
          job' = [job EXCEPT ![v].at = "finished", ![v].result = x]
     \/ Reaches(v, "failed")
  /\ UNCHANGED vars

\* Mutant of SubmitStored: an earlier result is taken for this one.
SubmitStoredAny(v) ==
  /\ job[v].at = "finished"
  /\ ops[RunOf(v)][ResultKey] # NoOp
  /\ Reaches(v, "answered")
  /\ UNCHANGED vars

\* The same result is stored under the key.  The lease token is redacted
\* before a request is hashed, so it makes no difference.
SubmitStored(v) ==
  /\ job[v].at = "finished"
  /\ ops[RunOf(v)][ResultKey] = Request("submit_result", Me, job[v].result)
  /\ Reaches(v, "answered")
  /\ UNCHANGED vars

SubmitNew(v) ==
  /\ job[v].at = "finished"
  /\ SubmitResult(RunOf(v), ResultKey, Me, job[v].token, job[v].result)
  /\ Reaches(v, "answered")

\* submit_result raises; execute_one handles ExecutorError only.
SubmitRaises(v) ==
  /\ job[v].at = "finished"
  /\ IF Callable(RunOf(v), ResultKey)
     THEN ~AssertLease(RunOf(v), Me, job[v].token)
     ELSE ops[RunOf(v)][ResultKey] # Request("submit_result", Me, job[v].result)
  /\ Reaches(v, "unrecorded")
  /\ UNCHANGED vars

\* ExecutorError: the blocker is reported, or report_blocker raises in turn.
\* A second reason under the same key raises too.
Escalate(v) ==
  /\ job[v].at = "failed"
  /\ ReportBlocker(RunOf(v), BlockerKey, Me, job[v].token)
  /\ Reaches(v, "escalated")

EscalateStored(v) ==
  /\ job[v].at = "failed"
  /\ ~Callable(RunOf(v), BlockerKey)
  /\ \/ Reaches(v, "escalated")
     \/ Reaches(v, "unescalated")
  /\ UNCHANGED vars

EscalateRaises(v) ==
  /\ job[v].at = "failed"
  /\ Callable(RunOf(v), BlockerKey)
  /\ ~AssertLease(RunOf(v), Me, job[v].token)
  /\ Reaches(v, "unescalated")
  /\ UNCHANGED vars

\* The command is killed.
Die(v) ==
  /\ ~Ended(v)
  /\ Reaches(v, "idle")
  /\ UNCHANGED vars

-----------------------------------------------------------------------------
\* Workers on MCP make calls of their own and do not know the command's token.
OtherWorker(r) ==
  \/ \E w \in Workers, d \in Durations : ClaimTurn(r, NoKey, w, d)
  \/ \E w \in Workers, t \in DOMAIN issued, x \in Results :
       /\ \A q \in Runs : ops[q][ClaimKey] # NoOp => ops[q][ClaimKey].token # t
       /\ SubmitResult(r, NoKey, w, t, x)

Others ==
  /\ \/ \E r \in Runs :
          PlannerCall(r, NoKey) \/ ControlCall(r, NoKey) \/ OtherWorker(r)
     \/ Tick
  /\ UNCHANGED job

CommandNext ==
  \/ \E v \in Invocations :
       \/ \E r \in Runs : ClaimNew(v, r) \/ ClaimStored(v, r)
       \/ Execute(v) \/ SubmitStored(v) \/ SubmitNew(v) \/ SubmitRaises(v)
       \/ Escalate(v) \/ EscalateStored(v) \/ EscalateRaises(v) \/ Die(v)
  \/ Others

CommandSpec == CommandInit /\ [][CommandNext]_commandVars

-----------------------------------------------------------------------------
(* Properties. *)

\* An invocation that exits with success has its result in the history of the
\* run, under its result key, for the instruction its claim was handed: also
\* when it submitted only after another invocation with the same keys.
SuccessIsRecorded ==
  \A v \in Invocations : job[v].at = "answered" =>
    LET s == events[RunOf(v)]
        Before(j) == {n \in 1..j : s[n].type = "INSTRUCTION_SUBMITTED"}
    IN  \E j \in DOMAIN s :
          /\ s[j] = Event("RESULT_SUBMITTED", ResultKey, job[v].result)
          /\ \E n \in Before(j) :
               /\ \A k \in Before(j) : k <= n
               /\ s[n].arg = issued[job[v].token].instruction

\* A run whose worker escalated waits for a human, whatever is called later.
EscalationHolds ==
  \A v \in Invocations :
    job[v].at = "escalated" => snap[RunOf(v)].state = "HUMAN_REQUIRED"

\* "Claim and execute one available instruction": the turn an invocation
\* executes has not been answered before.
ExecutesAvailableTurn ==
  \A v \in Invocations :
    job[v].at = "executing" => \A j \in DOMAIN answers : answers[j] # job[v].token

\* "Failures intentionally become a structured human escalation": no invocation
\* whose executor failed ends while its run still waits in CODEX_RUNNING for the
\* very turn it held, its lease neither released nor taken, only run out.  That
\* a run which somebody else escalated, paused or ended refuses the report is
\* not meant.
FailuresEscalate ==
  \A v \in Invocations : job[v].at = "unescalated" =>
    LET r == RunOf(v)
    IN  ~(/\ snap[r].state = "CODEX_RUNNING"
          /\ lease[r] # NoLease
          /\ lease[r].token = job[v].token
          /\ lease[r].ttl = 0)
=============================================================================
