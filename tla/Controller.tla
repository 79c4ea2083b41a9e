----------------------------- MODULE Controller -----------------------------
(***************************************************************************)
(* The durable controller of ultracode/controller.py.  Every mutating      *)
(* method is one BEGIN IMMEDIATE transaction on one SQLite file: planner,  *)
(* worker and control processes interleave at the granularity of whole     *)
(* calls, a raised error rolls the call back, and a crash loses nothing    *)
(* that was committed.  So a method is one action, and a call that raises  *)
(* or that only repeats a stored operation changes no state.               *)
(*                                                                         *)
(* A call made without an idempotency key uses NoKey: the generated key is *)
(* fresh and is never looked up again, so no row is kept for it.           *)
(***************************************************************************)
EXTENDS Protocol, FiniteSets

CONSTANTS
  Runs,          \* run identifiers (uuid4)
  CreateScope,   \* scope "__create_run__" of the operations table
  NoLease,       \* no row in the leases table
  NoOp,          \* no row in the operations table
  Ceiling,       \* max_iteration_ceiling
  Durations,     \* lease_seconds a worker may ask for
  MaxClaims,     \* model bound: claims handed out, over all runs
  MaxProgress,   \* model bound: progress reports per run
  MaxPauses      \* model bound: pauses per run

ASSUME ScopeAssumption == CreateScope \notin Runs

ASSUME BoundsAssumption ==
  /\ Ceiling \in Nat \ {0}
  /\ Durations \subseteq Nat \ {0}
  /\ MaxClaims \in Nat /\ MaxProgress \in Nat /\ MaxPauses \in Nat

Scopes == Runs \cup {CreateScope}

Tokens == Nat \ {0}

Leases == [worker: Workers, token: Tokens, ttl: Nat]

ASSUME NoLeaseAssumption == NoLease \notin Leases

VARIABLES
  events,   \* table events: the append-only stream of each run
  snap,     \* what _snapshot(run) returns, extended event by event
  row,      \* table runs: the cached state, iteration and version columns
  lease,    \* table leases: ttl is expires_at minus now, never below 0
  ops,      \* table operations: [scope -> [key -> stored operation]]
  issued,   \* history: the claims handed out; a lease token is an index
  answers   \* history: the tokens whose result or blocker was accepted

vars == <<events, snap, row, lease, ops, issued, answers>>

Claims == [run: Runs, worker: Workers, instruction: Instructions]

Operations ==
       [op: {"create_run"}, max: Nat, run: Runs]
  \cup [op: {"claim_turn"}, worker: Workers, seconds: Nat, token: Tokens]
  \cup [op: {"submit_instruction", "submit_result", "report_progress",
             "report_blocker", "request_human", "pause_run", "resume_run",
             "stop_run", "fail_run", "complete_run"},
        by: Workers \cup {None}, arg: Payloads]

ASSUME NoOpAssumption == NoOp \notin Operations

TypeOK ==
  /\ events \in [Runs -> Seq(Events)]
  /\ snap \in [Runs -> Snapshots]
  /\ row \in [Runs -> [state: RunStates \cup {"ABSENT", "REJECTED"},
                       iteration: Nat, version: Nat]]
  /\ lease \in [Runs -> Leases \cup {NoLease}]
  /\ ops \in [Scopes -> [Keys -> Operations \cup {NoOp}]]
  /\ issued \in Seq(Claims)
  /\ answers \in Seq(Tokens)

Init ==
  /\ events = [r \in Runs |-> <<>>]
  /\ snap = [r \in Runs |-> Absent]
  /\ row = [r \in Runs |-> [state |-> "ABSENT", iteration |-> 0, version |-> 0]]
  /\ lease = [r \in Runs |-> NoLease]
  /\ ops = [c \in Scopes |-> [k \in Keys |-> NoOp]]
  /\ issued = <<>>
  /\ answers = <<>>

-----------------------------------------------------------------------------
(* The helpers every method is built from. *)

\* _assert_run_exists, and no stored operation under this key: a key that is
\* stored either repeats the call or raises DuplicateDeliveryError.
Callable(r, k) ==
  /\ snap[r].state # "ABSENT"
  /\ k \in Keys => ops[r][k] = NoOp

\* Mutant of Store: create_run stores no operation.
StoreNotCreate(scope, k, operation) ==
  ops' = IF k \in Keys /\ scope # CreateScope
         THEN [ops EXCEPT ![scope][k] = operation] ELSE ops

Store(scope, k, operation) ==
  ops' = IF k \in Keys THEN [ops EXCEPT ![scope][k] = operation] ELSE ops

Request(name, worker, arg) == [op |-> name, by |-> worker, arg |-> arg]

\* Events evs appended to r's stream, whose replay is now s; runs is synced
\* once per event.
Commit(r, s, evs) ==
  /\ events' = [events EXCEPT ![r] = @ \o evs]
  /\ snap' = [snap EXCEPT ![r] = s]
  /\ row' = [row EXCEPT ![r] = [state |-> s.state, iteration |-> s.iteration,
                                version |-> @.version + Len(evs)]]

\* _append_and_sync: the replay of the longer stream raises on an illegal
\* event, and the transaction rolls back.
AppendAndSync(r, e) ==
  /\ Legal(snap[r], e)
  /\ Commit(r, ApplyEvent(snap[r], e), <<e>>)

\* Mutant of ReviewPrefix: the review starts without an event.
ReviewPrefixUnrecorded(r, k) == <<>>

\* A planner call on a finished turn first starts its review, in the same
\* transaction as the event that ends the review.
ReviewPrefix(r, k) ==
  IF snap[r].state = "CODEX_COMPLETE"
  THEN <<Event("REVIEW_STARTED", k, None)>> ELSE <<>>

Reviewed(r) ==
  IF snap[r].state = "CODEX_COMPLETE"
  THEN [snap[r] EXCEPT !.state = "REVIEWING"] ELSE snap[r]

ReviewAndAppend(r, k, e) ==
  /\ Legal(Reviewed(r), e)
  /\ Commit(r, ApplyEvent(Reviewed(r), e), ReviewPrefix(r, k) \o <<e>>)

\* Mutant of SubmittedInstructions: only the current instruction is compared.
SubmittedInstructionsCurrent(r) == {snap[r].instruction}

\* _instruction_id_exists looks at the authoritative events.
SubmittedInstructions(r) ==
  {events[r][j].arg : j \in
     {n \in DOMAIN events[r] : events[r][n].type = "INSTRUCTION_SUBMITTED"}}

Occurrences(r, type) ==
  Cardinality({j \in DOMAIN events[r] : events[r][j].type = type})

\* Mutants of DeleteLease: the row stays; WHERE run_id is missing.
DeleteLeaseForgotten(r) == lease' = lease

DeleteLeaseEveryRun(r) == lease' = [q \in Runs |-> NoLease]

DeleteLease(r) == lease' = [lease EXCEPT ![r] = NoLease]

\* Mutants of LeaseExpired: expires_at is not compared; the lifecycle state is
\* the wrong one.
LeaseExpiredAlways(r) == snap[r].state = "CODEX_RUNNING" /\ lease[r] # NoLease

LeaseExpiredReady(r) ==
  snap[r].state = "READY_FOR_CODEX" /\ lease[r] # NoLease /\ ~(lease[r].ttl > 0)

\* The test of _recover_expired_lease: not expires_at > now.
LeaseExpired(r) ==
  /\ snap[r].state = "CODEX_RUNNING"
  /\ lease[r] # NoLease
  /\ ~(lease[r].ttl > 0)

ExpiryEvent == Event("LEASE_EXPIRED", NoKey, None)

\* Mutant of AssertLease: the token is not compared.
AssertLeaseAnyToken(r, w, t) ==
  lease[r] # NoLease /\ lease[r].worker = w /\ lease[r].ttl > 0

AssertLease(r, w, t) ==
  /\ lease[r] # NoLease
  /\ lease[r].worker = w
  /\ lease[r].token = t
  /\ lease[r].ttl > 0

-----------------------------------------------------------------------------
(* The methods. *)

CreateRun(r, k, max) ==
  /\ k \in Keys => ops[CreateScope][k] = NoOp
  /\ snap[r] = Absent
  /\ LET evs == <<RunCreated(k, max), Event("PLANNING_STARTED", k, None)>>
         s   == ApplyEvent(ApplyEvent(Absent, evs[1]), evs[2])
     IN  Commit(r, s, evs)
  /\ Store(CreateScope, k, [op |-> "create_run", max |-> max, run |-> r])
  /\ UNCHANGED <<lease, issued, answers>>

\* At the iteration limit the run fails instead of taking the instruction.
SubmitInstruction(r, k, i) ==
  /\ Callable(r, k)
  /\ i \notin SubmittedInstructions(r)
  /\ Reviewed(r).state \in {"PLANNING", "REVIEWING"}
  /\ ReviewAndAppend(r, k,
       IF Reviewed(r).iteration >= Reviewed(r).maxIterations
       THEN Event("FAILED", k, None)
       ELSE Event("INSTRUCTION_SUBMITTED", k, i))
  /\ Store(r, k, Request("submit_instruction", None, i))
  /\ UNCHANGED <<lease, issued, answers>>

\* An expired claim is recovered in the transaction that hands out the next.
ClaimTurn(r, k, w, d) ==
  /\ Len(issued) < MaxClaims
  /\ Callable(r, k)
  /\ LET s == IF LeaseExpired(r)
              THEN ApplyEvent(snap[r], ExpiryEvent) ELSE snap[r]
         e == Event("TURN_CLAIMED", k, w)
         t == Len(issued) + 1
     IN  /\ s.state = "READY_FOR_CODEX"
         /\ s.instruction # None
         /\ LeaseExpired(r) \/ lease[r] = NoLease
         /\ Commit(r, ApplyEvent(s, e),
                   IF LeaseExpired(r) THEN <<ExpiryEvent, e>> ELSE <<e>>)
         /\ lease' = [lease EXCEPT ![r] = [worker |-> w, token |-> t, ttl |-> d]]
         /\ issued' = Append(issued,
              [run |-> r, worker |-> w, instruction |-> s.instruction])
         /\ Store(r, k, [op |-> "claim_turn", worker |-> w, seconds |-> d,
                         token |-> t])
  /\ UNCHANGED answers

SubmitResult(r, k, w, t, x) ==
  /\ Callable(r, k)
  /\ snap[r].state = "CODEX_RUNNING"
  /\ AssertLease(r, w, t)
  /\ DeleteLease(r)
  /\ AppendAndSync(r, Event("RESULT_SUBMITTED", k, x))
  /\ Store(r, k, Request("submit_result", w, x))
  /\ answers' = Append(answers, t)
  /\ UNCHANGED issued

ReportProgress(r, k, w, t) ==
  /\ Occurrences(r, "PROGRESS_REPORTED") < MaxProgress
  /\ Callable(r, k)
  /\ AssertLease(r, w, t)
  /\ AppendAndSync(r, Event("PROGRESS_REPORTED", k, None))
  /\ Store(r, k, Request("report_progress", w, None))
  /\ UNCHANGED <<lease, issued, answers>>

ReportBlocker(r, k, w, t) ==
  /\ Callable(r, k)
  /\ AssertLease(r, w, t)
  /\ DeleteLease(r)
  /\ AppendAndSync(r, Event("HUMAN_REQUESTED", k, None))
  /\ Store(r, k, Request("report_blocker", w, None))
  /\ answers' = Append(answers, t)
  /\ UNCHANGED issued

RequestHuman(r, k) ==
  /\ Callable(r, k)
  /\ Reviewed(r).state \in {"CODEX_RUNNING", "REVIEWING"}
  /\ IF snap[r].state = "CODEX_RUNNING" THEN DeleteLease(r) ELSE UNCHANGED lease
  /\ ReviewAndAppend(r, k, Event("HUMAN_REQUESTED", k, None))
  /\ Store(r, k, Request("request_human", None, None))
  /\ UNCHANGED <<issued, answers>>

PauseRun(r, k) ==
  /\ Occurrences(r, "PAUSED") < MaxPauses
  /\ Callable(r, k)
  /\ snap[r].state \notin TerminalStates \cup {"PAUSED"}
  /\ IF snap[r].state = "CODEX_RUNNING" THEN DeleteLease(r) ELSE UNCHANGED lease
  /\ AppendAndSync(r, Event("PAUSED", k, ResumeState(snap[r])))
  /\ Store(r, k, Request("pause_run", None, None))
  /\ UNCHANGED <<issued, answers>>

ResumeRun(r, k) ==
  /\ Callable(r, k)
  /\ snap[r].state = "PAUSED"
  /\ AppendAndSync(r, Event("RESUMED", k, None))
  /\ Store(r, k, Request("resume_run", None, None))
  /\ UNCHANGED <<lease, issued, answers>>

StopRun(r, k) ==
  /\ Callable(r, k)
  /\ snap[r].state \notin TerminalStates
  /\ DeleteLease(r)
  /\ AppendAndSync(r, Event("STOPPED", k, None))
  /\ Store(r, k, Request("stop_run", None, None))
  /\ UNCHANGED <<issued, answers>>

\* No guard of its own: the replay refuses a terminal run.
FailRun(r, k) ==
  /\ Callable(r, k)
  /\ DeleteLease(r)
  /\ AppendAndSync(r, Event("FAILED", k, None))
  /\ Store(r, k, Request("fail_run", None, None))
  /\ UNCHANGED <<issued, answers>>

\* Mutant of HasEvidence: any result will do.
HasEvidenceAny(s) == s.result # None

HasEvidence(s) == s.result \in Evidenced

\* Mutant of CompleteRun: the raise on missing evidence does not roll back.
CompleteRunNoRollback(r, k) ==
  /\ Callable(r, k)
  /\ Reviewed(r).state = "REVIEWING"
  /\ IF HasEvidence(Reviewed(r))
     THEN /\ ReviewAndAppend(r, k, Event("COMPLETED", k, None))
          /\ Store(r, k, Request("complete_run", None, None))
     ELSE Commit(r, Reviewed(r), ReviewPrefix(r, k)) /\ UNCHANGED ops
  /\ UNCHANGED <<lease, issued, answers>>

\* The evidence check runs after REVIEW_STARTED was appended; when it raises,
\* the review start is rolled back with the rest.
CompleteRun(r, k) ==
  /\ Callable(r, k)
  /\ Reviewed(r).state = "REVIEWING"
  /\ HasEvidence(Reviewed(r))
  /\ ReviewAndAppend(r, k, Event("COMPLETED", k, None))
  /\ Store(r, k, Request("complete_run", None, None))
  /\ UNCHANGED <<lease, issued, answers>>

\* One transaction over every lease row.
RecoverExpiredLeases ==
  LET expired == {r \in Runs : LeaseExpired(r)}
      back(r) == ApplyEvent(snap[r], ExpiryEvent)
  IN  /\ expired # {}
      /\ events' = [r \in Runs |-> IF r \in expired
                                   THEN Append(events[r], ExpiryEvent)
                                   ELSE events[r]]
      /\ snap' = [r \in Runs |-> IF r \in expired THEN back(r) ELSE snap[r]]
      /\ row' = [r \in Runs |->
           IF r \in expired
           THEN [state |-> back(r).state, iteration |-> back(r).iteration,
                 version |-> row[r].version + 1]
           ELSE row[r]]
      /\ lease' = [r \in Runs |-> IF r \in expired THEN NoLease ELSE lease[r]]
      /\ UNCHANGED <<ops, issued, answers>>

\* The clock every lease is compared with moves on by one unit.
Tick ==
  /\ \E r \in Runs : lease[r] # NoLease /\ lease[r].ttl > 0
  /\ lease' = [r \in Runs |->
       IF lease[r] # NoLease /\ lease[r].ttl > 0
       THEN [lease[r] EXCEPT !.ttl = @ - 1] ELSE lease[r]]
  /\ UNCHANGED <<events, snap, row, ops, issued, answers>>

-----------------------------------------------------------------------------
CallKeys == Keys \cup {NoKey}

PlannerCall(r, k) ==
  \/ \E i \in Instructions : SubmitInstruction(r, k, i)
  \/ RequestHuman(r, k)
  \/ CompleteRun(r, k)

WorkerCall(r, k) ==
  \/ \E w \in Workers, d \in Durations : ClaimTurn(r, k, w, d)
  \/ \E w \in Workers, t \in DOMAIN issued :
       \/ \E x \in Results : SubmitResult(r, k, w, t, x)
       \/ ReportProgress(r, k, w, t)
       \/ ReportBlocker(r, k, w, t)

ControlCall(r, k) ==
  \/ \E max \in 1..Ceiling : CreateRun(r, k, max)
  \/ PauseRun(r, k)
  \/ ResumeRun(r, k)
  \/ StopRun(r, k)
  \/ FailRun(r, k)

Next ==
  \/ \E r \in Runs, k \in CallKeys :
       PlannerCall(r, k) \/ WorkerCall(r, k) \/ ControlCall(r, k)
  \/ RecoverExpiredLeases
  \/ Tick

Spec == Init /\ [][Next]_vars

-----------------------------------------------------------------------------
(* Properties. *)

\* The leases table and the replayed lifecycle agree: a run has a lease row
\* exactly while it is CODEX_RUNNING, and the row is the run's newest claim,
\* which handed out the instruction that is current now.  Methods read the
\* two separately, and most delete the row before they append an event.
LeaseMatchesTurn ==
  \A r \in Runs :
    /\ lease[r] # NoLease <=> snap[r].state = "CODEX_RUNNING"
    /\ lease[r] # NoLease =>
         LET t == lease[r].token
         IN  /\ t \in DOMAIN issued
             /\ issued[t] = [run |-> r, worker |-> lease[r].worker,
                             instruction |-> snap[r].instruction]
             /\ \A later \in DOMAIN issued :
                  issued[later].run = r => later <= t

\* The cached columns of the runs table and the replay of the whole stream
\* never drift apart, whatever was rolled back, and version counts events.
ReplayAgrees ==
  \A r \in Runs :
    /\ snap[r] = Replay(events[r])
    /\ row[r] = [state |-> snap[r].state, iteration |-> snap[r].iteration,
                 version |-> Len(events[r])]

\* No committed transaction leaves a run in NEW or REVIEWING: the review that
\* submit_instruction, request_human and complete_run start ends in the same
\* transaction or is rolled back, so a pause never has to preserve one.
NoRestingReview ==
  \A r \in Runs :
    /\ snap[r].state \notin {"NEW", "REVIEWING", "REJECTED"}
    /\ snap[r].pausedFrom \in {None, "PLANNING", "READY_FOR_CODEX",
                               "CODEX_COMPLETE"}

\* A key's effect happens at most once per run however often the call is
\* retried: its event is in the stream exactly when its operation is stored.
KeyedEffectOnce ==
  LET Keyed(r, k) == {j \in DOMAIN events[r] :
        /\ events[r][j].key = k
        /\ events[r][j].type \notin {"RUN_CREATED", "PLANNING_STARTED",
                                     "REVIEW_STARTED"}}
      Created(k) == {r \in Runs : events[r] # <<>> /\ events[r][1].key = k}
  IN  \A k \in Keys :
        /\ \A r \in Runs : Cardinality(Keyed(r, k)) =
             IF ops[r][k] = NoOp THEN 0 ELSE 1
        /\ Cardinality(Created(k)) = IF ops[CreateScope][k] = NoOp THEN 0 ELSE 1

\* The stream itself bounds the loop: instruction ids are never reused, their
\* number is the iteration and within the limit, and two results never answer
\* one instruction, even after expiry, pause and a second claim.
OneResultPerInstruction ==
  \A r \in Runs :
    LET At(type) == {j \in DOMAIN events[r] : events[r][j].type = type}
    IN  /\ Cardinality(At("INSTRUCTION_SUBMITTED")) = snap[r].iteration
        /\ Cardinality(SubmittedInstructions(r)) = snap[r].iteration
        /\ snap[r].iteration <= snap[r].maxIterations
        /\ \A i, j \in At("RESULT_SUBMITTED") : i < j =>
             \E n \in At("INSTRUCTION_SUBMITTED") : i < n /\ n < j

\* A completed run rests on evidence for its last instruction: no instruction
\* follows the last result, and that result carries evidence.
CompletionIsEvidenced ==
  \A r \in Runs : snap[r].state = "COMPLETE" =>
    \E j \in DOMAIN events[r] :
      /\ events[r][j].type = "RESULT_SUBMITTED"
      /\ events[r][j].arg \in Evidenced
      /\ \A n \in DOMAIN events[r] :
           events[r][n].type \in {"INSTRUCTION_SUBMITTED", "RESULT_SUBMITTED"}
             => n <= j

\* A stream only grows, by events that its replay accepts, and the stream and
\* the lease table of a terminal run never change again.
HistoryIsFinal ==
  [][\A r \in Runs :
       /\ IsPrefix(events[r], events'[r])
       /\ snap[r].state \in TerminalStates =>
            events'[r] = events[r] /\ lease'[r] = NoLease]_vars

\* An accepted result or blocker comes from the newest claim of its run, once,
\* for the instruction that claim was handed, and nothing but progress has
\* been recorded since: a worker whose lease expired or whose run was paused
\* in between can never answer, not even when the turn is on offer again.
AnswersAreFenced ==
  [][Len(answers') > Len(answers) =>
       LET t == Last(answers')
           c == issued[t]
           s == events[c.run]
       IN  /\ \A later \in DOMAIN issued : issued[later].run = c.run => later <= t
           /\ \A j \in DOMAIN answers : answers[j] # t
           /\ c.instruction = snap[c.run].instruction
           /\ \E j \in DOMAIN s :
                /\ s[j].type = "TURN_CLAIMED" /\ s[j].arg = c.worker
                /\ \A n \in j + 1..Len(s) : s[n].type = "PROGRESS_REPORTED"]_vars

\* Until its lease has run out, a claim cannot be taken over: the run stays
\* with it or leaves CODEX_RUNNING.  A run that has no lease gets one only by
\* a new claim, so a resumed worker never regains its old one.
LiveLeaseNotStolen ==
  [][\A r \in Runs :
       /\ lease[r] # NoLease /\ lease'[r] # NoLease /\ lease[r].ttl > 0 =>
            lease'[r].token = lease[r].token
       /\ lease[r] = NoLease /\ lease'[r] # NoLease =>
            lease'[r].token = Len(issued) + 1]_vars

-----------------------------------------------------------------------------
(* The abstract loop this controller implements. *)

PhaseOf(state) ==
  CASE state = "ABSENT"          -> "unborn"
    [] state = "PLANNING"        -> "planning"
    [] state = "READY_FOR_CODEX" -> "offered"
    [] state = "CODEX_RUNNING"   -> "owned"
    [] state = "CODEX_COMPLETE"  -> "answered"
    [] state = "PAUSED"          -> "held"
    [] state = "HUMAN_REQUIRED"  -> "escalated"
    [] state = "FAILED"          -> "failed"
    [] state = "STOPPED"         -> "stopped"
    [] state = "COMPLETE"        -> "accepted"
    [] OTHER                     -> "unnamed"

Loop == INSTANCE TurnLoop WITH
  phase  <- [r \in Runs |-> PhaseOf(snap[r].state)],
  held   <- [r \in Runs |-> IF snap[r].state = "PAUSED"
                            THEN PhaseOf(snap[r].pausedFrom) ELSE "none"],
  turn   <- [r \in Runs |-> snap[r].iteration],
  limit  <- [r \in Runs |-> snap[r].maxIterations],
  proof  <- [r \in Runs |-> snap[r].result \in Evidenced],
  owner  <- [r \in Runs |-> IF lease[r] = NoLease THEN 0 ELSE lease[r].token],
  handed <- Len(issued)

\* Every behaviour of the controller is one of the abstract turn loop.
ImplementsTurnLoop == Loop!Spec

-----------------------------------------------------------------------------
(* Fairness.  Nothing in the process sweeps leases on its own: a lease that *)
(* ran out is taken back by the next claim_turn, so the assumption is that  *)
(* time passes and that workers keep polling for a turn.                    *)

PollForTurn(r) ==
  \E w \in Workers, d \in Durations : ClaimTurn(r, NoKey, w, d)

FairSpec == Spec /\ WF_vars(Tick) /\ \A r \in Runs : WF_vars(PollForTurn(r))

\* No claim holds its run for ever, even when its worker crashed; what the other
\* run does cannot keep it.  When the last claim the model allows is given out
\* nobody may poll any more, so there the property asks for nothing.
ClaimsEnd ==
  \A t \in 1..MaxClaims :
    (\E r \in Runs : lease[r] # NoLease /\ lease[r].token = t)
      ~> \/ Len(issued) = MaxClaims
         \/ ~(\E r \in Runs : lease[r] # NoLease /\ lease[r].token = t)
=============================================================================
