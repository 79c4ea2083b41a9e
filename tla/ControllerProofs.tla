-------------------------- MODULE ControllerProofs --------------------------
(***************************************************************************)
(* What holds of the controller for every set of runs, workers, keys and   *)
(* instructions and every bound.                                           *)
(***************************************************************************)
EXTENDS Controller, TLAPS

-----------------------------------------------------------------------------
(* The protocol. *)

\* An event whose payload has the kind its type calls for.
WellFormed(e) ==
  /\ e \in Events
  /\ e.type = "INSTRUCTION_SUBMITTED" => e.arg \in Instructions
  /\ e.type = "RESULT_SUBMITTED" => e.arg \in Results
  /\ e.type = "PAUSED" => e.arg \in RunStates

\* A legal event takes a snapshot to a snapshot.
LEMMA ApplyEventType ==
  ASSUME NEW s \in Snapshots, NEW e, WellFormed(e), Legal(s, e)
  PROVE  ApplyEvent(s, e) \in Snapshots
<1>1. CASE e.type = "RUN_CREATED"
  BY <1>1 DEF Snapshots, WellFormed, Events, ApplyEvent, Absent, RunStates
<1>2. CASE e.type = "INSTRUCTION_SUBMITTED"
  <2>1. ApplyEvent(s, e) = NewTurn(s, e.arg)
    BY <1>2 DEF ApplyEvent
  <2>2. s.iteration + 1 \in Nat
    BY DEF Snapshots
  <2>3. e.arg \in Instructions
    BY <1>2 DEF WellFormed
  <2> QED
    BY <2>1, <2>2, <2>3 DEF NewTurn, Snapshots, RunStates
<1>3. CASE e.type = "RESULT_SUBMITTED"
  BY <1>3 DEF Snapshots, WellFormed, ApplyEvent, RunStates
<1>4. CASE e.type = "PAUSED"
  BY <1>4 DEF Snapshots, WellFormed, ApplyEvent, RunStates
<1>5. CASE e.type = "RESUMED"
  BY <1>5 DEF Snapshots, WellFormed, ApplyEvent, BackFromPause, Legal, RunStates
<1>6. CASE e.type \in {"PLANNING_STARTED", "TURN_CLAIMED", "REVIEW_STARTED",
                       "HUMAN_REQUESTED", "LEASE_EXPIRED"}
  BY <1>6 DEF Snapshots, WellFormed, ApplyEvent, RunStates
<1>7. CASE e.type \in {"PROGRESS_REPORTED", "COMPLETED", "FAILED", "STOPPED"}
  BY <1>7 DEF Snapshots, WellFormed, ApplyEvent, RunStates
<1> QED
  BY <1>1, <1>2, <1>3, <1>4, <1>5, <1>6, <1>7 DEF WellFormed, Events, EventTypes

\* The events the methods build without a typed payload.
LEMMA PlainEventWellFormed ==
  ASSUME NEW k \in CallKeys, NEW arg \in Payloads,
         NEW type \in EventTypes \ {"RUN_CREATED", "INSTRUCTION_SUBMITTED",
                                    "RESULT_SUBMITTED", "PAUSED"}
  PROVE  WellFormed(Event(type, k, arg))
  BY DEF WellFormed, Event, Events, EventTypes, CallKeys

-----------------------------------------------------------------------------
(* The helpers of the methods. *)

\* The helpers of a transaction, and then every call, keep the types.
LEMMA CommitType ==
  ASSUME TypeOK, NEW r \in Runs, NEW s \in Snapshots, NEW evs \in Seq(Events),
         Commit(r, s, evs)
  PROVE  /\ events' \in [Runs -> Seq(Events)]
         /\ snap' \in [Runs -> Snapshots]
         /\ row' \in [Runs -> [state: RunStates \cup {"ABSENT", "REJECTED"},
                               iteration: Nat, version: Nat]]
<1>1. events[r] \o evs \in Seq(Events)
  BY DEF TypeOK
<1>2. events' \in [Runs -> Seq(Events)]
  BY <1>1 DEF TypeOK, Commit
<1>3. snap' \in [Runs -> Snapshots]
  BY DEF TypeOK, Commit
<1>4. row[r].version + Len(evs) \in Nat
  BY DEF TypeOK
<1>5. row' \in [Runs -> [state: RunStates \cup {"ABSENT", "REJECTED"},
                         iteration: Nat, version: Nat]]
  BY <1>4 DEF TypeOK, Commit, Snapshots
<1> QED
  BY <1>2, <1>3, <1>5

LEMMA AppendAndSyncType ==
  ASSUME TypeOK, NEW r \in Runs, NEW e, WellFormed(e), AppendAndSync(r, e)
  PROVE  /\ events' \in [Runs -> Seq(Events)]
         /\ snap' \in [Runs -> Snapshots]
         /\ row' \in [Runs -> [state: RunStates \cup {"ABSENT", "REJECTED"},
                               iteration: Nat, version: Nat]]
<1>1. snap[r] \in Snapshots
  BY DEF TypeOK
<1>2. ApplyEvent(snap[r], e) \in Snapshots
  BY <1>1, ApplyEventType DEF AppendAndSync
<1>3. <<e>> \in Seq(Events)
  BY DEF WellFormed
<1> QED
  BY <1>2, <1>3, CommitType DEF AppendAndSync

LEMMA ReviewAndAppendType ==
  ASSUME TypeOK, NEW r \in Runs, NEW k \in CallKeys, NEW e, WellFormed(e),
         ReviewAndAppend(r, k, e)
  PROVE  /\ events' \in [Runs -> Seq(Events)]
         /\ snap' \in [Runs -> Snapshots]
         /\ row' \in [Runs -> [state: RunStates \cup {"ABSENT", "REJECTED"},
                               iteration: Nat, version: Nat]]
<1>1. Reviewed(r) \in Snapshots
  <2>1. snap[r] \in Snapshots
    BY DEF TypeOK
  <2> QED
    BY <2>1 DEF Reviewed, Snapshots, RunStates
<1>2. ApplyEvent(Reviewed(r), e) \in Snapshots
  BY <1>1, ApplyEventType DEF ReviewAndAppend
<1>3. ReviewPrefix(r, k) \in Seq(Events)
  <2>1. WellFormed(Event("REVIEW_STARTED", k, None))
    BY PlainEventWellFormed DEF EventTypes, Payloads
  <2>2. Event("REVIEW_STARTED", k, None) \in Events
    BY <2>1 DEF WellFormed
  <2> QED
    BY <2>2 DEF ReviewPrefix
<1>4. ReviewPrefix(r, k) \o <<e>> \in Seq(Events)
  BY <1>3 DEF WellFormed
<1> QED
  BY <1>2, <1>4, CommitType DEF ReviewAndAppend

LEMMA StoreType ==
  ASSUME TypeOK, NEW c \in Scopes, NEW k \in CallKeys, NEW o \in Operations,
         Store(c, k, o)
  PROVE  ops' \in [Scopes -> [Keys -> Operations \cup {NoOp}]]
  BY DEF TypeOK, Store

LEMMA RequestType ==
  ASSUME NEW w \in Workers \cup {None}, NEW arg \in Payloads,
         NEW name \in {"submit_instruction", "submit_result", "report_progress",
                       "report_blocker", "request_human", "pause_run",
                       "resume_run", "stop_run", "fail_run", "complete_run"}
  PROVE  Request(name, w, arg) \in Operations
  BY DEF Request, Operations

LEMMA DeleteLeaseType ==
  ASSUME TypeOK, NEW r \in Runs, DeleteLease(r)
  PROVE  lease' \in [Runs -> Leases \cup {NoLease}]
  BY DEF TypeOK, DeleteLease

-----------------------------------------------------------------------------
(* Type correctness. *)

LEMMA InitType == Init => TypeOK
  BY DEF Init, TypeOK, Snapshots, Absent, Scopes, RunStates

LEMMA CreateRunType ==
  ASSUME TypeOK, NEW r \in Runs, NEW k \in CallKeys, NEW max \in 1..Ceiling,
         CreateRun(r, k, max)
  PROVE  TypeOK'
<1> DEFINE e1 == RunCreated(k, max)
           e2 == Event("PLANNING_STARTED", k, None)
           s1 == ApplyEvent(Absent, e1)
<1>1. WellFormed(e1) /\ e1.type = "RUN_CREATED"
  BY BoundsAssumption DEF WellFormed, Events, RunCreated, CallKeys
<1>2. WellFormed(e2) /\ e2.type = "PLANNING_STARTED"
  BY PlainEventWellFormed DEF EventTypes, Payloads, Event
<1>3. Absent \in Snapshots
  BY DEF Absent, Snapshots
<1>4. Legal(Absent, e1)
  BY <1>1 DEF Legal, Absent, LegalFrom
<1>5. s1 \in Snapshots
  BY <1>1, <1>3, <1>4, ApplyEventType
<1>6. s1.state = "NEW"
  BY <1>1 DEF ApplyEvent, Absent
<1>7. Legal(s1, e2)
  BY <1>2, <1>6 DEF Legal, LegalFrom
<1>8. ApplyEvent(s1, e2) \in Snapshots
  BY <1>2, <1>5, <1>7, ApplyEventType
<1>9. <<e1, e2>> \in Seq(Events)
  BY <1>1, <1>2 DEF WellFormed
<1>10. Commit(r, ApplyEvent(s1, e2), <<e1, e2>>)
  BY DEF CreateRun
<1>11. [op |-> "create_run", max |-> max, run |-> r] \in Operations
  BY BoundsAssumption DEF Operations
<1>12. ops' \in [Scopes -> [Keys -> Operations \cup {NoOp}]]
  BY <1>11, StoreType DEF CreateRun, Scopes
<1> QED
  BY <1>8, <1>9, <1>10, <1>12, CommitType DEF TypeOK, CreateRun

LEMMA SubmitInstructionType ==
  ASSUME TypeOK, NEW r \in Runs, NEW k \in CallKeys, NEW i \in Instructions,
         SubmitInstruction(r, k, i)
  PROVE  TypeOK'
<1>1. WellFormed(Event("FAILED", k, None))
  BY PlainEventWellFormed DEF EventTypes, Payloads
<1>2. WellFormed(Event("INSTRUCTION_SUBMITTED", k, i))
  BY DEF WellFormed, Event, Events, EventTypes, CallKeys, Payloads
<1>3. Request("submit_instruction", None, i) \in Operations
  BY RequestType DEF Payloads
<1>4. ops' \in [Scopes -> [Keys -> Operations \cup {NoOp}]]
  BY <1>3, StoreType DEF SubmitInstruction, Scopes
<1> QED
  BY <1>1, <1>2, <1>4, ReviewAndAppendType DEF TypeOK, SubmitInstruction

LEMMA ClaimTurnType ==
  ASSUME TypeOK, NEW r \in Runs, NEW k \in CallKeys, NEW w \in Workers,
         NEW d \in Durations, ClaimTurn(r, k, w, d)
  PROVE  TypeOK'
<1> DEFINE s == IF LeaseExpired(r)
                THEN ApplyEvent(snap[r], ExpiryEvent) ELSE snap[r]
           e == Event("TURN_CLAIMED", k, w)
           t == Len(issued) + 1
           evs == IF LeaseExpired(r) THEN <<ExpiryEvent, e>> ELSE <<e>>
<1>1. snap[r] \in Snapshots
  BY DEF TypeOK
<1>2. WellFormed(ExpiryEvent) /\ ExpiryEvent.type = "LEASE_EXPIRED"
  BY PlainEventWellFormed DEF ExpiryEvent, EventTypes, Payloads, CallKeys, Event
<1>3. WellFormed(e) /\ e.type = "TURN_CLAIMED"
  BY PlainEventWellFormed DEF EventTypes, Payloads, Event
<1>4. s \in Snapshots
  <2>1. CASE LeaseExpired(r)
    <3>1. Legal(snap[r], ExpiryEvent)
      BY <1>2, <2>1 DEF LeaseExpired, Legal, LegalFrom
    <3> QED
      BY <1>1, <1>2, <2>1, <3>1, ApplyEventType
  <2> QED
    BY <1>1, <2>1
<1>5. s.state = "READY_FOR_CODEX" /\ s.instruction # None
  BY DEF ClaimTurn
<1>6. ApplyEvent(s, e) \in Snapshots
  <2>1. Legal(s, e)
    BY <1>3, <1>5 DEF Legal, LegalFrom
  <2> QED
    BY <1>3, <1>4, <2>1, ApplyEventType
<1>7. evs \in Seq(Events)
  BY <1>2, <1>3 DEF WellFormed
<1>8. Commit(r, ApplyEvent(s, e), evs)
  BY DEF ClaimTurn
<1>9. t \in Tokens
  BY DEF TypeOK, Tokens
<1>10. lease' \in [Runs -> Leases \cup {NoLease}]
  <2>1. [worker |-> w, token |-> t, ttl |-> d] \in Leases
    BY <1>9, BoundsAssumption DEF Leases
  <2> QED
    BY <2>1 DEF TypeOK, ClaimTurn
<1>11. issued' \in Seq(Claims)
  <2>1. s.instruction \in Instructions
    BY <1>4, <1>5 DEF Snapshots
  <2>2. [run |-> r, worker |-> w, instruction |-> s.instruction] \in Claims
    BY <2>1 DEF Claims
  <2> QED
    BY <2>2 DEF TypeOK, ClaimTurn
<1>12. ops' \in [Scopes -> [Keys -> Operations \cup {NoOp}]]
  <2>1. [op |-> "claim_turn", worker |-> w, seconds |-> d, token |-> t]
          \in Operations
    BY <1>9, BoundsAssumption DEF Operations
  <2> QED
    BY <2>1, StoreType DEF ClaimTurn, Scopes
<1> QED
  BY <1>6, <1>7, <1>8, <1>10, <1>11, <1>12, CommitType DEF TypeOK, ClaimTurn

LEMMA SubmitResultType ==
  ASSUME TypeOK, NEW r \in Runs, NEW k \in CallKeys, NEW w \in Workers,
         NEW t \in DOMAIN issued, NEW x \in Results, SubmitResult(r, k, w, t, x)
  PROVE  TypeOK'
<1>1. WellFormed(Event("RESULT_SUBMITTED", k, x))
  BY DEF WellFormed, Event, Events, EventTypes, CallKeys, Payloads
<1>2. ops' \in [Scopes -> [Keys -> Operations \cup {NoOp}]]
  BY RequestType, StoreType DEF SubmitResult, Scopes, Payloads
<1>3. lease' \in [Runs -> Leases \cup {NoLease}]
  BY DeleteLeaseType DEF SubmitResult
<1>4. answers' \in Seq(Tokens)
  BY DEF TypeOK, SubmitResult, Tokens
<1> QED
  BY <1>1, <1>2, <1>3, <1>4, AppendAndSyncType DEF TypeOK, SubmitResult

LEMMA ReportProgressType ==
  ASSUME TypeOK, NEW r \in Runs, NEW k \in CallKeys, NEW w \in Workers,
         NEW t \in DOMAIN issued, ReportProgress(r, k, w, t)
  PROVE  TypeOK'
<1>1. WellFormed(Event("PROGRESS_REPORTED", k, None))
  BY PlainEventWellFormed DEF EventTypes, Payloads
<1>2. ops' \in [Scopes -> [Keys -> Operations \cup {NoOp}]]
  BY RequestType, StoreType DEF ReportProgress, Scopes, Payloads
<1> QED
  BY <1>1, <1>2, AppendAndSyncType DEF TypeOK, ReportProgress

LEMMA ReportBlockerType ==
  ASSUME TypeOK, NEW r \in Runs, NEW k \in CallKeys, NEW w \in Workers,
         NEW t \in DOMAIN issued, ReportBlocker(r, k, w, t)
  PROVE  TypeOK'
<1>1. WellFormed(Event("HUMAN_REQUESTED", k, None))
  BY PlainEventWellFormed DEF EventTypes, Payloads
<1>2. ops' \in [Scopes -> [Keys -> Operations \cup {NoOp}]]
  BY RequestType, StoreType DEF ReportBlocker, Scopes, Payloads
<1>3. lease' \in [Runs -> Leases \cup {NoLease}]
  BY DeleteLeaseType DEF ReportBlocker
<1>4. answers' \in Seq(Tokens)
  BY DEF TypeOK, ReportBlocker, Tokens
<1> QED
  BY <1>1, <1>2, <1>3, <1>4, AppendAndSyncType DEF TypeOK, ReportBlocker

LEMMA RequestHumanType ==
  ASSUME TypeOK, NEW r \in Runs, NEW k \in CallKeys, RequestHuman(r, k)
  PROVE  TypeOK'
<1>1. WellFormed(Event("HUMAN_REQUESTED", k, None))
  BY PlainEventWellFormed DEF EventTypes, Payloads
<1>2. ops' \in [Scopes -> [Keys -> Operations \cup {NoOp}]]
  BY RequestType, StoreType DEF RequestHuman, Scopes, Payloads
<1>3. lease' \in [Runs -> Leases \cup {NoLease}]
  BY DeleteLeaseType DEF RequestHuman, TypeOK
<1> QED
  BY <1>1, <1>2, <1>3, ReviewAndAppendType DEF TypeOK, RequestHuman

LEMMA PauseRunType ==
  ASSUME TypeOK, NEW r \in Runs, NEW k \in CallKeys, PauseRun(r, k)
  PROVE  TypeOK'
<1>1. Legal(snap[r], Event("PAUSED", k, ResumeState(snap[r])))
  BY DEF PauseRun, AppendAndSync
<1>2. ResumeState(snap[r]) \in RunStates
  BY <1>1 DEF Legal, LegalFrom, ResumeState, Event, ActiveStates, RunStates
<1>3. WellFormed(Event("PAUSED", k, ResumeState(snap[r])))
  BY <1>2 DEF WellFormed, Event, Events, EventTypes, CallKeys, Payloads
<1>4. ops' \in [Scopes -> [Keys -> Operations \cup {NoOp}]]
  BY RequestType, StoreType DEF PauseRun, Scopes, Payloads
<1>5. lease' \in [Runs -> Leases \cup {NoLease}]
  BY DeleteLeaseType DEF PauseRun, TypeOK
<1> QED
  BY <1>3, <1>4, <1>5, AppendAndSyncType DEF TypeOK, PauseRun

LEMMA ResumeRunType ==
  ASSUME TypeOK, NEW r \in Runs, NEW k \in CallKeys, ResumeRun(r, k)
  PROVE  TypeOK'
<1>1. WellFormed(Event("RESUMED", k, None))
  BY PlainEventWellFormed DEF EventTypes, Payloads
<1>2. ops' \in [Scopes -> [Keys -> Operations \cup {NoOp}]]
  BY RequestType, StoreType DEF ResumeRun, Scopes, Payloads
<1> QED
  BY <1>1, <1>2, AppendAndSyncType DEF TypeOK, ResumeRun

LEMMA StopRunType ==
  ASSUME TypeOK, NEW r \in Runs, NEW k \in CallKeys, StopRun(r, k)
  PROVE  TypeOK'
<1>1. WellFormed(Event("STOPPED", k, None))
  BY PlainEventWellFormed DEF EventTypes, Payloads
<1>2. ops' \in [Scopes -> [Keys -> Operations \cup {NoOp}]]
  BY RequestType, StoreType DEF StopRun, Scopes, Payloads
<1>3. lease' \in [Runs -> Leases \cup {NoLease}]
  BY DeleteLeaseType DEF StopRun
<1> QED
  BY <1>1, <1>2, <1>3, AppendAndSyncType DEF TypeOK, StopRun

LEMMA FailRunType ==
  ASSUME TypeOK, NEW r \in Runs, NEW k \in CallKeys, FailRun(r, k)
  PROVE  TypeOK'
<1>1. WellFormed(Event("FAILED", k, None))
  BY PlainEventWellFormed DEF EventTypes, Payloads
<1>2. ops' \in [Scopes -> [Keys -> Operations \cup {NoOp}]]
  BY RequestType, StoreType DEF FailRun, Scopes, Payloads
<1>3. lease' \in [Runs -> Leases \cup {NoLease}]
  BY DeleteLeaseType DEF FailRun
<1> QED
  BY <1>1, <1>2, <1>3, AppendAndSyncType DEF TypeOK, FailRun

LEMMA CompleteRunType ==
  ASSUME TypeOK, NEW r \in Runs, NEW k \in CallKeys, CompleteRun(r, k)
  PROVE  TypeOK'
<1>1. WellFormed(Event("COMPLETED", k, None))
  BY PlainEventWellFormed DEF EventTypes, Payloads
<1>2. ops' \in [Scopes -> [Keys -> Operations \cup {NoOp}]]
  BY RequestType, StoreType DEF CompleteRun, Scopes, Payloads
<1> QED
  BY <1>1, <1>2, ReviewAndAppendType DEF TypeOK, CompleteRun

LEMMA RecoverExpiredLeasesType ==
  ASSUME TypeOK, RecoverExpiredLeases
  PROVE  TypeOK'
<1> DEFINE back(r) == ApplyEvent(snap[r], ExpiryEvent)
<1>1. WellFormed(ExpiryEvent) /\ ExpiryEvent.type = "LEASE_EXPIRED"
  BY PlainEventWellFormed DEF ExpiryEvent, EventTypes, Payloads, CallKeys, Event
<1>2. ASSUME NEW r \in Runs, LeaseExpired(r) PROVE back(r) \in Snapshots
  <2>1. Legal(snap[r], ExpiryEvent)
    BY <1>1, <1>2 DEF LeaseExpired, Legal, LegalFrom
  <2>2. snap[r] \in Snapshots
    BY DEF TypeOK
  <2> QED
    BY <1>1, <2>1, <2>2, ApplyEventType
<1>3. snap' \in [Runs -> Snapshots]
  BY <1>2 DEF TypeOK, RecoverExpiredLeases
<1>4. events' \in [Runs -> Seq(Events)]
  <2>1. \A r \in Runs : Append(events[r], ExpiryEvent) \in Seq(Events)
    BY <1>1 DEF TypeOK, WellFormed
  <2> QED
    BY <2>1 DEF TypeOK, RecoverExpiredLeases
<1>5. row' \in [Runs -> [state: RunStates \cup {"ABSENT", "REJECTED"},
                         iteration: Nat, version: Nat]]
  <2>1. ASSUME NEW r \in Runs, LeaseExpired(r)
        PROVE  [state |-> back(r).state, iteration |-> back(r).iteration,
                version |-> row[r].version + 1]
                 \in [state: RunStates \cup {"ABSENT", "REJECTED"},
                      iteration: Nat, version: Nat]
    BY <1>2, <2>1 DEF TypeOK, Snapshots
  <2> QED
    BY <2>1 DEF TypeOK, RecoverExpiredLeases
<1>6. lease' \in [Runs -> Leases \cup {NoLease}]
  BY DEF TypeOK, RecoverExpiredLeases
<1> QED
  BY <1>3, <1>4, <1>5, <1>6 DEF TypeOK, RecoverExpiredLeases

LEMMA TickType ==
  ASSUME TypeOK, Tick
  PROVE  TypeOK'
<1>1. ASSUME NEW r \in Runs, lease[r] # NoLease, lease[r].ttl > 0
      PROVE  [lease[r] EXCEPT !.ttl = @ - 1] \in Leases
  <2>1. lease[r] \in Leases
    BY <1>1 DEF TypeOK
  <2>2. lease[r].ttl - 1 \in Nat
    BY <1>1, <2>1 DEF Leases
  <2> QED
    BY <2>1, <2>2 DEF Leases
<1> QED
  BY <1>1 DEF TypeOK, Tick

LEMMA NextTypeOK ==
  ASSUME TypeOK, [Next]_vars
  PROVE  TypeOK'
<1>1. ASSUME NEW r \in Runs, NEW k \in CallKeys, PlannerCall(r, k)
      PROVE  TypeOK'
  BY <1>1, SubmitInstructionType, RequestHumanType, CompleteRunType
     DEF PlannerCall
<1>2. ASSUME NEW r \in Runs, NEW k \in CallKeys, WorkerCall(r, k)
      PROVE  TypeOK'
  BY <1>2, ClaimTurnType, SubmitResultType, ReportProgressType,
     ReportBlockerType DEF WorkerCall
<1>3. ASSUME NEW r \in Runs, NEW k \in CallKeys, ControlCall(r, k)
      PROVE  TypeOK'
  BY <1>3, CreateRunType, PauseRunType, ResumeRunType, StopRunType,
     FailRunType DEF ControlCall
<1>4. CASE UNCHANGED vars
  BY <1>4 DEF TypeOK, vars
<1> QED
  BY <1>1, <1>2, <1>3, <1>4, RecoverExpiredLeasesType, TickType DEF Next

\* Every variable keeps its type under every operation of the controller.
THEOREM TypeCorrect == Spec => []TypeOK
<1>1. TypeOK /\ [Next]_vars => TypeOK'
  BY NextTypeOK
<1> QED
  BY <1>1, InitType, PTL DEF Spec

-----------------------------------------------------------------------------
(* Exclusive turns.  LeaseMatchesTurn is not inductive alone: a resumed run  *)
(* must not come back as CODEX_RUNNING without a lease row, which is what    *)
(* NoRestingReview says of the preserved state.                              *)

IInv == TypeOK /\ LeaseMatchesTurn /\ NoRestingReview

Preserved == {None, "PLANNING", "READY_FOR_CODEX", "CODEX_COMPLETE"}

\* The fields that an event of each type leaves behind.
LEMMA ApplyEventEffect ==
  ASSUME NEW s \in Snapshots, NEW k, NEW a
  PROVE  /\ \A type \in {"HUMAN_REQUESTED", "COMPLETED", "FAILED", "STOPPED"} :
              /\ ApplyEvent(s, Event(type, k, a)).state \in TerminalStates
              /\ ApplyEvent(s, Event(type, k, a)).pausedFrom = s.pausedFrom
         /\ LET n == ApplyEvent(s, Event("INSTRUCTION_SUBMITTED", k, a))
            IN  n.state = "READY_FOR_CODEX" /\ n.pausedFrom = s.pausedFrom
         /\ LET n == ApplyEvent(s, Event("TURN_CLAIMED", k, a))
            IN  n = [s EXCEPT !.state = "CODEX_RUNNING"]
         /\ LET n == ApplyEvent(s, Event("RESULT_SUBMITTED", k, a))
            IN  n.state = "CODEX_COMPLETE" /\ n.pausedFrom = s.pausedFrom
         /\ LET n == ApplyEvent(s, Event("LEASE_EXPIRED", k, a))
            IN  n = [s EXCEPT !.state = "READY_FOR_CODEX"]
         /\ LET n == ApplyEvent(s, Event("PAUSED", k, a))
            IN  n.state = "PAUSED" /\ n.pausedFrom = a
         /\ LET n == ApplyEvent(s, Event("RESUMED", k, a))
            IN  n.state = s.pausedFrom /\ n.pausedFrom = None
         /\ ApplyEvent(s, Event("PROGRESS_REPORTED", k, a)) = s
<1>1. \A type \in {"HUMAN_REQUESTED", "COMPLETED", "FAILED", "STOPPED"} :
        /\ ApplyEvent(s, Event(type, k, a)).state \in TerminalStates
        /\ ApplyEvent(s, Event(type, k, a)).pausedFrom = s.pausedFrom
  BY DEF ApplyEvent, Event, Snapshots, TerminalStates
<1>2. LET n == ApplyEvent(s, Event("INSTRUCTION_SUBMITTED", k, a))
      IN  n.state = "READY_FOR_CODEX" /\ n.pausedFrom = s.pausedFrom
  BY DEF ApplyEvent, Event, NewTurn, Snapshots
<1>3. LET n == ApplyEvent(s, Event("TURN_CLAIMED", k, a))
      IN  n = [s EXCEPT !.state = "CODEX_RUNNING"]
  BY DEF ApplyEvent, Event
<1>4. LET n == ApplyEvent(s, Event("RESULT_SUBMITTED", k, a))
      IN  n.state = "CODEX_COMPLETE" /\ n.pausedFrom = s.pausedFrom
  BY DEF ApplyEvent, Event, Snapshots
<1>5. LET n == ApplyEvent(s, Event("LEASE_EXPIRED", k, a))
      IN  n = [s EXCEPT !.state = "READY_FOR_CODEX"]
  BY DEF ApplyEvent, Event
<1>6. LET n == ApplyEvent(s, Event("PAUSED", k, a))
      IN  n.state = "PAUSED" /\ n.pausedFrom = a
  BY DEF ApplyEvent, Event, Snapshots
<1>7. LET n == ApplyEvent(s, Event("RESUMED", k, a))
      IN  n.state = s.pausedFrom /\ n.pausedFrom = None
  BY DEF ApplyEvent, Event, BackFromPause, Snapshots
<1>8. ApplyEvent(s, Event("PROGRESS_REPORTED", k, a)) = s
  BY DEF ApplyEvent, Event
<1> QED
  BY <1>1, <1>2, <1>3, <1>4, <1>5, <1>6, <1>7, <1>8

\* A step that leaves one run idle, without a lease, and the others alone.
LEMMA IdleStep ==
  ASSUME IInv, TypeOK', NEW r \in Runs, NEW s \in Snapshots,
         snap' = [snap EXCEPT ![r] = s],
         s.state \notin {"CODEX_RUNNING", "NEW", "REVIEWING", "REJECTED"},
         s.pausedFrom \in Preserved,
         lease'[r] = NoLease,
         \A q \in Runs \ {r} : lease'[q] = lease[q],
         issued' = issued
  PROVE  IInv'
<1>1. LeaseMatchesTurn'
  <2> SUFFICES ASSUME NEW q \in Runs PROVE
        /\ lease'[q] # NoLease <=> snap'[q].state = "CODEX_RUNNING"
        /\ lease'[q] # NoLease =>
             LET t == lease'[q].token
             IN  /\ t \in DOMAIN issued'
                 /\ issued'[t] = [run |-> q, worker |-> lease'[q].worker,
                                  instruction |-> snap'[q].instruction]
                 /\ \A later \in DOMAIN issued' :
                      issued'[later].run = q => later <= t
    BY DEF LeaseMatchesTurn
  <2>1. CASE q = r
    BY <2>1 DEF IInv, TypeOK
  <2>2. CASE q # r
    <3>1. lease'[q] = lease[q] /\ snap'[q] = snap[q]
      BY <2>2 DEF IInv, TypeOK
    <3> QED
      BY <3>1 DEF IInv, LeaseMatchesTurn
  <2> QED
    BY <2>1, <2>2
<1>2. NoRestingReview'
  BY DEF IInv, TypeOK, NoRestingReview, Preserved
<1> QED
  BY <1>1, <1>2 DEF IInv

\* One event appended to a run that then has no lease.
LEMMA IdleAppend ==
  ASSUME IInv, TypeOK', NEW r \in Runs, NEW e, AppendAndSync(r, e),
         LET s == ApplyEvent(snap[r], e)
         IN  /\ s.state \notin {"CODEX_RUNNING", "NEW", "REVIEWING", "REJECTED"}
             /\ s.pausedFrom \in Preserved,
         DeleteLease(r) \/ (UNCHANGED lease /\ snap[r].state # "CODEX_RUNNING"),
         issued' = issued
  PROVE  IInv'
<1>1. snap' = [snap EXCEPT ![r] = ApplyEvent(snap[r], e)]
  BY DEF AppendAndSync, Commit
<1>2. ApplyEvent(snap[r], e) \in Snapshots
  BY <1>1 DEF IInv, TypeOK
<1>3. lease'[r] = NoLease /\ \A q \in Runs \ {r} : lease'[q] = lease[q]
  BY DEF DeleteLease, IInv, TypeOK, LeaseMatchesTurn
<1> QED
  BY <1>1, <1>2, <1>3, IdleStep

\* The same for a call that first starts the review.
LEMMA IdleReviewAndAppend ==
  ASSUME IInv, TypeOK', NEW r \in Runs, NEW k, NEW e, ReviewAndAppend(r, k, e),
         LET s == ApplyEvent(Reviewed(r), e)
         IN  /\ s.state \notin {"CODEX_RUNNING", "NEW", "REVIEWING", "REJECTED"}
             /\ s.pausedFrom \in Preserved,
         DeleteLease(r) \/ (UNCHANGED lease /\ snap[r].state # "CODEX_RUNNING"),
         issued' = issued
  PROVE  IInv'
<1>1. snap' = [snap EXCEPT ![r] = ApplyEvent(Reviewed(r), e)]
  BY DEF ReviewAndAppend, Commit
<1>2. ApplyEvent(Reviewed(r), e) \in Snapshots
  BY <1>1 DEF IInv, TypeOK
<1>3. lease'[r] = NoLease /\ \A q \in Runs \ {r} : lease'[q] = lease[q]
  BY DEF DeleteLease, IInv, TypeOK, LeaseMatchesTurn
<1> QED
  BY <1>1, <1>2, <1>3, IdleStep

\* What is known of a run's snapshot, reviewed or not.
LEMMA SnapFacts ==
  ASSUME IInv, NEW r \in Runs
  PROVE  /\ snap[r] \in Snapshots
         /\ Reviewed(r) \in Snapshots
         /\ snap[r].pausedFrom \in Preserved
         /\ Reviewed(r).pausedFrom \in Preserved
         /\ Reviewed(r).instruction = snap[r].instruction
<1>1. snap[r] \in Snapshots
  BY DEF IInv, TypeOK
<1>2. snap[r].pausedFrom \in Preserved
  BY DEF IInv, NoRestingReview, Preserved
<1> QED
  BY <1>1, <1>2 DEF Reviewed, Snapshots, RunStates

\* Nothing but the log, the keys and the clock moved.
LEMMA UnchangedIInv ==
  ASSUME IInv, TypeOK', snap' = snap, lease' = lease, issued' = issued
  PROVE  IInv'
  BY DEF IInv, LeaseMatchesTurn, NoRestingReview

LEMMA InitIInv == Init => IInv
<1> SUFFICES ASSUME Init PROVE IInv
  OBVIOUS
<1>1. LeaseMatchesTurn
  BY DEF Init, LeaseMatchesTurn, Absent
<1>2. NoRestingReview
  BY DEF Init, NoRestingReview, Absent
<1> QED
  BY <1>1, <1>2, InitType DEF IInv

\* Every role's calls keep the invariant.
LEMMA PlannerIInv ==
  ASSUME IInv, TypeOK', NEW r \in Runs, NEW k \in CallKeys, PlannerCall(r, k)
  PROVE  IInv'
<1>1. /\ snap[r] \in Snapshots /\ Reviewed(r) \in Snapshots
      /\ Reviewed(r).pausedFrom \in Preserved
  BY SnapFacts
<1>2. ASSUME NEW i \in Instructions, SubmitInstruction(r, k, i) PROVE IInv'
  <2> DEFINE e == IF Reviewed(r).iteration >= Reviewed(r).maxIterations
                  THEN Event("FAILED", k, None)
                  ELSE Event("INSTRUCTION_SUBMITTED", k, i)
             s == ApplyEvent(Reviewed(r), e)
  <2>1. /\ s.state \in TerminalStates \cup {"READY_FOR_CODEX"}
        /\ s.pausedFrom \in Preserved
    BY <1>1, ApplyEventEffect
  <2>2. snap[r].state # "CODEX_RUNNING"
    BY <1>2 DEF SubmitInstruction, Reviewed
  <2>3. ReviewAndAppend(r, k, e) /\ UNCHANGED lease /\ issued' = issued
    BY <1>2 DEF SubmitInstruction
  <2>4. s.state \notin {"CODEX_RUNNING", "NEW", "REVIEWING", "REJECTED"}
    BY <2>1 DEF TerminalStates
  <2> HIDE DEF s, e
  <2> QED
    BY <2>1, <2>2, <2>3, <2>4, IdleReviewAndAppend DEF s
<1>3. ASSUME RequestHuman(r, k) PROVE IInv'
  <2> DEFINE e == Event("HUMAN_REQUESTED", k, None)
             s == ApplyEvent(Reviewed(r), e)
  <2>1. s.state \in TerminalStates /\ s.pausedFrom \in Preserved
    BY <1>1, ApplyEventEffect
  <2>2. ReviewAndAppend(r, k, e) /\ issued' = issued
    BY <1>3 DEF RequestHuman
  <2>3. DeleteLease(r) \/ (UNCHANGED lease /\ snap[r].state # "CODEX_RUNNING")
    BY <1>3 DEF RequestHuman
  <2>4. s.state \notin {"CODEX_RUNNING", "NEW", "REVIEWING", "REJECTED"}
    BY <2>1 DEF TerminalStates
  <2> HIDE DEF s, e
  <2> QED
    BY <2>1, <2>2, <2>3, <2>4, IdleReviewAndAppend DEF s
<1>4. ASSUME CompleteRun(r, k) PROVE IInv'
  <2> DEFINE e == Event("COMPLETED", k, None)
             s == ApplyEvent(Reviewed(r), e)
  <2>1. s.state \in TerminalStates /\ s.pausedFrom \in Preserved
    BY <1>1, ApplyEventEffect
  <2>2. snap[r].state # "CODEX_RUNNING"
    BY <1>4 DEF CompleteRun, Reviewed
  <2>3. ReviewAndAppend(r, k, e) /\ UNCHANGED lease /\ issued' = issued
    BY <1>4 DEF CompleteRun
  <2>4. s.state \notin {"CODEX_RUNNING", "NEW", "REVIEWING", "REJECTED"}
    BY <2>1 DEF TerminalStates
  <2> HIDE DEF s, e
  <2> QED
    BY <2>1, <2>2, <2>3, <2>4, IdleReviewAndAppend DEF s
<1> QED
  BY <1>2, <1>3, <1>4 DEF PlannerCall

\* The one step that gives a run a lease: an offered turn, or a turn whose
\* lease ran out, goes to a claim with a fresh token.
LEMMA ClaimIInv ==
  ASSUME IInv, TypeOK', NEW r \in Runs, NEW k \in CallKeys, NEW w \in Workers,
         NEW d \in Durations, ClaimTurn(r, k, w, d)
  PROVE  IInv'
<1> DEFINE s == IF LeaseExpired(r)
                THEN ApplyEvent(snap[r], ExpiryEvent) ELSE snap[r]
           t == Len(issued) + 1
           c == [run |-> r, worker |-> w, instruction |-> s.instruction]
           l == [worker |-> w, token |-> t, ttl |-> d]
<1>1. /\ snap[r] \in Snapshots /\ snap[r].pausedFrom \in Preserved
  BY SnapFacts
<1>2. /\ s \in Snapshots /\ s.pausedFrom \in Preserved
      /\ s.instruction = snap[r].instruction
  <2>1. CASE LeaseExpired(r)
    <3>1. s = [snap[r] EXCEPT !.state = "READY_FOR_CODEX"]
      BY <1>1, <2>1, ApplyEventEffect DEF ExpiryEvent
    <3> QED
      BY <1>1, <3>1 DEF Snapshots, RunStates
  <2> QED
    BY <1>1, <2>1
<1>3. snap' = [snap EXCEPT ![r] = [s EXCEPT !.state = "CODEX_RUNNING"]]
  <2>1. snap' = [snap EXCEPT ![r] = ApplyEvent(s, Event("TURN_CLAIMED", k, w))]
    BY DEF ClaimTurn, Commit
  <2> HIDE DEF s
  <2>2. ApplyEvent(s, Event("TURN_CLAIMED", k, w))
          = [s EXCEPT !.state = "CODEX_RUNNING"]
    BY DEF ApplyEvent, Event
  <2> QED
    BY <2>1, <2>2
<1>4. /\ snap'[r].state = "CODEX_RUNNING"
      /\ snap'[r].pausedFrom \in Preserved
      /\ snap'[r].instruction = s.instruction
  BY <1>2, <1>3 DEF IInv, TypeOK, Snapshots
<1>5. \A q \in Runs \ {r} : snap'[q] = snap[q] /\ lease'[q] = lease[q]
  BY <1>3 DEF ClaimTurn, IInv, TypeOK
<1>6. lease'[r] = l /\ l # NoLease
  <2>1. t \in Tokens
    BY DEF IInv, TypeOK, Tokens
  <2>2. l \in Leases
    BY <2>1, BoundsAssumption DEF Leases
  <2> QED
    BY <2>2, NoLeaseAssumption DEF ClaimTurn, IInv, TypeOK
<1>7. issued' = Append(issued, c)
  BY DEF ClaimTurn
<1>8. /\ DOMAIN issued' = 1..t
      /\ issued'[t] = c
      /\ \A j \in DOMAIN issued : j \in 1..t /\ j < t /\ issued'[j] = issued[j]
      /\ \A j \in 1..t : j = t \/ j \in DOMAIN issued
  BY <1>7 DEF IInv, TypeOK
<1> HIDE DEF s, t, c, l
<1>9. LeaseMatchesTurn'
  <2> SUFFICES ASSUME NEW q \in Runs PROVE
        /\ lease'[q] # NoLease <=> snap'[q].state = "CODEX_RUNNING"
        /\ lease'[q] # NoLease =>
             LET n == lease'[q].token
             IN  /\ n \in DOMAIN issued'
                 /\ issued'[n] = [run |-> q, worker |-> lease'[q].worker,
                                  instruction |-> snap'[q].instruction]
                 /\ \A later \in DOMAIN issued' :
                      issued'[later].run = q => later <= n
    BY DEF LeaseMatchesTurn
  <2>1. CASE q = r
    <3>1. lease'[q].token = t /\ lease'[q].worker = w
      BY <1>6, <2>1 DEF l
    <3>2. t \in Nat
      BY DEF t, IInv, TypeOK
    <3>3. t \in 1..t
      BY <3>2 DEF t, IInv, TypeOK
    <3> QED
      BY <1>4, <1>6, <1>8, <2>1, <3>1, <3>2, <3>3 DEF c
  <2>2. CASE q # r
    <3>1. c.run # q
      BY <2>2 DEF c
    <3>2. /\ lease[q] # NoLease <=> snap[q].state = "CODEX_RUNNING"
          /\ lease[q] # NoLease =>
               LET n == lease[q].token
               IN  /\ n \in DOMAIN issued
                   /\ issued[n] = [run |-> q, worker |-> lease[q].worker,
                                   instruction |-> snap[q].instruction]
                   /\ \A later \in DOMAIN issued :
                        issued[later].run = q => later <= n
      BY DEF IInv, LeaseMatchesTurn
    <3> QED
      BY <1>5, <1>8, <2>2, <3>1, <3>2
  <2> QED
    BY <2>1, <2>2
<1>10. NoRestingReview'
  BY <1>4, <1>5 DEF IInv, NoRestingReview, Preserved
<1> QED
  BY <1>9, <1>10 DEF IInv

LEMMA WorkerIInv ==
  ASSUME IInv, TypeOK', NEW r \in Runs, NEW k \in CallKeys, WorkerCall(r, k)
  PROVE  IInv'
<1>1. snap[r] \in Snapshots /\ snap[r].pausedFrom \in Preserved
  BY SnapFacts
<1>2. ASSUME NEW w \in Workers, NEW d \in Durations, ClaimTurn(r, k, w, d)
      PROVE  IInv'
  BY <1>2, ClaimIInv
<1>3. ASSUME NEW w \in Workers, NEW t \in DOMAIN issued, NEW x \in Results,
             SubmitResult(r, k, w, t, x)
      PROVE  IInv'
  <2> DEFINE e == Event("RESULT_SUBMITTED", k, x)
             s == ApplyEvent(snap[r], e)
  <2>1. s.state = "CODEX_COMPLETE" /\ s.pausedFrom \in Preserved
    BY <1>1, ApplyEventEffect
  <2>2. AppendAndSync(r, e) /\ DeleteLease(r) /\ issued' = issued
    BY <1>3 DEF SubmitResult
  <2>3. s.state \notin {"CODEX_RUNNING", "NEW", "REVIEWING", "REJECTED"}
    BY <2>1
  <2> HIDE DEF s, e
  <2> QED
    BY <2>1, <2>2, <2>3, IdleAppend DEF s
<1>4. ASSUME NEW w \in Workers, NEW t \in DOMAIN issued,
             ReportBlocker(r, k, w, t)
      PROVE  IInv'
  <2> DEFINE e == Event("HUMAN_REQUESTED", k, None)
             s == ApplyEvent(snap[r], e)
  <2>1. s.state \in TerminalStates /\ s.pausedFrom \in Preserved
    BY <1>1, ApplyEventEffect
  <2>2. AppendAndSync(r, e) /\ DeleteLease(r) /\ issued' = issued
    BY <1>4 DEF ReportBlocker
  <2>3. s.state \notin {"CODEX_RUNNING", "NEW", "REVIEWING", "REJECTED"}
    BY <2>1 DEF TerminalStates
  <2> HIDE DEF s, e
  <2> QED
    BY <2>1, <2>2, <2>3, IdleAppend DEF s
<1>5. ASSUME NEW w \in Workers, NEW t \in DOMAIN issued,
             ReportProgress(r, k, w, t)
      PROVE  IInv'
  <2>1. ApplyEvent(snap[r], Event("PROGRESS_REPORTED", k, None)) = snap[r]
    BY DEF ApplyEvent, Event
  <2>2. snap' = [snap EXCEPT ![r] = snap[r]]
    BY <1>5, <2>1 DEF ReportProgress, AppendAndSync, Commit
  <2>3. snap' = snap
    BY <2>2 DEF IInv, TypeOK
  <2> QED
    BY <1>5, <2>3, UnchangedIInv DEF ReportProgress
<1> QED
  BY <1>2, <1>3, <1>4, <1>5 DEF WorkerCall

LEMMA ControlIInv ==
  ASSUME IInv, TypeOK', NEW r \in Runs, NEW k \in CallKeys, ControlCall(r, k)
  PROVE  IInv'
<1>1. snap[r] \in Snapshots /\ snap[r].pausedFrom \in Preserved
  BY SnapFacts
<1>2. ASSUME NEW max \in 1..Ceiling, CreateRun(r, k, max) PROVE IInv'
  <2> DEFINE s == ApplyEvent(ApplyEvent(Absent, RunCreated(k, max)),
                             Event("PLANNING_STARTED", k, None))
  <2>1. s.state = "PLANNING" /\ s.pausedFrom = None
    BY DEF ApplyEvent, RunCreated, Event, Absent
  <2>2. snap' = [snap EXCEPT ![r] = s]
    BY <1>2 DEF CreateRun, Commit
  <2>3. s \in Snapshots
    BY <2>2 DEF IInv, TypeOK
  <2>4. lease[r] = NoLease
    <3>1. snap[r] = Absent
      BY <1>2 DEF CreateRun
    <3>2. snap[r].state # "CODEX_RUNNING"
      BY <3>1 DEF Absent
    <3> QED
      BY <3>2 DEF IInv, LeaseMatchesTurn
  <2>5. UNCHANGED lease /\ issued' = issued
    BY <1>2 DEF CreateRun
  <2> HIDE DEF s
  <2> QED
    BY <2>1, <2>2, <2>3, <2>4, <2>5, IdleStep DEF Preserved
<1>3. ASSUME PauseRun(r, k) PROVE IInv'
  <2> DEFINE e == Event("PAUSED", k, ResumeState(snap[r]))
             s == ApplyEvent(snap[r], e)
  <2>1. s.state = "PAUSED" /\ s.pausedFrom = ResumeState(snap[r])
    BY <1>1, ApplyEventEffect
  <2>2. ResumeState(snap[r]) \in Preserved
    <3>1. snap[r].state \notin TerminalStates \cup
            {"PAUSED", "ABSENT", "NEW", "REVIEWING", "REJECTED"}
      BY <1>3 DEF PauseRun, Callable, IInv, NoRestingReview
    <3> QED
      BY <1>1, <3>1 DEF Snapshots, RunStates, TerminalStates, ResumeState,
                        Preserved
  <2>3. AppendAndSync(r, e) /\ issued' = issued
    BY <1>3 DEF PauseRun
  <2>4. DeleteLease(r) \/ (UNCHANGED lease /\ snap[r].state # "CODEX_RUNNING")
    BY <1>3 DEF PauseRun
  <2>5. s.state \notin {"CODEX_RUNNING", "NEW", "REVIEWING", "REJECTED"}
    BY <2>1
  <2> HIDE DEF s, e
  <2> QED
    BY <2>1, <2>2, <2>3, <2>4, <2>5, IdleAppend DEF s
<1>4. ASSUME ResumeRun(r, k) PROVE IInv'
  <2> DEFINE e == Event("RESUMED", k, None)
             s == ApplyEvent(snap[r], e)
  <2>1. s.state = snap[r].pausedFrom /\ s.pausedFrom = None
    BY <1>1, ApplyEventEffect
  <2>2. AppendAndSync(r, e) /\ issued' = issued /\ UNCHANGED lease
        /\ snap[r].state # "CODEX_RUNNING"
    BY <1>4 DEF ResumeRun
  <2>3. snap[r].pausedFrom # None
    BY <2>2 DEF AppendAndSync, Legal, Event
  <2>4. s.state \notin {"CODEX_RUNNING", "NEW", "REVIEWING", "REJECTED"}
    BY <1>1, <2>1, <2>3 DEF Preserved
  <2> HIDE DEF s, e
  <2>5. s.pausedFrom \in Preserved
    BY <2>1 DEF Preserved
  <2> QED
    BY <2>2, <2>4, <2>5, IdleAppend DEF s
<1>5. ASSUME NEW type \in {"FAILED", "STOPPED"},
             AppendAndSync(r, Event(type, k, None)), DeleteLease(r),
             issued' = issued
      PROVE  IInv'
  <2> DEFINE e == Event(type, k, None)
             s == ApplyEvent(snap[r], e)
  <2>1. s.state \in TerminalStates /\ s.pausedFrom \in Preserved
    BY <1>1, ApplyEventEffect
  <2>2. AppendAndSync(r, e)
    BY <1>5
  <2>3. s.state \notin {"CODEX_RUNNING", "NEW", "REVIEWING", "REJECTED"}
    BY <2>1 DEF TerminalStates
  <2> HIDE DEF s, e
  <2> QED
    BY <1>5, <2>1, <2>2, <2>3, IdleAppend DEF s
<1> QED
  BY <1>2, <1>3, <1>4, <1>5 DEF ControlCall, StopRun, FailRun

\* Every run whose lease ran out loses it and is READY_FOR_CODEX again.
LEMMA RecoverIInv ==
  ASSUME IInv, TypeOK', RecoverExpiredLeases
  PROVE  IInv'
<1>1. ASSUME NEW r \in Runs, LeaseExpired(r)
      PROVE  /\ snap'[r] = [snap[r] EXCEPT !.state = "READY_FOR_CODEX"]
             /\ lease'[r] = NoLease
  <2>1. ApplyEvent(snap[r], ExpiryEvent)
          = [snap[r] EXCEPT !.state = "READY_FOR_CODEX"]
    BY DEF ApplyEvent, ExpiryEvent, Event
  <2> QED
    BY <1>1, <2>1 DEF RecoverExpiredLeases
<1>2. ASSUME NEW r \in Runs, ~LeaseExpired(r)
      PROVE  snap'[r] = snap[r] /\ lease'[r] = lease[r]
  BY <1>2 DEF RecoverExpiredLeases
<1>3. ASSUME NEW r \in Runs, LeaseExpired(r)
      PROVE  /\ snap'[r].state = "READY_FOR_CODEX"
             /\ snap'[r].pausedFrom = snap[r].pausedFrom
  <2>1. snap[r] \in Snapshots
    BY DEF IInv, TypeOK
  <2> QED
    BY <1>1, <1>3, <2>1 DEF Snapshots
<1>4. issued' = issued
  BY DEF RecoverExpiredLeases
<1>5. LeaseMatchesTurn'
  <2> SUFFICES ASSUME NEW q \in Runs PROVE
        /\ lease'[q] # NoLease <=> snap'[q].state = "CODEX_RUNNING"
        /\ lease'[q] # NoLease =>
             LET t == lease'[q].token
             IN  /\ t \in DOMAIN issued'
                 /\ issued'[t] = [run |-> q, worker |-> lease'[q].worker,
                                  instruction |-> snap'[q].instruction]
                 /\ \A later \in DOMAIN issued' :
                      issued'[later].run = q => later <= t
    BY DEF LeaseMatchesTurn
  <2>1. CASE LeaseExpired(q)
    BY <1>1, <1>3, <2>1
  <2>2. CASE ~LeaseExpired(q)
    BY <1>2, <1>4, <2>2 DEF IInv, LeaseMatchesTurn
  <2> QED
    BY <2>1, <2>2
<1>6. NoRestingReview'
  <2> SUFFICES ASSUME NEW q \in Runs PROVE
        /\ snap'[q].state \notin {"NEW", "REVIEWING", "REJECTED"}
        /\ snap'[q].pausedFrom \in {None, "PLANNING", "READY_FOR_CODEX",
                                    "CODEX_COMPLETE"}
    BY DEF NoRestingReview
  <2>1. /\ snap[q].state \notin {"NEW", "REVIEWING", "REJECTED"}
        /\ snap[q].pausedFrom \in {None, "PLANNING", "READY_FOR_CODEX",
                                   "CODEX_COMPLETE"}
    BY DEF IInv, NoRestingReview
  <2> QED
    BY <1>2, <1>3, <2>1
<1> QED
  BY <1>5, <1>6 DEF IInv

\* The clock moves no token and no worker.
LEMMA TickIInv ==
  ASSUME IInv, TypeOK', Tick
  PROVE  IInv'
<1>1. snap' = snap /\ issued' = issued
  BY DEF Tick
<1>2. ASSUME NEW q \in Runs, lease[q] # NoLease
      PROVE  /\ lease'[q] # NoLease
             /\ lease'[q].token = lease[q].token
             /\ lease'[q].worker = lease[q].worker
  <2>1. lease[q] \in Leases
    BY <1>2 DEF IInv, TypeOK
  <2>2. CASE lease[q].ttl > 0
    <3>1. lease'[q] = [lease[q] EXCEPT !.ttl = @ - 1]
      BY <1>2, <2>2 DEF Tick
    <3>2. lease[q].ttl - 1 \in Nat
      BY <2>1, <2>2 DEF Leases
    <3>3. lease'[q] \in Leases
      BY <2>1, <3>1, <3>2 DEF Leases
    <3> QED
      BY <2>1, <3>1, <3>3, NoLeaseAssumption DEF Leases
  <2>3. CASE ~(lease[q].ttl > 0)
    BY <1>2, <2>3 DEF Tick
  <2> QED
    BY <2>2, <2>3
<1>3. ASSUME NEW q \in Runs, lease[q] = NoLease
      PROVE  lease'[q] = NoLease
  BY <1>3 DEF Tick
<1>4. LeaseMatchesTurn'
  <2> SUFFICES ASSUME NEW q \in Runs PROVE
        /\ lease'[q] # NoLease <=> snap'[q].state = "CODEX_RUNNING"
        /\ lease'[q] # NoLease =>
             LET t == lease'[q].token
             IN  /\ t \in DOMAIN issued'
                 /\ issued'[t] = [run |-> q, worker |-> lease'[q].worker,
                                  instruction |-> snap'[q].instruction]
                 /\ \A later \in DOMAIN issued' :
                      issued'[later].run = q => later <= t
    BY DEF LeaseMatchesTurn
  <2>1. CASE lease[q] = NoLease
    BY <1>1, <1>3, <2>1 DEF IInv, LeaseMatchesTurn
  <2>2. CASE lease[q] # NoLease
    BY <1>1, <1>2, <2>2 DEF IInv, LeaseMatchesTurn
  <2> QED
    BY <2>1, <2>2
<1>5. NoRestingReview'
  BY <1>1 DEF IInv, NoRestingReview
<1> QED
  BY <1>4, <1>5 DEF IInv

LEMMA NextIInv ==
  ASSUME IInv, TypeOK', [Next]_vars
  PROVE  IInv'
<1>1. CASE UNCHANGED vars
  BY <1>1, UnchangedIInv DEF vars
<1> QED
  BY <1>1, PlannerIInv, WorkerIInv, ControlIInv, RecoverIInv, TickIInv DEF Next

LEMMA Inductive == Spec => []IInv
<1>1. TypeOK' /\ IInv /\ [Next]_vars => IInv'
  BY NextIInv
<1> QED
  BY <1>1, InitIInv, TypeCorrect, PTL DEF Spec

\* Exclusive turns: a run has a lease row exactly while it is CODEX_RUNNING,
\* and that row is its newest claim, for the instruction current now.
THEOREM ExclusiveTurns == Spec => []LeaseMatchesTurn
<1>1. IInv => LeaseMatchesTurn
  BY DEF IInv
<1> QED
  BY <1>1, Inductive, PTL

\* No committed call of planner, worker or control leaves a review half done.
THEOREM ReviewNeverRests == Spec => []NoRestingReview
<1>1. IInv => NoRestingReview
  BY DEF IInv
<1> QED
  BY <1>1, Inductive, PTL

\* Only a claim gives a run another lease; every other step keeps the row,
\* deletes it or counts its time down.
LEMMA LeaseKept ==
  ASSUME TypeOK,
         [Next]_vars,
         ~ \E r \in Runs, k \in CallKeys, w \in Workers, d \in Durations :
             ClaimTurn(r, k, w, d)
  PROVE  \A q \in Runs :
           \/ lease'[q] = NoLease
           \/ /\ lease[q] # NoLease
              /\ lease'[q].token = lease[q].token
<1>1. ASSUME NEW r \in Runs, DeleteLease(r), NEW q \in Runs
      PROVE  lease'[q] \in {NoLease, lease[q]}
  BY <1>1 DEF DeleteLease, TypeOK
<1>2. ASSUME NEW r \in Runs, NEW k \in CallKeys, PlannerCall(r, k)
      PROVE  DeleteLease(r) \/ UNCHANGED lease
  BY <1>2 DEF PlannerCall, SubmitInstruction, RequestHuman, CompleteRun
<1>3. ASSUME NEW r \in Runs, NEW k \in CallKeys, WorkerCall(r, k)
      PROVE  DeleteLease(r) \/ UNCHANGED lease
  BY <1>3 DEF WorkerCall, SubmitResult, ReportProgress, ReportBlocker
<1>4. ASSUME NEW r \in Runs, NEW k \in CallKeys, ControlCall(r, k)
      PROVE  DeleteLease(r) \/ UNCHANGED lease
  BY <1>4 DEF ControlCall, CreateRun, PauseRun, ResumeRun, StopRun, FailRun
<1>5. ASSUME NEW q \in Runs, RecoverExpiredLeases
      PROVE  lease'[q] \in {NoLease, lease[q]}
  BY <1>5 DEF RecoverExpiredLeases
<1>6. ASSUME NEW q \in Runs, Tick, lease[q] # NoLease
      PROVE  lease'[q].token = lease[q].token
  <2>1. lease[q] \in Leases
    BY <1>6 DEF TypeOK
  <2>2. lease'[q] \in {lease[q], [lease[q] EXCEPT !.ttl = @ - 1]}
    BY <1>6 DEF Tick
  <2> QED
    BY <2>1, <2>2 DEF Leases
<1>7. ASSUME NEW q \in Runs, Tick, lease[q] = NoLease
      PROVE  lease'[q] = NoLease
  BY <1>7 DEF Tick
<1>8. CASE UNCHANGED vars
  BY <1>8 DEF vars
<1>9. CASE RecoverExpiredLeases
  BY <1>5, <1>9
<1>10. CASE Tick
  BY <1>6, <1>7, <1>10
<1>11. CASE \E r \in Runs, k \in CallKeys :
              PlannerCall(r, k) \/ WorkerCall(r, k) \/ ControlCall(r, k)
  BY <1>1, <1>2, <1>3, <1>4, <1>11
<1> QED
  BY <1>8, <1>9, <1>10, <1>11 DEF Next

\* A claim takes over a lease only after it ran out, with a fresh token.
LEMMA ClaimTakesExpired ==
  ASSUME TypeOK, TypeOK', NEW r \in Runs, NEW k \in CallKeys, NEW w \in Workers,
         NEW d \in Durations, ClaimTurn(r, k, w, d), NEW q \in Runs
  PROVE  \/ lease'[q] = lease[q]
         \/ /\ lease[q] # NoLease => ~(lease[q].ttl > 0)
            /\ lease'[q].token = Len(issued) + 1
<1>1. CASE q # r
  BY <1>1 DEF ClaimTurn, TypeOK
<1>2. CASE q = r
  <2>1. lease'[r] = [worker |-> w, token |-> Len(issued) + 1, ttl |-> d]
    BY DEF ClaimTurn, TypeOK
  <2>2. LeaseExpired(r) \/ lease[r] = NoLease
    BY DEF ClaimTurn
  <2> QED
    BY <1>2, <2>1, <2>2 DEF LeaseExpired
<1> QED
  BY <1>1, <1>2

\* A claim is not taken over while its lease runs, and a run without a lease
\* gets one only by a new claim: a resumed worker never regains its old one.
THEOREM LiveLeases == Spec => LiveLeaseNotStolen
<1>1. ASSUME TypeOK, TypeOK', [Next]_vars
      PROVE  \A r \in Runs :
        /\ lease[r] # NoLease /\ lease'[r] # NoLease /\ lease[r].ttl > 0 =>
             lease'[r].token = lease[r].token
        /\ lease[r] = NoLease /\ lease'[r] # NoLease =>
             lease'[r].token = Len(issued) + 1
  <2>1. CASE \E r \in Runs, k \in CallKeys, w \in Workers, d \in Durations :
               ClaimTurn(r, k, w, d)
    BY <1>1, <2>1, ClaimTakesExpired
  <2>2. CASE ~ \E r \in Runs, k \in CallKeys, w \in Workers, d \in Durations :
                 ClaimTurn(r, k, w, d)
    BY <1>1, <2>2, LeaseKept
  <2> QED
    BY <2>1, <2>2
<1> QED
  BY <1>1, TypeCorrect, PTL DEF Spec, LiveLeaseNotStolen

=============================================================================
