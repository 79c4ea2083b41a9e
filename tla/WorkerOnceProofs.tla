--------------------------- MODULE WorkerOnceProofs ---------------------------
(***************************************************************************)
(* The worker command keeps its promises for any number of invocations,    *)
(* with the same worker id and the same keys, next to every other caller:  *)
(* an invocation that exits with success has its result in the history of  *)
(* its run, and a run it escalated stays with the human.                   *)
(*                                                                         *)
(* Every step of the command is a call of the controller or none, so what  *)
(* ControllerProofs and HistoryProofs prove of Spec holds of CommandSpec.  *)
(* To that, JobInv adds what the three keys of the command stand for.      *)
(***************************************************************************)
EXTENDS WorkerOnce, HistoryProofs

Stations ==
  {"idle", "executing", "failed", "finished", "answered", "unrecorded",
   "escalated", "unescalated"}

JobTypeOK ==
  job \in [Invocations -> [at: Stations, token: Nat, result: Results \cup {None}]]

\* Result x is in the stream, under the command's key, for instruction i.
Recorded(log, x, i) ==
  \E j \in DOMAIN log :
    /\ log[j] = Event("RESULT_SUBMITTED", ResultKey, x)
    /\ \E n \in 1..j :
         /\ log[n].type = "INSTRUCTION_SUBMITTED" /\ log[n].arg = i
         /\ \A k \in 1..j : log[k].type = "INSTRUCTION_SUBMITTED" => k <= n

TokenOf(r) == ops[r][ClaimKey].token

\* The claim key stands for one claim of the run.
ClaimHonest(r) ==
  ops[r][ClaimKey] # NoOp =>
    TokenOf(r) \in DOMAIN issued /\ issued[TokenOf(r)].run = r

\* The result key stands for a recorded result for what that claim was handed.
ResultHonest(r) ==
  ops[r][ResultKey] # NoOp =>
    /\ ops[r][ClaimKey] # NoOp
    /\ \E x \in Results :
         /\ ops[r][ResultKey] = Request("submit_result", Me, x)
         /\ Recorded(events[r], x, issued[TokenOf(r)].instruction)

\* The blocker key stands for a run that was handed to the human.
BlockerHonest(r) == ops[r][BlockerKey] # NoOp => snap[r].state = "HUMAN_REQUIRED"

KeysHonest == \A r \in Runs : ClaimHonest(r) /\ ResultHonest(r) /\ BlockerHonest(r)

\* All invocations on a run hold the one claim its claim key stands for.
HoldsClaim(v) ==
  /\ job[v].token \in DOMAIN issued
  /\ ops[RunOf(v)][ClaimKey] # NoOp
  /\ TokenOf(RunOf(v)) = job[v].token

Concluded(v) ==
  /\ job[v].at = "finished" => job[v].result \in Results
  /\ job[v].at = "answered" =>
       ops[RunOf(v)][ResultKey] = Request("submit_result", Me, job[v].result)
  /\ job[v].at = "escalated" => snap[RunOf(v)].state = "HUMAN_REQUIRED"

Working == \A v \in Invocations : job[v].at # "idle" => HoldsClaim(v) /\ Concluded(v)

JobInv == JobTypeOK /\ KeysHonest /\ Working

-----------------------------------------------------------------------------
(* Every step of the command is a step of the controller.                    *)

\* Every step of a command is a worker's call or none, so it is a step of the
\* controller.
LEMMA ClaimIsCall ==
  ASSUME NEW v \in Invocations, NEW r \in Runs, ClaimNew(v, r)
  PROVE  WorkerCall(r, ClaimKey)
BY CommandAssumption DEF ClaimNew, WorkerCall

\* A command that holds a claim holds an issued one.
LEMMA HeldRun ==
  ASSUME TypeOK, NEW v \in Invocations, HoldsClaim(v)
  PROVE  RunOf(v) \in Runs /\ job[v].token \in DOMAIN issued
<1>1. issued[job[v].token] \in Claims
  BY DEF HoldsClaim, TypeOK
<1> QED
  BY <1>1 DEF Claims, RunOf, HoldsClaim

LEMMA SubmitIsCall ==
  ASSUME TypeOK, JobInv, NEW v \in Invocations, SubmitNew(v)
  PROVE  RunOf(v) \in Runs /\ WorkerCall(RunOf(v), ResultKey)
<1>1. HoldsClaim(v) /\ Concluded(v) /\ job[v].at = "finished"
  BY DEF SubmitNew, JobInv, Working
<1>2. RunOf(v) \in Runs /\ job[v].token \in DOMAIN issued /\ job[v].result \in Results
  BY <1>1, HeldRun DEF Concluded
<1> QED
  BY <1>2, CommandAssumption DEF SubmitNew, WorkerCall

LEMMA EscalateIsCall ==
  ASSUME TypeOK, JobInv, NEW v \in Invocations, Escalate(v)
  PROVE  RunOf(v) \in Runs /\ WorkerCall(RunOf(v), BlockerKey)
<1>1. HoldsClaim(v)
  BY DEF Escalate, JobInv, Working
<1>2. RunOf(v) \in Runs /\ job[v].token \in DOMAIN issued
  BY <1>1, HeldRun
<1> QED
  BY <1>2, CommandAssumption DEF Escalate, WorkerCall

LEMMA OthersAreCalls ==
  ASSUME Others
  PROVE  Next /\ UNCHANGED job
BY DEF Others, OtherWorker, Next, WorkerCall, CallKeys

\* With the other callers' steps: every step is a step of the controller.
LEMMA CommandIsCall ==
  ASSUME TypeOK, JobInv, [CommandNext]_commandVars
  PROVE  [Next]_vars
<1> DEFINE Called == \E r \in Runs, k \in CallKeys : WorkerCall(r, k)
<1>1. Called => Next
  BY DEF Next
<1>2. {ClaimKey, ResultKey, BlockerKey} \subseteq CallKeys
  BY CommandAssumption DEF CallKeys
<1>3. ASSUME NEW v \in Invocations, NEW r \in Runs, ClaimNew(v, r)
      PROVE  Called
  BY <1>2, <1>3, ClaimIsCall
<1>4. ASSUME NEW v \in Invocations, SubmitNew(v)
      PROVE  Called
  BY <1>2, <1>4, SubmitIsCall
<1>5. ASSUME NEW v \in Invocations, Escalate(v)
      PROVE  Called
  BY <1>2, <1>5, EscalateIsCall
<1>6. CASE UNCHANGED vars
  BY <1>6
<1>7. CASE UNCHANGED commandVars
  BY <1>7 DEF commandVars
<1> HIDE DEF Called
<1> QED
  BY <1>1, <1>3, <1>4, <1>5, <1>6, <1>7, OthersAreCalls
  DEF CommandNext, ClaimStored, Execute, SubmitStored, SubmitRaises,
      EscalateStored, EscalateRaises, Die

-----------------------------------------------------------------------------
(* What no call of the controller takes back.                                *)

\* What a step of the controller keeps: claims, streams and recorded answers.
LEMMA IssuedKept ==
  ASSUME TypeOK, [Next]_vars
  PROVE  \A t \in DOMAIN issued : t \in DOMAIN issued' /\ issued'[t] = issued[t]
<1>1. CASE issued' = issued
  BY <1>1
<1>2. ASSUME NEW r \in Runs, NEW k \in CallKeys, NEW w \in Workers, NEW d \in Durations,
             ClaimTurn(r, k, w, d)
      PROVE  \A t \in DOMAIN issued : t \in DOMAIN issued' /\ issued'[t] = issued[t]
  <2>1. issued \in Seq(Claims) /\ \E c : issued' = Append(issued, c)
    BY <1>2 DEF TypeOK, ClaimTurn
  <2> QED
    BY <2>1
<1>3. ASSUME NEW r \in Runs, NEW k \in CallKeys, PlannerCall(r, k)
      PROVE  issued' = issued
  BY <1>3 DEF PlannerCall, SubmitInstruction, RequestHuman, CompleteRun
<1>4. ASSUME NEW r \in Runs, NEW k \in CallKeys, ControlCall(r, k)
      PROVE  issued' = issued
  BY <1>4 DEF ControlCall, CreateRun, PauseRun, ResumeRun, StopRun, FailRun
<1>5. ASSUME NEW r \in Runs, NEW k \in CallKeys, WorkerCall(r, k)
      PROVE  \A t \in DOMAIN issued : t \in DOMAIN issued' /\ issued'[t] = issued[t]
  BY <1>1, <1>2, <1>5 DEF WorkerCall, SubmitResult, ReportProgress, ReportBlocker
<1>6. CASE RecoverExpiredLeases \/ Tick \/ UNCHANGED vars
  BY <1>1, <1>6 DEF RecoverExpiredLeases, Tick, vars
<1> QED
  BY <1>1, <1>3, <1>4, <1>5, <1>6 DEF Next

LEMMA RunKept ==
  ASSUME IInv, [Next]_vars, NEW r \in Runs
  PROVE  /\ Continues(events[r], events'[r])
         /\ events[r] \in Seq(Events) /\ events'[r] \in Seq(Events)
         /\ snap[r].state = "HUMAN_REQUIRED" => snap'[r].state = "HUMAN_REQUIRED"
<1>1. events[r] \in Seq(Events) /\ snap[r] \in Snapshots
  BY DEF IInv, TypeOK
<1>2. CASE events'[r] = events[r] /\ snap'[r] = snap[r]
  BY <1>1, <1>2 DEF Continues
<1>3. CASE RunStep(r)
  <2>1. Extends(events[r], snap[r], events'[r], snap'[r])
    BY <1>3 DEF RunStep
  <2> QED
    BY <1>1, <2>1, ExtendsContinues DEF TerminalStates
<1> QED
  BY <1>2, <1>3, LogSteps

LEMMA RecordedKept ==
  ASSUME NEW log \in Seq(Events), NEW more \in Seq(Events), Continues(log, more),
         NEW x, NEW i, Recorded(log, x, i)
  PROVE  Recorded(more, x, i)
<1>1. PICK j \in DOMAIN log :
        /\ log[j] = Event("RESULT_SUBMITTED", ResultKey, x)
        /\ \E n \in 1..j :
             /\ log[n].type = "INSTRUCTION_SUBMITTED" /\ log[n].arg = i
             /\ \A k \in 1..j : log[k].type = "INSTRUCTION_SUBMITTED" => k <= n
  BY DEF Recorded
<1>2. j \in 1..Len(log) /\ Len(log) \in Nat /\ Len(more) \in Nat /\ Len(log) <= Len(more)
  BY DEF Continues
<1>3. /\ \A n \in 1..j : more[n] = log[n]
      /\ j \in DOMAIN more
  BY <1>2 DEF Continues
<1>4. more[j] = Event("RESULT_SUBMITTED", ResultKey, x)
  BY <1>1, <1>2, <1>3
<1>5. \E n \in 1..j :
        /\ more[n].type = "INSTRUCTION_SUBMITTED" /\ more[n].arg = i
        /\ \A k \in 1..j : more[k].type = "INSTRUCTION_SUBMITTED" => k <= n
  BY <1>1, <1>3
<1> QED
  BY <1>3, <1>4, <1>5 DEF Recorded

-----------------------------------------------------------------------------
(* What is stored under the keys of the command, and by whom.                *)

CommandKeys == {ClaimKey, ResultKey, BlockerKey}

\* Operation o is stored, and no other row is touched.
Stores(r, k, o) ==
  /\ ops[r][k] = NoOp /\ ops'[r][k] = o /\ o # NoOp
  /\ \A q \in Runs, l \in CommandKeys : q # r \/ l # k => ops'[q][l] = ops[q][l]

StoresNothing == \A q \in Runs, l \in CommandKeys : ops'[q][l] = ops[q][l]

\* What a step stores under the command's keys.
LEMMA StoreStores ==
  ASSUME TypeOK, NEW r \in Runs, NEW k \in Keys, NEW o \in Operations,
         Callable(r, k), Store(r, k, o)
  PROVE  Stores(r, k, o)
<1>1. ops \in [Scopes -> [Keys -> Operations \cup {NoOp}]] /\ Runs \subseteq Scopes
  BY DEF TypeOK, Scopes
<1>2. ops' = [ops EXCEPT ![r][k] = o] /\ ops[r][k] = NoOp /\ o # NoOp
  BY NoOpAssumption DEF Store, Callable
<1>3. CommandKeys \subseteq Keys
  BY CommandAssumption DEF CommandKeys
<1> QED
  BY <1>1, <1>2, <1>3 DEF Stores

LEMMA ClaimStores ==
  ASSUME TypeOK, NEW v \in Invocations, NEW r \in Runs, ClaimNew(v, r)
  PROVE  /\ Stores(r, ClaimKey, [op |-> "claim_turn", worker |-> Me, seconds |-> LeaseTime,
                                 token |-> Len(issued) + 1])
         /\ Len(issued) + 1 \in DOMAIN issued' /\ issued'[Len(issued) + 1].run = r
         /\ Len(issued) + 1 \in Nat
<1> DEFINE o == [op |-> "claim_turn", worker |-> Me, seconds |-> LeaseTime,
                 token |-> Len(issued) + 1]
<1>1. ClaimTurn(r, ClaimKey, Me, LeaseTime) /\ ClaimKey \in Keys
  BY CommandAssumption DEF ClaimNew
<1>2. Callable(r, ClaimKey) /\ Store(r, ClaimKey, o)
  BY <1>1 DEF ClaimTurn
<1>3. issued \in Seq(Claims) /\ \E i : issued' = Append(issued, [run |-> r, worker |-> Me,
                                                              instruction |-> i])
  BY <1>1 DEF TypeOK, ClaimTurn
<1>4. Len(issued) + 1 \in DOMAIN issued' /\ issued'[Len(issued) + 1].run = r
      /\ Len(issued) + 1 \in Tokens
  BY <1>3 DEF Tokens
<1>5. o \in Operations
  BY <1>4, CommandAssumption, BoundsAssumption DEF Operations
<1> QED
  BY <1>1, <1>2, <1>4, <1>5, StoreStores DEF Tokens

LEMMA SubmitStores ==
  ASSUME IInv, HistoryInv, JobInv, NEW v \in Invocations, SubmitNew(v)
  PROVE  /\ RunOf(v) \in Runs /\ HoldsClaim(v) /\ job[v].result \in Results
         /\ Stores(RunOf(v), ResultKey, Request("submit_result", Me, job[v].result))
         /\ Recorded(events'[RunOf(v)], job[v].result, issued[job[v].token].instruction)
<1> DEFINE r == RunOf(v)
           x == job[v].result
           e == Event("RESULT_SUBMITTED", ResultKey, x)
           more == Append(events[r], e)
<1>1. TypeOK /\ HoldsClaim(v) /\ Concluded(v) /\ job[v].at = "finished"
  BY DEF IInv, SubmitNew, JobInv, Working
<1>2. r \in Runs /\ job[v].token \in DOMAIN issued /\ x \in Results
  BY <1>1, HeldRun DEF Concluded
<1>3. SubmitResult(r, ResultKey, Me, job[v].token, x)
  BY DEF SubmitNew
<1> HIDE DEF r, x
<1>4. Stores(r, ResultKey, Request("submit_result", Me, x))
  <2>1. Request("submit_result", Me, x) \in Operations
    BY <1>2, CommandAssumption DEF Request, Operations, Payloads
  <2> QED
    BY <1>1, <1>2, <1>3, <2>1, CommandAssumption, StoreStores DEF SubmitResult
<1>5. issued[job[v].token].instruction = snap[r].instruction
  <2>1. lease[r] # NoLease /\ lease[r].token = job[v].token
    BY <1>3 DEF SubmitResult, AssertLease
  <2>2. issued[job[v].token] = [run |-> r, worker |-> lease[r].worker,
                                instruction |-> snap[r].instruction]
    BY <1>2, <2>1 DEF IInv, LeaseMatchesTurn
  <2> QED
    BY <2>2
<1>6. snap[r].instruction # None
  <2>1. issued[job[v].token] \in Claims
    BY <1>1, <1>2 DEF TypeOK
  <2> QED
    BY <1>5, <2>1, NoneAssumption DEF Claims
<1>7. Instructed(events[r], snap[r].instruction)
  BY <1>2, <1>6 DEF HistoryInv, History
<1>8. events[r] \in Seq(Events) /\ e \in Events /\ e.type = "RESULT_SUBMITTED"
  BY <1>1, <1>2, CommandAssumption
  DEF TypeOK, Event, Events, EventTypes, Payloads
<1>9. events'[r] = more
  <2>1. events'[r] = events[r] \o <<e>>
    BY <1>1, <1>2, <1>3 DEF TypeOK, SubmitResult, AppendAndSync, Commit
  <2> HIDE DEF e
  <2> QED
    BY <1>8, <2>1
<1>10. /\ At(events[r], "INSTRUCTION_SUBMITTED") \subseteq 1..Len(events[r])
       /\ Len(events[r]) \in Nat
       /\ At(more, "INSTRUCTION_SUBMITTED") = At(events[r], "INSTRUCTION_SUBMITTED")
       /\ \A j \in 1..Len(events[r]) : more[j] = events[r][j]
       /\ more[Len(events[r]) + 1] = e
       /\ DOMAIN more = 1..Len(events[r]) + 1
  <2> HIDE DEF e
  <2> QED
    BY <1>8, AppendedEvent
<1> HIDE DEF more
<1>11. Recorded(more, x, snap[r].instruction)
  <2>1. PICK n \in At(events[r], "INSTRUCTION_SUBMITTED") :
          /\ events[r][n].arg = snap[r].instruction
          /\ \A k \in At(events[r], "INSTRUCTION_SUBMITTED") : k <= n
    BY <1>7 DEF Instructed
  <2>2. n \in 1..Len(events[r]) + 1
    BY <1>10, <2>1
  <2>3. more[n].type = "INSTRUCTION_SUBMITTED" /\ more[n].arg = snap[r].instruction
    BY <1>10, <2>1 DEF At
  <2>4. \A k \in 1..Len(events[r]) + 1 : more[k].type = "INSTRUCTION_SUBMITTED" => k <= n
    BY <1>10, <2>1 DEF At
  <2>5. Len(events[r]) + 1 \in DOMAIN more
    BY <1>10
  <2> QED
    BY <1>10, <2>2, <2>3, <2>4, <2>5 DEF Recorded
<1> QED
  BY <1>1, <1>2, <1>4, <1>5, <1>9, <1>11 DEF r, x

LEMMA EscalateStores ==
  ASSUME IInv, JobInv, NEW v \in Invocations, Escalate(v)
  PROVE  /\ RunOf(v) \in Runs /\ HoldsClaim(v)
         /\ \E o : Stores(RunOf(v), BlockerKey, o)
         /\ snap'[RunOf(v)].state = "HUMAN_REQUIRED"
<1> DEFINE r == RunOf(v)
<1>1. TypeOK /\ HoldsClaim(v)
  BY DEF IInv, Escalate, JobInv, Working
<1>2. r \in Runs
  BY <1>1, HeldRun
<1>3. ReportBlocker(r, BlockerKey, Me, job[v].token)
  BY DEF Escalate
<1> HIDE DEF r
<1>4. Stores(r, BlockerKey, Request("report_blocker", Me, None))
  <2>1. Request("report_blocker", Me, None) \in Operations
    BY CommandAssumption DEF Request, Operations, Payloads
  <2> QED
    BY <1>1, <1>2, <1>3, <2>1, CommandAssumption, StoreStores DEF ReportBlocker
<1>5. snap'[r] = [snap[r] EXCEPT !.state = "HUMAN_REQUIRED"] /\ snap[r] \in Snapshots
  BY <1>1, <1>2, <1>3
  DEF TypeOK, ReportBlocker, AppendAndSync, Commit, ApplyEvent, Event
<1>6. snap'[r].state = "HUMAN_REQUIRED"
  BY <1>5 DEF Snapshots
<1> QED
  BY <1>1, <1>2, <1>4, <1>6 DEF r

LEMMA OthersStoreNothing ==
  ASSUME Others
  PROVE  ops' = ops
<1>1. ASSUME NEW r \in Runs, PlannerCall(r, NoKey)
      PROVE  ops' = ops
  BY <1>1, NoKeyAssumption
  DEF PlannerCall, SubmitInstruction, RequestHuman, CompleteRun, Store
<1>2. ASSUME NEW r \in Runs, NEW max \in 1..Ceiling, CreateRun(r, NoKey, max)
      PROVE  ops' = ops
  BY <1>2, NoKeyAssumption DEF CreateRun, Store
<1>3. ASSUME NEW r \in Runs, ControlCall(r, NoKey)
      PROVE  ops' = ops
  BY <1>2, <1>3, NoKeyAssumption DEF ControlCall, PauseRun, ResumeRun, StopRun, FailRun, Store
<1>4. ASSUME NEW r \in Runs, OtherWorker(r)
      PROVE  ops' = ops
  BY <1>4, NoKeyAssumption DEF OtherWorker, ClaimTurn, SubmitResult, Store
<1> QED
  BY <1>1, <1>3, <1>4 DEF Others, Tick

\* A step stores under one key of the command, or under none.
LEMMA CommandStores ==
  ASSUME [CommandNext]_commandVars
  PROVE  \/ StoresNothing
         \/ \E v \in Invocations : SubmitNew(v) \/ Escalate(v) \/ \E r \in Runs : ClaimNew(v, r)
<1>1. ops' = ops => StoresNothing
  BY DEF StoresNothing
<1>2. UNCHANGED vars => ops' = ops
  BY DEF vars
<1>3. UNCHANGED commandVars => UNCHANGED vars
  BY DEF commandVars
<1> QED
  BY <1>1, <1>2, <1>3, OthersStoreNothing
  DEF CommandNext, ClaimStored, Execute, SubmitStored, SubmitRaises,
      EscalateStored, EscalateRaises, Die

\* What is stored under a key of the command stays.
LEMMA StoredKept ==
  ASSUME IInv, HistoryInv, JobInv, [CommandNext]_commandVars,
         NEW r \in Runs, NEW k \in CommandKeys, ops[r][k] # NoOp
  PROVE  ops'[r][k] = ops[r][k]
<1>1. TypeOK
  BY DEF IInv
<1>2. ASSUME NEW q \in Runs, NEW l, NEW o, Stores(q, l, o)
      PROVE  ops'[r][k] = ops[r][k]
  BY <1>2 DEF Stores
<1>3. CASE StoresNothing
  BY <1>3 DEF StoresNothing
<1> QED
  BY <1>1, <1>2, <1>3, CommandStores, ClaimStores, SubmitStores, EscalateStores

\* What is stored under the command's keys keeps telling what the command did.
LEMMA ClaimHonestKept ==
  ASSUME IInv, JobInv, [Next]_vars, NEW r \in Runs, ops'[r][ClaimKey] = ops[r][ClaimKey]
  PROVE  /\ ClaimHonest(r)'
         /\ ops[r][ClaimKey] # NoOp =>
              issued'[TokenOf(r)].instruction = issued[TokenOf(r)].instruction
<1>1. \A t \in DOMAIN issued : t \in DOMAIN issued' /\ issued'[t] = issued[t]
  BY IssuedKept DEF IInv
<1>2. ClaimHonest(r)
  BY DEF JobInv, KeysHonest
<1> QED
  BY <1>1, <1>2 DEF ClaimHonest, TokenOf

LEMMA ResultHonestKept ==
  ASSUME IInv, JobInv, [Next]_vars, NEW r \in Runs, ops'[r][ClaimKey] = ops[r][ClaimKey],
         ops'[r][ResultKey] = ops[r][ResultKey]
  PROVE  ResultHonest(r)'
<1> SUFFICES ASSUME ops[r][ResultKey] # NoOp
             PROVE  \E x \in Results :
                      /\ ops[r][ResultKey] = Request("submit_result", Me, x)
                      /\ Recorded(events'[r], x, issued'[TokenOf(r)].instruction)
  BY DEF ResultHonest, TokenOf, Recorded, JobInv, KeysHonest
<1>1. ops[r][ClaimKey] # NoOp
      /\ \E x \in Results :
           /\ ops[r][ResultKey] = Request("submit_result", Me, x)
           /\ Recorded(events[r], x, issued[TokenOf(r)].instruction)
  BY DEF JobInv, KeysHonest, ResultHonest
<1>2. issued'[TokenOf(r)].instruction = issued[TokenOf(r)].instruction
  BY <1>1, ClaimHonestKept
<1>3. /\ Continues(events[r], events'[r])
      /\ events[r] \in Seq(Events) /\ events'[r] \in Seq(Events)
  BY RunKept
<1> QED
  BY <1>1, <1>2, <1>3, RecordedKept

LEMMA BlockerHonestKept ==
  ASSUME IInv, JobInv, [Next]_vars, NEW r \in Runs, ops'[r][BlockerKey] = ops[r][BlockerKey]
  PROVE  BlockerHonest(r)'
BY RunKept DEF JobInv, KeysHonest, BlockerHonest

LEMMA NextKeysHonest ==
  ASSUME IInv, HistoryInv, JobInv, [Next]_vars, [CommandNext]_commandVars
  PROVE  KeysHonest'
<1> SUFFICES ASSUME NEW r \in Runs
             PROVE  ClaimHonest(r)' /\ ResultHonest(r)' /\ BlockerHonest(r)'
  BY DEF KeysHonest
<1>1. TypeOK
  BY DEF IInv
<1>2. CASE \A l \in CommandKeys : ops'[r][l] = ops[r][l]
  BY <1>2, ClaimHonestKept, ResultHonestKept, BlockerHonestKept DEF CommandKeys
<1>3. ASSUME NEW v \in Invocations, ClaimNew(v, r)
      PROVE  ClaimHonest(r)' /\ ResultHonest(r)' /\ BlockerHonest(r)'
  <2>1. PICK o : Stores(r, ClaimKey, o) /\ o.token = Len(issued) + 1
    BY <1>1, <1>3, ClaimStores
  <2>2. Len(issued) + 1 \in DOMAIN issued' /\ issued'[Len(issued) + 1].run = r
    BY <1>1, <1>3, ClaimStores
  <2>3. ClaimHonest(r)'
    BY <2>1, <2>2 DEF ClaimHonest, TokenOf, Stores
  <2>4. ops'[r][ResultKey] = ops[r][ResultKey] /\ ops'[r][BlockerKey] = ops[r][BlockerKey]
        /\ ops[r][ClaimKey] = NoOp
    BY <2>1, CommandAssumption DEF Stores, CommandKeys
  <2>5. ResultHonest(r)'
    BY <2>4 DEF ResultHonest, JobInv, KeysHonest
  <2> QED
    BY <2>3, <2>4, <2>5, BlockerHonestKept
<1>4. ASSUME NEW v \in Invocations, SubmitNew(v), r = RunOf(v)
      PROVE  ClaimHonest(r)' /\ ResultHonest(r)' /\ BlockerHonest(r)'
  <2> DEFINE x == job[v].result
  <2>1. /\ HoldsClaim(v) /\ x \in Results
        /\ Stores(r, ResultKey, Request("submit_result", Me, x))
        /\ Recorded(events'[r], x, issued[job[v].token].instruction)
    BY <1>4, SubmitStores
  <2>2. ops'[r][ClaimKey] = ops[r][ClaimKey] /\ ops'[r][BlockerKey] = ops[r][BlockerKey]
    BY <2>1, CommandAssumption DEF Stores, CommandKeys
  <2>3. ops[r][ClaimKey] # NoOp /\ TokenOf(r) = job[v].token
    BY <1>4, <2>1 DEF HoldsClaim
  <2>4. Recorded(events'[r], x, issued'[TokenOf(r)].instruction)
    BY <2>1, <2>2, <2>3, ClaimHonestKept
  <2>5. ops'[r][ResultKey] = Request("submit_result", Me, x)
    BY <2>1 DEF Stores
  <2> HIDE DEF x
  <2>6. ResultHonest(r)'
    BY <2>1, <2>2, <2>3, <2>4, <2>5 DEF ResultHonest, TokenOf, Recorded
  <2> QED
    BY <2>2, <2>6, ClaimHonestKept, BlockerHonestKept
<1>5. ASSUME NEW v \in Invocations, Escalate(v), r = RunOf(v)
      PROVE  ClaimHonest(r)' /\ ResultHonest(r)' /\ BlockerHonest(r)'
  <2>1. PICK o : Stores(r, BlockerKey, o) /\ snap'[r].state = "HUMAN_REQUIRED"
    BY <1>5, EscalateStores
  <2>2. ops'[r][ClaimKey] = ops[r][ClaimKey] /\ ops'[r][ResultKey] = ops[r][ResultKey]
    BY <2>1, CommandAssumption DEF Stores, CommandKeys
  <2> QED
    BY <2>1, <2>2, ClaimHonestKept, ResultHonestKept DEF BlockerHonest
<1>6. ASSUME NEW q \in Runs, NEW l, NEW o, Stores(q, l, o), q # r
      PROVE  \A m \in CommandKeys : ops'[r][m] = ops[r][m]
  BY <1>6 DEF Stores
<1>7. CASE StoresNothing
  BY <1>2, <1>7 DEF StoresNothing
<1>8. ASSUME NEW v \in Invocations, NEW q \in Runs, ClaimNew(v, q)
      PROVE  ClaimHonest(r)' /\ ResultHonest(r)' /\ BlockerHonest(r)'
  BY <1>1, <1>2, <1>3, <1>6, <1>8, ClaimStores
<1>9. ASSUME NEW v \in Invocations, SubmitNew(v)
      PROVE  ClaimHonest(r)' /\ ResultHonest(r)' /\ BlockerHonest(r)'
  BY <1>2, <1>4, <1>6, <1>9, SubmitStores
<1>10. ASSUME NEW v \in Invocations, Escalate(v)
      PROVE  ClaimHonest(r)' /\ ResultHonest(r)' /\ BlockerHonest(r)'
  BY <1>2, <1>5, <1>6, <1>10, EscalateStores
<1> QED
  BY <1>7, <1>8, <1>9, <1>10, CommandStores

-----------------------------------------------------------------------------
(* What the invocations know.                                                *)

\* Invocation v moves.
Moves(v) ==
  \/ \E r \in Runs : ClaimNew(v, r) \/ ClaimStored(v, r)
  \/ Execute(v) \/ SubmitStored(v) \/ SubmitNew(v) \/ SubmitRaises(v)
  \/ Escalate(v) \/ EscalateStored(v) \/ EscalateRaises(v) \/ Die(v)

\* What a command that begins, reaches a point or finishes leaves behind.
LEMMA BeginsJob ==
  ASSUME JobTypeOK, NEW v \in Invocations, NEW t \in Nat, Begins(v, t)
  PROVE  /\ JobTypeOK'
         /\ job'[v].at = "executing" /\ job'[v].token = t
         /\ \A u \in Invocations \ {v} : job'[u] = job[u]
<1> DEFINE j == [at |-> "executing", token |-> t, result |-> None]
<1>1. j \in [at: Stations, token: Nat, result: Results \cup {None}]
      /\ j.at = "executing" /\ j.token = t
  BY DEF Stations
<1>2. job' = [job EXCEPT ![v] = j]
  BY DEF Begins
<1> HIDE DEF j
<1> QED
  BY <1>1, <1>2 DEF JobTypeOK

LEMMA ReachesJob ==
  ASSUME JobTypeOK, NEW v \in Invocations, NEW station \in Stations, Reaches(v, station)
  PROVE  /\ JobTypeOK'
         /\ job'[v].at = station /\ job'[v].token = job[v].token
         /\ job'[v].result = job[v].result
         /\ \A u \in Invocations \ {v} : job'[u] = job[u]
<1> DEFINE j == [job[v] EXCEPT !.at = station]
<1>1. job[v] \in [at: Stations, token: Nat, result: Results \cup {None}]
  BY DEF JobTypeOK
<1>2. j \in [at: Stations, token: Nat, result: Results \cup {None}]
      /\ j.at = station /\ j.token = job[v].token /\ j.result = job[v].result
  BY <1>1
<1>3. job' = [job EXCEPT ![v] = j]
  BY DEF Reaches
<1> HIDE DEF j
<1> QED
  BY <1>2, <1>3 DEF JobTypeOK

LEMMA FinishesJob ==
  ASSUME JobTypeOK, NEW v \in Invocations, NEW x \in Results,
         job' = [job EXCEPT ![v].at = "finished", ![v].result = x]
  PROVE  /\ JobTypeOK'
         /\ job'[v].at = "finished" /\ job'[v].token = job[v].token /\ job'[v].result = x
         /\ \A u \in Invocations \ {v} : job'[u] = job[u]
<1> DEFINE j == [job[v] EXCEPT !.at = "finished", !.result = x]
<1>1. job[v] \in [at: Stations, token: Nat, result: Results \cup {None}]
  BY DEF JobTypeOK
<1>2. j \in [at: Stations, token: Nat, result: Results \cup {None}]
      /\ j.at = "finished" /\ j.token = job[v].token /\ j.result = x
  BY <1>1 DEF Stations
<1>3. job' = [job EXCEPT ![v] = j]
  BY DEF JobTypeOK
<1> HIDE DEF j
<1> QED
  BY <1>2, <1>3 DEF JobTypeOK

\* An invocation keeps its claim while it moves on.
LEMMA ClaimHeld ==
  ASSUME IInv, HistoryInv, JobInv, [Next]_vars, [CommandNext]_commandVars,
         NEW v \in Invocations, job[v].at # "idle", job'[v].token = job[v].token
  PROVE  /\ HoldsClaim(v)' /\ issued'[job'[v].token].run = RunOf(v) /\ RunOf(v) \in Runs
         /\ ops[RunOf(v)][ResultKey] # NoOp =>
              ops'[RunOf(v)][ResultKey] = ops[RunOf(v)][ResultKey]
         /\ snap[RunOf(v)].state = "HUMAN_REQUIRED" => snap'[RunOf(v)].state = "HUMAN_REQUIRED"
<1>1. HoldsClaim(v) /\ TypeOK
  BY DEF JobInv, Working, IInv
<1>2. RunOf(v) \in Runs /\ job[v].token \in DOMAIN issued
  BY <1>1, HeldRun
<1>3. job[v].token \in DOMAIN issued' /\ issued'[job[v].token] = issued[job[v].token]
  BY <1>1, <1>2, IssuedKept
<1>4. ops'[RunOf(v)][ClaimKey] = ops[RunOf(v)][ClaimKey]
  BY <1>1, <1>2, StoredKept DEF HoldsClaim, CommandKeys
<1>5. HoldsClaim(v)'
  BY <1>1, <1>3, <1>4 DEF HoldsClaim, RunOf, TokenOf
<1> QED
  BY <1>2, <1>3, <1>5, StoredKept, RunKept DEF CommandKeys, RunOf

\* Invocation v still holds its claim, and what it concluded holds.
Sound(v) == job[v].at # "idle" => HoldsClaim(v) /\ Concluded(v)

\* A command another one's step passes over stays sound; the one that moves is
\* sound after its step.
LEMMA BystanderSound ==
  ASSUME IInv, HistoryInv, JobInv, [Next]_vars, [CommandNext]_commandVars,
         NEW v \in Invocations, job'[v] = job[v]
  PROVE  Sound(v)'
<1> SUFFICES ASSUME job[v].at # "idle" PROVE HoldsClaim(v)' /\ Concluded(v)'
  BY DEF Sound
<1>1. HoldsClaim(v) /\ Concluded(v)
  BY DEF JobInv, Working
<1>2. Request("submit_result", Me, job[v].result) # NoOp
  <2>1. job[v].result \in Results \cup {None}
    BY DEF JobInv, JobTypeOK
  <2> QED
    BY <2>1, NoOpAssumption, CommandAssumption DEF Request, Operations, Payloads
<1>3. /\ HoldsClaim(v)' /\ RunOf(v)' = RunOf(v)
      /\ ops[RunOf(v)][ResultKey] # NoOp =>
              ops'[RunOf(v)][ResultKey] = ops[RunOf(v)][ResultKey]
      /\ snap[RunOf(v)].state = "HUMAN_REQUIRED" => snap'[RunOf(v)].state = "HUMAN_REQUIRED"
  BY ClaimHeld DEF RunOf
<1> QED
  BY <1>1, <1>2, <1>3 DEF Concluded

\* A run that has the claim of an invocation exists.
LEMMA ClaimedExists ==
  ASSUME IInv, HistoryInv, KeyInv, NEW r \in Runs, ops[r][ClaimKey] # NoOp
  PROVE  snap[r].state # "ABSENT"
<1>1. Single(Carrying(events[r], ClaimKey))
  BY CommandAssumption DEF KeyInv
<1>2. Carrying(<<>>, ClaimKey) = {}
  BY DEF Carrying
<1>3. events[r] # <<>>
  BY <1>1, <1>2 DEF Single
<1> QED
  BY <1>3 DEF HistoryInv, History, Lifecycle

LEMMA MoverSound ==
  ASSUME IInv, HistoryInv, KeyInv, JobInv, [Next]_vars, [CommandNext]_commandVars,
         NEW v \in Invocations, Moves(v)
  PROVE  /\ JobTypeOK' /\ Sound(v)'
         /\ \A u \in Invocations \ {v} : job'[u] = job[u]
<1>1. TypeOK /\ JobTypeOK
  BY DEF IInv, JobInv
<1>2. ASSUME NEW r \in Runs, ClaimNew(v, r)
      PROVE  /\ JobTypeOK' /\ Sound(v)'
             /\ \A u \in Invocations \ {v} : job'[u] = job[u]
  <2> DEFINE t == Len(issued) + 1
  <2>1. PICK o : Stores(r, ClaimKey, o) /\ o.token = t
    BY <1>1, <1>2, ClaimStores
  <2>2. t \in DOMAIN issued' /\ issued'[t].run = r /\ t \in Nat
    BY <1>1, <1>2, ClaimStores
  <2>3. Begins(v, t)
    BY <1>2 DEF ClaimNew
  <2> HIDE DEF t
  <2>4. /\ JobTypeOK' /\ job'[v].at = "executing" /\ job'[v].token = t
        /\ \A u \in Invocations \ {v} : job'[u] = job[u]
    BY <1>1, <2>2, <2>3, BeginsJob
  <2>5. HoldsClaim(v)'
    BY <2>1, <2>2, <2>4 DEF HoldsClaim, RunOf, TokenOf, Stores
  <2> QED
    BY <2>4, <2>5 DEF Sound, Concluded
<1>3. ASSUME NEW r \in Runs, ClaimStored(v, r)
      PROVE  /\ JobTypeOK' /\ Sound(v)'
             /\ \A u \in Invocations \ {v} : job'[u] = job[u]
  <2> DEFINE t == TokenOf(r)
  <2>1. ops[r][ClaimKey] # NoOp /\ t \in DOMAIN issued /\ issued[t].run = r
    BY <1>3 DEF ClaimStored, JobInv, KeysHonest, ClaimHonest
  <2>2. t \in Nat
    BY <1>1, <2>1 DEF TypeOK
  <2>3. Begins(v, t) /\ ops' = ops /\ issued' = issued
    BY <1>3 DEF ClaimStored, TokenOf, vars
  <2>4. /\ JobTypeOK' /\ job'[v].at = "executing" /\ job'[v].token = t
        /\ \A u \in Invocations \ {v} : job'[u] = job[u]
    BY <1>1, <2>2, <2>3, BeginsJob
  <2>5. HoldsClaim(v)'
    BY <2>1, <2>3, <2>4 DEF HoldsClaim, RunOf, TokenOf
  <2> QED
    BY <2>4, <2>5 DEF Sound, Concluded
<1>4. ASSUME NEW x \in Results, job[v].at = "executing",
             job' = [job EXCEPT ![v].at = "finished", ![v].result = x]
      PROVE  /\ JobTypeOK' /\ Sound(v)'
             /\ \A u \in Invocations \ {v} : job'[u] = job[u]
  <2>1. /\ JobTypeOK'
        /\ job'[v].at = "finished" /\ job'[v].token = job[v].token /\ job'[v].result = x
        /\ \A u \in Invocations \ {v} : job'[u] = job[u]
    BY <1>1, <1>4, FinishesJob
  <2>2. HoldsClaim(v)'
    BY <1>4, <2>1, ClaimHeld
  <2> QED
    BY <2>1, <2>2 DEF Sound, Concluded
<1>5. ASSUME NEW station \in Stations, Reaches(v, station),
             station # "idle" => job[v].at # "idle",
             station # "finished",
             station = "answered" =>
               ops'[RunOf(v)][ResultKey] = Request("submit_result", Me, job[v].result),
             station = "escalated" => snap'[RunOf(v)].state = "HUMAN_REQUIRED"
      PROVE  /\ JobTypeOK' /\ Sound(v)'
             /\ \A u \in Invocations \ {v} : job'[u] = job[u]
  <2>1. /\ JobTypeOK'
        /\ job'[v].at = station /\ job'[v].token = job[v].token
        /\ job'[v].result = job[v].result
        /\ \A u \in Invocations \ {v} : job'[u] = job[u]
    BY <1>1, <1>5, ReachesJob
  <2>2. station # "idle" => HoldsClaim(v)' /\ RunOf(v)' = RunOf(v)
    BY <1>5, <2>1, ClaimHeld DEF RunOf
  <2> QED
    BY <1>5, <2>1, <2>2 DEF Sound, Concluded
<1>6. /\ \A s \in {"failed", "finished", "answered", "unrecorded", "escalated",
                   "unescalated", "idle"} : s \in Stations
  BY DEF Stations
<1>7. CASE Execute(v)
  <2>1. CASE Reaches(v, "failed") /\ job[v].at = "executing"
    BY <1>5, <1>6, <2>1
  <2> QED
    BY <1>4, <1>7, <2>1 DEF Execute
<1>8. CASE SubmitStored(v)
  <2>1. job[v].at = "finished" /\ Reaches(v, "answered")
        /\ ops'[RunOf(v)][ResultKey] = Request("submit_result", Me, job[v].result)
    BY <1>8 DEF SubmitStored, vars
  <2> QED
    BY <1>5, <1>6, <2>1
<1>9. CASE SubmitNew(v)
  <2>1. Stores(RunOf(v), ResultKey, Request("submit_result", Me, job[v].result))
    BY <1>9, SubmitStores
  <2>2. job[v].at = "finished" /\ Reaches(v, "answered")
        /\ ops'[RunOf(v)][ResultKey] = Request("submit_result", Me, job[v].result)
    BY <1>9, <2>1 DEF SubmitNew, Stores
  <2> QED
    BY <1>5, <1>6, <2>2
<1>10. CASE SubmitRaises(v)
  <2>1. job[v].at = "finished" /\ Reaches(v, "unrecorded")
    BY <1>10 DEF SubmitRaises
  <2> QED
    BY <1>5, <1>6, <2>1
<1>11. CASE Escalate(v)
  <2>1. job[v].at = "failed" /\ Reaches(v, "escalated")
        /\ snap'[RunOf(v)].state = "HUMAN_REQUIRED"
    BY <1>11, EscalateStores DEF Escalate
  <2> QED
    BY <1>5, <1>6, <2>1
<1>12. CASE EscalateStored(v)
  <2>1. job[v].at = "failed" /\ (Reaches(v, "escalated") \/ Reaches(v, "unescalated"))
    BY <1>12 DEF EscalateStored
  <2>2. HoldsClaim(v) /\ RunOf(v) \in Runs
    BY <1>1, <2>1, HeldRun DEF JobInv, Working
  <2>3. ops[RunOf(v)][BlockerKey] # NoOp
    BY <1>12, <2>2, ClaimedExists DEF EscalateStored, Callable, HoldsClaim
  <2>4. snap[RunOf(v)].state = "HUMAN_REQUIRED" /\ snap' = snap
    BY <1>12, <2>2, <2>3 DEF JobInv, KeysHonest, BlockerHonest, EscalateStored, vars
  <2> QED
    BY <1>5, <1>6, <2>1, <2>4
<1>13. CASE EscalateRaises(v)
  <2>1. job[v].at = "failed" /\ Reaches(v, "unescalated")
    BY <1>13 DEF EscalateRaises
  <2> QED
    BY <1>5, <1>6, <2>1
<1>14. CASE Die(v)
  <2>1. Reaches(v, "idle")
    BY <1>14 DEF Die
  <2> QED
    BY <1>5, <1>6, <2>1
<1> QED
  BY <1>2, <1>3, <1>7, <1>8, <1>9, <1>10, <1>11, <1>12, <1>13, <1>14 DEF Moves

\* The invariant of the commands, kept by every step and true of all of them.
LEMMA NextJob ==
  ASSUME IInv, HistoryInv, KeyInv, JobInv, [Next]_vars, [CommandNext]_commandVars
  PROVE  JobInv'
<1>1. KeysHonest'
  BY NextKeysHonest
<1>2. CASE job' = job
  <2>1. JobTypeOK'
    BY <1>2 DEF JobInv, JobTypeOK
  <2>2. \A v \in Invocations : Sound(v)'
    BY <1>2, BystanderSound
  <2> QED
    BY <1>1, <2>1, <2>2 DEF JobInv, Working, Sound
<1>3. ASSUME NEW v \in Invocations, Moves(v)
      PROVE  JobInv'
  <2>1. JobTypeOK' /\ Sound(v)' /\ \A u \in Invocations \ {v} : job'[u] = job[u]
    BY <1>3, MoverSound
  <2>2. \A u \in Invocations : Sound(u)'
    BY <2>1, BystanderSound
  <2> QED
    BY <1>1, <2>1, <2>2 DEF JobInv, Working, Sound
<1> QED
  BY <1>2, <1>3, OthersAreCalls DEF CommandNext, commandVars, Moves

-----------------------------------------------------------------------------
(* The theorems.                                                             *)

CommandInv == IInv /\ HistoryInv /\ KeyInv /\ JobInv

LEMMA CommandInductive == CommandSpec => []CommandInv
<1>1. CommandInit => CommandInv
  <2> SUFFICES ASSUME CommandInit PROVE CommandInv
    OBVIOUS
  <2>1. Init
    BY DEF CommandInit
  <2>2. IInv /\ HistoryInv /\ KeyInv
    BY <2>1, InitIInv, InitHistory, InitKeys
  <2>3. KeysHonest
    BY <2>1, CommandAssumption
    DEF Init, Scopes, KeysHonest, ClaimHonest, ResultHonest, BlockerHonest
  <2>4. JobTypeOK /\ Working
    BY DEF CommandInit, JobTypeOK, Stations, Working
  <2> QED
    BY <2>2, <2>3, <2>4 DEF CommandInv, JobInv
<1>2. CommandInv /\ [CommandNext]_commandVars => CommandInv'
  <2> SUFFICES ASSUME CommandInv, [CommandNext]_commandVars PROVE CommandInv'
    OBVIOUS
  <2>1. [Next]_vars /\ IInv /\ HistoryInv /\ KeyInv /\ JobInv
    BY CommandIsCall DEF CommandInv, IInv
  <2>2. IInv'
    BY <2>1, NextTypeOK, NextIInv DEF IInv
  <2> QED
    BY <2>1, <2>2, NextHistory, NextKeys, NextJob DEF CommandInv
<1> QED
  BY <1>1, <1>2, PTL DEF CommandSpec

\* Every behaviour of the command, next to its fellow callers, is one of the
\* controller: what is proved of Spec holds when worker-once runs.
THEOREM CommandImplementsController == CommandSpec => Spec
<1>1. CommandInit => Init
  BY DEF CommandInit
<1>2. CommandInv /\ [CommandNext]_commandVars => [Next]_vars
  BY CommandIsCall DEF CommandInv, IInv
<1> QED
  BY <1>1, <1>2, CommandInductive, PTL DEF CommandSpec, Spec

\* An invocation that exits with success has its result in the history of its
\* run, under its key and for the instruction its claim was handed, whichever
\* of the invocations submitted it.
THEOREM SuccessRecorded == CommandSpec => []SuccessIsRecorded
<1>1. ASSUME CommandInv, NEW v \in Invocations, job[v].at = "answered"
      PROVE  LET s == events[RunOf(v)]
                 Before(j) == {n \in 1..j : s[n].type = "INSTRUCTION_SUBMITTED"}
             IN  \E j \in DOMAIN s :
                   /\ s[j] = Event("RESULT_SUBMITTED", ResultKey, job[v].result)
                   /\ \E n \in Before(j) :
                        /\ \A k \in Before(j) : k <= n
                        /\ s[n].arg = issued[job[v].token].instruction
  <2> DEFINE r == RunOf(v)
             o == Request("submit_result", Me, job[v].result)
  <2>1. HoldsClaim(v) /\ ops[r][ResultKey] = o
    BY <1>1 DEF CommandInv, JobInv, Working, Concluded
  <2>2. r \in Runs /\ TokenOf(r) = job[v].token
    BY <1>1, <2>1, HeldRun DEF CommandInv, IInv, HoldsClaim
  <2>3. o # NoOp
    <3>1. job[v].result \in Results \cup {None}
      BY <1>1 DEF CommandInv, JobInv, JobTypeOK
    <3> QED
      BY <3>1, NoOpAssumption, CommandAssumption DEF Request, Operations, Payloads
  <2>4. PICK x \in Results :
          /\ ops[r][ResultKey] = Request("submit_result", Me, x)
          /\ Recorded(events[r], x, issued[TokenOf(r)].instruction)
    BY <1>1, <2>1, <2>2, <2>3 DEF CommandInv, JobInv, KeysHonest, ResultHonest
  <2>5. x = job[v].result
    BY <2>1, <2>4 DEF Request
  <2>6. Recorded(events[r], job[v].result, issued[job[v].token].instruction)
    BY <2>2, <2>4, <2>5
  <2> QED
    BY <2>6 DEF Recorded
<1>2. CommandInv => SuccessIsRecorded
  BY <1>1 DEF SuccessIsRecorded
<1> QED
  BY <1>2, CommandInductive, PTL

\* A run whose worker escalated stays with the human, whatever is called.
THEOREM EscalationStays == CommandSpec => []EscalationHolds
<1>1. CommandInv => EscalationHolds
  BY DEF CommandInv, JobInv, Working, Concluded, EscalationHolds
<1> QED
  BY <1>1, CommandInductive, PTL
=============================================================================
