--------------------------- MODULE DiscoveryProofs ---------------------------
(***************************************************************************)
(* What holds of the attempts of a discovery for every choice of budgets,  *)
(* delays and number of attempts the assumption on them admits.            *)
(***************************************************************************)
EXTENDS Discovery, TLAPS

-----------------------------------------------------------------------------
(* Deadlines are the smaller of two ends. *)

\* The smaller of two budgets is a budget and bounded by both.
LEMMA SmallerOfTwo ==
  ASSUME NEW a \in Nat, NEW b \in Nat
  PROVE  Min({a, b}) \in Nat /\ Min({a, b}) <= a /\ Min({a, b}) <= b
<1>1. \E x \in {a, b} : \A y \in {a, b} : x <= y
  BY a <= b \/ b <= a
<1>2. /\ Min({a, b}) \in {a, b}
      /\ \A y \in {a, b} : Min({a, b}) <= y
  BY <1>1 DEF Min
<1> QED
  BY <1>2

LEMMA Budgets ==
  /\ {Aggregate, Cleanup, GroupTail, SignalWait, Response, Latest} \subseteq Nat
  /\ GroupTail < Cleanup
  /\ Latest + Cleanup = Aggregate
BY DiscoveryAssumption DEF Latest

LEMMA SessionEndBound ==
  ASSUME NEW t \in Nat
  PROVE  SessionEnd(t) \in 0..Latest
BY Budgets, SmallerOfTwo DEF SessionEnd

-----------------------------------------------------------------------------
(* The inductive invariant. *)

Working == {"launching", "initializing", "responded", "connected", "waiting"}

Supervising == {"closing", "terminating", "killing", "reaping", "joining"}

\* What is left of the budget: work stops where cleanup needs the rest, and the
\* waits of cleanup end with it.
Timely ==
  /\ stage \in Working => now <= Latest
  /\ stage \in Working \ {"launching"} => due <= Latest
  /\ stage \in Supervising =>
       now <= cleanupEnd /\ due <= cleanupEnd /\ cleanupEnd \in Cleanup..Aggregate
  /\ now <= Aggregate

\* Each stage of the cleanup finds processes gone or leaves an issue behind.
Supervised ==
  /\ stage \in Supervising \ {"closing"} /\ ~verified => issue
  /\ stage \in {"reaping", "joining"} /\ ~issue => Gone
  /\ stage = "cleaned" /\ ~issue => Gone /\ scanner = "off"

AnswerKept ==
  /\ stage \in {"launching", "waiting"} => ~answered
  /\ answered => observed \/ stage \in {"returned", "failed"}

IInv ==
  /\ DiscoveryTypeOK
  /\ Timely
  /\ Supervised
  /\ GoneBeforeNext
  /\ AnswerKept

LEMMA InitIInv == Init => IInv
<1> SUFFICES ASSUME Init PROVE IInv
  OBVIOUS
<1> USE Budgets DEF Init
<1>1. DiscoveryTypeOK
  <2>1. attempt \in 1..MaxAttempts
    BY DiscoveryAssumption
  <2>2. now \in 0..(Aggregate + Cleanup) /\ due \in 0..(Aggregate + Cleanup)
        /\ cleanupEnd \in 0..(Aggregate + Cleanup)
    OBVIOUS
  <2> QED
    BY <2>1, <2>2 DEF DiscoveryTypeOK, DiscoveryStages, Classes
<1>2. Timely
  BY DEF Timely, Working, Supervising
<1>3. Supervised /\ GoneBeforeNext /\ AnswerKept
  BY DEF Supervised, GoneBeforeNext, AnswerKept, Gone, Supervising
<1> QED
  BY <1>1, <1>2, <1>3 DEF IInv

-----------------------------------------------------------------------------
(* The steps. *)

\* Steps that only wait or that the processes take.
LEMMA TickKeeps == IInv /\ Tick => IInv'
<1> SUFFICES ASSUME IInv, Tick PROVE IInv'
  OBVIOUS
<1> USE Budgets DEF Tick, processVars
<1>1. Timely'
  BY DEF IInv, DiscoveryTypeOK, Timely, Working, Supervising
<1>2. DiscoveryTypeOK'
  BY <1>1 DEF IInv, DiscoveryTypeOK, Timely
<1>3. Supervised' /\ GoneBeforeNext' /\ AnswerKept'
  BY DEF IInv, Supervised, GoneBeforeNext, AnswerKept, Gone
<1> QED
  BY <1>1, <1>2, <1>3 DEF IInv

\* Every action keeps the invariant, one lemma each.
LEMMA ProcessStepKeeps == IInv /\ ProcessStep => IInv'
<1> SUFFICES ASSUME IInv, ProcessStep PROVE IInv'
  OBVIOUS
<1> USE DEF ProcessStep
<1>1. Timely'
  BY DEF IInv, Timely
<1>2. DiscoveryTypeOK'
  BY DEF IInv, DiscoveryTypeOK
<1>3. ~(alive = {} /\ scanner = "off")
  OBVIOUS
<1>4. Supervised' /\ GoneBeforeNext' /\ AnswerKept'
  BY <1>3 DEF IInv, Supervised, GoneBeforeNext, AnswerKept, Gone
<1> QED
  BY <1>1, <1>2, <1>4 DEF IInv

\* The exit of the with statement leaves cleanup its whole time.
LEMMA CloseBounds ==
  ASSUME IInv, stage \in Working, NEW cl \in Classes, Close(cl), now' = now
  PROVE  /\ stage' = "closing" /\ class' \in Classes
         /\ due' \in 0..(Aggregate + Cleanup) /\ cleanupEnd' \in 0..(Aggregate + Cleanup)
         /\ Timely'
BY Budgets DEF IInv, DiscoveryTypeOK, Timely, Close, Working, Supervising

LEMMA LaunchKeeps == IInv /\ Launch => IInv'
<1> SUFFICES ASSUME IInv, Launch PROVE IInv'
  OBVIOUS
<1> USE Budgets DEF Launch, Spawn, processVars
<1>1. CASE stage' \in {"failed", "cleaned"}
  <2>1. /\ UNCHANGED <<now, attempt, processVars, verified, due, cleanupEnd, answered>>
        /\ class' \in Classes
    <3>1. UNCHANGED <<now, attempt, answered>>
      OBVIOUS
    <3>2. /\ UNCHANGED <<processVars, verified, due, cleanupEnd>>
          /\ class' = class \/ class' \in {"spawn", "validation"}
      BY <1>1 DEF Close
    <3>3. class \in Classes
      BY DEF IInv, DiscoveryTypeOK
    <3>4. class' \in Classes
      BY <3>2, <3>3 DEF Classes, Transient
    <3> HIDE DEF Launch, Spawn
    <3> QED
      BY <3>1, <3>2, <3>4
  <2>2. DiscoveryTypeOK'
    BY <1>1, <2>1 DEF IInv, DiscoveryTypeOK, DiscoveryStages, Cleaning
  <2>3. Timely'
    BY <1>1, <2>1 DEF IInv, Timely, Working, Supervising
  <2>4. Supervised' /\ GoneBeforeNext' /\ AnswerKept'
    BY <1>1, <2>1 DEF IInv, Supervised, GoneBeforeNext, AnswerKept, Gone, Supervising
  <2> QED
    BY <2>2, <2>3, <2>4 DEF IInv
<1>2. CASE stage' = "initializing"
  <2>1. /\ alive' = {"leader"} /\ reaped' = FALSE /\ verified' = TRUE /\ scanner' = "on"
        /\ due' = SessionEnd(now) /\ now < Latest
        /\ UNCHANGED <<now, class, cleanupEnd, attempt, answered>>
    BY <1>2 DEF Close
  <2>2. due' \in 0..Latest
    BY <2>1, SessionEndBound DEF IInv, DiscoveryTypeOK
  <2>3. DiscoveryTypeOK'
    <3>1. due' \in 0..(Aggregate + Cleanup)
      BY <2>2
    <3>2. observed' = FALSE /\ issue' = FALSE /\ provisional' = FALSE
      OBVIOUS
    <3> HIDE DEF Launch, Spawn
    <3> QED
      BY <1>2, <2>1, <3>1, <3>2 DEF IInv, DiscoveryTypeOK, DiscoveryStages
  <2>4. Timely'
    BY <1>2, <2>1, <2>2 DEF IInv, Timely, Working, Supervising
  <2>5. Supervised' /\ GoneBeforeNext' /\ AnswerKept'
    BY <1>2, <2>1 DEF IInv, Supervised, GoneBeforeNext, AnswerKept, Supervising
  <2> QED
    BY <2>3, <2>4, <2>5 DEF IInv
<1>3. CASE stage' = "closing"
  <2>1. PICK cl \in {"validation", "group"} : Close(cl)
    BY <1>3
  <2>2. cl \in Classes /\ stage \in Working /\ now' = now
    BY DEF Classes, Working
  <2>3. /\ class' \in Classes /\ Timely'
        /\ due' \in 0..(Aggregate + Cleanup) /\ cleanupEnd' \in 0..(Aggregate + Cleanup)
    BY <2>1, <2>2, CloseBounds
  <2>4. /\ alive' = {"leader"} /\ reaped' = FALSE /\ verified' \in BOOLEAN
        /\ scanner' = "off" /\ UNCHANGED <<now, attempt, answered>>
    BY <1>3
  <2>5. DiscoveryTypeOK'
    BY <1>3, <2>3, <2>4 DEF IInv, DiscoveryTypeOK, DiscoveryStages, Cleaning
  <2>6. Supervised' /\ GoneBeforeNext' /\ AnswerKept'
    BY <1>3, <2>4 DEF IInv, Supervised, GoneBeforeNext, AnswerKept, Supervising
  <2> QED
    BY <2>3, <2>5, <2>6 DEF IInv
<1> QED
  BY <1>1, <1>2, <1>3 DEF Close

\* What every step of an attempt leaves of the invariant.
LEMMA ReapKeeps ==
  ASSUME DiscoveryTypeOK, Reap, alive' = alive
  PROVE  reaped' \in BOOLEAN /\ (reaped' => "leader" \notin alive') /\ (Gone => Gone')
BY DEF DiscoveryTypeOK, Reap, Gone

LEMMA ReadKeeps == IInv /\ (ReadOn \/ Observe) => IInv'
<1> SUFFICES ASSUME IInv, ReadOn \/ Observe PROVE IInv'
  OBVIOUS
<1>1. /\ stage = "initializing" /\ stage' \in {"initializing", "responded"}
      /\ due' = SessionEnd(now) /\ Reap
      /\ UNCHANGED <<now, attempt, cleanupEnd, alive, verified, scanner, class, issue,
                     provisional>>
      /\ \/ UNCHANGED <<observed, answered>>
         \/ observed' = TRUE /\ answered' = TRUE
  BY DEF ReadOn, Observe
<1>2. due' \in 0..Latest
  BY <1>1, SessionEndBound DEF IInv, DiscoveryTypeOK
<1>3. reaped' \in BOOLEAN /\ (reaped' => "leader" \notin alive')
  BY <1>1, ReapKeeps DEF IInv
<1>4. due' \in 0..(Aggregate + Cleanup)
  BY <1>2, Budgets
<1>5. DiscoveryTypeOK'
  BY <1>1, <1>3, <1>4 DEF IInv, DiscoveryTypeOK, DiscoveryStages
<1>6. Timely'
  BY <1>1, <1>2, Budgets DEF IInv, Timely, Working, Supervising
<1>7. Supervised' /\ GoneBeforeNext' /\ AnswerKept'
  BY <1>1 DEF IInv, Supervised, GoneBeforeNext, AnswerKept, Supervising
<1> QED
  BY <1>5, <1>6, <1>7 DEF IInv

\* Both ways out of the with statement.
LEMMA ClosingKeeps ==
  ASSUME IInv, NEW cl \in Classes, stage \in {"initializing", "responded", "connected"},
         Close(cl), Reap,
         UNCHANGED <<now, attempt, alive, verified, scanner, observed, issue, provisional,
                     answered>>
  PROVE  IInv'
<1>1. /\ stage' = "closing" /\ class' \in Classes
      /\ due' \in 0..(Aggregate + Cleanup) /\ cleanupEnd' \in 0..(Aggregate + Cleanup)
      /\ Timely'
  BY CloseBounds DEF Working
<1>2. reaped' \in BOOLEAN /\ (reaped' => "leader" \notin alive')
  BY ReapKeeps DEF IInv
<1>3. DiscoveryTypeOK'
  BY <1>1, <1>2 DEF IInv, DiscoveryTypeOK, DiscoveryStages, Cleaning
<1>4. Supervised' /\ GoneBeforeNext' /\ AnswerKept'
  BY <1>1 DEF IInv, Supervised, GoneBeforeNext, AnswerKept, Supervising
<1> QED
  BY <1>1, <1>3, <1>4 DEF IInv

LEMMA InitializeFailsKeeps ==
  ASSUME IInv, NEW cl \in Classes, InitializeFails(cl)
  PROVE  IInv'
BY ClosingKeeps DEF InitializeFails

LEMMA LeaveKeeps == IInv /\ Leave => IInv'
<1> SUFFICES ASSUME IInv, Leave PROVE IInv'
  OBVIOUS
<1>1. PICK cl \in {"none", "body"} : Close(cl)
  BY DEF Leave
<1>2. cl \in Classes
  BY DEF Classes
<1> QED
  BY <1>1, <1>2, ClosingKeeps DEF Leave

LEMMA ConnectKeeps == IInv /\ Connect => IInv'
<1> SUFFICES ASSUME IInv, Connect PROVE IInv'
  OBVIOUS
<1> USE Budgets DEF Connect, processVars
<1>1. DiscoveryTypeOK'
  BY DEF IInv, DiscoveryTypeOK, DiscoveryStages, Latest
<1>2. Timely'
  BY DEF IInv, Timely, Working, Supervising
<1>3. Supervised' /\ GoneBeforeNext' /\ AnswerKept'
  BY DEF IInv, Supervised, GoneBeforeNext, AnswerKept, Supervising
<1> QED
  BY <1>1, <1>2, <1>3 DEF IInv

\* A signal starts nothing.
LEMMA SignalShrinks ==
  ASSUME DiscoveryTypeOK, Signal
  PROVE  alive' \subseteq alive /\ provisional' \in BOOLEAN
BY DEF DiscoveryTypeOK, Signal

LEMMA TerminateKeeps == IInv /\ Terminate => IInv'
<1> SUFFICES ASSUME IInv, Terminate PROVE IInv'
  OBVIOUS
<1>1. /\ stage = "closing" /\ stage' \in {"reaping", "terminating"}
      /\ issue' \in {~verified, TRUE}
      /\ UNCHANGED <<reaped, scanner, now, attempt, cleanupEnd, verified, observed, class,
                     answered>>
  BY DEF Terminate, Proceed, Untouched
<1>2. alive' \subseteq alive /\ provisional' \in BOOLEAN
  <2>1. CASE UNCHANGED <<alive, provisional>>
    BY <2>1 DEF IInv, DiscoveryTypeOK
  <2>2. CASE Signal
    BY <2>2, SignalShrinks DEF IInv
  <2> QED
    BY <2>1, <2>2 DEF Terminate
<1>3. due' \in 0..cleanupEnd /\ cleanupEnd \in Nat /\ cleanupEnd <= Aggregate
  <2>1. cleanupEnd \in Cleanup..Aggregate /\ now \in Nat
    BY <1>1 DEF IInv, DiscoveryTypeOK, Timely, Supervising
  <2>2. CASE due' = cleanupEnd
    BY <2>1, <2>2, Budgets
  <2>3. CASE due' = Min({cleanupEnd - (IF verified THEN GroupTail ELSE 0), now + SignalWait})
    <3>1. /\ cleanupEnd - (IF verified THEN GroupTail ELSE 0) \in 0..cleanupEnd
          /\ now + SignalWait \in Nat
      BY <2>1, Budgets
    <3> QED
      BY <2>3, <2>1, <3>1, SmallerOfTwo
  <2> QED
    BY <2>1, <2>2, <2>3, Budgets DEF Terminate, Proceed
<1>4. DiscoveryTypeOK'
  <2>1. due' \in 0..(Aggregate + Cleanup)
    BY <1>3, Budgets
  <2> QED
    BY <1>1, <1>2, <2>1 DEF IInv, DiscoveryTypeOK, DiscoveryStages, Cleaning
<1>5. Timely'
  BY <1>1, <1>3 DEF IInv, Timely, Working, Supervising
<1>6. Supervised'
  <2>1. stage' = "reaping" => verified /\ Gone /\ alive' = alive
    BY DEF Terminate, Proceed
  <2> QED
    BY <1>1, <2>1 DEF Supervised, Gone, Supervising
<1>7. GoneBeforeNext' /\ AnswerKept'
  BY <1>1 DEF IInv, GoneBeforeNext, AnswerKept
<1> QED
  BY <1>4, <1>5, <1>6, <1>7 DEF IInv

LEMMA PollKeeps == IInv /\ Poll => IInv'
<1> SUFFICES ASSUME IInv, Poll PROVE IInv'
  OBVIOUS
<1>1. /\ stage \in {"terminating", "killing"}
      /\ stage' \in {"terminating", "killing", "reaping"}
      /\ Reap
      /\ UNCHANGED <<scanner, now, attempt, cleanupEnd, verified, observed, class, answered>>
  BY DEF Poll, Proceed, Untouched
<1>2. /\ alive' \subseteq alive /\ provisional' \in BOOLEAN
      /\ issue' = issue \/ issue' = TRUE
  <2>1. CASE UNCHANGED <<alive, issue>> /\ provisional' \in {provisional, verified, FALSE}
    BY <2>1 DEF IInv, DiscoveryTypeOK
  <2>2. CASE Signal /\ UNCHANGED issue
    BY <2>2, SignalShrinks DEF IInv
  <2>3. CASE issue' = TRUE /\ UNCHANGED <<alive, provisional>>
    BY <2>3 DEF IInv, DiscoveryTypeOK
  <2> QED
    BY <2>1, <2>2, <2>3 DEF Poll
<1>3. due' \in 0..cleanupEnd /\ cleanupEnd \in Nat /\ cleanupEnd <= Aggregate
  <2>1. /\ cleanupEnd \in Cleanup..Aggregate /\ now \in Nat
        /\ due \in Nat /\ due <= cleanupEnd
    BY <1>1 DEF IInv, DiscoveryTypeOK, Timely, Supervising
  <2>2. CASE due' \in {due, cleanupEnd, cleanupEnd - GroupTail}
    BY <2>1, <2>2, Budgets
  <2>3. CASE due' = Min({cleanupEnd, now + SignalWait})
    <3>1. cleanupEnd \in Nat /\ now + SignalWait \in Nat
      BY <2>1, Budgets
    <3> QED
      BY <2>3, <2>1, <3>1, SmallerOfTwo
  <2> QED
    BY <2>1, <2>2, <2>3, Budgets DEF Poll, Proceed
<1>4. DiscoveryTypeOK'
  <2>1. due' \in 0..(Aggregate + Cleanup)
    BY <1>3, Budgets
  <2>2. reaped' \in BOOLEAN /\ (reaped' => "leader" \notin alive)
    BY <1>1 DEF Reap, IInv, DiscoveryTypeOK
  <2>3. issue' \in BOOLEAN
    BY <1>2 DEF IInv, DiscoveryTypeOK
  <2> QED
    BY <1>1, <1>2, <2>1, <2>2, <2>3 DEF IInv, DiscoveryTypeOK, DiscoveryStages, Cleaning
<1>5. Timely'
  BY <1>1, <1>3 DEF IInv, Timely, Working, Supervising
<1>6. Supervised'
  <2>1. ~verified => issue
    BY <1>1 DEF IInv, Supervised, Supervising
  <2>2. stage' = "reaping" => issue' \/ (GoneNow /\ alive' = alive /\ issue' = issue)
    BY <1>1 DEF Poll, Proceed
  <2>3. stage' = "reaping" /\ ~issue' => Gone'
    BY <2>1, <2>2 DEF GoneNow, Gone
  <2> QED
    BY <1>1, <1>2, <2>1, <2>3 DEF Supervised, Supervising
<1>7. GoneBeforeNext' /\ AnswerKept'
  BY <1>1 DEF IInv, GoneBeforeNext, AnswerKept
<1> QED
  BY <1>4, <1>5, <1>6, <1>7 DEF IInv

LEMMA WaitChildKeeps == IInv /\ WaitChild => IInv'
<1> SUFFICES ASSUME IInv, WaitChild PROVE IInv'
  OBVIOUS
<1>1. /\ stage = "reaping" /\ stage' = "joining" /\ due' = cleanupEnd /\ Reap
      /\ issue' = (issue \/ provisional \/ ~reaped')
      /\ UNCHANGED <<alive, provisional, scanner, now, attempt, cleanupEnd, verified,
                     observed, class, answered>>
  BY DEF WaitChild, Proceed, Untouched
<1>2. reaped' \in BOOLEAN /\ (reaped' => "leader" \notin alive') /\ (Gone => Gone')
  BY <1>1, ReapKeeps DEF IInv
<1>3. DiscoveryTypeOK'
  BY <1>1, <1>2 DEF IInv, DiscoveryTypeOK, DiscoveryStages, Cleaning
<1>4. Timely'
  BY <1>1, Budgets DEF IInv, Timely, Working, Supervising
<1>5. Supervised' /\ GoneBeforeNext' /\ AnswerKept'
  BY <1>1, <1>2 DEF IInv, Supervised, GoneBeforeNext, AnswerKept, Supervising
<1> QED
  BY <1>3, <1>4, <1>5 DEF IInv

LEMMA JoinKeeps == IInv /\ Join => IInv'
<1> SUFFICES ASSUME IInv, Join PROVE IInv'
  OBVIOUS
<1>1. /\ stage = "joining" /\ stage' = "cleaned" /\ due' = now
      /\ issue' \in BOOLEAN /\ scanner' \in {scanner, "off"}
      /\ ~issue' => ~issue /\ scanner' = "off"
      /\ UNCHANGED <<alive, reaped, provisional, now, attempt, cleanupEnd, verified,
                     observed, class, answered>>
  BY DEF Join, Proceed, Untouched, IInv, DiscoveryTypeOK
<1>2. DiscoveryTypeOK'
  BY <1>1 DEF IInv, DiscoveryTypeOK, DiscoveryStages, Cleaning
<1>3. Timely'
  BY <1>1 DEF IInv, Timely, Working, Supervising
<1>4. Supervised' /\ GoneBeforeNext' /\ AnswerKept'
  BY <1>1 DEF IInv, Supervised, GoneBeforeNext, AnswerKept, Supervising, Gone
<1> QED
  BY <1>2, <1>3, <1>4 DEF IInv

\* The end of the call, or the next attempt within the budget.
LEMMA ConcludeKeeps == IInv /\ Conclude => IInv'
<1> SUFFICES ASSUME IInv, Conclude PROVE IInv'
  OBVIOUS
<1>1. /\ stage = "cleaned"
      /\ UNCHANGED <<now, cleanupEnd, alive, reaped, scanner, verified, observed, class,
                     issue, provisional, answered>>
  BY DEF Conclude, processVars
<1>2. CASE stage' \in {"returned", "failed"}
  <2>1. UNCHANGED <<attempt, due>> /\ (stage' = "returned" => ~issue)
    BY <1>2 DEF Conclude, Proceed
  <2>2. DiscoveryTypeOK'
    BY <1>1, <1>2, <2>1 DEF IInv, DiscoveryTypeOK, DiscoveryStages
  <2>3. Timely'
    BY <1>1, <1>2 DEF IInv, Timely, Working, Supervising
  <2>4. Supervised' /\ GoneBeforeNext' /\ AnswerKept'
    BY <1>1, <1>2, <2>1 DEF IInv, Supervised, GoneBeforeNext, AnswerKept, Supervising, Gone
  <2> QED
    BY <2>2, <2>3, <2>4 DEF IInv
<1>3. CASE stage' = "waiting"
  <2>1. /\ Again /\ ~observed /\ ~issue
        /\ due' = now + Backoff[attempt] /\ attempt' = attempt + 1
    BY <1>3 DEF Conclude, Proceed, Again, Retryable
  <2>2. attempt \in 1..(MaxAttempts - 1) /\ Backoff[attempt] \in Nat
    BY <2>1, DiscoveryAssumption DEF Again, IInv, DiscoveryTypeOK
  <2>3. due' \in 0..Latest /\ now \in 0..Latest
    BY <2>1, <2>2, Budgets DEF Again, IInv, DiscoveryTypeOK
  <2>4. attempt' \in 1..MaxAttempts /\ due' \in 0..(Aggregate + Cleanup)
    BY <2>1, <2>2, <2>3, DiscoveryAssumption, Budgets
  <2>5. DiscoveryTypeOK'
    BY <1>1, <1>3, <2>4 DEF IInv, DiscoveryTypeOK, DiscoveryStages
  <2>6. Timely'
    BY <1>1, <1>3, <2>3 DEF IInv, Timely, Working, Supervising
  <2>7. Supervised' /\ GoneBeforeNext' /\ AnswerKept'
    BY <1>1, <1>3, <2>1 DEF IInv, Supervised, GoneBeforeNext, AnswerKept, Supervising, Gone
  <2> QED
    BY <2>5, <2>6, <2>7 DEF IInv
<1> QED
  BY <1>2, <1>3 DEF Conclude, Proceed

LEMMA WakeKeeps == IInv /\ Wake => IInv'
<1> SUFFICES ASSUME IInv, Wake PROVE IInv'
  OBVIOUS
<1> USE DEF Wake, processVars
<1>1. DiscoveryTypeOK'
  BY DEF IInv, DiscoveryTypeOK, DiscoveryStages
<1>2. Timely'
  BY DEF IInv, Timely, Working, Supervising
<1>3. Supervised' /\ GoneBeforeNext' /\ AnswerKept'
  BY DEF IInv, Supervised, GoneBeforeNext, AnswerKept, Supervising, Gone
<1> QED
  BY <1>1, <1>2, <1>3 DEF IInv

LEMMA NextIInv == IInv /\ [Next]_discoveryVars => IInv'
<1> SUFFICES ASSUME IInv, [Next]_discoveryVars PROVE IInv'
  OBVIOUS
<1>1. CASE Step
  BY <1>1, LaunchKeeps, ConnectKeeps, LeaveKeeps, TerminateKeeps, PollKeeps,
     WaitChildKeeps, JoinKeeps, ConcludeKeeps, WakeKeeps, InitializeFailsKeeps DEF Step
<1>2. CASE Tick \/ Observe \/ ReadOn \/ ProcessStep
  BY <1>2, TickKeeps, ReadKeeps, ProcessStepKeeps
<1>3. CASE UNCHANGED discoveryVars
  <2> USE <1>3 DEF discoveryVars, processVars
  <2>1. DiscoveryTypeOK' /\ Timely'
    BY DEF IInv, DiscoveryTypeOK, Timely
  <2>2. Supervised' /\ GoneBeforeNext' /\ AnswerKept'
    BY DEF IInv, Supervised, GoneBeforeNext, AnswerKept, Gone
  <2> QED
    BY <2>1, <2>2 DEF IInv
<1> QED
  BY <1>1, <1>2, <1>3 DEF Next, Finished

-----------------------------------------------------------------------------
(* The theorems. *)

\* IInv holds of every state an attempt, its processes and the clock reach.
THEOREM Inductive == Spec => []IInv
<1> QED
  BY InitIInv, NextIInv, PTL DEF Spec

\* Type correctness of the attempts, their processes and their deadlines.
THEOREM TypeCorrect == Spec => []DiscoveryTypeOK
<1>1. IInv => DiscoveryTypeOK
  BY DEF IInv
<1> QED
  BY <1>1, Inductive, PTL

\* Neither the caller goes on nor a new app-server is launched before the old
\* process group, its child and its stderr thread are gone (__exit__ of
\* _CodexProcess, _classify_initialize_failure).
THEOREM NothingLeftBehind == Spec => []GoneBeforeNext
<1>1. IInv => GoneBeforeNext
  BY DEF IInv
<1> QED
  BY <1>1, Inductive, PTL

\* Attempts, backoff and cleanup together stay within the aggregate budget of
\* _open_initialized_discovery.
THEOREM InTime == Spec => []WithinBudget
<1>1. IInv => WithinBudget
  BY DEF IInv, Timely, WithinBudget
<1> QED
  BY <1>1, Inductive, PTL

\* Once a response to initialize was observed no app-server is launched again.
THEOREM OneAnswer == Spec => AnsweredIsFinal
<1>1. IInv => [answered => ~Launch]_discoveryVars
  BY DEF IInv, AnswerKept, Launch
<1> QED
  BY <1>1, Inductive, PTL DEF AnsweredIsFinal
=============================================================================
