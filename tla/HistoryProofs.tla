--------------------------- MODULE HistoryProofs ---------------------------
(***************************************************************************)
(* What the event streams of the controller say, proved for any number of  *)
(* runs, workers, keys and claims: the replay of a stream is the cached    *)
(* snapshot, a stream is never rewritten, results, completions and answers *)
(* are founded on it, and a key has one effect; and the controller as a    *)
(* whole implements the abstract turn loop.                                *)
(*                                                                         *)
(* Three inductive invariants are added to the one of ControllerProofs.    *)
(* HistoryInv is about a stream and the snapshot it determines.  FenceInv  *)
(* ties leases and answers to the stream, KeyInv the stored operations.    *)
(***************************************************************************)
EXTENDS ControllerProofs, FiniteSetTheorems, SequenceTheorems, WellFoundedInduction

-----------------------------------------------------------------------------
(* Replay.  after[n] is the snapshot after n events; that such a function      *)
(* exists and that there is one only is shown at the smallest n where it fails. *)

\* A set of numbers that is not empty has a smallest one.
LEMMA SmallestNumber ==
  ASSUME NEW S \in SUBSET Nat, S # {}
  PROVE  \E x \in S : \A y \in S : x <= y
<1>1. PICK x \in S : \A y \in S : ~(<<y, x>> \in OpToRel(<, Nat))
  BY WFMin, NatLessThanWellFounded
<1>2. \A y \in S : ~(y < x)
  BY <1>1 DEF OpToRel
<1> QED
  BY <1>2

\* after of a stream is the function a replay computes.
Replays(f, log) ==
  f = [n \in 0..Len(log) |-> IF n = 0 THEN Absent ELSE Applied(f[n - 1], log[n])]

\* What a replay computes for every prefix of a stream of n events.
ReplaysTo(f, log, n) ==
  /\ f = [i \in 0..n |-> f[i]]
  /\ f[0] = Absent
  /\ \A i \in 1..n : f[i] = Applied(f[i - 1], log[i])

\* Replaying a stream is defined: some function starts at nothing and applies
\* each event to what its predecessor left.
LEMMA ReplayExists ==
  ASSUME NEW log, Len(log) \in Nat
  PROVE  \E f : Replays(f, log)
<1> DEFINE Bad == {n \in Nat : ~ \E f : ReplaysTo(f, log, n)}
<1>1. ASSUME Bad # {} PROVE FALSE
  <2>1. PICK x \in Bad : \A y \in Bad : x <= y
    BY <1>1, SmallestNumber
  <2>2. x # 0
    <3> DEFINE g == [i \in 0..0 |-> Absent]
    <3>1. ReplaysTo(g, log, 0)
      BY DEF ReplaysTo
    <3> QED
      BY <3>1, <2>1
  <2>3. x - 1 \in Nat /\ x - 1 \notin Bad
    BY <2>1, <2>2
  <2>4. PICK f : ReplaysTo(f, log, x - 1)
    BY <2>3
  <2> DEFINE g == [i \in 0..x |-> IF i = x THEN Applied(f[x - 1], log[x]) ELSE f[i]]
  <2>5. /\ x \in Nat /\ x - 1 \in 0..x /\ 0 \in 0..x /\ x # 0
        /\ \A i \in 1..x : i - 1 \in 0..x /\ i - 1 # x /\ i \in 0..x
        /\ \A i \in 1..x : i # x => i \in 1..(x - 1)
    BY <2>1, <2>2
  <2>6. g[0] = Absent
    BY <2>4, <2>5 DEF ReplaysTo
  <2>7. \A i \in 1..x : g[i] = Applied(g[i - 1], log[i])
    <3> SUFFICES ASSUME NEW i \in 1..x PROVE g[i] = Applied(g[i - 1], log[i])
      OBVIOUS
    <3>1. g[i - 1] = f[i - 1]
      BY <2>5
    <3>2. CASE i = x
      BY <2>5, <3>1, <3>2
    <3>3. CASE i # x
      <4>1. g[i] = f[i] /\ f[i] = Applied(f[i - 1], log[i])
        BY <2>4, <2>5, <3>3 DEF ReplaysTo
      <4> QED
        BY <3>1, <4>1
    <3> QED
      BY <3>2, <3>3
  <2>8. g = [i \in 0..x |-> g[i]]
    OBVIOUS
  <2> HIDE DEF g
  <2>9. ReplaysTo(g, log, x)
    BY <2>6, <2>7, <2>8 DEF ReplaysTo
  <2> QED
    BY <2>1, <2>9
<1>2. PICK f : ReplaysTo(f, log, Len(log))
  BY <1>1
<1>3. Replays(f, log)
  <2>1. f = [i \in 0..Len(log) |-> f[i]]
    BY <1>2 DEF ReplaysTo
  <2>2. \A i \in 0..Len(log) :
          f[i] = IF i = 0 THEN Absent ELSE Applied(f[i - 1], log[i])
    BY <1>2 DEF ReplaysTo
  <2> QED
    BY <2>1, <2>2 DEF Replays
<1> QED
  BY <1>3

\* Two replays of streams that agree up to n agree up to n.
LEMMA ReplayDetermined ==
  ASSUME NEW log, NEW f, Replays(f, log), NEW more, NEW g, Replays(g, more),
         Len(log) \in Nat, Len(more) \in Nat, NEW n \in Nat,
         n <= Len(log), n <= Len(more), \A i \in 1..n : more[i] = log[i]
  PROVE  f[n] = g[n]
<1> DEFINE Bad == {i \in 0..n : f[i] # g[i]}
<1> SUFFICES ASSUME Bad # {} PROVE FALSE
  OBVIOUS
<1>1. PICK x \in Bad : \A y \in Bad : x <= y
  <2>1. Bad \in SUBSET Nat
    OBVIOUS
  <2> QED
    BY <2>1, SmallestNumber
<1>2. x # 0
  <2>1. 0 \in 0..Len(log) /\ 0 \in 0..Len(more)
    OBVIOUS
  <2>2. f[0] = Absent /\ g[0] = Absent
    BY <2>1 DEF Replays
  <2> QED
    BY <1>1, <2>2
<1>3. f[x - 1] = g[x - 1]
  BY <1>1, <1>2
<1>4. f[x] = Applied(f[x - 1], log[x]) /\ g[x] = Applied(g[x - 1], more[x])
  <2>1. x \in 0..Len(log) /\ x \in 0..Len(more)
    BY <1>1
  <2> QED
    BY <1>2, <2>1 DEF Replays
<1> QED
  BY <1>1, <1>2, <1>3, <1>4

\* Any such function gives the replay: two of them that differed would differ
\* at a smallest position, and agree before it.
LEMMA ReplayIs ==
  ASSUME NEW log, Len(log) \in Nat, NEW f, Replays(f, log)
  PROVE  Replay(log) = f[Len(log)]
<1> DEFINE after == CHOOSE g : Replays(g, log)
<1>1. Replays(after, log)
  BY ReplayExists
<1>2. Replay(log) = after[Len(log)]
  BY DEF Replay, Replays
<1> HIDE DEF after
<1> QED
  BY <1>1, <1>2, ReplayDetermined

\* replay_events of a longer stream applies the new event to what it was.
LEMMA ReplayAppend ==
  ASSUME NEW log \in Seq(Events), NEW e \in Events
  PROVE  Replay(Append(log, e)) = Applied(Replay(log), e)
<1> DEFINE more == Append(log, e)
           n == Len(log)
<1>1. /\ n \in Nat /\ Len(more) = n + 1 /\ more[n + 1] = e
      /\ \A i \in 1..n : more[i] = log[i]
  OBVIOUS
<1> HIDE DEF n, more
<1>2. PICK f : Replays(f, log)
  BY <1>1, ReplayExists DEF n
<1>3. PICK g : Replays(g, more)
  BY <1>1, ReplayExists
<1>4. Replay(log) = f[n] /\ Replay(more) = g[n + 1]
  BY <1>1, <1>2, <1>3, ReplayIs DEF n
<1>5. f[n] = g[n]
  <2>1. n <= Len(log) /\ n <= Len(more) /\ Len(log) \in Nat /\ Len(more) \in Nat
    BY <1>1 DEF n
  <2> QED
    BY <1>1, <1>2, <1>3, <2>1, ReplayDetermined
<1>6. g[n + 1] = Applied(g[n], more[n + 1])
  BY <1>1, <1>3 DEF Replays
<1> QED
  BY <1>1, <1>4, <1>5, <1>6 DEF more

\* An empty stream replays to no run.
LEMMA ReplayEmpty == Replay(<<>>) = Absent
<1>1. Len(<<>>) = 0
  OBVIOUS
<1>2. PICK f : Replays(f, <<>>)
  BY <1>1, ReplayExists
<1>3. f[0] = Absent
  BY <1>1, <1>2 DEF Replays
<1> QED
  BY <1>1, <1>2, <1>3, ReplayIs

-----------------------------------------------------------------------------
(* What a step appends to the streams.                                         *)

At(log, type) == {j \in DOMAIN log : log[j].type = type}

Submitted(log) == {log[j].arg : j \in At(log, "INSTRUCTION_SUBMITTED")}

\* An event that a method may append to a stream whose replay is s.
Accepts(log, s, e) ==
  /\ WellFormed(e) /\ Legal(s, e)
  /\ e.type = "INSTRUCTION_SUBMITTED" => e.arg \notin Submitted(log)
  /\ e.type = "COMPLETED" => s.result \in Evidenced

Grows(log, s, more, t) ==
  \E e \in Events : Accepts(log, s, e) /\ more = Append(log, e) /\ t = ApplyEvent(s, e)

\* One event, or two in one transaction.
Extends(log, s, more, t) ==
  \/ Grows(log, s, more, t)
  \/ \E mid \in Seq(Events), u \in Snapshots :
       Grows(log, s, mid, u) /\ Grows(mid, u, more, t)

SyncedRow(r) ==
  row'[r] = [state |-> snap'[r].state, iteration |-> snap'[r].iteration,
             version |-> row[r].version + (Len(events'[r]) - Len(events[r]))]

\* Nothing else but the run a call names is touched by the call.
RunStep(r) == Extends(events[r], snap[r], events'[r], snap'[r]) /\ SyncedRow(r)

OnlyRun(r) ==
  \A q \in Runs \ {r} : events'[q] = events[q] /\ snap'[q] = snap[q] /\ row'[q] = row[q]

LEMMA PairOfEvents ==
  ASSUME NEW e \in Events, NEW f \in Events
  PROVE  <<e>> \o <<f>> = <<e, f>>
<1>1. <<e>> \in Seq(Events) /\ <<f>> \in Seq(Events) /\ <<e, f>> \in Seq(Events)
  OBVIOUS
<1> DEFINE s == <<e>>
           t == <<f>>
<1>2. s \in Seq(Events) /\ t \in Seq(Events) /\ Len(s) = 1 /\ Len(t) = 1
      /\ s[1] = e /\ t[1] = f
  OBVIOUS
<1> HIDE DEF s, t
<1> DEFINE u == s \o t
           v == <<e, f>>
<1>3. u \in Seq(Events) /\ Len(u) = 2 /\ u[1] = e /\ u[2] = f
  <2>1. /\ u \in Seq(Events) /\ Len(u) = Len(s) + Len(t)
        /\ \A i \in 1..Len(s) + Len(t) : u[i] = IF i <= Len(s) THEN s[i] ELSE t[i - Len(s)]
    BY <1>2, ConcatProperties
  <2> HIDE DEF u
  <2> QED
    BY <1>2, <2>1
<1>4. v \in Seq(Events) /\ Len(v) = 2 /\ v[1] = e /\ v[2] = f
  OBVIOUS
<1> HIDE DEF u, v
<1>5. \A i \in 1..2 : u[i] = v[i]
  BY <1>3, <1>4
<1>6. u = v
  BY <1>3, <1>4, <1>5, SeqEqual
<1> QED
  BY <1>6 DEF s, t, u, v

\* A call that stores one accepted event grows its own run by that event alone.
LEMMA SingleEvent ==
  ASSUME TypeOK, NEW r \in Runs, NEW e, Accepts(events[r], snap[r], e), AppendAndSync(r, e)
  PROVE  RunStep(r) /\ OnlyRun(r)
<1>1. e \in Events
  BY DEF Accepts, WellFormed
<1>2. events[r] \in Seq(Events) /\ events[r] \o <<e>> = Append(events[r], e)
      /\ Len(Append(events[r], e)) = Len(events[r]) + 1 /\ Len(events[r]) \in Nat
  BY <1>1 DEF TypeOK
<1>3. /\ events'[r] = Append(events[r], e) /\ snap'[r] = ApplyEvent(snap[r], e)
      /\ row'[r] = [state |-> snap'[r].state, iteration |-> snap'[r].iteration,
                    version |-> row[r].version + 1]
  BY <1>2 DEF TypeOK, AppendAndSync, Commit
<1>4. OnlyRun(r)
  BY DEF OnlyRun, TypeOK, AppendAndSync, Commit
<1> QED
  BY <1>1, <1>2, <1>3, <1>4 DEF RunStep, SyncedRow, Extends, Grows

\* Two events that one transaction appends.
LEMMA TwoEvents ==
  ASSUME TypeOK, NEW r \in Runs, NEW e, NEW f,
         Accepts(events[r], snap[r], e),
         Accepts(Append(events[r], e), ApplyEvent(snap[r], e), f),
         Commit(r, ApplyEvent(ApplyEvent(snap[r], e), f), <<e, f>>)
  PROVE  RunStep(r) /\ OnlyRun(r)
<1> DEFINE mid == Append(events[r], e)
           u == ApplyEvent(snap[r], e)
<1>1. e \in Events /\ f \in Events
  BY DEF Accepts, WellFormed
<1>2. snap[r] \in Snapshots /\ events[r] \in Seq(Events)
  BY DEF TypeOK
<1>3. mid \in Seq(Events) /\ u \in Snapshots
  BY <1>1, <1>2, ApplyEventType DEF Accepts
<1>4. /\ events[r] \o <<e, f>> = Append(mid, f)
      /\ Len(Append(mid, f)) = Len(events[r]) + 2 /\ Len(events[r]) \in Nat
  BY <1>1, <1>2
<1>5. /\ events'[r] = Append(mid, f) /\ snap'[r] = ApplyEvent(u, f)
      /\ row'[r] = [state |-> snap'[r].state, iteration |-> snap'[r].iteration,
                    version |-> row[r].version + 2]
  BY <1>4 DEF TypeOK, Commit
<1>6. OnlyRun(r)
  BY DEF OnlyRun, TypeOK, Commit
<1>7. Grows(events[r], snap[r], mid, u) /\ Grows(mid, u, events'[r], snap'[r])
  BY <1>1, <1>5 DEF Grows
<1>8. SyncedRow(r)
  <2>1. Len(events'[r]) - Len(events[r]) = 2
    BY <1>4, <1>5
  <2> QED
    BY <1>5, <2>1 DEF SyncedRow
<1> QED
  BY <1>3, <1>6, <1>7, <1>8 DEF RunStep, Extends

\* A call that ends the review, and starts it first where none is under way.
LEMMA ReviewedEvent ==
  ASSUME TypeOK, NEW r \in Runs, NEW k \in CallKeys, NEW e,
         Accepts(events[r], Reviewed(r), e), ReviewAndAppend(r, k, e)
  PROVE  RunStep(r) /\ OnlyRun(r)
<1>1. CASE snap[r].state = "CODEX_COMPLETE"
  <2> DEFINE v == Event("REVIEW_STARTED", k, None)
  <2>1. WellFormed(v) /\ v.type = "REVIEW_STARTED"
    BY PlainEventWellFormed DEF EventTypes, Payloads, Event
  <2>2. Accepts(events[r], snap[r], v)
    BY <1>1, <2>1 DEF Accepts, Legal, LegalFrom
  <2>3. ApplyEvent(snap[r], v) = Reviewed(r)
    BY <1>1, <2>1 DEF ApplyEvent, Reviewed
  <2>4. events[r] \in Seq(Events) /\ v \in Events
    BY <2>1 DEF TypeOK, WellFormed
  <2>5. Submitted(Append(events[r], v)) = Submitted(events[r])
    BY <2>1, <2>4 DEF Submitted, At
  <2>6. Accepts(Append(events[r], v), ApplyEvent(snap[r], v), e)
    BY <2>3, <2>5 DEF Accepts
  <2>7. ReviewPrefix(r, k) \o <<e>> = <<v, e>>
    <3>1. ReviewPrefix(r, k) = <<v>>
      BY <1>1 DEF ReviewPrefix
    <3>2. v \in Events /\ e \in Events
      BY <2>1 DEF Accepts, WellFormed
    <3> HIDE DEF v
    <3>3. <<v>> \o <<e>> = <<v, e>>
      BY <3>2, PairOfEvents
    <3> QED
      BY <3>1, <3>3
  <2>8. Commit(r, ApplyEvent(ApplyEvent(snap[r], v), e), <<v, e>>)
    BY <2>3, <2>7 DEF ReviewAndAppend
  <2> HIDE DEF v
  <2> QED
    BY <2>2, <2>6, <2>8, TwoEvents
<1>2. CASE snap[r].state # "CODEX_COMPLETE"
  <2>1. Reviewed(r) = snap[r] /\ ReviewPrefix(r, k) = <<>>
    BY <1>2 DEF Reviewed, ReviewPrefix
  <2>2. <<>> \o <<e>> = <<e>>
    OBVIOUS
  <2>3. AppendAndSync(r, e)
    BY <2>1, <2>2 DEF ReviewAndAppend, AppendAndSync
  <2> QED
    BY <2>1, <2>3, SingleEvent
<1> QED
  BY <1>1, <1>2

-----------------------------------------------------------------------------
\* What each role's calls do to the streams, as one or two accepted events.
LEMMA PlannerSteps ==
  ASSUME IInv, NEW r \in Runs, NEW k \in CallKeys, PlannerCall(r, k)
  PROVE  RunStep(r) /\ OnlyRun(r)
<1>1. TypeOK
  BY DEF IInv
<1>2. ASSUME NEW i \in Instructions, SubmitInstruction(r, k, i)
      PROVE  RunStep(r) /\ OnlyRun(r)
  <2> DEFINE e == IF Reviewed(r).iteration >= Reviewed(r).maxIterations
                  THEN Event("FAILED", k, None) ELSE Event("INSTRUCTION_SUBMITTED", k, i)
  <2>1. WellFormed(e)
    <3>1. WellFormed(Event("FAILED", k, None))
      BY PlainEventWellFormed DEF EventTypes, Payloads
    <3>2. WellFormed(Event("INSTRUCTION_SUBMITTED", k, i))
      BY DEF WellFormed, Event, Events, EventTypes, CallKeys, Payloads
    <3> QED
      BY <3>1, <3>2
  <2>2. e.type = "INSTRUCTION_SUBMITTED" => e.arg = i
    BY DEF Event
  <2>3. i \notin Submitted(events[r])
    BY <1>2 DEF SubmitInstruction, SubmittedInstructions, Submitted, At
  <2>4. e.type # "COMPLETED"
    BY DEF Event
  <2>5. ReviewAndAppend(r, k, e)
    BY <1>2 DEF SubmitInstruction
  <2> HIDE DEF e
  <2>6. Accepts(events[r], Reviewed(r), e)
    BY <2>1, <2>2, <2>3, <2>4, <2>5 DEF Accepts, ReviewAndAppend
  <2> QED
    BY <1>1, <2>5, <2>6, ReviewedEvent
<1>3. ASSUME RequestHuman(r, k) PROVE RunStep(r) /\ OnlyRun(r)
  <2> DEFINE e == Event("HUMAN_REQUESTED", k, None)
  <2>1. WellFormed(e) /\ e.type = "HUMAN_REQUESTED"
    BY PlainEventWellFormed DEF EventTypes, Payloads, Event
  <2>2. ReviewAndAppend(r, k, e)
    BY <1>3 DEF RequestHuman
  <2>3. Accepts(events[r], Reviewed(r), e)
    BY <2>1, <2>2 DEF Accepts, ReviewAndAppend
  <2> QED
    BY <1>1, <2>2, <2>3, ReviewedEvent
<1>4. ASSUME CompleteRun(r, k) PROVE RunStep(r) /\ OnlyRun(r)
  <2> DEFINE e == Event("COMPLETED", k, None)
  <2>1. WellFormed(e) /\ e.type = "COMPLETED"
    BY PlainEventWellFormed DEF EventTypes, Payloads, Event
  <2>2. ReviewAndAppend(r, k, e)
    BY <1>4 DEF CompleteRun
  <2>3. Accepts(events[r], Reviewed(r), e)
    BY <1>4, <2>1, <2>2 DEF Accepts, ReviewAndAppend, CompleteRun, HasEvidence
  <2> QED
    BY <1>1, <2>2, <2>3, ReviewedEvent
<1> QED
  BY <1>2, <1>3, <1>4 DEF PlannerCall

\* An expiry is legal where a lease of a running turn ran out.
LEMMA ExpiryAccepted ==
  ASSUME TypeOK, NEW r \in Runs, LeaseExpired(r)
  PROVE  /\ WellFormed(ExpiryEvent) /\ ExpiryEvent.type = "LEASE_EXPIRED"
         /\ Accepts(events[r], snap[r], ExpiryEvent)
         /\ ApplyEvent(snap[r], ExpiryEvent) = [snap[r] EXCEPT !.state = "READY_FOR_CODEX"]
         /\ Submitted(Append(events[r], ExpiryEvent)) = Submitted(events[r])
<1>1. WellFormed(ExpiryEvent) /\ ExpiryEvent.type = "LEASE_EXPIRED"
  BY PlainEventWellFormed DEF ExpiryEvent, EventTypes, Payloads, CallKeys, Event
<1>2. Accepts(events[r], snap[r], ExpiryEvent)
  BY <1>1 DEF Accepts, Legal, LegalFrom, LeaseExpired
<1>3. events[r] \in Seq(Events) /\ ExpiryEvent \in Events
  BY <1>1 DEF TypeOK, WellFormed
<1>4. Submitted(Append(events[r], ExpiryEvent)) = Submitted(events[r])
  BY <1>1, <1>3 DEF Submitted, At
<1> QED
  BY <1>1, <1>2, <1>4 DEF ApplyEvent

LEMMA ClaimSteps ==
  ASSUME IInv, NEW r \in Runs, NEW k \in CallKeys, NEW w \in Workers, NEW d \in Durations,
         ClaimTurn(r, k, w, d)
  PROVE  RunStep(r) /\ OnlyRun(r)
<1>1. TypeOK
  BY DEF IInv
<1> DEFINE e == Event("TURN_CLAIMED", k, w)
<1>2. WellFormed(e) /\ e.type = "TURN_CLAIMED"
  BY PlainEventWellFormed DEF EventTypes, Payloads, Event
<1>3. CASE LeaseExpired(r)
  <2> DEFINE s == ApplyEvent(snap[r], ExpiryEvent)
  <2>1. s.state = "READY_FOR_CODEX" /\ Commit(r, ApplyEvent(s, e), <<ExpiryEvent, e>>)
    BY <1>3 DEF ClaimTurn
  <2>2. Accepts(Append(events[r], ExpiryEvent), s, e)
    BY <1>2, <2>1 DEF Accepts, Legal, LegalFrom
  <2> HIDE DEF e
  <2> QED
    BY <1>1, <1>3, <2>1, <2>2, ExpiryAccepted, TwoEvents
<1>4. CASE ~LeaseExpired(r)
  <2>1. snap[r].state = "READY_FOR_CODEX" /\ Commit(r, ApplyEvent(snap[r], e), <<e>>)
    BY <1>4 DEF ClaimTurn
  <2>2. Legal(snap[r], e) /\ Accepts(events[r], snap[r], e)
    BY <1>2, <2>1 DEF Accepts, Legal, LegalFrom
  <2>3. AppendAndSync(r, e)
    BY <2>1, <2>2 DEF AppendAndSync
  <2> HIDE DEF e
  <2> QED
    BY <1>1, <2>2, <2>3, SingleEvent
<1> QED
  BY <1>3, <1>4

LEMMA WorkerSteps ==
  ASSUME IInv, NEW r \in Runs, NEW k \in CallKeys, WorkerCall(r, k)
  PROVE  RunStep(r) /\ OnlyRun(r)
<1>1. TypeOK
  BY DEF IInv
<1>2. ASSUME NEW w \in Workers, NEW d \in Durations, ClaimTurn(r, k, w, d)
      PROVE  RunStep(r) /\ OnlyRun(r)
  BY <1>2, ClaimSteps
<1>3. ASSUME NEW w \in Workers, NEW t \in DOMAIN issued, NEW x \in Results,
             SubmitResult(r, k, w, t, x)
      PROVE  RunStep(r) /\ OnlyRun(r)
  <2> DEFINE e == Event("RESULT_SUBMITTED", k, x)
  <2>1. WellFormed(e) /\ e.type = "RESULT_SUBMITTED"
    BY DEF WellFormed, Event, Events, EventTypes, CallKeys, Payloads
  <2>2. AppendAndSync(r, e)
    BY <1>3 DEF SubmitResult
  <2>3. Accepts(events[r], snap[r], e)
    BY <2>1, <2>2 DEF Accepts, AppendAndSync
  <2> QED
    BY <1>1, <2>2, <2>3, SingleEvent
<1>4. ASSUME NEW type \in {"PROGRESS_REPORTED", "HUMAN_REQUESTED"},
             AppendAndSync(r, Event(type, k, None))
      PROVE  RunStep(r) /\ OnlyRun(r)
  <2> DEFINE e == Event(type, k, None)
  <2>1. WellFormed(e) /\ e.type = type
    BY PlainEventWellFormed DEF EventTypes, Payloads, Event
  <2>2. Accepts(events[r], snap[r], e)
    BY <1>4, <2>1 DEF Accepts, AppendAndSync
  <2> QED
    BY <1>1, <1>4, <2>2, SingleEvent
<1> QED
  BY <1>2, <1>3, <1>4 DEF WorkerCall, ReportProgress, ReportBlocker

LEMMA CreateSteps ==
  ASSUME IInv, NEW r \in Runs, NEW k \in CallKeys, NEW max \in 1..Ceiling, CreateRun(r, k, max)
  PROVE  RunStep(r) /\ OnlyRun(r)
<1> DEFINE e == RunCreated(k, max)
           f == Event("PLANNING_STARTED", k, None)
<1>1. TypeOK
  BY DEF IInv
<1>2. WellFormed(e) /\ e.type = "RUN_CREATED"
  BY BoundsAssumption DEF WellFormed, Events, RunCreated, CallKeys
<1>3. WellFormed(f) /\ f.type = "PLANNING_STARTED"
  BY PlainEventWellFormed DEF EventTypes, Payloads, Event
<1>4. snap[r] = Absent /\ Absent.state = "ABSENT"
  BY DEF CreateRun, Absent
<1>5. Commit(r, ApplyEvent(ApplyEvent(snap[r], e), f), <<e, f>>)
  BY <1>4 DEF CreateRun
<1> HIDE DEF e, f
<1>6. Accepts(events[r], snap[r], e)
  BY <1>2, <1>4 DEF Accepts, Legal, LegalFrom
<1>7. ApplyEvent(snap[r], e).state = "NEW"
  BY <1>2 DEF ApplyEvent, Absent
<1>8. Accepts(Append(events[r], e), ApplyEvent(snap[r], e), f)
  BY <1>3, <1>7 DEF Accepts, Legal, LegalFrom
<1> QED
  BY <1>1, <1>5, <1>6, <1>8, TwoEvents

LEMMA ControlSteps ==
  ASSUME IInv, NEW r \in Runs, NEW k \in CallKeys, ControlCall(r, k)
  PROVE  RunStep(r) /\ OnlyRun(r)
<1>1. TypeOK
  BY DEF IInv
<1>2. ASSUME PauseRun(r, k) PROVE RunStep(r) /\ OnlyRun(r)
  <2> DEFINE e == Event("PAUSED", k, ResumeState(snap[r]))
  <2>1. AppendAndSync(r, e) /\ Legal(snap[r], e) /\ e.type = "PAUSED"
    BY <1>2 DEF PauseRun, AppendAndSync, Event
  <2>2. ResumeState(snap[r]) \in RunStates
    BY <2>1 DEF Legal, LegalFrom, ResumeState, ActiveStates, RunStates
  <2>3. WellFormed(e)
    BY <2>2 DEF WellFormed, Event, Events, EventTypes, CallKeys, Payloads
  <2>4. Accepts(events[r], snap[r], e)
    BY <2>1, <2>3 DEF Accepts
  <2> QED
    BY <1>1, <2>1, <2>4, SingleEvent
<1>3. ASSUME NEW type \in {"RESUMED", "STOPPED", "FAILED"},
             AppendAndSync(r, Event(type, k, None))
      PROVE  RunStep(r) /\ OnlyRun(r)
  <2> DEFINE e == Event(type, k, None)
  <2>1. WellFormed(e) /\ e.type = type
    BY PlainEventWellFormed DEF EventTypes, Payloads, Event
  <2>2. Accepts(events[r], snap[r], e)
    BY <1>3, <2>1 DEF Accepts, AppendAndSync
  <2> QED
    BY <1>1, <1>3, <2>2, SingleEvent
<1> QED
  BY <1>2, <1>3, CreateSteps DEF ControlCall, ResumeRun, StopRun, FailRun

LEMMA RecoverySteps ==
  ASSUME IInv, RecoverExpiredLeases, NEW r \in Runs
  PROVE  \/ events'[r] = events[r] /\ snap'[r] = snap[r] /\ row'[r] = row[r]
         \/ RunStep(r)
<1>1. CASE ~LeaseExpired(r)
  BY <1>1 DEF RecoverExpiredLeases
<1>2. CASE LeaseExpired(r)
  <2> DEFINE e == ExpiryEvent
  <2>1. e \in Events /\ Accepts(events[r], snap[r], e)
    BY <1>2, ExpiryAccepted DEF IInv, WellFormed
  <2>2. /\ events'[r] = Append(events[r], e) /\ snap'[r] = ApplyEvent(snap[r], e)
        /\ row'[r] = [state |-> snap'[r].state, iteration |-> snap'[r].iteration,
                      version |-> row[r].version + 1]
    BY <1>2 DEF RecoverExpiredLeases
  <2>3. Len(events'[r]) - Len(events[r]) = 1
    <3>1. events[r] \in Seq(Events)
      BY DEF IInv, TypeOK
    <3> HIDE DEF e
    <3> QED
      BY <2>1, <2>2, <3>1
  <2> HIDE DEF e
  <2> QED
    BY <2>1, <2>2, <2>3 DEF RunStep, SyncedRow, Extends, Grows
<1> QED
  BY <1>1, <1>2

\* Whatever is called, the stream of a run stays or grows by events its replay
\* accepts, and the cached row follows.
LEMMA LogSteps ==
  ASSUME IInv, [Next]_vars, NEW r \in Runs
  PROVE  \/ events'[r] = events[r] /\ snap'[r] = snap[r] /\ row'[r] = row[r]
         \/ RunStep(r)
<1>1. CASE UNCHANGED vars \/ Tick
  BY <1>1 DEF vars, Tick
<1>2. CASE RecoverExpiredLeases
  BY <1>2, RecoverySteps
<1>3. ASSUME NEW q \in Runs, NEW k \in CallKeys,
             PlannerCall(q, k) \/ WorkerCall(q, k) \/ ControlCall(q, k)
      PROVE  \/ events'[r] = events[r] /\ snap'[r] = snap[r] /\ row'[r] = row[r]
             \/ RunStep(r)
  <2>1. RunStep(q) /\ OnlyRun(q)
    BY <1>3, PlannerSteps, WorkerSteps, ControlSteps
  <2> QED
    BY <2>1 DEF OnlyRun
<1> QED
  BY <1>1, <1>2, <1>3 DEF Next

-----------------------------------------------------------------------------
(* What one event does to a stream and to its replay.                        *)

\* The longer stream: its positions, and the instructions submitted in it.
LEMMA AppendedEvent ==
  ASSUME NEW log \in Seq(Events), NEW e \in Events
  PROVE  LET more == Append(log, e)
         IN  /\ Len(log) \in Nat /\ DOMAIN log = 1..Len(log)
             /\ DOMAIN more = 1..(Len(log) + 1) /\ Len(more) = Len(log) + 1
             /\ \A j \in 1..Len(log) : more[j] = log[j]
             /\ more[Len(log) + 1] = e
             /\ \A type : /\ At(log, type) \subseteq 1..Len(log)
                          /\ At(more, type) = IF e.type = type
                               THEN At(log, type) \cup {Len(log) + 1} ELSE At(log, type)
             /\ Submitted(more) = IF e.type = "INSTRUCTION_SUBMITTED"
                  THEN Submitted(log) \cup {e.arg} ELSE Submitted(log)
<1> DEFINE more == Append(log, e)
<1>1. /\ Len(log) \in Nat /\ DOMAIN log = 1..Len(log)
      /\ DOMAIN more = 1..(Len(log) + 1) /\ Len(more) = Len(log) + 1
      /\ \A j \in 1..Len(log) : more[j] = log[j]
      /\ more[Len(log) + 1] = e
  OBVIOUS
<1> HIDE DEF more
<1>2. ASSUME NEW type
      PROVE  /\ At(log, type) \subseteq 1..Len(log)
             /\ At(more, type) = IF e.type = type
                  THEN At(log, type) \cup {Len(log) + 1} ELSE At(log, type)
  BY <1>1 DEF At
<1>3. Submitted(more) = IF e.type = "INSTRUCTION_SUBMITTED"
                        THEN Submitted(log) \cup {e.arg} ELSE Submitted(log)
  <2>1. CASE e.type = "INSTRUCTION_SUBMITTED"
    <3>1. At(more, "INSTRUCTION_SUBMITTED")
            = At(log, "INSTRUCTION_SUBMITTED") \cup {Len(log) + 1}
      BY <1>2, <2>1
    <3>2. \A j \in At(log, "INSTRUCTION_SUBMITTED") : more[j] = log[j]
      BY <1>1, <1>2
    <3> QED
      BY <1>1, <2>1, <3>1, <3>2 DEF Submitted
  <2>2. CASE e.type # "INSTRUCTION_SUBMITTED"
    <3>1. At(more, "INSTRUCTION_SUBMITTED") = At(log, "INSTRUCTION_SUBMITTED")
      BY <1>2, <2>2
    <3>2. \A j \in At(log, "INSTRUCTION_SUBMITTED") : more[j] = log[j]
      BY <1>1, <1>2
    <3> QED
      BY <2>2, <3>1, <3>2 DEF Submitted
  <2> QED
    BY <2>1, <2>2
<1> QED
  BY <1>1, <1>2, <1>3 DEF more

\* The snapshot after an event, field by field.
LEMMA AppliedFields ==
  ASSUME NEW s \in Snapshots, NEW e, WellFormed(e)
  PROVE  LET n == ApplyEvent(s, e)
         IN  /\ e.type = "RUN_CREATED" =>
                  n.state = "NEW" /\ n.iteration = 0 /\ n.maxIterations \in Nat
                  /\ n.result = None /\ n.instruction = None
             /\ e.type # "RUN_CREATED" => n.maxIterations = s.maxIterations
             /\ e.type = "INSTRUCTION_SUBMITTED" =>
                  /\ n.state = "READY_FOR_CODEX" /\ n.iteration = s.iteration + 1
                  /\ n.result = None /\ n.instruction = e.arg
             /\ e.type \notin {"RUN_CREATED", "INSTRUCTION_SUBMITTED"} =>
                  n.iteration = s.iteration /\ n.instruction = s.instruction
             /\ e.type = "RESULT_SUBMITTED" => n.state = "CODEX_COMPLETE" /\ n.result = e.arg
             /\ e.type \notin {"RUN_CREATED", "INSTRUCTION_SUBMITTED", "RESULT_SUBMITTED"} =>
                  n.result = s.result
             /\ e.type = "PLANNING_STARTED" => n.state = "PLANNING"
             /\ e.type = "TURN_CLAIMED" => n.state = "CODEX_RUNNING"
             /\ e.type = "REVIEW_STARTED" => n.state = "REVIEWING"
             /\ e.type = "HUMAN_REQUESTED" => n.state = "HUMAN_REQUIRED"
             /\ e.type = "PAUSED" => n.state = "PAUSED" /\ n.pausedFrom = e.arg
             /\ e.type = "RESUMED" => n.state = s.pausedFrom
             /\ e.type = "LEASE_EXPIRED" => n.state = "READY_FOR_CODEX"
             /\ e.type = "PROGRESS_REPORTED" => n = s
             /\ e.type = "COMPLETED" => n.state = "COMPLETE"
             /\ e.type = "FAILED" => n.state = "FAILED"
             /\ e.type = "STOPPED" => n.state = "STOPPED"
<1> DEFINE n == ApplyEvent(s, e)
<1>1. CASE e.type = "RUN_CREATED"
  <2>1. n = [Absent EXCEPT !.state = "NEW", !.maxIterations = e.max] /\ e.max \in Nat
    BY <1>1 DEF ApplyEvent, WellFormed, Events
  <2> QED
    BY <1>1, <2>1 DEF Absent
<1>2. CASE e.type = "INSTRUCTION_SUBMITTED"
  BY <1>2 DEF ApplyEvent, NewTurn, Snapshots
<1>3. CASE e.type = "RESULT_SUBMITTED"
  BY <1>3 DEF ApplyEvent, Snapshots
<1>4. CASE e.type = "PAUSED"
  BY <1>4 DEF ApplyEvent, Snapshots
<1>5. CASE e.type = "RESUMED"
  BY <1>5 DEF ApplyEvent, BackFromPause, Snapshots
<1>6. CASE e.type \in {"PLANNING_STARTED", "TURN_CLAIMED", "REVIEW_STARTED",
                       "HUMAN_REQUESTED", "LEASE_EXPIRED"}
  BY <1>6 DEF ApplyEvent, Snapshots
<1>7. CASE e.type \in {"PROGRESS_REPORTED", "COMPLETED", "FAILED", "STOPPED"}
  BY <1>7 DEF ApplyEvent, Snapshots
<1> QED
  BY <1>1, <1>2, <1>3, <1>4, <1>5, <1>6, <1>7 DEF WellFormed, Events, EventTypes

-----------------------------------------------------------------------------
(* The history of a run.  Its facts are about a stream and the snapshot the  *)
(* stream determines, so each needs to be kept by one event only, whichever  *)
(* call appends it and however many events the call appends.                 *)

\* Every result is followed by a new instruction.
Unanswered(log) ==
  \A j \in At(log, "RESULT_SUBMITTED") :
    \E n \in At(log, "INSTRUCTION_SUBMITTED") : j < n

\* The turn can still be answered, perhaps after a pause.
Open(s) ==
  \/ s.state \in {"READY_FOR_CODEX", "CODEX_RUNNING"}
  \/ s.state = "PAUSED" /\ s.pausedFrom = "READY_FOR_CODEX"

Separated(log) ==
  \A i, j \in At(log, "RESULT_SUBMITTED") :
    i < j => \E n \in At(log, "INSTRUCTION_SUBMITTED") : i < n /\ n < j

\* The last turn was answered with this result.
AnsweredWith(log, x) ==
  \E j \in At(log, "RESULT_SUBMITTED") :
    /\ log[j].arg = x
    /\ \A n \in At(log, "RESULT_SUBMITTED") \cup At(log, "INSTRUCTION_SUBMITTED") : n <= j

\* The current instruction is the last one submitted.
Instructed(log, i) ==
  \E n \in At(log, "INSTRUCTION_SUBMITTED") :
    /\ log[n].arg = i
    /\ \A k \in At(log, "INSTRUCTION_SUBMITTED") : k <= n

Counted(log, s) ==
  /\ Cardinality(At(log, "INSTRUCTION_SUBMITTED")) = s.iteration
  /\ IsFiniteSet(Submitted(log)) /\ Cardinality(Submitted(log)) = s.iteration
  /\ s.iteration <= s.maxIterations

Lifecycle(log, s) ==
  /\ s.state = "ABSENT" => log = <<>>
  /\ s.state = "PAUSED" => s.pausedFrom \in ActiveStates \ {"PAUSED", "CODEX_RUNNING"}
  /\ s.state = "COMPLETE" => s.result \in Evidenced

History(log, s) ==
  /\ s = Replay(log)
  /\ Lifecycle(log, s)
  /\ Counted(log, s)
  /\ Open(s) => Unanswered(log)
  /\ Separated(log)
  /\ s.result # None => AnsweredWith(log, s.result)
  /\ s.instruction # None => Instructed(log, s.instruction)

\* A run not created yet has a history of nothing.
LEMMA EmptyHistory == History(<<>>, Absent)
<1>1. \A type : At(<<>>, type) = {}
  BY DEF At
<1>2. Submitted(<<>>) = {}
  BY <1>1 DEF Submitted
<1>3. Counted(<<>>, Absent)
  <2>1. IsFiniteSet({}) /\ Cardinality({}) = 0
    BY FS_EmptySet
  <2>2. Absent.iteration = 0 /\ Absent.maxIterations = 0
    BY DEF Absent
  <2>3. At(<<>>, "INSTRUCTION_SUBMITTED") = {}
    BY <1>1
  <2>4. Absent.iteration <= Absent.maxIterations
    BY <2>2
  <2> QED
    BY <1>2, <2>1, <2>2, <2>3, <2>4, Zenon DEF Counted
<1>4. Lifecycle(<<>>, Absent)
  BY DEF Lifecycle, Absent
<1>5. ~Open(Absent) /\ Absent.result = None /\ Absent.instruction = None
  BY DEF Open, Absent
<1>6. Separated(<<>>)
  BY <1>1 DEF Separated
<1> QED
  BY <1>3, <1>4, <1>5, <1>6, ReplayEmpty DEF History

\* An accepted event keeps each part of a history, part by part.
LEMMA LifecycleGrows ==
  ASSUME NEW log \in Seq(Events), NEW s \in Snapshots, Lifecycle(log, s),
         NEW e \in Events, Accepts(log, s, e)
  PROVE  Lifecycle(Append(log, e), ApplyEvent(s, e))
<1> DEFINE n == ApplyEvent(s, e)
<1>1. WellFormed(e) /\ Legal(s, e)
  BY DEF Accepts
<1>2. e.type = "PAUSED" => e.arg \in ActiveStates \ {"PAUSED", "CODEX_RUNNING"}
  BY <1>1 DEF Legal, LegalFrom, ResumeState, ActiveStates, TerminalStates, RunStates
<1>3. e.type = "RESUMED" => s.pausedFrom \in ActiveStates \ {"PAUSED", "CODEX_RUNNING"}
  BY <1>1 DEF Legal, LegalFrom, Lifecycle
<1>4. e.type = "COMPLETED" => s.result \in Evidenced
  BY DEF Accepts
<1>5. e.type = "PROGRESS_REPORTED" => s.state = "CODEX_RUNNING"
  BY <1>1 DEF Legal, LegalFrom
<1>6. e.type \in EventTypes
  BY DEF Events, EventTypes
<1>7. \A a \in ActiveStates \ {"PAUSED", "CODEX_RUNNING"} :
        a \notin {"ABSENT", "PAUSED", "COMPLETE"}
  BY DEF ActiveStates, TerminalStates, RunStates
<1> HIDE DEF n
<1>8. /\ e.type = "RUN_CREATED" => n.state = "NEW"
      /\ e.type = "INSTRUCTION_SUBMITTED" => n.state = "READY_FOR_CODEX"
      /\ e.type = "RESULT_SUBMITTED" => n.state = "CODEX_COMPLETE"
      /\ e.type = "PLANNING_STARTED" => n.state = "PLANNING"
      /\ e.type = "TURN_CLAIMED" => n.state = "CODEX_RUNNING"
      /\ e.type = "REVIEW_STARTED" => n.state = "REVIEWING"
      /\ e.type = "HUMAN_REQUESTED" => n.state = "HUMAN_REQUIRED"
      /\ e.type = "PAUSED" => n.state = "PAUSED" /\ n.pausedFrom = e.arg
      /\ e.type = "RESUMED" => n.state = s.pausedFrom
      /\ e.type = "LEASE_EXPIRED" => n.state = "READY_FOR_CODEX"
      /\ e.type = "PROGRESS_REPORTED" => n = s
      /\ e.type = "COMPLETED" => n.state = "COMPLETE" /\ n.result = s.result
      /\ e.type = "FAILED" => n.state = "FAILED"
      /\ e.type = "STOPPED" => n.state = "STOPPED"
  BY <1>1, AppliedFields DEF n
<1> QED
  BY <1>2, <1>3, <1>4, <1>5, <1>6, <1>7, <1>8 DEF Lifecycle, EventTypes, n

LEMMA CountedGrows ==
  ASSUME NEW log \in Seq(Events), NEW s \in Snapshots, Counted(log, s), Lifecycle(log, s),
         NEW e \in Events, Accepts(log, s, e)
  PROVE  Counted(Append(log, e), ApplyEvent(s, e))
<1> DEFINE more == Append(log, e)
           n == ApplyEvent(s, e)
           I == "INSTRUCTION_SUBMITTED"
<1>1. WellFormed(e) /\ Legal(s, e) /\ s.iteration \in Nat /\ s.maxIterations \in Nat
  BY DEF Accepts, Snapshots
<1>2. /\ At(log, I) \subseteq 1..Len(log) /\ Len(log) \in Nat
      /\ At(more, I) = IF e.type = I THEN At(log, I) \cup {Len(log) + 1} ELSE At(log, I)
      /\ Submitted(more) = IF e.type = I THEN Submitted(log) \cup {e.arg} ELSE Submitted(log)
  BY AppendedEvent
<1>3. IsFiniteSet(At(log, I))
  <2>1. IsFiniteSet(1..Len(log))
    BY <1>2, FS_Interval
  <2>2. At(log, I) \in SUBSET (1..Len(log))
    BY <1>2
  <2> QED
    BY <2>1, <2>2, FS_Subset
<1> HIDE DEF more, n
<1>4. CASE e.type = I
  <2>1. n.iteration = s.iteration + 1 /\ n.maxIterations = s.maxIterations
    BY <1>1, <1>4, AppliedFields DEF n
  <2>2. s.iteration < s.maxIterations
    BY <1>1, <1>4 DEF Legal
  <2>3. Cardinality(At(more, I)) = s.iteration + 1
    <3>1. Len(log) + 1 \notin At(log, I)
      BY <1>2
    <3>2. Cardinality(At(log, I) \cup {Len(log) + 1}) = Cardinality(At(log, I)) + 1
      BY <1>3, <3>1, FS_AddElement
    <3> QED
      BY <1>2, <1>4, <3>2 DEF Counted
  <2>4. IsFiniteSet(Submitted(more)) /\ Cardinality(Submitted(more)) = s.iteration + 1
    <3>1. e.arg \notin Submitted(log)
      BY <1>4 DEF Accepts
    <3>2. IsFiniteSet(Submitted(log)) /\ Cardinality(Submitted(log)) = s.iteration
      BY DEF Counted
    <3>3. /\ IsFiniteSet(Submitted(log) \cup {e.arg})
          /\ Cardinality(Submitted(log) \cup {e.arg}) = Cardinality(Submitted(log)) + 1
      BY <3>1, <3>2, FS_AddElement
    <3> QED
      BY <1>2, <1>4, <3>2, <3>3
  <2> QED
    BY <1>1, <2>1, <2>2, <2>3, <2>4 DEF Counted, more, n
<1>5. CASE e.type = "RUN_CREATED"
  <2>1. log = <<>>
    BY <1>1, <1>5 DEF Legal, LegalFrom, Lifecycle
  <2>2. At(log, I) = {} /\ Submitted(log) = {}
    BY <2>1 DEF At, Submitted
  <2>3. n.iteration = 0 /\ n.maxIterations \in Nat
    BY <1>1, <1>5, AppliedFields DEF n
  <2>4. Counted(more, n)
    BY <1>2, <1>5, <2>2, <2>3, FS_EmptySet DEF Counted
  <2> QED
    BY <2>4 DEF more, n
<1>6. CASE e.type \notin {I, "RUN_CREATED"}
  <2>1. n.iteration = s.iteration /\ n.maxIterations = s.maxIterations
    BY <1>1, <1>6, AppliedFields DEF n
  <2>2. Counted(more, n)
    BY <1>2, <1>6, <2>1 DEF Counted
  <2> QED
    BY <2>2 DEF more, n
<1> QED
  BY <1>4, <1>5, <1>6

LEMMA TurnsGrow ==
  ASSUME NEW log \in Seq(Events), NEW s \in Snapshots, Lifecycle(log, s),
         Open(s) => Unanswered(log), Separated(log),
         NEW e \in Events, Accepts(log, s, e)
  PROVE  /\ Open(ApplyEvent(s, e)) => Unanswered(Append(log, e))
         /\ Separated(Append(log, e))
<1> DEFINE more == Append(log, e)
           n == ApplyEvent(s, e)
           I == "INSTRUCTION_SUBMITTED"
           R == "RESULT_SUBMITTED"
<1>1. WellFormed(e) /\ Legal(s, e) /\ e.type \in EventTypes
  BY DEF Accepts, Events, EventTypes
<1>2. /\ At(log, I) \subseteq 1..Len(log) /\ Len(log) \in Nat
      /\ At(log, R) \subseteq 1..Len(log)
      /\ At(more, I) = IF e.type = I THEN At(log, I) \cup {Len(log) + 1} ELSE At(log, I)
      /\ At(more, R) = IF e.type = R THEN At(log, R) \cup {Len(log) + 1} ELSE At(log, R)
  BY AppendedEvent
<1> HIDE DEF more, n
<1>3. CASE e.type = I
  <2>1. At(more, R) = At(log, R) /\ At(more, I) = At(log, I) \cup {Len(log) + 1}
    BY <1>2, <1>3
  <2>2. Unanswered(more)
    BY <1>2, <2>1 DEF Unanswered
  <2>3. Separated(more)
    BY <2>1 DEF Separated
  <2> QED
    BY <2>2, <2>3 DEF more
<1>4. CASE e.type = R
  <2>1. At(more, I) = At(log, I) /\ At(more, R) = At(log, R) \cup {Len(log) + 1}
    BY <1>2, <1>4
  <2>2. ~Open(n)
    BY <1>1, <1>4, AppliedFields DEF n, Open
  <2>3. Unanswered(log)
    BY <1>1, <1>4 DEF Legal, LegalFrom, Open
  <2>4. Separated(more)
    <3> SUFFICES ASSUME NEW i \in At(more, R), NEW j \in At(more, R), i < j
                 PROVE  \E m \in At(more, I) : i < m /\ m < j
      BY DEF Separated
    <3>1. i \in At(log, R)
      BY <1>2, <2>1
    <3>2. CASE j = Len(log) + 1
      <4>1. PICK m \in At(log, I) : i < m
        BY <2>3, <3>1 DEF Unanswered
      <4> QED
        BY <1>2, <2>1, <3>2, <4>1
    <3>3. CASE j # Len(log) + 1
      BY <2>1, <3>1, <3>3 DEF Separated
    <3> QED
      BY <3>2, <3>3
  <2> QED
    BY <2>2, <2>4 DEF more, n
<1>5. CASE e.type \notin {I, R}
  <2>1. At(more, I) = At(log, I) /\ At(more, R) = At(log, R)
    BY <1>2, <1>5
  <2>2. Open(n) => Open(s)
    <3>1. /\ e.type = "RUN_CREATED" => n.state = "NEW"
          /\ e.type = "PLANNING_STARTED" => n.state = "PLANNING"
          /\ e.type = "TURN_CLAIMED" => n.state = "CODEX_RUNNING"
          /\ e.type = "REVIEW_STARTED" => n.state = "REVIEWING"
          /\ e.type = "HUMAN_REQUESTED" => n.state = "HUMAN_REQUIRED"
          /\ e.type = "PAUSED" => n.state = "PAUSED" /\ n.pausedFrom = e.arg
          /\ e.type = "RESUMED" => n.state = s.pausedFrom
          /\ e.type = "LEASE_EXPIRED" => n.state = "READY_FOR_CODEX"
          /\ e.type = "PROGRESS_REPORTED" => n = s
          /\ e.type = "COMPLETED" => n.state = "COMPLETE"
          /\ e.type = "FAILED" => n.state = "FAILED"
          /\ e.type = "STOPPED" => n.state = "STOPPED"
      BY <1>1, AppliedFields DEF n
    <3>2. /\ e.type = "TURN_CLAIMED" => s.state = "READY_FOR_CODEX"
          /\ e.type = "LEASE_EXPIRED" => s.state = "CODEX_RUNNING"
          /\ e.type = "PAUSED" => e.arg = ResumeState(s)
          /\ e.type = "RESUMED" =>
               s.state = "PAUSED" /\ s.pausedFrom \notin {"PAUSED", "CODEX_RUNNING"}
      BY <1>1 DEF Legal, LegalFrom, Lifecycle
    <3> QED
      BY <1>1, <1>5, <3>1, <3>2 DEF Open, EventTypes, ResumeState
  <2> QED
    BY <2>1, <2>2 DEF Unanswered, Separated, more, n
<1> QED
  BY <1>3, <1>4, <1>5

LEMMA AnswerGrows ==
  ASSUME NEW log \in Seq(Events), NEW s \in Snapshots, Lifecycle(log, s),
         s.result # None => AnsweredWith(log, s.result),
         NEW e \in Events, Accepts(log, s, e), ApplyEvent(s, e).result # None
  PROVE  AnsweredWith(Append(log, e), ApplyEvent(s, e).result)
<1> DEFINE more == Append(log, e)
           n == ApplyEvent(s, e)
           I == "INSTRUCTION_SUBMITTED"
           R == "RESULT_SUBMITTED"
<1>1. WellFormed(e) /\ n.result # None
  BY DEF Accepts
<1>2. /\ At(log, I) \subseteq 1..Len(log) /\ Len(log) \in Nat
      /\ At(log, R) \subseteq 1..Len(log)
      /\ At(more, I) = IF e.type = I THEN At(log, I) \cup {Len(log) + 1} ELSE At(log, I)
      /\ At(more, R) = IF e.type = R THEN At(log, R) \cup {Len(log) + 1} ELSE At(log, R)
      /\ \A j \in 1..Len(log) : more[j] = log[j]
      /\ more[Len(log) + 1] = e
  BY AppendedEvent
<1> HIDE DEF more, n
<1>3. CASE e.type = R
  <2>1. n.result = e.arg
    BY <1>1, <1>3, AppliedFields DEF n
  <2>2. AnsweredWith(more, n.result)
    BY <1>2, <1>3, <2>1 DEF AnsweredWith
  <2> QED
    BY <2>2 DEF more, n
<1>4. CASE e.type # R
  <2>1. e.type \notin {"RUN_CREATED", I} /\ n.result = s.result
    BY <1>1, <1>4, AppliedFields DEF n
  <2>2. AnsweredWith(log, n.result)
    BY <1>1, <2>1
  <2>3. AnsweredWith(more, n.result)
    BY <1>2, <1>4, <2>1, <2>2 DEF AnsweredWith
  <2> QED
    BY <2>3 DEF more, n
<1> QED
  BY <1>3, <1>4

LEMMA InstructionGrows ==
  ASSUME NEW log \in Seq(Events), NEW s \in Snapshots,
         s.instruction # None => Instructed(log, s.instruction),
         NEW e \in Events, Accepts(log, s, e), ApplyEvent(s, e).instruction # None
  PROVE  Instructed(Append(log, e), ApplyEvent(s, e).instruction)
<1> DEFINE more == Append(log, e)
           n == ApplyEvent(s, e)
           I == "INSTRUCTION_SUBMITTED"
<1>1. WellFormed(e) /\ n.instruction # None
  BY DEF Accepts
<1>2. /\ At(log, I) \subseteq 1..Len(log) /\ Len(log) \in Nat
      /\ At(more, I) = IF e.type = I THEN At(log, I) \cup {Len(log) + 1} ELSE At(log, I)
      /\ \A j \in 1..Len(log) : more[j] = log[j]
      /\ more[Len(log) + 1] = e
  BY AppendedEvent
<1> HIDE DEF more, n
<1>3. CASE e.type = I
  <2>1. n.instruction = e.arg
    BY <1>1, <1>3, AppliedFields DEF n
  <2>2. Instructed(more, n.instruction)
    BY <1>2, <1>3, <2>1 DEF Instructed
  <2> QED
    BY <2>2 DEF more, n
<1>4. CASE e.type # I
  <2>1. n.instruction = s.instruction
    BY <1>1, <1>4, AppliedFields DEF n
  <2>2. Instructed(log, n.instruction)
    BY <1>1, <2>1
  <2>3. Instructed(more, n.instruction)
    BY <1>2, <1>4, <2>1, <2>2 DEF Instructed
  <2> QED
    BY <2>3 DEF more, n
<1> QED
  BY <1>3, <1>4

\* One accepted event, or a call's one or two, keeps the whole history.
LEMMA HistoryGrows ==
  ASSUME NEW log \in Seq(Events), NEW s \in Snapshots, History(log, s),
         NEW more, NEW t, Grows(log, s, more, t)
  PROVE  History(more, t) /\ more \in Seq(Events) /\ t \in Snapshots
<1>1. PICK e \in Events : Accepts(log, s, e) /\ more = Append(log, e) /\ t = ApplyEvent(s, e)
  BY DEF Grows
<1>2. more \in Seq(Events) /\ t \in Snapshots
  BY <1>1, ApplyEventType DEF Accepts
<1>3. t = Replay(more)
  BY <1>1, ReplayAppend DEF Accepts, Applied, History
<1>4. Lifecycle(more, t) /\ Counted(more, t)
  BY <1>1, LifecycleGrows, CountedGrows DEF History
<1>5. (Open(t) => Unanswered(more)) /\ Separated(more)
  BY <1>1, TurnsGrow DEF History
<1>6. t.result # None => AnsweredWith(more, t.result)
  BY <1>1, AnswerGrows DEF History
<1>7. t.instruction # None => Instructed(more, t.instruction)
  BY <1>1, InstructionGrows DEF History
<1> QED
  BY <1>2, <1>3, <1>4, <1>5, <1>6, <1>7 DEF History

LEMMA HistoryExtends ==
  ASSUME NEW log \in Seq(Events), NEW s \in Snapshots, History(log, s),
         NEW more, NEW t, Extends(log, s, more, t)
  PROVE  History(more, t)
<1>1. CASE Grows(log, s, more, t)
  BY <1>1, HistoryGrows
<1>2. ASSUME NEW mid \in Seq(Events), NEW u \in Snapshots,
             Grows(log, s, mid, u), Grows(mid, u, more, t)
      PROVE  History(more, t)
  BY <1>2, HistoryGrows
<1> QED
  BY <1>1, <1>2 DEF Extends

-----------------------------------------------------------------------------
(* The histories of every reachable state.                                     *)

HistoryInv ==
  \A r \in Runs :
    /\ History(events[r], snap[r])
    /\ row[r] = [state |-> snap[r].state, iteration |-> snap[r].iteration,
                 version |-> Len(events[r])]

LEMMA InitHistory == Init => HistoryInv
<1> SUFFICES ASSUME Init, NEW r \in Runs
             PROVE  /\ History(events[r], snap[r])
                    /\ row[r] = [state |-> snap[r].state, iteration |-> snap[r].iteration,
                                 version |-> Len(events[r])]
  BY DEF HistoryInv
<1>1. events[r] = <<>> /\ snap[r] = Absent
      /\ row[r] = [state |-> "ABSENT", iteration |-> 0, version |-> 0]
  BY DEF Init
<1>2. Absent.state = "ABSENT" /\ Absent.iteration = 0
  BY DEF Absent
<1>3. Len(events[r]) = 0
  BY <1>1
<1> QED
  BY <1>1, <1>2, <1>3, EmptyHistory

LEMMA NextHistory ==
  ASSUME IInv, IInv', HistoryInv, [Next]_vars
  PROVE  HistoryInv'
<1> SUFFICES ASSUME NEW r \in Runs
             PROVE  /\ History(events'[r], snap'[r])
                    /\ row'[r] = [state |-> snap'[r].state, iteration |-> snap'[r].iteration,
                                  version |-> Len(events'[r])]
  BY DEF HistoryInv
<1>1. CASE events'[r] = events[r] /\ snap'[r] = snap[r] /\ row'[r] = row[r]
  BY <1>1 DEF HistoryInv
<1>2. CASE RunStep(r)
  <2>1. /\ events[r] \in Seq(Events) /\ snap[r] \in Snapshots
        /\ events'[r] \in Seq(Events)
    BY DEF IInv, TypeOK
  <2>2. History(events'[r], snap'[r])
    BY <1>2, <2>1, HistoryExtends DEF HistoryInv, RunStep
  <2>3. row[r].version + (Len(events'[r]) - Len(events[r])) = Len(events'[r])
    <3>1. row[r] = [state |-> snap[r].state, iteration |-> snap[r].iteration,
                    version |-> Len(events[r])]
      BY DEF HistoryInv
    <3>2. Len(events[r]) \in Nat /\ Len(events'[r]) \in Nat
      BY <2>1
    <3> QED
      BY <3>1, <3>2
  <2> QED
    BY <1>2, <2>2, <2>3 DEF RunStep, SyncedRow
<1> QED
  BY <1>1, <1>2, LogSteps

\* Every reachable state has its history in order.
THEOREM HistoryInductive == Spec => []HistoryInv
<1>1. IInv /\ IInv' /\ HistoryInv /\ [Next]_vars => HistoryInv'
  BY NextHistory
<1> QED
  BY <1>1, InitHistory, Inductive, PTL DEF Spec

\* The cached columns of a run and the replay of its whole stream agree.
THEOREM ReplayNeverDrifts == Spec => []ReplayAgrees
<1>1. HistoryInv => ReplayAgrees
  BY DEF HistoryInv, History, ReplayAgrees
<1> QED
  BY <1>1, HistoryInductive, PTL

\* Instruction ids are never reused, the loop is bounded, and two results
\* never answer one instruction.
THEOREM OneResult == Spec => []OneResultPerInstruction
<1>1. ASSUME HistoryInv, NEW r \in Runs
      PROVE  LET A(type) == {j \in DOMAIN events[r] : events[r][j].type = type}
             IN  /\ Cardinality(A("INSTRUCTION_SUBMITTED")) = snap[r].iteration
                 /\ Cardinality(SubmittedInstructions(r)) = snap[r].iteration
                 /\ snap[r].iteration <= snap[r].maxIterations
                 /\ \A i, j \in A("RESULT_SUBMITTED") : i < j =>
                      \E n \in A("INSTRUCTION_SUBMITTED") : i < n /\ n < j
  <2>1. /\ Counted(events[r], snap[r]) /\ Separated(events[r])
    BY <1>1 DEF HistoryInv, History
  <2>2. SubmittedInstructions(r) = Submitted(events[r])
    BY DEF SubmittedInstructions, Submitted, At
  <2> QED
    BY <2>1, <2>2 DEF Counted, Separated, At
<1>2. HistoryInv => OneResultPerInstruction
  BY <1>1 DEF OneResultPerInstruction
<1> QED
  BY <1>2, HistoryInductive, PTL

\* A completed run rests on evidence for its last instruction.
THEOREM CompletionRestsOnEvidence == Spec => []CompletionIsEvidenced
<1>1. ASSUME HistoryInv, NEW r \in Runs, snap[r].state = "COMPLETE"
      PROVE  \E j \in DOMAIN events[r] :
               /\ events[r][j].type = "RESULT_SUBMITTED"
               /\ events[r][j].arg \in Evidenced
               /\ \A n \in DOMAIN events[r] :
                    events[r][n].type \in {"INSTRUCTION_SUBMITTED", "RESULT_SUBMITTED"}
                      => n <= j
  <2>1. /\ Lifecycle(events[r], snap[r])
        /\ snap[r].result # None => AnsweredWith(events[r], snap[r].result)
    BY <1>1 DEF HistoryInv, History
  <2>2. snap[r].result \in Evidenced
    BY <1>1, <2>1 DEF Lifecycle
  <2>3. snap[r].result # None
    BY <2>2, EvidencedAssumption, NoneAssumption
  <2>4. PICK j \in At(events[r], "RESULT_SUBMITTED") :
          /\ events[r][j].arg = snap[r].result
          /\ \A n \in At(events[r], "RESULT_SUBMITTED")
                        \cup At(events[r], "INSTRUCTION_SUBMITTED") : n <= j
    BY <2>1, <2>3 DEF AnsweredWith
  <2> QED
    BY <2>2, <2>4 DEF At
<1>2. HistoryInv => CompletionIsEvidenced
  BY <1>1 DEF CompletionIsEvidenced
<1> QED
  BY <1>2, HistoryInductive, PTL

-----------------------------------------------------------------------------
(* Streams only grow, and that of a terminal run does not grow any more.     *)

\* apply_event takes no event after a terminal state.
LEMMA TerminalRefuses ==
  ASSUME NEW s, NEW e \in Events, s.state \in TerminalStates
  PROVE  ~Legal(s, e)
<1>1. \A type \in EventTypes : LegalFrom(type) \cap TerminalStates = {}
  BY DEF EventTypes, LegalFrom, ActiveStates, TerminalStates
<1>2. e.type \in EventTypes
  BY DEF Events, EventTypes
<1> QED
  BY <1>1, <1>2 DEF Legal

\* All of the shorter stream, in the longer one.
Continues(log, more) ==
  /\ Len(log) <= Len(more)
  /\ \A j \in 1..Len(log) : more[j] = log[j]

LEMMA ContinuesIsPrefix ==
  ASSUME NEW log \in Seq(Events), NEW more \in Seq(Events), Continues(log, more)
  PROVE  IsPrefix(log, more)
<1> DEFINE n == Len(log)
<1>1. n \in Nat /\ Len(more) \in Nat /\ n <= Len(more)
  BY DEF Continues
<1> DEFINE s == SubSeq(log, 1, n)
           t == SubSeq(more, 1, n)
<1>2. s \in Seq(Events) /\ Len(s) = n /\ \A j \in 1..n : s[j] = log[j]
  BY <1>1
<1>3. t \in Seq(Events) /\ Len(t) = n /\ \A j \in 1..n : t[j] = more[j]
  BY <1>1
<1> HIDE DEF s, t
<1>4. \A j \in 1..n : s[j] = t[j]
  BY <1>2, <1>3 DEF Continues
<1>5. s = t
  BY <1>2, <1>3, <1>4, SeqEqual
<1> QED
  BY <1>1, <1>5 DEF s, t, IsPrefix

\* A stream that grows keeps what it had, and only while its run is not over.
LEMMA GrowsContinues ==
  ASSUME NEW log \in Seq(Events), NEW s \in Snapshots, NEW more, NEW t, Grows(log, s, more, t)
  PROVE  Continues(log, more) /\ more \in Seq(Events) /\ s.state \notin TerminalStates
<1>1. PICK e \in Events : Accepts(log, s, e) /\ more = Append(log, e)
  BY DEF Grows
<1>2. s.state \notin TerminalStates
  BY <1>1, TerminalRefuses DEF Accepts
<1>3. Continues(log, more)
  BY <1>1 DEF Continues
<1> QED
  BY <1>1, <1>2, <1>3

LEMMA ExtendsContinues ==
  ASSUME NEW log \in Seq(Events), NEW s \in Snapshots, NEW more, NEW t, Extends(log, s, more, t)
  PROVE  Continues(log, more) /\ more \in Seq(Events) /\ s.state \notin TerminalStates
<1>1. ASSUME NEW mid \in Seq(Events), NEW u \in Snapshots,
             Grows(log, s, mid, u), Grows(mid, u, more, t)
      PROVE  Continues(log, more) /\ more \in Seq(Events) /\ s.state \notin TerminalStates
  <2>1. /\ Continues(log, mid) /\ s.state \notin TerminalStates
        /\ Continues(mid, more) /\ more \in Seq(Events)
    BY <1>1, GrowsContinues
  <2>2. Len(log) \in Nat /\ Len(mid) \in Nat /\ Len(more) \in Nat
    BY <2>1
  <2>3. Continues(log, more)
    BY <2>1, <2>2 DEF Continues
  <2> QED
    BY <2>1, <2>3
<1> QED
  BY <1>1, GrowsContinues DEF Extends

\* A stream only grows, by events its replay accepts, and the stream and the
\* lease of a run in a terminal state are final.
THEOREM HistoryNeverRewritten == Spec => HistoryIsFinal
<1>1. ASSUME IInv, IInv', [Next]_vars, NEW r \in Runs
      PROVE  /\ IsPrefix(events[r], events'[r])
             /\ snap[r].state \in TerminalStates => events'[r] = events[r] /\ lease'[r] = NoLease
  <2>1. /\ events[r] \in Seq(Events) /\ snap[r] \in Snapshots
        /\ events'[r] \in Seq(Events)
    BY <1>1 DEF IInv, TypeOK
  <2>2. CASE events'[r] = events[r] /\ snap'[r] = snap[r]
    <3>1. Continues(events[r], events'[r])
      BY <2>1, <2>2 DEF Continues
    <3>2. snap'[r].state \in TerminalStates => lease'[r] = NoLease
      BY <1>1 DEF IInv, LeaseMatchesTurn, TerminalStates
    <3> QED
      BY <2>1, <2>2, <3>1, <3>2, ContinuesIsPrefix
  <2>3. CASE RunStep(r)
    BY <2>1, <2>3, ExtendsContinues, ContinuesIsPrefix DEF RunStep
  <2> QED
    BY <1>1, <2>2, <2>3, LogSteps
<1>2. IInv /\ IInv' /\ [Next]_vars =>
        [\A r \in Runs :
           /\ IsPrefix(events[r], events'[r])
           /\ snap[r].state \in TerminalStates =>
                events'[r] = events[r] /\ lease'[r] = NoLease]_vars
  BY <1>1
<1> QED
  BY <1>2, Inductive, PTL DEF Spec, HistoryIsFinal

-----------------------------------------------------------------------------
(* A lease and its claim in the stream: while a run has a lease, its stream  *)
(* ends with the claim of that worker and with nothing but progress after    *)
(* it; and no lease carries a token that was used for an answer.             *)

OwnedBy(log, w) ==
  \E j \in DOMAIN log :
    /\ log[j].type = "TURN_CLAIMED" /\ log[j].arg = w
    /\ \A n \in j + 1..Len(log) : log[n].type = "PROGRESS_REPORTED"

LeaseLogged ==
  \A r \in Runs : lease[r] # NoLease => OwnedBy(events[r], lease[r].worker)

AnswersSpent ==
  \A j \in DOMAIN answers :
    /\ answers[j] \in DOMAIN issued
    /\ \A r \in Runs : lease[r] # NoLease => lease[r].token # answers[j]

FenceInv == LeaseLogged /\ AnswersSpent

\* A run keeps its lease, and reports at most progress.
KeepsLease(r) ==
  /\ lease[r] # NoLease
  /\ lease'[r].worker = lease[r].worker /\ lease'[r].token = lease[r].token
  /\ \/ events'[r] = events[r]
     \/ \E e \in Events : e.type = "PROGRESS_REPORTED" /\ events'[r] = Append(events[r], e)

\* A run gets its lease by a claim, the last event of its stream.
GetsLease(r) ==
  \E log \in Seq(Events), e \in Events :
    /\ events'[r] = Append(log, e)
    /\ e.type = "TURN_CLAIMED" /\ e.arg = lease'[r].worker
    /\ lease'[r].token = Len(issued) + 1

\* What each role's calls do to the leases.
LEMMA DeletedLease ==
  ASSUME TypeOK, NEW r \in Runs, DeleteLease(r)
  PROVE  lease'[r] = NoLease /\ \A q \in Runs \ {r} : lease'[q] = lease[q]
  BY DEF TypeOK, DeleteLease

LEMMA PlannerLease ==
  ASSUME IInv, NEW q \in Runs, NEW k \in CallKeys, PlannerCall(q, k),
         NEW r \in Runs, lease'[r] # NoLease
  PROVE  KeepsLease(r)
<1>1. TypeOK /\ (lease[q] # NoLease <=> snap[q].state = "CODEX_RUNNING")
  BY DEF IInv, LeaseMatchesTurn
<1>2. DeleteLease(q) \/ (UNCHANGED lease /\ snap[q].state # "CODEX_RUNNING")
  BY DEF PlannerCall, SubmitInstruction, RequestHuman, CompleteRun, Reviewed
<1>3. lease'[q] = NoLease /\ r # q /\ lease'[r] = lease[r]
  BY <1>1, <1>2, DeletedLease
<1> QED
  BY <1>3, PlannerSteps DEF KeepsLease, OnlyRun

LEMMA ControlLease ==
  ASSUME IInv, NEW q \in Runs, NEW k \in CallKeys, ControlCall(q, k),
         NEW r \in Runs, lease'[r] # NoLease
  PROVE  KeepsLease(r)
<1>1. TypeOK /\ (lease[q] # NoLease <=> snap[q].state = "CODEX_RUNNING")
  BY DEF IInv, LeaseMatchesTurn
<1>2. DeleteLease(q) \/ (UNCHANGED lease /\ snap[q].state # "CODEX_RUNNING")
  <2>1. ASSUME NEW max, CreateRun(q, k, max)
        PROVE  UNCHANGED lease /\ snap[q].state # "CODEX_RUNNING"
    BY <2>1 DEF CreateRun, Absent
  <2>2. ResumeRun(q, k) => UNCHANGED lease /\ snap[q].state # "CODEX_RUNNING"
    BY DEF ResumeRun
  <2>3. PauseRun(q, k) => DeleteLease(q) \/ (UNCHANGED lease /\ snap[q].state # "CODEX_RUNNING")
    BY DEF PauseRun
  <2>4. StopRun(q, k) \/ FailRun(q, k) => DeleteLease(q)
    BY DEF StopRun, FailRun
  <2> QED
    BY <2>1, <2>2, <2>3, <2>4 DEF ControlCall
<1>3. lease'[q] = NoLease /\ r # q /\ lease'[r] = lease[r]
  BY <1>1, <1>2, DeletedLease
<1> QED
  BY <1>3, ControlSteps DEF KeepsLease, OnlyRun

LEMMA ClaimLease ==
  ASSUME IInv, NEW q \in Runs, NEW k \in CallKeys, NEW w \in Workers, NEW d \in Durations,
         ClaimTurn(q, k, w, d), NEW r \in Runs, lease'[r] # NoLease
  PROVE  KeepsLease(r) \/ GetsLease(r)
<1>1. TypeOK
  BY DEF IInv
<1>2. CASE r # q
  <2>1. lease'[r] = lease[r]
    BY <1>1, <1>2 DEF ClaimTurn, TypeOK
  <2> QED
    BY <1>2, <2>1, ClaimSteps DEF KeepsLease, OnlyRun
<1>3. CASE r = q
  <2> DEFINE e == Event("TURN_CLAIMED", k, w)
  <2>1. lease'[r] = [worker |-> w, token |-> Len(issued) + 1, ttl |-> d]
    BY <1>1, <1>3 DEF ClaimTurn, TypeOK
  <2>2. e \in Events /\ e.type = "TURN_CLAIMED" /\ e.arg = w
    BY DEF Event, Events, EventTypes, CallKeys, Payloads
  <2>3. events[r] \in Seq(Events)
    BY <1>1 DEF TypeOK
  <2>4. \E log \in Seq(Events) : events'[r] = Append(log, e)
    <3>1. CASE LeaseExpired(r)
      <4>1. events'[r] = events[r] \o <<ExpiryEvent, e>>
        BY <1>1, <1>3, <3>1 DEF ClaimTurn, Commit, TypeOK
      <4>2. ExpiryEvent \in Events
        BY <1>1, <3>1, ExpiryAccepted DEF WellFormed
      <4> DEFINE x == ExpiryEvent
      <4> HIDE DEF e, x
      <4>3. /\ events[r] \o <<x, e>> = Append(Append(events[r], x), e)
            /\ Append(events[r], x) \in Seq(Events)
        BY <2>2, <2>3, <4>2 DEF x
      <4> QED
        BY <4>1, <4>3 DEF x
    <3>2. CASE ~LeaseExpired(r)
      <4>1. events'[r] = events[r] \o <<e>>
        BY <1>1, <1>3, <3>2 DEF ClaimTurn, Commit, TypeOK
      <4> HIDE DEF e
      <4>2. events[r] \o <<e>> = Append(events[r], e)
        BY <2>2, <2>3
      <4> QED
        BY <2>3, <4>1, <4>2
    <3> QED
      BY <3>1, <3>2
  <2> HIDE DEF e
  <2>5. lease'[r].worker = w /\ lease'[r].token = Len(issued) + 1
    BY <2>1
  <2> QED
    BY <2>2, <2>4, <2>5 DEF GetsLease
<1> QED
  BY <1>2, <1>3

LEMMA WorkerLease ==
  ASSUME IInv, NEW q \in Runs, NEW k \in CallKeys, WorkerCall(q, k),
         NEW r \in Runs, lease'[r] # NoLease
  PROVE  KeepsLease(r) \/ GetsLease(r)
<1>1. TypeOK
  BY DEF IInv
<1>2. CASE DeleteLease(q)
  <2>1. r # q /\ lease'[r] = lease[r]
    BY <1>1, <1>2, DeletedLease
  <2> QED
    BY <2>1, WorkerSteps DEF KeepsLease, OnlyRun
<1>3. ASSUME NEW w \in Workers, NEW t \in DOMAIN issued, ReportProgress(q, k, w, t)
      PROVE  KeepsLease(r)
  <2> DEFINE e == Event("PROGRESS_REPORTED", k, None)
  <2>1. lease' = lease
    BY <1>3 DEF ReportProgress
  <2>2. CASE r # q
    BY <2>1, <2>2, WorkerSteps DEF KeepsLease, OnlyRun
  <2>3. CASE r = q
    <3>1. e \in Events /\ e.type = "PROGRESS_REPORTED"
      BY DEF Event, Events, EventTypes, CallKeys, Payloads
    <3>2. events[r] \in Seq(Events) /\ events'[r] = events[r] \o <<e>>
      BY <1>1, <1>3, <2>3 DEF TypeOK, ReportProgress, AppendAndSync, Commit
    <3> HIDE DEF e
    <3>3. events'[r] = Append(events[r], e)
      BY <3>1, <3>2
    <3> QED
      BY <2>1, <3>1, <3>3 DEF KeepsLease
  <2> QED
    BY <2>2, <2>3
<1> QED
  BY <1>2, <1>3, ClaimLease DEF WorkerCall, SubmitResult, ReportBlocker

\* A run's lease after a step is the one it had, or a claim the step logged.
LEMMA LeaseSteps ==
  ASSUME IInv, [Next]_vars, NEW r \in Runs, lease'[r] # NoLease
  PROVE  KeepsLease(r) \/ GetsLease(r)
<1>1. CASE UNCHANGED vars
  BY <1>1 DEF vars, KeepsLease
<1>2. CASE Tick
  <2>1. events' = events /\ lease[r] # NoLease
    BY <1>2 DEF Tick
  <2>2. lease[r] \in Leases
    BY <2>1 DEF IInv, TypeOK
  <2>3. lease'[r] \in {lease[r], [lease[r] EXCEPT !.ttl = @ - 1]}
    BY <1>2 DEF Tick
  <2>4. lease'[r].worker = lease[r].worker /\ lease'[r].token = lease[r].token
    BY <2>2, <2>3 DEF Leases
  <2> QED
    BY <2>1, <2>4 DEF KeepsLease
<1>3. CASE RecoverExpiredLeases
  BY <1>3 DEF RecoverExpiredLeases, KeepsLease
<1> QED
  BY <1>1, <1>2, <1>3, PlannerLease, WorkerLease, ControlLease DEF Next

\* What is answered, and with which token.
Answering(r, t) ==
  /\ t \in DOMAIN issued /\ lease[r] # NoLease /\ lease[r].token = t
  /\ answers' = Append(answers, t) /\ issued' = issued
  /\ lease'[r] = NoLease /\ \A q \in Runs \ {r} : lease'[q] = lease[q]

\* An answer is taken from the worker whose claim is the run's lease.
LEMMA AnswerSteps ==
  ASSUME IInv, [Next]_vars
  PROVE  \/ answers' = answers /\ Len(issued) <= Len(issued')
         \/ \E r \in Runs, t \in DOMAIN issued : Answering(r, t)
<1>1. TypeOK /\ Len(issued) \in Nat
  BY DEF IInv, TypeOK
<1>2. ASSUME answers' = answers, issued' = issued
      PROVE  answers' = answers /\ Len(issued) <= Len(issued')
  BY <1>1, <1>2
<1>3. ASSUME NEW r \in Runs, NEW k \in CallKeys, NEW w \in Workers, NEW d \in Durations,
             ClaimTurn(r, k, w, d)
      PROVE  answers' = answers /\ Len(issued) <= Len(issued')
  <2>1. snap[r] \in Snapshots
    BY <1>1 DEF TypeOK
  <2>2. answers' = answers /\ \E c : issued' = Append(issued, c)
    BY <1>3 DEF ClaimTurn
  <2>3. issued \in Seq(Claims)
    BY <1>1 DEF TypeOK
  <2>4. \A c : Len(Append(issued, c)) = Len(issued) + 1
    BY <2>3
  <2> QED
    BY <1>1, <2>2, <2>4
<1>4. ASSUME NEW r \in Runs, NEW k \in CallKeys, NEW w \in Workers, NEW t \in DOMAIN issued,
             ReportBlocker(r, k, w, t) \/ \E x \in Results : SubmitResult(r, k, w, t, x)
      PROVE  Answering(r, t)
  <2>1. AssertLease(r, w, t) /\ DeleteLease(r) /\ answers' = Append(answers, t)
        /\ issued' = issued
    BY <1>4 DEF ReportBlocker, SubmitResult
  <2> QED
    BY <1>1, <2>1, DeletedLease DEF Answering, AssertLease
<1>5. ASSUME NEW r \in Runs, NEW k \in CallKeys, PlannerCall(r, k) \/ ControlCall(r, k)
      PROVE  answers' = answers /\ issued' = issued
  BY <1>5 DEF PlannerCall, SubmitInstruction, RequestHuman, CompleteRun, ControlCall,
              CreateRun, PauseRun, ResumeRun, StopRun, FailRun
<1>6. ASSUME NEW r \in Runs, NEW k \in CallKeys, NEW w \in Workers, NEW t \in DOMAIN issued,
             ReportProgress(r, k, w, t)
      PROVE  answers' = answers /\ issued' = issued
  BY <1>6 DEF ReportProgress
<1>7. CASE RecoverExpiredLeases \/ Tick \/ UNCHANGED vars
  BY <1>2, <1>7 DEF RecoverExpiredLeases, Tick, vars
<1>8. ASSUME NEW r \in Runs, NEW k \in CallKeys, WorkerCall(r, k)
      PROVE  \/ answers' = answers /\ Len(issued) <= Len(issued')
             \/ \E q \in Runs, t \in DOMAIN issued : Answering(q, t)
  BY <1>2, <1>3, <1>4, <1>6, <1>8 DEF WorkerCall
<1> QED
  BY <1>2, <1>5, <1>7, <1>8 DEF Next

\* Progress leaves the claimant of a turn; a claim names a new one.
LEMMA OwnerKept ==
  ASSUME NEW log \in Seq(Events), NEW w, OwnedBy(log, w),
         NEW e \in Events, e.type = "PROGRESS_REPORTED"
  PROVE  OwnedBy(Append(log, e), w)
<1> DEFINE more == Append(log, e)
<1>1. /\ Len(log) \in Nat /\ DOMAIN log = 1..Len(log) /\ DOMAIN more = 1..(Len(log) + 1)
      /\ Len(more) = Len(log) + 1 /\ more[Len(log) + 1] = e
      /\ \A n \in 1..Len(log) : more[n] = log[n]
  BY AppendedEvent
<1> HIDE DEF more
<1>2. PICK j \in DOMAIN log :
        /\ log[j].type = "TURN_CLAIMED" /\ log[j].arg = w
        /\ \A n \in j + 1..Len(log) : log[n].type = "PROGRESS_REPORTED"
  BY DEF OwnedBy
<1>3. j \in 1..Len(log) /\ j \in DOMAIN more /\ more[j] = log[j]
  BY <1>1, <1>2
<1>4. ASSUME NEW n \in j + 1..Len(more) PROVE more[n].type = "PROGRESS_REPORTED"
  <2>1. n \in j + 1..Len(log) \/ n = Len(log) + 1
    BY <1>1, <1>3
  <2>2. n \in j + 1..Len(log) => n \in 1..Len(log)
    BY <1>1, <1>3
  <2> QED
    BY <1>1, <1>2, <2>1, <2>2
<1> QED
  BY <1>2, <1>3, <1>4 DEF OwnedBy, more

LEMMA OwnerClaimed ==
  ASSUME NEW log \in Seq(Events), NEW e \in Events, e.type = "TURN_CLAIMED"
  PROVE  OwnedBy(Append(log, e), e.arg)
<1> DEFINE more == Append(log, e)
<1>1. /\ Len(log) \in Nat /\ DOMAIN more = 1..(Len(log) + 1)
      /\ Len(more) = Len(log) + 1 /\ more[Len(log) + 1] = e
  BY AppendedEvent
<1> HIDE DEF more
<1>2. Len(log) + 1 \in DOMAIN more /\ (Len(log) + 1) + 1..Len(more) = {}
  BY <1>1
<1> QED
  BY <1>1, <1>2 DEF OwnedBy, more

LEMMA InitFence == Init => FenceInv
  BY DEF Init, FenceInv, LeaseLogged, AnswersSpent

LEMMA NextLeaseLogged ==
  ASSUME IInv, FenceInv, [Next]_vars
  PROVE  LeaseLogged'
<1> SUFFICES ASSUME NEW r \in Runs, lease'[r] # NoLease
             PROVE  OwnedBy(events'[r], lease'[r].worker)
  BY DEF LeaseLogged
<1>1. events[r] \in Seq(Events)
  BY DEF IInv, TypeOK
<1>2. CASE KeepsLease(r)
  <2>1. OwnedBy(events[r], lease'[r].worker)
    BY <1>2 DEF KeepsLease, FenceInv, LeaseLogged
  <2> QED
    BY <1>1, <1>2, <2>1, OwnerKept DEF KeepsLease
<1>3. CASE GetsLease(r)
  BY <1>3, OwnerClaimed DEF GetsLease
<1> QED
  BY <1>2, <1>3, LeaseSteps

LEMMA NextAnswersSpent ==
  ASSUME IInv, IInv', FenceInv, [Next]_vars
  PROVE  AnswersSpent'
<1>1. /\ issued \in Seq(Claims) /\ answers \in Seq(Tokens)
      /\ Len(issued) \in Nat /\ DOMAIN issued = 1..Len(issued)
  BY DEF IInv, TypeOK
<1>2. ASSUME NEW r \in Runs, lease'[r] # NoLease
      PROVE  \/ lease[r] # NoLease /\ lease'[r].token = lease[r].token
             \/ lease'[r].token = Len(issued) + 1
  BY <1>2, LeaseSteps DEF KeepsLease, GetsLease
<1>3. DOMAIN issued \subseteq DOMAIN issued'
  <2>1. Len(issued) <= Len(issued')
    BY <1>1, AnswerSteps DEF Answering
  <2>2. issued' \in Seq(Claims)
    BY DEF IInv, TypeOK
  <2> QED
    BY <1>1, <2>1, <2>2
<1>4. CASE answers' = answers
  <2> SUFFICES ASSUME NEW j \in DOMAIN answers
               PROVE  /\ answers[j] \in DOMAIN issued'
                      /\ \A r \in Runs : lease'[r] # NoLease => lease'[r].token # answers[j]
    BY <1>4 DEF AnswersSpent
  <2>1. /\ answers[j] \in DOMAIN issued
        /\ \A r \in Runs : lease[r] # NoLease => lease[r].token # answers[j]
    BY DEF FenceInv, AnswersSpent
  <2>2. Len(issued) + 1 # answers[j]
    BY <1>1, <2>1
  <2> QED
    BY <1>2, <1>3, <2>1, <2>2
<1>5. ASSUME NEW q \in Runs, NEW t \in DOMAIN issued, Answering(q, t)
      PROVE  AnswersSpent'
  <2>1. t \in Tokens
    BY <1>1 DEF Tokens
  <2>2. answers' = Append(answers, t)
    BY <1>5 DEF Answering
  <2> SUFFICES ASSUME NEW j \in DOMAIN answers'
               PROVE  /\ answers'[j] \in DOMAIN issued'
                      /\ \A r \in Runs : lease'[r] # NoLease => lease'[r].token # answers'[j]
    BY DEF AnswersSpent
  <2>3. \/ j \in DOMAIN answers /\ answers'[j] = answers[j]
        \/ answers'[j] = t
    BY <1>1, <2>1, <2>2
  <2>4. CASE j \in DOMAIN answers /\ answers'[j] = answers[j]
    <3>1. /\ answers[j] \in DOMAIN issued
          /\ \A r \in Runs : lease[r] # NoLease => lease[r].token # answers[j]
      BY <2>4 DEF FenceInv, AnswersSpent
    <3>2. Len(issued) + 1 # answers[j]
      BY <1>1, <3>1
    <3> QED
      BY <1>2, <1>3, <2>4, <3>1, <3>2
  <2>5. CASE answers'[j] = t
    <3>1. ASSUME NEW r \in Runs, lease'[r] # NoLease PROVE lease'[r].token # t
      <4>1. r # q /\ lease'[r] = lease[r]
        BY <1>5, <3>1 DEF Answering
      <4>2. issued[lease[r].token].run = r /\ issued[lease[q].token].run = q
        <5>1. ASSUME NEW p \in Runs, lease[p] # NoLease
              PROVE  issued[lease[p].token].run = p
          <6>1. issued[lease[p].token] = [run |-> p, worker |-> lease[p].worker,
                                          instruction |-> snap[p].instruction]
            BY <5>1 DEF IInv, LeaseMatchesTurn
          <6> QED
            BY <6>1
        <5>2. lease[r] # NoLease /\ lease[q] # NoLease
          BY <1>5, <3>1, <4>1 DEF Answering
        <5> QED
          BY <5>1, <5>2
      <4> QED
        BY <1>5, <4>1, <4>2 DEF Answering
    <3> QED
      BY <1>3, <2>5, <3>1
  <2> QED
    BY <2>3, <2>4, <2>5
<1> QED
  BY <1>4, <1>5, AnswerSteps

\* The leases of every reachable state are claims of their stream, unspent.
THEOREM FenceInductive == Spec => []FenceInv
<1>1. IInv /\ IInv' /\ FenceInv /\ [Next]_vars => FenceInv'
  BY NextLeaseLogged, NextAnswersSpent DEF FenceInv
<1> QED
  BY <1>1, InitFence, Inductive, PTL DEF Spec

\* An accepted answer comes once, from the newest claim of its run, for the
\* current instruction, and with nothing but progress recorded since.
THEOREM AnswersFenced == Spec => AnswersAreFenced
<1>1. ASSUME IInv, FenceInv, [Next]_vars, Len(answers') > Len(answers)
      PROVE  LET t == Last(answers')
                 c == issued[t]
                 s == events[c.run]
             IN  /\ \A later \in DOMAIN issued : issued[later].run = c.run => later <= t
                 /\ \A j \in DOMAIN answers : answers[j] # t
                 /\ c.instruction = snap[c.run].instruction
                 /\ \E j \in DOMAIN s :
                      /\ s[j].type = "TURN_CLAIMED" /\ s[j].arg = c.worker
                      /\ \A n \in j + 1..Len(s) : s[n].type = "PROGRESS_REPORTED"
  <2>1. /\ issued \in Seq(Claims) /\ answers \in Seq(Tokens)
        /\ Len(answers) \in Nat /\ DOMAIN issued = 1..Len(issued)
    BY <1>1 DEF IInv, TypeOK
  <2>2. PICK r \in Runs, t \in DOMAIN issued : Answering(r, t)
    BY <1>1, <2>1, AnswerSteps
  <2>3. t \in Tokens
    BY <2>1 DEF Tokens, IInv, TypeOK
  <2>4. Last(answers') = t
    BY <2>1, <2>2, <2>3 DEF Last, Answering
  <2>5. lease[r] # NoLease /\ lease[r].token = t
    BY <2>2 DEF Answering
  <2>6. /\ issued[t] = [run |-> r, worker |-> lease[r].worker,
                        instruction |-> snap[r].instruction]
        /\ \A later \in DOMAIN issued : issued[later].run = r => later <= t
    BY <1>1, <2>5 DEF IInv, LeaseMatchesTurn
  <2>7. \A j \in DOMAIN answers : answers[j] # t
    BY <1>1, <2>5 DEF FenceInv, AnswersSpent
  <2>8. OwnedBy(events[r], lease[r].worker)
    BY <1>1, <2>5 DEF FenceInv, LeaseLogged
  <2>9. /\ issued[t].run = r /\ issued[t].worker = lease[r].worker
        /\ issued[t].instruction = snap[r].instruction
    BY <2>6
  <2> QED
    BY <2>4, <2>6, <2>7, <2>8, <2>9 DEF OwnedBy
<1> QED
  BY <1>1, Inductive, FenceInductive, PTL DEF Spec, AnswersAreFenced

-----------------------------------------------------------------------------
(* Keys.  A call with a key stores its operation and appends the one event    *)
(* that stands for its effect, and both or neither were there before.         *)

Unkeyed == {"RUN_CREATED", "PLANNING_STARTED", "REVIEW_STARTED"}

Carries(e, k) == e.key = k /\ e.type \notin Unkeyed

Carrying(log, k) == {j \in DOMAIN log : Carries(log[j], k)}

CreatedWith(k) == {r \in Runs : events[r] # <<>> /\ events[r][1].key = k}

Single(S) == \E x : S = {x}

KeyInv ==
  \A k \in Keys :
    /\ \A r \in Runs : IF ops[r][k] = NoOp THEN Carrying(events[r], k) = {}
                       ELSE Single(Carrying(events[r], k))
    /\ IF ops[CreateScope][k] = NoOp THEN CreatedWith(k) = {}
       ELSE Single(CreatedWith(k))

\* Which events of a stream carry a key, after one more event and after a call.
LEMMA CarryingAppend ==
  ASSUME NEW log \in Seq(Events), NEW e \in Events, NEW k
  PROVE  Carrying(Append(log, e), k) = IF Carries(e, k) THEN Carrying(log, k) \cup {Len(log) + 1}
                                       ELSE Carrying(log, k)
<1> DEFINE more == Append(log, e)
<1>1. /\ Len(log) \in Nat /\ DOMAIN log = 1..Len(log) /\ DOMAIN more = 1..(Len(log) + 1)
      /\ more[Len(log) + 1] = e
      /\ \A n \in 1..Len(log) : more[n] = log[n]
  BY AppendedEvent
<1> HIDE DEF more
<1>2. Carrying(more, k) = IF Carries(e, k) THEN Carrying(log, k) \cup {Len(log) + 1}
                          ELSE Carrying(log, k)
  BY <1>1 DEF Carrying
<1> QED
  BY <1>2 DEF more

\* The event e of a call, after at most one event that carries no key.
Adds(log, more, e) ==
  \/ more = Append(log, e)
  \/ \E v \in Events : /\ \A k \in Keys : ~Carries(v, k)
                       /\ more = Append(Append(log, v), e)

LEMMA AddsCarrying ==
  ASSUME NEW log \in Seq(Events), NEW e \in Events, NEW more, Adds(log, more, e),
         NEW k \in Keys
  PROVE  ~Carries(e, k) => Carrying(more, k) = Carrying(log, k)
<1>1. ASSUME NEW v \in Events, ~Carries(v, k), more = Append(Append(log, v), e)
      PROVE  ~Carries(e, k) => Carrying(more, k) = Carrying(log, k)
  <2>1. Append(log, v) \in Seq(Events)
    OBVIOUS
  <2> QED
    BY <1>1, <2>1, CarryingAppend
<1>2. CASE more = Append(log, e)
  BY <1>2, CarryingAppend
<1>3. CASE \E v \in Events : /\ \A c \in Keys : ~Carries(v, c)
                             /\ more = Append(Append(log, v), e)
  BY <1>1, <1>3
<1> QED
  BY <1>2, <1>3 DEF Adds

LEMMA AddsOne ==
  ASSUME NEW log \in Seq(Events), NEW e \in Events, NEW more, Adds(log, more, e),
         NEW k \in Keys, Carries(e, k), Carrying(log, k) = {}
  PROVE  Single(Carrying(more, k))
<1>1. ASSUME NEW pre \in Seq(Events), Carrying(pre, k) = {}, more = Append(pre, e)
      PROVE  Single(Carrying(more, k))
  <2>1. Carrying(more, k) = {} \cup {Len(pre) + 1}
    BY <1>1, CarryingAppend
  <2> QED
    BY <2>1 DEF Single
<1>2. ASSUME NEW v \in Events, ~Carries(v, k), more = Append(Append(log, v), e)
      PROVE  Single(Carrying(more, k))
  <2>1. Append(log, v) \in Seq(Events)
    OBVIOUS
  <2>2. Carrying(Append(log, v), k) = {}
    BY <1>2, CarryingAppend
  <2> QED
    BY <1>1, <1>2, <2>1, <2>2
<1> QED
  BY <1>1, <1>2 DEF Adds

\* A call under key k, but the creation of the run.
KeyStep(r, k) ==
  /\ snap[r].state # "ABSENT"
  /\ k \in Keys => ops[r][k] = NoOp
  /\ \E o \in Operations : Store(r, k, o)
  /\ \E e \in Events : /\ e.key = k /\ e.type \notin Unkeyed
                       /\ Adds(events[r], events'[r], e)

LEMMA AppendKeys ==
  ASSUME TypeOK, NEW r \in Runs, NEW e \in Events, AppendAndSync(r, e)
  PROVE  Adds(events[r], events'[r], e)
<1>1. events[r] \in Seq(Events) /\ events'[r] = events[r] \o <<e>>
  BY DEF TypeOK, AppendAndSync, Commit
<1>2. events'[r] = Append(events[r], e)
  BY <1>1
<1> QED
  BY <1>2 DEF Adds

LEMMA ReviewKeys ==
  ASSUME TypeOK, NEW r \in Runs, NEW k \in CallKeys, NEW e \in Events, ReviewAndAppend(r, k, e)
  PROVE  Adds(events[r], events'[r], e)
<1>1. events[r] \in Seq(Events) /\ events'[r] = events[r] \o (ReviewPrefix(r, k) \o <<e>>)
  BY DEF TypeOK, ReviewAndAppend, Commit
<1>2. CASE snap[r].state = "CODEX_COMPLETE"
  <2> DEFINE v == Event("REVIEW_STARTED", k, None)
  <2>1. v \in Events /\ \A c \in Keys : ~Carries(v, c)
    BY DEF Event, Events, EventTypes, CallKeys, Payloads, Carries, Unkeyed
  <2>2. ReviewPrefix(r, k) = <<v>>
    BY <1>2 DEF ReviewPrefix
  <2> HIDE DEF v
  <2>3. <<v>> \o <<e>> = <<v, e>>
    BY <2>1, PairOfEvents
  <2>4. events[r] \o <<v, e>> = Append(Append(events[r], v), e)
    BY <1>1, <2>1
  <2> QED
    BY <1>1, <2>1, <2>2, <2>3, <2>4 DEF Adds
<1>3. CASE snap[r].state # "CODEX_COMPLETE"
  <2>1. ReviewPrefix(r, k) = <<>> /\ <<>> \o <<e>> = <<e>>
    BY <1>3 DEF ReviewPrefix
  <2>2. events[r] \o <<e>> = Append(events[r], e)
    BY <1>1
  <2> QED
    BY <1>1, <2>1, <2>2 DEF Adds
<1> QED
  BY <1>2, <1>3

LEMMA KeyedEvent ==
  ASSUME NEW k \in CallKeys, NEW arg \in Payloads, NEW type \in EventTypes \ Unkeyed
  PROVE  /\ Event(type, k, arg) \in Events /\ Event(type, k, arg).key = k
         /\ Event(type, k, arg).type \notin Unkeyed
  BY DEF Event, Events, CallKeys, Unkeyed

LEMMA PlannerKeys ==
  ASSUME IInv, NEW r \in Runs, NEW k \in CallKeys, PlannerCall(r, k)
  PROVE  KeyStep(r, k)
<1>1. TypeOK
  BY DEF IInv
<1>2. /\ \A type \in {"FAILED", "INSTRUCTION_SUBMITTED", "HUMAN_REQUESTED", "COMPLETED"} :
           type \in EventTypes \ Unkeyed
      /\ None \in Payloads /\ Instructions \subseteq Payloads
      /\ None \in Workers \cup {None}
  BY DEF EventTypes, Unkeyed, Payloads
<1>3. ASSUME NEW type \in EventTypes \ Unkeyed, NEW arg \in Payloads,
             ReviewAndAppend(r, k, Event(type, k, arg)), Callable(r, k),
             NEW o \in Operations, Store(r, k, o)
      PROVE  KeyStep(r, k)
  <2> DEFINE e == Event(type, k, arg)
  <2>1. e \in Events /\ e.key = k /\ e.type \notin Unkeyed
    BY KeyedEvent
  <2>2. Adds(events[r], events'[r], e)
    BY <1>1, <1>3, <2>1, ReviewKeys
  <2> HIDE DEF e
  <2> QED
    BY <1>3, <2>1, <2>2 DEF KeyStep, Callable
<1>4. ASSUME NEW i \in Instructions, SubmitInstruction(r, k, i) PROVE KeyStep(r, k)
  <2>1. Request("submit_instruction", None, i) \in Operations
    BY <1>2, RequestType
  <2>2. \/ ReviewAndAppend(r, k, Event("FAILED", k, None))
        \/ ReviewAndAppend(r, k, Event("INSTRUCTION_SUBMITTED", k, i))
    BY <1>4 DEF SubmitInstruction
  <2>3. Callable(r, k) /\ Store(r, k, Request("submit_instruction", None, i))
    BY <1>4 DEF SubmitInstruction
  <2> QED
    BY <1>2, <1>3, <2>1, <2>2, <2>3
<1>5. ASSUME RequestHuman(r, k) PROVE KeyStep(r, k)
  <2>1. Request("request_human", None, None) \in Operations
    BY <1>2, RequestType
  <2> QED
    BY <1>2, <1>3, <1>5, <2>1 DEF RequestHuman
<1>6. ASSUME CompleteRun(r, k) PROVE KeyStep(r, k)
  <2>1. Request("complete_run", None, None) \in Operations
    BY <1>2, RequestType
  <2> QED
    BY <1>2, <1>3, <1>6, <2>1 DEF CompleteRun
<1> QED
  BY <1>4, <1>5, <1>6 DEF PlannerCall

LEMMA ClaimKeys ==
  ASSUME IInv, NEW r \in Runs, NEW k \in CallKeys, NEW w \in Workers, NEW d \in Durations,
         ClaimTurn(r, k, w, d)
  PROVE  KeyStep(r, k)
<1>1. TypeOK
  BY DEF IInv
<1> DEFINE e == Event("TURN_CLAIMED", k, w)
           o == [op |-> "claim_turn", worker |-> w, seconds |-> d, token |-> Len(issued) + 1]
<1>2. e \in Events /\ e.key = k /\ e.type \notin Unkeyed
  BY KeyedEvent DEF EventTypes, Unkeyed, Payloads
<1>3. o \in Operations
  <2>1. Len(issued) + 1 \in Tokens /\ d \in Nat
    BY <1>1, BoundsAssumption DEF TypeOK, Tokens
  <2> QED
    BY <2>1 DEF Operations
<1>4. Store(r, k, o) /\ Callable(r, k)
  BY DEF ClaimTurn
<1> HIDE DEF o
<1>5. events[r] \in Seq(Events)
  BY <1>1 DEF TypeOK
<1>6. Adds(events[r], events'[r], e)
  <2>1. CASE LeaseExpired(r)
    <3>1. events'[r] = events[r] \o <<ExpiryEvent, e>>
      BY <1>1, <2>1 DEF ClaimTurn, Commit, TypeOK
    <3> DEFINE v == ExpiryEvent
    <3>2. v \in Events /\ \A c \in Keys : ~Carries(v, c)
      BY NoKeyAssumption DEF ExpiryEvent, Event, Events, EventTypes, Payloads, Carries
    <3> HIDE DEF e, v
    <3>3. events[r] \o <<v, e>> = Append(Append(events[r], v), e)
      BY <1>2, <1>5, <3>2
    <3> QED
      BY <3>1, <3>2, <3>3 DEF Adds, v
  <2>2. CASE ~LeaseExpired(r)
    <3>1. events'[r] = events[r] \o <<e>>
      BY <1>1, <2>2 DEF ClaimTurn, Commit, TypeOK
    <3> HIDE DEF e
    <3>2. events[r] \o <<e>> = Append(events[r], e)
      BY <1>2, <1>5
    <3> QED
      BY <3>1, <3>2 DEF Adds
  <2> QED
    BY <2>1, <2>2
<1> HIDE DEF e
<1> QED
  BY <1>2, <1>3, <1>4, <1>6 DEF KeyStep, Callable

\* The calls that append one event to the stream as it is.
LEMMA AppendedKeys ==
  ASSUME IInv, NEW r \in Runs, NEW k \in CallKeys, NEW type \in EventTypes \ Unkeyed,
         NEW arg \in Payloads, AppendAndSync(r, Event(type, k, arg)), Callable(r, k),
         NEW name \in {"submit_result", "report_progress", "report_blocker", "pause_run",
                       "resume_run", "stop_run", "fail_run"},
         NEW w \in Workers \cup {None}, NEW a \in Payloads, Store(r, k, Request(name, w, a))
  PROVE  KeyStep(r, k)
<1> DEFINE e == Event(type, k, arg)
<1>1. e \in Events /\ e.key = k /\ e.type \notin Unkeyed
  BY KeyedEvent
<1>2. Adds(events[r], events'[r], e)
  BY <1>1, AppendKeys DEF IInv
<1> HIDE DEF e
<1>3. Request(name, w, a) \in Operations
  BY RequestType
<1> QED
  BY <1>1, <1>2, <1>3 DEF KeyStep, Callable

LEMMA WorkerKeys ==
  ASSUME IInv, NEW r \in Runs, NEW k \in CallKeys, WorkerCall(r, k)
  PROVE  KeyStep(r, k)
<1>1. /\ \A type \in {"RESULT_SUBMITTED", "PROGRESS_REPORTED", "HUMAN_REQUESTED"} :
           type \in EventTypes \ Unkeyed
      /\ None \in Payloads /\ Results \subseteq Payloads
  BY DEF EventTypes, Unkeyed, Payloads
<1>2. ASSUME NEW w \in Workers, NEW t, NEW x \in Results, SubmitResult(r, k, w, t, x)
      PROVE  KeyStep(r, k)
  BY <1>1, <1>2, AppendedKeys DEF SubmitResult
<1>3. ASSUME NEW w \in Workers, NEW t, ReportProgress(r, k, w, t)
      PROVE  KeyStep(r, k)
  BY <1>1, <1>3, AppendedKeys DEF ReportProgress
<1>4. ASSUME NEW w \in Workers, NEW t, ReportBlocker(r, k, w, t)
      PROVE  KeyStep(r, k)
  BY <1>1, <1>4, AppendedKeys DEF ReportBlocker
<1> QED
  BY <1>2, <1>3, <1>4, ClaimKeys DEF WorkerCall

LEMMA ControlKeys ==
  ASSUME IInv, NEW r \in Runs, NEW k \in CallKeys, ControlCall(r, k)
  PROVE  KeyStep(r, k) \/ \E max \in 1..Ceiling : CreateRun(r, k, max)
<1>1. /\ \A type \in {"PAUSED", "RESUMED", "STOPPED", "FAILED"} :
           type \in EventTypes \ Unkeyed
      /\ None \in Payloads /\ RunStates \subseteq Payloads
  BY DEF EventTypes, Unkeyed, Payloads
<1>2. ASSUME PauseRun(r, k) PROVE KeyStep(r, k)
  <2> DEFINE e == Event("PAUSED", k, ResumeState(snap[r]))
  <2>1. Legal(snap[r], e) /\ e.type = "PAUSED"
    BY <1>2 DEF PauseRun, AppendAndSync, Event
  <2>2. ResumeState(snap[r]) \in RunStates
    BY <2>1 DEF Legal, LegalFrom, ResumeState, ActiveStates, RunStates
  <2> QED
    BY <1>1, <1>2, <2>2, AppendedKeys DEF PauseRun
<1>3. ASSUME ResumeRun(r, k) PROVE KeyStep(r, k)
  BY <1>1, <1>3, AppendedKeys DEF ResumeRun
<1>4. ASSUME StopRun(r, k) PROVE KeyStep(r, k)
  BY <1>1, <1>4, AppendedKeys DEF StopRun
<1>5. ASSUME FailRun(r, k) PROVE KeyStep(r, k)
  BY <1>1, <1>5, AppendedKeys DEF FailRun
<1> QED
  BY <1>2, <1>3, <1>4, <1>5 DEF ControlCall

\* A stream that is not empty keeps its first event.
LEMMA BirthKept ==
  ASSUME IInv, IInv', HistoryInv, [Next]_vars, NEW r \in Runs, snap[r].state # "ABSENT", NEW k
  PROVE  (events'[r] # <<>> /\ events'[r][1].key = k) <=> (events[r] # <<>> /\ events[r][1].key = k)
<1>1. /\ events[r] \in Seq(Events) /\ events'[r] \in Seq(Events) /\ snap[r] \in Snapshots
  BY DEF IInv, TypeOK
<1>2. events[r] # <<>>
  <2>1. snap[r] = Replay(events[r])
    BY DEF HistoryInv, History
  <2>2. Absent.state = "ABSENT"
    BY DEF Absent
  <2> QED
    BY <2>1, <2>2, ReplayEmpty
<1>3. Continues(events[r], events'[r])
  <2>1. CASE events'[r] = events[r]
    BY <1>1, <2>1 DEF Continues
  <2>2. CASE RunStep(r)
    BY <1>1, <2>2, ExtendsContinues DEF RunStep
  <2> QED
    BY <2>1, <2>2, LogSteps
<1>4. Len(events[r]) >= 1 /\ Len(events[r]) \in Nat /\ Len(events'[r]) \in Nat
  BY <1>1, <1>2
<1>5. events'[r] # <<>> /\ events'[r][1] = events[r][1]
  BY <1>1, <1>3, <1>4 DEF Continues
<1> QED
  BY <1>2, <1>5

\* No run is born, no operation is stored, and no event carries a key.
LEMMA KeysKept ==
  ASSUME KeyInv, ops' = ops,
         \A r \in Runs : \A k \in Keys :
           /\ Carrying(events'[r], k) = Carrying(events[r], k)
           /\ (events'[r] # <<>> /\ events'[r][1].key = k)
                <=> (events[r] # <<>> /\ events[r][1].key = k)
  PROVE  KeyInv'
<1>1. \A k \in Keys : CreatedWith(k)' = CreatedWith(k)
  BY DEF CreatedWith
<1>2. ASSUME NEW k \in Keys, NEW r \in Runs
      PROVE  IF ops'[r][k] = NoOp THEN Carrying(events'[r], k) = {}
             ELSE Single(Carrying(events'[r], k))
  <2>1. IF ops[r][k] = NoOp THEN Carrying(events[r], k) = {}
        ELSE Single(Carrying(events[r], k))
    BY DEF KeyInv
  <2> QED
    BY <2>1
<1>3. ASSUME NEW k \in Keys
      PROVE  IF ops'[CreateScope][k] = NoOp THEN CreatedWith(k)' = {}
             ELSE Single(CreatedWith(k)')
  <2>1. IF ops[CreateScope][k] = NoOp THEN CreatedWith(k) = {}
        ELSE Single(CreatedWith(k))
    BY DEF KeyInv
  <2> QED
    BY <1>1, <2>1
<1> QED
  BY <1>2, <1>3 DEF KeyInv

\* A call under a key keeps each key at one event and one operation.
LEMMA CallKeysKept ==
  ASSUME IInv, IInv', HistoryInv, KeyInv, [Next]_vars, NEW r \in Runs, NEW k \in CallKeys,
         KeyStep(r, k), OnlyRun(r)
  PROVE  KeyInv'
<1>1. TypeOK /\ snap[r].state # "ABSENT" /\ CreateScope # r
  BY ScopeAssumption DEF IInv, KeyStep
<1>2. \A c \in Keys : CreatedWith(c)' = CreatedWith(c)
  <2> SUFFICES ASSUME NEW c \in Keys, NEW q \in Runs
               PROVE  (events'[q] # <<>> /\ events'[q][1].key = c)
                        <=> (events[q] # <<>> /\ events[q][1].key = c)
    BY DEF CreatedWith
  <2>1. CASE q = r
    BY <1>1, <2>1, BirthKept
  <2>2. CASE q # r
    BY <2>2 DEF OnlyRun
  <2> QED
    BY <2>1, <2>2
<1>3. PICK o \in Operations : Store(r, k, o)
  BY DEF KeyStep
<1>4. o # NoOp
  BY NoOpAssumption
<1>5. /\ \A c \in Scopes \ {r} : ops'[c] = ops[c]
      /\ \A c \in Keys \ {k} : ops'[r][c] = ops[r][c]
      /\ k \in Keys => ops'[r][k] # NoOp
  <2>1. r \in Scopes /\ ops \in [Scopes -> [Keys -> Operations \cup {NoOp}]]
    BY <1>1 DEF TypeOK, Scopes
  <2> QED
    BY <1>3, <1>4, <2>1 DEF Store
<1>6. CreateScope \in Scopes \ {r} /\ \A q \in Runs \ {r} : q \in Scopes \ {r}
  BY <1>1 DEF Scopes
<1>7. PICK e \in Events : e.key = k /\ e.type \notin Unkeyed /\ Adds(events[r], events'[r], e)
  BY DEF KeyStep
<1>8. events[r] \in Seq(Events)
  BY <1>1 DEF TypeOK
<1>9. ASSUME NEW c \in Keys, NEW q \in Runs
      PROVE  IF ops'[q][c] = NoOp THEN Carrying(events'[q], c) = {}
             ELSE Single(Carrying(events'[q], c))
  <2>1. IF ops[q][c] = NoOp THEN Carrying(events[q], c) = {}
        ELSE Single(Carrying(events[q], c))
    BY DEF KeyInv
  <2>2. CASE q # r
    BY <1>5, <1>6, <2>1, <2>2 DEF OnlyRun
  <2>3. CASE q = r /\ c # k
    <3>1. ~Carries(e, c)
      BY <1>7, <2>3 DEF Carries
    <3>2. Carrying(events'[r], c) = Carrying(events[r], c)
      BY <1>7, <1>8, <3>1, AddsCarrying
    <3>3. ops'[r][c] = ops[r][c]
      BY <1>5, <2>3
    <3> QED
      BY <2>1, <2>3, <3>2, <3>3
  <2>4. CASE q = r /\ c = k
    <3>1. ops[r][c] = NoOp /\ ops'[r][c] # NoOp
      BY <1>5, <2>4 DEF KeyStep
    <3>2. Carries(e, c)
      BY <1>7, <2>4 DEF Carries
    <3>3. Carrying(events[r], c) = {}
      BY <2>1, <2>4, <3>1
    <3>4. Single(Carrying(events'[r], c))
      BY <1>7, <1>8, <3>2, <3>3, AddsOne
    <3> QED
      BY <2>4, <3>1, <3>4
  <2> QED
    BY <2>2, <2>3, <2>4
<1>10. ASSUME NEW c \in Keys
       PROVE  IF ops'[CreateScope][c] = NoOp THEN CreatedWith(c)' = {}
              ELSE Single(CreatedWith(c)')
  <2>1. ops'[CreateScope][c] = ops[CreateScope][c] /\ CreatedWith(c)' = CreatedWith(c)
    BY <1>2, <1>5, <1>6
  <2> QED
    BY <2>1 DEF KeyInv
<1> QED
  BY <1>9, <1>10 DEF KeyInv

LEMMA CreateKeys ==
  ASSUME IInv, HistoryInv, KeyInv, NEW r \in Runs, NEW k \in CallKeys,
         NEW max \in 1..Ceiling, CreateRun(r, k, max)
  PROVE  KeyInv'
<1> DEFINE e == RunCreated(k, max)
           f == Event("PLANNING_STARTED", k, None)
           o == [op |-> "create_run", max |-> max, run |-> r]
<1>1. TypeOK /\ OnlyRun(r) /\ CreateScope # r
  BY CreateSteps, ScopeAssumption DEF IInv
<1>2. /\ e \in Events /\ f \in Events /\ e.key = k
      /\ \A c \in Keys : ~Carries(e, c) /\ ~Carries(f, c)
  BY BoundsAssumption DEF RunCreated, Event, Events, EventTypes, CallKeys, Payloads,
                          Carries, Unkeyed
<1>3. events[r] = <<>>
  <2>1. snap[r].state = "ABSENT"
    BY DEF CreateRun, Absent
  <2> QED
    BY <2>1 DEF HistoryInv, History, Lifecycle
<1>4. events'[r] = events[r] \o <<e, f>>
  BY <1>1 DEF CreateRun, Commit, TypeOK
<1>5. o \in Operations /\ o # NoOp
  <2>1. o \in Operations
    BY BoundsAssumption DEF Operations
  <2> QED
    BY <2>1, NoOpAssumption
<1>6. Store(CreateScope, k, o) /\ (k \in Keys => ops[CreateScope][k] = NoOp)
  BY DEF CreateRun
<1> HIDE DEF e, f, o
<1>7. events'[r] = <<e, f>>
  BY <1>2, <1>3, <1>4
<1>8. /\ events'[r] # <<>> /\ events'[r][1].key = k
      /\ \A c \in Keys : Carrying(events'[r], c) = {}
  <2>1. /\ <<e, f>> # <<>> /\ <<e, f>>[1] = e /\ <<e, f>>[2] = f
        /\ DOMAIN <<e, f>> = {1, 2}
    BY <1>2
  <2> QED
    BY <1>2, <1>7, <2>1 DEF Carrying
<1>9. /\ \A q \in Runs : ops'[q] = ops[q]
      /\ \A c \in Keys \ {k} : ops'[CreateScope][c] = ops[CreateScope][c]
      /\ k \in Keys => ops'[CreateScope][k] # NoOp
  <2>1. /\ CreateScope \in Scopes /\ Runs \subseteq Scopes \ {CreateScope}
        /\ ops \in [Scopes -> [Keys -> Operations \cup {NoOp}]]
    BY <1>1, ScopeAssumption DEF TypeOK, Scopes
  <2> QED
    BY <1>5, <1>6, <2>1 DEF Store
<1>10. \A c : CreatedWith(c)' = IF c = k THEN CreatedWith(c) \cup {r} ELSE CreatedWith(c)
  BY <1>1, <1>3, <1>8 DEF CreatedWith, OnlyRun
<1>11. ASSUME NEW c \in Keys, NEW q \in Runs
       PROVE  IF ops'[q][c] = NoOp THEN Carrying(events'[q], c) = {}
              ELSE Single(Carrying(events'[q], c))
  <2>1. IF ops[q][c] = NoOp THEN Carrying(events[q], c) = {}
        ELSE Single(Carrying(events[q], c))
    BY DEF KeyInv
  <2>2. CASE q # r
    BY <1>1, <1>9, <2>1, <2>2 DEF OnlyRun
  <2>3. CASE q = r
    <3>1. Carrying(events[r], c) = {}
      BY <1>3 DEF Carrying
    <3> QED
      BY <1>8, <1>9, <2>1, <2>3, <3>1
  <2> QED
    BY <2>2, <2>3
<1>12. ASSUME NEW c \in Keys
       PROVE  IF ops'[CreateScope][c] = NoOp THEN CreatedWith(c)' = {}
              ELSE Single(CreatedWith(c)')
  <2>1. IF ops[CreateScope][c] = NoOp THEN CreatedWith(c) = {}
        ELSE Single(CreatedWith(c))
    BY DEF KeyInv
  <2>2. CASE c = k
    <3>1. CreatedWith(c) = {} /\ CreatedWith(c)' = {r}
      BY <1>6, <1>10, <2>1, <2>2
    <3> QED
      BY <1>6, <1>9, <2>2, <3>1 DEF Single
  <2>3. CASE c # k
    BY <1>9, <1>10, <2>1, <2>3
  <2> QED
    BY <2>2, <2>3
<1> QED
  BY <1>11, <1>12 DEF KeyInv

LEMMA InitKeys == Init => KeyInv
<1> SUFFICES ASSUME Init PROVE KeyInv
  OBVIOUS
<1>1. \A r \in Runs : events[r] = <<>> /\ \A k \in Keys : ops[r][k] = NoOp
  BY DEF Init, Scopes
<1>2. \A k \in Keys : ops[CreateScope][k] = NoOp
  BY DEF Init, Scopes
<1>3. \A k : Carrying(<<>>, k) = {}
  BY DEF Carrying
<1>4. \A k : CreatedWith(k) = {}
  BY <1>1 DEF CreatedWith
<1> QED
  BY <1>1, <1>2, <1>3, <1>4 DEF KeyInv

LEMMA NextKeys ==
  ASSUME IInv, IInv', HistoryInv, KeyInv, [Next]_vars
  PROVE  KeyInv'
<1>1. CASE UNCHANGED vars \/ Tick
  BY <1>1, KeysKept DEF vars, Tick
<1>2. CASE RecoverExpiredLeases
  <2>1. ops' = ops
    BY <1>2 DEF RecoverExpiredLeases
  <2>2. ASSUME NEW r \in Runs, NEW k \in Keys
        PROVE  /\ Carrying(events'[r], k) = Carrying(events[r], k)
               /\ (events'[r] # <<>> /\ events'[r][1].key = k)
                    <=> (events[r] # <<>> /\ events[r][1].key = k)
    <3>1. CASE ~LeaseExpired(r)
      BY <1>2, <3>1 DEF RecoverExpiredLeases
    <3>2. CASE LeaseExpired(r)
      <4>1. events'[r] = Append(events[r], ExpiryEvent) /\ snap[r].state # "ABSENT"
        BY <1>2, <3>2 DEF RecoverExpiredLeases, LeaseExpired
      <4>2. ExpiryEvent \in Events /\ ~Carries(ExpiryEvent, k) /\ events[r] \in Seq(Events)
        BY NoKeyAssumption
        DEF IInv, TypeOK, ExpiryEvent, Event, Events, EventTypes, Payloads, Carries
      <4> QED
        BY <4>1, <4>2, CarryingAppend, BirthKept
    <3> QED
      BY <3>1, <3>2
  <2> QED
    BY <2>1, <2>2, KeysKept
<1>3. ASSUME NEW r \in Runs, NEW k \in CallKeys, KeyStep(r, k), OnlyRun(r)
      PROVE  KeyInv'
  BY <1>3, CallKeysKept
<1>4. ASSUME NEW r \in Runs, NEW k \in CallKeys, NEW max \in 1..Ceiling, CreateRun(r, k, max)
      PROVE  KeyInv'
  BY <1>4, CreateKeys
<1>5. ASSUME NEW r \in Runs, NEW k \in CallKeys,
             PlannerCall(r, k) \/ WorkerCall(r, k) \/ ControlCall(r, k)
      PROVE  KeyInv'
  <2>1. OnlyRun(r)
    BY <1>5, PlannerSteps, WorkerSteps, ControlSteps
  <2> QED
    BY <1>3, <1>4, <1>5, <2>1, PlannerKeys, WorkerKeys, ControlKeys
<1> QED
  BY <1>1, <1>2, <1>5 DEF Next

\* The keys of every reachable state are those of its streams.
THEOREM KeysInductive == Spec => []KeyInv
<1>1. IInv /\ IInv' /\ HistoryInv /\ KeyInv /\ [Next]_vars => KeyInv'
  BY NextKeys
<1> QED
  BY <1>1, InitKeys, Inductive, HistoryInductive, PTL DEF Spec

\* However often a call is retried under its key, its effect is in the stream
\* once, and exactly when its operation is stored.
THEOREM EffectsOnce == Spec => []KeyedEffectOnce
<1>1. ASSUME KeyInv, NEW k \in Keys
      PROVE  /\ \A r \in Runs :
                  Cardinality({j \in DOMAIN events[r] :
                    /\ events[r][j].key = k
                    /\ events[r][j].type \notin {"RUN_CREATED", "PLANNING_STARTED",
                                                 "REVIEW_STARTED"}})
                    = IF ops[r][k] = NoOp THEN 0 ELSE 1
             /\ Cardinality({r \in Runs : events[r] # <<>> /\ events[r][1].key = k})
                  = IF ops[CreateScope][k] = NoOp THEN 0 ELSE 1
  <2>1. Cardinality({}) = 0 /\ \A x : Cardinality({x}) = 1
    BY FS_EmptySet, FS_Singleton
  <2>2. \A r \in Runs : Cardinality(Carrying(events[r], k)) = IF ops[r][k] = NoOp THEN 0 ELSE 1
    <3> SUFFICES ASSUME NEW r \in Runs
                 PROVE  Cardinality(Carrying(events[r], k)) = IF ops[r][k] = NoOp THEN 0 ELSE 1
      OBVIOUS
    <3>1. IF ops[r][k] = NoOp THEN Carrying(events[r], k) = {}
          ELSE Single(Carrying(events[r], k))
      BY <1>1 DEF KeyInv
    <3> QED
      BY <2>1, <3>1 DEF Single
  <2>3. Cardinality(CreatedWith(k)) = IF ops[CreateScope][k] = NoOp THEN 0 ELSE 1
    <3>1. IF ops[CreateScope][k] = NoOp THEN CreatedWith(k) = {} ELSE Single(CreatedWith(k))
      BY <1>1 DEF KeyInv
    <3> QED
      BY <2>1, <3>1 DEF Single
  <2> QED
    BY <2>2, <2>3 DEF Carrying, Carries, Unkeyed, CreatedWith
<1>2. KeyInv => KeyedEffectOnce
  BY <1>1 DEF KeyedEffectOnce
<1> QED
  BY <1>2, KeysInductive, PTL

-----------------------------------------------------------------------------
(* The controller implements the abstract turn loop: each committed call is   *)
(* one step of the loop or changes nothing that the loop knows.               *)

HeldOf(s) == IF s.state = "PAUSED" THEN PhaseOf(s.pausedFrom) ELSE "none"

OwnerOf(l) == IF l = NoLease THEN 0 ELSE l.token

Phases == [r \in Runs |-> PhaseOf(snap[r].state)]
Helds == [r \in Runs |-> IF snap[r].state = "PAUSED"
                         THEN PhaseOf(snap[r].pausedFrom) ELSE "none"]
Turns == [r \in Runs |-> snap[r].iteration]
Limits == [r \in Runs |-> snap[r].maxIterations]
Proofs == [r \in Runs |-> snap[r].result \in Evidenced]
Owners == [r \in Runs |-> IF lease[r] = NoLease THEN 0 ELSE lease[r].token]

\* What the loop sees of a step that changes the snapshot of one run.
LEMMA SeenSnap ==
  ASSUME NEW r \in Runs, NEW s,
         snap'[r] = s, \A q \in Runs \ {r} : snap'[q] = snap[q]
  PROVE  /\ Phases' = [Phases EXCEPT ![r] = PhaseOf(s.state)]
         /\ Helds' = [Helds EXCEPT ![r] = HeldOf(s)]
         /\ Turns' = [Turns EXCEPT ![r] = s.iteration]
         /\ Limits' = [Limits EXCEPT ![r] = s.maxIterations]
         /\ Proofs' = [Proofs EXCEPT ![r] = s.result \in Evidenced]
<1>1. Phases' = [Phases EXCEPT ![r] = PhaseOf(s.state)]
  BY DEF Phases
<1>2. Helds' = [Helds EXCEPT ![r] = HeldOf(s)]
  BY DEF Helds, HeldOf
<1>3. Turns' = [Turns EXCEPT ![r] = s.iteration]
  BY DEF Turns
<1>4. Limits' = [Limits EXCEPT ![r] = s.maxIterations]
  BY DEF Limits
<1>5. Proofs' = [Proofs EXCEPT ![r] = s.result \in Evidenced]
  BY DEF Proofs
<1> QED
  BY <1>1, <1>2, <1>3, <1>4, <1>5

\* And a change of one run's lease.
LEMMA SeenLease ==
  ASSUME NEW r \in Runs, NEW l,
         lease'[r] = l, \A q \in Runs \ {r} : lease'[q] = lease[q]
  PROVE  Owners' = [Owners EXCEPT ![r] = OwnerOf(l)]
  BY DEF Owners, OwnerOf

\* Where the loop stands for a run, in terms of the run's state.
LEMMA PhaseFacts ==
  ASSUME IInv, NEW r \in Runs
  PROVE  /\ Phases[r] = PhaseOf(snap[r].state) /\ Helds[r] = HeldOf(snap[r])
         /\ Turns[r] = snap[r].iteration /\ Limits[r] = snap[r].maxIterations
         /\ Proofs[r] <=> snap[r].result \in Evidenced
         /\ Owners[r] = OwnerOf(lease[r])
  BY DEF Phases, Helds, Turns, Limits, Proofs, Owners, HeldOf, OwnerOf

\* A step that gives run r the snapshot s and the lease l.
Changes(r, s, l) ==
  /\ snap'[r] = s /\ \A q \in Runs \ {r} : snap'[q] = snap[q]
  /\ lease'[r] = l /\ \A q \in Runs \ {r} : lease'[q] = lease[q]

SameTurn(s, t) == s.iteration = t.iteration /\ s.maxIterations = t.maxIterations

SameAnswer(s, t) == s.result = t.result

\* A field that a step leaves as it is.
LEMMA Kept ==
  ASSUME NEW r \in Runs
  PROVE  /\ [Helds EXCEPT ![r] = Helds[r]] = Helds
         /\ [Turns EXCEPT ![r] = Turns[r]] = Turns
         /\ [Limits EXCEPT ![r] = Limits[r]] = Limits
         /\ [Proofs EXCEPT ![r] = Proofs[r]] = Proofs
         /\ [Owners EXCEPT ![r] = Owners[r]] = Owners
  BY DEF Helds, Turns, Limits, Proofs, Owners

\* One lemma per action of the turn loop: when a commit is that action.
LEMMA CloseStep ==
  ASSUME IInv, NEW r \in Runs, NEW s, Changes(r, s, NoLease), issued' = issued,
         SameTurn(s, snap[r]), SameAnswer(s, snap[r]),
         s.state \in TerminalStates, snap[r].state \in ActiveStates,
         s.state = "COMPLETE" =>
           snap[r].state = "CODEX_COMPLETE" /\ snap[r].result \in Evidenced,
         s.state = "HUMAN_REQUIRED" => snap[r].state \in {"CODEX_RUNNING", "CODEX_COMPLETE"}
  PROVE  Loop!Next
<1> DEFINE o == PhaseOf(s.state)
<1>1. /\ Phases' = [Phases EXCEPT ![r] = o] /\ Helds' = [Helds EXCEPT ![r] = "none"]
      /\ Turns' = Turns /\ Limits' = Limits /\ Proofs' = Proofs
      /\ Owners' = [Owners EXCEPT ![r] = 0]
  <2>1. /\ Phases' = [Phases EXCEPT ![r] = PhaseOf(s.state)]
        /\ Helds' = [Helds EXCEPT ![r] = HeldOf(s)]
        /\ Turns' = [Turns EXCEPT ![r] = s.iteration]
        /\ Limits' = [Limits EXCEPT ![r] = s.maxIterations]
        /\ Proofs' = [Proofs EXCEPT ![r] = s.result \in Evidenced]
    BY SeenSnap DEF Changes
  <2>2. Owners' = [Owners EXCEPT ![r] = OwnerOf(NoLease)]
    BY SeenLease DEF Changes
  <2>3. HeldOf(s) = "none" /\ OwnerOf(NoLease) = 0
    BY DEF HeldOf, OwnerOf, TerminalStates
  <2>4. s.iteration = Turns[r] /\ s.maxIterations = Limits[r]
        /\ (s.result \in Evidenced) = Proofs[r]
    BY PhaseFacts DEF SameTurn, SameAnswer, Proofs
  <2> QED
    BY <2>1, <2>2, <2>3, <2>4, Kept
<1>2. /\ Phases[r] \in {"planning", "offered", "answered", "owned", "held"}
      /\ o = "accepted" => Phases[r] = "answered" /\ Proofs[r]
      /\ o = "escalated" => Phases[r] \in {"owned", "answered"}
      /\ o \in {"escalated", "failed", "stopped", "accepted"}
  <2>1. Phases[r] = PhaseOf(snap[r].state) /\ (Proofs[r] <=> snap[r].result \in Evidenced)
    BY PhaseFacts
  <2>2. snap[r].state \in {"PLANNING", "READY_FOR_CODEX", "CODEX_RUNNING", "CODEX_COMPLETE",
                           "PAUSED"}
    BY DEF IInv, NoRestingReview, ActiveStates, TerminalStates, RunStates
  <2>3. s.state \in {"HUMAN_REQUIRED", "FAILED", "COMPLETE", "STOPPED"}
    BY DEF TerminalStates
  <2> QED
    BY <2>1, <2>2, <2>3 DEF PhaseOf
<1> HIDE DEF o
<1>3. Loop!Close(r, o)
  BY <1>1, <1>2
  DEF Loop!Close, Loop!Moves, Loop!Disowns, Loop!Resumable,
      Phases, Helds, Turns, Limits, Proofs, Owners
<1> QED
  BY <1>2, <1>3 DEF Loop!Next, Loop!Closed

\* What the loop sees of such a step.
LEMMA Seen ==
  ASSUME NEW r \in Runs, NEW s, NEW l, Changes(r, s, l)
  PROVE  /\ Phases' = [Phases EXCEPT ![r] = PhaseOf(s.state)]
         /\ Helds' = [Helds EXCEPT ![r] = HeldOf(s)]
         /\ Turns' = [Turns EXCEPT ![r] = s.iteration]
         /\ Limits' = [Limits EXCEPT ![r] = s.maxIterations]
         /\ Proofs' = [Proofs EXCEPT ![r] = s.result \in Evidenced]
         /\ Owners' = [Owners EXCEPT ![r] = OwnerOf(l)]
  BY SeenSnap, SeenLease DEF Changes

LEMMA OpenStep ==
  ASSUME IInv, NEW r \in Runs, NEW s, Changes(r, s, lease[r]), issued' = issued,
         snap[r] = Absent, s.state = "PLANNING", s.iteration = 0, s.result = None,
         s.maxIterations \in Nat \ {0}
  PROVE  Loop!Next
<1>1. /\ Phases[r] = "unborn" /\ Helds[r] = "none" /\ Turns[r] = 0 /\ Proofs[r] = FALSE
      /\ Owners[r] = OwnerOf(lease[r])
  <2>1. Absent.state = "ABSENT" /\ Absent.iteration = 0 /\ Absent.result = None
    BY DEF Absent
  <2>2. None \notin Evidenced
    BY EvidencedAssumption, NoneAssumption
  <2> QED
    BY <2>1, <2>2, PhaseFacts DEF PhaseOf, HeldOf, Proofs
<1>2. /\ PhaseOf(s.state) = "planning" /\ HeldOf(s) = "none"
      /\ (s.result \in Evidenced) = FALSE
  BY EvidencedAssumption, NoneAssumption DEF PhaseOf, HeldOf
<1>3. /\ Phases' = [Phases EXCEPT ![r] = "planning"] /\ Helds' = Helds /\ Turns' = Turns
      /\ Limits' = [Limits EXCEPT ![r] = s.maxIterations] /\ Proofs' = Proofs
      /\ Owners' = Owners
  <2>1. Proofs' = [Proofs EXCEPT ![r] = s.result \in Evidenced]
    BY Seen
  <2>2. Proofs' = [Proofs EXCEPT ![r] = FALSE]
    BY <1>2, <2>1, Zenon
  <2>3. Proofs' = Proofs
    BY <1>1, <2>2, Kept, Zenon
  <2> QED
    BY <1>1, <1>2, <2>3, Seen, Kept
<1>4. Limits'[r] = s.maxIterations
  BY DEF Limits, Changes
<1>5. Loop!Open(r)
  BY <1>1, <1>3, <1>4
  DEF Loop!Open, Loop!Moves, Phases, Helds, Turns, Limits, Proofs, Owners
<1> QED
  BY <1>5 DEF Loop!Next

LEMMA OfferStep ==
  ASSUME IInv, NEW r \in Runs, NEW s, Changes(r, s, lease[r]), issued' = issued,
         snap[r].state \in {"PLANNING", "CODEX_COMPLETE"},
         snap[r].iteration < snap[r].maxIterations,
         s.state = "READY_FOR_CODEX", s.iteration = snap[r].iteration + 1,
         s.maxIterations = snap[r].maxIterations, s.result = None
  PROVE  Loop!Next
<1>1. /\ Phases[r] \in {"planning", "answered"} /\ Helds[r] = "none"
      /\ Turns[r] < Limits[r] /\ Turns[r] = snap[r].iteration
      /\ Limits[r] = snap[r].maxIterations /\ Owners[r] = OwnerOf(lease[r])
  BY PhaseFacts DEF PhaseOf, HeldOf
<1>2. /\ PhaseOf(s.state) = "offered" /\ HeldOf(s) = "none"
      /\ (s.result \in Evidenced) = FALSE
  BY EvidencedAssumption, NoneAssumption DEF PhaseOf, HeldOf
<1>3. /\ Phases' = [Phases EXCEPT ![r] = "offered"] /\ Helds' = Helds
      /\ Turns' = [Turns EXCEPT ![r] = Turns[r] + 1] /\ Limits' = Limits
      /\ Proofs' = [Proofs EXCEPT ![r] = FALSE] /\ Owners' = Owners
  <2>1. Proofs' = [Proofs EXCEPT ![r] = s.result \in Evidenced]
    BY Seen
  <2>2. Proofs' = [Proofs EXCEPT ![r] = FALSE]
    BY <1>2, <2>1, Zenon
  <2> QED
    <3>1. Phases' = [Phases EXCEPT ![r] = "offered"] /\ Helds' = Helds
      BY <1>1, <1>2, Seen, Kept
    <3>2. Turns' = [Turns EXCEPT ![r] = Turns[r] + 1] /\ Limits' = Limits
      BY <1>1, Seen, Kept
    <3>3. Owners' = Owners
      BY <1>1, Seen, Kept
    <3> QED
      BY <2>2, <3>1, <3>2, <3>3
<1>4. Loop!Offer(r)
  BY <1>1, <1>3 DEF Loop!Offer, Loop!Moves, Phases, Helds, Turns, Limits, Proofs, Owners
<1> QED
  BY <1>4 DEF Loop!Next

LEMMA ClaimStep ==
  ASSUME IInv, NEW r \in Runs, NEW s, NEW l, Changes(r, s, l),
         l # NoLease, l.token = Len(issued) + 1, Len(issued') = Len(issued) + 1,
         snap[r].state \in {"READY_FOR_CODEX", "CODEX_RUNNING"},
         s.state = "CODEX_RUNNING", SameTurn(s, snap[r]), SameAnswer(s, snap[r])
  PROVE  Loop!Next
<1>1. /\ Phases[r] \in {"offered", "owned"} /\ Helds[r] = "none"
      /\ Turns[r] = snap[r].iteration /\ Limits[r] = snap[r].maxIterations
      /\ Proofs[r] = (snap[r].result \in Evidenced)
  BY PhaseFacts DEF PhaseOf, HeldOf, Proofs
<1>2. /\ PhaseOf(s.state) = "owned" /\ HeldOf(s) = "none" /\ OwnerOf(l) = Len(issued) + 1
  BY DEF PhaseOf, HeldOf, OwnerOf
<1>3. /\ Phases' = [Phases EXCEPT ![r] = "owned"] /\ Helds' = Helds /\ Turns' = Turns
      /\ Limits' = Limits /\ Proofs' = Proofs
      /\ Owners' = [Owners EXCEPT ![r] = Len(issued) + 1]
  BY <1>1, <1>2, Seen, Kept DEF SameTurn, SameAnswer
<1>4. Loop!Claim(r)
  BY <1>1, <1>3 DEF Loop!Claim, Loop!Moves, Phases, Helds, Turns, Limits, Proofs, Owners
<1> QED
  BY <1>4 DEF Loop!Next

LEMMA AnswerStep ==
  ASSUME IInv, NEW r \in Runs, NEW s, Changes(r, s, NoLease), issued' = issued,
         snap[r].state = "CODEX_RUNNING", s.state = "CODEX_COMPLETE", SameTurn(s, snap[r])
  PROVE  Loop!Next
<1>1. /\ Phases[r] = "owned" /\ Helds[r] = "none"
      /\ Turns[r] = snap[r].iteration /\ Limits[r] = snap[r].maxIterations
  BY PhaseFacts DEF PhaseOf, HeldOf
<1>2. PhaseOf(s.state) = "answered" /\ HeldOf(s) = "none" /\ OwnerOf(NoLease) = 0
  BY DEF PhaseOf, HeldOf, OwnerOf
<1>3. /\ Phases' = [Phases EXCEPT ![r] = "answered"] /\ Helds' = Helds /\ Turns' = Turns
      /\ Limits' = Limits /\ Proofs' = [Proofs EXCEPT ![r] = s.result \in Evidenced]
      /\ Owners' = [Owners EXCEPT ![r] = 0]
  BY <1>1, <1>2, Seen, Kept DEF SameTurn
<1>4. (s.result \in Evidenced) \in BOOLEAN
  OBVIOUS
<1>5. \E good \in BOOLEAN : Proofs' = [Proofs EXCEPT ![r] = good]
  BY <1>3, <1>4
<1>6. Loop!Answer(r)
  BY <1>1, <1>3, <1>5
  DEF Loop!Answer, Loop!Moves, Loop!Disowns, Phases, Helds, Turns, Limits, Proofs, Owners
<1> QED
  BY <1>6 DEF Loop!Next

LEMMA HoldStep ==
  ASSUME IInv, NEW r \in Runs, NEW s, Changes(r, s, NoLease), issued' = issued,
         snap[r].state \in ActiveStates \ {"PAUSED"},
         s.state = "PAUSED", s.pausedFrom = ResumeState(snap[r]),
         SameTurn(s, snap[r]), SameAnswer(s, snap[r])
  PROVE  Loop!Next
<1>1. /\ Phases[r] \in {"planning", "offered", "answered", "owned"}
      /\ HeldOf(s) = IF Phases[r] = "owned" THEN "offered" ELSE Phases[r]
  <2>1. snap[r].state \in {"PLANNING", "READY_FOR_CODEX", "CODEX_RUNNING", "CODEX_COMPLETE"}
    BY DEF IInv, NoRestingReview, ActiveStates, TerminalStates, RunStates
  <2> QED
    BY <2>1, PhaseFacts DEF PhaseOf, HeldOf, ResumeState
<1>2. /\ PhaseOf(s.state) = "held" /\ OwnerOf(NoLease) = 0
  BY DEF PhaseOf, OwnerOf
<1>3. /\ Turns[r] = snap[r].iteration /\ Limits[r] = snap[r].maxIterations
      /\ Proofs[r] = (snap[r].result \in Evidenced)
  BY PhaseFacts DEF Proofs
<1>4. /\ Phases' = [Phases EXCEPT ![r] = "held"]
      /\ Helds' = [Helds EXCEPT ![r] = IF Phases[r] = "owned" THEN "offered" ELSE Phases[r]]
      /\ Turns' = Turns /\ Limits' = Limits /\ Proofs' = Proofs
      /\ Owners' = [Owners EXCEPT ![r] = 0]
  BY <1>1, <1>2, <1>3, Seen, Kept DEF SameTurn, SameAnswer
<1>5. Loop!Hold(r)
  BY <1>1, <1>4
  DEF Loop!Hold, Loop!Moves, Loop!Disowns, Loop!Resumable,
      Phases, Helds, Turns, Limits, Proofs, Owners
<1> QED
  BY <1>5 DEF Loop!Next

LEMMA ResumeStep ==
  ASSUME IInv, NEW r \in Runs, NEW s, Changes(r, s, lease[r]), issued' = issued,
         snap[r].state = "PAUSED", s.state = snap[r].pausedFrom, s.state # "PAUSED",
         SameTurn(s, snap[r]), SameAnswer(s, snap[r])
  PROVE  Loop!Next
<1>1. /\ Phases[r] = "held" /\ Helds[r] = PhaseOf(s.state) /\ HeldOf(s) = "none"
  BY PhaseFacts DEF PhaseOf, HeldOf
<1>2. /\ Turns[r] = snap[r].iteration /\ Limits[r] = snap[r].maxIterations
      /\ Proofs[r] = (snap[r].result \in Evidenced) /\ Owners[r] = OwnerOf(lease[r])
  BY PhaseFacts DEF Proofs
<1>3. /\ Phases' = [Phases EXCEPT ![r] = Helds[r]] /\ Helds' = [Helds EXCEPT ![r] = "none"]
      /\ Turns' = Turns /\ Limits' = Limits /\ Proofs' = Proofs /\ Owners' = Owners
  BY <1>1, <1>2, Seen, Kept DEF SameTurn, SameAnswer
<1>4. Loop!Resume(r)
  BY <1>1, <1>3 DEF Loop!Resume, Loop!Moves, Phases, Helds, Turns, Limits, Proofs, Owners
<1> QED
  BY <1>4 DEF Loop!Next

LEMMA RevokeStep ==
  ASSUME IInv, RecoverExpiredLeases
  PROVE  Loop!Next
<1>0. PICK gone \in SUBSET Runs : gone = {r \in Runs : LeaseExpired(r)}
  OBVIOUS
<1>1. gone # {} /\ issued' = issued
  BY <1>0 DEF RecoverExpiredLeases
<1>2. ASSUME NEW r \in gone
      PROVE  /\ snap'[r] = [snap[r] EXCEPT !.state = "READY_FOR_CODEX"]
             /\ lease'[r] = NoLease /\ snap[r].state = "CODEX_RUNNING"
  BY <1>0, ExpiryAccepted DEF RecoverExpiredLeases, LeaseExpired, IInv
<1>3. ASSUME NEW r \in Runs, r \notin gone
      PROVE  snap'[r] = snap[r] /\ lease'[r] = lease[r]
  BY <1>0, <1>3 DEF RecoverExpiredLeases
<1>4. gone \subseteq Runs
  BY <1>0
<1>5. ASSUME NEW r \in gone
      PROVE  /\ snap'[r].state = "READY_FOR_CODEX"
             /\ snap'[r].iteration = snap[r].iteration
             /\ snap'[r].maxIterations = snap[r].maxIterations
             /\ snap'[r].result = snap[r].result
  <2>1. snap[r] \in Snapshots
    BY <1>4 DEF IInv, TypeOK
  <2> QED
    BY <1>2, <2>1 DEF Snapshots
<1>6. \A r \in gone : Phases[r] = "owned"
  BY <1>2, <1>4, PhaseFacts DEF PhaseOf
<1>7. Phases' = [r \in Runs |-> IF r \in gone THEN "offered" ELSE Phases[r]]
  BY <1>3, <1>5 DEF Phases, PhaseOf
<1>8. Owners' = [r \in Runs |-> IF r \in gone THEN 0 ELSE Owners[r]]
  BY <1>2, <1>3 DEF Owners
<1>9. Turns' = Turns /\ Limits' = Limits
  BY <1>3, <1>5 DEF Turns, Limits
<1>10. Proofs' = Proofs
  BY <1>3, <1>5 DEF Proofs
<1>11. Helds' = Helds
  <2>1. ASSUME NEW r \in Runs PROVE HeldOf(snap'[r]) = HeldOf(snap[r])
    BY <1>2, <1>3, <1>5 DEF HeldOf
  <2>2. [r \in Runs |-> HeldOf(snap'[r])] = [r \in Runs |-> HeldOf(snap[r])]
    BY <2>1
  <2> QED
    BY <2>2 DEF Helds, HeldOf
<1>12. Loop!Revoke(gone)
  BY <1>1, <1>6, <1>7, <1>8, <1>9, <1>10, <1>11
  DEF Loop!Revoke, Phases, Helds, Turns, Limits, Proofs, Owners
<1> QED
  BY <1>0, <1>12 DEF Loop!Next

\* Reviewing a result moves the state and nothing the loop sees.
LEMMA ReviewedFacts ==
  ASSUME IInv, NEW r \in Runs
  PROVE  /\ snap[r] \in Snapshots /\ Reviewed(r) \in Snapshots
         /\ SameTurn(Reviewed(r), snap[r]) /\ SameAnswer(Reviewed(r), snap[r])
         /\ Reviewed(r).state = IF snap[r].state = "CODEX_COMPLETE" THEN "REVIEWING"
                                ELSE snap[r].state
         /\ snap[r].state \notin {"NEW", "REVIEWING", "REJECTED"}
<1>1. snap[r] \in Snapshots /\ Reviewed(r) \in Snapshots
  BY SnapFacts
<1>2. /\ SameTurn(Reviewed(r), snap[r]) /\ SameAnswer(Reviewed(r), snap[r])
      /\ Reviewed(r).state = IF snap[r].state = "CODEX_COMPLETE" THEN "REVIEWING"
                             ELSE snap[r].state
  BY <1>1 DEF Reviewed, SameTurn, SameAnswer, Snapshots
<1> QED
  BY <1>1, <1>2 DEF IInv, NoRestingReview

LEMMA CommitChanges ==
  ASSUME TypeOK, NEW r \in Runs, NEW s, NEW evs, NEW l, Commit(r, s, evs),
         lease'[r] = l, \A q \in Runs \ {r} : lease'[q] = lease[q]
  PROVE  Changes(r, s, l)
  BY DEF TypeOK, Commit, Changes

\* One event that ends the run: what is kept, whatever state it ends in.
LEMMA EndingEvent ==
  ASSUME NEW s \in Snapshots, NEW k \in CallKeys,
         NEW type \in {"HUMAN_REQUESTED", "FAILED", "STOPPED", "COMPLETED"}
  PROVE  LET n == ApplyEvent(s, Event(type, k, None))
         IN  /\ SameTurn(n, s) /\ SameAnswer(n, s)
             /\ type = "HUMAN_REQUESTED" => n.state = "HUMAN_REQUIRED"
             /\ type = "FAILED" => n.state = "FAILED"
             /\ type = "STOPPED" => n.state = "STOPPED"
             /\ type = "COMPLETED" => n.state = "COMPLETE"
<1> DEFINE e == Event(type, k, None)
<1>1. WellFormed(e) /\ e.type = type
  BY PlainEventWellFormed DEF EventTypes, Payloads, Event
<1> HIDE DEF e
<1>2. LET n == ApplyEvent(s, e)
      IN  /\ SameTurn(n, s) /\ SameAnswer(n, s)
          /\ type = "HUMAN_REQUESTED" => n.state = "HUMAN_REQUIRED"
          /\ type = "FAILED" => n.state = "FAILED"
          /\ type = "STOPPED" => n.state = "STOPPED"
          /\ type = "COMPLETED" => n.state = "COMPLETE"
  BY <1>1, AppliedFields DEF SameTurn, SameAnswer
<1> QED
  BY <1>2 DEF e

\* A call that ends its run.
LEMMA EndingCall ==
  ASSUME IInv, NEW r \in Runs, NEW k \in CallKeys, NEW evs, NEW t \in Snapshots,
         NEW type \in {"HUMAN_REQUESTED", "FAILED", "STOPPED", "COMPLETED"},
         SameTurn(t, snap[r]), SameAnswer(t, snap[r]),
         Commit(r, ApplyEvent(t, Event(type, k, None)), evs), issued' = issued,
         snap[r].state \in ActiveStates,
         DeleteLease(r) \/ (UNCHANGED lease /\ snap[r].state # "CODEX_RUNNING"),
         type = "COMPLETED" =>
           snap[r].state = "CODEX_COMPLETE" /\ snap[r].result \in Evidenced,
         type = "HUMAN_REQUESTED" => snap[r].state \in {"CODEX_RUNNING", "CODEX_COMPLETE"}
  PROVE  Loop!Next
<1> DEFINE n == ApplyEvent(t, Event(type, k, None))
<1>1. lease'[r] = NoLease /\ \A q \in Runs \ {r} : lease'[q] = lease[q]
  BY DeletedLease DEF IInv, LeaseMatchesTurn
<1>2. Changes(r, n, NoLease)
  BY <1>1, CommitChanges DEF IInv
<1>3. /\ SameTurn(n, t) /\ SameAnswer(n, t)
      /\ type = "HUMAN_REQUESTED" => n.state = "HUMAN_REQUIRED"
      /\ type = "FAILED" => n.state = "FAILED"
      /\ type = "STOPPED" => n.state = "STOPPED"
      /\ type = "COMPLETED" => n.state = "COMPLETE"
  BY EndingEvent
<1> HIDE DEF n
<1>4. SameTurn(n, snap[r]) /\ SameAnswer(n, snap[r]) /\ n.state \in TerminalStates
  BY <1>3 DEF SameTurn, SameAnswer, TerminalStates
<1>5. /\ n.state = "COMPLETE" => type = "COMPLETED"
      /\ n.state = "HUMAN_REQUIRED" => type = "HUMAN_REQUESTED"
  BY <1>3
<1> QED
  BY <1>2, <1>4, <1>5, CloseStep

\* Every call is a step of the loop, or no step for it, role by role.
LEMMA PlannerLoop ==
  ASSUME IInv, NEW r \in Runs, NEW k \in CallKeys, PlannerCall(r, k)
  PROVE  Loop!Next
<1> DEFINE t == Reviewed(r)
<1>1. /\ snap[r] \in Snapshots /\ t \in Snapshots /\ SameTurn(t, snap[r])
      /\ SameAnswer(t, snap[r])
      /\ t.state = IF snap[r].state = "CODEX_COMPLETE" THEN "REVIEWING" ELSE snap[r].state
      /\ snap[r].state \notin {"NEW", "REVIEWING", "REJECTED"}
  BY ReviewedFacts
<1>2. ASSUME NEW e, ReviewAndAppend(r, k, e)
      PROVE  Commit(r, ApplyEvent(t, e), ReviewPrefix(r, k) \o <<e>>)
  BY <1>2 DEF ReviewAndAppend
<1>3. ASSUME NEW i \in Instructions, SubmitInstruction(r, k, i) PROVE Loop!Next
  <2>1. snap[r].state \in {"PLANNING", "CODEX_COMPLETE"} /\ UNCHANGED lease /\ issued' = issued
    BY <1>1, <1>3 DEF SubmitInstruction
  <2>2. CASE t.iteration >= t.maxIterations
    <3>1. ReviewAndAppend(r, k, Event("FAILED", k, None))
      BY <1>3, <2>2 DEF SubmitInstruction
    <3>2. snap[r].state \in ActiveStates /\ snap[r].state # "CODEX_RUNNING"
      BY <2>1 DEF ActiveStates, RunStates, TerminalStates
    <3> HIDE DEF t
    <3> QED
      BY <1>1, <1>2, <2>1, <3>1, <3>2, EndingCall
  <2>3. CASE ~(t.iteration >= t.maxIterations)
    <3> DEFINE e == Event("INSTRUCTION_SUBMITTED", k, i)
               n == ApplyEvent(t, e)
    <3>1. ReviewAndAppend(r, k, e)
      BY <1>3, <2>3 DEF SubmitInstruction
    <3>2. WellFormed(e) /\ e.type = "INSTRUCTION_SUBMITTED"
      BY DEF WellFormed, Event, Events, EventTypes, CallKeys, Payloads
    <3> HIDE DEF e
    <3>3. /\ n.state = "READY_FOR_CODEX" /\ n.iteration = t.iteration + 1
          /\ n.maxIterations = t.maxIterations /\ n.result = None
      BY <1>1, <3>2, AppliedFields
    <3>4. Changes(r, n, lease[r])
      BY <1>2, <2>1, <3>1, CommitChanges DEF IInv
    <3>5. /\ t.iteration = snap[r].iteration /\ t.maxIterations = snap[r].maxIterations
          /\ t.iteration \in Nat /\ t.maxIterations \in Nat
      BY <1>1 DEF SameTurn, Snapshots
    <3> HIDE DEF n, t
    <3>6. snap[r].iteration < snap[r].maxIterations
      BY <2>3, <3>5
    <3> QED
      BY <2>1, <3>3, <3>4, <3>5, <3>6, OfferStep
  <2> QED
    BY <2>2, <2>3
<1>4. ASSUME RequestHuman(r, k) PROVE Loop!Next
  <2>1. /\ snap[r].state \in {"CODEX_RUNNING", "CODEX_COMPLETE"} /\ issued' = issued
        /\ DeleteLease(r) \/ (UNCHANGED lease /\ snap[r].state # "CODEX_RUNNING")
        /\ ReviewAndAppend(r, k, Event("HUMAN_REQUESTED", k, None))
    BY <1>1, <1>4 DEF RequestHuman
  <2>2. snap[r].state \in ActiveStates
    BY <2>1 DEF ActiveStates, RunStates, TerminalStates
  <2> HIDE DEF t
  <2> QED
    BY <1>1, <1>2, <2>1, <2>2, EndingCall
<1>5. ASSUME CompleteRun(r, k) PROVE Loop!Next
  <2>1. /\ snap[r].state = "CODEX_COMPLETE" /\ issued' = issued /\ UNCHANGED lease
        /\ ReviewAndAppend(r, k, Event("COMPLETED", k, None))
        /\ snap[r].result \in Evidenced
    BY <1>1, <1>5 DEF CompleteRun, HasEvidence, SameAnswer
  <2>2. snap[r].state \in ActiveStates
    BY <2>1 DEF ActiveStates, RunStates, TerminalStates
  <2> HIDE DEF t
  <2> QED
    BY <1>1, <1>2, <2>1, <2>2, EndingCall
<1> QED
  BY <1>3, <1>4, <1>5 DEF PlannerCall

\* What the loop does not see.
LEMMA Stutters ==
  ASSUME snap' = snap, issued' = issued,
         \A r \in Runs : OwnerOf(lease'[r]) = OwnerOf(lease[r])
  PROVE  UNCHANGED Loop!loopVars
<1>1. Owners' = Owners
  <2>1. [r \in Runs |-> OwnerOf(lease'[r])] = [r \in Runs |-> OwnerOf(lease[r])]
    OBVIOUS
  <2> QED
    BY <2>1 DEF Owners, OwnerOf
<1>2. /\ Phases' = Phases /\ Helds' = Helds /\ Turns' = Turns
      /\ Limits' = Limits /\ Proofs' = Proofs
  BY DEF Phases, Helds, Turns, Limits, Proofs
<1> QED
  BY <1>1, <1>2 DEF Loop!loopVars, Phases, Helds, Turns, Limits, Proofs, Owners

LEMMA ClaimLoop ==
  ASSUME IInv, NEW r \in Runs, NEW k \in CallKeys, NEW w \in Workers, NEW d \in Durations,
         ClaimTurn(r, k, w, d)
  PROVE  Loop!Next
<1>1. TypeOK /\ snap[r] \in Snapshots
  BY DEF IInv, TypeOK
<1> DEFINE u == IF LeaseExpired(r) THEN ApplyEvent(snap[r], ExpiryEvent) ELSE snap[r]
           e == Event("TURN_CLAIMED", k, w)
           n == ApplyEvent(u, e)
           l == [worker |-> w, token |-> Len(issued) + 1, ttl |-> d]
           c == [run |-> r, worker |-> w, instruction |-> u.instruction]
<1>2. /\ u \in Snapshots /\ SameTurn(u, snap[r]) /\ SameAnswer(u, snap[r])
      /\ snap[r].state \in {"READY_FOR_CODEX", "CODEX_RUNNING"}
  <2>1. CASE LeaseExpired(r)
    <3>1. ApplyEvent(snap[r], ExpiryEvent) = [snap[r] EXCEPT !.state = "READY_FOR_CODEX"]
      BY <1>1, <2>1, ExpiryAccepted
    <3> QED
      BY <1>1, <2>1, <3>1 DEF LeaseExpired, Snapshots, SameTurn, SameAnswer, RunStates
  <2>2. CASE ~LeaseExpired(r)
    BY <1>1, <2>2 DEF ClaimTurn, SameTurn, SameAnswer
  <2> QED
    BY <2>1, <2>2
<1>3. /\ \E evs : Commit(r, n, evs)
      /\ lease' = [lease EXCEPT ![r] = l] /\ issued' = Append(issued, c)
  BY DEF ClaimTurn
<1>4. l # NoLease
  <2>1. l \in Leases
    <3>1. Len(issued) + 1 \in Tokens /\ d \in Nat
      BY <1>1, BoundsAssumption DEF TypeOK, Tokens
    <3> QED
      BY <3>1 DEF Leases
  <2> QED
    BY <2>1, NoLeaseAssumption
<1>5. l.token = Len(issued) + 1
  OBVIOUS
<1>6. Len(issued') = Len(issued) + 1
  <2>1. issued \in Seq(Claims)
    BY <1>1 DEF TypeOK
  <2> HIDE DEF c
  <2> QED
    BY <1>3, <2>1
<1>7. WellFormed(e) /\ e.type = "TURN_CLAIMED"
  BY PlainEventWellFormed DEF EventTypes, Payloads, Event
<1> HIDE DEF u, e, l, c
<1>8. n.state = "CODEX_RUNNING" /\ SameTurn(n, snap[r]) /\ SameAnswer(n, snap[r])
  BY <1>2, <1>7, AppliedFields DEF SameTurn, SameAnswer
<1>9. lease'[r] = l /\ \A q \in Runs \ {r} : lease'[q] = lease[q]
  BY <1>1, <1>3 DEF TypeOK
<1>10. Changes(r, n, l)
  BY <1>1, <1>3, <1>9, CommitChanges
<1> HIDE DEF n
<1> QED
  BY <1>2, <1>4, <1>5, <1>6, <1>8, <1>10, ClaimStep

LEMMA WorkerLoop ==
  ASSUME IInv, NEW r \in Runs, NEW k \in CallKeys, WorkerCall(r, k)
  PROVE  Loop!Next \/ UNCHANGED Loop!loopVars
<1>1. TypeOK /\ snap[r] \in Snapshots /\ SameTurn(snap[r], snap[r]) /\ SameAnswer(snap[r], snap[r])
  BY DEF IInv, TypeOK, SameTurn, SameAnswer
<1>2. ASSUME NEW w \in Workers, NEW t \in DOMAIN issued, NEW x \in Results,
             SubmitResult(r, k, w, t, x)
      PROVE  Loop!Next
  <2> DEFINE e == Event("RESULT_SUBMITTED", k, x)
             n == ApplyEvent(snap[r], e)
  <2>1. WellFormed(e) /\ e.type = "RESULT_SUBMITTED"
    BY DEF WellFormed, Event, Events, EventTypes, CallKeys, Payloads
  <2>2. /\ Commit(r, n, <<e>>) /\ DeleteLease(r) /\ issued' = issued
        /\ snap[r].state = "CODEX_RUNNING"
    BY <1>2 DEF SubmitResult, AppendAndSync
  <2> HIDE DEF e
  <2>3. n.state = "CODEX_COMPLETE" /\ SameTurn(n, snap[r])
    BY <1>1, <2>1, AppliedFields DEF SameTurn
  <2>4. Changes(r, n, NoLease)
    BY <1>1, <2>2, DeletedLease, CommitChanges
  <2> HIDE DEF n
  <2> QED
    BY <2>2, <2>3, <2>4, AnswerStep
<1>3. ASSUME NEW w \in Workers, NEW t \in DOMAIN issued, ReportProgress(r, k, w, t)
      PROVE  UNCHANGED Loop!loopVars
  <2>1. ApplyEvent(snap[r], Event("PROGRESS_REPORTED", k, None)) = snap[r]
    BY <1>1, ApplyEventEffect
  <2>2. snap' = snap
    BY <1>1, <1>3, <2>1 DEF ReportProgress, AppendAndSync, Commit, TypeOK
  <2> QED
    BY <1>3, <2>2, Stutters DEF ReportProgress
<1>4. ASSUME NEW w \in Workers, NEW t \in DOMAIN issued, ReportBlocker(r, k, w, t)
      PROVE  Loop!Next
  <2>1. /\ Commit(r, ApplyEvent(snap[r], Event("HUMAN_REQUESTED", k, None)),
                  <<Event("HUMAN_REQUESTED", k, None)>>)
        /\ DeleteLease(r) /\ issued' = issued /\ lease[r] # NoLease
    BY <1>4 DEF ReportBlocker, AppendAndSync, AssertLease
  <2>2. snap[r].state = "CODEX_RUNNING" /\ snap[r].state \in ActiveStates
    BY <2>1 DEF IInv, LeaseMatchesTurn, ActiveStates, RunStates, TerminalStates
  <2> QED
    BY <1>1, <2>1, <2>2, EndingCall
<1> QED
  BY <1>2, <1>3, <1>4, ClaimLoop DEF WorkerCall

LEMMA ControlLoop ==
  ASSUME IInv, NEW r \in Runs, NEW k \in CallKeys, ControlCall(r, k)
  PROVE  Loop!Next
<1>1. TypeOK /\ snap[r] \in Snapshots /\ SameTurn(snap[r], snap[r]) /\ SameAnswer(snap[r], snap[r])
  BY DEF IInv, TypeOK, SameTurn, SameAnswer
<1>2. ASSUME NEW max \in 1..Ceiling, CreateRun(r, k, max) PROVE Loop!Next
  <2> DEFINE e == RunCreated(k, max)
             f == Event("PLANNING_STARTED", k, None)
             u == ApplyEvent(Absent, e)
             n == ApplyEvent(u, f)
  <2>1. /\ snap[r] = Absent /\ Commit(r, n, <<e, f>>) /\ lease' = lease /\ issued' = issued
    BY <1>2 DEF CreateRun
  <2>2. n.state = "PLANNING" /\ n.iteration = 0 /\ n.result = None /\ n.maxIterations = max
    BY DEF ApplyEvent, RunCreated, Event, Absent
  <2>3. max \in Nat \ {0}
    BY BoundsAssumption
  <2> HIDE DEF n
  <2>4. Changes(r, n, lease[r])
    BY <1>1, <2>1, CommitChanges
  <2> QED
    BY <2>1, <2>2, <2>3, <2>4, OpenStep
<1>3. ASSUME PauseRun(r, k) PROVE Loop!Next
  <2> DEFINE e == Event("PAUSED", k, ResumeState(snap[r]))
             n == ApplyEvent(snap[r], e)
  <2>1. /\ Legal(snap[r], e) /\ Commit(r, n, <<e>>) /\ issued' = issued
        /\ DeleteLease(r) \/ (UNCHANGED lease /\ snap[r].state # "CODEX_RUNNING")
    BY <1>3 DEF PauseRun, AppendAndSync
  <2>2. e.type = "PAUSED" /\ e.arg = ResumeState(snap[r])
    BY DEF Event
  <2>3. snap[r].state \in ActiveStates \ {"PAUSED"}
    BY <2>1, <2>2 DEF Legal, LegalFrom
  <2>4. WellFormed(e)
    <3>1. ResumeState(snap[r]) \in RunStates
      BY <2>3 DEF ResumeState, ActiveStates, RunStates
    <3> QED
      BY <3>1 DEF WellFormed, Event, Events, EventTypes, CallKeys, Payloads
  <2> HIDE DEF e
  <2>5. n.state = "PAUSED" /\ n.pausedFrom = ResumeState(snap[r])
        /\ SameTurn(n, snap[r]) /\ SameAnswer(n, snap[r])
    BY <1>1, <2>2, <2>4, AppliedFields DEF SameTurn, SameAnswer
  <2>6. lease'[r] = NoLease /\ \A q \in Runs \ {r} : lease'[q] = lease[q]
    BY <1>1, <2>1, DeletedLease DEF IInv, LeaseMatchesTurn
  <2>7. Changes(r, n, NoLease)
    BY <1>1, <2>1, <2>6, CommitChanges
  <2> HIDE DEF n
  <2> QED
    BY <2>1, <2>3, <2>5, <2>7, HoldStep
<1>4. ASSUME ResumeRun(r, k) PROVE Loop!Next
  <2> DEFINE e == Event("RESUMED", k, None)
             n == ApplyEvent(snap[r], e)
  <2>1. /\ Commit(r, n, <<e>>) /\ issued' = issued /\ UNCHANGED lease
        /\ snap[r].state = "PAUSED" /\ Legal(snap[r], e)
    BY <1>4 DEF ResumeRun, AppendAndSync
  <2>2. WellFormed(e) /\ e.type = "RESUMED"
    BY PlainEventWellFormed DEF EventTypes, Payloads, Event
  <2> HIDE DEF e
  <2>3. n.state = snap[r].pausedFrom /\ SameTurn(n, snap[r]) /\ SameAnswer(n, snap[r])
    BY <1>1, <2>2, AppliedFields DEF SameTurn, SameAnswer
  <2>4. Changes(r, n, lease[r])
    BY <1>1, <2>1, CommitChanges
  <2>5. n.state # "PAUSED"
    <3>1. snap[r].pausedFrom # "PAUSED"
      BY <2>1, <2>2 DEF Legal, IInv, NoRestingReview
    <3> QED
      BY <2>3, <3>1
  <2> HIDE DEF n
  <2> QED
    BY <2>1, <2>3, <2>4, <2>5, ResumeStep
<1>5. ASSUME NEW type \in {"STOPPED", "FAILED"}, DeleteLease(r), issued' = issued,
             AppendAndSync(r, Event(type, k, None))
      PROVE  Loop!Next
  <2>1. Commit(r, ApplyEvent(snap[r], Event(type, k, None)), <<Event(type, k, None)>>)
    BY <1>5 DEF AppendAndSync
  <2>2. snap[r].state \in ActiveStates
    BY <1>5 DEF AppendAndSync, Legal, LegalFrom, Event
  <2> QED
    BY <1>1, <1>5, <2>1, <2>2, EndingCall
<1> QED
  BY <1>2, <1>3, <1>4, <1>5 DEF ControlCall, StopRun, FailRun

LEMMA TickLoop ==
  ASSUME IInv, Tick
  PROVE  UNCHANGED Loop!loopVars
<1>1. snap' = snap /\ issued' = issued
  BY DEF Tick
<1>2. ASSUME NEW r \in Runs PROVE OwnerOf(lease'[r]) = OwnerOf(lease[r])
  <2>1. CASE lease[r] = NoLease
    BY <2>1 DEF Tick
  <2>2. CASE lease[r] # NoLease
    <3>1. lease[r] \in Leases
      BY <2>2 DEF IInv, TypeOK
    <3>2. CASE ~(lease[r].ttl > 0)
      BY <3>2 DEF Tick
    <3>3. CASE lease[r].ttl > 0
      <4>1. lease'[r] = [lease[r] EXCEPT !.ttl = @ - 1]
        BY <2>2, <3>3 DEF Tick
      <4>2. lease'[r] \in Leases /\ lease'[r].token = lease[r].token
        BY <3>1, <3>3, <4>1 DEF Leases
      <4>3. lease'[r] # NoLease
        BY <4>2, NoLeaseAssumption
      <4> QED
        BY <2>2, <4>2, <4>3 DEF OwnerOf
    <3> QED
      BY <3>2, <3>3
  <2> QED
    BY <2>1, <2>2
<1> QED
  BY <1>1, <1>2, Stutters

LEMMA InitLoop == Init => Loop!Init
<1> SUFFICES ASSUME Init PROVE Loop!Init
  OBVIOUS
<1>1. /\ Absent.state = "ABSENT" /\ Absent.iteration = 0 /\ Absent.maxIterations = 0
      /\ (Absent.result \in Evidenced) = FALSE
  BY EvidencedAssumption, NoneAssumption DEF Absent
<1>2. /\ \A r \in Runs : snap[r] = Absent
      /\ \A r \in Runs : lease[r] = NoLease
      /\ Len(issued) = 0
  BY DEF Init
<1>3. [r \in Runs |-> snap[r].result \in Evidenced] = [r \in Runs |-> FALSE]
  BY <1>1, <1>2
<1> QED
  BY <1>1, <1>2, <1>3 DEF Loop!Init, PhaseOf

\* Every behaviour of the controller is a behaviour of the abstract turn loop.
THEOREM ControllerImplementsLoop == Spec => ImplementsTurnLoop
<1>1. IInv /\ [Next]_vars => [Loop!Next]_Loop!loopVars
  <2>1. ASSUME IInv, Next PROVE Loop!Next \/ UNCHANGED Loop!loopVars
    BY <2>1, PlannerLoop, WorkerLoop, ControlLoop, RevokeStep, TickLoop DEF Next
  <2>2. UNCHANGED vars => UNCHANGED Loop!loopVars
    BY DEF vars, Loop!loopVars
  <2> QED
    BY <2>1, <2>2
<1> QED
  BY <1>1, InitLoop, Inductive, PTL DEF Spec, ImplementsTurnLoop, Loop!Spec

=============================================================================
