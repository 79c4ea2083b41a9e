--------------------------- MODULE DeliveryProofs ---------------------------
(***************************************************************************)
(* What holds of the delivery processes and their journal for every set of *)
(* processes and messages and every number of confirmations and crashes.   *)
(***************************************************************************)
EXTENDS Delivery, SequenceTheorems, FiniteSetTheorems, WellFoundedInduction, TLAPS

-----------------------------------------------------------------------------
(* The journal. *)

\* A non-empty set of positions has a largest one.
LEMMA LargestIndex ==
  ASSUME NEW b \in Nat, NEW S \in SUBSET (1..b), S # {}
  PROVE  \E x \in S : \A y \in S : y <= x
<1> DEFINE T == {b - n : n \in S}
<1>1. T \subseteq Nat /\ T # {}
  <2>1. \A n \in S : b - n \in Nat
    OBVIOUS
  <2>2. PICK n \in S : TRUE
    OBVIOUS
  <2>3. b - n \in T
    OBVIOUS
  <2> QED
    BY <2>1, <2>3
<1>2. PICK t \in T : \A u \in T : ~ (<<u, t>> \in OpToRel(<, Nat))
  BY <1>1, WFMin, NatLessThanWellFounded
<1>3. \A u \in T : ~(u < t)
  BY <1>1, <1>2 DEF OpToRel
<1>4. PICK x \in S : t = b - x
  OBVIOUS
<1>5. \A y \in S : ~(b - y < b - x)
  BY <1>3, <1>4
<1> QED
  BY <1>5

\* No attempt is recorded as not written once it has started.
StartsAreFinal ==
  \A j, n \in DOMAIN journal :
    /\ j < n
    /\ journal[j].msg = journal[n].msg
    /\ journal[j].event = "ATTEMPT_STARTED"
    => journal[n].event # "FAILED_BEFORE_WRITE"

Started(m, n) ==
  \E j \in 1..n : journal[j] = [event |-> "ATTEMPT_STARTED", msg |-> m]

\* A message that is retryable never started an attempt.
LEMMA RetryableIsFresh ==
  ASSUME TypeOK, StartsAreFinal, NEW m \in Messages, Retryable(journal, m)
  PROVE  \A j \in RecordsOf(journal, m) : journal[j].event # "ATTEMPT_STARTED"
<1> SUFFICES ASSUME NEW j \in RecordsOf(journal, m),
                    journal[j].event = "ATTEMPT_STARTED"
             PROVE  FALSE
  OBVIOUS
<1>1. RecordsOf(journal, m) \in SUBSET (1..Len(journal))
  BY DEF RecordsOf, TypeOK
<1>2. Len(journal) \in Nat
  BY DEF TypeOK
<1>3. PICK x \in RecordsOf(journal, m) : \A y \in RecordsOf(journal, m) : y <= x
  BY <1>1, <1>2, LargestIndex
<1>4. journal[x].event = "FAILED_BEFORE_WRITE"
  BY <1>3 DEF Retryable
<1>5. j < x
  BY <1>1, <1>3, <1>4
<1> QED
  BY <1>4, <1>5 DEF StartsAreFinal, RecordsOf

-----------------------------------------------------------------------------
(* The inductive invariant.  AtMostOneTurn needs to know what each process   *)
(* that holds the lock may rely on: between the search of the journal and    *)
(* the write nobody else can append, so a message that was retryable still   *)
(* has no attempt when its own attempt is recorded.  And the name of the     *)
(* file is durable before anything is written to it: otherwise a power loss  *)
(* could take the file and every record with it.                             *)

ProcessOK(p) ==
  /\ pc[p] # "idle" => doing[p] \in Messages
  /\ pc[p] \in Inside => lock = p /\ linked
  /\ pc[p] \in {"admitted", "running"} =>
       \A j \in RecordsOf(journal, doing[p]) : journal[j].event # "ATTEMPT_STARTED"
  /\ pc[p] \in {"starting", "started"} => sent[doing[p]] = 0
  /\ pc[p] = "starting" => Started(doing[p], Len(journal))
  /\ pc[p] = "started" => Started(doing[p], durable)
  /\ pc[p] \in {"recording", "settled"} =>
       journal # <<>> /\ journal[Len(journal)].event \in Outcomes

SentStarted == \A m \in Messages : sent[m] > 0 => Started(m, durable)

LinkedFirst == linked \/ (journal = <<>> /\ ~torn)

IInv ==
  /\ TypeOK
  /\ \A p \in Processes : ProcessOK(p)
  /\ StartsAreFinal
  /\ SentStarted
  /\ LinkedFirst
  /\ AtMostOneTurn

LEMMA InitIInv == Init => IInv
<1> SUFFICES ASSUME Init PROVE IInv
  OBVIOUS
<1>1. TypeOK
  <2>1. pc \in [Processes -> Stations]
    BY DEF Init, Stations
  <2>2. cap \in [Processes -> [msg: Messages \cup {NoMessage}, used: BOOLEAN]]
    BY DEF Init, NoCap
  <2>3. journal \in Seq(Records) /\ Len(journal) = 0 /\ durable \in 0..Len(journal)
    BY DEF Init
  <2> QED
    BY <2>1, <2>2, <2>3 DEF Init, TypeOK
<1>2. \A p \in Processes : ProcessOK(p)
  BY DEF Init, ProcessOK, Inside, Stations
<1>3. StartsAreFinal /\ SentStarted /\ LinkedFirst /\ AtMostOneTurn
  <2>1. DOMAIN journal = {}
    BY DEF Init
  <2> QED
    BY <2>1 DEF Init, StartsAreFinal, SentStarted, LinkedFirst, AtMostOneTurn
<1> QED
  BY <1>1, <1>2, <1>3 DEF IInv

\* A step of one process does not disturb what the others rely on: only the
\* holder of the lock changes the journal.
LEMMA OthersKeep ==
  ASSUME IInv, NEW p \in Processes,
         \A q \in Processes \ {p} : pc'[q] = pc[q] /\ doing'[q] = doing[q],
         lock' # lock => lock \in {p, Nobody},
         linked => linked',
         UNCHANGED <<journal, durable, sent>> \/ lock = p
  PROVE  \A q \in Processes \ {p} : ProcessOK(q)'
<1> SUFFICES ASSUME NEW q \in Processes \ {p} PROVE ProcessOK(q)'
  OBVIOUS
<1>1. ProcessOK(q)
  BY DEF IInv
<1>2. pc'[q] = pc[q] /\ doing'[q] = doing[q]
  OBVIOUS
<1>3. CASE pc[q] \notin Inside
  BY <1>1, <1>2, <1>3 DEF ProcessOK, Inside, Stations
<1>4. CASE pc[q] \in Inside
  <2>1. lock = q /\ linked /\ linked'
    BY <1>1, <1>4 DEF ProcessOK
  <2>2. lock' = q
    BY <2>1, NobodyAssumption
  <2>3. UNCHANGED <<journal, durable, sent>>
    BY <2>1
  <2> QED
    BY <1>1, <1>2, <2>2, <2>3 DEF ProcessOK, Started, RecordsOf
<1> QED
  BY <1>3, <1>4

\* A step of p that leaves the journal and the target alone.
LEMMA QuietStep ==
  ASSUME IInv, NEW p \in Processes,
         \A q \in Processes \ {p} : pc'[q] = pc[q] /\ doing'[q] = doing[q],
         lock' # lock => lock \in {p, Nobody},
         UNCHANGED <<journal, sent>>,
         linked => linked', torn' = torn \/ linked,
         durable' = durable \/ (lock = p /\ durable' = Len(journal)),
         TypeOK', ProcessOK(p)'
  PROVE  IInv'
<1>1. \A q \in Processes : ProcessOK(q)'
  <2>1. \A q \in Processes \ {p} : ProcessOK(q)'
    BY OthersKeep
  <2> QED
    BY <2>1
<1>2. durable <= durable' /\ durable \in Nat /\ durable' \in Nat
  BY DEF IInv, TypeOK
<1>3. \A m \in Messages : Started(m, durable) => Started(m, durable)'
  BY <1>2 DEF Started
<1>4. StartsAreFinal' /\ LinkedFirst' /\ AtMostOneTurn'
  BY DEF IInv, StartsAreFinal, LinkedFirst, AtMostOneTurn
<1>5. SentStarted'
  BY <1>3 DEF IInv, SentStarted
<1> QED
  BY <1>1, <1>4, <1>5 DEF IInv

\* The journal after a whole record was appended.
LEMMA AppendedRecord ==
  ASSUME IInv, NEW r \in Records, journal' = Append(journal, r)
  PROVE  /\ journal' \in Seq(Records)
         /\ Len(journal') = Len(journal) + 1
         /\ Len(journal) \in Nat
         /\ journal'[Len(journal')] = r
         /\ \A j \in 1..Len(journal) : journal'[j] = journal[j]
         /\ DOMAIN journal = 1..Len(journal)
         /\ DOMAIN journal' = 1..Len(journal')
         /\ \A m, n : Started(m, n) /\ n \in 0..Len(journal) => Started(m, n)'
<1>1. journal \in Seq(Records)
  BY DEF IInv, TypeOK
<1>2. /\ journal' \in Seq(Records)
      /\ Len(journal') = Len(journal) + 1
      /\ Len(journal) \in Nat
      /\ journal'[Len(journal')] = r
      /\ \A j \in 1..Len(journal) : journal'[j] = journal[j]
  BY <1>1
<1>3. DOMAIN journal = 1..Len(journal) /\ DOMAIN journal' = 1..Len(journal')
  BY <1>1, <1>2
<1>4. ASSUME NEW m, NEW n \in 0..Len(journal),
             NEW j \in 1..n, journal[j] = [event |-> "ATTEMPT_STARTED", msg |-> m]
      PROVE  j \in 1..n /\ journal'[j] = [event |-> "ATTEMPT_STARTED", msg |-> m]
  BY <1>2, <1>4
<1> QED
  BY <1>2, <1>3, <1>4 DEF Started

\* A process inside the lock appends a whole record.
LEMMA WholeRecord ==
  ASSUME IInv, NEW p \in Processes, NEW event \in RecordTypes, NEW next \in Stations,
         pc[p] \in Inside,
         journal' = Append(journal, [event |-> event, msg |-> doing[p]]),
         Goto(p, next),
         UNCHANGED <<torn, lock, present, linked, durable, sent, reported, Caller>>,
         \/ next = "recording" /\ event \in Outcomes
         \/ next = "starting" /\ event = "ATTEMPT_STARTED" /\ sent[doing[p]] = 0,
         event = "FAILED_BEFORE_WRITE" =>
           \A j \in RecordsOf(journal, doing[p]) : journal[j].event # "ATTEMPT_STARTED"
  PROVE  IInv'
<1> DEFINE r == [event |-> event, msg |-> doing[p]]
<1> USE DEF Goto, Caller
<1>1. lock = p /\ linked /\ doing[p] \in Messages
  BY DEF IInv, ProcessOK, Inside
<1>2. r \in Records
  BY <1>1 DEF Records
<1>3. journal' = Append(journal, r)
  OBVIOUS
<1> HIDE DEF r
<1>4. /\ journal' \in Seq(Records)
      /\ Len(journal') = Len(journal) + 1
      /\ Len(journal) \in Nat
      /\ journal'[Len(journal')] = r
      /\ \A j \in 1..Len(journal) : journal'[j] = journal[j]
      /\ DOMAIN journal = 1..Len(journal)
      /\ DOMAIN journal' = 1..Len(journal')
      /\ \A m, n : Started(m, n) /\ n \in 0..Len(journal) => Started(m, n)'
  BY <1>2, <1>3, AppendedRecord
<1>5. TypeOK'
  <2>1. durable' \in 0..Len(journal')
    BY <1>4 DEF IInv, TypeOK
  <2>2. pc' \in [Processes -> Stations]
    BY DEF IInv, TypeOK
  <2> QED
    BY <2>1, <2>2, <1>4 DEF IInv, TypeOK
<1>6. pc'[p] = next /\ \A q \in Processes \ {p} : pc'[q] = pc[q] /\ doing'[q] = doing[q]
  BY DEF IInv, TypeOK
<1>7. ProcessOK(p)'
  <2>1. journal' # <<>>
    BY <1>4
  <2>2. r.event = event /\ r.msg = doing[p]
    BY DEF r
  <2>3. CASE next = "recording" /\ event \in Outcomes
    BY <1>1, <1>4, <1>6, <2>1, <2>2, <2>3 DEF ProcessOK, Inside
  <2>4. CASE next = "starting" /\ event = "ATTEMPT_STARTED" /\ sent[doing[p]] = 0
    <3>1. Started(doing[p], Len(journal))'
      BY <1>4, <2>4 DEF Started, r
    <3> QED
      BY <1>1, <1>6, <2>4, <3>1 DEF ProcessOK, Inside
  <2> QED
    BY <2>3, <2>4
<1>8. StartsAreFinal'
  <2> SUFFICES ASSUME NEW j \in 1..Len(journal'), NEW n \in 1..Len(journal'),
                      j < n, journal'[j].msg = journal'[n].msg,
                      journal'[j].event = "ATTEMPT_STARTED",
                      journal'[n].event = "FAILED_BEFORE_WRITE"
               PROVE  FALSE
    BY <1>4 DEF StartsAreFinal
  <2>1. j \in 1..Len(journal) /\ journal'[j] = journal[j]
    BY <1>4
  <2>2. CASE n = Len(journal')
    <3>1. journal[j].msg = doing[p] /\ event = "FAILED_BEFORE_WRITE"
      BY <1>4, <2>1, <2>2 DEF r
    <3>2. j \in RecordsOf(journal, doing[p])
      BY <1>4, <2>1, <3>1 DEF RecordsOf
    <3> QED
      BY <2>1, <3>1, <3>2
  <2>3. CASE n # Len(journal')
    <3>1. n \in 1..Len(journal) /\ journal'[n] = journal[n]
      BY <1>4, <2>3
    <3> QED
      BY <1>4, <2>1, <3>1 DEF IInv, StartsAreFinal
  <2> QED
    BY <2>2, <2>3
<1>9. SentStarted'
  BY <1>4 DEF IInv, SentStarted, TypeOK
<1>10. LinkedFirst' /\ AtMostOneTurn'
  BY <1>1 DEF IInv, LinkedFirst, AtMostOneTurn
<1>11. \A q \in Processes \ {p} : ProcessOK(q)'
  BY <1>1, <1>6, OthersKeep
<1> QED
  BY <1>5, <1>7, <1>8, <1>9, <1>10, <1>11 DEF IInv

\* The call of p ends without touching the records.
LEMMA LeavingStep ==
  ASSUME IInv, NEW p \in Processes, Leave(p),
         UNCHANGED <<journal, durable, sent, linked, doing, confirmed>>,
         present' \in BOOLEAN, torn' \in BOOLEAN, torn' = torn \/ linked,
         crashes' \in Nat, reported' = reported,
         cap' \in [Processes -> [msg: Messages \cup {NoMessage}, used: BOOLEAN]]
  PROVE  IInv'
<1> USE DEF Leave, Goto
<1>1. pc' \in [Processes -> Stations] /\ pc'[p] = "idle"
  BY DEF IInv, TypeOK, Stations
<1>2. TypeOK'
  BY <1>1 DEF IInv, TypeOK
<1>3. ProcessOK(p)'
  BY <1>1 DEF ProcessOK, Inside
<1>4. \A q \in Processes \ {p} : pc'[q] = pc[q] /\ doing'[q] = doing[q]
  BY DEF IInv, TypeOK
<1>5. lock' # lock => lock \in {p, Nobody}
  OBVIOUS
<1> QED
  BY <1>2, <1>3, <1>4, <1>5, QuietStep

\* _Journal.append up to os.write.
LEMMA WriteKeeps ==
  ASSUME IInv, NEW p \in Processes, NEW event \in RecordTypes, NEW next \in Stations,
         pc[p] \in Inside, Write(p, event, next),
         \/ next = "recording" /\ event \in Outcomes
         \/ next = "starting" /\ event = "ATTEMPT_STARTED" /\ sent[doing[p]] = 0,
         event = "FAILED_BEFORE_WRITE" =>
           \A j \in RecordsOf(journal, doing[p]) : journal[j].event # "ATTEMPT_STARTED"
  PROVE  IInv'
<1>1. CASE /\ journal' = Append(journal, [event |-> event, msg |-> doing[p]])
           /\ Goto(p, next)
           /\ UNCHANGED <<torn, lock>>
  <2>1. UNCHANGED <<torn, lock, present, linked, durable, sent, reported, Caller>>
    BY <1>1 DEF Write
  <2> QED
    BY <1>1, <2>1, WholeRecord
<1>2. CASE torn' \in {torn, TRUE} /\ Leave(p) /\ UNCHANGED journal
  <2>1. UNCHANGED <<present, linked, durable, sent, reported, doing, cap, confirmed, crashes>>
    BY DEF Write, Caller
  <2>2. /\ present' \in BOOLEAN /\ torn' \in BOOLEAN /\ crashes' \in Nat
        /\ cap' \in [Processes -> [msg: Messages \cup {NoMessage}, used: BOOLEAN]]
    BY <1>2, <2>1 DEF IInv, TypeOK
  <2>3. linked
    BY DEF IInv, ProcessOK
  <2> QED
    BY <1>2, <2>1, <2>2, <2>3, LeavingStep
<1> QED
  BY <1>1, <1>2 DEF Write

-----------------------------------------------------------------------------
(* The steps. *)

\* Every action keeps the invariant, one lemma each.
LEMMA ConfirmKeeps ==
  ASSUME IInv, NEW p \in Processes, NEW m \in Messages, Confirm(p, m)
  PROVE  IInv'
<1> USE DEF Confirm, fileVars
<1>1. cap' \in [Processes -> [msg: Messages \cup {NoMessage}, used: BOOLEAN]]
  <2>1. [msg |-> m, used |-> FALSE] \in [msg: Messages \cup {NoMessage}, used: BOOLEAN]
    OBVIOUS
  <2> QED
    BY <2>1 DEF IInv, TypeOK
<1>2. confirmed' \in [Messages -> Nat]
  BY DEF IInv, TypeOK
<1>3. TypeOK'
  BY <1>1, <1>2 DEF IInv, TypeOK
<1>4. ProcessOK(p)'
  BY DEF IInv, ProcessOK, Inside
<1> QED
  BY <1>3, <1>4, QuietStep

LEMMA PerformKeeps ==
  ASSUME IInv, NEW p \in Processes, NEW m \in Messages, Perform(p, m)
  PROVE  IInv'
<1> USE DEF Perform, Goto, fileVars
<1>1. cap' \in [Processes -> [msg: Messages \cup {NoMessage}, used: BOOLEAN]]
  BY DEF IInv, TypeOK
<1>2. /\ pc' \in [Processes -> Stations]
      /\ doing' \in [Processes -> Messages \cup {NoMessage}]
  BY DEF IInv, TypeOK, Stations
<1>3. TypeOK'
  BY <1>1, <1>2 DEF IInv, TypeOK
<1>4. ProcessOK(p)'
  <2>1. pc'[p] = "idle" \/ (pc'[p] = "opening" /\ doing'[p] = m)
    BY DEF IInv, TypeOK
  <2> QED
    BY <2>1 DEF ProcessOK, Inside
<1>5. \A q \in Processes \ {p} : pc'[q] = pc[q] /\ doing'[q] = doing[q]
  BY DEF IInv, TypeOK
<1> QED
  BY <1>3, <1>4, <1>5, QuietStep

LEMMA OpenJournalKeeps ==
  ASSUME IInv, NEW p \in Processes, OpenJournal(p)
  PROVE  IInv'
<1> USE DEF OpenJournal, Goto, Caller
<1>1. pc' \in [Processes -> Stations] /\ pc'[p] \in {"adopting", "creating"}
  BY DEF IInv, TypeOK, Stations
<1>2. TypeOK'
  BY <1>1 DEF IInv, TypeOK
<1>3. ProcessOK(p)'
  BY <1>1 DEF IInv, ProcessOK, Inside
<1>4. \A q \in Processes \ {p} : pc'[q] = pc[q] /\ doing'[q] = doing[q]
  BY DEF IInv, TypeOK
<1> QED
  BY <1>2, <1>3, <1>4, QuietStep

LEMMA AdmitKeeps ==
  ASSUME IInv, NEW p \in Processes, Admit(p)
  PROVE  IInv'
<1> USE DEF Admit, Goto, Caller
<1>1. pc' \in [Processes -> Stations] /\ pc'[p] = "admitted"
  BY DEF IInv, TypeOK, Stations
<1>2. TypeOK'
  BY <1>1 DEF IInv, TypeOK
<1>3. doing[p] \in Messages
  BY DEF IInv, ProcessOK
<1>4. \A j \in RecordsOf(journal, doing[p]) : journal[j].event # "ATTEMPT_STARTED"
  BY <1>3, RetryableIsFresh DEF IInv
<1>5. ProcessOK(p)'
  <2>1. linked'
    BY DEF IInv, LinkedFirst
  <2> QED
    BY <1>1, <1>3, <1>4, <2>1 DEF ProcessOK, Inside, RecordsOf
<1>6. \A q \in Processes \ {p} : pc'[q] = pc[q] /\ doing'[q] = doing[q]
  BY DEF IInv, TypeOK
<1> QED
  BY <1>2, <1>5, <1>6, QuietStep

LEMMA AbortKeeps ==
  ASSUME IInv, NEW p \in Processes, Abort(p)
  PROVE  IInv'
<1>1. /\ present' \in BOOLEAN /\ torn' \in BOOLEAN /\ torn' = torn
      /\ crashes' \in Nat
      /\ cap' \in [Processes -> [msg: Messages \cup {NoMessage}, used: BOOLEAN]]
  BY DEF IInv, TypeOK, Abort, fileVars, Caller
<1> QED
  BY <1>1, LeavingStep DEF Abort, fileVars, Caller

LEMMA CrashKeeps ==
  ASSUME IInv, NEW p \in Processes, Crash(p)
  PROVE  IInv'
<1>1. /\ present' \in BOOLEAN /\ torn' \in BOOLEAN /\ torn' = torn
      /\ crashes' \in Nat
  BY DEF IInv, TypeOK, Crash, fileVars
<1>2. cap' \in [Processes -> [msg: Messages \cup {NoMessage}, used: BOOLEAN]]
  <2>1. NoCap \in [msg: Messages \cup {NoMessage}, used: BOOLEAN]
    BY DEF NoCap
  <2> QED
    BY <2>1 DEF IInv, TypeOK, Crash
<1> QED
  BY <1>1, <1>2, LeavingStep DEF Crash, fileVars

LEMMA LaunchKeeps ==
  ASSUME IInv, NEW p \in Processes, Launch(p)
  PROVE  IInv'
<1> USE DEF Launch, Goto, Caller, fileVars
<1>1. pc' \in [Processes -> Stations] /\ pc'[p] = "running"
  BY DEF IInv, TypeOK, Stations
<1>2. TypeOK'
  BY <1>1 DEF IInv, TypeOK
<1>3. ProcessOK(p)'
  BY <1>1 DEF IInv, ProcessOK, Inside, Stations, RecordsOf
<1>4. \A q \in Processes \ {p} : pc'[q] = pc[q] /\ doing'[q] = doing[q]
  BY DEF IInv, TypeOK
<1> QED
  BY <1>2, <1>3, <1>4, QuietStep

LEMMA PrepareFailsKeeps ==
  ASSUME IInv, NEW p \in Processes, PrepareFails(p)
  PROVE  IInv'
<1>1. \A j \in RecordsOf(journal, doing[p]) : journal[j].event # "ATTEMPT_STARTED"
  BY DEF IInv, ProcessOK, PrepareFails
<1>2. pc[p] \in Inside /\ Write(p, "FAILED_BEFORE_WRITE", "recording")
  BY DEF PrepareFails, Inside, Stations
<1>3. /\ "FAILED_BEFORE_WRITE" \in RecordTypes
      /\ "FAILED_BEFORE_WRITE" \in Outcomes
      /\ "recording" \in Stations
  BY DEF RecordTypes, Outcomes, Stations
<1> QED
  BY <1>1, <1>2, <1>3, WriteKeeps

LEMMA PreparedKeeps ==
  ASSUME IInv, NEW p \in Processes, Prepared(p)
  PROVE  IInv'
<1>1. pc[p] = "running" /\ doing[p] \in Messages
  BY DEF IInv, ProcessOK, Prepared
<1>2. ~Started(doing[p], durable)
  <2>1. \A j \in RecordsOf(journal, doing[p]) : journal[j].event # "ATTEMPT_STARTED"
    BY <1>1 DEF IInv, ProcessOK
  <2>2. \A j \in 1..durable : j \in DOMAIN journal
    BY DEF IInv, TypeOK
  <2> QED
    BY <2>1, <2>2 DEF Started, RecordsOf
<1>3. sent[doing[p]] = 0
  BY <1>1, <1>2 DEF IInv, SentStarted, TypeOK
<1>4. pc[p] \in Inside /\ Write(p, "ATTEMPT_STARTED", "starting")
  BY DEF Prepared, Inside, Stations
<1>5. "ATTEMPT_STARTED" \in RecordTypes /\ "starting" \in Stations
  BY DEF RecordTypes, Stations
<1> QED
  BY <1>3, <1>4, <1>5, WriteKeeps

LEMMA SyncStartKeeps ==
  ASSUME IInv, NEW p \in Processes, SyncStart(p)
  PROVE  IInv'
<1> USE DEF SyncStart, Goto, Leave, Caller
<1>1. pc' \in [Processes -> Stations] /\ pc'[p] \in {"started", "idle"}
  BY DEF IInv, TypeOK, Stations
<1>2. TypeOK'
  BY <1>1 DEF IInv, TypeOK
<1>3. lock = p /\ linked /\ doing[p] \in Messages /\ sent[doing[p]] = 0
  BY DEF IInv, ProcessOK, Inside, Stations
<1>4. Started(doing[p], Len(journal))
  BY DEF IInv, ProcessOK
<1>5. ProcessOK(p)'
  <2>1. CASE pc'[p] = "idle"
    BY <2>1 DEF ProcessOK, Inside
  <2>2. CASE pc'[p] = "started"
    <3>1. durable' = Len(journal) /\ lock' = lock
      BY <2>2 DEF IInv, TypeOK
    <3>2. Started(doing[p], durable)'
      BY <3>1, <1>4 DEF Started
    <3> QED
      BY <1>3, <2>2, <3>1, <3>2 DEF ProcessOK, Inside
  <2> QED
    BY <1>1, <2>1, <2>2
<1>6. \A q \in Processes \ {p} : pc'[q] = pc[q] /\ doing'[q] = doing[q]
  BY DEF IInv, TypeOK
<1> QED
  BY <1>2, <1>3, <1>5, <1>6, QuietStep

LEMMA TurnStartKeeps ==
  ASSUME IInv, NEW p \in Processes, TurnStart(p)
  PROVE  IInv'
<1> USE DEF TurnStart, Goto, Caller, fileVars
<1>1. /\ lock = p /\ linked /\ doing[p] \in Messages /\ sent[doing[p]] = 0
      /\ Started(doing[p], durable)
  BY DEF IInv, ProcessOK, Inside, Stations
<1>2. pc' \in [Processes -> Stations] /\ pc'[p] \in {"waiting", "ambiguous"}
  BY DEF IInv, TypeOK, Stations
<1>3. sent' \in [Messages -> Nat]
  <2>1. doing[p] \in Messages /\ sent \in [Messages -> Nat]
    BY <1>1 DEF IInv, TypeOK
  <2>2. sent' = [sent EXCEPT ![doing[p]] = @ + 1] \/ sent' = sent
    OBVIOUS
  <2> HIDE DEF TurnStart
  <2> QED
    BY <2>1, <2>2
<1>4. TypeOK'
  BY <1>2, <1>3 DEF IInv, TypeOK
<1>5. ProcessOK(p)'
  BY <1>1, <1>2 DEF ProcessOK, Inside
<1>6. \A m \in Messages : sent'[m] = sent[m] \/ (m = doing[p] /\ sent'[m] = 1)
  BY <1>1 DEF IInv, TypeOK
<1>7. StartsAreFinal' /\ SentStarted' /\ LinkedFirst' /\ AtMostOneTurn'
  <2>1. StartsAreFinal' /\ LinkedFirst'
    BY DEF IInv, StartsAreFinal, LinkedFirst
  <2>2. \A m \in Messages : Started(m, durable)' <=> Started(m, durable)
    BY DEF Started
  <2>3. SentStarted'
    BY <1>1, <1>6, <2>2 DEF IInv, SentStarted
  <2>4. AtMostOneTurn'
    BY <1>6 DEF IInv, AtMostOneTurn
  <2> QED
    BY <2>1, <2>3, <2>4
<1>8. \A q \in Processes \ {p} : pc'[q] = pc[q] /\ doing'[q] = doing[q]
  BY DEF IInv, TypeOK
<1>9. \A q \in Processes \ {p} : ProcessOK(q)'
  BY <1>1, <1>8, OthersKeep
<1> QED
  BY <1>4, <1>5, <1>7, <1>9 DEF IInv

LEMMA TurnCompletesKeeps ==
  ASSUME IInv, NEW p \in Processes, TurnCompletes(p)
  PROVE  IInv'
<1> USE DEF TurnCompletes, Goto, Caller, fileVars
<1>1. pc' \in [Processes -> Stations] /\ pc'[p] = "completed"
  BY DEF IInv, TypeOK, Stations
<1>2. TypeOK'
  BY <1>1 DEF IInv, TypeOK
<1>3. ProcessOK(p)'
  BY <1>1 DEF IInv, ProcessOK, Inside, Stations
<1>4. \A q \in Processes \ {p} : pc'[q] = pc[q] /\ doing'[q] = doing[q]
  BY DEF IInv, TypeOK
<1> QED
  BY <1>2, <1>3, <1>4, QuietStep

LEMMA OutcomeKeeps ==
  ASSUME IInv, NEW p \in Processes, TurnFails(p) \/ CleanUp(p)
  PROVE  IInv'
<1>1. PICK o \in {"DELIVERED", "UNCERTAIN"} : Write(p, o, "recording")
  BY DEF TurnFails, CleanUp
<1>2. pc[p] \in Inside
  BY DEF TurnFails, CleanUp, Inside, Stations
<1>3. /\ o \in RecordTypes /\ o \in Outcomes /\ o # "FAILED_BEFORE_WRITE"
      /\ "recording" \in Stations
  BY DEF RecordTypes, Outcomes, Stations
<1> QED
  BY <1>1, <1>2, <1>3, WriteKeeps

LEMMA SyncOutcomeKeeps ==
  ASSUME IInv, NEW p \in Processes, SyncOutcome(p)
  PROVE  IInv'
<1> USE DEF SyncOutcome, Goto, Leave, Caller
<1>1. pc' \in [Processes -> Stations] /\ pc'[p] \in {"settled", "idle"}
  BY DEF IInv, TypeOK, Stations
<1>2. /\ lock = p /\ linked /\ doing[p] \in Messages
      /\ journal # <<>> /\ journal[Len(journal)].event \in Outcomes
  BY DEF IInv, ProcessOK, Inside, Stations
<1>3. TypeOK'
  BY <1>1 DEF IInv, TypeOK
<1>4. ProcessOK(p)'
  <2>1. CASE pc'[p] = "idle"
    BY <2>1 DEF ProcessOK, Inside
  <2>2. CASE pc'[p] = "settled"
    <3>1. lock' = lock
      BY <2>2 DEF IInv, TypeOK
    <3> QED
      BY <1>2, <2>2, <3>1 DEF ProcessOK, Inside
  <2> QED
    BY <1>1, <2>1, <2>2
<1>5. \A q \in Processes \ {p} : pc'[q] = pc[q] /\ doing'[q] = doing[q]
  BY DEF IInv, TypeOK
<1>6. /\ lock' # lock => lock \in {p, Nobody}
      /\ UNCHANGED <<journal, sent>>
      /\ durable' = durable \/ (lock = p /\ durable' = Len(journal))
  BY <1>2
<1> QED
  BY <1>3, <1>4, <1>5, <1>6, QuietStep

LEMMA ReturnKeeps ==
  ASSUME IInv, NEW p \in Processes, Return(p)
  PROVE  IInv'
<1> USE DEF Return, Goto, Leave, Caller, fileVars
<1>1. pc' \in [Processes -> Stations] /\ pc'[p] = "idle"
  BY DEF IInv, TypeOK, Stations
<1>2. doing[p] \in Messages /\ journal[Len(journal)].event \in Outcomes
  BY DEF IInv, ProcessOK
<1>3. reported' \subseteq Messages \X Outcomes
  BY <1>2 DEF IInv, TypeOK
<1>4. TypeOK'
  BY <1>1, <1>3 DEF IInv, TypeOK
<1>5. ProcessOK(p)'
  BY <1>1 DEF ProcessOK, Inside
<1>6. \A q \in Processes \ {p} : pc'[q] = pc[q] /\ doing'[q] = doing[q]
  BY DEF IInv, TypeOK
<1> QED
  BY <1>4, <1>5, <1>6, QuietStep

\* What is lost with the power was not synchronised, so no start that the
\* target may have seen is among it.
LEMMA TruncatedKeeps ==
  ASSUME IInv, Truncated
  PROVE  /\ present' \in BOOLEAN /\ torn' \in BOOLEAN
         /\ journal' \in Seq(Records) /\ durable' \in 0..Len(journal')
         /\ StartsAreFinal' /\ (journal = <<>> /\ ~torn => journal' = <<>> /\ ~torn')
         /\ \A m \in Messages : Started(m, durable) => Started(m, durable)'
<1>1. PICK n \in durable..Len(journal) :
        /\ journal' = SubSeq(journal, 1, n)
        /\ torn' \in BOOLEAN
        /\ torn' => torn \/ n < Len(journal)
  BY DEF Truncated
<1>2. journal \in Seq(Records) /\ n \in Nat /\ n <= Len(journal)
      /\ durable \in Nat /\ durable <= n /\ Len(journal) \in Nat
  BY DEF IInv, TypeOK
<1>3. /\ journal' \in Seq(Records) /\ Len(journal') = n
      /\ \A j \in 1..n : journal'[j] = journal[j]
      /\ DOMAIN journal' = 1..n /\ DOMAIN journal = 1..Len(journal)
  BY <1>1, <1>2
<1>4. durable' \in 0..Len(journal') /\ present' \in BOOLEAN
  BY <1>2, <1>3 DEF Truncated, IInv, TypeOK
<1>5. StartsAreFinal'
  BY <1>2, <1>3 DEF IInv, StartsAreFinal
<1>6. journal = <<>> /\ ~torn => journal' = <<>> /\ ~torn'
  BY <1>1, <1>2, <1>3
<1>7. \A m \in Messages : Started(m, durable) => Started(m, durable)'
  BY <1>2, <1>3 DEF Started, Truncated
<1> QED
  BY <1>1, <1>3, <1>4, <1>5, <1>6, <1>7

\* A file that can still vanish holds no record, so no message was sent.
LEMMA VanishedKeeps ==
  ASSUME IInv, Vanished
  PROVE  /\ present' \in BOOLEAN /\ torn' \in BOOLEAN
         /\ journal' \in Seq(Records) /\ durable' \in 0..Len(journal')
         /\ StartsAreFinal' /\ journal' = <<>> /\ ~torn'
         /\ \A m \in Messages : ~Started(m, durable)
<1>1. journal = <<>>
  BY DEF IInv, LinkedFirst, Vanished
<1>2. durable = 0
  BY <1>1 DEF IInv, TypeOK
<1>3. DOMAIN journal' = {}
  BY DEF Vanished
<1>4. StartsAreFinal'
  BY <1>3 DEF StartsAreFinal
<1>5. journal' \in Seq(Records) /\ durable' \in 0..Len(journal')
  BY DEF Vanished
<1>6. \A m \in Messages : ~Started(m, durable)
  BY <1>2 DEF Started
<1> QED
  BY <1>4, <1>5, <1>6 DEF Vanished

LEMMA PowerLossKeeps == IInv /\ PowerLoss => IInv'
<1> SUFFICES ASSUME IInv, PowerLoss PROVE IInv'
  OBVIOUS
<1>1. /\ present' \in BOOLEAN /\ torn' \in BOOLEAN
      /\ journal' \in Seq(Records) /\ durable' \in 0..Len(journal')
      /\ StartsAreFinal' /\ (journal = <<>> /\ ~torn => journal' = <<>> /\ ~torn')
      /\ \A m \in Messages : Started(m, durable) => Started(m, durable)'
  <2>1. CASE Truncated
    BY <2>1, TruncatedKeeps
  <2>2. CASE Vanished
    BY <2>2, VanishedKeeps
  <2> QED
    BY <2>1, <2>2 DEF PowerLoss
<1>2. TypeOK'
  <2>1. pc' \in [Processes -> Stations]
    BY DEF PowerLoss, Stations
  <2>2. cap' \in [Processes -> [msg: Messages \cup {NoMessage}, used: BOOLEAN]]
    BY DEF PowerLoss, NoCap
  <2>3. crashes' \in Nat
    BY DEF PowerLoss, IInv, TypeOK
  <2> QED
    BY <1>1, <2>1, <2>2, <2>3 DEF PowerLoss, IInv, TypeOK
<1>3. \A p \in Processes : ProcessOK(p)'
  BY DEF PowerLoss, ProcessOK, Inside
<1>4. LinkedFirst'
  BY <1>1 DEF IInv, LinkedFirst, PowerLoss
<1>5. SentStarted'
  BY <1>1 DEF IInv, SentStarted, PowerLoss
<1>6. AtMostOneTurn'
  BY DEF IInv, AtMostOneTurn, PowerLoss
<1> QED
  BY <1>1, <1>2, <1>3, <1>4, <1>5, <1>6 DEF IInv

LEMMA NextIInv == IInv /\ [Next]_deliveryVars => IInv'
<1> SUFFICES ASSUME IInv, [Next]_deliveryVars PROVE IInv'
  OBVIOUS
<1>1. ASSUME NEW p \in Processes, NEW m \in Messages, Confirm(p, m) \/ Perform(p, m)
      PROVE  IInv'
  BY <1>1, ConfirmKeeps, PerformKeeps
<1>2. ASSUME NEW p \in Processes, Step(p) PROVE IInv'
  BY <1>2, OpenJournalKeeps, AdmitKeeps, AbortKeeps, LaunchKeeps, PrepareFailsKeeps,
     PreparedKeeps, SyncStartKeeps, TurnStartKeeps, TurnCompletesKeeps, OutcomeKeeps,
     SyncOutcomeKeeps, ReturnKeeps DEF Step
<1>3. ASSUME NEW p \in Processes, Crash(p) PROVE IInv'
  BY <1>3, CrashKeeps
<1>4. CASE PowerLoss
  BY <1>4, PowerLossKeeps
<1>5. CASE UNCHANGED deliveryVars
  <2> USE <1>5 DEF deliveryVars
  <2>1. TypeOK'
    BY DEF IInv, TypeOK
  <2>2. ASSUME NEW p \in Processes PROVE ProcessOK(p)'
    <3>1. ProcessOK(p)
      BY DEF IInv
    <3> QED
      BY <3>1 DEF ProcessOK, Started, RecordsOf
  <2>3. StartsAreFinal' /\ LinkedFirst' /\ AtMostOneTurn'
    BY DEF IInv, StartsAreFinal, LinkedFirst, AtMostOneTurn
  <2>4. SentStarted'
    BY DEF IInv, SentStarted, Started
  <2> QED
    BY <2>1, <2>2, <2>3, <2>4 DEF IInv
<1> QED
  BY <1>1, <1>2, <1>3, <1>4, <1>5 DEF Next

-----------------------------------------------------------------------------
(* The theorems. *)

\* IInv holds of every state a behaviour of the processes and the disk reaches.
THEOREM Inductive == Spec => []IInv
<1> QED
  BY InitIInv, NextIInv, PTL DEF Spec

\* Type correctness of the processes, the file and the history variables.
THEOREM TypeCorrect == Spec => []TypeOK
<1>1. IInv => TypeOK
  BY DEF IInv
<1> QED
  BY <1>1, Inductive, PTL

\* However many processes share the journal, however often an operator confirms
\* and wherever kills and power losses fall, start_and_wait puts at most one
\* turn/start line of a message on the wire.
THEOREM OneTurn == Spec => []AtMostOneTurn
<1>1. IInv => AtMostOneTurn
  BY DEF IInv
<1> QED
  BY <1>1, Inductive, PTL

\* A line that reached the target has its ATTEMPT_STARTED in the synchronised
\* part of the journal, and nothing after it says that it was not written.
THEOREM SendsAreRecorded == Spec => []SentIsRecorded
<1>1. IInv => SentIsRecorded
  <2> SUFFICES ASSUME IInv, NEW m \in Messages, sent[m] > 0
               PROVE  \E j \in 1..durable :
                        /\ journal[j] = [event |-> "ATTEMPT_STARTED", msg |-> m]
                        /\ \A n \in RecordsOf(journal, m) :
                             n > j => journal[n].event # "FAILED_BEFORE_WRITE"
    BY DEF SentIsRecorded
  <2>1. PICK j \in 1..durable : journal[j] = [event |-> "ATTEMPT_STARTED", msg |-> m]
    BY DEF IInv, SentStarted, Started
  <2>2. j \in DOMAIN journal /\ journal[j].event = "ATTEMPT_STARTED" /\ journal[j].msg = m
    BY <2>1 DEF IInv, TypeOK
  <2>3. \A n \in RecordsOf(journal, m) :
          n > j => journal[n].event # "FAILED_BEFORE_WRITE"
    BY <2>2 DEF IInv, StartsAreFinal, RecordsOf, TypeOK
  <2> QED
    BY <2>1, <2>3
<1> QED
  BY <1>1, Inductive, PTL

-----------------------------------------------------------------------------
(* Verdicts.  What a caller is told stands because a verdict is the last     *)
(* record of its message: whoever holds the lock found none when it searched *)
(* the journal, and nobody else can write one until it is gone.              *)

Verdicts == {"DELIVERED", "UNCERTAIN"}

NoVerdict(m) == \A j \in RecordsOf(journal, m) : journal[j].event \notin Verdicts

HolderKnows(p) ==
  /\ pc[p] \in Inside \ {"recording", "settled"} => NoVerdict(doing[p])
  /\ pc[p] \in {"started", "waiting", "ambiguous", "completed"} =>
       Started(doing[p], durable)
  /\ pc[p] \in {"waiting", "completed"} => sent[doing[p]] = 1
  /\ pc[p] \in {"recording", "settled"} => journal[Len(journal)].msg = doing[p]
  /\ pc[p] = "settled" => durable = Len(journal)

VerdictsAreLast ==
  \A j, n \in DOMAIN journal :
    journal[j].event \in Verdicts /\ journal[n].msg = journal[j].msg => n <= j

VerdictsFollowStarts ==
  \A j \in DOMAIN journal :
    journal[j].event \in Verdicts => Started(journal[j].msg, durable)

DeliveredWasSent ==
  \A j \in DOMAIN journal :
    journal[j].event = "DELIVERED" => sent[journal[j].msg] = 1

IsDurable(event, m) ==
  \E j \in 1..durable : journal[j] = [event |-> event, msg |-> m]

ReportsAreDurable ==
  \A m \in Messages, o \in Verdicts : <<m, o>> \in reported => IsDurable(o, m)

VInv ==
  /\ \A p \in Processes : HolderKnows(p)
  /\ VerdictsAreLast
  /\ VerdictsFollowStarts
  /\ DeliveredWasSent
  /\ ReportsAreDurable

LEMMA InitVInv == Init => VInv
<1> SUFFICES ASSUME Init PROVE VInv
  OBVIOUS
<1>1. \A p \in Processes : HolderKnows(p)
  BY DEF Init, HolderKnows, Inside
<1>2. DOMAIN journal = {} /\ reported = {}
  BY DEF Init
<1> QED
  BY <1>1, <1>2 DEF VInv, VerdictsAreLast, VerdictsFollowStarts, DeliveredWasSent,
     ReportsAreDurable

\* A message that is retryable has no verdict.
LEMMA RetryableHasNoVerdict ==
  ASSUME VInv, NEW m, Retryable(journal, m)
  PROVE  NoVerdict(m)
<1> SUFFICES ASSUME NEW j \in RecordsOf(journal, m), journal[j].event \in Verdicts
             PROVE  FALSE
  BY DEF NoVerdict
<1>1. \A n \in RecordsOf(journal, m) : n <= j
  BY DEF VInv, VerdictsAreLast, RecordsOf
<1>2. journal[j].event = "FAILED_BEFORE_WRITE"
  BY <1>1 DEF Retryable
<1> QED
  BY <1>2 DEF Verdicts

\* What the others know does not depend on what the holder of the lock writes.
LEMMA OthersKnow ==
  ASSUME IInv, VInv, NEW p \in Processes,
         \A q \in Processes \ {p} : pc'[q] = pc[q] /\ doing'[q] = doing[q],
         UNCHANGED <<journal, durable, sent>> \/ lock = p
  PROVE  \A q \in Processes \ {p} : HolderKnows(q)'
<1> SUFFICES ASSUME NEW q \in Processes \ {p} PROVE HolderKnows(q)'
  OBVIOUS
<1>1. HolderKnows(q) /\ (pc[q] \in Inside => lock = q)
  BY DEF IInv, VInv, ProcessOK
<1>2. pc'[q] = pc[q] /\ doing'[q] = doing[q]
  OBVIOUS
<1>3. CASE pc[q] \notin Inside
  BY <1>2, <1>3 DEF HolderKnows, Inside, Stations
<1>4. CASE pc[q] \in Inside
  <2>1. UNCHANGED <<journal, durable, sent>>
    BY <1>1, <1>4
  <2> QED
    BY <1>1, <1>2, <2>1 DEF HolderKnows, NoVerdict, Started, RecordsOf
<1> QED
  BY <1>3, <1>4

\* A step of p that leaves the file, the target and the reports alone.
LEMMA SilentStep ==
  ASSUME IInv, VInv, NEW p \in Processes,
         \A q \in Processes \ {p} : pc'[q] = pc[q] /\ doing'[q] = doing[q],
         UNCHANGED <<journal, durable, sent, reported>>,
         HolderKnows(p)'
  PROVE  VInv'
<1>1. \A q \in Processes : HolderKnows(q)'
  <2>1. \A q \in Processes \ {p} : HolderKnows(q)'
    BY OthersKnow
  <2> QED
    BY <2>1
<1>2. \A m, n : Started(m, n)' <=> Started(m, n)
  BY DEF Started
<1> QED
  BY <1>1, <1>2 DEF VInv, VerdictsAreLast, VerdictsFollowStarts, DeliveredWasSent,
     ReportsAreDurable, IsDurable

\* More of the file is synchronised by a process that holds the lock.
LEMMA SyncStep ==
  ASSUME IInv, VInv, NEW p \in Processes, lock = p,
         \A q \in Processes \ {p} : pc'[q] = pc[q] /\ doing'[q] = doing[q],
         UNCHANGED <<journal, sent, reported>>,
         durable' \in {durable, Len(journal)},
         HolderKnows(p)'
  PROVE  VInv'
<1>1. \A q \in Processes : HolderKnows(q)'
  <2>1. \A q \in Processes \ {p} : HolderKnows(q)'
    BY OthersKnow
  <2> QED
    BY <2>1
<1>2. durable \in Nat /\ durable' \in Nat /\ durable <= durable'
  BY DEF IInv, TypeOK
<1>3. \A m : Started(m, durable) => Started(m, durable)'
  BY <1>2 DEF Started
<1>4. \A e, m : IsDurable(e, m) => IsDurable(e, m)'
  BY <1>2 DEF IsDurable
<1>5. VerdictsFollowStarts'
  BY <1>3 DEF VInv, VerdictsFollowStarts
<1>6. ReportsAreDurable'
  BY <1>4 DEF VInv, ReportsAreDurable
<1> QED
  BY <1>1, <1>5, <1>6 DEF VInv, VerdictsAreLast, DeliveredWasSent

\* The holder of the lock appends a record for a message without a verdict.
LEMMA RecordStep ==
  ASSUME IInv, VInv, NEW p \in Processes, NEW event \in RecordTypes, NEW next \in Stations,
         pc[p] \in Inside \ {"recording", "settled"},
         journal' = Append(journal, [event |-> event, msg |-> doing[p]]),
         Goto(p, next),
         UNCHANGED <<durable, sent, reported, doing>>,
         \/ next = "recording"
         \/ next = "starting" /\ event \notin Verdicts,
         event \in Verdicts => Started(doing[p], durable),
         event = "DELIVERED" => sent[doing[p]] = 1
  PROVE  VInv'
<1> DEFINE r == [event |-> event, msg |-> doing[p]]
<1>1. lock = p /\ doing[p] \in Messages
  BY DEF IInv, ProcessOK, Inside
<1>2. r \in Records /\ r.event = event /\ r.msg = doing[p] /\ journal' = Append(journal, r)
  BY <1>1 DEF Records
<1> HIDE DEF r
<1>3. /\ Len(journal') = Len(journal) + 1
      /\ Len(journal) \in Nat
      /\ journal'[Len(journal')] = r
      /\ \A j \in 1..Len(journal) : journal'[j] = journal[j]
      /\ DOMAIN journal = 1..Len(journal)
      /\ DOMAIN journal' = 1..Len(journal')
      /\ \A m, n : Started(m, n) /\ n \in 0..Len(journal) => Started(m, n)'
  BY <1>2, AppendedRecord
<1>4. durable \in 0..Len(journal)
  BY DEF IInv, TypeOK
<1>5. pc'[p] = next /\ \A q \in Processes \ {p} : pc'[q] = pc[q] /\ doing'[q] = doing[q]
  BY DEF IInv, TypeOK, Goto
<1>6. NoVerdict(doing[p])
  BY DEF VInv, HolderKnows
<1>7. HolderKnows(p)'
  <2>1. journal'[Len(journal')].msg = doing'[p]
    BY <1>2, <1>3
  <2>2. next = "starting" => NoVerdict(doing[p])'
    BY <1>2, <1>3, <1>6 DEF NoVerdict, RecordsOf
  <2> QED
    BY <1>5, <2>1, <2>2 DEF HolderKnows
<1>8. \A q \in Processes \ {p} : HolderKnows(q)'
  BY <1>1, <1>5, OthersKnow
<1>9. VerdictsAreLast'
  <2> SUFFICES ASSUME NEW j \in 1..Len(journal'), NEW n \in 1..Len(journal'),
                      journal'[j].event \in Verdicts, journal'[n].msg = journal'[j].msg,
                      ~(n <= j)
               PROVE  FALSE
    BY <1>3 DEF VerdictsAreLast
  <2>1. j \in 1..Len(journal) /\ journal'[j] = journal[j]
    BY <1>3
  <2>2. CASE n = Len(journal')
    <3>1. j \in RecordsOf(journal, doing[p])
      BY <1>2, <1>3, <2>1, <2>2 DEF RecordsOf
    <3> QED
      BY <1>6, <2>1, <3>1 DEF NoVerdict
  <2>3. CASE n # Len(journal')
    <3>1. n \in 1..Len(journal) /\ journal'[n] = journal[n]
      BY <1>3, <2>3
    <3> QED
      BY <1>3, <2>1, <3>1 DEF VInv, VerdictsAreLast
  <2> QED
    BY <2>2, <2>3
<1>10. VerdictsFollowStarts'
  <2> SUFFICES ASSUME NEW j \in 1..Len(journal'), journal'[j].event \in Verdicts
               PROVE  Started(journal[j].msg, durable)'
    BY <1>3 DEF VerdictsFollowStarts
  <2>1. CASE j = Len(journal')
    <3>1. Started(doing[p], durable) /\ journal'[j].msg = doing[p]
      BY <1>2, <1>3, <2>1
    <3>2. Started(doing[p], durable)'
      BY <1>3, <1>4, <3>1 DEF Started
    <3> QED
      BY <3>1, <3>2 DEF Started
  <2>2. CASE j # Len(journal')
    <3>1. j \in 1..Len(journal) /\ journal'[j] = journal[j]
      BY <1>3, <2>2
    <3>2. Started(journal[j].msg, durable)
      BY <1>3, <3>1 DEF VInv, VerdictsFollowStarts
    <3> QED
      BY <1>3, <1>4, <3>1, <3>2 DEF Started
  <2> QED
    BY <2>1, <2>2
<1>11. DeliveredWasSent'
  BY <1>2, <1>3 DEF VInv, DeliveredWasSent
<1>12. ReportsAreDurable'
  <2>1. \A e, m : IsDurable(e, m) => IsDurable(e, m)'
    BY <1>3, <1>4 DEF IsDurable
  <2> QED
    BY <2>1 DEF VInv, ReportsAreDurable
<1> QED
  BY <1>7, <1>8, <1>9, <1>10, <1>11, <1>12 DEF VInv

\* The call of p ends without touching the records or the target.
LEMMA LeaveKnows ==
  ASSUME IInv, VInv, NEW p \in Processes, Leave(p),
         UNCHANGED <<journal, durable, sent, reported, doing>>
  PROVE  VInv'
<1>1. pc'[p] = "idle" /\ \A q \in Processes \ {p} : pc'[q] = pc[q] /\ doing'[q] = doing[q]
  BY DEF IInv, TypeOK, Leave, Goto
<1>2. HolderKnows(p)'
  BY <1>1 DEF HolderKnows, Inside
<1> QED
  BY <1>1, <1>2, SilentStep

\* The same for the verdicts: a record keeps them, and so does every action.
LEMMA WriteKnows ==
  ASSUME IInv, VInv, NEW p \in Processes, NEW event \in RecordTypes, NEW next \in Stations,
         pc[p] \in Inside \ {"recording", "settled"}, Write(p, event, next),
         \/ next = "recording"
         \/ next = "starting" /\ event \notin Verdicts,
         event \in Verdicts => Started(doing[p], durable),
         event = "DELIVERED" => sent[doing[p]] = 1
  PROVE  VInv'
<1>1. UNCHANGED <<durable, sent, reported, doing>>
  BY DEF Write, Caller
<1>2. CASE /\ journal' = Append(journal, [event |-> event, msg |-> doing[p]])
           /\ Goto(p, next)
  BY <1>1, <1>2, RecordStep
<1>3. CASE Leave(p) /\ UNCHANGED journal
  BY <1>1, <1>3, LeaveKnows
<1> QED
  BY <1>2, <1>3 DEF Write

-----------------------------------------------------------------------------
LEMMA EarlyStepKnows ==
  ASSUME IInv, VInv, NEW p \in Processes,
         \/ \E m \in Messages : Confirm(p, m) \/ Perform(p, m)
         \/ OpenJournal(p) \/ Admit(p) \/ Launch(p) \/ TurnCompletes(p)
  PROVE  VInv'
<1> USE DEF Goto, Caller, fileVars
<1>1. /\ \A q \in Processes \ {p} : pc'[q] = pc[q] /\ doing'[q] = doing[q]
      /\ UNCHANGED <<journal, durable, sent, reported>>
  BY DEF IInv, TypeOK, Confirm, Perform, OpenJournal, Admit, Launch, TurnCompletes
<1>2. HolderKnows(p)
  BY DEF VInv
<1>3. CASE \E m \in Messages : Confirm(p, m) \/ Perform(p, m)
  <2>1. pc'[p] \in {"idle", "opening"}
    BY <1>3 DEF IInv, TypeOK, Confirm, Perform
  <2>2. HolderKnows(p)'
    BY <2>1 DEF HolderKnows, Inside
  <2> QED
    BY <1>1, <2>2, SilentStep
<1>4. CASE OpenJournal(p)
  <2>1. pc'[p] \in {"creating", "adopting"}
    BY <1>4 DEF IInv, TypeOK, OpenJournal
  <2>2. HolderKnows(p)'
    BY <2>1 DEF HolderKnows, Inside
  <2> QED
    BY <1>1, <2>2, SilentStep
<1>5. CASE Admit(p)
  <2>1. pc'[p] = "admitted" /\ doing'[p] = doing[p]
    BY <1>5 DEF IInv, TypeOK, Admit
  <2>2. NoVerdict(doing[p])
    BY <1>5, RetryableHasNoVerdict DEF Admit
  <2>3. HolderKnows(p)'
    BY <1>1, <2>1, <2>2 DEF HolderKnows, NoVerdict, RecordsOf
  <2> QED
    BY <1>1, <2>3, SilentStep
<1>6. CASE Launch(p)
  <2>1. pc'[p] = "running" /\ doing'[p] = doing[p] /\ NoVerdict(doing[p])
    BY <1>2, <1>6 DEF IInv, TypeOK, Launch, HolderKnows, Inside, Stations
  <2>2. HolderKnows(p)'
    BY <1>1, <2>1 DEF HolderKnows, NoVerdict, RecordsOf
  <2> QED
    BY <1>1, <2>2, SilentStep
<1>7. CASE TurnCompletes(p)
  <2>1. /\ pc'[p] = "completed" /\ doing'[p] = doing[p] /\ NoVerdict(doing[p])
        /\ sent[doing[p]] = 1 /\ Started(doing[p], durable)
    BY <1>2, <1>7 DEF IInv, TypeOK, TurnCompletes, HolderKnows, Inside, Stations
  <2>2. HolderKnows(p)'
    BY <1>1, <2>1 DEF HolderKnows, NoVerdict, RecordsOf, Started
  <2> QED
    BY <1>1, <2>2, SilentStep
<1> QED
  BY <1>3, <1>4, <1>5, <1>6, <1>7

LEMMA EndingKnows ==
  ASSUME IInv, VInv, NEW p \in Processes, Abort(p) \/ Crash(p)
  PROVE  VInv'
<1>1. Leave(p) /\ UNCHANGED <<journal, durable, sent, reported, doing>>
  BY DEF Abort, Crash, Caller, fileVars
<1> QED
  BY <1>1, LeaveKnows

LEMMA WritingKnows ==
  ASSUME IInv, VInv, NEW p \in Processes,
         PrepareFails(p) \/ Prepared(p) \/ TurnFails(p) \/ CleanUp(p)
  PROVE  VInv'
<1>1. HolderKnows(p)
  BY DEF VInv
<1>2. /\ "recording" \in Stations /\ "starting" \in Stations
      /\ RecordTypes = {"DELIVERED", "UNCERTAIN", "FAILED_BEFORE_WRITE", "ATTEMPT_STARTED"}
  BY DEF Stations, RecordTypes, Outcomes
<1>3. CASE PrepareFails(p)
  BY <1>2, <1>3, WriteKnows DEF PrepareFails, Verdicts, Inside, Stations
<1>4. CASE Prepared(p)
  BY <1>2, <1>4, WriteKnows DEF Prepared, Verdicts, Inside, Stations
<1>5. CASE TurnFails(p)
  <2>1. pc[p] \in Inside \ {"recording", "settled"} /\ Started(doing[p], durable)
    BY <1>1, <1>5 DEF TurnFails, HolderKnows, Inside, Stations
  <2> QED
    BY <1>2, <1>5, <2>1, WriteKnows DEF TurnFails
<1>6. CASE CleanUp(p)
  <2>1. /\ pc[p] \in Inside \ {"recording", "settled"}
        /\ Started(doing[p], durable) /\ sent[doing[p]] = 1
    BY <1>1, <1>6 DEF CleanUp, HolderKnows, Inside, Stations
  <2>2. PICK o \in {"DELIVERED", "UNCERTAIN"} : Write(p, o, "recording")
    BY <1>6 DEF CleanUp
  <2> QED
    BY <1>2, <2>1, <2>2, WriteKnows
<1> QED
  BY <1>3, <1>4, <1>5, <1>6

LEMMA SyncKnows ==
  ASSUME IInv, VInv, NEW p \in Processes, SyncStart(p) \/ SyncOutcome(p)
  PROVE  VInv'
<1> USE DEF Goto, Leave, Caller
<1>1. HolderKnows(p) /\ ProcessOK(p)
  BY DEF VInv, IInv
<1>2. lock = p
  BY <1>1 DEF ProcessOK, SyncStart, SyncOutcome, Inside, Stations
<1>3. /\ \A q \in Processes \ {p} : pc'[q] = pc[q] /\ doing'[q] = doing[q]
      /\ UNCHANGED <<journal, sent, reported, doing>>
      /\ durable' \in {durable, Len(journal)}
  BY DEF IInv, TypeOK, SyncStart, SyncOutcome
<1>4. CASE pc'[p] = "idle"
  <2>1. HolderKnows(p)'
    BY <1>4 DEF HolderKnows, Inside
  <2> QED
    BY <1>2, <1>3, <2>1, SyncStep
<1>5. CASE pc'[p] # "idle" /\ SyncStart(p)
  <2>1. pc'[p] = "started" /\ durable' = Len(journal)
    BY <1>5 DEF IInv, TypeOK, SyncStart
  <2>2. NoVerdict(doing[p]) /\ Started(doing[p], Len(journal))
    BY <1>1, <1>5 DEF HolderKnows, ProcessOK, SyncStart, Inside, Stations
  <2>3. HolderKnows(p)'
    BY <1>3, <2>1, <2>2 DEF HolderKnows, NoVerdict, RecordsOf, Started
  <2> QED
    BY <1>2, <1>3, <2>3, SyncStep
<1>6. CASE pc'[p] # "idle" /\ SyncOutcome(p)
  <2>1. pc'[p] = "settled" /\ durable' = Len(journal)
    BY <1>6 DEF IInv, TypeOK, SyncOutcome
  <2>2. journal[Len(journal)].msg = doing[p]
    BY <1>1, <1>6 DEF HolderKnows, SyncOutcome
  <2>3. HolderKnows(p)'
    BY <1>3, <2>1, <2>2 DEF HolderKnows
  <2> QED
    BY <1>2, <1>3, <2>3, SyncStep
<1> QED
  BY <1>4, <1>5, <1>6

LEMMA TurnStartKnows ==
  ASSUME IInv, VInv, NEW p \in Processes, TurnStart(p)
  PROVE  VInv'
<1> USE DEF Goto, Caller, fileVars
<1>1. HolderKnows(p) /\ ProcessOK(p)
  BY DEF VInv, IInv
<1>2. /\ lock = p /\ doing[p] \in Messages /\ sent[doing[p]] = 0
      /\ NoVerdict(doing[p]) /\ Started(doing[p], durable)
  BY <1>1 DEF ProcessOK, HolderKnows, TurnStart, Inside, Stations
<1>3. /\ \A q \in Processes \ {p} : pc'[q] = pc[q] /\ doing'[q] = doing[q]
      /\ UNCHANGED <<journal, durable, reported, doing>>
  BY DEF IInv, TypeOK, TurnStart
<1>4. \/ pc'[p] = "waiting" /\ sent'[doing[p]] = 1
      \/ pc'[p] = "ambiguous"
  BY <1>2 DEF IInv, TypeOK, TurnStart
<1>5. HolderKnows(p)'
  BY <1>2, <1>3, <1>4 DEF HolderKnows, NoVerdict, RecordsOf, Started
<1>6. \A q \in Processes \ {p} : HolderKnows(q)'
  BY <1>2, <1>3, OthersKnow
<1>7. \A m \in Messages : m # doing[p] => sent'[m] = sent[m]
  BY DEF IInv, TypeOK, TurnStart
<1>8. DeliveredWasSent'
  <2> SUFFICES ASSUME NEW j \in DOMAIN journal, journal[j].event = "DELIVERED"
               PROVE  sent'[journal[j].msg] = 1
    BY <1>3 DEF DeliveredWasSent
  <2>1. journal[j].msg # doing[p]
    BY <1>2 DEF NoVerdict, RecordsOf, Verdicts
  <2>2. journal[j].msg \in Messages
    <3>1. journal[j] \in Records
      BY DEF IInv, TypeOK
    <3> QED
      BY <3>1 DEF Records
  <2> QED
    BY <1>7, <2>1, <2>2 DEF VInv, DeliveredWasSent
<1>9. VerdictsAreLast' /\ VerdictsFollowStarts' /\ ReportsAreDurable'
  BY <1>3 DEF VInv, VerdictsAreLast, VerdictsFollowStarts, ReportsAreDurable,
     Started, IsDurable
<1> QED
  BY <1>5, <1>6, <1>8, <1>9 DEF VInv

\* The caller is told the last record, which is its own and synchronised.
LEMMA ReturnKnows ==
  ASSUME IInv, VInv, NEW p \in Processes, Return(p)
  PROVE  VInv'
<1> USE DEF Goto, Leave, Caller, fileVars
<1>1. HolderKnows(p) /\ ProcessOK(p)
  BY DEF VInv, IInv
<1>2. /\ pc'[p] = "idle"
      /\ \A q \in Processes \ {p} : pc'[q] = pc[q] /\ doing'[q] = doing[q]
      /\ UNCHANGED <<journal, durable, sent, doing>>
  BY DEF IInv, TypeOK, Return
<1>3. \A q \in Processes : HolderKnows(q)'
  <2>1. HolderKnows(p)'
    BY <1>2 DEF HolderKnows, Inside
  <2>2. \A q \in Processes \ {p} : HolderKnows(q)'
    BY <1>2, OthersKnow
  <2> QED
    BY <2>1, <2>2
<1>4. IsDurable(journal[Len(journal)].event, doing[p])
  <2> DEFINE n == Len(journal)
  <2>1. durable = n /\ n \in Nat /\ journal # <<>> /\ journal[n].msg = doing[p]
    BY <1>1 DEF Return, HolderKnows, ProcessOK, IInv, TypeOK
  <2>2. n \in 1..durable
    BY <2>1 DEF IInv, TypeOK
  <2>3. journal[n] \in Records
    BY <2>1, <2>2 DEF IInv, TypeOK
  <2>4. journal[n] = [event |-> journal[n].event, msg |-> journal[n].msg]
    BY <2>3 DEF Records
  <2> QED
    BY <2>1, <2>2, <2>4 DEF IsDurable
<1>5. ReportsAreDurable'
  <2> SUFFICES ASSUME NEW m \in Messages, NEW o \in Verdicts, <<m, o>> \in reported'
               PROVE  IsDurable(o, m)
    BY <1>2 DEF ReportsAreDurable, IsDurable
  <2>1. <<m, o>> \in reported \/ <<m, o>> = <<doing[p], journal[Len(journal)].event>>
    BY DEF Return
  <2> QED
    BY <1>4, <2>1 DEF VInv, ReportsAreDurable
<1>6. VerdictsAreLast' /\ VerdictsFollowStarts' /\ DeliveredWasSent'
  BY <1>2 DEF VInv, VerdictsAreLast, VerdictsFollowStarts, DeliveredWasSent, Started
<1> QED
  BY <1>3, <1>5, <1>6 DEF VInv

\* A power loss keeps the synchronised records and drops some of the others.
LEMMA PowerLossKeepsDurable ==
  ASSUME IInv, PowerLoss
  PROVE  /\ durable' = durable
         /\ \A j \in 1..durable : journal'[j] = journal[j]
         /\ DOMAIN journal' \subseteq DOMAIN journal
         /\ \A j \in DOMAIN journal' : journal'[j] = journal[j]
<1>1. CASE Truncated
  <2>1. PICK n \in durable..Len(journal) : journal' = SubSeq(journal, 1, n)
    BY <1>1 DEF Truncated
  <2>2. journal \in Seq(Records) /\ n \in Nat /\ n <= Len(journal)
        /\ durable \in Nat /\ durable <= n /\ Len(journal) \in Nat
    BY DEF IInv, TypeOK
  <2>3. /\ \A j \in 1..n : journal'[j] = journal[j]
        /\ DOMAIN journal' = 1..n /\ DOMAIN journal = 1..Len(journal)
    BY <2>1, <2>2
  <2> QED
    BY <1>1, <2>2, <2>3 DEF Truncated
<1>2. CASE Vanished
  <2>1. journal = <<>> /\ durable = 0
    BY <1>2 DEF Vanished, IInv, TypeOK, LinkedFirst
  <2> QED
    BY <1>2, <2>1 DEF Vanished
<1> QED
  BY <1>1, <1>2 DEF PowerLoss

LEMMA PowerLossKnows == IInv /\ VInv /\ PowerLoss => VInv'
<1> SUFFICES ASSUME IInv, VInv, PowerLoss PROVE VInv'
  OBVIOUS
<1>1. /\ durable' = durable
      /\ \A j \in 1..durable : journal'[j] = journal[j]
      /\ DOMAIN journal' \subseteq DOMAIN journal
      /\ \A j \in DOMAIN journal' : journal'[j] = journal[j]
  BY PowerLossKeepsDurable
<1>2. UNCHANGED <<sent, reported>>
  BY DEF PowerLoss
<1>3. \A p \in Processes : HolderKnows(p)'
  BY DEF PowerLoss, HolderKnows, Inside
<1>4. /\ \A m : Started(m, durable) => Started(m, durable)'
      /\ \A e, m : IsDurable(e, m) => IsDurable(e, m)'
  BY <1>1 DEF Started, IsDurable
<1>5. VerdictsAreLast' /\ DeliveredWasSent'
  BY <1>1, <1>2 DEF VInv, VerdictsAreLast, DeliveredWasSent
<1>6. VerdictsFollowStarts'
  BY <1>1, <1>4 DEF VInv, VerdictsFollowStarts
<1>7. ReportsAreDurable'
  BY <1>2, <1>4 DEF VInv, ReportsAreDurable
<1> QED
  BY <1>3, <1>5, <1>6, <1>7 DEF VInv

LEMMA NextVInv == IInv /\ VInv /\ [Next]_deliveryVars => VInv'
<1> SUFFICES ASSUME IInv, VInv, [Next]_deliveryVars PROVE VInv'
  OBVIOUS
<1>1. ASSUME NEW p \in Processes, Step(p) PROVE VInv'
  BY <1>1, EarlyStepKnows, EndingKnows, WritingKnows, SyncKnows, TurnStartKnows,
     ReturnKnows DEF Step
<1>2. ASSUME NEW p \in Processes, Crash(p) PROVE VInv'
  BY <1>2, EndingKnows
<1>3. ASSUME NEW p \in Processes, NEW m \in Messages, Confirm(p, m) \/ Perform(p, m)
      PROVE  VInv'
  BY <1>3, EarlyStepKnows
<1>4. CASE PowerLoss
  BY <1>4, PowerLossKnows
<1>5. CASE UNCHANGED deliveryVars
  BY <1>5 DEF deliveryVars, VInv, HolderKnows, NoVerdict, RecordsOf, Started,
     VerdictsAreLast, VerdictsFollowStarts, DeliveredWasSent, ReportsAreDurable, IsDurable
<1> QED
  BY <1>1, <1>2, <1>3, <1>4, <1>5 DEF Next

-----------------------------------------------------------------------------
(* The promise of the journal, read off its durable records.                 *)

\* The stage of a message, from the kinds of its durable records.
StageFacts ==
  \A m \in Messages :
    /\ StageOf(m) \in Once!Stages
    /\ IsDurable("DELIVERED", m) => ~IsDurable("UNCERTAIN", m)
    /\ StageOf(m) = "delivered" <=> IsDurable("DELIVERED", m)
    /\ StageOf(m) = "uncertain" <=> IsDurable("UNCERTAIN", m)
    /\ StageOf(m) = "begun" <=>
         /\ IsDurable("ATTEMPT_STARTED", m)
         /\ ~IsDurable("DELIVERED", m) /\ ~IsDurable("UNCERTAIN", m)

\* Where a message is, as the abstract promise sees it, now and after a step.
LEMMA Staging == IInv /\ VInv => StageFacts
<1> SUFFICES ASSUME IInv, VInv, NEW m \in Messages
             PROVE  /\ StageOf(m) \in Once!Stages
                    /\ IsDurable("DELIVERED", m) => ~IsDurable("UNCERTAIN", m)
                    /\ StageOf(m) = "delivered" <=> IsDurable("DELIVERED", m)
                    /\ StageOf(m) = "uncertain" <=> IsDurable("UNCERTAIN", m)
                    /\ StageOf(m) = "begun" <=>
                         /\ IsDurable("ATTEMPT_STARTED", m)
                         /\ ~IsDurable("DELIVERED", m) /\ ~IsDurable("UNCERTAIN", m)
  BY DEF StageFacts
<1> DEFINE Has(e) == \E j \in {i \in RecordsOf(journal, m) : i <= durable} :
                       journal[j].event = e
<1>1. /\ DOMAIN journal = 1..Len(journal) /\ Len(journal) \in Nat
      /\ durable \in Nat /\ durable <= Len(journal)
      /\ \A j \in 1..durable : j \in DOMAIN journal /\ journal[j] \in Records
  BY DEF IInv, TypeOK
<1>2. ASSUME NEW e PROVE Has(e) <=> IsDurable(e, m)
  <2>1. ASSUME Has(e) PROVE IsDurable(e, m)
    <3>1. PICK j \in RecordsOf(journal, m) : j <= durable /\ journal[j].event = e
      BY <2>1
    <3>2. j \in 1..durable /\ journal[j].msg = m /\ journal[j] \in Records
      BY <1>1, <3>1 DEF RecordsOf
    <3>3. journal[j] = [event |-> e, msg |-> m]
      BY <3>1, <3>2 DEF Records
    <3> QED
      BY <3>2, <3>3 DEF IsDurable
  <2>2. ASSUME IsDurable(e, m) PROVE Has(e)
    <3>1. PICK j \in 1..durable : journal[j] = [event |-> e, msg |-> m]
      BY <2>2 DEF IsDurable
    <3>2. j \in RecordsOf(journal, m) /\ j <= durable /\ journal[j].event = e
      BY <1>1, <3>1 DEF RecordsOf
    <3> QED
      BY <3>2
  <2> QED
    BY <2>1, <2>2
<1>3. ~(IsDurable("DELIVERED", m) /\ IsDurable("UNCERTAIN", m))
  <2> SUFFICES ASSUME NEW j \in 1..durable, NEW n \in 1..durable,
                      journal[j] = [event |-> "DELIVERED", msg |-> m],
                      journal[n] = [event |-> "UNCERTAIN", msg |-> m]
               PROVE  FALSE
    BY DEF IsDurable
  <2>1. n <= j /\ j <= n
    BY <1>1 DEF VInv, VerdictsAreLast, Verdicts
  <2>2. j = n
    BY <2>1
  <2> QED
    BY <2>2
<1>4. StageOf(m) = CASE Has("DELIVERED")       -> "delivered"
                     [] Has("UNCERTAIN")       -> "uncertain"
                     [] Has("ATTEMPT_STARTED") /\ ~Has("DELIVERED") /\ ~Has("UNCERTAIN")
                                               -> "begun"
                     [] OTHER                  -> "open"
  BY DEF StageOf
<1> HIDE DEF Has
<1> QED
  BY <1>2, <1>3, <1>4 DEF Once!Stages

LEMMA StagingNext == (IInv /\ VInv)' => StageFacts'
BY Staging, PTL

\* A message neither started, settled nor handed over stays where it is.
LEMMA StageStays ==
  ASSUME StageFacts, StageFacts', NEW m \in Messages,
         \A e \in RecordTypes : IsDurable(e, m)' <=> IsDurable(e, m)
  PROVE  StageOf(m)' = StageOf(m)
<1>1. /\ IsDurable("DELIVERED", m)' <=> IsDurable("DELIVERED", m)
      /\ IsDurable("UNCERTAIN", m)' <=> IsDurable("UNCERTAIN", m)
      /\ IsDurable("ATTEMPT_STARTED", m)' <=> IsDurable("ATTEMPT_STARTED", m)
  BY DEF RecordTypes, Outcomes
<1>2. StageOf(m) \in Once!Stages /\ StageOf(m)' \in Once!Stages
  BY DEF StageFacts
<1> QED
  BY <1>1, <1>2 DEF StageFacts, Once!Stages

\* One synchronisation may begin or settle several messages at once, but none
\* is begun and settled by the same one.
LEMMA SyncedStage ==
  ASSUME IInv, VInv, StageFacts, StageFacts', NEW m \in Messages,
         UNCHANGED <<journal, sent>>, durable' = Len(journal)
  PROVE  \/ StageOf(m)' = StageOf(m)
         \/ StageOf(m) = "open" /\ StageOf(m)' = "begun"
         \/ StageOf(m) = "begun" /\ StageOf(m)' = "uncertain"
         \/ StageOf(m) = "begun" /\ StageOf(m)' = "delivered" /\ sent[m] = 1
<1>1. durable \in Nat /\ durable' \in Nat /\ durable <= durable'
      /\ \A j \in 1..durable' : j \in DOMAIN journal
  BY DEF IInv, TypeOK
<1>2. \A e : IsDurable(e, m) => IsDurable(e, m)'
  BY <1>1 DEF IsDurable
<1>3. ASSUME NEW v \in Verdicts, IsDurable(v, m)'
      PROVE  IsDurable("ATTEMPT_STARTED", m) /\ (v = "DELIVERED" => sent[m] = 1)
  <2>1. PICK j \in 1..durable' : journal[j] = [event |-> v, msg |-> m]
    BY <1>3 DEF IsDurable
  <2>2. j \in DOMAIN journal /\ journal[j].event = v /\ journal[j].msg = m
    BY <1>1, <2>1
  <2>3. Started(m, durable) /\ (v = "DELIVERED" => sent[m] = 1)
    BY <2>2 DEF VInv, VerdictsFollowStarts, DeliveredWasSent
  <2> QED
    BY <2>3 DEF Started, IsDurable
<1>4. /\ IsDurable("DELIVERED", m)' =>
           IsDurable("ATTEMPT_STARTED", m) /\ sent[m] = 1
      /\ IsDurable("UNCERTAIN", m)' => IsDurable("ATTEMPT_STARTED", m)
  BY <1>3 DEF Verdicts
<1>5. StageOf(m) \in Once!Stages /\ StageOf(m)' \in Once!Stages
  BY DEF StageFacts
<1> QED
  BY <1>2, <1>4, <1>5 DEF StageFacts, Once!Stages

\* What a step does to the durable records and to the target.
LEMMA DurableSteps ==
  ASSUME IInv, VInv, [Next]_deliveryVars
  PROVE  \/ /\ durable' = durable
            /\ \A j \in 1..durable : journal'[j] = journal[j]
            /\ UNCHANGED sent
         \/ /\ durable' = Len(journal)
            /\ UNCHANGED <<journal, sent>>
         \/ \E p \in Processes :
              /\ UNCHANGED <<journal, durable>>
              /\ doing[p] \in Messages
              /\ NoVerdict(doing[p]) /\ Started(doing[p], durable)
              /\ sent[doing[p]] = 0 /\ sent' = [sent EXCEPT ![doing[p]] = @ + 1]
<1> DEFINE Same == /\ durable' = durable
                   /\ \A j \in 1..durable : journal'[j] = journal[j]
                   /\ UNCHANGED sent
<1> USE DEF Caller, fileVars
<1>1. ASSUME NEW p \in Processes,
             \/ \E m \in Messages : Confirm(p, m) \/ Perform(p, m)
             \/ OpenJournal(p) \/ Admit(p) \/ Abort(p) \/ Launch(p)
             \/ TurnCompletes(p) \/ Return(p) \/ Crash(p)
      PROVE  Same
  BY <1>1 DEF Confirm, Perform, OpenJournal, Admit, Abort, Launch, TurnCompletes,
     Return, Crash
<1>2. ASSUME NEW p \in Processes, NEW event, NEW next, Write(p, event, next)
      PROVE  Same
  <2>1. durable' = durable /\ UNCHANGED sent
    BY <1>2 DEF Write
  <2>2. journal \in Seq(Records) /\ durable \in 0..Len(journal)
    BY DEF IInv, TypeOK
  <2>3. journal' = journal \/ journal' = Append(journal, [event |-> event, msg |-> doing[p]])
    BY <1>2 DEF Write
  <2>4. \A j \in 1..durable : journal'[j] = journal[j]
    BY <2>2, <2>3
  <2> QED
    BY <2>1, <2>4
<1>3. ASSUME NEW p \in Processes,
             PrepareFails(p) \/ Prepared(p) \/ TurnFails(p) \/ CleanUp(p)
      PROVE  Same
  <2> HIDE DEF Same
  <2> QED
    BY <1>2, <1>3 DEF PrepareFails, Prepared, TurnFails, CleanUp
<1>4. ASSUME NEW p \in Processes, SyncStart(p) \/ SyncOutcome(p)
      PROVE  Same \/ (durable' = Len(journal) /\ UNCHANGED <<journal, sent>>)
  BY <1>4 DEF SyncStart, SyncOutcome
<1>5. ASSUME NEW p \in Processes, TurnStart(p)
      PROVE  \/ Same
             \/ /\ UNCHANGED <<journal, durable>>
                /\ doing[p] \in Messages
                /\ NoVerdict(doing[p]) /\ Started(doing[p], durable)
                /\ sent[doing[p]] = 0 /\ sent' = [sent EXCEPT ![doing[p]] = @ + 1]
  <2>1. HolderKnows(p) /\ ProcessOK(p)
    BY DEF VInv, IInv
  <2>2. /\ doing[p] \in Messages /\ sent[doing[p]] = 0
        /\ NoVerdict(doing[p]) /\ Started(doing[p], durable)
    BY <1>5, <2>1 DEF ProcessOK, HolderKnows, TurnStart, Inside, Stations
  <2> QED
    BY <1>5, <2>2 DEF TurnStart
<1>6. PowerLoss => Same
  <2>1. ASSUME PowerLoss PROVE Same
    BY <2>1, PowerLossKeepsDurable DEF PowerLoss
  <2> QED
    BY <2>1
<1>7. UNCHANGED deliveryVars => Same
  BY DEF deliveryVars
<1> HIDE DEF Same
<1>8. CASE Same
  BY <1>8 DEF Same
<1>9. CASE ~Same
  BY <1>1, <1>3, <1>4, <1>5, <1>6, <1>7, <1>9 DEF Next, Step
<1> QED
  BY <1>8, <1>9

\* Every step of the processes and the disk is a step of the promise.
LEMMA StepKeepsPromise ==
  ASSUME IInv, IInv', VInv, VInv', [Next]_deliveryVars
  PROVE  Once!Next
<1>1. StageFacts /\ StageFacts'
  BY Staging, StagingNext
<1>2. /\ [m \in Messages |-> StageOf(m)]' \in [Messages -> Once!Stages]
      /\ sent' \in [Messages -> Nat]
  BY <1>1 DEF StageFacts, IInv, TypeOK
<1> DEFINE Moves(m) ==
      \/ StageOf(m)' = StageOf(m) /\ sent'[m] = sent[m]
      \/ StageOf(m) = "open" /\ StageOf(m)' = "begun" /\ sent'[m] = sent[m]
      \/ /\ StageOf(m) = "begun" /\ StageOf(m)' = StageOf(m)
         /\ sent[m] = 0 /\ sent'[m] = 1
      \/ /\ StageOf(m) = "begun" /\ sent'[m] = sent[m]
         /\ \/ StageOf(m)' = "uncertain"
            \/ StageOf(m)' = "delivered" /\ sent[m] = 1
<1>3. ASSUME NEW m \in Messages PROVE Moves(m)
  <2>1. CASE /\ durable' = durable
             /\ \A j \in 1..durable : journal'[j] = journal[j]
             /\ UNCHANGED sent
    <3>1. \A e : IsDurable(e, m)' <=> IsDurable(e, m)
      BY <2>1 DEF IsDurable
    <3> QED
      BY <1>1, <2>1, <3>1, StageStays
  <2>2. CASE durable' = Len(journal) /\ UNCHANGED <<journal, sent>>
    BY <1>1, <2>2, SyncedStage
  <2>3. ASSUME NEW p \in Processes,
               UNCHANGED <<journal, durable>>,
               doing[p] \in Messages,
               NoVerdict(doing[p]), Started(doing[p], durable),
               sent[doing[p]] = 0, sent' = [sent EXCEPT ![doing[p]] = @ + 1]
        PROVE  Moves(m)
    <3>1. \A e : IsDurable(e, m)' <=> IsDurable(e, m)
      BY <2>3 DEF IsDurable
    <3>2. StageOf(m)' = StageOf(m)
      BY <1>1, <3>1, StageStays
    <3>3. CASE m # doing[p]
      BY <2>3, <3>2, <3>3 DEF IInv, TypeOK
    <3>4. CASE m = doing[p]
      <4>1. sent[m] = 0 /\ sent'[m] = 1
        BY <2>3, <3>4 DEF IInv, TypeOK
      <4>2. \A j \in 1..durable : j \in DOMAIN journal
        BY DEF IInv, TypeOK
      <4>3. ~IsDurable("DELIVERED", m) /\ ~IsDurable("UNCERTAIN", m)
        BY <2>3, <3>4, <4>2 DEF NoVerdict, RecordsOf, IsDurable, Verdicts
      <4>4. IsDurable("ATTEMPT_STARTED", m)
        BY <2>3, <3>4 DEF Started, IsDurable
      <4> QED
        BY <1>1, <3>2, <4>1, <4>3, <4>4 DEF StageFacts
    <3> QED
      BY <3>3, <3>4
  <2> HIDE DEF Moves
  <2> QED
    BY <2>1, <2>2, <2>3, DurableSteps
<1>4. ASSUME NEW m \in Messages
      PROVE  Once!Stay(m) \/ Once!Begin(m) \/ Once!Hand(m) \/ Once!Settle(m)
  <2>1. Moves(m)
    BY <1>3
  <2> QED
    BY <2>1 DEF Once!Stay, Once!Begin, Once!Hand, Once!Settle
<1> QED
  BY <1>2, <1>4 DEF Once!Next

LEMMA InitKeepsPromise == Init => Once!Init
<1> SUFFICES ASSUME Init PROVE Once!Init
  OBVIOUS
<1>1. StageFacts
  BY InitIInv, InitVInv, Staging
<1>2. \A m \in Messages : \A e : ~IsDurable(e, m)
  BY DEF Init, IsDurable
<1>3. \A m \in Messages : StageOf(m) = "open"
  BY <1>1, <1>2 DEF StageFacts, Once!Stages
<1> QED
  BY <1>3 DEF Init, Once!Init

-----------------------------------------------------------------------------
\* VInv holds of every reachable state, next to IInv.
THEOREM VerdictsInductive == Spec => []VInv
<1>1. Init => VInv
  BY InitVInv
<1>2. IInv /\ VInv /\ [Next]_deliveryVars => VInv'
  BY NextVInv
<1> QED
  BY <1>1, <1>2, Inductive, PTL DEF Spec

\* What start_and_wait told a caller stands in the synchronised journal as the
\* last record of the message, whatever other processes, kills and power losses
\* do: no two callers are told different verdicts and none is taken back.
THEOREM VerdictsStand == Spec => []ReportsStand
<1>1. VInv /\ IInv => ReportsStand
  <2> SUFFICES ASSUME VInv, IInv, NEW m \in Messages, NEW o \in Verdicts, <<m, o>> \in reported
               PROVE  \E j \in 1..durable :
                        /\ journal[j] = [event |-> o, msg |-> m]
                        /\ \A n \in RecordsOf(journal, m) : n <= j
    BY DEF ReportsStand, Verdicts
  <2>1. PICK j \in 1..durable : journal[j] = [event |-> o, msg |-> m]
    BY DEF VInv, ReportsAreDurable, IsDurable
  <2>2. j \in DOMAIN journal /\ journal[j].event \in Verdicts /\ journal[j].msg = m
    BY <2>1 DEF IInv, TypeOK
  <2>3. \A n \in RecordsOf(journal, m) : n <= j
    BY <2>2 DEF VInv, VerdictsAreLast, RecordsOf
  <2> QED
    BY <2>1, <2>3
<1> QED
  BY <1>1, Inductive, VerdictsInductive, PTL

\* The journal, its lock, its synchronisation and the attempts that use them
\* keep the promise of DeliverOnce, for any number of processes and messages.
THEOREM JournalKeepsPromise == Spec => ImplementsDeliverOnce
<1>1. Init => Once!Init
  BY InitKeepsPromise
<1>2. IInv /\ IInv' /\ VInv /\ VInv' /\ [Next]_deliveryVars => Once!Next
  BY StepKeepsPromise
<1> QED
  BY <1>1, <1>2, Inductive, VerdictsInductive, PTL DEF Spec, ImplementsDeliverOnce, Once!Spec

-----------------------------------------------------------------------------
(* Confirmations.  A process that holds an unused capability, or that used   *)
(* it and has recorded nothing yet, still has a confirmation to spend; each  *)
(* attempt on record has spent one, and no confirmation pays for two.        *)

Unrecorded == {"opening", "creating", "adopting", "admitted", "running"}

Credits(m) ==
  {p \in Processes :
     \/ cap[p].msg = m /\ ~cap[p].used
     \/ pc[p] \in Unrecorded /\ doing[p] = m}

Attempts(m) ==
  {j \in RecordsOf(journal, m) :
     journal[j].event \in {"ATTEMPT_STARTED", "FAILED_BEFORE_WRITE"}}

Paid(m) ==
  /\ IsFiniteSet(Credits(m))
  /\ Cardinality(Credits(m)) + Cardinality(Attempts(m)) <= confirmed[m]

CInv ==
  /\ \A p \in Processes : pc[p] # "idle" => cap[p].used
  /\ \A m \in Messages : Paid(m)

\* The attempts of a message can be counted.
LEMMA AttemptsFinite ==
  IInv => \A m \in Messages : IsFiniteSet(Attempts(m)) /\ Cardinality(Attempts(m)) \in Nat
<1> SUFFICES ASSUME IInv, NEW m \in Messages
             PROVE  IsFiniteSet(Attempts(m)) /\ Cardinality(Attempts(m)) \in Nat
  OBVIOUS
<1>1. Attempts(m) \in SUBSET (1..Len(journal)) /\ Len(journal) \in Nat
  BY DEF Attempts, RecordsOf, IInv, TypeOK
<1>2. IsFiniteSet(1..Len(journal))
  BY <1>1, FS_Interval
<1>3. IsFiniteSet(Attempts(m))
  BY <1>1, <1>2, FS_Subset
<1> QED
  BY <1>3, FS_CardinalityType

LEMMA InitCInv == Init => CInv
<1> SUFFICES ASSUME Init PROVE CInv
  OBVIOUS
<1>1. \A p \in Processes : pc[p] = "idle" /\ cap[p].used
  BY DEF Init, NoCap
<1>2. ASSUME NEW m \in Messages PROVE Paid(m)
  <2>1. Credits(m) = {} /\ Attempts(m) = {} /\ confirmed[m] = 0
    BY <1>1 DEF Init, Credits, Attempts, RecordsOf, Unrecorded
  <2> QED
    BY <2>1, FS_EmptySet DEF Paid
<1> QED
  BY <1>1, <1>2 DEF CInv

\* Nothing is spent twice where credits and attempts only go.
LEMMA NothingSpent ==
  ASSUME IInv, IInv', CInv, NEW m \in Messages,
         Credits(m)' \subseteq Credits(m), Attempts(m)' \subseteq Attempts(m),
         confirmed'[m] = confirmed[m]
  PROVE  Paid(m)'
<1> DEFINE C == Credits(m)
           D == Credits(m)'
           A == Attempts(m)
           B == Attempts(m)'
<1>1. IsFiniteSet(C) /\ Cardinality(C) + Cardinality(A) <= confirmed[m]
  BY DEF CInv, Paid
<1>2. IsFiniteSet(A) /\ confirmed[m] \in Nat
  BY AttemptsFinite DEF IInv, TypeOK
<1>3. D \in SUBSET C /\ B \in SUBSET A
  OBVIOUS
<1> HIDE DEF C, D, A, B
<1>4. IsFiniteSet(D) /\ Cardinality(D) <= Cardinality(C)
  BY <1>1, <1>3, FS_Subset
<1>5. IsFiniteSet(B) /\ Cardinality(B) <= Cardinality(A)
  BY <1>2, <1>3, FS_Subset
<1>6. Cardinality(A) \in Nat /\ Cardinality(B) \in Nat
      /\ Cardinality(C) \in Nat /\ Cardinality(D) \in Nat
  BY <1>1, <1>2, <1>4, <1>5, FS_CardinalityType
<1>7. Cardinality(D) + Cardinality(B) <= confirmed[m]
  BY <1>1, <1>2, <1>4, <1>5, <1>6
<1> QED
  BY <1>4, <1>7 DEF Paid, D, B

\* An attempt is recorded, and the process that recorded it has nothing left.
LEMMA OneSpent ==
  ASSUME IInv, IInv', CInv, NEW m \in Messages, NEW p \in Credits(m), NEW x,
         Credits(m)' \subseteq Credits(m) \ {p}, Attempts(m)' \subseteq Attempts(m) \cup {x},
         confirmed'[m] = confirmed[m]
  PROVE  Paid(m)'
<1> DEFINE C == Credits(m)
           D == Credits(m)'
           A == Attempts(m)
           B == Attempts(m)'
<1>1. IsFiniteSet(C) /\ Cardinality(C) + Cardinality(A) <= confirmed[m]
  BY DEF CInv, Paid
<1>2. IsFiniteSet(A) /\ confirmed[m] \in Nat
  BY AttemptsFinite DEF IInv, TypeOK
<1>3. p \in C /\ D \in SUBSET (C \ {p}) /\ B \in SUBSET (A \cup {x})
  OBVIOUS
<1> HIDE DEF C, D, A, B
<1>4. IsFiniteSet(C \ {p}) /\ Cardinality(C \ {p}) = Cardinality(C) - 1
  BY <1>1, <1>3, FS_RemoveElement
<1>5. IsFiniteSet(A \cup {x})
      /\ (Cardinality(A \cup {x}) = Cardinality(A) \/ Cardinality(A \cup {x}) = Cardinality(A) + 1)
  BY <1>2, FS_AddElement
<1>6. IsFiniteSet(D) /\ Cardinality(D) <= Cardinality(C \ {p})
  BY <1>3, <1>4, FS_Subset
<1>7. IsFiniteSet(B) /\ Cardinality(B) <= Cardinality(A \cup {x})
  BY <1>3, <1>5, FS_Subset
<1>8. Cardinality(A) \in Nat /\ Cardinality(B) \in Nat
      /\ Cardinality(C) \in Nat /\ Cardinality(D) \in Nat
  BY <1>1, <1>2, <1>6, <1>7, FS_CardinalityType
<1>9. Cardinality(D) + Cardinality(B) <= confirmed[m]
  BY <1>1, <1>2, <1>4, <1>5, <1>6, <1>7, <1>8
<1> QED
  BY <1>6, <1>9 DEF Paid, D, B

\* A confirmation gives one process one attempt.
LEMMA OneConfirmed ==
  ASSUME IInv, IInv', CInv, NEW m \in Messages, NEW p,
         Credits(m)' \subseteq Credits(m) \cup {p}, Attempts(m)' = Attempts(m),
         confirmed'[m] = confirmed[m] + 1
  PROVE  Paid(m)'
<1> DEFINE C == Credits(m)
           D == Credits(m)'
           A == Attempts(m)
<1>1. IsFiniteSet(C) /\ Cardinality(C) + Cardinality(A) <= confirmed[m]
  BY DEF CInv, Paid
<1>2. IsFiniteSet(A) /\ confirmed[m] \in Nat
  BY AttemptsFinite DEF IInv, TypeOK
<1>3. D \in SUBSET (C \cup {p}) /\ Attempts(m)' = A
  OBVIOUS
<1> HIDE DEF C, D, A
<1>4. IsFiniteSet(C \cup {p})
      /\ (Cardinality(C \cup {p}) = Cardinality(C) \/ Cardinality(C \cup {p}) = Cardinality(C) + 1)
  BY <1>1, FS_AddElement
<1>5. IsFiniteSet(D) /\ Cardinality(D) <= Cardinality(C \cup {p})
  BY <1>3, <1>4, FS_Subset
<1>6. Cardinality(A) \in Nat /\ Cardinality(C) \in Nat /\ Cardinality(D) \in Nat
  BY <1>1, <1>2, <1>5, FS_CardinalityType
<1>7. Cardinality(D) + Cardinality(A) <= confirmed[m] + 1
  BY <1>1, <1>2, <1>4, <1>5, <1>6
<1> QED
  BY <1>3, <1>5, <1>7 DEF Paid, D

\* The call of p ends, or goes on, with what it had.
LEMMA ThriftyStep ==
  ASSUME IInv, IInv', CInv, NEW p \in Processes,
         \A q \in Processes \ {p} :
           pc'[q] = pc[q] /\ doing'[q] = doing[q] /\ cap'[q] = cap[q],
         pc'[p] # "idle" => cap'[p].used,
         \A m \in Messages : p \in Credits(m)' => p \in Credits(m),
         \A m \in Messages : Attempts(m)' \subseteq Attempts(m),
         confirmed' = confirmed
  PROVE  CInv'
<1>1. \A q \in Processes : pc'[q] # "idle" => cap'[q].used
  BY DEF CInv
<1>2. ASSUME NEW m \in Messages PROVE Paid(m)'
  <2>1. \A q \in Processes \ {p} : q \in Credits(m)' <=> q \in Credits(m)
    BY DEF Credits
  <2>2. Credits(m)' \subseteq Processes /\ Credits(m) \subseteq Processes
    BY DEF Credits
  <2>3. Credits(m)' \subseteq Credits(m)
    BY <2>1, <2>2
  <2> QED
    BY <2>3, NothingSpent
<1> QED
  BY <1>1, <1>2 DEF CInv

\* Leaving the records alone leaves the attempts alone.
LEMMA SameAttempts ==
  ASSUME journal' = journal
  PROVE  \A m : Attempts(m)' = Attempts(m)
BY DEF Attempts, RecordsOf

\* Every action pays for the attempts it begins, one lemma each.
LEMMA ConfirmPays ==
  ASSUME IInv, IInv', CInv, NEW p \in Processes, NEW m \in Messages, Confirm(p, m)
  PROVE  CInv'
<1> USE DEF Confirm, fileVars
<1>1. cap'[p] = [msg |-> m, used |-> FALSE] /\ \A q \in Processes \ {p} : cap'[q] = cap[q]
  BY DEF IInv, TypeOK
<1>2. pc' = pc /\ doing' = doing /\ pc[p] = "idle"
  OBVIOUS
<1>3. \A q \in Processes : pc'[q] # "idle" => cap'[q].used
  BY <1>1, <1>2 DEF CInv
<1>4. confirmed'[m] = confirmed[m] + 1
      /\ \A n \in Messages : n # m => confirmed'[n] = confirmed[n]
  BY DEF IInv, TypeOK
<1>5. \A n : Attempts(n)' = Attempts(n)
  BY SameAttempts
<1>6. ASSUME NEW n \in Messages PROVE Paid(n)'
  <2>1. Credits(n)' \subseteq Credits(n) \cup {p}
    BY <1>1, <1>2 DEF Credits
  <2>2. CASE n = m
    BY <1>4, <1>5, <2>1, <2>2, OneConfirmed
  <2>3. CASE n # m
    <3>1. Credits(n)' \subseteq Credits(n)
      BY <1>1, <1>2, <2>3 DEF Credits
    <3> QED
      BY <1>4, <1>5, <2>3, <3>1, NothingSpent
  <2> QED
    BY <2>2, <2>3
<1> QED
  BY <1>3, <1>6 DEF CInv

LEMMA PerformPays ==
  ASSUME IInv, IInv', CInv, NEW p \in Processes, NEW m \in Messages, Perform(p, m)
  PROVE  CInv'
<1> USE DEF Perform, Goto, fileVars
<1>1. /\ cap'[p].msg = cap[p].msg /\ cap'[p].used = TRUE
      /\ \A q \in Processes \ {p} :
           pc'[q] = pc[q] /\ doing'[q] = doing[q] /\ cap'[q] = cap[q]
  BY DEF IInv, TypeOK
<1>2. \/ cap[p].msg = m /\ pc'[p] = "opening" /\ doing'[p] = m
      \/ pc'[p] = pc[p] /\ doing'[p] = doing[p]
  BY DEF IInv, TypeOK
<1>3. pc[p] = "idle" /\ ~cap[p].used /\ confirmed' = confirmed
  OBVIOUS
<1>4. \A n \in Messages : p \in Credits(n)' => p \in Credits(n)
  BY <1>1, <1>2, <1>3 DEF Credits, Unrecorded
<1>5. \A n : Attempts(n)' = Attempts(n)
  BY SameAttempts
<1> HIDE DEF Perform
<1> QED
  BY <1>1, <1>3, <1>4, <1>5, ThriftyStep

\* Every step of a process that appends nothing.
LEMMA StepPays ==
  ASSUME IInv, IInv', CInv, NEW p \in Processes,
         \/ OpenJournal(p) \/ Admit(p) \/ Abort(p) \/ Launch(p)
         \/ SyncStart(p) \/ TurnStart(p) \/ TurnCompletes(p)
         \/ SyncOutcome(p) \/ Return(p)
  PROVE  CInv'
<1> USE DEF Goto, Leave, Caller, fileVars
<1>1. UNCHANGED <<journal, doing, cap, confirmed>>
  BY DEF OpenJournal, Admit, Abort, Launch, SyncStart, TurnStart, TurnCompletes,
     SyncOutcome, Return
<1>2. \A q \in Processes \ {p} : pc'[q] = pc[q]
  BY DEF IInv, TypeOK, OpenJournal, Admit, Abort, Launch, SyncStart, TurnStart,
     TurnCompletes, SyncOutcome, Return
<1>3. pc[p] # "idle" /\ (pc'[p] \in Unrecorded => pc[p] \in Unrecorded)
  BY DEF IInv, TypeOK, OpenJournal, Admit, Abort, Launch, SyncStart, TurnStart,
     TurnCompletes, SyncOutcome, Return, Unrecorded
<1>4. cap'[p].used
  BY <1>1, <1>3 DEF CInv
<1>5. \A m \in Messages : p \in Credits(m)' => p \in Credits(m)
  BY <1>1, <1>3 DEF Credits
<1>6. \A m : Attempts(m)' = Attempts(m)
  BY <1>1, SameAttempts
<1> QED
  BY <1>1, <1>2, <1>4, <1>5, <1>6, ThriftyStep

LEMMA CrashPays ==
  ASSUME IInv, IInv', CInv, NEW p \in Processes, Crash(p)
  PROVE  CInv'
<1> USE DEF Crash, Goto, Leave, fileVars
<1>1. /\ pc'[p] = "idle" /\ cap'[p].used /\ confirmed' = confirmed
      /\ \A q \in Processes \ {p} :
           pc'[q] = pc[q] /\ doing'[q] = doing[q] /\ cap'[q] = cap[q]
  BY DEF IInv, TypeOK, NoCap
<1>2. \A m \in Messages : p \notin Credits(m)'
  BY <1>1 DEF Credits, Unrecorded
<1>3. \A m : Attempts(m)' = Attempts(m)
  BY SameAttempts
<1> HIDE DEF Crash
<1> QED
  BY <1>1, <1>2, <1>3, ThriftyStep

\* A record of an attempt spends the confirmation of the process that wrote it;
\* a verdict is no attempt.
LEMMA WritePays ==
  ASSUME IInv, IInv', CInv, NEW p \in Processes, NEW event \in RecordTypes,
         NEW next \in Stations \ Unrecorded, pc[p] \in Inside, Write(p, event, next),
         event \notin Verdicts => pc[p] = "running"
  PROVE  CInv'
<1> USE DEF Goto, Leave, Caller
<1>1. /\ UNCHANGED <<doing, cap, confirmed>> /\ cap[p].used /\ doing[p] \in Messages
      /\ \A q \in Processes \ {p} : pc'[q] = pc[q]
  <2>1. UNCHANGED <<doing, cap, confirmed>>
    BY DEF Write
  <2>2. cap[p].used /\ doing[p] \in Messages
    BY DEF CInv, IInv, ProcessOK, Inside
  <2>3. \A q \in Processes \ {p} : pc'[q] = pc[q]
    BY DEF Write, IInv, TypeOK
  <2> QED
    BY <2>1, <2>2, <2>3
<1>2. pc'[p] \notin Unrecorded
  BY DEF Write, IInv, TypeOK, Unrecorded
<1>3. \A m \in Messages : p \notin Credits(m)'
  BY <1>1, <1>2 DEF Credits
<1>4. CASE journal' = journal
  BY <1>1, <1>3, <1>4, SameAttempts, ThriftyStep
<1>5. CASE journal' = Append(journal, [event |-> event, msg |-> doing[p]])
  <2>1. /\ DOMAIN journal = 1..Len(journal) /\ Len(journal) \in Nat
        /\ DOMAIN journal' = 1..(Len(journal) + 1)
        /\ \A j \in 1..Len(journal) : journal'[j] = journal[j]
        /\ journal'[Len(journal) + 1] = [event |-> event, msg |-> doing[p]]
    BY <1>5 DEF IInv, TypeOK
  <2>2. \A m \in Messages : \A j \in Attempts(m)' :
          \/ j \in Attempts(m)
          \/ j = Len(journal) + 1 /\ m = doing[p] /\ event \notin Verdicts
    BY <2>1 DEF Attempts, RecordsOf, Verdicts
  <2>3. CASE event \in Verdicts
    <3>1. \A m \in Messages : Attempts(m)' \subseteq Attempts(m)
      BY <2>2, <2>3
    <3> QED
      BY <1>1, <1>3, <3>1, ThriftyStep
  <2>4. CASE event \notin Verdicts
    <3>1. ASSUME NEW m \in Messages PROVE Paid(m)'
      <4>1. Credits(m)' \subseteq Credits(m) \ {p}
        <5>1. \A q \in Processes \ {p} : q \in Credits(m)' => q \in Credits(m)
          BY <1>1 DEF Credits
        <5>2. Credits(m)' \subseteq Processes
          BY DEF Credits
        <5> QED
          BY <1>3, <5>1, <5>2
      <4>2. CASE m = doing[p]
        <5>1. p \in Credits(m)
          BY <2>4, <4>2 DEF Credits, Unrecorded
        <5>2. Attempts(m)' \subseteq Attempts(m) \cup {Len(journal) + 1}
          BY <2>2
        <5> QED
          BY <1>1, <4>1, <5>1, <5>2, OneSpent
      <4>3. CASE m # doing[p]
        <5>1. Attempts(m)' \subseteq Attempts(m)
          BY <2>2, <4>3
        <5> QED
          BY <1>1, <4>1, <5>1, NothingSpent
      <4> QED
        BY <4>2, <4>3
    <3>2. \A q \in Processes : pc'[q] # "idle" => cap'[q].used
      BY <1>1 DEF CInv
    <3> QED
      BY <3>1, <3>2 DEF CInv
  <2> QED
    BY <2>3, <2>4
<1> QED
  BY <1>4, <1>5 DEF Write

LEMMA WritingPays ==
  ASSUME IInv, IInv', CInv, NEW p \in Processes,
         PrepareFails(p) \/ Prepared(p) \/ TurnFails(p) \/ CleanUp(p)
  PROVE  CInv'
<1>1. PICK event \in RecordTypes, next \in {"recording", "starting"} :
        /\ Write(p, event, next)
        /\ event \notin Verdicts => pc[p] = "running"
  BY DEF PrepareFails, Prepared, TurnFails, CleanUp, RecordTypes, Outcomes, Verdicts
<1>2. pc[p] \in Inside /\ next \in Stations \ Unrecorded
  BY DEF PrepareFails, Prepared, TurnFails, CleanUp, Inside, Stations, Unrecorded
<1> QED
  BY <1>1, <1>2, WritePays

LEMMA PowerLossPays ==
  ASSUME IInv, IInv', CInv, PowerLoss
  PROVE  CInv'
<1>1. \A p \in Processes : pc'[p] = "idle" /\ cap'[p].used
  BY DEF PowerLoss, NoCap
<1>2. \A m \in Messages : Credits(m)' = {}
  BY <1>1 DEF Credits, Unrecorded
<1>3. \A m \in Messages : Attempts(m)' \subseteq Attempts(m)
  BY PowerLossKeepsDurable DEF Attempts, RecordsOf
<1>4. confirmed' = confirmed
  BY DEF PowerLoss
<1>5. \A m \in Messages : Paid(m)'
  BY <1>2, <1>3, <1>4, NothingSpent
<1> QED
  BY <1>1, <1>5 DEF CInv

LEMMA NextCInv == IInv /\ IInv' /\ CInv /\ [Next]_deliveryVars => CInv'
<1> SUFFICES ASSUME IInv, IInv', CInv, [Next]_deliveryVars PROVE CInv'
  OBVIOUS
<1>1. ASSUME NEW p \in Processes, NEW m \in Messages, Confirm(p, m) \/ Perform(p, m)
      PROVE  CInv'
  BY <1>1, ConfirmPays, PerformPays
<1>2. ASSUME NEW p \in Processes, Step(p) PROVE CInv'
  BY <1>2, StepPays, WritingPays DEF Step
<1>3. ASSUME NEW p \in Processes, Crash(p) PROVE CInv'
  BY <1>3, CrashPays
<1>4. CASE PowerLoss
  BY <1>4, PowerLossPays
<1>5. CASE UNCHANGED deliveryVars
  BY <1>5 DEF deliveryVars, CInv, Paid, Credits, Attempts, RecordsOf
<1> QED
  BY <1>1, <1>2, <1>3, <1>4, <1>5 DEF Next

\* Every attempt on record, started or failed before the write, was confirmed on
\* its own: consume() spends a capability before anything else can fail.
THEOREM NoFreeAttempt == Spec => []AttemptsAreConfirmed
<1>1. Init => CInv
  BY InitCInv
<1>2. IInv /\ IInv' /\ CInv /\ [Next]_deliveryVars => CInv'
  BY NextCInv
<1>3. IInv /\ CInv => AttemptsAreConfirmed
  <2> SUFFICES ASSUME IInv, CInv, NEW m \in Messages
               PROVE  Cardinality(Attempts(m)) <= confirmed[m]
    BY DEF AttemptsAreConfirmed, Attempts
  <2>1. Cardinality(Attempts(m)) \in Nat /\ Cardinality(Credits(m)) \in Nat
    BY AttemptsFinite, FS_CardinalityType DEF CInv, Paid
  <2>2. confirmed[m] \in Nat
    BY DEF IInv, TypeOK
  <2>3. Cardinality(Credits(m)) + Cardinality(Attempts(m)) <= confirmed[m]
    BY DEF CInv, Paid
  <2> QED
    BY <2>1, <2>2, <2>3
<1> QED
  BY <1>1, <1>2, <1>3, Inductive, PTL DEF Spec
=============================================================================
