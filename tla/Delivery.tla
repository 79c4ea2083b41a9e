------------------------------ MODULE Delivery ------------------------------
(***************************************************************************)
(* Supervised delivery (ultracode/supervised_delivery.py): foreground      *)
(* processes that share one append-only journal file, each confirmed by an *)
(* operator, each driving its own app-server process.  Between two steps   *)
(* of one process another may run, a process may be killed, and the        *)
(* machine may lose power and with it whatever was not synchronised.       *)
(*                                                                         *)
(* A message stands for a payload hash and a target alias, the pair the    *)
(* journal is searched for.  The hash chain is left out: a file that lost  *)
(* the end of a line is "torn", and a torn file is refused by every reader.*)
(* prepare and the wait for the turn are each one step that succeeds or    *)
(* fails: every read and write in them has a deadline.                     *)
(***************************************************************************)
EXTENDS Naturals, Sequences, FiniteSets

CONSTANTS
  Processes,    \* foreground processes
  Messages,     \* (payload, target alias) pairs
  Nobody,       \* no process holds the file lock
  NoMessage,    \* a process that delivers nothing, a capability never minted
  MaxConfirms,  \* model bound: confirmations of one message
  MaxCrashes    \* model bound: killed processes and power losses

ASSUME NobodyAssumption == Nobody \notin Processes

ASSUME NoMessageAssumption == NoMessage \notin Messages

ASSUME DeliveryBounds == MaxConfirms \in Nat /\ MaxCrashes \in Nat

VARIABLES
  pc,         \* where each process stands in _perform
  doing,      \* the message it delivers
  cap,        \* its confirmation capability: message and whether it was used
  lock,       \* holder of the exclusive flock on the journal
  present,    \* the journal file exists
  linked,     \* its directory entry is durable
  journal,    \* its complete records
  torn,       \* a partial record follows them
  durable,    \* how many of the records are synchronised
  sent,       \* history: turn/start lines that reached the target, by message
  confirmed,  \* history: confirmations, by message
  reported,   \* history: outcomes returned to a caller, <<message, outcome>>
  crashes     \* kills and power losses so far

fileVars == <<present, linked, journal, torn, durable>>

deliveryVars == <<pc, doing, cap, lock, present, linked, journal, torn, durable,
                  sent, confirmed, reported, crashes>>

Outcomes == {"DELIVERED", "FAILED_BEFORE_WRITE", "UNCERTAIN"}

RecordTypes == Outcomes \cup {"ATTEMPT_STARTED"}

Records == [event: RecordTypes, msg: Messages]

Stations ==
  {"idle", "opening", "creating", "adopting", "admitted", "running", "starting",
   "started", "waiting", "ambiguous", "completed", "recording", "settled"}

\* The stations of a process that holds the lock.
Inside == Stations \ {"idle", "opening", "creating", "adopting"}

TypeOK ==
  /\ pc \in [Processes -> Stations]
  /\ doing \in [Processes -> Messages \cup {NoMessage}]
  /\ cap \in [Processes -> [msg: Messages \cup {NoMessage}, used: BOOLEAN]]
  /\ lock \in Processes \cup {Nobody}
  /\ present \in BOOLEAN /\ linked \in BOOLEAN /\ torn \in BOOLEAN
  /\ journal \in Seq(Records)
  /\ durable \in 0..Len(journal)
  /\ sent \in [Messages -> Nat]
  /\ confirmed \in [Messages -> Nat]
  /\ reported \subseteq Messages \X Outcomes
  /\ crashes \in Nat

NoCap == [msg |-> NoMessage, used |-> TRUE]

Init ==
  /\ pc = [p \in Processes |-> "idle"]
  /\ doing = [p \in Processes |-> NoMessage]
  /\ cap = [p \in Processes |-> NoCap]
  /\ lock = Nobody
  /\ present = FALSE /\ linked = FALSE /\ torn = FALSE
  /\ journal = <<>> /\ durable = 0
  /\ sent = [m \in Messages |-> 0]
  /\ confirmed = [m \in Messages |-> 0]
  /\ reported = {}
  /\ crashes = 0

-----------------------------------------------------------------------------
(* Helpers. *)

RecordsOf(log, m) == {j \in DOMAIN log : log[j].msg = m}

\* terminal_for finds neither DELIVERED nor UNCERTAIN: there is no record of
\* the message or its last one is FAILED_BEFORE_WRITE.  A last record
\* ATTEMPT_STARTED reads as UNCERTAIN.
Retryable(log, m) ==
  \A j \in RecordsOf(log, m) :
    (\A n \in RecordsOf(log, m) : n <= j) => log[j].event = "FAILED_BEFORE_WRITE"

Goto(p, station) == pc' = [pc EXCEPT ![p] = station]

\* The call returns or raises: closing the file drops its lock.
Leave(p) ==
  /\ Goto(p, "idle")
  /\ lock' = IF lock = p THEN Nobody ELSE lock

Caller == <<doing, cap, confirmed, crashes>>

\* _Journal.append up to os.write: the whole line, or a part of it or nothing,
\* and then the call raises.
Write(p, event, next) ==
  /\ \/ /\ journal' = Append(journal, [event |-> event, msg |-> doing[p]])
        /\ Goto(p, next)
        /\ UNCHANGED <<torn, lock>>
     \/ /\ torn' \in {torn, TRUE}
        /\ Leave(p)
        /\ UNCHANGED journal
  /\ UNCHANGED <<present, linked, durable, sent, reported, Caller>>

-----------------------------------------------------------------------------
(* The steps of a delivery. *)

\* The operator re-entered the challenge for this preview.
Confirm(p, m) ==
  /\ pc[p] = "idle"
  /\ confirmed[m] < MaxConfirms
  /\ cap' = [cap EXCEPT ![p] = [msg |-> m, used |-> FALSE]]
  /\ confirmed' = [confirmed EXCEPT ![m] = @ + 1]
  /\ UNCHANGED <<pc, doing, lock, fileVars, sent, reported, crashes>>

\* Mutant of Perform: the capability is not marked as used.
PerformUnused(p, m) ==
  /\ pc[p] = "idle"
  /\ ~cap[p].used
  /\ cap[p].msg = m
  /\ Goto(p, "opening") /\ doing' = [doing EXCEPT ![p] = m]
  /\ UNCHANGED <<cap, lock, fileVars, sent, confirmed, reported, crashes>>

\* consume marks the capability as used before it looks at the expiry and at
\* the preview, so a call that is refused has spent the confirmation too.
Perform(p, m) ==
  /\ pc[p] = "idle"
  /\ ~cap[p].used
  /\ cap' = [cap EXCEPT ![p].used = TRUE]
  /\ \/ /\ cap[p].msg = m
        /\ Goto(p, "opening") /\ doing' = [doing EXCEPT ![p] = m]
     \/ UNCHANGED <<pc, doing>>
  /\ UNCHANGED <<lock, fileVars, sent, confirmed, reported, crashes>>

\* Mutant of OpenJournal: an existing file is truncated.
OpenJournalTruncates(p) ==
  /\ pc[p] = "opening"
  /\ Goto(p, "creating")
  /\ present' = TRUE /\ journal' = <<>> /\ torn' = FALSE
  /\ UNCHANGED <<linked, durable, lock, sent, reported, Caller>>

\* O_CREAT | O_EXCL, else the existing file; the lock comes with Admit.
OpenJournal(p) ==
  /\ pc[p] = "opening"
  /\ Goto(p, IF present THEN "adopting" ELSE "creating")
  /\ present' = TRUE
  /\ UNCHANGED <<linked, journal, torn, durable, lock, sent, reported, Caller>>

\* Mutant of Admit: an empty file left by a creator that failed is adopted.
AdmitEmpty(p) ==
  /\ pc[p] \in {"creating", "adopting"}
  /\ lock = Nobody
  /\ ~torn
  /\ Retryable(journal, doing[p])
  /\ Goto(p, "admitted")
  /\ lock' = p
  /\ linked' = (linked \/ pc[p] = "creating")
  /\ UNCHANGED <<present, journal, torn, durable, sent, reported, Caller>>

\* Mutant of Admit: the journal is read without the lock.
AdmitUnlocked(p) ==
  /\ pc[p] \in {"creating", "adopting"}
  /\ pc[p] = "adopting" => journal # <<>> \/ torn
  /\ ~torn
  /\ Retryable(journal, doing[p])
  /\ Goto(p, "admitted")
  /\ lock' = p
  /\ linked' = (linked \/ pc[p] = "creating")
  /\ UNCHANGED <<present, journal, torn, durable, sent, reported, Caller>>

\* A non-blocking flock, the checks on the file read under it, and the search
\* for a terminal record.  What is refused here raises: Abort.
Admit(p) ==
  /\ pc[p] \in {"creating", "adopting"}
  /\ lock = Nobody
  /\ pc[p] = "adopting" => journal # <<>> \/ torn
  /\ ~torn
  /\ Retryable(journal, doing[p])
  /\ Goto(p, "admitted")
  /\ lock' = p
  /\ linked' = (linked \/ pc[p] = "creating")
  /\ UNCHANGED <<present, journal, torn, durable, sent, reported, Caller>>

\* The alias does not resolve, the lock is taken, the journal is refused, a
\* system call fails, or the app-server cannot be launched: nothing is written.
Abort(p) ==
  /\ pc[p] \in {"opening", "creating", "adopting", "admitted"}
  /\ Leave(p)
  /\ UNCHANGED <<fileVars, sent, reported, Caller>>

Launch(p) ==
  /\ pc[p] = "admitted"
  /\ Goto(p, "running")
  /\ UNCHANGED <<lock, fileVars, sent, reported, Caller>>

PrepareFails(p) ==
  /\ pc[p] = "running"
  /\ Write(p, "FAILED_BEFORE_WRITE", "recording")

Prepared(p) ==
  /\ pc[p] = "running"
  /\ Write(p, "ATTEMPT_STARTED", "starting")

\* Mutant of SyncStart: the record is written, not synchronised.
SyncStartSkipped(p) ==
  /\ pc[p] = "starting"
  /\ Goto(p, "started")
  /\ UNCHANGED <<lock, fileVars, sent, reported, Caller>>

\* fsync of ATTEMPT_STARTED; when it fails the call raises.
SyncStart(p) ==
  /\ pc[p] = "starting"
  /\ \/ /\ durable' = Len(journal)
        /\ Goto(p, "started") /\ UNCHANGED lock
     \/ Leave(p) /\ UNCHANGED durable
  /\ UNCHANGED <<present, linked, journal, torn, sent, reported, Caller>>

\* The one turn/start line; a failing write may or may not have reached the
\* target.
TurnStart(p) ==
  /\ pc[p] = "started"
  /\ \/ /\ sent' = [sent EXCEPT ![doing[p]] = @ + 1]
        /\ Goto(p, "waiting")
     \/ Goto(p, "ambiguous") /\ UNCHANGED sent
  /\ UNCHANGED <<lock, fileVars, reported, Caller>>

TurnCompletes(p) ==
  /\ pc[p] = "waiting"
  /\ Goto(p, "completed")
  /\ UNCHANGED <<lock, fileVars, sent, reported, Caller>>

TurnFails(p) ==
  /\ pc[p] \in {"waiting", "ambiguous"}
  /\ Write(p, "UNCERTAIN", "recording")

\* Success is recorded only after the app-server process tree is gone.
CleanUp(p) ==
  /\ pc[p] = "completed"
  /\ \E outcome \in {"DELIVERED", "UNCERTAIN"} : Write(p, outcome, "recording")

\* Mutant of SyncOutcome: the outcome stands without the fsync.
SyncOutcomeSkipped(p) ==
  /\ pc[p] = "recording"
  /\ Goto(p, "settled")
  /\ UNCHANGED <<lock, fileVars, sent, reported, Caller>>

\* fsync of the outcome; when it fails the call raises.
SyncOutcome(p) ==
  /\ pc[p] = "recording"
  /\ \/ /\ durable' = Len(journal)
        /\ Goto(p, "settled") /\ UNCHANGED lock
     \/ Leave(p) /\ UNCHANGED durable
  /\ UNCHANGED <<present, linked, journal, torn, sent, reported, Caller>>

\* After a failure the app-server is cleaned up only now; the caller is told
\* the outcome whatever the cleanup finds.
Return(p) ==
  /\ pc[p] = "settled"
  /\ reported' = reported \cup {<<doing[p], journal[Len(journal)].event>>}
  /\ Leave(p)
  /\ UNCHANGED <<fileVars, sent, Caller>>

\* The process is killed, or an interrupt leaves _perform without a record.
Crash(p) ==
  /\ crashes < MaxCrashes
  /\ pc[p] # "idle"
  /\ Leave(p)
  /\ cap' = [cap EXCEPT ![p] = NoCap]
  /\ crashes' = crashes + 1
  /\ UNCHANGED <<doing, fileVars, sent, confirmed, reported>>

\* What a power loss leaves of a file whose name survives: at least what was
\* synchronised, and perhaps a part of the record after it.
Truncated ==
  /\ \E n \in durable..Len(journal) :
       /\ journal' = SubSeq(journal, 1, n)
       /\ torn' \in BOOLEAN
       /\ torn' => torn \/ n < Len(journal)
  /\ UNCHANGED <<present, durable>>

\* The name was not synchronised: the file is gone with all it held.
Vanished ==
  /\ ~linked
  /\ present' = FALSE /\ journal' = <<>> /\ torn' = FALSE /\ durable' = 0

\* Every process is gone, and with them what only the cache of the disk held.
PowerLoss ==
  /\ crashes < MaxCrashes
  /\ crashes' = crashes + 1
  /\ pc' = [p \in Processes |-> "idle"]
  /\ cap' = [p \in Processes |-> NoCap]
  /\ lock' = Nobody
  /\ Truncated \/ Vanished
  /\ UNCHANGED <<doing, linked, sent, confirmed, reported>>

-----------------------------------------------------------------------------
Step(p) ==
  \/ OpenJournal(p) \/ Admit(p) \/ Abort(p) \/ Launch(p)
  \/ PrepareFails(p) \/ Prepared(p) \/ SyncStart(p)
  \/ TurnStart(p) \/ TurnCompletes(p) \/ TurnFails(p) \/ CleanUp(p)
  \/ SyncOutcome(p) \/ Return(p)

Next ==
  \/ \E p \in Processes :
       \/ \E m \in Messages : Confirm(p, m) \/ Perform(p, m)
       \/ Step(p)
       \/ Crash(p)
  \/ PowerLoss

Spec == Init /\ [][Next]_deliveryVars

-----------------------------------------------------------------------------
(* Properties. *)

\* The target receives a message at most once, whatever processes run, die
\* or are confirmed again, as long as they share the journal.
AtMostOneTurn == \A m \in Messages : sent[m] <= 1

\* Before a turn/start line can reach the target, ATTEMPT_STARTED is in the
\* synchronised part of the journal, and no record after it says that the
\* attempt failed before the write.
SentIsRecorded ==
  \A m \in Messages : sent[m] > 0 =>
    \E j \in 1..durable :
      /\ journal[j] = [event |-> "ATTEMPT_STARTED", msg |-> m]
      /\ \A n \in RecordsOf(journal, m) :
           n > j => journal[n].event # "FAILED_BEFORE_WRITE"

\* Every attempt the journal knows of was confirmed by an operator on its own:
\* no confirmation serves twice, not even after a failure before the write.
AttemptsAreConfirmed ==
  \A m \in Messages :
    Cardinality({j \in RecordsOf(journal, m) :
      journal[j].event \in {"ATTEMPT_STARTED", "FAILED_BEFORE_WRITE"}})
        <= confirmed[m]

\* An outcome a caller was told stands in the durable journal: DELIVERED and
\* UNCERTAIN are the last record of their message, so no two callers are told
\* different ones, and a power loss cannot take them back.
ReportsStand ==
  \A m \in Messages, o \in {"DELIVERED", "UNCERTAIN"} :
    <<m, o>> \in reported =>
      \E j \in 1..durable :
        /\ journal[j] = [event |-> o, msg |-> m]
        /\ \A n \in RecordsOf(journal, m) : n <= j

-----------------------------------------------------------------------------
(* The promise of the journal. *)

StageOf(m) ==
  LET known == {j \in RecordsOf(journal, m) : j <= durable}
      Has(e) == \E j \in known : journal[j].event = e
  IN  CASE Has("DELIVERED")       -> "delivered"
        [] Has("UNCERTAIN")       -> "uncertain"
        [] Has("ATTEMPT_STARTED") /\ ~Has("DELIVERED") /\ ~Has("UNCERTAIN")
                                  -> "begun"
        [] OTHER                  -> "open"

Once == INSTANCE DeliverOnce WITH
  stage  <- [m \in Messages |-> StageOf(m)],
  handed <- sent

\* Every behaviour of the processes and the disk keeps that promise.
ImplementsDeliverOnce == Once!Spec
=============================================================================
