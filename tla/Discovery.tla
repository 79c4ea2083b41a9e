----------------------------- MODULE Discovery -----------------------------
(***************************************************************************)
(* The app-server process of a discovery (_open_initialized_discovery and  *)
(* _CodexProcess of ultracode/supervised_delivery.py): launched in a       *)
(* process group of its own, given a bounded time to answer initialize,    *)
(* taken down with its whole group, and launched again after a failure     *)
(* that no response preceded.  Its processes exit, fork and resist signals *)
(* as they please, and one stuck in the kernel survives even SIGKILL.      *)
(*                                                                         *)
(* "leader" is the child itself and "helper" stands for whatever it forked *)
(* into its group.  A dead leader that has not been waited for still makes *)
(* the group exist.  Of the set of cleanup issues only whether it is empty *)
(* matters.  Time is discrete and passes while the code waits: a step that *)
(* does not wait, the launch included, takes none, and a wait ends when    *)
(* its end has come; only the sleep between two attempts may last longer.  *)
(***************************************************************************)
EXTENDS Naturals, Sequences, FiniteSetsExt

CONSTANTS
  Aggregate,    \* _DISCOVERY_AGGREGATE_SECONDS
  Cleanup,      \* _CLEANUP_SECONDS
  GroupTail,    \* _CLEANUP_TAIL_SECONDS, rounded up
  SignalWait,   \* how long a signal is given to work
  Response,     \* _INITIALIZE_RESPONSE_SECONDS
  MaxAttempts,  \* _DISCOVERY_MAX_ATTEMPTS
  Backoff       \* _DISCOVERY_BACKOFF_SECONDS

ASSUME DiscoveryAssumption ==
  /\ {Aggregate, Cleanup, GroupTail, SignalWait, Response} \subseteq Nat \ {0}
  /\ GroupTail < Cleanup /\ Cleanup < Aggregate
  /\ MaxAttempts \in Nat \ {0}
  /\ Backoff \in [1..(MaxAttempts - 1) -> Nat]

VARIABLES
  now,          \* the monotonic clock
  stage,        \* where the call stands
  attempt,      \* the current attempt
  due,          \* when the current wait ends
  cleanupEnd,   \* cleanup_end of the current cleanup
  alive,        \* living members of the child's process group
  reaped,       \* the child was waited for, or never launched
  verified,     \* the child leads a group of its own
  scanner,      \* the thread that drains stderr
  observed,     \* initialize_response_observed of the current session
  class,        \* why the attempt ends
  issue,        \* cleanup_issue is not None
  provisional,  \* a probe or signal failed and the group was not yet seen gone
  answered      \* history: some attempt has observed an initialize response

processVars == <<alive, reaped, scanner>>
discoveryVars == <<now, stage, attempt, due, cleanupEnd, processVars, verified, observed,
                   class, issue, provisional, answered>>

Transient == {"spawn", "write", "timeout", "eof", "exit"}

\* "none" and "body": the caller was given the session and left it well or not.
Classes == Transient \cup {"validation", "group", "stderr", "shape", "none", "body"}

Cleaning == {"closing", "terminating", "killing", "reaping", "joining", "cleaned"}

DiscoveryStages ==
  {"launching", "initializing", "responded", "connected", "waiting", "returned", "failed"}
    \cup Cleaning

Latest == Aggregate - Cleanup

DiscoveryTypeOK ==
  /\ now \in 0..(Aggregate + Cleanup)
  /\ stage \in DiscoveryStages
  /\ attempt \in 1..MaxAttempts
  /\ due \in 0..(Aggregate + Cleanup)
  /\ cleanupEnd \in 0..(Aggregate + Cleanup)
  /\ alive \subseteq {"leader", "helper"}
  /\ reaped => "leader" \notin alive
  /\ scanner \in {"off", "on", "rejecting"}
  /\ class \in Classes
  /\ reaped \in BOOLEAN /\ verified \in BOOLEAN /\ observed \in BOOLEAN
  /\ issue \in BOOLEAN /\ provisional \in BOOLEAN /\ answered \in BOOLEAN

Init ==
  /\ now = 0 /\ due = 0 /\ cleanupEnd = 0
  /\ stage = "launching" /\ attempt = 1
  /\ alive = {} /\ reaped = TRUE /\ scanner = "off"
  /\ verified = FALSE /\ observed = FALSE /\ class = "none"
  /\ issue = FALSE /\ provisional = FALSE /\ answered = FALSE

-----------------------------------------------------------------------------
(* Time, and what the processes do of themselves. *)

\* Time passes only in a wait.
Tick ==
  /\ stage \in {"initializing", "responded", "connected", "waiting", "terminating",
                "killing", "reaping", "joining"}
  /\ now < IF stage = "waiting" THEN Latest ELSE due
  /\ now' = now + 1
  /\ UNCHANGED <<stage, attempt, due, cleanupEnd, processVars, verified, observed, class,
                 issue, provisional, answered>>

\* A process exits or forks.  What is on stderr may be rejected after all of
\* them have exited.
ProcessStep ==
  /\ \/ \E p \in alive : alive' = alive \ {p} /\ UNCHANGED scanner
     \/ alive # {} /\ alive' = alive \cup {"helper"} /\ UNCHANGED scanner
     \/ scanner = "on" /\ scanner' = "rejecting" /\ UNCHANGED alive
  /\ stage \notin {"returned", "failed"}
  /\ UNCHANGED <<now, stage, attempt, due, cleanupEnd, reaped, verified, observed, class,
                 issue, provisional, answered>>

-----------------------------------------------------------------------------
(* An attempt. *)

\* Mutant of SessionEnd: the session may use the time cleanup needs.
SessionEndLate(t) == Min({Aggregate, t + Response})

\* _Deadline.timeout of a read that begins at t.
SessionEnd(t) == Min({Latest, t + Response})

\* The exit of the with statement, and the ends of cleanup it fixes.
Close(cl) ==
  /\ stage' = "closing"
  /\ class' = cl
  /\ cleanupEnd' = now + Cleanup
  /\ due' = now

\* __enter__: a child in a group of its own, or an exit of the with statement
\* for a group that is not its own or a later check.
Spawn ==
  /\ alive' = {"leader"} /\ reaped' = FALSE
  /\ \/ /\ stage' = "initializing"
        /\ verified' = TRUE /\ scanner' = "on"
        /\ due' = SessionEnd(now)
        /\ UNCHANGED <<class, cleanupEnd>>
     \/ /\ verified' \in BOOLEAN /\ scanner' = "off"
        /\ Close(IF verified' THEN "validation" ELSE "group")

\* The top of the loop.  Nothing is launched once the time cleanup needs is all
\* that is left; the executable may be refused and the spawn may fail.
Launch ==
  /\ stage = "launching"
  /\ observed' = FALSE /\ issue' = FALSE /\ provisional' = FALSE
  /\ \/ /\ now >= Latest
        /\ stage' = "failed"
        /\ UNCHANGED <<processVars, verified, class, due, cleanupEnd>>
     \/ /\ now < Latest
        /\ stage' = "cleaned"
        /\ class' \in {"spawn", "validation"}
        /\ UNCHANGED <<processVars, verified, due, cleanupEnd>>
     \/ now < Latest /\ Spawn
  /\ UNCHANGED <<now, attempt, answered>>

\* Mutant of Reap: the child counts as waited for while it runs.
ReapAtOnce == reaped' = TRUE

\* The health check waits for a child that has exited.
Reap == reaped' = (reaped \/ "leader" \notin alive)

\* A part of a line or a notification arrives: the next read has its own end.
ReadOn ==
  /\ stage = "initializing"
  /\ due' = SessionEnd(now)
  /\ Reap
  /\ UNCHANGED <<now, stage, attempt, cleanupEnd, alive, verified, scanner, observed,
                 class, issue, provisional, answered>>

\* The response line is read; what it holds is looked at afterwards.
Observe ==
  /\ stage = "initializing"
  /\ stage' = "responded"
  /\ observed' = TRUE /\ answered' = TRUE
  /\ due' = SessionEnd(now)
  /\ Reap
  /\ UNCHANGED <<now, attempt, cleanupEnd, alive, verified, scanner, class, issue,
                 provisional>>

\* Mutant of Overdue: reads and writes wait without a timeout.
OverdueNever == FALSE

\* _Deadline: what the session waits for has not come in time.
Overdue == now >= due

\* initialize raises: before the response, or on its content, or while the
\* initialized notification is written.
InitializeFails(cl) ==
  /\ stage \in {"initializing", "responded"}
  /\ cl \in {"write", "timeout", "eof", "exit", "stderr", "shape"}
  /\ cl = "timeout" => Overdue
  /\ cl = "eof" => stage = "initializing"
  /\ cl = "exit" => "leader" \notin alive
  /\ cl = "stderr" => scanner = "rejecting"
  /\ Close(cl)
  /\ Reap
  /\ UNCHANGED <<now, attempt, alive, verified, scanner, observed, issue, provisional,
                 answered>>

Connect ==
  /\ stage = "responded"
  /\ stage' = "connected" /\ due' = Latest
  /\ UNCHANGED <<now, attempt, cleanupEnd, processVars, verified, observed, class, issue,
                 provisional, answered>>

\* The caller's block ends; the session's deadline bounds what it may read.
Leave ==
  /\ stage = "connected"
  /\ \E cl \in {"none", "body"} : Close(cl)
  /\ Reap
  /\ UNCHANGED <<now, attempt, alive, verified, scanner, observed, issue, provisional,
                 answered>>

-----------------------------------------------------------------------------
(* _CodexProcess.__exit__. *)

Gone == alive = {} /\ reaped

\* What is waited for: the group, or only a child whose group is not known.
GoneNow == reaped' /\ (verified => alive = {})

Proceed(next, end) == stage' = next /\ due' = end

Untouched == UNCHANGED <<now, attempt, cleanupEnd, verified, observed, class, answered>>

\* A signal ends some of those it is sent to, or fails and ends none.
Signal ==
  \/ /\ verified
     /\ alive' \in SUBSET alive
     /\ UNCHANGED provisional
  \/ /\ verified
     /\ provisional' = TRUE
     /\ UNCHANGED alive
  \/ /\ ~verified
     /\ alive' \in {alive, alive \ {"leader"}}
     /\ UNCHANGED provisional

\* The streams are closed, the group is probed and, unless it is gone, SIGTERM
\* is sent to it, or to the child alone when the group is not its own.
Terminate ==
  /\ stage = "closing"
  /\ issue' \in {~verified, TRUE}
  /\ \/ /\ verified /\ Gone
        /\ Proceed("reaping", cleanupEnd)
        /\ UNCHANGED <<alive, provisional>>
     \/ /\ ~(verified /\ Gone)
        /\ Signal
        /\ Proceed("terminating", Min({cleanupEnd - (IF verified THEN GroupTail ELSE 0),
                                       now + SignalWait}))
  /\ UNCHANGED <<reaped, scanner>>
  /\ Untouched

\* _wait_group_absent, or wait on the child: one turn of its loop.
Poll ==
  /\ stage \in {"terminating", "killing"}
  /\ Reap
  /\ \/ /\ GoneNow
        /\ provisional' = FALSE
        /\ Proceed("reaping", cleanupEnd)
        /\ UNCHANGED <<alive, issue>>
     \/ /\ ~GoneNow /\ now < due
        /\ provisional' \in {provisional, verified}
        /\ UNCHANGED <<stage, due, alive, issue>>
     \/ /\ ~GoneNow /\ now >= due /\ stage = "terminating"
        /\ Signal
        /\ Proceed("killing", IF verified THEN cleanupEnd - GroupTail
                              ELSE Min({cleanupEnd, now + SignalWait}))
        /\ UNCHANGED issue
     \/ /\ ~GoneNow /\ now >= due /\ stage = "killing"
        /\ issue' = TRUE
        /\ Proceed("reaping", cleanupEnd)
        /\ UNCHANGED <<alive, provisional>>
  /\ UNCHANGED scanner
  /\ Untouched

\* The child is waited for until cleanup ends.
WaitChild ==
  /\ stage = "reaping"
  /\ Reap
  /\ reaped' \/ now >= due
  /\ issue' = (issue \/ provisional \/ ~reaped')
  /\ Proceed("joining", cleanupEnd)
  /\ UNCHANGED <<alive, scanner, provisional>>
  /\ Untouched

\* The stderr thread is told to stop and joined; a rejection it made is an issue.
Join ==
  /\ stage = "joining"
  /\ \/ /\ scanner' = "off"
        /\ issue' = (issue \/ scanner = "rejecting")
     \/ /\ now >= due /\ scanner # "off"
        /\ issue' = TRUE
        /\ UNCHANGED scanner
  /\ Proceed("cleaned", now)
  /\ UNCHANGED <<alive, reaped, provisional>>
  /\ Untouched

-----------------------------------------------------------------------------
(* After the attempt. *)

\* Mutants of Retryable: an observed response, or an issue of the cleanup, does
\* not forbid another attempt.
RetryableObserved(cl) == ~issue /\ cl \in Transient
RetryableUnclean(cl) == ~observed /\ cl \in Transient

\* _classify_initialize_failure: an issue of the cleanup overrides the class.
Retryable(cl) == ~observed /\ ~issue /\ cl \in Transient

Again ==
  Retryable(class) /\ attempt < MaxAttempts /\ now + Backoff[attempt] < Latest

\* The session was used, or the failure is final, or another attempt follows.
Conclude ==
  /\ stage = "cleaned"
  /\ \/ /\ class = "none" /\ ~issue
        /\ stage' = "returned"
        /\ UNCHANGED <<attempt, due>>
     \/ /\ class # "none" \/ issue
        /\ ~Again
        /\ stage' = "failed"
        /\ UNCHANGED <<attempt, due>>
     \/ /\ Again
        /\ Proceed("waiting", now + Backoff[attempt])
        /\ attempt' = attempt + 1
  /\ UNCHANGED <<now, cleanupEnd, processVars, verified, observed, class, issue,
                 provisional, answered>>

Wake ==
  /\ stage = "waiting" /\ now >= due
  /\ stage' = "launching"
  /\ UNCHANGED <<now, attempt, due, cleanupEnd, processVars, verified, observed, class,
                 issue, provisional, answered>>

Finished == stage \in {"returned", "failed"} /\ UNCHANGED discoveryVars

\* The steps that need nothing of the server: it is given up when it is overdue,
\* with the request unread or unanswered, or by the caller's block.
Expire ==
  Overdue /\ (Leave \/ \E cl \in {"write", "timeout"} : InitializeFails(cl))

OwnStep ==
  Launch \/ Expire \/ Terminate \/ Poll \/ WaitChild \/ Join \/ Conclude \/ Wake

\* What an attempt does, also where the server decides whether and how.
Step ==
  \/ Launch \/ Connect \/ Leave \/ Terminate \/ Poll \/ WaitChild \/ Join \/ Conclude \/ Wake
  \/ \E cl \in Classes : InitializeFails(cl)

Next == Step \/ Tick \/ Observe \/ ReadOn \/ ProcessStep \/ Finished

Spec == Init /\ [][Next]_discoveryVars

\* The clock advances whenever the code waits, and the code goes on where it can
\* without the server: no answer, no broken pipe, no exit and no end of the
\* caller's block before its deadline is taken for granted.
FairSpec == Spec /\ WF_discoveryVars(Tick) /\ WF_discoveryVars(OwnStep)

-----------------------------------------------------------------------------
(* Properties. *)

\* Whatever the processes do while they are taken down - exit between a probe
\* and a signal, outlive the child, fork, resist - neither the caller goes on
\* nor is a new app-server launched before every process of the old group, its
\* child and its stderr thread are gone.
GoneBeforeNext ==
  stage \in {"returned", "waiting", "launching"} => Gone /\ scanner = "off"

\* A response that was observed is the last thing asked of the server: whatever
\* fails afterwards, initialize is never sent again.
AnsweredIsFinal == [][answered => ~Launch]_discoveryVars

\* Responses that are late or come in pieces, resisting processes and retries
\* never make the whole call outlast its budget.
WithinBudget == now <= Aggregate

\* A server that never answers and processes that never die do not keep the call
\* from ending.
DiscoveryEnds == <>(stage \in {"returned", "failed"})
=============================================================================
