-------------------------------- MODULE Pilot --------------------------------
(***************************************************************************)
(* The supervised pilot (run_supervised_pilot of                           *)
(* ultracode/route_discovery.py): an invocation lists the tasks of the     *)
(* app-server, lets the operator select one, publishes a route to it under *)
(* a locator, and makes one confirmed delivery through a journal of its    *)
(* own.  The message is fixed, and three basenames are authorized for the  *)
(* locator.  Invocations under one basename share nothing but the locator, *)
(* so the locator alone keeps a second one of them from sending the        *)
(* message again: after a crash, by a repeated command, or side by side.   *)
(* Invocations under different basenames share nothing at all.             *)
(*                                                                         *)
(* What happens inside a delivery is module Delivery; here its journal     *)
(* takes the steps of the abstract DeliverOnce that Delivery implements.   *)
(***************************************************************************)
EXTENDS Naturals, FiniteSets

CONSTANTS
  Pilots,     \* invocations of the command
  Basenames,  \* the authorized locator basenames
  NoPilot     \* a locator does not exist

ASSUME NoPilotAssumption == NoPilot \notin Pilots

VARIABLES
  pilot,     \* of each invocation: stage, outcome, what it has shown and got
  locator,   \* of each basename: the invocation whose route the file names
  registry,  \* whether the route registry of each invocation is on disk
  moved,     \* whether someone has changed it since
  journal,   \* the durable verdict of each delivery journal
  sent,      \* history: turn/start lines that reached a task
  report     \* the status in each sanitized report, "none" when unwritten

pilotVars == <<pilot, locator, registry, moved, journal, sent, report>>

disk == <<registry, moved, journal, sent, report>>

PilotOutcomes ==
  {"DELIVERED", "ROUTE_TARGET_NOT_SELECTED", "TOOLING_FAILURE_BEFORE_LIST",
   "ROUTE_CONFLICT", "HUMAN_DECLINED_NO_ATTEMPT", "FAILED_BEFORE_WRITE",
   "UNCERTAIN", "POST_LIST_TOOLING_TERMINAL"}

PilotStages ==
  {"precheck", "discovering", "selecting", "publishing", "linking", "routed",
   "confirming", "attempting", "begun", "waiting", "answered", "closing",
   "unwinding", "guarding", "ended"}

\* The body of the with statement that holds the terminal open.
WithTty == {"discovering", "selecting", "publishing", "linking", "routed",
            "confirming", "attempting", "begun", "waiting", "answered"}

PilotTypeOK ==
  /\ pilot \in [Pilots -> [stage: PilotStages, outcome: PilotOutcomes,
                           name: Basenames,
                           listed: BOOLEAN, routed: BOOLEAN,
                           target: {"none", "shown", "other"},
                           verdict: {"none", "DELIVERED", "UNCERTAIN",
                                     "FAILED_BEFORE_WRITE"}]]
  /\ locator \in [Basenames -> Pilots \cup {NoPilot}]
  /\ registry \in [Pilots -> BOOLEAN] /\ moved \in [Pilots -> BOOLEAN]
  /\ journal \in [Pilots -> {"open", "begun", "delivered", "uncertain"}]
  /\ sent \in [Pilots -> Nat]
  /\ report \in [Pilots -> PilotOutcomes \cup {"none"}]

\* What an invocation knows when it starts, and no more once it is gone.
Locals(stage, name, target) ==
  [stage |-> stage, outcome |-> "TOOLING_FAILURE_BEFORE_LIST", name |-> name,
   listed |-> FALSE, routed |-> FALSE, target |-> target, verdict |-> "none"]

Init ==
  /\ \E basename \in [Pilots -> Basenames] :
       pilot = [p \in Pilots |-> Locals("precheck", basename[p], "none")]
  /\ locator = [n \in Basenames |-> NoPilot]
  /\ registry = [p \in Pilots |-> FALSE] /\ moved = [p \in Pilots |-> FALSE]
  /\ journal = [p \in Pilots |-> "open"]
  /\ sent = [p \in Pilots |-> 0]
  /\ report = [p \in Pilots |-> "none"]

-----------------------------------------------------------------------------
At(p, stage) == pilot[p].stage = stage

Goto(p, stage) == pilot' = [pilot EXCEPT ![p].stage = stage]

\* The locator of the invocation, and writing it.
Locator(p) == locator[pilot[p].name]

TakesLocator(p) == locator' = [locator EXCEPT ![pilot[p].name] = p]

\* The try statement is left with this outcome; its finally follows.
Ends(p, outcome) ==
  pilot' = [pilot EXCEPT ![p].stage = "guarding", ![p].outcome = outcome]

\* The with statement is left with this outcome assigned, by an exception that
\* changes it no more, or by its end; the terminal is closed next.
Leaves(p, outcome) ==
  pilot' = [pilot EXCEPT ![p].stage = "closing", ![p].outcome = outcome,
                         ![p].verdict = "none"]

\* The process is gone, and all it knew; the target stays as history.
Gone(p) ==
  pilot' = [pilot EXCEPT ![p] = Locals("ended", pilot[p].name, pilot[p].target)]

\* The with statement is left by an error whose handler assigns the outcome.
Raises(p) == Goto(p, "unwinding")

\* Mutant of ToolingFailure: the phase is reported in place of the outcome.
ToolingFailurePhase(p) == IF pilot[p].listed THEN "LIST_SHOWN" ELSE "DISCOVERY"

\* The handler of DeliveryError, OSError, UnicodeError and ValueError.
ToolingFailure(p) ==
  IF pilot[p].listed THEN "POST_LIST_TOOLING_TERMINAL"
                     ELSE "TOOLING_FAILURE_BEFORE_LIST"

Keeps(p) == pilot[p].outcome

-----------------------------------------------------------------------------
(* Discovery and selection. *)

\* The locator is looked for before the terminal is opened.
Precheck(p) ==
  /\ At(p, "precheck")
  /\ \/ Locator(p) = NoPilot /\ Goto(p, "discovering")
     \/ Locator(p) # NoPilot /\ Ends(p, "ROUTE_CONFLICT")
     \/ Ends(p, ToolingFailure(p))
  /\ UNCHANGED <<locator, disk>>

Discover(p) ==
  /\ At(p, "discovering")
  /\ pilot' = [pilot EXCEPT ![p].stage = "selecting", ![p].listed = TRUE]
  /\ UNCHANGED <<locator, disk>>

\* Anything that raises before the delivery without leaving a file behind.  A
\* file in the way of the launch marker or the message raises FileExistsError,
\* whose handler leaves the outcome as it was initialised.
Fails(p) ==
  /\ \/ pilot[p].stage \in {"discovering", "selecting", "publishing", "routed"}
        /\ Raises(p)
     \/ At(p, "routed") /\ Leaves(p, Keeps(p))
  /\ UNCHANGED <<locator, disk>>

\* No eligible task, q, too many corrections, or the time is up.
NotSelected(p) ==
  /\ At(p, "selecting")
  /\ Leaves(p, "ROUTE_TARGET_NOT_SELECTED")
  /\ UNCHANGED <<locator, disk>>

\* _publish_route looks for the locator again, and raises FileExistsError.
Select(p) ==
  /\ At(p, "selecting")
  /\ IF Locator(p) = NoPilot THEN Goto(p, "publishing") ELSE Leaves(p, Keeps(p))
  /\ UNCHANGED <<locator, disk>>

WriteRegistry(p) ==
  /\ At(p, "publishing")
  /\ Goto(p, "linking")
  /\ registry' = [registry EXCEPT ![p] = TRUE]
  /\ UNCHANGED <<locator, moved, journal, sent, report>>

\* The locator cannot be written: the route is removed, unless the locator
\* (whoever's it is) exists by now.
RouteFails(p) ==
  /\ At(p, "linking")
  /\ Raises(p)
  /\ registry' = [registry EXCEPT ![p] = Locator(p) # NoPilot]
  /\ UNCHANGED <<locator, moved, journal, sent, report>>

\* Mutants of LinkLocator: a rename in place of a link; the route is removed
\* though the locator was linked.
LinkLocatorRename(p) ==
  /\ At(p, "linking")
  /\ TakesLocator(p)
  /\ pilot' = [pilot EXCEPT ![p].stage = "routed", ![p].routed = TRUE]
  /\ UNCHANGED disk

LinkLocatorRemoves(p) ==
  /\ At(p, "linking")
  /\ Locator(p) = NoPilot
  /\ TakesLocator(p)
  /\ Raises(p)
  /\ registry' = [registry EXCEPT ![p] = FALSE]
  /\ UNCHANGED <<moved, journal, sent, report>>

\* A hard link to a name that must not exist; synchronising the directory may
\* still fail after it, or be interrupted.  When the name exists, the route
\* stays behind.
LinkLocator(p) ==
  /\ At(p, "linking")
  /\ IF Locator(p) = NoPilot
     THEN /\ TakesLocator(p)
          /\ \/ pilot' = [pilot EXCEPT ![p].stage = "routed", ![p].routed = TRUE]
             \/ Raises(p)
             \/ Leaves(p, Keeps(p))
     ELSE Leaves(p, Keeps(p)) /\ UNCHANGED locator
  /\ UNCHANGED disk

\* The route is read back, the preview is shown, the launch marker and the
\* message are written.
Preview(p) ==
  /\ At(p, "routed")
  /\ ~moved[p]
  /\ Goto(p, "confirming")
  /\ UNCHANGED <<locator, disk>>

-----------------------------------------------------------------------------
(* The delivery, as DeliverOnce has it. *)

\* The challenge is not re-entered.
Decline(p) ==
  /\ At(p, "confirming")
  /\ Leaves(p, "HUMAN_DECLINED_NO_ATTEMPT")
  /\ UNCHANGED <<locator, disk>>

\* After the confirmation the alias is resolved in the registry as it is now.
Resolve(p) ==
  /\ At(p, "confirming")
  /\ pilot' = [pilot EXCEPT ![p].stage = "attempting",
                            ![p].target = IF moved[p] THEN "other" ELSE "shown"]
  /\ UNCHANGED <<locator, disk>>

Answers(p, verdict) ==
  pilot' = [pilot EXCEPT ![p].stage = "answered", ![p].verdict = verdict]

PrepareFails(p) ==
  /\ At(p, "attempting")
  /\ Answers(p, "FAILED_BEFORE_WRITE")
  /\ UNCHANGED <<locator, disk>>

Begin(p) ==
  /\ At(p, "attempting")
  /\ Goto(p, "begun")
  /\ journal' = [journal EXCEPT ![p] = "begun"]
  /\ UNCHANGED <<locator, registry, moved, sent, report>>

Send(p) ==
  /\ At(p, "begun")
  /\ Goto(p, "waiting")
  /\ sent' = [sent EXCEPT ![p] = @ + 1]
  /\ UNCHANGED <<locator, registry, moved, journal, report>>

\* Mutant of Settle: a lost answer counts as a delivery.
SettleAnyway(p) ==
  /\ pilot[p].stage \in {"begun", "waiting"}
  /\ journal' = [journal EXCEPT ![p] = "delivered"] /\ Answers(p, "DELIVERED")
  /\ UNCHANGED <<locator, registry, moved, sent, report>>

\* The turn completes and the app-server is gone, or not.
Settle(p) ==
  /\ \/ /\ At(p, "waiting")
        /\ journal' = [journal EXCEPT ![p] = "delivered"] /\ Answers(p, "DELIVERED")
     \/ /\ pilot[p].stage \in {"begun", "waiting"}
        /\ journal' = [journal EXCEPT ![p] = "uncertain"] /\ Answers(p, "UNCERTAIN")
  /\ UNCHANGED <<locator, registry, moved, sent, report>>

\* deliver_foreground raises: nobody at the terminal, or a journal that cannot
\* be opened or written.  DeliveryError has a handler within the with statement.
DeliveryRaises(p) ==
  /\ pilot[p].stage \in {"confirming", "attempting", "begun", "waiting"}
  /\ Raises(p) \/ Leaves(p, "POST_LIST_TOOLING_TERMINAL")
  /\ UNCHANGED <<locator, disk>>

DeliveryReturns(p) ==
  /\ At(p, "answered")
  /\ Leaves(p, pilot[p].verdict)
  /\ UNCHANGED <<locator, disk>>

\* The terminal is closed.  An OSError of closing it goes to the same handler
\* as an error of the body, and replaces the outcome whatever it is.
CloseTty(p) ==
  /\ \/ At(p, "closing") /\ Goto(p, "guarding")
     \/ pilot[p].stage \in {"closing", "unwinding"} /\ Ends(p, ToolingFailure(p))
  /\ UNCHANGED <<locator, disk>>

-----------------------------------------------------------------------------
(* The finally clause, and what may come instead. *)

\* Mutant of PostTerminalGuard: a change of the route goes unnoticed.
PostTerminalGuardBlind(p) == {pilot[p].outcome}

\* A published route is read once more.  A change makes the guard fail, and so
\* may the reading; an uncertain outcome stands all the same.
PostTerminalGuard(p) ==
  LET outcome == pilot[p].outcome
      failed == IF outcome = "UNCERTAIN" THEN outcome ELSE "POST_LIST_TOOLING_TERMINAL"
  IN  {o \in PilotOutcomes :
         \/ o = outcome /\ (moved[p] => ~pilot[p].routed)
         \/ o = failed /\ pilot[p].routed}

\* Guard and report.  A report that cannot be written is given up.
Finally(p) ==
  /\ At(p, "guarding")
  /\ Gone(p)
  /\ \/ \E outcome \in PostTerminalGuard(p) : report' = [report EXCEPT ![p] = outcome]
     \/ UNCHANGED report
  /\ UNCHANGED <<locator, registry, moved, journal, sent>>

\* KeyboardInterrupt: no handler takes it, but the clean-up of a route that
\* has no locator yet, the closing of the terminal and the finally clause run.
Interrupt(p) ==
  /\ \/ pilot[p].stage \in WithTty /\ Leaves(p, Keeps(p))
     \/ pilot[p].stage \in {"precheck", "closing", "unwinding"} /\ Goto(p, "guarding")
  /\ registry' = [registry EXCEPT ![p] =
                    @ /\ (At(p, "linking") => Locator(p) # NoPilot)]
  /\ UNCHANGED <<locator, moved, journal, sent, report>>

Kill(p) ==
  /\ ~At(p, "ended")
  /\ Gone(p)
  /\ UNCHANGED <<locator, disk>>

\* Somebody else changes a published registry or its locator; after the last
\* look at it that changes nothing any more, and is left out.
RouteMoves(p) ==
  /\ registry[p] /\ ~moved[p] /\ ~At(p, "ended")
  /\ moved' = [moved EXCEPT ![p] = TRUE]
  /\ UNCHANGED <<pilot, locator, registry, journal, sent, report>>

-----------------------------------------------------------------------------
Deliver(p) ==
  \/ Decline(p) \/ Resolve(p) \/ PrepareFails(p) \/ Begin(p) \/ Send(p)
  \/ Settle(p) \/ DeliveryRaises(p) \/ DeliveryReturns(p)

Next ==
  \E p \in Pilots :
    \/ Precheck(p) \/ Discover(p) \/ Fails(p) \/ NotSelected(p) \/ Select(p)
    \/ WriteRegistry(p) \/ RouteFails(p) \/ LinkLocator(p) \/ Preview(p)
    \/ Deliver(p)
    \/ CloseTty(p) \/ Finally(p)
    \/ Interrupt(p) \/ Kill(p) \/ RouteMoves(p)

Spec == Init /\ [][Next]_pilotVars

-----------------------------------------------------------------------------
(* Properties. *)

\* "make at most one confirmed delivery": not per invocation, whose journal is
\* fresh, but over all invocations with one locator basename, crashed and
\* racing ones included, an attempt is begun at most once.  Two basenames may
\* each see one, of the same message.
OneDelivery ==
  \A n \in Basenames :
    Cardinality({p \in Pilots :
      pilot[p].name = n /\ (journal[p] # "open" \/ sent[p] > 0)}) <= 1

\* What a report says of the delivery is what the journal says: DELIVERED is
\* said of a completed turn on the task the operator was shown, UNCERTAIN of an
\* uncertain one, and an outcome that promises no attempt was not preceded by
\* one.  The converse is not claimed: an interrupt, or an error in closing the
\* terminal, hides a verdict behind the status of a tooling failure.
ReportsAreTrue ==
  \A p \in Pilots :
    /\ report[p] = "DELIVERED" =>
         journal[p] = "delivered" /\ sent[p] = 1 /\ pilot[p].target = "shown"
    /\ report[p] = "UNCERTAIN" => journal[p] = "uncertain"
    /\ report[p] \in {"ROUTE_TARGET_NOT_SELECTED", "ROUTE_CONFLICT",
                      "HUMAN_DECLINED_NO_ATTEMPT", "FAILED_BEFORE_WRITE"} =>
         journal[p] = "open" /\ sent[p] = 0

\* A locator never names a route that was taken away again, whichever step of
\* whichever invocation failed.
LocatorNamesRoute ==
  \A n \in Basenames : locator[n] # NoPilot => registry[locator[n]]

\* TOOLING_FAILURE_BEFORE_LIST is reported only of an invocation that has not
\* got as far as an attempt.
NothingBegunBeforeList ==
  \A p \in Pilots :
    report[p] = "TOOLING_FAILURE_BEFORE_LIST" => journal[p] = "open"

Once == INSTANCE DeliverOnce WITH
  Messages <- Pilots, stage <- journal, handed <- sent

\* The deliveries the pilot makes keep the promise that Delivery implements.
UsesDeliverOnce == Once!Spec
=============================================================================
