----------------------------- MODULE PilotProofs -----------------------------
(***************************************************************************)
(* What holds of the supervised pilot for every number of invocations,     *)
(* side by side, interrupted and killed.                                   *)
(***************************************************************************)
EXTENDS Pilot, FiniteSetTheorems, TLAPS

-----------------------------------------------------------------------------
(* The inductive invariant.  All of it follows from who holds the locator:   *)
(* an invocation gets past "linking" only with the locator of its basename   *)
(* its own, and nobody takes it over.  What a report says is decided some    *)
(* steps before it is written, so the invariant relates outcome, verdict and *)
(* journal at each stage.                                                    *)

PilotRecords ==
  [stage: PilotStages, outcome: PilotOutcomes, name: Basenames,
   listed: BOOLEAN, routed: BOOLEAN, target: {"none", "shown", "other"},
   verdict: {"none", "DELIVERED", "UNCERTAIN", "FAILED_BEFORE_WRITE"}]

Before == {"precheck", "discovering", "selecting", "publishing", "linking", "routed",
           "confirming", "attempting"}

After == {"closing", "guarding", "ended"}

NoAttempt == {"ROUTE_TARGET_NOT_SELECTED", "ROUTE_CONFLICT", "HUMAN_DECLINED_NO_ATTEMPT",
              "FAILED_BEFORE_WRITE"}

\* What an invocation that holds the route may rely on.
Owning(p) ==
  /\ pilot[p].stage \in {"routed", "confirming", "attempting", "begun", "waiting", "answered"}
       => Locator(p) = p /\ pilot[p].routed
  /\ journal[p] # "open" \/ sent[p] > 0 => Locator(p) = p
  /\ pilot[p].stage = "linking" => registry[p]
  /\ pilot[p].target = "other" /\ pilot[p].stage # "ended" => moved[p] /\ pilot[p].routed

\* How far the delivery has come.
Progress(p) ==
  /\ pilot[p].stage \in Before => journal[p] = "open" /\ sent[p] = 0
  /\ pilot[p].stage # "answered" => pilot[p].verdict = "none"
  /\ pilot[p].stage = "begun" => journal[p] = "begun" /\ sent[p] = 0
  /\ pilot[p].stage = "waiting" => journal[p] = "begun" /\ sent[p] = 1
  /\ pilot[p].stage \in {"attempting", "begun", "waiting", "answered"}
       => pilot[p].target # "none"

\* What a verdict or an outcome says of the journal.
Told(p, said) ==
  /\ said = "DELIVERED" =>
       journal[p] = "delivered" /\ sent[p] = 1 /\ pilot[p].target # "none"
  /\ said = "UNCERTAIN" => journal[p] = "uncertain"
  /\ said \in NoAttempt => journal[p] = "open" /\ sent[p] = 0

Concluding(p) ==
  /\ pilot[p].stage = "answered" => Told(p, pilot[p].verdict) /\ pilot[p].verdict # "none"
  /\ pilot[p].stage \notin After => pilot[p].outcome = "TOOLING_FAILURE_BEFORE_LIST"
  /\ pilot[p].stage \in After => Told(p, pilot[p].outcome)

Reported(p) ==
  /\ report[p] # "none" => pilot[p].stage = "ended" /\ Told(p, report[p])
  /\ report[p] = "DELIVERED" => pilot[p].target = "shown"

PilotOK(p) == Owning(p) /\ Progress(p) /\ Concluding(p) /\ Reported(p)

PilotInv ==
  /\ PilotTypeOK
  /\ \A p \in Pilots : PilotOK(p)
  /\ LocatorNamesRoute
  /\ \A n \in Basenames : locator[n] # NoPilot => pilot[locator[n]].name = n

LEMMA InitPilotInv == Init => PilotInv
<1> SUFFICES ASSUME Init PROVE PilotInv
  OBVIOUS
<1>1. PICK basename \in [Pilots -> Basenames] :
        pilot = [p \in Pilots |-> Locals("precheck", basename[p], "none")]
  BY DEF Init
<1>2. PilotTypeOK
  <2>1. ASSUME NEW p \in Pilots PROVE Locals("precheck", basename[p], "none") \in PilotRecords
    BY DEF Locals, PilotRecords, PilotStages, PilotOutcomes
  <2>2. pilot \in [Pilots -> PilotRecords]
    BY <1>1, <2>1
  <2>3. /\ registry \in [Pilots -> BOOLEAN] /\ moved \in [Pilots -> BOOLEAN]
        /\ locator \in [Basenames -> Pilots \cup {NoPilot}]
    BY DEF Init
  <2> QED
    BY <2>2, <2>3 DEF Init, PilotTypeOK, PilotRecords
<1>3. ASSUME NEW p \in Pilots PROVE PilotOK(p)
  <2>1. /\ pilot[p].stage = "precheck" /\ pilot[p].outcome = "TOOLING_FAILURE_BEFORE_LIST"
        /\ pilot[p].verdict = "none" /\ pilot[p].target = "none"
        /\ journal[p] = "open" /\ sent[p] = 0 /\ report[p] = "none"
    BY <1>1 DEF Init, Locals
  <2> QED
    BY <2>1 DEF PilotOK, Owning, Progress, Concluding, Reported, Before, After
<1> QED
  BY <1>2, <1>3 DEF Init, PilotInv, LocatorNamesRoute

\* A step of one invocation: the others keep what they rely on, because nobody
\* takes over a locator that exists.
LEMMA StepOfOne ==
  ASSUME PilotInv, NEW p \in Pilots, PilotTypeOK', PilotOK(p)',
         \A q \in Pilots \ {p} :
           UNCHANGED <<pilot[q], registry[q], moved[q], journal[q], sent[q], report[q]>>,
         pilot'[p].name = pilot[p].name,
         UNCHANGED locator \/ (Locator(p) = NoPilot /\ TakesLocator(p)),
         locator'[pilot[p].name] = p => registry'[p]
  PROVE  PilotInv'
<1>1. /\ PilotTypeOK /\ pilot[p].name \in Basenames
      /\ \A n \in Basenames : locator[n] # NoPilot => locator[n] \in Pilots
      /\ \A n \in Basenames : locator[n] # NoPilot => pilot[locator[n]].name = n
  BY DEF PilotInv, PilotTypeOK
<1>2. /\ \A n \in Basenames : locator[n] # NoPilot => locator'[n] = locator[n]
      /\ \A n \in Basenames : locator'[n] # locator[n] => n = pilot[p].name /\ locator'[n] = p
  BY <1>1 DEF Locator, TakesLocator, PilotTypeOK
<1>3. ASSUME NEW q \in Pilots \ {p} PROVE PilotOK(q)'
  <2>1. PilotOK(q) /\ pilot[q].name \in Basenames
    BY DEF PilotInv, PilotTypeOK
  <2>2. Locator(q) = q => Locator(q)' = q
    BY <1>2, <2>1, NoPilotAssumption DEF Locator
  <2>3. Owning(q)'
    BY <2>1, <2>2 DEF PilotOK, Owning
  <2>4. Progress(q)' /\ Concluding(q)' /\ Reported(q)'
    BY <2>1 DEF PilotOK, Progress, Concluding, Reported, Told
  <2> QED
    BY <2>3, <2>4 DEF PilotOK
<1>4. ASSUME NEW n \in Basenames, locator'[n] # NoPilot
      PROVE  registry'[locator'[n]] /\ pilot'[locator'[n]].name = n
  <2>1. CASE locator'[n] = p
    <3>1. n = pilot[p].name
      BY <1>1, <1>2, <2>1, NoPilotAssumption
    <3> QED
      BY <2>1, <3>1
  <2>2. CASE locator'[n] # p
    <3>1. locator'[n] = locator[n] /\ locator[n] \in Pilots \ {p}
      BY <1>1, <1>2, <1>4, <2>2
    <3>2. registry[locator[n]] /\ pilot[locator[n]].name = n
      BY <1>1, <1>4, <3>1 DEF PilotInv, LocatorNamesRoute
    <3> QED
      BY <3>1, <3>2
  <2> QED
    BY <2>1, <2>2
<1> QED
  BY <1>3, <1>4 DEF PilotInv, LocatorNamesRoute

\* Where the locator stays as it is, it is enough that the route does.
LEMMA StepBesideLocator ==
  ASSUME PilotInv, NEW p \in Pilots, PilotTypeOK', PilotOK(p)',
         \A q \in Pilots \ {p} :
           UNCHANGED <<pilot[q], registry[q], moved[q], journal[q], sent[q], report[q]>>,
         pilot'[p].name = pilot[p].name, UNCHANGED locator,
         Locator(p) # NoPilot /\ registry[p] => registry'[p]
  PROVE  PilotInv'
<1>1. pilot[p].name \in Basenames
  BY DEF PilotInv, PilotTypeOK
<1>2. locator[pilot[p].name] = p => registry'[p]
  BY <1>1, NoPilotAssumption DEF PilotInv, LocatorNamesRoute, Locator
<1> QED
  BY <1>2, StepOfOne

\* What EXCEPT makes of the record of one invocation.
LEMMA NewRecord ==
  ASSUME PilotTypeOK, NEW p \in Pilots, NEW r \in PilotRecords, pilot' = [pilot EXCEPT ![p] = r]
  PROVE  /\ pilot' \in [Pilots -> PilotRecords]
         /\ pilot'[p] = r
         /\ \A q \in Pilots \ {p} : pilot'[q] = pilot[q]
BY DEF PilotTypeOK, PilotRecords

\* What a pilot that only changes its stage leaves behind.
LEMMA GotoStage ==
  ASSUME PilotTypeOK, NEW p \in Pilots, NEW s \in PilotStages, Goto(p, s)
  PROVE  /\ pilot' \in [Pilots -> PilotRecords]
         /\ pilot'[p].stage = s /\ pilot'[p].outcome = pilot[p].outcome
         /\ pilot'[p].name = pilot[p].name /\ pilot'[p].routed = pilot[p].routed
         /\ pilot'[p].target = pilot[p].target /\ pilot'[p].verdict = pilot[p].verdict
         /\ \A q \in Pilots \ {p} : pilot'[q] = pilot[q]
<1> DEFINE r == [pilot[p] EXCEPT !.stage = s]
<1>1. pilot[p] \in PilotRecords
  BY DEF PilotTypeOK, PilotRecords
<1>2. r \in PilotRecords
  BY <1>1 DEF PilotRecords
<1>3. pilot' = [pilot EXCEPT ![p] = r]
  BY DEF Goto
<1> HIDE DEF r
<1>4. /\ pilot' \in [Pilots -> PilotRecords] /\ pilot'[p] = r
      /\ \A q \in Pilots \ {p} : pilot'[q] = pilot[q]
  BY <1>2, <1>3, NewRecord
<1> QED
  BY <1>1, <1>4 DEF r, PilotRecords

\* What a pilot with an outcome leaves behind.
LEMMA WithOutcome ==
  ASSUME PilotTypeOK, NEW p \in Pilots, NEW o \in PilotOutcomes,
         Leaves(p, o) \/ (Ends(p, o) /\ pilot[p].verdict = "none")
  PROVE  /\ pilot' \in [Pilots -> PilotRecords]
         /\ pilot'[p].stage \in {"closing", "guarding"} /\ pilot'[p].outcome = o
         /\ pilot'[p].name = pilot[p].name /\ pilot'[p].routed = pilot[p].routed
         /\ pilot'[p].target = pilot[p].target /\ pilot'[p].verdict = "none"
         /\ \A q \in Pilots \ {p} : pilot'[q] = pilot[q]
<1>1. pilot[p] \in PilotRecords
  BY DEF PilotTypeOK, PilotRecords
<1>2. CASE Leaves(p, o)
  <2> DEFINE r == [pilot[p] EXCEPT !.stage = "closing", !.outcome = o, !.verdict = "none"]
  <2>1. r \in PilotRecords
    BY <1>1 DEF PilotRecords, PilotStages
  <2>2. pilot' = [pilot EXCEPT ![p] = r]
    BY <1>2 DEF Leaves, PilotTypeOK
  <2> HIDE DEF r
  <2>3. /\ pilot' \in [Pilots -> PilotRecords] /\ pilot'[p] = r
        /\ \A q \in Pilots \ {p} : pilot'[q] = pilot[q]
    BY <2>1, <2>2, NewRecord
  <2> QED
    BY <1>1, <2>3 DEF r, PilotRecords
<1>3. CASE Ends(p, o) /\ pilot[p].verdict = "none"
  <2> DEFINE r == [pilot[p] EXCEPT !.stage = "guarding", !.outcome = o]
  <2>1. r \in PilotRecords
    BY <1>1 DEF PilotRecords, PilotStages
  <2>2. pilot' = [pilot EXCEPT ![p] = r]
    BY <1>3 DEF Ends, PilotTypeOK
  <2> HIDE DEF r
  <2>3. /\ pilot' \in [Pilots -> PilotRecords] /\ pilot'[p] = r
        /\ \A q \in Pilots \ {p} : pilot'[q] = pilot[q]
    BY <2>1, <2>2, NewRecord
  <2> QED
    BY <1>1, <1>3, <2>3 DEF r, PilotRecords
<1> QED
  BY <1>2, <1>3

\* What an invocation that is gone leaves behind.
LEMMA GoneRecord ==
  ASSUME PilotTypeOK, NEW p \in Pilots, Gone(p)
  PROVE  /\ pilot' \in [Pilots -> PilotRecords]
         /\ pilot'[p].stage = "ended" /\ pilot'[p].outcome = "TOOLING_FAILURE_BEFORE_LIST"
         /\ pilot'[p].name = pilot[p].name
         /\ pilot'[p].target = pilot[p].target /\ pilot'[p].verdict = "none"
         /\ \A q \in Pilots \ {p} : pilot'[q] = pilot[q]
<1> DEFINE r == Locals("ended", pilot[p].name, pilot[p].target)
<1>1. pilot[p] \in PilotRecords
  BY DEF PilotTypeOK, PilotRecords
<1>2. r \in PilotRecords
  BY <1>1 DEF PilotRecords, PilotStages, PilotOutcomes, Locals
<1>3. pilot' = [pilot EXCEPT ![p] = r]
  BY DEF Gone
<1>4. /\ r.stage = "ended" /\ r.outcome = "TOOLING_FAILURE_BEFORE_LIST"
      /\ r.name = pilot[p].name /\ r.target = pilot[p].target /\ r.verdict = "none"
  BY DEF Locals
<1> HIDE DEF r
<1> QED
  BY <1>2, <1>3, <1>4, NewRecord

\* Types of the variables an invocation changes beside its record.
LEMMA FilesTyped ==
  ASSUME PilotTypeOK, pilot' \in [Pilots -> PilotRecords],
         locator' \in [Basenames -> Pilots \cup {NoPilot}], UNCHANGED disk
  PROVE  PilotTypeOK'
BY DEF PilotTypeOK, PilotRecords, disk

\* A tooling failure claims neither a delivery nor that none was attempted.
LEMMA OutcomesTyped ==
  ASSUME NEW p \in Pilots
  PROVE  ToolingFailure(p) \in PilotOutcomes \ ({"DELIVERED", "UNCERTAIN"} \cup NoAttempt)
BY DEF ToolingFailure, PilotOutcomes, NoAttempt

-----------------------------------------------------------------------------
(* The actions. *)

\* An outcome is assigned that is true of the journal.
LEMMA OutcomeKeeps ==
  ASSUME PilotInv, NEW p \in Pilots, NEW o \in PilotOutcomes,
         Leaves(p, o) \/ (Ends(p, o) /\ pilot[p].stage # "answered"),
         UNCHANGED <<locator, disk>>, pilot[p].stage # "ended", Told(p, o)
  PROVE  PilotInv'
<1> USE DEF disk
<1>1. PilotTypeOK /\ PilotOK(p)
  BY DEF PilotInv
<1>2. Leaves(p, o) \/ (Ends(p, o) /\ pilot[p].verdict = "none")
  BY <1>1 DEF PilotOK, Progress
<1>3. /\ pilot' \in [Pilots -> PilotRecords]
      /\ pilot'[p].stage \in {"closing", "guarding"} /\ pilot'[p].outcome = o
      /\ pilot'[p].name = pilot[p].name /\ pilot'[p].routed = pilot[p].routed
      /\ pilot'[p].target = pilot[p].target /\ pilot'[p].verdict = "none"
      /\ \A q \in Pilots \ {p} : pilot'[q] = pilot[q]
  BY <1>1, <1>2, WithOutcome
<1>4. PilotTypeOK'
  BY <1>1, <1>3, FilesTyped DEF PilotTypeOK
<1>5. PilotOK(p)'
  <2>1. Owning(p)' /\ Progress(p)'
    BY <1>1, <1>3 DEF PilotOK, Owning, Progress, Before, Locator
  <2>2. Concluding(p)' /\ Reported(p)'
    BY <1>1, <1>3 DEF PilotOK, Concluding, Reported, After, Told
  <2> QED
    BY <2>1, <2>2 DEF PilotOK
<1> QED
  BY <1>3, <1>4, <1>5, StepBesideLocator

\* An error is on its way to its handler; the route may have been removed.
LEMMA RaisesKeeps ==
  ASSUME PilotInv, NEW p \in Pilots, Raises(p),
         pilot[p].stage \notin After \cup {"answered"},
         UNCHANGED <<moved, journal, sent, report>>,
         registry' \in [Pilots -> BOOLEAN],
         \A q \in Pilots \ {p} : registry'[q] = registry[q],
         UNCHANGED locator \/ (Locator(p) = NoPilot /\ TakesLocator(p)),
         locator'[pilot[p].name] = p => registry'[p]
  PROVE  PilotInv'
<1>1. PilotTypeOK /\ PilotOK(p) /\ pilot[p].name \in Basenames
  BY DEF PilotInv, PilotTypeOK
<1>2. "unwinding" \in PilotStages
  BY DEF PilotStages
<1>3. /\ pilot' \in [Pilots -> PilotRecords]
      /\ pilot'[p].stage = "unwinding" /\ pilot'[p].outcome = pilot[p].outcome
      /\ pilot'[p].name = pilot[p].name /\ pilot'[p].routed = pilot[p].routed
      /\ pilot'[p].target = pilot[p].target /\ pilot'[p].verdict = pilot[p].verdict
      /\ \A q \in Pilots \ {p} : pilot'[q] = pilot[q]
  BY <1>1, <1>2, GotoStage DEF Raises
<1>4. locator' \in [Basenames -> Pilots \cup {NoPilot}]
  BY <1>1 DEF PilotTypeOK, TakesLocator
<1>5. PilotTypeOK'
  BY <1>1, <1>3, <1>4 DEF PilotTypeOK, PilotRecords
<1>6. Locator(p) = p => Locator(p)' = p
  BY <1>1, <1>3, NoPilotAssumption DEF Locator, TakesLocator, PilotTypeOK
<1>7. PilotOK(p)'
  <2>1. Owning(p)' /\ Progress(p)'
    BY <1>1, <1>3, <1>6 DEF PilotOK, Owning, Progress, Before, After
  <2>2. Concluding(p)' /\ Reported(p)'
    BY <1>1, <1>3 DEF PilotOK, Progress, Concluding, Reported, After, Told
  <2> QED
    BY <2>1, <2>2 DEF PilotOK
<1> QED
  BY <1>3, <1>5, <1>7, StepOfOne

\* On the way to the attempt only the stage changes.
LEMMA GotoKeeps ==
  ASSUME PilotInv, NEW p \in Pilots, NEW s \in Before \ {"attempting"}, Goto(p, s),
         UNCHANGED <<locator, moved, journal, sent, report>>,
         registry' \in [Pilots -> BOOLEAN],
         \A q \in Pilots : registry'[q] = registry[q] \/ (q = p /\ registry'[q]),
         pilot[p].stage \in Before,
         s \in {"routed", "confirming"} => Locator(p) = p /\ pilot[p].routed,
         s = "linking" => registry'[p]
  PROVE  PilotInv'
<1>1. PilotTypeOK /\ PilotOK(p)
  BY DEF PilotInv
<1>2. s \in PilotStages
  BY DEF Before, PilotStages
<1>3. /\ pilot' \in [Pilots -> PilotRecords]
      /\ pilot'[p].stage = s /\ pilot'[p].outcome = pilot[p].outcome
      /\ pilot'[p].name = pilot[p].name /\ pilot'[p].routed = pilot[p].routed
      /\ pilot'[p].target = pilot[p].target /\ pilot'[p].verdict = pilot[p].verdict
      /\ \A q \in Pilots \ {p} : pilot'[q] = pilot[q]
  BY <1>1, <1>2, GotoStage
<1>4. PilotTypeOK'
  BY <1>1, <1>3 DEF PilotTypeOK, PilotRecords
<1>5. PilotOK(p)'
  <2>1. Owning(p)' /\ Progress(p)'
    BY <1>1, <1>3 DEF PilotOK, Owning, Progress, Before, Locator
  <2>2. Concluding(p)' /\ Reported(p)'
    BY <1>1, <1>3 DEF PilotOK, Concluding, Reported, After, Before, Told
  <2> QED
    BY <2>1, <2>2 DEF PilotOK
<1> QED
  BY <1>3, <1>4, <1>5, StepBesideLocator

\* Whatever has not begun may end with any outcome that promises no attempt.
LEMMA Undecided ==
  ASSUME PilotInv, NEW p \in Pilots, pilot[p].stage \in Before
  PROVE  /\ \A o \in PilotOutcomes \ {"DELIVERED", "UNCERTAIN"} : Told(p, o)
         /\ pilot[p].verdict = "none"
         /\ pilot[p].stage \notin After \cup {"answered"}
         /\ pilot[p].outcome = "TOOLING_FAILURE_BEFORE_LIST"
BY DEF PilotInv, PilotOK, Progress, Concluding, Told, Before, After

\* A route that a locator names is there.
LEMMA OwnRoute ==
  ASSUME PilotInv, NEW p \in Pilots, locator[pilot[p].name] = p
  PROVE  registry[p]
BY NoPilotAssumption DEF PilotInv, PilotTypeOK, LocatorNamesRoute

\* Every action keeps the invariant, one lemma each.
LEMMA PreludeKeeps ==
  ASSUME PilotInv, NEW p \in Pilots,
         Precheck(p) \/ Fails(p) \/ NotSelected(p) \/ Select(p) \/ Preview(p) \/ Decline(p)
  PROVE  PilotInv'
<1> USE DEF At, disk
<1>1. pilot[p].stage \in Before
  BY DEF Precheck, Fails, NotSelected, Select, Preview, Decline, Before
<1>2. /\ \A o \in PilotOutcomes \ {"DELIVERED", "UNCERTAIN"} : Told(p, o)
      /\ pilot[p].verdict = "none" /\ pilot[p].stage \notin After \cup {"answered"}
      /\ pilot[p].outcome = "TOOLING_FAILURE_BEFORE_LIST"
  BY <1>1, Undecided
<1>3. UNCHANGED <<locator, disk>>
  BY DEF Precheck, Fails, NotSelected, Select, Preview, Decline
<1> DEFINE Concludes == \E o \in PilotOutcomes \ {"DELIVERED", "UNCERTAIN"} :
                          Ends(p, o) \/ Leaves(p, o)
           Proceeds == \E s \in {"discovering", "publishing"} : Goto(p, s)
<1>4. Concludes \/ Proceeds \/ Raises(p) \/ (pilot[p].stage = "routed" /\ Goto(p, "confirming"))
  <2>1. {"ROUTE_CONFLICT", "ROUTE_TARGET_NOT_SELECTED", "HUMAN_DECLINED_NO_ATTEMPT",
         "TOOLING_FAILURE_BEFORE_LIST"} \subseteq PilotOutcomes \ {"DELIVERED", "UNCERTAIN"}
    BY DEF PilotOutcomes
  <2>2. Precheck(p) \/ Fails(p) => Concludes \/ Proceeds \/ Raises(p)
    BY <1>2, <2>1, OutcomesTyped DEF Precheck, Fails, Keeps
  <2>3. NotSelected(p) \/ Select(p) \/ Decline(p) => Concludes \/ Proceeds
    BY <1>2, <2>1 DEF NotSelected, Select, Decline, Keeps
  <2>4. Preview(p) => pilot[p].stage = "routed" /\ Goto(p, "confirming")
    BY DEF Preview
  <2> QED
    BY <2>2, <2>3, <2>4
<1>5. CASE Concludes
  BY <1>2, <1>3, <1>5, OutcomeKeeps DEF After
<1>6. CASE Proceeds
  BY <1>1, <1>3, <1>6, GotoKeeps DEF Before, PilotInv, PilotTypeOK
<1>7. CASE pilot[p].stage = "routed" /\ Goto(p, "confirming")
  BY <1>1, <1>3, <1>7, GotoKeeps DEF Before, PilotInv, PilotTypeOK, PilotOK, Owning
<1>8. CASE Raises(p)
  BY <1>2, <1>3, <1>8, OwnRoute, RaisesKeeps DEF PilotInv, PilotTypeOK
<1> QED
  BY <1>4, <1>5, <1>6, <1>7, <1>8

\* A new record for p and nothing else, where its obligations are met.
LEMMA RecordKeeps ==
  ASSUME PilotInv, NEW p \in Pilots, NEW r \in PilotRecords, pilot' = [pilot EXCEPT ![p] = r],
         r.name = pilot[p].name,
         UNCHANGED <<registry, moved, report>>,
         journal' \in [Pilots -> {"open", "begun", "delivered", "uncertain"}],
         sent' \in [Pilots -> Nat],
         \A q \in Pilots \ {p} : UNCHANGED <<journal[q], sent[q]>>,
         UNCHANGED locator \/ (Locator(p) = NoPilot /\ TakesLocator(p) /\ registry[p]),
         PilotOK(p)'
  PROVE  PilotInv'
<1>1. /\ pilot' \in [Pilots -> PilotRecords] /\ pilot'[p] = r
      /\ \A q \in Pilots \ {p} : pilot'[q] = pilot[q]
  BY NewRecord DEF PilotInv
<1>2. locator' \in [Basenames -> Pilots \cup {NoPilot}]
  BY DEF PilotInv, PilotTypeOK, TakesLocator
<1>3. locator'[pilot[p].name] = p => registry[p]
  BY OwnRoute
<1>4. PilotTypeOK'
  BY <1>1, <1>2 DEF PilotInv, PilotTypeOK, PilotRecords
<1> QED
  BY <1>1, <1>3, <1>4, StepOfOne

LEMMA DiscoverKeeps ==
  ASSUME PilotInv, NEW p \in Pilots, Discover(p)
  PROVE  PilotInv'
<1> DEFINE r == [pilot[p] EXCEPT !.stage = "selecting", !.listed = TRUE]
<1> USE DEF disk, At
<1>1. PilotTypeOK /\ PilotOK(p) /\ pilot[p] \in PilotRecords
  BY DEF PilotInv, PilotTypeOK, PilotRecords
<1>2. r \in PilotRecords
  BY <1>1 DEF PilotRecords, PilotStages
<1>3. pilot' = [pilot EXCEPT ![p] = r] /\ UNCHANGED <<locator, disk>>
  BY DEF Discover, PilotTypeOK
<1>4. /\ r.stage = "selecting" /\ r.outcome = pilot[p].outcome
      /\ r.name = pilot[p].name /\ r.routed = pilot[p].routed
      /\ r.target = pilot[p].target /\ r.verdict = pilot[p].verdict
  BY <1>1 DEF PilotRecords
<1> HIDE DEF r
<1>5. pilot'[p] = r
  BY <1>1, <1>2, <1>3, NewRecord
<1>6. PilotOK(p)'
  BY <1>1, <1>3, <1>4, <1>5 DEF Discover, PilotOK, Owning, Progress, Concluding, Reported, Told,
     Before, After, Locator
<1> QED
  BY <1>1, <1>2, <1>3, <1>4, <1>6, RecordKeeps DEF PilotTypeOK

LEMMA WriteRegistryKeeps ==
  ASSUME PilotInv, NEW p \in Pilots, WriteRegistry(p)
  PROVE  PilotInv'
<1>1. registry \in [Pilots -> BOOLEAN]
  BY DEF PilotInv, PilotTypeOK
<1>2. pilot[p].stage \in Before /\ "linking" \in Before
  BY DEF WriteRegistry, At, Before
<1>3. /\ registry' \in [Pilots -> BOOLEAN]
      /\ \A q \in Pilots : registry'[q] = registry[q] \/ (q = p /\ registry'[q])
      /\ registry'[p]
  BY <1>1 DEF WriteRegistry
<1> QED
  BY <1>2, <1>3, GotoKeeps DEF WriteRegistry

\* The route is taken away only while no locator can name it.
LEMMA RouteFailsKeeps ==
  ASSUME PilotInv, NEW p \in Pilots, RouteFails(p)
  PROVE  PilotInv'
<1>1. pilot[p].stage = "linking" /\ pilot[p].stage \in Before
  BY DEF RouteFails, At, Before
<1>2. pilot[p].stage \notin After \cup {"answered"}
  BY <1>1, Undecided
<1>3. PilotTypeOK /\ (Locator(p) # NoPilot) \in BOOLEAN
  BY DEF PilotInv
<1>4. /\ registry' \in [Pilots -> BOOLEAN]
      /\ \A q \in Pilots \ {p} : registry'[q] = registry[q]
      /\ Locator(p) # NoPilot => registry'[p]
  BY <1>3 DEF RouteFails, PilotTypeOK
<1>5. Raises(p) /\ UNCHANGED <<locator, moved, journal, sent, report>>
  BY DEF RouteFails
<1> QED
  BY <1>2, <1>4, <1>5, NoPilotAssumption, RaisesKeeps DEF Locator

LEMMA LinkLocatorKeeps ==
  ASSUME PilotInv, NEW p \in Pilots, LinkLocator(p)
  PROVE  PilotInv'
<1> USE DEF disk, At
<1>1. PilotTypeOK /\ PilotOK(p) /\ pilot[p] \in PilotRecords /\ pilot[p].name \in Basenames
  BY DEF PilotInv, PilotTypeOK, PilotRecords
<1>2. pilot[p].stage = "linking" /\ pilot[p].stage \in Before /\ registry[p]
  BY <1>1 DEF LinkLocator, Before, PilotOK, Owning
<1>3. /\ \A o \in PilotOutcomes \ {"DELIVERED", "UNCERTAIN"} : Told(p, o)
      /\ pilot[p].verdict = "none" /\ pilot[p].stage \notin After \cup {"answered"}
      /\ pilot[p].outcome = "TOOLING_FAILURE_BEFORE_LIST"
  BY <1>2, Undecided
<1>4. Keeps(p) \in PilotOutcomes \ {"DELIVERED", "UNCERTAIN"} /\ UNCHANGED disk
  BY <1>3 DEF Keeps, PilotOutcomes, LinkLocator
<1>5. CASE Locator(p) # NoPilot
  <2>1. Leaves(p, Keeps(p)) /\ UNCHANGED <<locator, disk>>
    BY <1>5 DEF LinkLocator
  <2> QED
    BY <1>2, <1>3, <1>4, <2>1, OutcomeKeeps
<1>6. CASE Locator(p) = NoPilot /\ Leaves(p, Keeps(p))
  <2>1. /\ pilot' \in [Pilots -> PilotRecords]
        /\ pilot'[p].stage \in {"closing", "guarding"} /\ pilot'[p].outcome = Keeps(p)
        /\ pilot'[p].name = pilot[p].name /\ pilot'[p].routed = pilot[p].routed
        /\ pilot'[p].target = pilot[p].target /\ pilot'[p].verdict = "none"
        /\ \A q \in Pilots \ {p} : pilot'[q] = pilot[q]
    BY <1>1, <1>4, <1>6, WithOutcome
  <2>2. TakesLocator(p) /\ locator' \in [Basenames -> Pilots \cup {NoPilot}]
    BY <1>1, <1>6 DEF LinkLocator, TakesLocator, PilotTypeOK
  <2>3. PilotTypeOK'
    BY <1>1, <1>4, <2>1, <2>2, FilesTyped
  <2>4. Told(p, Keeps(p))
    BY <1>3, <1>4
  <2>5. PilotOK(p)'
    BY <1>1, <1>2, <1>3, <1>4, <2>1, <2>4
       DEF PilotOK, Owning, Progress, Concluding, Reported, Told, Before, After
  <2> QED
    BY <1>2, <1>4, <1>6, <2>1, <2>2, <2>3, <2>5, StepOfOne
<1>7. CASE Locator(p) = NoPilot /\ Raises(p)
  <2>1. TakesLocator(p)
    BY <1>7 DEF LinkLocator
  <2>2. registry' \in [Pilots -> BOOLEAN]
    BY <1>1, <1>4 DEF PilotTypeOK
  <2> QED
    BY <1>2, <1>3, <1>4, <1>7, <2>1, <2>2, RaisesKeeps
<1>8. CASE Locator(p) = NoPilot
           /\ pilot' = [pilot EXCEPT ![p].stage = "routed", ![p].routed = TRUE]
  <2> DEFINE r == [pilot[p] EXCEPT !.stage = "routed", !.routed = TRUE]
  <2>1. r \in PilotRecords
    BY <1>1 DEF PilotRecords, PilotStages
  <2>2. TakesLocator(p)
    BY <1>8 DEF LinkLocator
  <2>3. pilot' = [pilot EXCEPT ![p] = r]
    BY <1>1, <1>8 DEF PilotTypeOK
  <2>4. /\ r.stage = "routed" /\ r.outcome = pilot[p].outcome /\ r.routed
        /\ r.name = pilot[p].name /\ r.name = pilot[p].name /\ r.target = pilot[p].target
        /\ r.verdict = pilot[p].verdict
    BY <1>1 DEF PilotRecords
  <2> HIDE DEF r
  <2>5. pilot'[p] = r
    BY <1>1, <2>1, <2>3, NewRecord
  <2>6. Locator(p)' = p
    BY <1>1, <2>2, <2>4, <2>5 DEF Locator, TakesLocator, PilotTypeOK
  <2>7. PilotOK(p)'
    BY <1>1, <1>2, <1>4, <2>4, <2>5, <2>6
       DEF PilotOK, Owning, Progress, Concluding, Reported, Told, Before, After
  <2> QED
    BY <1>1, <1>2, <1>4, <1>8, <2>1, <2>2, <2>3, <2>4, <2>7, RecordKeeps DEF PilotTypeOK
<1> QED
  BY <1>5, <1>6, <1>7, <1>8 DEF LinkLocator

LEMMA ResolveKeeps ==
  ASSUME PilotInv, NEW p \in Pilots, Resolve(p)
  PROVE  PilotInv'
<1> DEFINE t == IF moved[p] THEN "other" ELSE "shown"
           r == [pilot[p] EXCEPT !.stage = "attempting", !.target = t]
<1> USE DEF disk, At
<1>1. PilotTypeOK /\ PilotOK(p) /\ pilot[p] \in PilotRecords
  BY DEF PilotInv, PilotTypeOK, PilotRecords
<1>2. r \in PilotRecords
  BY <1>1 DEF PilotRecords, PilotStages
<1>3. pilot' = [pilot EXCEPT ![p] = r] /\ UNCHANGED <<locator, disk>>
  BY DEF Resolve, PilotTypeOK
<1>4. /\ r.stage = "attempting" /\ r.outcome = pilot[p].outcome
      /\ r.name = pilot[p].name /\ r.routed = pilot[p].routed
      /\ r.target = t /\ r.verdict = pilot[p].verdict
  BY <1>1 DEF PilotRecords
<1> HIDE DEF r
<1>5. pilot'[p] = r
  BY <1>1, <1>2, <1>3, NewRecord
<1>6. PilotOK(p)'
  BY <1>1, <1>3, <1>4, <1>5 DEF Resolve, PilotOK, Owning, Progress, Concluding, Reported, Told,
     Before, After, Locator
<1> QED
  BY <1>1, <1>2, <1>3, <1>4, <1>6, RecordKeeps DEF PilotTypeOK

\* What a pilot records of the verdict its delivery gives.
LEMMA AnswersRecord ==
  ASSUME PilotTypeOK, NEW p \in Pilots,
         NEW v \in {"DELIVERED", "UNCERTAIN", "FAILED_BEFORE_WRITE"}, Answers(p, v)
  PROVE  \E r \in PilotRecords :
           /\ pilot' = [pilot EXCEPT ![p] = r] /\ pilot'[p] = r
           /\ r.stage = "answered" /\ r.verdict = v
           /\ r.outcome = pilot[p].outcome /\ r.routed = pilot[p].routed
           /\ r.name = pilot[p].name /\ r.target = pilot[p].target
<1> DEFINE r == [pilot[p] EXCEPT !.stage = "answered", !.verdict = v]
<1>1. pilot[p] \in PilotRecords
  BY DEF PilotTypeOK, PilotRecords
<1>2. r \in PilotRecords
  BY <1>1 DEF PilotRecords, PilotStages
<1>3. pilot' = [pilot EXCEPT ![p] = r]
  BY DEF Answers, PilotTypeOK
<1>4. /\ r.stage = "answered" /\ r.verdict = v
      /\ r.outcome = pilot[p].outcome /\ r.routed = pilot[p].routed
      /\ r.name = pilot[p].name /\ r.target = pilot[p].target
  BY <1>1 DEF PilotRecords
<1> HIDE DEF r
<1>5. pilot'[p] = r
  BY <1>2, <1>3, NewRecord
<1> QED
  BY <1>2, <1>3, <1>4, <1>5

LEMMA PrepareFailsKeeps ==
  ASSUME PilotInv, NEW p \in Pilots, PrepareFails(p)
  PROVE  PilotInv'
<1>1. PilotTypeOK /\ PilotOK(p) /\ pilot[p].stage = "attempting" /\ UNCHANGED <<locator, disk>>
  BY DEF PilotInv, PrepareFails, At
<1>2. PICK r \in PilotRecords :
        /\ pilot' = [pilot EXCEPT ![p] = r] /\ pilot'[p] = r
        /\ r.stage = "answered" /\ r.verdict = "FAILED_BEFORE_WRITE"
        /\ r.outcome = pilot[p].outcome /\ r.routed = pilot[p].routed
        /\ r.name = pilot[p].name /\ r.target = pilot[p].target
  BY <1>1, AnswersRecord DEF PrepareFails
<1>3. PilotOK(p)'
  BY <1>1, <1>2
     DEF PilotOK, Owning, Progress, Concluding, Reported, Told, Before, After, NoAttempt, disk,
         Locator
<1> QED
  BY <1>1, <1>2, <1>3, RecordKeeps DEF PilotTypeOK, disk

LEMMA BeginKeeps ==
  ASSUME PilotInv, NEW p \in Pilots, Begin(p)
  PROVE  PilotInv'
<1>1. /\ PilotTypeOK /\ PilotOK(p) /\ pilot[p].stage = "attempting"
      /\ UNCHANGED <<locator, registry, moved, sent, report>>
  BY DEF PilotInv, Begin, At
<1>2. "begun" \in PilotStages
  BY DEF PilotStages
<1>3. /\ pilot' \in [Pilots -> PilotRecords]
      /\ pilot'[p].stage = "begun" /\ pilot'[p].outcome = pilot[p].outcome
      /\ pilot'[p].name = pilot[p].name /\ pilot'[p].routed = pilot[p].routed
      /\ pilot'[p].target = pilot[p].target /\ pilot'[p].verdict = pilot[p].verdict
      /\ \A q \in Pilots \ {p} : pilot'[q] = pilot[q]
  BY <1>1, <1>2, GotoStage DEF Begin
<1>4. /\ journal' \in [Pilots -> {"open", "begun", "delivered", "uncertain"}]
      /\ journal'[p] = "begun" /\ \A q \in Pilots \ {p} : journal'[q] = journal[q]
  BY <1>1 DEF Begin, PilotTypeOK
<1>5. PilotTypeOK'
  BY <1>1, <1>3, <1>4 DEF PilotTypeOK, PilotRecords
<1>6. PilotOK(p)'
  BY <1>1, <1>3, <1>4
     DEF PilotOK, Owning, Progress, Concluding, Reported, Told, Before, After, Locator
<1> QED
  BY <1>1, <1>3, <1>4, <1>5, <1>6, StepBesideLocator

LEMMA SendKeeps ==
  ASSUME PilotInv, NEW p \in Pilots, Send(p)
  PROVE  PilotInv'
<1>1. /\ PilotTypeOK /\ PilotOK(p) /\ pilot[p].stage = "begun"
      /\ UNCHANGED <<locator, registry, moved, journal, report>>
  BY DEF PilotInv, Send, At
<1>2. "waiting" \in PilotStages
  BY DEF PilotStages
<1>3. /\ pilot' \in [Pilots -> PilotRecords]
      /\ pilot'[p].stage = "waiting" /\ pilot'[p].outcome = pilot[p].outcome
      /\ pilot'[p].name = pilot[p].name /\ pilot'[p].routed = pilot[p].routed
      /\ pilot'[p].target = pilot[p].target /\ pilot'[p].verdict = pilot[p].verdict
      /\ \A q \in Pilots \ {p} : pilot'[q] = pilot[q]
  BY <1>1, <1>2, GotoStage DEF Send
<1>4. /\ sent' \in [Pilots -> Nat] /\ sent'[p] = 1
      /\ \A q \in Pilots \ {p} : sent'[q] = sent[q]
  BY <1>1 DEF Send, PilotTypeOK, PilotOK, Progress
<1>5. PilotTypeOK'
  BY <1>1, <1>3, <1>4 DEF PilotTypeOK, PilotRecords
<1>6. PilotOK(p)'
  BY <1>1, <1>3, <1>4
     DEF PilotOK, Owning, Progress, Concluding, Reported, Told, Before, After, Locator
<1> QED
  BY <1>1, <1>3, <1>4, <1>5, <1>6, StepBesideLocator

LEMMA SettleKeeps ==
  ASSUME PilotInv, NEW p \in Pilots, Settle(p)
  PROVE  PilotInv'
<1>1. /\ PilotTypeOK /\ PilotOK(p)
      /\ UNCHANGED <<locator, registry, moved, sent, report>>
  BY DEF PilotInv, Settle
<1>2. \/ /\ pilot[p].stage = "waiting" /\ Answers(p, "DELIVERED")
         /\ journal' = [journal EXCEPT ![p] = "delivered"]
      \/ /\ pilot[p].stage \in {"begun", "waiting"} /\ Answers(p, "UNCERTAIN")
         /\ journal' = [journal EXCEPT ![p] = "uncertain"]
  BY DEF Settle, At
<1>3. PICK v \in {"DELIVERED", "UNCERTAIN"} :
        /\ Answers(p, v)
        /\ journal' = [journal EXCEPT ![p] = IF v = "DELIVERED" THEN "delivered"
                                             ELSE "uncertain"]
        /\ pilot[p].stage \in {"begun", "waiting"}
        /\ v = "DELIVERED" => pilot[p].stage = "waiting"
  BY <1>2
<1>4. PICK r \in PilotRecords :
        /\ pilot' = [pilot EXCEPT ![p] = r] /\ pilot'[p] = r
        /\ r.stage = "answered" /\ r.verdict = v
        /\ r.outcome = pilot[p].outcome /\ r.routed = pilot[p].routed
        /\ r.name = pilot[p].name /\ r.target = pilot[p].target
  BY <1>1, <1>3, AnswersRecord
<1>5. /\ journal' \in [Pilots -> {"open", "begun", "delivered", "uncertain"}]
      /\ journal'[p] = IF v = "DELIVERED" THEN "delivered" ELSE "uncertain"
      /\ \A q \in Pilots \ {p} : journal'[q] = journal[q]
  BY <1>1, <1>3 DEF PilotTypeOK
<1>6. PilotOK(p)'
  <2>1. Owning(p)' /\ Progress(p)'
    BY <1>1, <1>3, <1>4, <1>5 DEF PilotOK, Owning, Progress, Before, Locator
  <2>2. Told(p, v)'
    BY <1>1, <1>3, <1>4, <1>5 DEF PilotOK, Progress, Told, NoAttempt
  <2>3. Concluding(p)' /\ Reported(p)'
    BY <1>1, <1>3, <1>4, <2>2 DEF PilotOK, Concluding, Reported, Told, After
  <2> QED
    BY <2>1, <2>3 DEF PilotOK
<1> QED
  BY <1>1, <1>4, <1>5, <1>6, RecordKeeps DEF PilotTypeOK

LEMMA DeliveryEndsKeeps ==
  ASSUME PilotInv, NEW p \in Pilots, DeliveryRaises(p) \/ DeliveryReturns(p)
  PROVE  PilotInv'
<1> USE DEF disk
<1>1. PilotTypeOK /\ PilotOK(p) /\ pilot[p] \in PilotRecords /\ UNCHANGED <<locator, disk>>
  BY DEF PilotInv, PilotTypeOK, PilotRecords, DeliveryRaises, DeliveryReturns
<1>2. CASE DeliveryRaises(p) /\ Raises(p)
  <2>1. pilot[p].stage \notin After \cup {"answered"}
    BY <1>2 DEF DeliveryRaises, After
  <2>2. registry' \in [Pilots -> BOOLEAN]
    BY <1>1 DEF PilotTypeOK
  <2> QED
    BY <1>1, <1>2, <2>1, <2>2, OwnRoute, RaisesKeeps
<1>3. CASE DeliveryRaises(p) /\ Leaves(p, "POST_LIST_TOOLING_TERMINAL")
  <2>1. /\ "POST_LIST_TOOLING_TERMINAL" \in PilotOutcomes
        /\ Told(p, "POST_LIST_TOOLING_TERMINAL") /\ pilot[p].stage # "ended"
    BY <1>3 DEF DeliveryRaises, PilotOutcomes, Told, NoAttempt
  <2> QED
    BY <1>1, <1>3, <2>1, OutcomeKeeps
<1>4. CASE DeliveryReturns(p)
  <2>1. /\ Leaves(p, pilot[p].verdict) /\ pilot[p].verdict # "none"
        /\ Told(p, pilot[p].verdict) /\ pilot[p].stage # "ended"
    BY <1>1, <1>4 DEF DeliveryReturns, At, PilotOK, Concluding
  <2>2. pilot[p].verdict \in PilotOutcomes
    BY <1>1, <2>1 DEF PilotRecords, PilotOutcomes
  <2> QED
    BY <1>1, <2>1, <2>2, OutcomeKeeps
<1> QED
  BY <1>2, <1>3, <1>4 DEF DeliveryRaises

\* Closing the terminal keeps the outcome, or calls it a tooling failure.
LEMMA CloseTtyKeeps ==
  ASSUME PilotInv, NEW p \in Pilots, CloseTty(p)
  PROVE  PilotInv'
<1> USE DEF disk, At
<1>1. /\ PilotTypeOK /\ PilotOK(p) /\ pilot[p] \in PilotRecords
      /\ pilot[p].stage \in {"closing", "unwinding"} /\ UNCHANGED <<locator, disk>>
  BY DEF PilotInv, PilotTypeOK, PilotRecords, CloseTty
<1>2. CASE pilot[p].stage = "closing" /\ Goto(p, "guarding")
  <2>1. "guarding" \in PilotStages
    BY DEF PilotStages
  <2>2. /\ pilot' \in [Pilots -> PilotRecords]
        /\ pilot'[p].stage = "guarding" /\ pilot'[p].outcome = pilot[p].outcome
        /\ pilot'[p].name = pilot[p].name /\ pilot'[p].routed = pilot[p].routed
        /\ pilot'[p].target = pilot[p].target /\ pilot'[p].verdict = pilot[p].verdict
        /\ \A q \in Pilots \ {p} : pilot'[q] = pilot[q]
    BY <1>1, <1>2, <2>1, GotoStage
  <2>3. PilotTypeOK'
    BY <1>1, <2>2, FilesTyped DEF PilotTypeOK
  <2>4. PilotOK(p)'
    BY <1>1, <1>2, <2>2
       DEF PilotOK, Owning, Progress, Concluding, Reported, Told, Before, After, Locator
  <2> QED
    BY <1>1, <2>2, <2>3, <2>4, StepBesideLocator
<1>3. CASE Ends(p, ToolingFailure(p))
  <2>1. ToolingFailure(p) \in PilotOutcomes /\ Told(p, ToolingFailure(p))
    BY OutcomesTyped DEF Told
  <2> QED
    BY <1>1, <1>3, <2>1, OutcomeKeeps
<1> QED
  BY <1>1, <1>2, <1>3 DEF CloseTty

\* The guard never turns an outcome into a claim: it keeps it, or calls it a
\* tooling failure, and it keeps DELIVERED only of a route that has not moved.
LEMMA GuardedOutcome ==
  ASSUME PilotInv, NEW p \in Pilots, pilot[p].stage = "guarding",
         NEW o \in PostTerminalGuard(p)
  PROVE  /\ o \in PilotOutcomes /\ Told(p, o)
         /\ o = "DELIVERED" => pilot[p].target = "shown"
<1>1. PilotOK(p) /\ pilot[p].target \in {"none", "shown", "other"}
  BY DEF PilotInv, PilotTypeOK
<1>2. Told(p, pilot[p].outcome)
  BY <1>1 DEF PilotOK, Concluding, After
<1>3. /\ o \in PilotOutcomes
      /\ o = pilot[p].outcome \/ o = "POST_LIST_TOOLING_TERMINAL"
      /\ o = "DELIVERED" => ~moved[p] \/ ~pilot[p].routed
  BY DEF PostTerminalGuard
<1>4. Told(p, o)
  BY <1>2, <1>3 DEF Told, NoAttempt
<1> QED
  BY <1>1, <1>3, <1>4 DEF PilotOK, Owning, Told

\* An invocation that is gone holds nothing but what is on disk.
LEMMA GoneKeeps ==
  ASSUME PilotInv, NEW p \in Pilots, Gone(p),
         UNCHANGED <<locator, registry, moved, journal, sent>>,
         \/ UNCHANGED report
         \/ \E o \in PilotOutcomes :
              /\ report' = [report EXCEPT ![p] = o] /\ Told(p, o)
              /\ o = "DELIVERED" => pilot[p].target = "shown"
  PROVE  PilotInv'
<1>1. PilotTypeOK /\ PilotOK(p)
  BY DEF PilotInv
<1>2. /\ pilot' \in [Pilots -> PilotRecords]
      /\ pilot'[p].stage = "ended" /\ pilot'[p].outcome = "TOOLING_FAILURE_BEFORE_LIST"
      /\ pilot'[p].name = pilot[p].name
      /\ pilot'[p].target = pilot[p].target /\ pilot'[p].verdict = "none"
      /\ \A q \in Pilots \ {p} : pilot'[q] = pilot[q]
  BY <1>1, GoneRecord
<1>3. /\ report' \in [Pilots -> PilotOutcomes \cup {"none"}]
      /\ \A q \in Pilots \ {p} : report'[q] = report[q]
      /\ \/ report'[p] = report[p]
         \/ /\ Told(p, report'[p])
            /\ report'[p] = "DELIVERED" => pilot[p].target = "shown"
  BY <1>1 DEF PilotTypeOK
<1>4. PilotTypeOK'
  BY <1>1, <1>2, <1>3 DEF PilotTypeOK, PilotRecords
<1>5. PilotOK(p)'
  <2>1. Owning(p)' /\ Progress(p)'
    BY <1>1, <1>2 DEF PilotOK, Owning, Progress, Before, Locator
  <2>2. Concluding(p)' /\ Reported(p)'
    BY <1>1, <1>2, <1>3 DEF PilotOK, Concluding, Reported, Told, After, NoAttempt
  <2> QED
    BY <2>1, <2>2 DEF PilotOK
<1> QED
  BY <1>2, <1>3, <1>4, <1>5, StepBesideLocator

LEMMA FinallyKeeps ==
  ASSUME PilotInv, NEW p \in Pilots, Finally(p)
  PROVE  PilotInv'
<1>1. /\ Gone(p) /\ pilot[p].stage = "guarding"
      /\ UNCHANGED <<locator, registry, moved, journal, sent>>
  BY DEF Finally, At
<1>2. CASE UNCHANGED report
  BY <1>1, <1>2, GoneKeeps
<1>3. CASE \E o \in PostTerminalGuard(p) : report' = [report EXCEPT ![p] = o]
  <2>1. PICK o \in PostTerminalGuard(p) : report' = [report EXCEPT ![p] = o]
    BY <1>3
  <2>2. /\ o \in PilotOutcomes /\ Told(p, o)
        /\ o = "DELIVERED" => pilot[p].target = "shown"
    BY <1>1, <2>1, GuardedOutcome
  <2> QED
    BY <1>1, <2>1, <2>2, GoneKeeps
<1> QED
  BY <1>2, <1>3 DEF Finally

LEMMA KillKeeps ==
  ASSUME PilotInv, NEW p \in Pilots, Kill(p)
  PROVE  PilotInv'
BY GoneKeeps DEF Kill, disk

LEMMA InterruptKeeps ==
  ASSUME PilotInv, NEW p \in Pilots, Interrupt(p)
  PROVE  PilotInv'
<1> USE DEF At
<1>1. /\ PilotTypeOK /\ PilotOK(p) /\ pilot[p] \in PilotRecords
      /\ pilot[p].stage \notin {"guarding", "ended"}
      /\ UNCHANGED <<locator, moved, journal, sent, report>>
  BY DEF PilotInv, PilotTypeOK, PilotRecords, Interrupt, WithTty
<1>2. pilot[p].outcome \in PilotOutcomes /\ Keeps(p) = pilot[p].outcome
  BY <1>1 DEF PilotRecords, Keeps
<1>3. /\ pilot' \in [Pilots -> PilotRecords]
      /\ pilot'[p].stage \in {"closing", "guarding"}
      /\ pilot'[p].outcome = pilot[p].outcome
      /\ pilot'[p].name = pilot[p].name /\ pilot'[p].routed = pilot[p].routed
      /\ pilot'[p].target = pilot[p].target /\ pilot'[p].verdict = "none"
      /\ \A q \in Pilots \ {p} : pilot'[q] = pilot[q]
  <2>1. CASE Leaves(p, Keeps(p))
    BY <1>1, <1>2, <2>1, WithOutcome
  <2>2. CASE /\ Goto(p, "guarding")
             /\ pilot[p].stage \in {"precheck", "closing", "unwinding"}
    <3>1. "guarding" \in PilotStages /\ pilot[p].verdict = "none"
      BY <1>1, <2>2 DEF PilotStages, PilotOK, Progress
    <3> QED
      BY <1>1, <2>2, <3>1, GotoStage
  <2> QED
    BY <2>1, <2>2 DEF Interrupt
<1>4. /\ registry' \in [Pilots -> BOOLEAN]
      /\ \A q \in Pilots \ {p} : registry'[q] = registry[q]
      /\ Locator(p) # NoPilot /\ registry[p] => registry'[p]
  <2>1. registry \in [Pilots -> BOOLEAN] /\ registry[p] \in BOOLEAN
    BY <1>1 DEF PilotTypeOK
  <2> DEFINE kept == registry[p] /\ (pilot[p].stage = "linking" => Locator(p) # NoPilot)
  <2>2. kept \in BOOLEAN /\ registry' = [registry EXCEPT ![p] = kept]
    BY DEF Interrupt
  <2>3. Locator(p) # NoPilot /\ registry[p] => kept
    OBVIOUS
  <2> HIDE DEF kept
  <2> QED
    BY <2>1, <2>2, <2>3
<1>5. PilotTypeOK'
  BY <1>1, <1>3, <1>4 DEF PilotTypeOK, PilotRecords
<1>6. Told(p, pilot[p].outcome)
  BY <1>1 DEF PilotOK, Concluding, Told, NoAttempt
<1>7. PilotOK(p)'
  <2>1. Owning(p)' /\ Progress(p)'
    BY <1>1, <1>3 DEF PilotOK, Owning, Progress, Before, Locator
  <2>2. Concluding(p)' /\ Reported(p)'
    BY <1>1, <1>3, <1>6 DEF PilotOK, Concluding, Reported, Told, After
  <2> QED
    BY <2>1, <2>2 DEF PilotOK
<1> QED
  BY <1>1, <1>3, <1>4, <1>5, <1>7, StepBesideLocator

LEMMA RouteMovesKeeps ==
  ASSUME PilotInv, NEW p \in Pilots, RouteMoves(p)
  PROVE  PilotInv'
<1>1. /\ PilotTypeOK /\ PilotOK(p)
      /\ UNCHANGED <<pilot, locator, registry, journal, sent, report>>
  BY DEF PilotInv, RouteMoves
<1>2. /\ moved' \in [Pilots -> BOOLEAN] /\ moved'[p]
      /\ \A q \in Pilots \ {p} : moved'[q] = moved[q]
  BY <1>1 DEF RouteMoves, PilotTypeOK
<1>3. PilotTypeOK'
  BY <1>1, <1>2 DEF PilotTypeOK
<1>4. PilotOK(p)'
  BY <1>1, <1>2 DEF PilotOK, Owning, Progress, Concluding, Reported, Told, Locator
<1> QED
  BY <1>1, <1>2, <1>3, <1>4, StepBesideLocator

LEMMA NextPilotInv == PilotInv /\ [Next]_pilotVars => PilotInv'
<1> SUFFICES ASSUME PilotInv, [Next]_pilotVars PROVE PilotInv'
  OBVIOUS
<1>1. ASSUME NEW p \in Pilots, Deliver(p) PROVE PilotInv'
  BY <1>1, PreludeKeeps, ResolveKeeps, PrepareFailsKeeps, BeginKeeps, SendKeeps, SettleKeeps,
     DeliveryEndsKeeps DEF Deliver
<1>2. ASSUME NEW p \in Pilots,
             \/ Precheck(p) \/ Discover(p) \/ Fails(p) \/ NotSelected(p) \/ Select(p)
             \/ WriteRegistry(p) \/ RouteFails(p) \/ LinkLocator(p) \/ Preview(p)
      PROVE  PilotInv'
  BY <1>2, PreludeKeeps, DiscoverKeeps, WriteRegistryKeeps, RouteFailsKeeps, LinkLocatorKeeps
<1>3. ASSUME NEW p \in Pilots,
             CloseTty(p) \/ Finally(p) \/ Interrupt(p) \/ Kill(p) \/ RouteMoves(p)
      PROVE  PilotInv'
  BY <1>3, CloseTtyKeeps, FinallyKeeps, InterruptKeeps, KillKeeps, RouteMovesKeeps
<1>4. CASE UNCHANGED pilotVars
  BY <1>4 DEF pilotVars, PilotInv, PilotTypeOK, PilotOK, Owning, Progress, Concluding, Reported,
     Told, LocatorNamesRoute, Locator
<1> QED
  BY <1>1, <1>2, <1>3, <1>4 DEF Next

-----------------------------------------------------------------------------
(* The theorems. *)

\* PilotInv holds of every state the invocations reach.
THEOREM Inductive == Spec => []PilotInv
<1> QED
  BY InitPilotInv, NextPilotInv, PTL DEF Spec

\* Type correctness of the invocations and the files they leave.
THEOREM TypeCorrect == Spec => []PilotTypeOK
<1>1. PilotInv => PilotTypeOK
  BY DEF PilotInv
<1> QED
  BY <1>1, Inductive, PTL

\* However many invocations of run_supervised_pilot run, crash and race under one
\* locator basename, at most one of them begins an attempt.
THEOREM OneAttempt == Spec => []OneDelivery
<1>1. PilotInv => OneDelivery
  <2> SUFFICES ASSUME PilotInv, NEW n \in Basenames
               PROVE  Cardinality({p \in Pilots :
                        pilot[p].name = n /\ (journal[p] # "open" \/ sent[p] > 0)}) <= 1
    BY DEF OneDelivery
  <2> DEFINE S == {p \in Pilots : pilot[p].name = n /\ (journal[p] # "open" \/ sent[p] > 0)}
  <2>1. S \subseteq {locator[n]}
    BY DEF PilotInv, PilotOK, Owning, Locator
  <2>2. IsFiniteSet({locator[n]}) /\ Cardinality({locator[n]}) = 1
    BY FS_Singleton
  <2> QED
    BY <2>1, <2>2, FS_Subset
<1> QED
  BY <1>1, Inductive, PTL

\* A sanitized report that says something of the delivery says what its journal
\* says.
THEOREM HonestReports == Spec => []ReportsAreTrue
<1>1. PilotInv => ReportsAreTrue
  BY DEF PilotInv, PilotOK, Reported, Told, NoAttempt, ReportsAreTrue
<1> QED
  BY <1>1, Inductive, PTL

\* No failure of any invocation takes away the route a locator names.
THEOREM RouteStays == Spec => []LocatorNamesRoute
<1>1. PilotInv => LocatorNamesRoute
  BY DEF PilotInv
<1> QED
  BY <1>1, Inductive, PTL

\* The deliveries of the pilot take the steps of DeliverOnce.
LEMMA DeliveryStep ==
  ASSUME PilotInv, NEW p \in Pilots, Begin(p) \/ Send(p) \/ Settle(p)
  PROVE  Once!Next
<1>1. PilotInv'
  BY BeginKeeps, SendKeeps, SettleKeeps
<1>2. /\ journal' \in [Pilots -> Once!Stages]
      /\ sent' \in [Pilots -> Nat]
  BY <1>1 DEF PilotInv, PilotTypeOK, Once!Stages
<1>3. \A q \in Pilots \ {p} : Once!Stay(q)
  BY DEF Begin, Send, Settle, Once!Stay, PilotInv, PilotTypeOK
<1>4. PilotTypeOK /\ Progress(p)
  BY DEF PilotInv, PilotOK
<1>5. CASE Begin(p)
  <2>1. Once!Begin(p)
    BY <1>4, <1>5 DEF Begin, At, Progress, Before, Once!Begin, PilotTypeOK
  <2> QED
    BY <1>2, <1>3, <2>1 DEF Once!Next
<1>6. CASE Send(p)
  <2>1. Once!Hand(p)
    BY <1>4, <1>6 DEF Send, At, Progress, Once!Hand, PilotTypeOK
  <2> QED
    BY <1>2, <1>3, <2>1 DEF Once!Next
<1>7. CASE Settle(p)
  <2>1. Once!Settle(p)
    BY <1>4, <1>7 DEF Settle, At, Progress, Once!Settle, PilotTypeOK
  <2> QED
    BY <1>2, <1>3, <2>1 DEF Once!Next
<1> QED
  BY <1>5, <1>6, <1>7

\* The deliveries the pilot makes keep the promise of DeliverOnce, in which
\* Delivery's journal is summed up.
THEOREM KeepsThePromise == Spec => UsesDeliverOnce
<1>1. Init => Once!Init
  BY DEF Init, Once!Init
<1>2. PilotInv /\ [Next]_pilotVars => [Once!Next]_Once!onceVars
  <2>1. SUFFICES ASSUME PilotInv, [Next]_pilotVars, ~UNCHANGED <<journal, sent>>
                 PROVE  Once!Next
    BY DEF Once!onceVars
  <2>2. \E p \in Pilots : Begin(p) \/ Send(p) \/ Settle(p)
    BY <2>1 DEF Next, pilotVars, disk, Precheck, Discover, Fails, NotSelected, Select,
       WriteRegistry, RouteFails, LinkLocator, Preview, Deliver, Decline, Resolve,
       PrepareFails, DeliveryRaises, DeliveryReturns, CloseTty, Finally, Interrupt, Kill,
       RouteMoves
  <2> QED
    BY <2>1, <2>2, DeliveryStep
<1> QED
  BY <1>1, <1>2, Inductive, PTL DEF Spec, UsesDeliverOnce, Once!Spec
=============================================================================
