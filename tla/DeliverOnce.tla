----------------------------- MODULE DeliverOnce -----------------------------
(***************************************************************************)
(* What a delivery journal promises the operator, without processes, locks *)
(* or a disk: a message, that is a payload for one target alias, is handed *)
(* to the target at most once, never before the journal says so for good,  *)
(* and its verdict never changes.  Several messages may move in one step,  *)
(* since one synchronisation makes every record of the file durable.       *)
(***************************************************************************)
EXTENDS Naturals

CONSTANT Messages

VARIABLES
  stage,   \* the durable verdict of each message
  handed   \* how often the target received each message

onceVars == <<stage, handed>>

Stages == {"open", "begun", "delivered", "uncertain"}

Init ==
  /\ stage = [m \in Messages |-> "open"]
  /\ handed = [m \in Messages |-> 0]

Stay(m) == stage'[m] = stage[m] /\ handed'[m] = handed[m]

Begin(m) ==
  /\ stage[m] = "open" /\ stage'[m] = "begun"
  /\ handed'[m] = handed[m]

Hand(m) ==
  /\ stage[m] = "begun" /\ stage'[m] = stage[m]
  /\ handed[m] = 0 /\ handed'[m] = 1

Settle(m) ==
  /\ stage[m] = "begun"
  /\ \/ stage'[m] = "uncertain"
     \/ stage'[m] = "delivered" /\ handed[m] = 1
  /\ handed'[m] = handed[m]

Next ==
  /\ stage' \in [Messages -> Stages]
  /\ handed' \in [Messages -> Nat]
  /\ \A m \in Messages : Stay(m) \/ Begin(m) \/ Hand(m) \/ Settle(m)

Spec == Init /\ [][Next]_onceVars
=============================================================================
