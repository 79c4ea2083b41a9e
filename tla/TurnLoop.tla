------------------------------ MODULE TurnLoop ------------------------------
(***************************************************************************)
(* What the controller promises its planner and its workers, without event *)
(* log, idempotency keys, clock or review step: a run offers one bounded   *)
(* turn at a time, a turn is owned by at most one claim, a claim number is *)
(* never used twice, only the owning claim answers its turn, and a run is  *)
(* accepted only on an answer that brought evidence.                       *)
(***************************************************************************)
EXTENDS Naturals

CONSTANT Runs

VARIABLES
  phase,   \* where the run's loop stands
  held,    \* the phase a paused run goes back to, "none" when not paused
  turn,    \* number of the current turn
  limit,   \* how many turns the run may use
  proof,   \* whether the current turn was answered with evidence
  owner,   \* the claim that owns the current turn, 0 when none does
  handed   \* number of claims handed out so far

loopVars == <<phase, held, turn, limit, proof, owner, handed>>

Resumable == {"planning", "offered", "answered"}

Closed == {"escalated", "failed", "stopped", "accepted"}

Init ==
  /\ phase = [r \in Runs |-> "unborn"]
  /\ held = [r \in Runs |-> "none"]
  /\ turn = [r \in Runs |-> 0]
  /\ limit = [r \in Runs |-> 0]
  /\ proof = [r \in Runs |-> FALSE]
  /\ owner = [r \in Runs |-> 0]
  /\ handed = 0

Moves(r, to) == phase' = [phase EXCEPT ![r] = to]

Disowns(r) == owner' = [owner EXCEPT ![r] = 0]

Open(r) ==
  /\ phase[r] = "unborn"
  /\ Moves(r, "planning")
  /\ limit'[r] \in Nat \ {0}
  /\ limit' = [limit EXCEPT ![r] = limit'[r]]
  /\ UNCHANGED <<held, turn, proof, owner, handed>>

Offer(r) ==
  /\ phase[r] \in {"planning", "answered"}
  /\ turn[r] < limit[r]
  /\ Moves(r, "offered")
  /\ turn' = [turn EXCEPT ![r] = @ + 1]
  /\ proof' = [proof EXCEPT ![r] = FALSE]
  /\ UNCHANGED <<held, limit, owner, handed>>

\* Also the hand-over of a turn whose owner lost it.
Claim(r) ==
  /\ phase[r] \in {"offered", "owned"}
  /\ Moves(r, "owned")
  /\ owner' = [owner EXCEPT ![r] = handed + 1]
  /\ handed' = handed + 1
  /\ UNCHANGED <<held, turn, limit, proof>>

Answer(r) ==
  /\ phase[r] = "owned"
  /\ Moves(r, "answered")
  /\ Disowns(r)
  /\ \E good \in BOOLEAN : proof' = [proof EXCEPT ![r] = good]
  /\ UNCHANGED <<held, turn, limit, handed>>

\* Owners lose their turns; the turns are on offer again.
Revoke(lost) ==
  /\ lost # {}
  /\ \A r \in lost : phase[r] = "owned"
  /\ phase' = [r \in Runs |-> IF r \in lost THEN "offered" ELSE phase[r]]
  /\ owner' = [r \in Runs |-> IF r \in lost THEN 0 ELSE owner[r]]
  /\ UNCHANGED <<held, turn, limit, proof, handed>>

Hold(r) ==
  /\ phase[r] \in Resumable \cup {"owned"}
  /\ held' = [held EXCEPT ![r] = IF phase[r] = "owned" THEN "offered"
                                 ELSE phase[r]]
  /\ Moves(r, "held")
  /\ Disowns(r)
  /\ UNCHANGED <<turn, limit, proof, handed>>

Resume(r) ==
  /\ phase[r] = "held"
  /\ Moves(r, held[r])
  /\ held' = [held EXCEPT ![r] = "none"]
  /\ UNCHANGED <<turn, limit, proof, owner, handed>>

Close(r, outcome) ==
  /\ phase[r] \in Resumable \cup {"owned", "held"}
  /\ outcome = "accepted" => phase[r] = "answered" /\ proof[r]
  /\ outcome = "escalated" => phase[r] \in {"owned", "answered"}
  /\ Moves(r, outcome)
  /\ held' = [held EXCEPT ![r] = "none"]
  /\ Disowns(r)
  /\ UNCHANGED <<turn, limit, proof, handed>>

Next ==
  \/ \E r \in Runs :
       \/ Open(r) \/ Offer(r) \/ Claim(r) \/ Answer(r) \/ Hold(r) \/ Resume(r)
       \/ \E outcome \in Closed : Close(r, outcome)
  \/ \E lost \in SUBSET Runs : Revoke(lost)

Spec == Init /\ [][Next]_loopVars
=============================================================================
