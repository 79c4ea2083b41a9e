-------------------------- MODULE PublicationProofs --------------------------
(***************************************************************************)
(* What holds of a publication for every set of results, however often the *)
(* coordinator is killed and run again and whenever git moves a document.  *)
(***************************************************************************)
EXTENDS Publication, TLAPS

-----------------------------------------------------------------------------
(* The five files and their order. *)

\* The files in the order the coordinator publishes them.
LEMMA Order ==
  /\ Payloads[1] = "response" /\ Payloads[2] = "checksum" /\ Payloads[3] = "handoff"
  /\ Payloads[4] = "feature" /\ Payloads[5] = "state"
  /\ \A i \in 1..5 : Payloads[i] \in Files
BY DEF Payloads, Files, Artifacts, Documents

\* The file a coordinator is at.
LEMMA FileAt ==
  ASSUME at \in 0..4
  PROVE  /\ File \in Files
         /\ at = 0 => File = "response"
         /\ at = 1 => File = "checksum"
         /\ at = 2 => File = "handoff"
         /\ at = 3 => File = "feature"
         /\ at = 4 => File = "state"
<1>1. at + 1 \in 1..5
  OBVIOUS
<1>2. at = 0 \/ at = 1 \/ at = 2 \/ at = 3 \/ at = 4
  OBVIOUS
<1> QED
  BY <1>1, <1>2, Order DEF File

-----------------------------------------------------------------------------
(* The inductive invariant.  What the documents point to is right because    *)
(* of the order of the files, so it takes a statement of how far the call    *)
(* that is under way has come, also where an earlier one was killed; and     *)
(* because an artifact that is there never changes, which is why everybody   *)
(* was told of the one result whose response is there.                       *)

\* The files this call is done with hold its result, unless git has moved a
\* document since.
Placed ==
  \A i \in 1..at :
    tree[Payloads[i]] = req \/ (Payloads[i] \in Documents /\ tree[Payloads[i]] = Moved)

\* An artifact about to be renamed is still absent.
NothingReplaced ==
  stage \in {"writing", "renaming"} /\ File \in Artifacts => tree[File] = Absent

Position ==
  /\ stage \in {"idle", "requiring"} => at = 0
  /\ stage = "pushing" => at = 5
  /\ stage = "requiring" \/ pushes => upto = 5

\* Only prepare goes on to the handoff, and it has found its response committed.
Required == stage # "idle" /\ upto = 5 => req \in committed

\* The response that is there is the only one that was committed or spoken of.
OneResponse ==
  /\ \A q \in committed : tree["response"] = q
  /\ \A s \in said : tree["response"] = s[1]

\* A prepare or publish that began with a moved document gets no further than the
\* comparison.
Halted ==
  stale /\ stage # "idle" /\ upto = 5 =>
    stage = "requiring" /\ \E f \in Documents : ~Expected(f)

PubInv ==
  /\ PubTypeOK
  /\ Placed
  /\ NothingReplaced
  /\ Position
  /\ Required
  /\ OneResponse
  /\ Halted
  /\ StateNamesArtifacts

LEMMA InitPubInv == Init => PubInv
<1> SUFFICES ASSUME Init PROVE PubInv
  OBVIOUS
<1>1. PubTypeOK
  <2>1. tree \in [Files -> Requests \cup {Absent, Frontier, Moved}]
    BY DEF Init
  <2>2. \A f \in Artifacts : tree[f] \notin {Frontier, Moved}
    BY ContentAssumption DEF Init, Files
  <2>3. upto \in {2, 5} /\ at \in 0..upto /\ stage \in PubStages
    BY DEF Init, PubStages
  <2>4. pushes \in BOOLEAN /\ stale \in BOOLEAN
    BY DEF Init
  <2> QED
    BY <2>1, <2>2, <2>3, <2>4 DEF Init, PubTypeOK
<1>2. StateNamesArtifacts
  BY ContentAssumption DEF Init, StateNamesArtifacts, Files, Artifacts, Documents
<1> QED
  BY <1>1, <1>2 DEF Init, PubInv, Placed, NothingReplaced, Position, Required, OneResponse,
     Halted

\* A step that touches no file, commits nothing and says nothing.
LEMMA QuietStep ==
  ASSUME PubInv, UNCHANGED <<tree, committed, said>>,
         PubTypeOK', Position',
         at' = 0 \/ (at' = at /\ req' = req),
         NothingReplaced', Required', Halted'
  PROVE  PubInv'
<1>1. Placed'
  <2>1. CASE at' = 0
    BY <2>1 DEF Placed
  <2>2. CASE at' = at /\ req' = req
    BY <2>2 DEF PubInv, Placed
  <2> QED
    BY <2>1, <2>2
<1>2. OneResponse' /\ StateNamesArtifacts'
  BY DEF PubInv, OneResponse, StateNamesArtifacts
<1> QED
  BY <1>1, <1>2 DEF PubInv

\* Where a call ends: it has raised, or was killed.
LEMMA RaiseKeeps ==
  ASSUME PubInv, stage' = "idle", at' = 0, partial' \subseteq partial,
         UNCHANGED <<tree, committed, call, said>>
  PROVE  PubInv'
<1>1. PubTypeOK'
  BY DEF PubInv, PubTypeOK, PubStages, call
<1>2. Position' /\ NothingReplaced' /\ Required' /\ Halted'
  BY DEF PubInv, Position, NothingReplaced, Required, Halted, call
<1> QED
  BY <1>1, <1>2, QuietStep

\* Every action keeps the invariant, one lemma each.
LEMMA PrepareResponseKeeps ==
  ASSUME PubInv, NEW q \in Requests, PrepareResponse(q)
  PROVE  PubInv'
<1>1. PubTypeOK'
  <2>1. upto' \in {2, 5} /\ at' \in 0..upto' /\ at' < upto' /\ stage' \in PubStages
    BY DEF PrepareResponse, PubStages
  <2>2. pushes' \in BOOLEAN /\ stale' \in BOOLEAN
    BY DEF PrepareResponse, Stale
  <2> QED
    BY <2>1, <2>2 DEF PubInv, PubTypeOK, PrepareResponse
<1>2. Position' /\ NothingReplaced' /\ Required' /\ Halted'
  BY DEF PrepareResponse, Position, NothingReplaced, Required, Halted
<1> QED
  BY <1>1, <1>2, QuietStep DEF PrepareResponse

LEMMA PrepareKeeps ==
  ASSUME PubInv, NEW q \in Requests, NEW push \in BOOLEAN, Prepare(q, push)
  PROVE  PubInv'
<1>1. PubTypeOK'
  BY DEF PubInv, PubTypeOK, PubStages, Prepare, Stale
<1>2. Position' /\ NothingReplaced' /\ Required' /\ Halted'
  BY DEF Prepare, Position, NothingReplaced, Required, Halted, Expected, Stale
<1> QED
  BY <1>1, <1>2, QuietStep DEF Prepare

LEMMA RequireExpectedKeeps ==
  ASSUME PubInv, RequireExpected
  PROVE  PubInv'
<1>1. PubTypeOK'
  BY DEF PubInv, PubTypeOK, PubStages, RequireExpected, call, Position
<1>2. Position' /\ NothingReplaced' /\ Required' /\ Halted'
  BY DEF PubInv, RequireExpected, Position, NothingReplaced, Required, Halted, call
<1> QED
  BY <1>1, <1>2, QuietStep DEF RequireExpected, call

LEMMA LookKeeps ==
  ASSUME PubInv, Look
  PROVE  PubInv'
<1>1. PubTypeOK'
  BY DEF PubInv, PubTypeOK, PubStages, Look, call
<1>2. NothingReplaced'
  <2>1. File' = File
    BY DEF Look, File
  <2>2. File \in Artifacts => tree[File] = Absent
    BY DEF Look, Writable, Artifacts, Documents
  <2> QED
    BY <2>1, <2>2 DEF NothingReplaced, Look
<1>3. Position' /\ Required' /\ Halted'
  BY DEF PubInv, Look, Position, Required, Halted, call
<1> QED
  BY <1>1, <1>2, <1>3, QuietStep DEF Look, call

LEMMA WriteKeeps ==
  ASSUME PubInv, Write
  PROVE  PubInv'
<1>1. at \in 0..4
  BY DEF PubInv, PubTypeOK, Write
<1>2. PubTypeOK'
  BY <1>1, FileAt DEF PubInv, PubTypeOK, PubStages, Write, call
<1>3. NothingReplaced'
  <2>1. File' = File
    BY DEF Write, File
  <2> QED
    BY <2>1 DEF PubInv, NothingReplaced, Write
<1>4. Position' /\ Required' /\ Halted'
  BY DEF PubInv, Write, Position, Required, Halted, call
<1> QED
  BY <1>2, <1>3, <1>4, QuietStep DEF Write, call

\* The file at hand is in place: the next one is looked at, or the call ends and
\* tells its caller, or it goes on to push.
LEMMA AdvanceKeeps ==
  ASSUME PubInv, Advance, UNCHANGED <<committed, call>>,
         stage \in {"looking", "renaming"},
         tree' \in [Files -> Requests \cup {Absent, Frontier, Moved}],
         \A f \in Artifacts : tree'[f] \notin {Frontier, Moved},
         \A f \in Files : tree'[f] = IF f = File THEN req ELSE tree[f],
         partial' \subseteq partial,
         File \in Artifacts => tree[File] \in {Absent, req}
  PROVE  PubInv'
<1> USE DEF call
<1>1. /\ at \in 0..4 /\ at < upto /\ upto \in {2, 5} /\ req \in Requests
      /\ stale => upto = 2
  BY DEF PubInv, PubTypeOK, Halted
<1>2. PubTypeOK'
  <2>1. said' \subseteq Requests \X Statuses
    BY <1>1 DEF PubInv, PubTypeOK, Advance, Answer, Statuses
  <2>2. /\ stage' \in PubStages /\ at' \in 0..upto
        /\ stage' \in {"looking", "writing", "renaming"} => at' < upto
    BY <1>1 DEF Advance, Answer, PubStages
  <2> QED
    BY <2>1, <2>2 DEF PubInv, PubTypeOK
<1>3. Position' /\ NothingReplaced' /\ Halted'
  BY <1>1 DEF PubInv, Position, NothingReplaced, Halted, Advance, Answer
<1>4. Required'
  BY DEF PubInv, Required
<1>5. /\ \A f \in Files : f # File => tree'[f] = tree[f]
      /\ tree'[File] = req /\ File \in Files
  BY <1>1, FileAt
<1>6. Placed'
  <2>1. \A i \in 1..at : tree'[Payloads[i]] = req
                         \/ (Payloads[i] \in Documents /\ tree'[Payloads[i]] = Moved)
    <3>1. SUFFICES ASSUME NEW i \in 1..at
                   PROVE  tree'[Payloads[i]] = req
                          \/ (Payloads[i] \in Documents /\ tree'[Payloads[i]] = Moved)
      OBVIOUS
    <3>2. Payloads[i] \in Files
      BY <1>1, Order
    <3> QED
      BY <1>5, <3>2 DEF PubInv, Placed
  <2>2. at' = 0 \/ at' = at + 1
    BY DEF Advance, Answer
  <2>3. tree'[Payloads[at + 1]] = req
    BY <1>5 DEF File
  <2>4. CASE at' = 0
    BY <2>4 DEF Placed
  <2>5. CASE at' = at + 1
    <3>1. \A i \in 1..at' : i \in 1..at \/ i = at + 1
      BY <1>1, <2>5
    <3> QED
      BY <2>1, <2>3, <3>1 DEF Placed
  <2> QED
    BY <2>2, <2>4, <2>5
<1>7. /\ at >= 1 => tree["response"] = req
      /\ at >= 2 => tree["checksum"] = req
      /\ at >= 3 => tree["handoff"] = req
      /\ at >= 4 => tree["feature"] \in {req, Moved}
  BY <1>1, Order DEF PubInv, Placed, Documents
<1>8. tree'["response"] = req
      /\ (tree["response"] \in Requests => tree'["response"] = tree["response"])
  BY <1>1, <1>5, <1>7, FileAt, ContentAssumption DEF Files, Artifacts
<1>9. OneResponse'
  <2>1. \A q \in committed : tree'["response"] = q
    BY <1>8 DEF PubInv, OneResponse, PubTypeOK
  <2>2. \A s \in said : tree'["response"] = s[1]
    BY <1>8 DEF PubInv, OneResponse, PubTypeOK
  <2>3. \A s \in said' : s \in said \/ s[1] = req
    BY DEF Advance, Answer
  <2> QED
    BY <1>8, <2>1, <2>2, <2>3 DEF OneResponse
<1>10. StateNamesArtifacts'
  <2>1. SUFFICES ASSUME NEW q \in Requests
                 PROVE  /\ tree'["state"] = q =>
                             /\ \A f \in Artifacts : tree'[f] = q
                             /\ tree'["feature"] \in {q, Moved}
                        /\ tree'["handoff"] = q =>
                             tree'["response"] = q /\ tree'["checksum"] = q /\ q \in committed
    BY DEF StateNamesArtifacts
  <2>2. /\ tree["state"] = q =>
             /\ tree["response"] = q /\ tree["checksum"] = q /\ tree["handoff"] = q
             /\ tree["feature"] \in {q, Moved}
        /\ tree["handoff"] = q =>
             tree["response"] = q /\ tree["checksum"] = q /\ q \in committed
    BY DEF PubInv, StateNamesArtifacts, Artifacts
  <2>3. q # Absent /\ q # Moved
    BY ContentAssumption
  <2>4. at >= 2 => req \in committed
    BY <1>1 DEF PubInv, Required
  <2>5. CASE at = 0 \/ at = 1
    BY <1>1, <1>5, <1>7, <2>2, <2>3, <2>5, FileAt DEF Files, Artifacts, Documents
  <2>6. CASE at = 2
    BY <1>1, <1>5, <1>7, <2>2, <2>3, <2>4, <2>6, FileAt DEF Files, Artifacts, Documents
  <2>7. CASE at = 3
    BY <1>1, <1>5, <1>7, <2>2, <2>3, <2>4, <2>7, FileAt DEF Files, Artifacts, Documents
  <2>8. CASE at = 4
    BY <1>1, <1>5, <1>7, <2>2, <2>3, <2>4, <2>8, FileAt DEF Files, Artifacts, Documents
  <2> QED
    BY <1>1, <2>5, <2>6, <2>7, <2>8
<1> QED
  BY <1>2, <1>3, <1>4, <1>6, <1>9, <1>10 DEF PubInv

LEMMA SkipKeeps ==
  ASSUME PubInv, Skip
  PROVE  PubInv'
<1>1. \A f \in Files : tree'[f] = IF f = File THEN req ELSE tree[f]
  BY DEF Skip
<1> QED
  BY <1>1, AdvanceKeeps DEF Skip, PubInv, PubTypeOK

LEMMA RenameKeeps ==
  ASSUME PubInv, Rename
  PROVE  PubInv'
<1>1. at \in 0..4 /\ req \in Requests /\ stage = "renaming"
  BY DEF PubInv, PubTypeOK, Rename
<1>2. File \in Files
  BY <1>1, FileAt
<1>3. /\ tree' \in [Files -> Requests \cup {Absent, Frontier, Moved}]
      /\ \A f \in Files : tree'[f] = IF f = File THEN req ELSE tree[f]
  BY <1>1, <1>2 DEF PubInv, PubTypeOK, Rename
<1>4. \A f \in Artifacts : tree'[f] \notin {Frontier, Moved}
  BY <1>1, <1>3, ContentAssumption DEF PubInv, PubTypeOK, Files
<1>5. File \in Artifacts => tree[File] \in {Absent, req}
  BY <1>1 DEF PubInv, NothingReplaced
<1> QED
  BY <1>1, <1>3, <1>4, <1>5, AdvanceKeeps DEF Rename

LEMMA PushKeeps ==
  ASSUME PubInv, Push
  PROVE  PubInv'
<1>1. /\ at = 5 /\ stage' = "idle" /\ at' = 0 /\ UNCHANGED <<tree, partial, committed, call>>
      /\ said' \in {said \cup {<<req, "PUBLISHED">>}, said \cup {<<req, "PUSH_PENDING">>}}
  BY DEF Push, Answer, PubInv, Position
<1>2. tree["response"] = req
  BY <1>1, Order DEF PubInv, Placed, Documents
<1>3. PubTypeOK'
  BY <1>1 DEF PubInv, PubTypeOK, PubStages, Statuses, call
<1>4. OneResponse'
  <2>1. \A s \in said' : s \in said \/ s[1] = req
    BY <1>1
  <2> QED
    BY <1>1, <1>2, <2>1 DEF PubInv, OneResponse
<1>5. Placed' /\ Position' /\ NothingReplaced' /\ Required' /\ Halted'
  BY <1>1 DEF PubInv, Placed, Position, NothingReplaced, Required, Halted, call
<1>6. StateNamesArtifacts'
  BY <1>1 DEF PubInv, StateNamesArtifacts
<1> QED
  BY <1>3, <1>4, <1>5, <1>6 DEF PubInv

LEMMA CommitResponseKeeps ==
  ASSUME PubInv, CommitResponse
  PROVE  PubInv'
<1> USE DEF CommitResponse, call
<1>1. PubTypeOK'
  BY DEF PubInv, PubTypeOK
<1>2. OneResponse'
  BY DEF PubInv, OneResponse
<1>3. StateNamesArtifacts'
  BY DEF PubInv, StateNamesArtifacts
<1>4. NothingReplaced'
  BY DEF PubInv, NothingReplaced, File
<1>5. Placed' /\ Position' /\ Required' /\ Halted'
  BY DEF PubInv, Placed, Position, Required, Halted, Expected
<1> QED
  BY <1>1, <1>2, <1>3, <1>4, <1>5 DEF PubInv

LEMMA MoveFrontierKeeps ==
  ASSUME PubInv, MoveFrontier
  PROVE  PubInv'
<1> USE DEF MoveFrontier, call
<1>1. PICK d \in Documents : tree' = [tree EXCEPT ![d] = Moved]
  OBVIOUS
<1>2. /\ \A f \in Files : tree'[f] = IF f = d THEN Moved ELSE tree[f]
      /\ \A f \in Artifacts : f \in Files /\ tree'[f] = tree[f]
      /\ tree' \in [Files -> Requests \cup {Absent, Frontier, Moved}]
  BY <1>1 DEF PubInv, PubTypeOK, Files, Artifacts, Documents
<1>3. PubTypeOK'
  BY <1>2 DEF PubInv, PubTypeOK
<1>4. "response" \in Artifacts /\ "checksum" \in Artifacts /\ "handoff" \in Artifacts
  BY DEF Artifacts
<1>5. OneResponse'
  BY <1>2, <1>4 DEF PubInv, OneResponse
<1>6. StateNamesArtifacts'
  BY <1>2, <1>4, ContentAssumption DEF PubInv, StateNamesArtifacts, Files, Documents
<1>7. NothingReplaced'
  BY <1>2 DEF PubInv, NothingReplaced, File
<1>8. Placed'
  <2>1. SUFFICES ASSUME NEW i \in 1..at
                 PROVE  tree'[Payloads[i]] = req
                        \/ (Payloads[i] \in Documents /\ tree'[Payloads[i]] = Moved)
    BY DEF Placed
  <2>2. Payloads[i] \in Files
    BY Order DEF PubInv, PubTypeOK
  <2> QED
    BY <1>2, <2>2 DEF PubInv, Placed
<1>9. Halted'
  <2>1. req # Moved /\ Moved # Frontier
    BY ContentAssumption DEF PubInv, PubTypeOK
  <2>2. \A f \in Documents : ~Expected(f) => ~Expected(f)'
    BY <1>2, <2>1 DEF Expected, Files
  <2> QED
    BY <2>2 DEF PubInv, Halted
<1>10. Position' /\ Required'
  BY DEF PubInv, Position, Required
<1> QED
  BY <1>3, <1>5, <1>6, <1>7, <1>8, <1>9, <1>10 DEF PubInv

LEMMA NextPubInv == PubInv /\ [Next]_pubVars => PubInv'
<1> SUFFICES ASSUME PubInv, [Next]_pubVars PROVE PubInv'
  OBVIOUS
<1>1. CASE Coordinator
  <2>1. CASE Refuse \/ Killed \/ RenameFails
    BY <2>1, RaiseKeeps DEF Refuse, Killed, RenameFails, Raise
  <2> QED
    BY <1>1, <2>1, PrepareResponseKeeps, PrepareKeeps, RequireExpectedKeeps, SkipKeeps,
       LookKeeps, WriteKeeps, RenameKeeps, PushKeeps DEF Coordinator
<1>2. CASE CommitResponse \/ MoveFrontier
  BY <1>2, CommitResponseKeeps, MoveFrontierKeeps
<1>3. CASE UNCHANGED pubVars
  BY <1>3 DEF pubVars, PubInv, PubTypeOK, Placed, NothingReplaced, File, Position, Required,
     OneResponse, Halted, Expected, StateNamesArtifacts
<1> QED
  BY <1>1, <1>2, <1>3 DEF Next

-----------------------------------------------------------------------------
(* The theorems. *)

\* PubInv holds of every state a coordinator and the git around it reach.
THEOREM Inductive == Spec => []PubInv
<1> QED
  BY InitPubInv, NextPubInv, PTL DEF Spec

\* Type correctness of the working tree and the call under way.
THEOREM TypeCorrect == Spec => []PubTypeOK
<1>1. PubInv => PubTypeOK
  BY DEF PubInv
<1> QED
  BY <1>1, Inductive, PTL

\* The control documents never point to artifacts of prepare or prepare_response
\* that are missing, of another result, or not in a commit.
THEOREM ArtifactsFirst == Spec => []StateNamesArtifacts
<1>1. PubInv => StateNamesArtifacts
  BY DEF PubInv
<1> QED
  BY <1>1, Inductive, PTL

\* Callers of the coordinator are told of one result per sequence only.
THEOREM OneResult == Spec => []OneResultPublished
<1>1. PubInv => OneResultPublished
  BY DEF PubInv, OneResponse, OneResultPublished
<1> QED
  BY <1>1, Inductive, PTL

LEMMA OneFileReplaced ==
  ASSUME PubInv, NEW g \in Files, NEW c, tree' = [tree EXCEPT ![g] = c], NEW f \in Files
  PROVE  tree'[f] = IF f = g THEN c ELSE tree[f]
<1>1. tree \in [Files -> Requests \cup {Absent, Frontier, Moved}]
  BY DEF PubInv, PubTypeOK
<1> QED
  BY <1>1

LEMMA StaleStep ==
  ASSUME PubInv, Next, stale, stage # "idle"
  PROVE  /\ \A f \in Files :
              \/ tree'[f] \in {tree[f], Moved}
              \/ upto = 2 /\ f \in {"response", "checksum"}
         /\ \A s \in said' \ said : upto = 2 /\ s[2] = "RESPONSE_PREPARED"
<1>1. CASE MoveFrontier
  <2>1. PICK g \in Documents : tree' = [tree EXCEPT ![g] = Moved]
    BY <1>1 DEF MoveFrontier
  <2>2. g \in Files
    BY DEF Files
  <2>3. \A f \in Files : tree'[f] \in {tree[f], Moved}
    BY <2>1, <2>2, OneFileReplaced
  <2>4. said' = said
    BY <1>1 DEF MoveFrontier
  <2> QED
    BY <2>3, <2>4
<1>2. CASE UNCHANGED <<tree, said>>
  BY <1>2
<1>3. CASE Skip \/ Rename
  <2>1. stage \in {"looking", "writing", "renaming"}
    BY <1>3 DEF Skip, Rename
  <2>2. upto = 2 /\ at \in 0..4 /\ at < 2 /\ ~pushes
    BY <2>1 DEF PubInv, PubTypeOK, Halted, Position
  <2>3. File \in {"response", "checksum"} /\ File \in Files
    BY <2>2, FileAt DEF Files, Artifacts
  <2>4. ASSUME NEW f \in Files, f \notin {"response", "checksum"} PROVE tree'[f] = tree[f]
    <3>1. CASE Skip
      BY <3>1 DEF Skip
    <3>2. CASE Rename
      <4>1. tree' = [tree EXCEPT ![File] = req]
        BY <3>2 DEF Rename
      <4>2. f # File
        BY <2>3, <2>4
      <4> QED
        BY <4>1, <4>2, <2>3, OneFileReplaced
    <3> QED
      BY <1>3, <3>1, <3>2
  <2>5. Advance
    BY <1>3 DEF Skip, Rename
  <2>6. \A s \in said' \ said : s[2] = "RESPONSE_PREPARED"
    BY <2>2, <2>5 DEF Advance, Answer
  <2> QED
    BY <2>2, <2>4, <2>6
<1>4. CASE Push
  BY <1>4 DEF Push, PubInv, PubTypeOK, Position, Halted
<1>5. CASE CommitResponse \/ RequireExpected \/ Look \/ Write \/ RenameFails \/ Refuse \/ Killed
  BY <1>5, <1>2 DEF CommitResponse, RequireExpected, Look, Write, RenameFails, Refuse,
     Killed, Raise
<1>6. ASSUME NEW q \in Requests, PrepareResponse(q) \/ \E push \in BOOLEAN : Prepare(q, push)
      PROVE  FALSE
  BY <1>6 DEF PrepareResponse, Prepare
<1> QED
  BY <1>1, <1>3, <1>4, <1>5, <1>6 DEF Next, Coordinator

\* A prepare or publish that begins after a control document has moved writes no
\* file and reports nothing, and a prepare_response no more than its two files.
THEOREM StaleIsHarmless == Spec => StaleCallsPublishNothing
<1>1. PubInv /\ [Next]_pubVars =>
        [stale /\ stage # "idle" =>
           /\ \A f \in Files :
                \/ tree'[f] \in {tree[f], Moved}
                \/ upto = 2 /\ f \in {"response", "checksum"}
           /\ \A s \in said' \ said : upto = 2 /\ s[2] = "RESPONSE_PREPARED"]_pubVars
  BY StaleStep
<1> QED
  BY <1>1, Inductive, PTL DEF Spec, StaleCallsPublishNothing
=============================================================================
