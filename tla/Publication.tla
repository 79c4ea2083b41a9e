----------------------------- MODULE Publication -----------------------------
(***************************************************************************)
(* Publication of a worker's response into a prompt repository             *)
(* (PublicationCoordinator of ultracode/feature_loop.py): five files       *)
(* written in a fixed order, each through an adjacent partial file and a   *)
(* rename, by a coordinator that may be killed between any two steps and   *)
(* run again, while git moves the two control documents under it.          *)
(*                                                                         *)
(* A request stands for one result of the sequence being published: all    *)
(* requests name the same paths and were made from the same frontier, and  *)
(* each determines the content of the five files.  One coordinator works   *)
(* on a working tree at a time: the partial files are no lock.             *)
(***************************************************************************)
EXTENDS Naturals, Sequences

CONSTANTS
  Requests,   \* publication requests for one sequence
  Absent,     \* no such file
  Frontier,   \* the control documents the requests were made from
  Moved       \* control documents git has brought in since

ASSUME ContentAssumption ==
  /\ {Absent, Frontier, Moved} \cap Requests = {}
  /\ Absent # Frontier /\ Absent # Moved /\ Frontier # Moved

VARIABLES
  tree,       \* what each file of the working tree holds
  partial,    \* the files with an adjacent .ultracode-partial
  committed,  \* requests whose response a commit holds
  stage,      \* where the coordinator stands
  req,        \* the request it works on
  at,         \* how many files of this call it has completed
  upto,       \* how many files this call writes
  pushes,     \* publish was called, not prepare
  said,       \* history: <<request, status>> returned to callers
  stale       \* history: the frontier had moved when this call began

pubVars == <<tree, partial, committed, stage, req, at, upto, pushes, said, stale>>

call == <<req, upto, pushes, stale>>

Artifacts == {"response", "checksum", "handoff"}

Documents == {"feature", "state"}

Files == Artifacts \cup Documents

\* Mutant of Payloads: the state document is replaced before the feature.
PayloadsStateFirst == <<"response", "checksum", "handoff", "state", "feature">>

Payloads == <<"response", "checksum", "handoff", "feature", "state">>

PubStages == {"idle", "requiring", "looking", "writing", "renaming", "pushing"}

Statuses == {"RESPONSE_PREPARED", "PREPARED", "PUSH_PENDING", "PUBLISHED"}

PubTypeOK ==
  /\ tree \in [Files -> Requests \cup {Absent, Frontier, Moved}]
  /\ \A f \in Artifacts : tree[f] \notin {Frontier, Moved}
  /\ partial \subseteq Files
  /\ committed \subseteq Requests
  /\ stage \in PubStages
  /\ req \in Requests
  /\ upto \in {2, 5} /\ at \in 0..upto
  /\ stage \in {"looking", "writing", "renaming"} => at < upto
  /\ pushes \in BOOLEAN /\ stale \in BOOLEAN
  /\ said \subseteq Requests \X Statuses

Init ==
  /\ tree = [f \in Files |-> IF f \in Artifacts THEN Absent ELSE Frontier]
  /\ partial = {} /\ committed = {}
  /\ stage = "idle"
  /\ req \in Requests /\ at = 0 /\ upto = 2 /\ pushes = FALSE
  /\ said = {} /\ stale = FALSE

-----------------------------------------------------------------------------
File == Payloads[at + 1]

Raise ==
  /\ stage' = "idle" /\ at' = 0
  /\ UNCHANGED <<tree, partial, committed, call, said>>

Answer(status) ==
  /\ stage' = "idle" /\ at' = 0
  /\ said' = said \cup {<<req, status>>}

\* The document is still the one the request was made from, or the call that
\* was interrupted has replaced it already.
Expected(f) == tree[f] \in {Frontier, req}

\* Mutant of Advance: one file too many.
AdvanceTooFar ==
  /\ at' = at + 1
  /\ stage' = IF at < upto THEN "looking" ELSE "idle"
  /\ UNCHANGED said

\* The loop over payloads, and what follows its last file.
Advance ==
  IF at + 1 < upto
  THEN stage' = "looking" /\ at' = at + 1 /\ UNCHANGED said
  ELSE IF pushes
  THEN stage' = "pushing" /\ at' = at + 1 /\ UNCHANGED said
  ELSE Answer(IF upto = 2 THEN "RESPONSE_PREPARED" ELSE "PREPARED")

-----------------------------------------------------------------------------
(* The coordinator. *)

\* History: what a call for q finds when it begins.
Stale(q) == \E f \in Documents : tree[f] \notin {Frontier, q}

\* The response and its checksum, whatever the control documents are.
PrepareResponse(q) ==
  /\ stage = "idle"
  /\ stage' = "looking"
  /\ req' = q /\ at' = 0 /\ upto' = 2 /\ pushes' = FALSE /\ stale' = Stale(q)
  /\ UNCHANGED <<tree, partial, committed, said>>

\* prepare, alone or from publish: the response must be in a commit.
Prepare(q, push) ==
  /\ stage = "idle"
  /\ q \in committed
  /\ stage' = "requiring"
  /\ req' = q /\ at' = 0 /\ upto' = 5 /\ pushes' = push
  /\ stale' = Stale(q)
  /\ UNCHANGED <<tree, partial, committed, said>>

\* Mutant of RequireExpected: the state document is not looked at.
RequireExpectedFeature ==
  /\ stage = "requiring"
  /\ Expected("feature")
  /\ stage' = "looking"
  /\ UNCHANGED <<tree, partial, committed, call, at, said>>

\* Both documents are compared with the frontier before any file is written.
RequireExpected ==
  /\ stage = "requiring"
  /\ \A f \in Documents : Expected(f)
  /\ stage' = "looking"
  /\ UNCHANGED <<tree, partial, committed, call, at, said>>

\* Mutant of Writable: an artifact of another result is written over.
WritableAnyway(f) == IF f \in Documents THEN Expected(f) ELSE TRUE

\* What _write_once and _replace_expected accept to write.
Writable(f) == IF f \in Documents THEN Expected(f) ELSE tree[f] = Absent

\* The file holds the content already: nothing to do.
Skip ==
  /\ stage = "looking"
  /\ tree[File] = req
  /\ Advance
  /\ UNCHANGED <<tree, partial, committed, call>>

Look ==
  /\ stage = "looking"
  /\ tree[File] # req
  /\ Writable(File)
  /\ File \notin partial
  /\ stage' = "writing"
  /\ UNCHANGED <<tree, partial, committed, call, at, said>>

\* The partial file, written and synchronised; when that fails it is removed
\* and the call raises.
Write ==
  /\ stage = "writing"
  /\ partial' = partial \cup {File}
  /\ stage' = "renaming"
  /\ UNCHANGED <<tree, committed, call, at, said>>

Rename ==
  /\ stage = "renaming"
  /\ tree' = [tree EXCEPT ![File] = req]
  /\ partial' = partial \ {File}
  /\ Advance
  /\ UNCHANGED <<committed, call>>

\* The rename fails: the partial file is removed.
RenameFails ==
  /\ stage = "renaming"
  /\ partial' = partial \ {File}
  /\ stage' = "idle" /\ at' = 0
  /\ UNCHANGED <<tree, committed, call, said>>

\* A privacy scan, an unsafe path, a changed document, a conflicting artifact,
\* a partial file that lies there already, a failing write, an observer.
Refuse ==
  /\ stage \in {"requiring", "looking", "writing"}
  /\ Raise

Push ==
  /\ stage = "pushing"
  /\ Answer("PUBLISHED") \/ Answer("PUSH_PENDING")
  /\ UNCHANGED <<tree, partial, committed, call>>

\* The coordinator is killed: a partial file stays.
Killed ==
  /\ stage # "idle"
  /\ Raise

-----------------------------------------------------------------------------
(* The repository around it: git commands this code does not run. *)

CommitResponse ==
  /\ tree["response"] \in Requests
  /\ committed' = committed \cup {tree["response"]}
  /\ UNCHANGED <<tree, partial, stage, call, at, said>>

\* A merge or a checkout brings in other control documents, file by file.
MoveFrontier ==
  /\ \E f \in Documents : tree' = [tree EXCEPT ![f] = Moved]
  /\ UNCHANGED <<partial, committed, stage, call, at, said>>

Coordinator ==
  \/ \E q \in Requests :
       PrepareResponse(q) \/ \E push \in BOOLEAN : Prepare(q, push)
  \/ RequireExpected \/ Skip \/ Look \/ Write \/ Rename \/ RenameFails
  \/ Refuse \/ Push \/ Killed

Next == Coordinator \/ CommitResponse \/ MoveFrontier

Spec == Init /\ [][Next]_pubVars

-----------------------------------------------------------------------------
(* Properties. *)

\* Whoever reads a published control document finds what it points to: the
\* state document names a result only when its response, checksum and handoff
\* are in place and the feature document was projected for it, and a handoff
\* only a response that a commit holds, also between two steps of a call that
\* was killed and one that resumes it with the same or with another result.
StateNamesArtifacts ==
  \A q \in Requests :
    /\ tree["state"] = q =>
         /\ \A f \in Artifacts : tree[f] = q
         /\ tree["feature"] \in {q, Moved}
    /\ tree["handoff"] = q =>
         tree["response"] = q /\ tree["checksum"] = q /\ q \in committed

\* All callers that were told an outcome were told it of one result: a retry,
\* with whatever result, cannot publish a second one for the sequence.
OneResultPublished ==
  \A a, b \in said : a[1] = b[1]

\* prepare and publish, begun after the frontier has moved, write no file at all,
\* not even the handoff that comes before the control documents, and tell nobody
\* of a publication.  prepare_response does not look at the frontier: what it
\* writes and says of a stale one is the response and its checksum, no more.
StaleCallsPublishNothing ==
  [][stale /\ stage # "idle" =>
       /\ \A f \in Files :
            \/ tree'[f] \in {tree[f], Moved}
            \/ upto = 2 /\ f \in {"response", "checksum"}
       /\ \A s \in said' \ said : upto = 2 /\ s[2] = "RESPONSE_PREPARED"]_pubVars

\* "feature state frontier changed before publication" is raised instead of
\* replacing a document that git has moved.
MovedIsNotReplaced ==
  [][\A f \in Documents : tree[f] = Moved => tree'[f] = Moved]_pubVars
=============================================================================
