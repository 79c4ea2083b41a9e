------------------------------ MODULE Session ------------------------------
(***************************************************************************)
(* One _JsonlSession of ultracode/supervised_delivery.py: the synchronous  *)
(* client of an app-server, from initialize to the end of its turn (goal   *)
(* "deliver": prepare and start_and_wait) or of its listing (goal          *)
(* "discover": initialize and list_threads), while other users of the same *)
(* server archive threads, bring them back and run turns on them.          *)
(*                                                                         *)
(* The server answers a request at some moment after it was written, from  *)
(* the state it then has, and its threads write their lines in any order:  *)
(* what it has written and the client not yet read is a set, from which    *)
(* the next line is any.  A request stands for its identifier (no two are  *)
(* equal).  A line the shape checks refuse - a server request, an unknown  *)
(* method, a malformed field - an error reply and an error notification    *)
(* end the session wherever they are read: they are part of Abandon.       *)
(*                                                                         *)
(* The code treats notLoaded as idle wherever it reads a status; here both *)
(* are "idle".  A page holds at most one thread.                           *)
(***************************************************************************)
EXTENDS Naturals, Sequences, SequencesExt, FiniteSets

CONSTANTS
  Order,             \* the server's threads, newest first
  Target,            \* the thread of the sealed route
  MaxNotifications,  \* _MAX_INTERLEAVED_NOTIFICATIONS
  MaxPages,          \* _MAX_LIST_PAGES
  MaxChanges,        \* model bound: archivings and turns of other users
  MaxRepeats,        \* model bound: lines the server writes twice
  MaxUnread          \* model bound: unread lines when it repeats a status

Threads == ToSet(Order)

ASSUME SessionAssumption ==
  /\ Order \in Seq(Threads) /\ IsInjective(Order) /\ Target \in Threads
  /\ {MaxNotifications, MaxPages, MaxChanges, MaxRepeats, MaxUnread} \subseteq Nat
  /\ MaxPages # 0

VARIABLES
  goal,        \* "deliver" or "discover"
  damaged,     \* threads whose listing entry _thread_entry refuses
  stage,       \* the request the client is at, or how it waits or ended
  request,     \* the request written and not answered, or Nothing
  cursor,      \* position of the last thread of the last page, 0 for none
  cursors,     \* cursors of this pass
  identities,  \* thread identities seen, by pass
  entries,     \* eligible entries of the active pass, in order
  turnWritten, \* the turn/start line was written
  sawStarted,  \* turn/started was read
  notified,    \* status notifications read
  asked,       \* the server has yet to answer the request
  archived,    \* threads the server holds as archived
  status,      \* their status
  ourTurn,     \* what became of the turn this session started
  wire,        \* lines the client has not read
  changes,     \* steps of other users
  repeats,     \* lines read twice
  steady,      \* history: eligible ever since the listing began
  seen,        \* history: eligible at some moment of the active pass
  unarchived,  \* history: not archived at some moment of the archived pass
  rested       \* history: the target was idle since the last read was asked

clientVars == <<stage, request, cursor, cursors, identities, entries, turnWritten,
                sawStarted, notified>>
historyVars == <<steady, seen, unarchived, rested>>
sessionVars == <<goal, damaged, clientVars, asked, archived, status, ourTurn, wire, changes,
                 repeats, historyVars>>

Passes == {"active", "archived"}

Requests == {"initialize", "read", "resume", "reread", "start"} \cup Passes

Ended == {"done", "failed"}

ThreadStatuses == {"idle", "active", "systemError"}

Nothing == [method |-> "none", cursor |-> 0]

Written == [method : Requests, cursor : 0..Len(Order)]

Lines ==
  [type : {"ok"}, to : Written]
    \cup [type : {"page"}, to : Written, item : SUBSET Threads,
          status : ThreadStatuses, next : 0..Len(Order)]
    \cup [type : {"thread"}, to : Written, status : ThreadStatuses]
    \cup [type : {"status"}, thread : Threads, status : ThreadStatuses]
    \cup [type : {"started", "completed", "failed"}, thread : Threads,
          turn : {"ours", "theirs"}]

SessionTypeOK ==
  /\ goal \in {"deliver", "discover"}
  /\ damaged \subseteq Threads
  /\ stage \in Requests \cup {"wait"} \cup Ended
  /\ request \in Written \cup {Nothing}
  /\ cursor \in 0..Len(Order) /\ cursors \subseteq 1..Len(Order)
  /\ Cardinality(cursors) < MaxPages
  /\ identities \in [Passes -> SUBSET Threads]
  /\ entries \in Seq(Threads)
  /\ turnWritten \in BOOLEAN /\ sawStarted \in BOOLEAN /\ asked \in BOOLEAN
  /\ notified \in 0..MaxNotifications
  /\ archived \subseteq Threads /\ status \in [Threads -> ThreadStatuses]
  /\ ourTurn \in {"none", "running", "completed", "failed"}
  /\ wire \subseteq Lines
  /\ changes \in 0..MaxChanges /\ repeats \in 0..MaxRepeats
  /\ steady \subseteq Threads /\ seen \subseteq Threads
  /\ unarchived \subseteq Threads /\ rested \in BOOLEAN

Eligible(t) == t \notin archived /\ status[t] = "idle"

Init ==
  /\ goal \in {"deliver", "discover"}
  /\ damaged \in SUBSET Threads
  /\ stage = "initialize" /\ request = Nothing
  /\ cursor = 0 /\ cursors = {} /\ entries = <<>>
  /\ identities = [p \in Passes |-> {}]
  /\ turnWritten = FALSE /\ sawStarted = FALSE /\ notified = 0
  /\ asked = FALSE /\ wire = {} /\ ourTurn = "none"
  /\ archived \in SUBSET (Threads \ {Target})
  /\ status \in [Threads -> {"idle", "active"}] /\ status[Target] = "idle"
  /\ changes = 0 /\ repeats = 0
  /\ steady = {} /\ seen = {} /\ unarchived = {} /\ rested = FALSE

-----------------------------------------------------------------------------
(* The server. *)

\* What the histories make of the state a step leads to.
Watch ==
  /\ steady' = IF stage \in Passes THEN {t \in steady : Eligible(t)'} ELSE steady
  /\ seen' = IF stage = "active" THEN seen \cup {t \in Threads : Eligible(t)'} ELSE seen
  /\ unarchived' = IF stage = "archived" THEN unarchived \cup (Threads \ archived')
                                         ELSE unarchived
  /\ rested' = (rested \/ (stage = "reread" /\ (status[Target] = "idle")'))

Emit(lines) == wire' = wire \cup lines

Notice(t, value) == [type |-> "status", thread |-> t, status |-> value]

TurnLine(kind, t, turn) == [type |-> kind, thread |-> t, turn |-> turn]

\* Another user archives a thread or brings it back; after the listing nothing
\* asks whether one is archived.
Shelve(t) ==
  /\ stage \in Passes \cup {"initialize"}
  /\ changes < MaxChanges
  /\ changes' = changes + 1
  /\ archived' = (archived \ {t}) \cup ({t} \ archived)
  /\ UNCHANGED <<goal, damaged, clientVars, asked, status, ourTurn, wire, repeats>>
  /\ Watch

\* A thread another user works on starts a turn, ends it or breaks down.
Work(t, value) ==
  /\ changes < MaxChanges
  /\ changes' = changes + 1
  /\ value # status[t]
  /\ ~(t = Target /\ ourTurn = "running")
  /\ status' = [status EXCEPT ![t] = value]
  /\ Emit({Notice(t, value)} \cup
          IF value = "active" THEN {TurnLine("started", t, "theirs")}
          ELSE IF value = "idle" THEN {TurnLine("completed", t, "theirs")}
          ELSE {})
  /\ UNCHANGED <<goal, damaged, clientVars, asked, archived, ourTurn, repeats>>
  /\ Watch

\* The turn of this session ends, well or not.
FinishTurn(outcome) ==
  /\ ourTurn = "running"
  /\ ourTurn' = outcome
  /\ status' = [status EXCEPT ![Target] = "idle"]
  /\ Emit({Notice(Target, "idle"), TurnLine(outcome, Target, "ours")})
  /\ UNCHANGED <<goal, damaged, clientVars, asked, archived, changes, repeats>>
  /\ Watch

\* The server repeats a thread's status.
Announce(t) ==
  /\ Cardinality(wire) < MaxUnread
  /\ Emit({Notice(t, status[t])})
  /\ UNCHANGED <<goal, damaged, clientVars, asked, archived, status, ourTurn, changes, repeats,
                 historyVars>>

\* A page: the first thread of the pass after a cursor - the client's, or an
\* earlier one - and a cursor for the rest.  An empty page may have one too.
Pages ==
  {[type |-> "page", to |-> request, item |-> item,
    status |-> IF item = {} THEN "idle" ELSE status[CHOOSE t \in item : TRUE],
    next |-> next] : item \in {{}} \cup {{t} : t \in Threads}, next \in 0..Len(Order)}

Sound(page) ==
  LET rest(from) == {i \in (from + 1)..Len(Order) :
                       (Order[i] \in archived) = (request.method = "archived")}
      least(s) == CHOOSE i \in s : \A j \in s : i <= j
  IN \/ page.item = {} /\ (rest(cursor) = {} => page.next = 0)
                       /\ (rest(cursor) # {} => page.next = cursor /\ cursor # 0)
     \/ \E from \in 0..cursor :
          /\ rest(from) # {}
          /\ page.item = {Order[least(rest(from))]}
          /\ IF rest(least(rest(from))) = {} THEN page.next = 0
             ELSE page.next \in {from, least(rest(from))} \ {0}

\* The server answers the request from the state it is in.
Answer(line) ==
  /\ asked /\ asked' = FALSE
  /\ \/ /\ request.method = "initialize"
        /\ line = [type |-> "ok", to |-> request]
        /\ Emit({line})
        /\ UNCHANGED <<status, ourTurn>>
     \/ /\ request.method \in Passes
        /\ line \in Pages /\ Sound(line)
        /\ Emit({line})
        /\ UNCHANGED <<status, ourTurn>>
     \/ /\ request.method \in {"read", "resume", "reread"}
        /\ line = [type |-> "thread", to |-> request, status |-> status[Target]]
        /\ Emit({line})
        /\ UNCHANGED <<status, ourTurn>>
     \/ /\ request.method = "start"
        /\ line = [type |-> "ok", to |-> request]
        /\ ourTurn' = "running"
        /\ status' = [status EXCEPT ![Target] = "active"]
        /\ Emit({line, Notice(Target, "active"), TurnLine("started", Target, "ours")})
  /\ UNCHANGED <<goal, damaged, clientVars, archived, changes, repeats, historyVars>>

-----------------------------------------------------------------------------
(* The client. *)

\* The next request of _request.  prepare drops the listing it has just made; the
\* histories start with the first request of their own.
Send ==
  /\ stage \in Requests /\ request = Nothing
  /\ request' = [method |-> stage, cursor |-> cursor]
  /\ asked' = TRUE
  /\ turnWritten' = (stage = "start")
  /\ LET now == {t \in Threads : Eligible(t)}
         first(pass) == stage = pass /\ cursor = 0
         dropped == stage = "read"
     IN /\ steady' = IF first("active") THEN now ELSE IF dropped THEN {} ELSE steady
        /\ seen' = IF first("active") THEN now ELSE IF dropped THEN {} ELSE seen
        /\ unarchived' = IF first("archived") THEN Threads \ archived
                         ELSE IF dropped THEN {} ELSE unarchived
        /\ rested' = IF stage = "reread" THEN status[Target] = "idle" ELSE rested
        /\ entries' = IF dropped THEN <<>> ELSE entries
        /\ identities' = IF dropped THEN [p \in Passes |-> {}] ELSE identities
  /\ UNCHANGED <<goal, damaged, stage, cursor, cursors, sawStarted, notified, archived, status,
                 ourTurn, wire, changes, repeats>>

Listing == <<cursor, cursors, identities, entries>>

\* The call raises, and what it has gathered is dropped with the process.
Fail ==
  /\ stage' = "failed"
  /\ request' = Nothing /\ cursor' = 0 /\ cursors' = {}
  /\ identities' = [p \in Passes |-> {}] /\ entries' = <<>>
  /\ sawStarted' = FALSE /\ notified' = 0
  /\ wire' = {}
  /\ UNCHANGED <<turnWritten, repeats>>

\* A line read is gone, or it was written twice.
Take(line) ==
  \/ wire' = wire \ {line} /\ UNCHANGED repeats
  \/ wire' = wire /\ repeats < MaxRepeats /\ repeats' = repeats + 1

\* Mutant of Matches: the reply's identifier is not compared.
MatchesAny(line) == TRUE

Matches(line) == line.to = request

\* Mutant of Counted: notifications do not use up the budget.
CountedNot(line) == notified

Counted(line) == notified + 1

\* Mutant of StatusAccepted: the budget is reached one notification late.
StatusAcceptedLate(line) ==
  /\ Counted(line) <= MaxNotifications + 1
  /\ IF goal = "discover" \/ line.thread # Target THEN ~turnWritten
     ELSE line.status = "idle" \/ (line.status = "active" /\ turnWritten)

\* _accept_interleaved_notification: unrelated threads matter only before the
\* turn is requested, an active target only after it.
StatusAccepted(line) ==
  /\ Counted(line) <= MaxNotifications
  /\ IF goal = "discover" \/ line.thread # Target THEN ~turnWritten
     ELSE line.status = "idle" \/ (line.status = "active" /\ turnWritten)

\* Mutant of OurTurn: the turn's identity is not compared.
OurTurnAny(line) == line.thread = Target

OurTurn(line) == line.thread = Target /\ line.turn = "ours"

ReadStatus(line) ==
  /\ line.type = "status"
  /\ IF StatusAccepted(line)
     THEN /\ Take(line)
          /\ notified' = Counted(line)
          /\ UNCHANGED <<stage, request, Listing, turnWritten, sawStarted>>
     ELSE Fail

\* Mutant of Consistent: threads the archived pass shows are not looked at.
ConsistentAlways(ids) == TRUE

\* list_threads after both passes.
Consistent(ids) == ids["active"] \cap ids["archived"] = {}

Occurrences(t) == {i \in DOMAIN entries : entries[i] = t}

\* _list_page_set, one page.
ReadPage(line) ==
  LET ids == [identities EXCEPT ![stage] = @ \cup line.item]
      listed == stage = "active" /\ line.status = "idle" /\ line.item \cap damaged = {}
  IN
  IF \/ line.item \cap identities[stage] # {}
     \/ goal = "deliver" /\ Target \in line.item \cap damaged
     \/ line.next # 0 /\ (line.item = {} \/ line.next \in cursors
                          \/ Cardinality(cursors) + 1 = MaxPages)
  THEN Fail
  ELSE /\ Take(line)
       /\ identities' = ids
       /\ entries' = IF listed THEN entries \o SetToSeq(line.item) ELSE entries
       /\ cursor' = line.next
       /\ cursors' = IF line.next = 0 THEN {} ELSE cursors \cup {line.next}
       /\ request' = Nothing
       /\ stage' = IF line.next # 0 THEN stage
                   ELSE IF stage = "active" THEN "archived"
                   ELSE IF ~Consistent(ids) THEN "failed"
                   ELSE IF goal = "discover" THEN "done"
                   ELSE IF Cardinality(Occurrences(Target)) = 1 THEN "read"
                   ELSE "failed"
       /\ UNCHANGED <<turnWritten, sawStarted, notified>>

\* The order of prepare and start_and_wait.
After(s) == [initialize |-> "active", read |-> "resume", resume |-> "reread",
             reread |-> "start", start |-> "wait"][s]

\* The reply of a request: for a thread, _exact_target wants it idle.
ReadReply(line) ==
  /\ line.type \in {"ok", "thread", "page"}
  /\ IF ~Matches(line) THEN Fail
     ELSE IF stage \in Passes /\ line.type = "page" THEN ReadPage(line)
     ELSE IF \/ line.type = "ok" /\ stage \in {"initialize", "start"}
             \/ line.type = "thread" /\ line.status = "idle"
                /\ stage \in {"read", "resume", "reread"}
     THEN /\ Take(line)
          /\ stage' = After(stage) /\ request' = Nothing
          /\ UNCHANGED <<Listing, turnWritten, sawStarted, notified>>
     ELSE Fail

\* start_and_wait, after the reply.
ReadTurn(line) ==
  /\ line.type \in {"started", "completed", "failed"}
  /\ IF OurTurn(line) /\ line.type = "started" /\ ~sawStarted
     THEN /\ Take(line)
          /\ sawStarted' = TRUE
          /\ UNCHANGED <<stage, request, Listing, turnWritten, notified>>
     ELSE IF OurTurn(line) /\ line.type = "completed" /\ sawStarted
     THEN /\ Take(line)
          /\ stage' = "done"
          /\ UNCHANGED <<request, Listing, turnWritten, sawStarted, notified>>
     ELSE Fail

\* In _request a line with a method other than a status is refused; in
\* start_and_wait any reply is.
Read(line) ==
  /\ request # Nothing \/ stage = "wait"
  /\ stage \notin Ended
  /\ \/ ReadStatus(line)
     \/ stage # "wait" /\ ReadReply(line)
     \/ stage = "wait" /\ ReadTurn(line)
     \/ stage # "wait" /\ line.type \in {"started", "completed", "failed"} /\ Fail
     \/ stage = "wait" /\ line.type \in {"ok", "thread", "page"} /\ Fail
  /\ UNCHANGED <<goal, damaged, asked, archived, status, ourTurn, changes, historyVars>>

\* The deadline passes, the health check finds the child gone, or a line is
\* refused for its shape.
Abandon ==
  /\ stage \notin Ended
  /\ Fail
  /\ UNCHANGED <<goal, damaged, asked, archived, status, ourTurn, changes, historyVars>>

\* The call has returned: the server is of no interest any more.
Over == stage \in Ended /\ UNCHANGED sessionVars

Next ==
  \/ Send \/ Abandon \/ Over
  \/ \E line \in wire : Read(line)
  \/ /\ stage \notin Ended
     /\ \/ \E t \in Threads : Shelve(t) \/ \E value \in ThreadStatuses : Work(t, value)
        \/ \E outcome \in {"completed", "failed"} : FinishTurn(outcome)
        \/ \E t \in Threads : Announce(t)
        \/ asked /\ \E line \in Pages \cup {[type |-> "ok", to |-> request]} \cup
             {[type |-> "thread", to |-> request, status |-> status[Target]]} : Answer(line)

Spec == Init /\ [][Next]_sessionVars

\* The client takes its steps, and a read that nothing answers times out.  No
\* deadline is assumed to end a read that keeps finding lines.
FairSpec ==
  /\ Spec
  /\ WF_sessionVars(Send)
  /\ WF_sessionVars(\E line \in wire : Read(line))
  /\ WF_sessionVars(wire = {} /\ Abandon)

-----------------------------------------------------------------------------
(* Properties. *)

\* The listing is complete: prepare is about to read the target, or list_threads
\* has returned.
Listed == IF goal = "deliver" THEN stage = "read" /\ request = Nothing ELSE stage = "done"

\* The listing is read page by page while it changes, yet what it offers is
\* right: no thread twice, each one eligible at some moment of the active pass
\* and unarchived at some moment of the archived pass, and none missing that
\* was eligible all along.
ListingFaithful ==
  Listed =>
      /\ IsInjective(entries)
      /\ ToSet(entries) \subseteq seen \cap unarchived
      /\ steady \ damaged \subseteq ToSet(entries)

\* Turn lines arrive in any order, those of other users' turns among them, yet
\* a delivery that reports success has had its own turn completed.
CompletedIsOurs == goal = "deliver" /\ stage = "done" => ourTurn = "completed"

\* Replies may arrive twice, but the turn is requested only on a reading of the
\* target that the server made after the thread was resumed: it was idle then.
EligibleBeforeTurn == turnWritten => rested

\* However many notifications the server interleaves, the session ends.
SessionEnds == <>(stage \in Ended)
=============================================================================
