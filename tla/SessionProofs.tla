---------------------------- MODULE SessionProofs ----------------------------
(***************************************************************************)
(* What a session concludes, when it asks for its turn, and what its       *)
(* listing says, for every listing, every bound and every number of lines  *)
(* under way.                                                              *)
(*                                                                         *)
(* None of the properties is inductive: a completion is read long after    *)
(* the turn ended, the turn is asked for on a status the server wrote      *)
(* before, and a page is read when the threads it names have moved. Each   *)
(* invariant therefore speaks of the lines not yet read: what one of them  *)
(* says was true when it was written and can not become false.             *)
(*                                                                         *)
(* SessionInv, the first part, is about the turn and the last reading of   *)
(* the target. WireInv, the second, says which replies may be under way:   *)
(* none answers a request twice. ListInv, the third, is about the pages of *)
(* the two passes; it needs WireInv, because a page counts only for the    *)
(* request it answers.                                                     *)
(***************************************************************************)
EXTENDS Session, FiniteSetTheorems, WellFoundedInduction, TLAPS

\* The request under way is the one the client is at.
RequestOfStage == request # Nothing => request.method = stage /\ stage \in Requests

\* Before its turn/start is answered the session has no turn.
NoTurnYet ==
  stage \in Requests /\ (stage # "start" \/ request = Nothing \/ asked) => ourTurn = "none"

\* A line says the session's turn has completed only when it has.
CompletionsTrue ==
  \A l \in wire : l.type = "completed" /\ l.turn = "ours" => ourTurn = "completed"

OfReread(l) == l.type = "thread" /\ l.to.method = "reread"

\* No reading of the target answers a request not yet made.
NoRereadYet ==
  stage \in {"initialize", "read", "resume"} \cup Passes
    \/ (stage = "reread" /\ request = Nothing)
  => \A l \in wire : ~OfReread(l)

\* While the target is read again, rested tells whether it has been idle.
RestWatched == stage = "reread" /\ request # Nothing /\ status[Target] = "idle" => rested

\* A reading that found the target idle was of an idle target.
RereadsTrue == \A l \in wire : OfReread(l) /\ l.status = "idle" => rested

RestedAtStart == stage \in {"start", "wait"} => rested

SessionInv ==
  /\ rested \in BOOLEAN
  /\ turnWritten \in BOOLEAN
  /\ RequestOfStage
  /\ NoTurnYet
  /\ CompletionsTrue
  /\ NoRereadYet
  /\ RestWatched
  /\ RereadsTrue
  /\ RestedAtStart
  /\ EligibleBeforeTurn
  /\ CompletedIsOurs

\* What the actions of the server leave of the client.
LEMMA ServerKeeps ==
  ASSUME SessionInv, UNCHANGED clientVars, UNCHANGED <<goal, asked>>,
         stage \notin Ended, Watch,
         ourTurn' = ourTurn \/ ourTurn = "running",
         \A l \in wire' : l \in wire \/ l.type # "thread",
         \A l \in wire' : l.type = "completed" /\ l.turn = "ours" => ourTurn' = "completed"
  PROVE  SessionInv'
<1> USE DEF SessionInv, clientVars
<1>1. /\ (rested \in BOOLEAN)'
      /\ rested => rested'
      /\ stage = "reread" /\ (status'[Target] = "idle") => rested'
  BY DEF Watch
<1>2. NoTurnYet'
  BY DEF NoTurnYet
<1>3. CompletionsTrue'
  BY DEF CompletionsTrue
<1>4. NoRereadYet'
  BY DEF NoRereadYet, OfReread
<1>5. RestWatched'
  BY <1>1 DEF RestWatched
<1>6. RereadsTrue'
  BY <1>1 DEF RereadsTrue, OfReread
<1>7. (RestedAtStart /\ EligibleBeforeTurn)'
  BY <1>1 DEF RestedAtStart, EligibleBeforeTurn
<1>8. (CompletedIsOurs /\ RequestOfStage /\ turnWritten \in BOOLEAN)'
  BY DEF CompletedIsOurs, RequestOfStage, Ended
<1> QED BY <1>1, <1>2, <1>3, <1>4, <1>5, <1>6, <1>7, <1>8

\* Every action keeps the invariant, one lemma each.
LEMMA ShelveKeeps ==
  ASSUME SessionInv, NEW t \in Threads, Shelve(t), stage \notin Ended
  PROVE  SessionInv'
<1>1. \A l \in wire' : l.type = "completed" /\ l.turn = "ours" => ourTurn' = "completed"
  BY DEF Shelve, SessionInv, CompletionsTrue
<1> QED BY <1>1, ServerKeeps DEF Shelve

LEMMA WorkKeeps ==
  ASSUME SessionInv, NEW t \in Threads, NEW value \in ThreadStatuses, Work(t, value),
         stage \notin Ended
  PROVE  SessionInv'
<1>1. \A l \in wire' : \/ l \in wire
                       \/ l = Notice(t, value)
                       \/ l \in {TurnLine("started", t, "theirs"),
                                 TurnLine("completed", t, "theirs")}
  BY DEF Work, Emit
<1>2. \A l \in wire' : l \in wire \/ l.type # "thread"
  BY <1>1 DEF Notice, TurnLine
<1>3. ourTurn' = ourTurn
  BY DEF Work
<1>4. \A l \in wire' : l.type = "completed" /\ l.turn = "ours" => ourTurn' = "completed"
  BY <1>1, <1>3 DEF Notice, TurnLine, SessionInv, CompletionsTrue
<1> QED BY <1>2, <1>3, <1>4, ServerKeeps DEF Work

LEMMA FinishTurnKeeps ==
  ASSUME SessionInv, NEW outcome \in {"completed", "failed"}, FinishTurn(outcome),
         stage \notin Ended
  PROVE  SessionInv'
<1>1. \A l \in wire' : \/ l \in wire
                       \/ l = Notice(Target, "idle")
                       \/ l = TurnLine(outcome, Target, "ours")
  BY DEF FinishTurn, Emit
<1>2. \A l \in wire' : l \in wire \/ l.type # "thread"
  BY <1>1 DEF Notice, TurnLine
<1>3. ourTurn = "running" /\ ourTurn' = outcome
  BY DEF FinishTurn
<1>4. \A l \in wire' : l.type = "completed" /\ l.turn = "ours" => ourTurn' = "completed"
  BY <1>1, <1>3 DEF Notice, TurnLine, SessionInv, CompletionsTrue
<1> QED BY <1>2, <1>3, <1>4, ServerKeeps DEF FinishTurn

LEMMA AnnounceKeeps ==
  ASSUME SessionInv, NEW t \in Threads, Announce(t), stage \notin Ended
  PROVE  SessionInv'
<1> USE DEF SessionInv, clientVars, historyVars, Announce
<1>1. \A l \in wire' : l \in wire \/ l = Notice(t, status[t])
  BY DEF Emit
<1>2. \A l \in wire' : l \in wire \/ (l.type # "thread" /\ l.type # "completed")
  BY <1>1 DEF Notice
<1>3. (CompletionsTrue /\ NoTurnYet)'
  BY <1>2 DEF CompletionsTrue, NoTurnYet
<1>4. (NoRereadYet /\ RereadsTrue)'
  BY <1>2 DEF NoRereadYet, RereadsTrue, OfReread
<1>5. (RestWatched /\ RestedAtStart /\ RequestOfStage /\ EligibleBeforeTurn /\ CompletedIsOurs)'
  BY DEF RestWatched, RestedAtStart, RequestOfStage, EligibleBeforeTurn, CompletedIsOurs
<1> QED BY <1>3, <1>4, <1>5

LEMMA AnswerKeeps ==
  ASSUME SessionInv, NEW line, Answer(line), stage \notin Ended
  PROVE  SessionInv'
<1> USE DEF SessionInv, clientVars, historyVars
<1>1. asked /\ asked' = FALSE /\ UNCHANGED <<goal, clientVars, historyVars>>
  BY DEF Answer
<1>2. CASE request.method = "start"
  <2>1. request # Nothing /\ stage = "start"
    BY <1>2 DEF Nothing, RequestOfStage
  <2>2. ourTurn = "none" /\ ourTurn' = "running"
    BY <1>1, <1>2, <2>1 DEF NoTurnYet, Answer, Requests, Passes
  <2>3. \A l \in wire' : \/ l \in wire
                         \/ l = [type |-> "ok", to |-> request]
                         \/ l = Notice(Target, "active")
                         \/ l = TurnLine("started", Target, "ours")
    BY <1>2 DEF Answer, Emit, Passes
  <2>4. \A l \in wire' : l \in wire \/ (l.type # "thread" /\ l.type # "completed")
    BY <2>3 DEF Notice, TurnLine
  <2>5. (CompletionsTrue /\ NoTurnYet)'
    BY <1>1, <2>1, <2>2, <2>4 DEF CompletionsTrue, NoTurnYet
  <2>6. (NoRereadYet /\ RereadsTrue)'
    BY <1>1, <2>1, <2>4 DEF NoRereadYet, RereadsTrue, OfReread
  <2>7. (RestWatched /\ RestedAtStart /\ RequestOfStage /\ EligibleBeforeTurn)'
    BY <1>1, <2>1 DEF RestWatched, RestedAtStart, RequestOfStage, EligibleBeforeTurn
  <2>8. CompletedIsOurs'
    BY <1>1, <2>1 DEF CompletedIsOurs
  <2> QED BY <1>1, <2>5, <2>6, <2>7, <2>8
<1>3. CASE request.method # "start"
  <2>1. wire' = wire \cup {line} /\ ourTurn' = ourTurn /\ status' = status
    BY <1>3 DEF Answer, Emit
  <2>2. line.type # "completed"
    BY <1>3 DEF Answer, Pages
  <2>3. OfReread(line) => /\ stage = "reread" /\ request # Nothing
                          /\ line.status = "idle" => rested
    <3>1. SUFFICES ASSUME OfReread(line)
                   PROVE  /\ stage = "reread" /\ request # Nothing
                          /\ line.status = "idle" => rested
      OBVIOUS
    <3>2. line = [type |-> "thread", to |-> request, status |-> status[Target]]
      BY <1>3, <3>1 DEF Answer, OfReread, Pages
    <3>3. request.method = "reread"
      BY <3>1, <3>2 DEF OfReread
    <3>4. request # Nothing /\ stage = "reread"
      BY <3>3 DEF Nothing, RequestOfStage
    <3> QED BY <3>2, <3>4 DEF RestWatched
  <2>4. (CompletionsTrue /\ NoTurnYet)'
    BY <1>1, <2>1, <2>2 DEF CompletionsTrue, NoTurnYet
  <2>5. NoRereadYet'
    BY <1>1, <2>1, <2>3 DEF NoRereadYet, Passes
  <2>6. RereadsTrue'
    BY <1>1, <2>1, <2>3 DEF RereadsTrue
  <2>7. (RestWatched /\ RestedAtStart /\ RequestOfStage /\ EligibleBeforeTurn /\ CompletedIsOurs)'
    BY <1>1, <2>1
       DEF RestWatched, RestedAtStart, RequestOfStage, EligibleBeforeTurn, CompletedIsOurs
  <2> QED BY <1>1, <2>4, <2>5, <2>6, <2>7
<1> QED BY <1>2, <1>3

LEMMA SendKeeps ==
  ASSUME SessionInv, Send
  PROVE  SessionInv'
<1> USE DEF SessionInv
<1>1. /\ stage \in Requests /\ request = Nothing
      /\ request' = [method |-> stage, cursor |-> cursor]
      /\ turnWritten' = (stage = "start")
      /\ rested' = IF stage = "reread" THEN status[Target] = "idle" ELSE rested
      /\ UNCHANGED <<goal, stage, status, ourTurn, wire>>
  BY DEF Send
<1>2. (rested \in BOOLEAN /\ turnWritten \in BOOLEAN /\ RequestOfStage /\ NoTurnYet)'
  BY <1>1 DEF RequestOfStage, NoTurnYet
<1>3. (CompletionsTrue /\ CompletedIsOurs)'
  BY <1>1 DEF CompletionsTrue, CompletedIsOurs
<1>4. CASE stage = "reread"
  <2>1. \A l \in wire' : ~OfReread(l)
    BY <1>1, <1>4 DEF NoRereadYet
  <2>2. (RestWatched /\ RestedAtStart /\ EligibleBeforeTurn)'
    BY <1>1, <1>4 DEF RestWatched, RestedAtStart, EligibleBeforeTurn
  <2> QED BY <1>2, <1>3, <2>1, <2>2 DEF NoRereadYet, RereadsTrue
<1>5. CASE stage # "reread"
  <2>1. (NoRereadYet /\ RereadsTrue)'
    BY <1>1, <1>5 DEF NoRereadYet, RereadsTrue
  <2>2. (RestWatched /\ RestedAtStart /\ EligibleBeforeTurn)'
    BY <1>1, <1>5 DEF RestWatched, RestedAtStart, EligibleBeforeTurn
  <2> QED BY <1>2, <1>3, <2>1, <2>2
<1> QED BY <1>4, <1>5

\* A call that fails leaves nothing to conclude from.
LEMMA FailKeeps ==
  ASSUME SessionInv, Fail, UNCHANGED <<goal, asked, ourTurn, status, historyVars>>
  PROVE  SessionInv'
<1> USE DEF SessionInv, historyVars
<1>1. stage' = "failed" /\ request' = Nothing /\ wire' = {} /\ turnWritten' = turnWritten
  BY DEF Fail
<1>2. (RequestOfStage /\ NoTurnYet /\ CompletionsTrue)'
  BY <1>1 DEF RequestOfStage, NoTurnYet, CompletionsTrue, Requests, Passes
<1>3. (NoRereadYet /\ RestWatched /\ RereadsTrue /\ RestedAtStart)'
  BY <1>1 DEF NoRereadYet, RestWatched, RereadsTrue, RestedAtStart, Passes
<1> QED BY <1>1, <1>2, <1>3 DEF EligibleBeforeTurn, CompletedIsOurs

\* A line read leaves the conclusions of the others, and the stage it leads to
\* must have been earned.
LEMMA TakeKeeps ==
  ASSUME SessionInv, NEW line \in wire, Take(line), stage \notin Ended,
         UNCHANGED <<goal, asked, ourTurn, status, turnWritten, historyVars>>,
         \/ stage' = stage /\ request' = request
         \/ /\ request' = Nothing /\ stage \in Requests \cup {"wait"}
            /\ stage = "start" => stage' = "wait"
            /\ stage = "wait" => stage' = "done"
            /\ stage' = "start" => rested
            /\ stage' = "wait" => stage = "start"
            /\ stage' = "reread" => stage \in {"active", "archived", "resume"}
            /\ stage' \in {"initialize", "read", "resume"} \cup Passes
                 => stage \in {"initialize", "read", "resume"} \cup Passes
            /\ stage' = "done" => goal = "discover" \/ ourTurn = "completed"
  PROVE  SessionInv'
<1> USE DEF SessionInv, historyVars
<1>1. wire' \subseteq wire /\ rested' = rested
  BY DEF Take
<1>2. (CompletionsTrue /\ RereadsTrue)'
  BY <1>1 DEF CompletionsTrue, RereadsTrue
<1>3. CASE stage' = stage /\ request' = request
  <2>1. (RequestOfStage /\ NoTurnYet /\ NoRereadYet)'
    BY <1>1, <1>3 DEF RequestOfStage, NoTurnYet, NoRereadYet
  <2>2. (RestWatched /\ RestedAtStart /\ EligibleBeforeTurn /\ CompletedIsOurs)'
    BY <1>1, <1>3 DEF RestWatched, RestedAtStart, EligibleBeforeTurn, CompletedIsOurs
  <2> QED BY <1>1, <1>2, <2>1, <2>2
<1>4. CASE ~(stage' = stage /\ request' = request)
  <2>1. RequestOfStage'
    BY <1>4 DEF RequestOfStage
  <2>2. NoTurnYet'
    BY <1>4 DEF NoTurnYet, Requests, Passes
  <2>3. NoRereadYet'
    BY <1>1, <1>4 DEF NoRereadYet, Passes
  <2>4. (RestWatched /\ RestedAtStart)'
    BY <1>1, <1>4 DEF RestWatched, RestedAtStart
  <2>5. (EligibleBeforeTurn /\ CompletedIsOurs)'
    BY <1>1, <1>4 DEF EligibleBeforeTurn, CompletedIsOurs
  <2> QED BY <1>1, <1>2, <2>1, <2>2, <2>3, <2>4, <2>5
<1> QED BY <1>3, <1>4

LEMMA ReadReplyKeeps ==
  ASSUME SessionInv, NEW line \in wire, Read(line), ReadReply(line), stage # "wait"
  PROVE  SessionInv'
<1> USE DEF SessionInv
<1>1. /\ stage \in Requests /\ request # Nothing
      /\ UNCHANGED <<goal, asked, ourTurn, status, historyVars>>
  BY DEF Read, RequestOfStage
<1>2. CASE Fail
  BY <1>1, <1>2, FailKeeps
<1>3. CASE ~Fail
  <2>1. Matches(line) /\ (ReadPage(line) \/ line.type # "page")
    BY <1>3 DEF ReadReply
  <2>2. CASE stage \in Passes /\ line.type = "page"
    <3>1. ReadPage(line)
      BY <1>3, <2>2 DEF ReadReply
    <3>2. /\ Take(line) /\ request' = Nothing /\ UNCHANGED turnWritten
          /\ stage' \in {stage, "archived", "failed", "read"}
             \/ (stage' = "done" /\ goal = "discover")
      BY <1>3, <3>1 DEF ReadPage
    <3> QED BY <1>1, <2>2, <3>2, TakeKeeps DEF Passes, Requests, Ended
  <2>3. CASE ~(stage \in Passes /\ line.type = "page")
    <3>1. /\ Take(line) /\ stage' = After(stage) /\ request' = Nothing
          /\ UNCHANGED turnWritten
          /\ \/ line.type = "ok" /\ stage \in {"initialize", "start"}
             \/ line.type = "thread" /\ line.status = "idle"
                /\ stage \in {"read", "resume", "reread"}
      BY <1>3, <2>3 DEF ReadReply
    <3>2. stage = "reread" => rested
      <4>1. SUFFICES ASSUME stage = "reread" PROVE rested
        OBVIOUS
      <4>2. line.type = "thread" /\ line.status = "idle" /\ line.to.method = "reread"
        BY <1>1, <2>1, <3>1, <4>1 DEF Matches, RequestOfStage
      <4> QED BY <4>2 DEF RereadsTrue, OfReread
    <3>3. /\ stage = "initialize" => stage' = "active"
          /\ stage = "read" => stage' = "resume"
          /\ stage = "resume" => stage' = "reread"
          /\ stage = "reread" => stage' = "start"
          /\ stage = "start" => stage' = "wait"
      BY <3>1 DEF After
    <3> QED BY <1>1, <3>1, <3>2, <3>3, TakeKeeps DEF Passes, Requests, Ended
  <2> QED BY <2>2, <2>3
<1> QED BY <1>2, <1>3

LEMMA ReadKeeps ==
  ASSUME SessionInv, NEW line \in wire, Read(line)
  PROVE  SessionInv'
<1> USE DEF SessionInv
<1>1. stage \notin Ended /\ UNCHANGED <<goal, asked, ourTurn, status, historyVars>>
  BY DEF Read
<1>2. CASE Fail
  BY <1>1, <1>2, FailKeeps
<1>3. CASE ~Fail /\ ReadStatus(line)
  <2>1. Take(line) /\ UNCHANGED <<stage, request, turnWritten>>
    BY <1>3 DEF ReadStatus
  <2> QED BY <1>1, <2>1, TakeKeeps
<1>4. CASE stage # "wait" /\ ReadReply(line)
  BY <1>4, ReadReplyKeeps
<1>5. CASE ~Fail /\ stage = "wait" /\ ReadTurn(line)
  <2>1. request = Nothing
    BY <1>5 DEF RequestOfStage, Requests, Passes
  <2>2. CASE line.type = "started"
    <3>1. Take(line) /\ UNCHANGED <<stage, request, turnWritten>>
      BY <1>5, <2>2 DEF ReadTurn
    <3> QED BY <1>1, <3>1, TakeKeeps
  <2>3. CASE line.type # "started"
    <3>1. /\ Take(line) /\ stage' = "done" /\ UNCHANGED <<request, turnWritten>>
          /\ OurTurn(line) /\ line.type = "completed"
      BY <1>5, <2>3 DEF ReadTurn
    <3>2. ourTurn = "completed"
      BY <3>1 DEF OurTurn, CompletionsTrue
    <3> QED BY <1>1, <1>5, <2>1, <3>1, <3>2, TakeKeeps DEF Passes, Requests, Ended
  <2> QED BY <2>2, <2>3
<1> QED BY <1>2, <1>3, <1>4, <1>5 DEF Read

LEMMA Inductive ==
  /\ Init => SessionInv
  /\ SessionInv /\ [Next]_sessionVars => SessionInv'
<1>1. Init => SessionInv
  <2>1. SUFFICES ASSUME Init PROVE SessionInv
    OBVIOUS
  <2>2. /\ stage = "initialize" /\ request = Nothing /\ wire = {} /\ ourTurn = "none"
        /\ turnWritten = FALSE /\ rested = FALSE
    BY <2>1 DEF Init
  <2> QED BY <2>2 DEF SessionInv, RequestOfStage, NoTurnYet, CompletionsTrue, NoRereadYet,
            RestWatched, RereadsTrue, RestedAtStart, EligibleBeforeTurn, CompletedIsOurs
<1>2. SessionInv /\ [Next]_sessionVars => SessionInv'
  <2>1. SUFFICES ASSUME SessionInv, [Next]_sessionVars PROVE SessionInv'
    OBVIOUS
  <2>2. CASE UNCHANGED sessionVars
    BY <2>1, <2>2 DEF sessionVars, clientVars, historyVars, SessionInv, RequestOfStage,
       NoTurnYet, CompletionsTrue, NoRereadYet, RestWatched, RereadsTrue, RestedAtStart,
       EligibleBeforeTurn, CompletedIsOurs
  <2>3. CASE Send
    BY <2>1, <2>3, SendKeeps
  <2>4. CASE Abandon
    BY <2>1, <2>4, FailKeeps DEF Abandon
  <2>5. CASE Over
    BY <2>2, <2>5 DEF Over
  <2>6. CASE \E line \in wire : Read(line)
    BY <2>1, <2>6, ReadKeeps
  <2>7. CASE stage \notin Ended /\ \E t \in Threads :
               Shelve(t) \/ \E value \in ThreadStatuses : Work(t, value)
    BY <2>1, <2>7, ShelveKeeps, WorkKeeps
  <2>8. CASE stage \notin Ended /\ \E outcome \in {"completed", "failed"} : FinishTurn(outcome)
    BY <2>1, <2>8, FinishTurnKeeps
  <2>9. CASE stage \notin Ended /\ \E t \in Threads : Announce(t)
    BY <2>1, <2>9, AnnounceKeeps
  <2>10. CASE stage \notin Ended /\ \E line : Answer(line)
    BY <2>1, <2>10, AnswerKeeps
  <2> QED BY <2>1, <2>2, <2>3, <2>4, <2>5, <2>6, <2>7, <2>8, <2>9, <2>10 DEF Next
<1> QED BY <1>1, <1>2

\* A delivery that reports success has had its own turn completed, whatever lines
\* of other turns its start_and_wait reads and in whatever order.
THEOREM OwnTurn == Spec => []CompletedIsOurs
<1>1. SessionInv => CompletedIsOurs
  BY DEF SessionInv
<1> QED BY <1>1, Inductive, PTL DEF Spec

\* The session asks for its turn only after the server found the target idle in
\* the last thread/read of prepare, made after the thread was resumed.
THEOREM IdleFirst == Spec => []EligibleBeforeTurn
<1>1. SessionInv => EligibleBeforeTurn
  BY DEF SessionInv
<1> QED BY <1>1, Inductive, PTL DEF Spec

\* A set of numbers has a smallest.
LEMMA SmallestNumber ==
  ASSUME NEW S \in SUBSET Nat, S # {}
  PROVE  \E x \in S : \A y \in S : x <= y
<1>1. PICK x \in S : \A y \in S : ~(<<y, x>> \in OpToRel(<, Nat))
  BY WFMin, NatLessThanWellFounded
<1>2. \A y \in S : ~(y < x)
  BY <1>1 DEF OpToRel
<1> QED
  BY <1>2

-----------------------------------------------------------------------------
(* The requests and their replies: no two requests are equal, and a reply    *)
(* under way answers the present request or an earlier one, so the request   *)
(* that has yet to be answered is not answered by a line read twice.         *)

Position(method) ==
  [initialize |-> 1, active |-> 2, archived |-> 3, read |-> 4, resume |-> 5,
   reread |-> 6, start |-> 7, wait |-> 8][method]

Reply(l) == l.type \in {"ok", "page", "thread"}

\* The request the client is at, by its position in the listing.
RequestPlaced ==
  /\ request # Nothing => request = [method |-> stage, cursor |-> cursor]
  /\ stage \notin Ended /\ asked => request # Nothing
  /\ stage \notin Passes => cursor = 0
  /\ cursor = 0 => cursors = {}
  /\ cursor # 0 => cursor \in cursors

\* Every reply is to a request made, and the last one waits for its own.
RepliesToSent ==
  stage \notin Ended => \A l \in wire : Reply(l) =>
    /\ Position(l.to.method) <= Position(stage)
    /\ l.to.method = stage =>
         /\ l.to.cursor \in {0} \cup cursors
         /\ l.to.cursor = cursor => request # Nothing /\ ~asked

\* A page holds at most one thread.
PagesSmall ==
  \A l \in wire : l.type = "page" => l.item = {} \/ \E t \in Threads : l.item = {t}

WireInv == SessionTypeOK /\ RequestPlaced /\ RepliesToSent /\ PagesSmall

\* The stages of a session are in one order.
LEMMA PositionFacts ==
  /\ Position("initialize") = 1 /\ Position("active") = 2 /\ Position("archived") = 3
  /\ Position("read") = 4 /\ Position("resume") = 5 /\ Position("reread") = 6
  /\ Position("start") = 7 /\ Position("wait") = 8
BY DEF Position

\* What a line under way has in its fields.
LEMMA LineTypes ==
  ASSUME NEW l \in Lines
  PROVE  /\ Reply(l) => l.to \in Written
         /\ l.type = "page" => /\ l.item \subseteq Threads /\ l.status \in ThreadStatuses
                               /\ l.next \in 0..Len(Order)
BY DEF Lines, Reply

\* A page's threads as a sequence: none or one.
LEMMA ItemSequence ==
  ASSUME NEW item, item = {} \/ \E t \in Threads : item = {t}
  PROVE  \/ item = {} /\ SetToSeq(item) = <<>>
         \/ \E t \in Threads : item = {t} /\ SetToSeq(item) = <<t>>
<1>1. CASE item = {}
  <2>1. Cardinality({}) = 0
    BY FS_EmptySet
  <2>2. <<>> \in [1..0 -> {}] /\ IsInjective(<<>>)
    BY DEF IsInjective
  <2>3. SetToSeq({}) \in [1..0 -> {}]
    BY <2>1, <2>2 DEF SetToSeq
  <2>4. SetToSeq({}) = <<>>
    BY <2>3
  <2> QED
    BY <1>1, <2>4
<1>2. ASSUME NEW t \in Threads, item = {t}
      PROVE  SetToSeq(item) = <<t>>
  <2>1. Cardinality({t}) = 1
    BY FS_Singleton
  <2>2. <<t>> \in [1..1 -> {t}] /\ IsInjective(<<t>>)
    BY DEF IsInjective
  <2>3. SetToSeq({t}) \in [1..1 -> {t}]
    BY <2>1, <2>2 DEF SetToSeq
  <2>4. SetToSeq({t}) = <<t>>
    BY <2>3
  <2> QED
    BY <1>2, <2>4
<1> QED
  BY <1>1, <1>2

\* The cursors seen can be counted.
LEMMA CursorsFinite ==
  ASSUME SessionTypeOK
  PROVE  IsFiniteSet(cursors) /\ Cardinality(cursors) \in Nat
<1>1. Len(Order) \in Nat
  BY SessionAssumption
<1>2. IsFiniteSet(1..Len(Order))
  BY <1>1, FS_Interval
<1> QED
  BY <1>2, FS_Subset, FS_CardinalityType DEF SessionTypeOK

\* What the server's own steps leave of the client and of the replies.
LEMMA ServerWire ==
  ASSUME WireInv, UNCHANGED clientVars, UNCHANGED <<goal, damaged, asked, repeats>>,
         \A l \in wire' : l \in wire \/ (l \in Lines /\ ~Reply(l)),
         archived' \subseteq Threads, status' \in [Threads -> ThreadStatuses],
         ourTurn' \in {"none", "running", "completed", "failed"},
         changes' \in 0..MaxChanges, Watch \/ UNCHANGED historyVars
  PROVE  WireInv'
<1> USE DEF WireInv, clientVars
<1>1. /\ steady' \subseteq Threads /\ seen' \subseteq Threads /\ unarchived' \subseteq Threads
      /\ rested' \in BOOLEAN
  BY DEF Watch, historyVars, SessionTypeOK
<1>2. SessionTypeOK'
  BY <1>1 DEF SessionTypeOK
<1>3. RequestPlaced'
  BY DEF RequestPlaced
<1>4. RepliesToSent'
  BY DEF RepliesToSent
<1>5. PagesSmall'
  BY DEF PagesSmall, Reply
<1> QED
  BY <1>2, <1>3, <1>4, <1>5

\* Every action keeps WireInv, one lemma each.
LEMMA ShelveWire ==
  ASSUME WireInv, NEW t \in Threads, Shelve(t)
  PROVE  WireInv'
<1>1. archived' \subseteq Threads /\ changes' \in 0..MaxChanges
  BY SessionAssumption DEF Shelve, WireInv, SessionTypeOK
<1> QED
  BY <1>1, ServerWire DEF Shelve, WireInv, SessionTypeOK

LEMMA NoticeLine ==
  ASSUME NEW t \in Threads, NEW value \in ThreadStatuses
  PROVE  Notice(t, value) \in Lines /\ ~Reply(Notice(t, value))
BY DEF Notice, Lines, Reply

LEMMA TurnLines ==
  ASSUME NEW kind \in {"started", "completed", "failed"}, NEW t \in Threads,
         NEW turn \in {"ours", "theirs"}
  PROVE  TurnLine(kind, t, turn) \in Lines /\ ~Reply(TurnLine(kind, t, turn))
BY DEF TurnLine, Lines, Reply

LEMMA WorkWire ==
  ASSUME WireInv, NEW t \in Threads, NEW value \in ThreadStatuses, Work(t, value)
  PROVE  WireInv'
<1>1. status' \in [Threads -> ThreadStatuses] /\ changes' \in 0..MaxChanges
  BY SessionAssumption DEF Work, WireInv, SessionTypeOK
<1>2. \A l \in wire' : l \in wire \/ l \in {Notice(t, value), TurnLine("started", t, "theirs"),
                                            TurnLine("completed", t, "theirs")}
  BY DEF Work, Emit
<1>3. \A l \in wire' : l \in wire \/ (l \in Lines /\ ~Reply(l))
  BY <1>2, NoticeLine, TurnLines
<1> QED
  BY <1>1, <1>3, ServerWire DEF Work, WireInv, SessionTypeOK

LEMMA FinishTurnWire ==
  ASSUME WireInv, NEW outcome \in {"completed", "failed"}, FinishTurn(outcome)
  PROVE  WireInv'
<1>1. status' \in [Threads -> ThreadStatuses] /\ ourTurn' \in {"completed", "failed"}
  BY DEF FinishTurn, WireInv, SessionTypeOK, ThreadStatuses
<1>2. \A l \in wire' : l \in wire \/ l \in {Notice(Target, "idle"),
                                            TurnLine(outcome, Target, "ours")}
  BY DEF FinishTurn, Emit
<1>3. \A l \in wire' : l \in wire \/ (l \in Lines /\ ~Reply(l))
  BY <1>2, NoticeLine, TurnLines, SessionAssumption DEF ThreadStatuses
<1> QED
  BY <1>1, <1>3, ServerWire DEF FinishTurn, WireInv, SessionTypeOK

LEMMA AnnounceWire ==
  ASSUME WireInv, NEW t \in Threads, Announce(t)
  PROVE  WireInv'
<1>1. status[t] \in ThreadStatuses
  BY DEF WireInv, SessionTypeOK
<1>2. \A l \in wire' : l \in wire \/ l = Notice(t, status[t])
  BY DEF Announce, Emit
<1>3. \A l \in wire' : l \in wire \/ (l \in Lines /\ ~Reply(l))
  BY <1>1, <1>2, NoticeLine
<1> QED
  BY <1>3, ServerWire DEF Announce, WireInv, SessionTypeOK

\* A page, by its fields.
LEMMA PageShape ==
  ASSUME NEW line \in Pages
  PROVE  \E item \in {{}} \cup {{t} : t \in Threads}, next \in 0..Len(Order) :
           line = [type |-> "page", to |-> request, item |-> item,
                   status |-> IF item = {} THEN "idle" ELSE status[CHOOSE t \in item : TRUE],
                   next |-> next]
  BY DEF Pages

\* A new page, from the state the server is in.
LEMMA PageLines ==
  ASSUME SessionTypeOK, NEW line \in Pages
  PROVE  /\ line.type = "page" /\ line.to = request
         /\ request \in Written => line \in Lines
         /\ line.item = {} \/ \E t \in Threads : line.item = {t}
<1>1. PICK item \in {{}} \cup {{t} : t \in Threads}, next \in 0..Len(Order) :
        line = [type |-> "page", to |-> request, item |-> item,
                status |-> IF item = {} THEN "idle" ELSE status[CHOOSE t \in item : TRUE],
                next |-> next]
  BY PageShape
<1>2. (IF item = {} THEN "idle" ELSE status[CHOOSE t \in item : TRUE]) \in ThreadStatuses
  <2>1. CASE item = {}
    BY <2>1 DEF ThreadStatuses
  <2>2. CASE item # {}
    <3>1. (CHOOSE t \in item : TRUE) \in Threads
      BY <2>2
    <3> QED
      BY <2>2, <3>1 DEF SessionTypeOK
  <2> QED
    BY <2>1, <2>2
<1>3. item \subseteq Threads /\ (item = {} \/ \E t \in Threads : item = {t})
  OBVIOUS
<1> QED
  BY <1>1, <1>2, <1>3 DEF Lines

LEMMA AnswerWire ==
  ASSUME WireInv, NEW line, Answer(line), stage \notin Ended
  PROVE  WireInv'
<1> USE DEF WireInv, clientVars, historyVars
<1>1. /\ asked /\ asked' = FALSE /\ UNCHANGED <<goal, damaged, clientVars, archived, changes,
                                             repeats, historyVars>>
  BY DEF Answer
<1>2. request \in Written /\ request.method = stage /\ request.cursor = cursor /\ request # Nothing
  BY <1>1 DEF RequestPlaced, SessionTypeOK
<1>3. line \in Lines /\ Reply(line) /\ line.to = request
      /\ (line.type = "page" => line.item = {} \/ \E t \in Threads : line.item = {t})
  <2>1. CASE line \in Pages
    BY <1>2, <2>1, PageLines DEF Reply
  <2>2. status[Target] \in ThreadStatuses
    BY SessionAssumption DEF SessionTypeOK
  <2> QED
    BY <1>2, <2>1, <2>2 DEF Answer, Reply, Lines
<1>4. \A l \in wire' : l \in wire \/ l = line \/ (l \in Lines /\ ~Reply(l))
  <2>1. \A l \in wire' : l \in wire \/ l = line
          \/ l \in {Notice(Target, "active"), TurnLine("started", Target, "ours")}
    BY DEF Answer, Emit
  <2> QED
    BY <2>1, NoticeLine, TurnLines, SessionAssumption DEF ThreadStatuses
<1>5. status' \in [Threads -> ThreadStatuses]
      /\ ourTurn' \in {"none", "running", "completed", "failed"}
  BY DEF Answer, SessionTypeOK, ThreadStatuses
<1>6. SessionTypeOK'
  BY <1>1, <1>3, <1>4, <1>5 DEF SessionTypeOK
<1>7. RequestPlaced'
  BY <1>1 DEF RequestPlaced
<1>8. RepliesToSent'
  <2>1. cursor \in {0} \cup cursors
    BY DEF RequestPlaced
  <2>2. Position(stage) <= Position(stage)
    BY <1>2, PositionFacts DEF Written, Requests, Passes
  <2>3. \A l \in wire' : Reply(l) => l \in wire \/ l = line
    BY <1>4
  <2> QED
    BY <1>1, <1>2, <1>3, <2>1, <2>2, <2>3 DEF RepliesToSent
<1>9. PagesSmall'
  BY <1>3, <1>4 DEF PagesSmall, Reply
<1> QED
  BY <1>6, <1>7, <1>8, <1>9

LEMMA SendWire ==
  ASSUME WireInv, Send
  PROVE  WireInv'
<1> USE DEF WireInv
<1>1. /\ stage \in Requests /\ request = Nothing /\ asked' = TRUE
      /\ request' = [method |-> stage, cursor |-> cursor]
      /\ turnWritten' = (stage = "start")
      /\ rested' = IF stage = "reread" THEN status[Target] = "idle" ELSE rested
      /\ UNCHANGED <<goal, damaged, stage, cursor, cursors, sawStarted, notified, archived,
                     status, ourTurn, wire, changes, repeats>>
  BY DEF Send
<1>2. request' \in Written
  BY <1>1 DEF Written, SessionTypeOK
<1>3. entries' \in Seq(Threads) /\ identities' \in [Passes -> SUBSET Threads]
  BY DEF Send, SessionTypeOK
<1>4. steady' \subseteq Threads /\ seen' \subseteq Threads /\ unarchived' \subseteq Threads
  BY DEF Send, SessionTypeOK
<1>5. rested' \in BOOLEAN /\ turnWritten' \in BOOLEAN
  BY <1>1 DEF SessionTypeOK
<1>6. SessionTypeOK'
  BY <1>1, <1>2, <1>3, <1>4, <1>5 DEF SessionTypeOK
<1>7. RequestPlaced'
  BY <1>1, <1>2 DEF RequestPlaced, Nothing, Requests, Passes
<1>8. RepliesToSent'
  BY <1>1 DEF RepliesToSent
<1>9. PagesSmall'
  BY <1>1 DEF PagesSmall
<1> QED
  BY <1>6, <1>7, <1>8, <1>9

LEMMA FailWire ==
  ASSUME WireInv, Fail,
         UNCHANGED <<goal, damaged, asked, archived, status, ourTurn, changes, historyVars>>
  PROVE  WireInv'
<1> USE DEF WireInv, historyVars
<1>1. /\ stage' = "failed" /\ request' = Nothing /\ cursor' = 0 /\ cursors' = {}
      /\ entries' = <<>> /\ sawStarted' = FALSE /\ notified' = 0 /\ wire' = {}
      /\ identities' = [p \in Passes |-> {}] /\ UNCHANGED <<turnWritten, repeats>>
  BY DEF Fail
<1>2. Cardinality(cursors') < MaxPages /\ notified' \in 0..MaxNotifications
  BY <1>1, FS_EmptySet, SessionAssumption
<1>3. cursor' \in 0..Len(Order) /\ identities' \in [Passes -> SUBSET Threads]
      /\ entries' \in Seq(Threads)
  BY <1>1, SessionAssumption
<1>4. SessionTypeOK'
  BY <1>1, <1>2, <1>3 DEF SessionTypeOK, Ended
<1>5. (RequestPlaced /\ RepliesToSent /\ PagesSmall)'
  BY <1>1 DEF RequestPlaced, RepliesToSent, PagesSmall, Ended
<1> QED
  BY <1>4, <1>5

\* A line read, on which the client stays where it is or goes on to a stage
\* that has not yet been asked for anything.
LEMMA TakeWire ==
  ASSUME WireInv, NEW line \in wire, Take(line), stage \notin Ended,
         UNCHANGED <<goal, damaged, asked, archived, status, ourTurn, changes, historyVars,
                     turnWritten, Listing>>,
         sawStarted' \in BOOLEAN, notified' \in 0..MaxNotifications,
         \/ stage' = stage /\ request' = request
         \/ /\ ~asked /\ request' = Nothing /\ stage \notin Passes
            /\ stage' \in Requests \cup {"wait", "done"}
            /\ stage' # "done" => Position(stage) < Position(stage')
  PROVE  WireInv'
<1> USE DEF WireInv, historyVars, Listing
<1>1. wire' \subseteq wire /\ repeats' \in 0..MaxRepeats
  BY SessionAssumption DEF Take, SessionTypeOK
<1>2. stage' \in Requests \cup {"wait"} \cup Ended /\ request' \in Written \cup {Nothing}
  BY DEF SessionTypeOK, Ended
<1>3. SessionTypeOK'
  BY <1>1, <1>2 DEF SessionTypeOK
<1>4. PagesSmall'
  BY <1>1 DEF PagesSmall
<1>5. RequestPlaced'
  BY DEF RequestPlaced
<1>6. RepliesToSent'
  <2>1. CASE stage' = stage /\ request' = request
    BY <1>1, <2>1 DEF RepliesToSent
  <2>2. CASE ~(stage' = stage /\ request' = request)
    <3>1. SUFFICES ASSUME stage' \notin Ended, NEW l \in wire', Reply(l)
                   PROVE  /\ Position(l.to.method) <= Position(stage')
                          /\ l.to.method # stage'
      BY DEF RepliesToSent
    <3>2. Position(l.to.method) <= Position(stage) /\ Position(stage) < Position(stage')
      BY <1>1, <2>2, <3>1 DEF RepliesToSent, Ended
    <3>3. l.to.method \in Requests /\ stage \in Requests \cup {"wait"}
      BY <1>1, <3>1, LineTypes DEF SessionTypeOK, Written
    <3>4. /\ Position(stage') \in Nat /\ Position(stage) \in Nat /\ Position(l.to.method) \in Nat
      BY <1>2, <3>1, <3>3, PositionFacts DEF Requests, Passes
    <3> QED
      BY <3>2, <3>4
  <2> QED
    BY <2>1, <2>2
<1> QED
  BY <1>3, <1>4, <1>5, <1>6

\* The reply to the request under way is not read before the server wrote it.
LEMMA MatchedAnswered ==
  ASSUME WireInv, NEW line \in wire, Reply(line), Matches(line), request # Nothing,
         stage \notin Ended
  PROVE  ~asked /\ line.to.method = stage /\ line.to.cursor = cursor
BY DEF WireInv, RequestPlaced, RepliesToSent, Matches

\* What the page that _list_page_set accepts leaves the client with.
LEMMA AcceptedPage ==
  ASSUME WireInv, NEW line \in wire, line.type = "page", stage \in Passes, ReadPage(line), ~Fail
  PROVE  /\ Take(line) /\ request' = Nothing /\ UNCHANGED <<turnWritten, sawStarted, notified>>
         /\ line.item \cap identities[stage] = {}
         /\ ~(goal = "deliver" /\ Target \in line.item \cap damaged)
         /\ line.next # 0 => /\ line.item # {} /\ line.next \notin cursors
                             /\ Cardinality(cursors) + 1 # MaxPages
         /\ identities' = [identities EXCEPT ![stage] = @ \cup line.item]
         /\ entries' = IF stage = "active" /\ line.status = "idle" /\ line.item \cap damaged = {}
                       THEN entries \o SetToSeq(line.item) ELSE entries
         /\ cursor' = line.next
         /\ cursors' = IF line.next = 0 THEN {} ELSE cursors \cup {line.next}
         /\ stage' \in {stage, "archived", "read", "done", "failed"}
         /\ line.next # 0 => stage' = stage
         /\ line.next = 0 /\ stage = "active" => stage' = "archived"
         /\ line.next = 0 /\ stage = "archived" => stage' \in {"read", "done", "failed"}
         /\ stage' = "done" => goal = "discover"
         /\ stage' = "read" => goal # "discover"
         /\ line.next = 0 /\ stage = "archived" /\ stage' # "failed"
              => identities'["active"] \cap identities'["archived"] = {}
<1>1. ~(\/ line.item \cap identities[stage] # {}
        \/ goal = "deliver" /\ Target \in line.item \cap damaged
        \/ line.next # 0 /\ (line.item = {} \/ line.next \in cursors
                             \/ Cardinality(cursors) + 1 = MaxPages))
  BY DEF ReadPage
<1>2. /\ Take(line) /\ request' = Nothing /\ UNCHANGED <<turnWritten, sawStarted, notified>>
      /\ identities' = [identities EXCEPT ![stage] = @ \cup line.item]
      /\ entries' = IF stage = "active" /\ line.status = "idle" /\ line.item \cap damaged = {}
                    THEN entries \o SetToSeq(line.item) ELSE entries
      /\ cursor' = line.next
      /\ cursors' = IF line.next = 0 THEN {} ELSE cursors \cup {line.next}
  BY <1>1 DEF ReadPage
<1>3. stage' = IF line.next # 0 THEN stage
               ELSE IF stage = "active" THEN "archived"
               ELSE IF ~Consistent(identities') THEN "failed"
               ELSE IF goal = "discover" THEN "done"
               ELSE IF Cardinality(Occurrences(Target)) = 1 THEN "read"
               ELSE "failed"
  BY <1>1, <1>2 DEF ReadPage
<1>4. stage = "active" \/ stage = "archived"
  BY DEF Passes
<1> HIDE DEF Take
<1> QED
  BY <1>1, <1>2, <1>3, <1>4 DEF Consistent

LEMMA ReadPageWire ==
  ASSUME WireInv, NEW line \in wire, line.type = "page", stage \in Passes,
         Matches(line), request # Nothing, ReadPage(line), ~Fail,
         UNCHANGED <<goal, damaged, asked, archived, status, ourTurn, changes, historyVars>>
  PROVE  WireInv'
<1> USE DEF WireInv, historyVars
<1>1. /\ Take(line) /\ request' = Nothing /\ UNCHANGED <<turnWritten, sawStarted, notified>>
      /\ line.next # 0 => line.next \notin cursors /\ Cardinality(cursors) + 1 # MaxPages
      /\ identities' = [identities EXCEPT ![stage] = @ \cup line.item]
      /\ entries' \in {entries, entries \o SetToSeq(line.item)}
      /\ cursor' = line.next
      /\ cursors' = IF line.next = 0 THEN {} ELSE cursors \cup {line.next}
      /\ line.next # 0 => stage' = stage
      /\ line.next = 0 /\ stage = "active" => stage' = "archived"
      /\ line.next = 0 /\ stage = "archived" => stage' \in {"read", "done", "failed"}
  BY AcceptedPage
<1>2. line \in Lines /\ Reply(line) /\ line.next \in 0..Len(Order) /\ line.item \subseteq Threads
  BY LineTypes DEF SessionTypeOK, Reply
<1>3. ~asked /\ stage \notin Ended
  BY <1>2, MatchedAnswered DEF Passes, Ended
<1>4. wire' \subseteq wire /\ repeats' \in 0..MaxRepeats
  BY <1>1, SessionAssumption DEF Take, SessionTypeOK
<1>5. cursors' \subseteq 1..Len(Order) /\ Cardinality(cursors') < MaxPages
  <2>1. CASE line.next = 0
    BY <1>1, <2>1, FS_EmptySet, SessionAssumption
  <2>2. CASE line.next # 0
    <3>1. IsFiniteSet(cursors) /\ Cardinality(cursors) \in Nat
      BY CursorsFinite
    <3>2. Cardinality(cursors \cup {line.next}) = Cardinality(cursors) + 1
      BY <1>1, <2>2, <3>1, FS_AddElement
    <3>3. Cardinality(cursors) < MaxPages /\ MaxPages \in Nat
      BY SessionAssumption DEF SessionTypeOK
    <3>4. cursors \cup {line.next} \subseteq 1..Len(Order)
      <4>1. Len(Order) \in Nat
        BY SessionAssumption
      <4>2. cursors \subseteq 1..Len(Order) /\ line.next \in 1..Len(Order)
        BY <1>2, <2>2, <4>1 DEF SessionTypeOK
      <4> QED
        BY <4>2
    <3> QED
      BY <1>1, <2>2, <3>1, <3>2, <3>3, <3>4
  <2> QED
    BY <2>1, <2>2
<1>6. entries' \in Seq(Threads)
  <2>1. line.item = {} \/ \E t \in Threads : line.item = {t}
    BY DEF PagesSmall
  <2> DEFINE shown == SetToSeq(line.item)
  <2>2. shown = <<>> \/ \E t \in Threads : shown = <<t>>
    BY <2>1, ItemSequence
  <2>3. entries \in Seq(Threads) /\ entries' \in {entries, entries \o shown}
    BY <1>1 DEF SessionTypeOK
  <2> HIDE DEF shown
  <2>4. ASSUME NEW t \in Threads PROVE <<t>> \in Seq(Threads)
    OBVIOUS
  <2>5. <<>> \in Seq(Threads)
    OBVIOUS
  <2>6. shown \in Seq(Threads)
    BY <2>2, <2>4, <2>5
  <2>7. entries \o shown \in Seq(Threads)
    BY <2>3, <2>6
  <2> QED
    BY <2>3, <2>7
<1>7. identities' \in [Passes -> SUBSET Threads]
  BY <1>1, <1>2 DEF SessionTypeOK
<1>8. stage' \in Requests \cup Ended
  BY <1>1 DEF Requests, Passes, Ended
<1>9. SessionTypeOK'
  BY <1>1, <1>2, <1>4, <1>5, <1>6, <1>7, <1>8 DEF SessionTypeOK
<1>10. RequestPlaced'
  <2>1. line.next # 0 => stage' \in Passes /\ cursor' \in cursors'
    BY <1>1
  <2> QED
    BY <1>1, <1>3, <2>1 DEF RequestPlaced
<1>11. PagesSmall'
  BY <1>4 DEF PagesSmall
<1>12. RepliesToSent'
  <2>1. SUFFICES ASSUME stage' \notin Ended, NEW l \in wire', Reply(l)
                 PROVE  /\ Position(l.to.method) <= Position(stage')
                        /\ l.to.method = stage' =>
                             l.to.cursor \in {0} \cup cursors' /\ l.to.cursor # cursor'
    BY DEF RepliesToSent
  <2>2. /\ Position(l.to.method) <= Position(stage)
        /\ l.to.method = stage => l.to.cursor \in {0} \cup cursors
    BY <1>3, <1>4, <2>1 DEF RepliesToSent
  <2>3. CASE line.next # 0
    BY <1>1, <2>2, <2>3
  <2>4. CASE line.next = 0
    <3>1. l.to.method \in Requests
      BY <1>4, <2>1, LineTypes DEF SessionTypeOK, Written
    <3>2. Position(l.to.method) \in Nat /\ Position(stage) < Position(stage')
          /\ Position(stage) \in Nat /\ Position(stage') \in Nat
      BY <1>1, <2>1, <2>4, <3>1, PositionFacts DEF Requests, Passes, Ended
    <3> QED
      BY <2>2, <3>2
  <2> QED
    BY <2>3, <2>4
<1> QED
  BY <1>9, <1>10, <1>11, <1>12

LEMMA ReadReplyWire ==
  ASSUME WireInv, NEW line \in wire, ReadReply(line), ~Fail, request # Nothing,
         stage \notin Ended,
         UNCHANGED <<goal, damaged, asked, archived, status, ourTurn, changes, historyVars>>
  PROVE  WireInv'
<1>1. Reply(line) /\ Matches(line)
  BY DEF ReadReply, Reply
<1>2. CASE stage \in Passes /\ line.type = "page"
  <2>1. ReadPage(line)
    BY <1>1, <1>2 DEF ReadReply
  <2> QED
    BY <1>1, <1>2, <2>1, ReadPageWire
<1>3. CASE ~(stage \in Passes /\ line.type = "page")
  <2>1. /\ Take(line) /\ stage' = After(stage) /\ request' = Nothing
        /\ UNCHANGED <<Listing, turnWritten, sawStarted, notified>>
        /\ stage \in {"initialize", "start", "read", "resume", "reread"}
    BY <1>1, <1>3 DEF ReadReply
  <2>2. /\ stage = "initialize" => stage' = "active"
        /\ stage = "read" => stage' = "resume"
        /\ stage = "resume" => stage' = "reread"
        /\ stage = "reread" => stage' = "start"
        /\ stage = "start" => stage' = "wait"
    BY <2>1 DEF After
  <2>3. stage \notin Passes /\ stage' \in Requests \cup {"wait"}
        /\ Position(stage) < Position(stage')
    BY <2>1, <2>2, PositionFacts DEF Passes, Requests
  <2>4. ~asked
    BY <1>1, MatchedAnswered
  <2>5. sawStarted' \in BOOLEAN /\ notified' \in 0..MaxNotifications
    BY <2>1 DEF WireInv, SessionTypeOK
  <2> QED
    BY <2>1, <2>3, <2>4, <2>5, TakeWire
<1> QED
  BY <1>2, <1>3

LEMMA ReadWire ==
  ASSUME WireInv, NEW line \in wire, Read(line)
  PROVE  WireInv'
<1>1. stage \notin Ended /\ (request # Nothing \/ stage = "wait")
      /\ UNCHANGED <<goal, damaged, asked, archived, status, ourTurn, changes, historyVars>>
  BY DEF Read
<1>2. CASE Fail
  BY <1>1, <1>2, FailWire
<1>3. CASE ~Fail /\ ReadStatus(line)
  <2>1. /\ Take(line) /\ notified' = notified + 1 /\ notified + 1 <= MaxNotifications
        /\ UNCHANGED <<stage, request, Listing, turnWritten, sawStarted>>
    BY <1>3 DEF ReadStatus, StatusAccepted, Counted
  <2>2. sawStarted' \in BOOLEAN /\ notified' \in 0..MaxNotifications
    BY <2>1, SessionAssumption DEF WireInv, SessionTypeOK
  <2> QED
    BY <1>1, <2>1, <2>2, TakeWire
<1>4. CASE ~Fail /\ stage # "wait" /\ ReadReply(line)
  BY <1>1, <1>4, ReadReplyWire
<1>5. CASE ~Fail /\ stage = "wait" /\ ReadTurn(line)
  <2>1. request = Nothing /\ ~asked /\ stage \notin Passes
    BY <1>1, <1>5 DEF WireInv, RequestPlaced, SessionTypeOK, Written, Requests, Passes
  <2>2. /\ Take(line) /\ (stage' = stage \/ stage' = "done") /\ request' = request
        /\ UNCHANGED <<Listing, turnWritten, notified>>
        /\ sawStarted' \in {TRUE, sawStarted}
    BY <1>5 DEF ReadTurn
  <2>3. sawStarted' \in BOOLEAN /\ notified' \in 0..MaxNotifications
    BY <2>2 DEF WireInv, SessionTypeOK
  <2> QED
    BY <1>1, <2>1, <2>2, <2>3, TakeWire
<1> QED
  BY <1>2, <1>3, <1>4, <1>5 DEF Read

LEMMA InitWire == Init => WireInv
<1> SUFFICES ASSUME Init PROVE WireInv
  OBVIOUS
<1>1. Cardinality({}) = 0
  BY FS_EmptySet
<1>2. SessionTypeOK
  <2>1. /\ goal \in {"deliver", "discover"} /\ damaged \subseteq Threads
        /\ stage \in Requests /\ request = Nothing
        /\ cursor = 0 /\ cursors = {} /\ entries = <<>>
        /\ turnWritten = FALSE /\ sawStarted = FALSE /\ notified = 0
        /\ asked = FALSE /\ wire = {} /\ ourTurn = "none"
        /\ archived \subseteq Threads /\ changes = 0 /\ repeats = 0
        /\ steady = {} /\ seen = {} /\ unarchived = {} /\ rested = FALSE
    BY DEF Init, Requests
  <2>2. identities \in [Passes -> SUBSET Threads]
    BY DEF Init
  <2>3. status \in [Threads -> ThreadStatuses]
    BY DEF Init, ThreadStatuses
  <2>4. 0 \in 0..Len(Order) /\ Cardinality({}) < MaxPages /\ 0 \in 0..MaxNotifications
        /\ 0 \in 0..MaxChanges /\ 0 \in 0..MaxRepeats
    <3>1. Len(Order) \in Nat
      BY SessionAssumption
    <3> QED
      BY <1>1, <3>1, SessionAssumption
  <2>5. <<>> \in Seq(Threads)
    OBVIOUS
  <2> QED
    BY <2>1, <2>2, <2>3, <2>4, <2>5 DEF SessionTypeOK
<1>3. RequestPlaced /\ RepliesToSent /\ PagesSmall
  BY DEF Init, RequestPlaced, RepliesToSent, PagesSmall
<1> QED
  BY <1>2, <1>3 DEF WireInv

LEMMA NextWire ==
  ASSUME WireInv, [Next]_sessionVars
  PROVE  WireInv'
<1>1. CASE UNCHANGED sessionVars
  BY <1>1 DEF sessionVars, clientVars, historyVars, WireInv, SessionTypeOK, RequestPlaced,
     RepliesToSent, PagesSmall
<1>2. CASE Send
  BY <1>2, SendWire
<1>3. CASE Abandon
  BY <1>3, FailWire DEF Abandon
<1>4. CASE Over
  BY <1>1, <1>4 DEF Over
<1>5. CASE \E line \in wire : Read(line)
  BY <1>5, ReadWire
<1>6. CASE \E t \in Threads : Shelve(t) \/ \E value \in ThreadStatuses : Work(t, value)
  BY <1>6, ShelveWire, WorkWire
<1>7. CASE \E outcome \in {"completed", "failed"} : FinishTurn(outcome)
  BY <1>7, FinishTurnWire
<1>8. CASE \E t \in Threads : Announce(t)
  BY <1>8, AnnounceWire
<1>9. CASE stage \notin Ended /\ \E line : Answer(line)
  BY <1>9, AnswerWire
<1> QED
  BY <1>1, <1>2, <1>3, <1>4, <1>5, <1>6, <1>7, <1>8, <1>9 DEF Next

LEMMA WireInductive == Spec => []WireInv
<1>1. WireInv /\ [Next]_sessionVars => WireInv'
  BY NextWire
<1> QED
  BY <1>1, InitWire, PTL DEF Spec

\* Every variable keeps its type: the client never asks with a request already
\* answered, holds fewer cursors than the page bound and never counts beyond the
\* notification bound.
THEOREM TypeCorrect == Spec => []SessionTypeOK
<1>1. WireInv => SessionTypeOK
  BY DEF WireInv
<1> QED
  BY <1>1, WireInductive, PTL

-----------------------------------------------------------------------------
(* The listing.  A page speaks of the threads after the cursor it was asked  *)
(* with, up to its own cursor or to the end: what it says of them was so     *)
(* when the server wrote it, and the histories only make that easier.        *)

Begun(pass) == stage = pass /\ (request # Nothing \/ cursor # 0)

OfPass(l, pass) == l.type = "page" /\ l.to.method = pass

UpTo(l) == IF l.next = 0 THEN Len(Order) ELSE l.next

Passed(l) == {Order[i] : i \in l.to.cursor + 1 .. UpTo(l)}

Known == {Order[i] : i \in 1..cursor}

\* The histories follow the server while a pass is read.
HistoriesKept ==
  /\ Begun("active") => /\ steady \subseteq {t \in Threads : Eligible(t)}
                        /\ {t \in Threads : Eligible(t)} \subseteq seen
  /\ Begun("archived") => Threads \ archived \subseteq unarchived

\* What a page of either pass says.
ActivePages ==
  stage = "active" => \A l \in wire : OfPass(l, "active") =>
    /\ Passed(l) \cap steady \subseteq l.item
    /\ l.status = "idle" => l.item \subseteq seen
    /\ l.item \cap steady # {} => l.status = "idle"

ArchivedPages ==
  stage = "archived" => \A l \in wire : OfPass(l, "archived") =>
    Passed(l) \subseteq unarchived \cup l.item

\* What the client has gathered so far.
EntriesSeen ==
  /\ IsInjective(entries)
  /\ ToSet(entries) \subseteq identities["active"] \cap seen
  /\ stage \in {"initialize", "active"} /\ ~Begun("active") => entries = <<>>

ActiveCovered ==
  /\ stage = "active" => (Known \cap steady) \ damaged \subseteq ToSet(entries)
  /\ stage = "archived" \/ Listed => steady \ damaged \subseteq ToSet(entries)

ArchivedCovered ==
  /\ stage = "archived" => Known \subseteq unarchived \cup identities["archived"]
  /\ Listed => ToSet(entries) \subseteq unarchived

\* list_threads alone never goes on to the target.
Purpose == goal = "discover" => stage \in {"initialize"} \cup Passes \cup Ended

ListInv ==
  /\ Purpose
  /\ HistoriesKept /\ ActivePages /\ ArchivedPages
  /\ EntriesSeen /\ ActiveCovered /\ ArchivedCovered

\* At the first request of a pass no page of it is under way.
LEMMA NoPagesYet ==
  ASSUME WireInv, stage \in Passes, cursor = 0, request = Nothing
  PROVE  \A l \in wire : ~OfPass(l, stage)
<1>1. cursors = {} /\ stage \notin Ended
  BY DEF WireInv, RequestPlaced, Passes, Ended
<1> QED
  BY <1>1 DEF WireInv, RepliesToSent, OfPass, Reply

LEMMA NoPagesNext ==
  ASSUME WireInv', stage' \in Passes, cursor' = 0, request' = Nothing
  PROVE  \A l \in wire' : ~OfPass(l, stage')
<1>1. cursors' = {} /\ stage' \notin Ended
  BY DEF WireInv, RequestPlaced, Passes, Ended
<1> QED
  BY <1>1 DEF WireInv, RepliesToSent, OfPass, Reply

LEMMA WatchKeeps ==
  ASSUME SessionTypeOK, Watch, UNCHANGED clientVars, HistoriesKept
  PROVE  /\ steady' \subseteq steady /\ seen \subseteq seen' /\ unarchived \subseteq unarchived'
         /\ HistoriesKept'
<1>1. /\ stage' = stage /\ request' = request /\ cursor' = cursor
      /\ steady' = IF stage \in Passes THEN {t \in steady : Eligible(t)'} ELSE steady
      /\ seen' = IF stage = "active" THEN seen \cup {t \in Threads : Eligible(t)'} ELSE seen
      /\ unarchived' = IF stage = "archived" THEN unarchived \cup (Threads \ archived')
                                             ELSE unarchived
  BY DEF Watch, clientVars
<1>2. steady' \subseteq steady /\ seen \subseteq seen' /\ unarchived \subseteq unarchived'
  BY <1>1
<1>3. steady \subseteq Threads
  BY DEF SessionTypeOK
<1>4. CASE stage = "active"
  <2>1. steady' \subseteq {t \in Threads : Eligible(t)'}
    BY <1>1, <1>3, <1>4 DEF Passes
  <2>2. {t \in Threads : Eligible(t)'} \subseteq seen'
    BY <1>1, <1>4
  <2>3. HistoriesKept'
    BY <1>1, <1>4, <2>1, <2>2 DEF HistoriesKept, Begun
  <2> QED
    BY <1>2, <2>3
<1>5. CASE stage # "active"
  <2>1. HistoriesKept'
    BY <1>1, <1>5 DEF HistoriesKept, Begun
  <2> QED
    BY <1>2, <2>1
<1> QED
  BY <1>4, <1>5

\* What the server does to the histories leaves the listing as it is.
LEMMA ServerLists ==
  ASSUME ListInv, UNCHANGED clientVars, UNCHANGED <<goal, damaged>>,
         \A l \in wire' : l \in wire \/ l.type # "page",
         steady' \subseteq steady, seen \subseteq seen', unarchived \subseteq unarchived',
         HistoriesKept'
  PROVE  ListInv'
<1> USE DEF ListInv, clientVars
<1>1. Known' = Known /\ (Listed' <=> Listed)
  BY DEF Known, Listed
<1>2. ActivePages'
  BY DEF ActivePages, OfPass, Passed, UpTo
<1>3. ArchivedPages'
  BY DEF ArchivedPages, OfPass, Passed, UpTo
<1>4. EntriesSeen'
  BY DEF EntriesSeen, Begun
<1>5. ActiveCovered'
  BY <1>1 DEF ActiveCovered
<1>6. ArchivedCovered'
  BY <1>1 DEF ArchivedCovered
<1>7. Purpose'
  BY DEF Purpose
<1> QED
  BY <1>2, <1>3, <1>4, <1>5, <1>6, <1>7

\* A page that the server may write leaves out no thread of its pass up to its
\* cursor, and shows one as it is.
LEMMA SoundCovers ==
  ASSUME SessionTypeOK, NEW line \in Pages, Sound(line)
  PROVE  /\ \A i \in cursor + 1 .. UpTo(line) :
              (Order[i] \in archived <=> request.method = "archived") => Order[i] \in line.item
         /\ \A t \in line.item : /\ t \in archived <=> request.method = "archived"
                                 /\ line.status = status[t]
<1> DEFINE rest(from) == {i \in (from + 1)..Len(Order) :
                            (Order[i] \in archived) = (request.method = "archived")}
           least(s) == CHOOSE i \in s : \A j \in s : i <= j
<1>1. cursor \in Nat /\ Len(Order) \in Nat /\ cursor <= Len(Order)
  BY SessionAssumption DEF SessionTypeOK
<1>2. line.status = IF line.item = {} THEN "idle" ELSE status[CHOOSE t \in line.item : TRUE]
  BY DEF Pages
<1>3. \/ /\ line.item = {} /\ (rest(cursor) = {} => line.next = 0)
         /\ (rest(cursor) # {} => line.next = cursor /\ cursor # 0)
      \/ \E from \in 0..cursor :
           /\ rest(from) # {}
           /\ line.item = {Order[least(rest(from))]}
           /\ IF rest(least(rest(from))) = {} THEN line.next = 0
              ELSE line.next \in {from, least(rest(from))} \ {0}
  BY DEF Sound
<1>4. CASE /\ line.item = {} /\ (rest(cursor) = {} => line.next = 0)
           /\ (rest(cursor) # {} => line.next = cursor /\ cursor # 0)
  <2>1. CASE rest(cursor) = {}
    <3>1. UpTo(line) = Len(Order)
      BY <1>4, <2>1 DEF UpTo
    <3>2. \A i \in cursor + 1 .. Len(Order) :
            ~(Order[i] \in archived <=> request.method = "archived")
      BY <2>1
    <3> QED
      BY <1>4, <3>1, <3>2
  <2>2. CASE rest(cursor) # {}
    <3>1. UpTo(line) = cursor
      BY <1>4, <2>2 DEF UpTo
    <3>2. cursor + 1 .. cursor = {}
      BY <1>1
    <3> QED
      BY <1>4, <3>1, <3>2
  <2> QED
    BY <2>1, <2>2
<1>5. ASSUME NEW from \in 0..cursor, rest(from) # {},
             line.item = {Order[least(rest(from))]},
             IF rest(least(rest(from))) = {} THEN line.next = 0
             ELSE line.next \in {from, least(rest(from))} \ {0}
      PROVE  /\ \A i \in cursor + 1 .. UpTo(line) :
                  (Order[i] \in archived <=> request.method = "archived") => Order[i] \in line.item
             /\ \A t \in line.item : /\ t \in archived <=> request.method = "archived"
                                     /\ line.status = status[t]
  <2> DEFINE m == least(rest(from))
  <2>1. from \in Nat /\ from <= cursor
    BY <1>1
  <2>2. rest(from) \in SUBSET Nat
    BY <1>1, <2>1
  <2>3. \E x \in rest(from) : \A y \in rest(from) : x <= y
    BY <1>5, <2>2, SmallestNumber
  <2>4. m \in rest(from) /\ \A j \in rest(from) : m <= j
    BY <2>3
  <2>5. line.item = {Order[m]} /\ (rest(m) = {} => line.next = 0)
        /\ (rest(m) # {} => line.next \in {from, m} \ {0})
    BY <1>5
  <2> HIDE DEF m
  <2>6. m \in from + 1 .. Len(Order) /\ (Order[m] \in archived <=> request.method = "archived")
    BY <2>4
  <2>7. \A t \in line.item : t = Order[m] /\ line.status = status[t]
    BY <1>2, <2>5
  <2>8. ASSUME NEW i \in cursor + 1 .. UpTo(line),
               Order[i] \in archived <=> request.method = "archived"
        PROVE  i = m
    <3>1. CASE rest(m) = {}
      <4>1. i \in cursor + 1 .. Len(Order)
        BY <2>5, <2>8, <3>1 DEF UpTo
      <4>2. i \in rest(from) /\ i \in Nat
        BY <1>1, <2>1, <2>8, <4>1
      <4>3. m <= i
        BY <2>4, <4>2
      <4>4. ~(i \in m + 1 .. Len(Order))
        BY <2>8, <3>1
      <4> QED
        BY <1>1, <2>1, <2>6, <4>1, <4>3, <4>4
    <3>2. CASE rest(m) # {}
      <4>1. line.next \in {from, m} /\ line.next # 0 /\ i \in cursor + 1 .. line.next
        BY <2>5, <2>8, <3>2 DEF UpTo
      <4>2. line.next = m
        BY <1>1, <2>1, <4>1
      <4>3. i \in rest(from)
        BY <1>1, <2>1, <2>6, <2>8, <4>1, <4>2
      <4> QED
        BY <1>1, <2>1, <2>4, <2>6, <4>1, <4>2, <4>3
    <3> QED
      BY <3>1, <3>2
  <2> QED
    BY <2>5, <2>6, <2>7, <2>8
<1> HIDE DEF rest, least
<1> QED
  BY <1>3, <1>4, <1>5

LEMMA AnswerLists ==
  ASSUME WireInv, ListInv, NEW line, Answer(line), stage \notin Ended
  PROVE  ListInv'
<1> USE DEF ListInv
<1>1. /\ asked /\ UNCHANGED clientVars /\ UNCHANGED historyVars
      /\ UNCHANGED <<goal, damaged, archived>>
  BY DEF Answer
<1>2. /\ request \in Written /\ request.method = stage /\ request.cursor = cursor
      /\ request # Nothing /\ SessionTypeOK
  BY <1>1 DEF WireInv, RequestPlaced, SessionTypeOK
<1>3. UNCHANGED <<stage, request, cursor, steady, seen, unarchived>>
  BY <1>1 DEF clientVars, historyVars
<1>4. CASE stage \notin Passes
  <2>1. \A l \in wire' : l \in wire \/ l = line
          \/ l \in {Notice(Target, "active"), TurnLine("started", Target, "ours")}
    BY DEF Answer, Emit
  <2>2. line.type # "page"
    BY <1>2, <1>4 DEF Answer
  <2>3. \A l \in wire' : l \in wire \/ l.type # "page"
    BY <2>1, <2>2 DEF Notice, TurnLine
  <2>4. HistoriesKept'
    BY <1>3, <1>4 DEF HistoriesKept, Begun, Passes
  <2> QED
    BY <1>1, <1>3, <2>3, <2>4, ServerLists
<1>5. CASE stage \in Passes
  <2>1. /\ line \in Pages /\ Sound(line) /\ wire' = wire \cup {line} /\ status' = status
    BY <1>2, <1>5 DEF Answer, Emit, Passes
  <2>2. line.type = "page" /\ line.to = request
    BY <1>2, <2>1, PageLines
  <2>3. /\ \A i \in cursor + 1 .. UpTo(line) :
             (Order[i] \in archived <=> stage = "archived") => Order[i] \in line.item
        /\ \A t \in line.item : /\ t \in archived <=> stage = "archived"
                                /\ line.status = status[t]
    BY <1>2, <2>1, SoundCovers
  <2>4. Passed(line) = {Order[i] : i \in cursor + 1 .. UpTo(line)}
    BY <1>2, <2>2 DEF Passed
  <2>5. /\ HistoriesKept' /\ EntriesSeen' /\ ActiveCovered' /\ ArchivedCovered' /\ Purpose'
    <3>1. (Listed' <=> Listed) /\ Known' = Known
      BY <1>1 DEF Listed, Known, clientVars
    <3>2. HistoriesKept'
      BY <1>1, <1>3, <2>1 DEF HistoriesKept, Begun, Eligible
    <3>3. EntriesSeen' /\ Purpose'
      BY <1>1, <1>3 DEF EntriesSeen, Begun, clientVars, Purpose
    <3>4. ActiveCovered' /\ ArchivedCovered'
      BY <1>1, <1>3, <3>1 DEF ActiveCovered, ArchivedCovered, clientVars
    <3> QED
      BY <3>2, <3>3, <3>4
  <2>6. CASE stage = "active"
    <3>1. steady \subseteq {t \in Threads : Eligible(t)} /\ {t \in Threads : Eligible(t)} \subseteq seen
      BY <1>2, <2>6 DEF HistoriesKept, Begun
    <3>2. Passed(line) \cap steady \subseteq line.item
      <4>1. SUFFICES ASSUME NEW i \in cursor + 1 .. UpTo(line), Order[i] \in steady
                     PROVE  Order[i] \in line.item
        BY <2>4
      <4>2. Order[i] \notin archived
        BY <3>1, <4>1 DEF Eligible
      <4> QED
        BY <2>3, <2>6, <4>1, <4>2
    <3>3. line.item \subseteq Threads
      BY <1>2, <2>1, <2>2, PageLines, LineTypes
    <3>4. line.status = "idle" => line.item \subseteq seen
      BY <2>3, <2>6, <3>1, <3>3 DEF Eligible
    <3>5. line.item \cap steady # {} => line.status = "idle"
      BY <2>3, <3>1 DEF Eligible
    <3>6. ActivePages'
      BY <1>3, <2>1, <3>2, <3>4, <3>5 DEF ActivePages, OfPass, Passed, UpTo
    <3>7. ArchivedPages'
      BY <1>3, <2>6 DEF ArchivedPages
    <3> QED
      BY <2>5, <3>6, <3>7
  <2>7. CASE stage = "archived"
    <3>1. Threads \ archived \subseteq unarchived
      BY <1>2, <2>7 DEF HistoriesKept, Begun
    <3>2. Passed(line) \subseteq unarchived \cup line.item
      <4>1. SUFFICES ASSUME NEW i \in cursor + 1 .. UpTo(line), Order[i] \in archived
                             \/ Order[i] \notin Threads
                     PROVE  Order[i] \in line.item
        BY <2>4, <3>1
      <4>2. Order[i] \in Threads
        <5>1. cursor \in Nat /\ Len(Order) \in Nat /\ UpTo(line) <= Len(Order)
              /\ UpTo(line) \in Nat
          <6>1. line.next \in 0..Len(Order)
            BY <1>2, <2>1, <2>2, PageLines, LineTypes
          <6>2. cursor \in 0..Len(Order) /\ Len(Order) \in Nat
            BY <1>2, SessionAssumption DEF SessionTypeOK
          <6> QED
            BY <6>1, <6>2 DEF UpTo
        <5>2. i \in 1..Len(Order)
          BY <5>1
        <5> QED
          BY <5>2, SessionAssumption
      <4> QED
        BY <2>3, <2>7, <4>1, <4>2
    <3>3. ArchivedPages'
      BY <1>3, <2>1, <3>2 DEF ArchivedPages, OfPass, Passed, UpTo
    <3>4. ActivePages'
      BY <1>3, <2>7 DEF ActivePages
    <3> QED
      BY <2>5, <3>3, <3>4
  <2> QED
    BY <1>5, <2>6, <2>7 DEF Passes
<1> QED
  BY <1>4, <1>5

\* Every action of the client keeps ListInv, one lemma each.
LEMMA SendLists ==
  ASSUME WireInv, ListInv, Send
  PROVE  ListInv'
<1> USE DEF ListInv
<1> DEFINE now == {t \in Threads : Eligible(t)}
           first(pass) == stage = pass /\ cursor = 0
           dropped == stage = "read"
<1>1. /\ stage \in Requests /\ request = Nothing
      /\ request' = [method |-> stage, cursor |-> cursor]
      /\ UNCHANGED <<goal, damaged, stage, cursor, archived, status, wire>>
      /\ steady' = IF first("active") THEN now ELSE IF dropped THEN {} ELSE steady
      /\ seen' = IF first("active") THEN now ELSE IF dropped THEN {} ELSE seen
      /\ unarchived' = IF first("archived") THEN Threads \ archived
                       ELSE IF dropped THEN {} ELSE unarchived
      /\ entries' = IF dropped THEN <<>> ELSE entries
      /\ identities' = IF dropped THEN [p \in Passes |-> {}] ELSE identities
  BY DEF Send
<1>2. request' # Nothing /\ ~Listed' /\ Known' = Known
  BY <1>1 DEF Nothing, Requests, Passes, Listed, Known
<1>3. Purpose'
  BY <1>1 DEF Purpose
<1>4. now' = now
  BY <1>1 DEF Eligible
<1>5. HistoriesKept'
  <2>1. Begun("active")' => steady' \subseteq now /\ now \subseteq seen'
    BY <1>1 DEF Begun, HistoriesKept
  <2>2. Begun("archived")' => Threads \ archived' \subseteq unarchived'
    BY <1>1 DEF Begun, HistoriesKept
  <2> QED
    BY <1>4, <2>1, <2>2 DEF HistoriesKept
<1>6. cursor = 0 /\ stage \in Passes => \A l \in wire : ~OfPass(l, stage)
  BY <1>1, NoPagesYet
<1>7. ActivePages'
  <2>1. CASE first("active")
    BY <1>1, <1>6, <2>1 DEF ActivePages, OfPass, Passes
  <2>2. CASE stage = "active" /\ cursor # 0
    BY <1>1, <2>2 DEF ActivePages, OfPass, Passed, UpTo
  <2> QED
    BY <1>1, <2>1, <2>2 DEF ActivePages
<1>8. ArchivedPages'
  <2>1. CASE first("archived")
    BY <1>1, <1>6, <2>1 DEF ArchivedPages, OfPass, Passes
  <2>2. CASE stage = "archived" /\ cursor # 0
    BY <1>1, <2>2 DEF ArchivedPages, OfPass, Passed, UpTo
  <2> QED
    BY <1>1, <2>1, <2>2 DEF ArchivedPages
<1>9. EntriesSeen'
  <2>1. CASE dropped
    BY <1>1, <2>1 DEF EntriesSeen, IsInjective, ToSet
  <2>2. CASE first("active")
    <3>1. entries' = <<>>
      BY <1>1, <2>2 DEF EntriesSeen, Begun
    <3> QED
      BY <3>1 DEF EntriesSeen, IsInjective, ToSet
  <2>3. CASE ~dropped /\ ~first("active")
    BY <1>1, <1>2, <2>3 DEF EntriesSeen, Begun
  <2> QED
    BY <2>1, <2>2, <2>3
<1>10. ActiveCovered'
  <2>1. CASE first("active")
    <3>1. Known' = {}
      BY <1>2, <2>1 DEF Known
    <3> QED
      BY <1>1, <1>2, <2>1, <3>1 DEF ActiveCovered
  <2>2. CASE ~first("active")
    BY <1>1, <1>2, <2>2 DEF ActiveCovered
  <2> QED
    BY <2>1, <2>2
<1>11. ArchivedCovered'
  <2>1. CASE first("archived")
    <3>1. Known' = {}
      BY <1>2, <2>1 DEF Known
    <3> QED
      BY <1>2, <3>1 DEF ArchivedCovered
  <2>2. CASE ~first("archived")
    BY <1>1, <1>2, <2>2 DEF ArchivedCovered
  <2> QED
    BY <2>1, <2>2
<1> QED
  BY <1>3, <1>5, <1>7, <1>8, <1>9, <1>10, <1>11

LEMMA FailLists ==
  ASSUME ListInv, Fail, UNCHANGED <<goal, damaged, historyVars>>
  PROVE  ListInv'
<1>1. stage' = "failed" /\ entries' = <<>> /\ ~Listed'
  BY DEF Fail, Listed
<1>2. Purpose' /\ HistoriesKept' /\ ActivePages' /\ ArchivedPages'
  BY <1>1 DEF Purpose, HistoriesKept, ActivePages, ArchivedPages, Begun, Ended
<1>3. EntriesSeen'
  BY <1>1 DEF EntriesSeen, IsInjective, ToSet
<1>4. ActiveCovered' /\ ArchivedCovered'
  BY <1>1 DEF ActiveCovered, ArchivedCovered
<1> QED
  BY <1>2, <1>3, <1>4 DEF ListInv

\* A line that is no page leaves the listing as it is.
LEMMA TakeLists ==
  ASSUME WireInv, WireInv', ListInv, NEW line \in wire, Take(line), stage \notin Ended,
         UNCHANGED <<goal, damaged, archived, status, historyVars, Listing>>,
         \/ stage' = stage /\ request' = request
         \/ stage = "initialize" /\ stage' = "active" /\ request' = Nothing
         \/ /\ stage \notin {"initialize"} \cup Passes
            /\ stage' \notin {"initialize", "read"} \cup Passes
            /\ stage' = "done" => goal = "deliver"
  PROVE  ListInv'
<1> USE DEF ListInv, historyVars, Listing
<1>1. wire' \subseteq wire
  BY DEF Take
<1>2. CASE stage' = stage /\ request' = request
  <2>1. Known' = Known /\ (Listed' <=> Listed) /\ (Begun("active")' <=> Begun("active"))
        /\ (Begun("archived")' <=> Begun("archived"))
    BY <1>2 DEF Known, Listed, Begun
  <2>2. ActivePages' /\ ArchivedPages'
    BY <1>1, <1>2 DEF ActivePages, ArchivedPages, OfPass, Passed, UpTo
  <2>3. HistoriesKept' /\ EntriesSeen' /\ ActiveCovered' /\ ArchivedCovered' /\ Purpose'
    BY <1>2, <2>1
    DEF HistoriesKept, Eligible, EntriesSeen, ActiveCovered, ArchivedCovered, Purpose
  <2> QED
    BY <2>2, <2>3
<1>3. CASE stage = "initialize" /\ stage' = "active" /\ request' = Nothing
  <2>1. cursor = 0
    BY <1>3 DEF WireInv, RequestPlaced, Passes
  <2>2. \A l \in wire' : ~OfPass(l, "active")
    BY <1>3, <2>1, NoPagesNext DEF Passes
  <2>3. ~Listed' /\ Known' = {} /\ ~Begun("active")' /\ ~Begun("archived")'
    BY <1>3, <2>1 DEF Listed, Known, Begun
  <2>4. ActivePages' /\ ArchivedPages'
    BY <1>3, <2>2 DEF ActivePages, ArchivedPages, OfPass
  <2>5. entries' = <<>> /\ ToSet(entries') \subseteq identities'["active"] \cap seen'
        /\ IsInjective(entries')
    BY <1>3 DEF EntriesSeen, Begun
  <2>6. HistoriesKept' /\ EntriesSeen' /\ ActiveCovered' /\ ArchivedCovered' /\ Purpose'
    BY <1>3, <2>3, <2>5
    DEF HistoriesKept, EntriesSeen, ActiveCovered, ArchivedCovered, Purpose, Passes
  <2> QED
    BY <2>4, <2>6
<1>4. CASE /\ stage \notin {"initialize"} \cup Passes
           /\ stage' \notin {"initialize", "read"} \cup Passes
           /\ stage' = "done" => goal = "deliver"
  <2>1. stage' # "active" /\ stage' # "archived" /\ ~Listed'
    BY <1>4 DEF Passes, Listed
  <2>2. ActivePages' /\ ArchivedPages' /\ HistoriesKept'
    BY <2>1 DEF ActivePages, ArchivedPages, HistoriesKept, Begun
  <2>3. EntriesSeen'
    BY <1>4, <2>1 DEF EntriesSeen
  <2>4. ActiveCovered' /\ ArchivedCovered'
    BY <2>1 DEF ActiveCovered, ArchivedCovered
  <2>5. Purpose'
    BY <1>4 DEF Purpose
  <2> QED
    BY <2>2, <2>3, <2>4, <2>5
<1> QED
  BY <1>2, <1>3, <1>4

\* The threads before the end of a page that the client reads.
LEMMA KnownNext ==
  ASSUME SessionTypeOK, NEW line \in wire, line.type = "page", line.to.cursor = cursor
  PROVE  /\ line.next = 0 => Threads \subseteq Known \cup Passed(line)
         /\ line.next # 0 => {Order[i] : i \in 1..line.next} \subseteq Known \cup Passed(line)
<1>1. line.next \in 0..Len(Order) /\ cursor \in 0..Len(Order) /\ Len(Order) \in Nat
  BY LineTypes, SessionAssumption DEF SessionTypeOK
<1>2. ASSUME NEW i \in 1..UpTo(line)
      PROVE  Order[i] \in Known \cup Passed(line)
  <2>1. i \in 1..cursor \/ i \in line.to.cursor + 1 .. UpTo(line)
    BY <1>1 DEF UpTo
  <2> QED
    BY <2>1 DEF Known, Passed
<1>3. Threads = {Order[i] : i \in 1..Len(Order)}
  BY SessionAssumption DEF Threads, ToSet
<1> QED
  BY <1>2, <1>3 DEF UpTo

\* The entries after a page.
LEMMA EntriesNext ==
  ASSUME WireInv, EntriesSeen, NEW item, item = {} \/ \E t \in Threads : item = {t},
         item \cap identities["active"] = {},
         entries' = entries \o SetToSeq(item)
  PROVE  IsInjective(entries') /\ ToSet(entries') = ToSet(entries) \cup item
<1> DEFINE shown == SetToSeq(item)
<1>1. entries \in Seq(Threads) /\ IsInjective(entries)
      /\ ToSet(entries) \subseteq identities["active"]
  BY DEF WireInv, SessionTypeOK, EntriesSeen
<1>2. entries' = entries \o shown
  OBVIOUS
<1>3. \/ item = {} /\ shown = <<>>
      \/ \E t \in Threads : item = {t} /\ shown = <<t>>
  BY ItemSequence
<1> HIDE DEF shown
<1>4. CASE item = {} /\ shown = <<>>
  <2>1. entries' = entries
    BY <1>1, <1>2, <1>4
  <2> QED
    BY <1>1, <1>4, <2>1
<1>5. ASSUME NEW t \in Threads, item = {t}, shown = <<t>>
      PROVE  IsInjective(entries') /\ ToSet(entries') = ToSet(entries) \cup item
  <2> DEFINE n == Len(entries)
             more == Append(entries, t)
  <2>1. n \in Nat /\ DOMAIN entries = 1..n
    BY <1>1
  <2>2. entries' = more
    BY <1>1, <1>2, <1>5
  <2>3. /\ DOMAIN more = 1..n + 1 /\ more[n + 1] = t
        /\ \A i \in 1..n : more[i] = entries[i]
    BY <1>1, <2>1
  <2>4. \A i \in 1..n : entries[i] \in ToSet(entries)
    BY <2>1 DEF ToSet
  <2>5. t \notin ToSet(entries)
    BY <1>1, <1>5
  <2> HIDE DEF more, n
  <2>6. IsInjective(more)
    <3>1. SUFFICES ASSUME NEW a \in 1..n + 1, NEW b \in 1..n + 1, more[a] = more[b]
                   PROVE  a = b
      BY <2>3 DEF IsInjective
    <3>2. /\ a \in 1..n \/ a = n + 1
          /\ b \in 1..n \/ b = n + 1
      BY <2>1
    <3>3. CASE a \in 1..n /\ b \in 1..n
      BY <1>1, <2>1, <2>3, <3>1, <3>3 DEF IsInjective
    <3> QED
      BY <2>3, <2>4, <2>5, <3>1, <3>2, <3>3
  <2>7. ToSet(more) = ToSet(entries) \cup {t}
    <3>1. ASSUME NEW x PROVE x \in ToSet(more) <=> \E i \in 1..n + 1 : x = more[i]
      BY <2>3 DEF ToSet
    <3>2. ASSUME NEW x PROVE x \in ToSet(entries) <=> \E i \in 1..n : x = entries[i]
      BY <2>1 DEF ToSet
    <3>3. 1..n + 1 = (1..n) \cup {n + 1}
      BY <2>1
    <3> QED
      BY <2>3, <3>1, <3>2, <3>3
  <2> QED
    BY <1>5, <2>2, <2>6, <2>7
<1> QED
  BY <1>3, <1>4, <1>5

LEMMA ActivePageLists ==
  ASSUME WireInv, WireInv', ListInv, NEW line \in wire, line.type = "page", stage = "active",
         Matches(line), request # Nothing, ReadPage(line), ~Fail,
         UNCHANGED <<goal, damaged, archived, status, historyVars>>
  PROVE  ListInv'
<1> USE DEF ListInv, historyVars
<1>0. Reply(line) /\ stage \in Passes /\ stage \notin Ended
  BY DEF Reply, Passes, Ended
<1>1. /\ Take(line) /\ request' = Nothing
      /\ line.item \cap identities["active"] = {}
      /\ identities' = [identities EXCEPT !["active"] = @ \cup line.item]
      /\ entries' = IF line.status = "idle" /\ line.item \cap damaged = {}
                    THEN entries \o SetToSeq(line.item) ELSE entries
      /\ cursor' = line.next
      /\ line.next # 0 => stage' = stage
      /\ line.next = 0 => stage' = "archived"
  BY <1>0, AcceptedPage
<1>2. line.to.method = "active" /\ line.to.cursor = cursor
  BY <1>0, MatchedAnswered
<1>3. wire' \subseteq wire
  BY <1>1 DEF Take
<1>4. /\ Passed(line) \cap steady \subseteq line.item
      /\ line.status = "idle" => line.item \subseteq seen
      /\ line.item \cap steady # {} => line.status = "idle"
  BY <1>2 DEF ActivePages, OfPass
<1>5. line.item = {} \/ \E t \in Threads : line.item = {t}
  BY DEF WireInv, PagesSmall
<1>6. identities'["active"] = identities["active"] \cup line.item
  BY <1>1 DEF WireInv, SessionTypeOK, Passes
<1>7. /\ IsInjective(entries')
      /\ ToSet(entries') = IF line.status = "idle" /\ line.item \cap damaged = {}
                           THEN ToSet(entries) \cup line.item ELSE ToSet(entries)
  <2>1. CASE line.status = "idle" /\ line.item \cap damaged = {}
    BY <1>1, <1>5, <2>1, EntriesNext
  <2>2. CASE ~(line.status = "idle" /\ line.item \cap damaged = {})
    BY <1>1, <2>2 DEF EntriesSeen
  <2> QED
    BY <2>1, <2>2
<1>8. ToSet(entries) \subseteq ToSet(entries')
  BY <1>7
<1>9. ((Known \cup Passed(line)) \cap steady) \ damaged \subseteq ToSet(entries')
  <2>1. (Known \cap steady) \ damaged \subseteq ToSet(entries)
    BY DEF ActiveCovered
  <2>2. (Passed(line) \cap steady) \ damaged \subseteq ToSet(entries')
    <3>1. SUFFICES ASSUME NEW t \in Passed(line), t \in steady, t \notin damaged
                   PROVE  t \in ToSet(entries')
      OBVIOUS
    <3>2. t \in line.item /\ line.status = "idle" /\ line.item \cap damaged = {}
      BY <1>4, <1>5, <3>1
    <3> QED
      BY <1>7, <3>2
  <2> QED
    BY <1>8, <2>1, <2>2
<1>10. EntriesSeen'
  <2>1. ToSet(entries') \subseteq identities'["active"] \cap seen'
    BY <1>4, <1>6, <1>7 DEF EntriesSeen
  <2>2. stage' \in {"initialize", "active"} => Begun("active")'
    BY <1>1 DEF Begun
  <2> QED
    BY <1>7, <2>1, <2>2 DEF EntriesSeen
<1>11. ~Listed' /\ stage' \in Passes
  BY <1>1 DEF Listed, Passes
<1>12. Purpose'
  BY <1>11 DEF Purpose
<1>13. HistoriesKept'
  BY <1>1 DEF HistoriesKept, Begun, Eligible
<1>14. CASE line.next # 0
  <2>1. Known' \subseteq Known \cup Passed(line)
    <3>1. Known' = {Order[i] : i \in 1..line.next}
      BY <1>1 DEF Known
    <3> QED
      BY <1>2, <1>14, <3>1, KnownNext DEF WireInv
  <2>2. (Known' \cap steady') \ damaged' \subseteq ToSet(entries')
    BY <1>9, <2>1
  <2>3. ActivePages'
    BY <1>1, <1>3, <1>14 DEF ActivePages, OfPass, Passed, UpTo
  <2>4. ArchivedPages' /\ ArchivedCovered'
    BY <1>1, <1>11, <1>14 DEF ArchivedPages, ArchivedCovered
  <2>5. ActiveCovered'
    BY <1>1, <1>11, <1>14, <2>2 DEF ActiveCovered
  <2> QED
    BY <1>10, <1>12, <1>13, <2>3, <2>4, <2>5
<1>15. CASE line.next = 0
  <2>1. Threads \subseteq Known \cup Passed(line)
    BY <1>2, <1>15, KnownNext DEF WireInv
  <2>2. steady \subseteq Threads
    BY DEF WireInv, SessionTypeOK
  <2>3. steady' \ damaged' \subseteq ToSet(entries')
    BY <1>9, <2>1, <2>2
  <2>4. \A l \in wire' : ~OfPass(l, "archived")
    BY <1>1, <1>15, NoPagesNext DEF Passes
  <2>5. Known' = {}
    BY <1>1, <1>15 DEF Known
  <2>6. ActivePages' /\ ArchivedPages' /\ ArchivedCovered'
    BY <1>1, <1>11, <1>15, <2>4, <2>5 DEF ActivePages, ArchivedPages, ArchivedCovered
  <2>7. ActiveCovered'
    BY <1>1, <1>15, <2>3 DEF ActiveCovered
  <2> QED
    BY <1>10, <1>12, <1>13, <2>6, <2>7
<1> QED
  BY <1>14, <1>15

LEMMA ArchivedPageLists ==
  ASSUME WireInv, WireInv', ListInv, NEW line \in wire, line.type = "page", stage = "archived",
         Matches(line), request # Nothing, ReadPage(line), ~Fail,
         UNCHANGED <<goal, damaged, archived, status, historyVars>>
  PROVE  ListInv'
<1> USE DEF ListInv, historyVars
<1>0. Reply(line) /\ stage \in Passes /\ stage \notin Ended
  BY DEF Reply, Passes, Ended
<1>1. /\ Take(line) /\ request' = Nothing
      /\ identities' = [identities EXCEPT !["archived"] = @ \cup line.item]
      /\ entries' = entries /\ cursor' = line.next
      /\ line.next # 0 => stage' = stage
      /\ line.next = 0 => stage' \in {"read", "done", "failed"}
      /\ stage' = "done" => goal = "discover"
      /\ stage' = "read" => goal # "discover"
      /\ line.next = 0 /\ stage' # "failed"
           => identities'["active"] \cap identities'["archived"] = {}
  BY <1>0, AcceptedPage
<1>2. line.to.method = "archived" /\ line.to.cursor = cursor
  BY <1>0, MatchedAnswered
<1>3. wire' \subseteq wire
  BY <1>1 DEF Take
<1>4. Passed(line) \subseteq unarchived \cup line.item
  BY <1>2 DEF ArchivedPages, OfPass
<1>5. /\ identities'["active"] = identities["active"]
      /\ identities'["archived"] = identities["archived"] \cup line.item
  BY <1>1 DEF WireInv, SessionTypeOK, Passes
<1>6. Known \cup Passed(line) \subseteq unarchived \cup identities'["archived"]
  BY <1>4, <1>5 DEF ArchivedCovered
<1>7. EntriesSeen'
  <2>1. stage' \notin {"initialize", "active"}
    BY <1>1
  <2> QED
    BY <1>1, <1>5, <2>1 DEF EntriesSeen
<1>8. Purpose' /\ ActivePages'
  BY <1>1 DEF Purpose, ActivePages, Ended, Passes
<1>9. HistoriesKept'
  BY <1>1 DEF HistoriesKept, Begun
<1>10. ActiveCovered'
  <2>1. stage' # "active" /\ steady \ damaged \subseteq ToSet(entries)
    BY <1>1 DEF ActiveCovered
  <2> QED
    BY <1>1, <2>1 DEF ActiveCovered
<1>11. CASE line.next # 0
  <2>1. Known' \subseteq Known \cup Passed(line)
    <3>1. Known' = {Order[i] : i \in 1..line.next}
      BY <1>1 DEF Known
    <3> QED
      BY <1>2, <1>11, <3>1, KnownNext DEF WireInv
  <2>2. ArchivedPages'
    BY <1>1, <1>3, <1>11 DEF ArchivedPages, OfPass, Passed, UpTo
  <2>3. ~Listed'
    BY <1>1, <1>11 DEF Listed
  <2>4. ArchivedCovered'
    BY <1>6, <2>1, <2>3 DEF ArchivedCovered
  <2> QED
    BY <1>7, <1>8, <1>9, <1>10, <2>2, <2>4
<1>12. CASE line.next = 0
  <2>1. ArchivedPages' /\ stage' # "archived"
    BY <1>1, <1>12 DEF ArchivedPages
  <2>2. Listed' => ToSet(entries') \subseteq unarchived'
    <3>1. SUFFICES ASSUME Listed' PROVE ToSet(entries) \subseteq unarchived
      BY <1>1
    <3>2. identities'["active"] \cap identities'["archived"] = {}
      BY <1>1, <1>12, <3>1 DEF Listed
    <3>3. Threads \subseteq unarchived \cup identities'["archived"]
      BY <1>2, <1>6, <1>12, KnownNext DEF WireInv
    <3>4. ToSet(entries) \subseteq identities'["active"] /\ identities'["active"] \subseteq Threads
      BY <1>5 DEF EntriesSeen, WireInv, SessionTypeOK, Passes
    <3> QED
      BY <3>2, <3>3, <3>4
  <2>3. ArchivedCovered'
    BY <2>1, <2>2 DEF ArchivedCovered
  <2> QED
    BY <1>7, <1>8, <1>9, <1>10, <2>1, <2>3
<1> QED
  BY <1>11, <1>12

LEMMA ReadLists ==
  ASSUME WireInv, WireInv', ListInv, NEW line \in wire, Read(line)
  PROVE  ListInv'
<1>1. /\ stage \notin Ended /\ (request # Nothing \/ stage = "wait")
      /\ UNCHANGED <<goal, damaged, archived, status, historyVars>>
  BY DEF Read
<1>2. CASE Fail
  BY <1>1, <1>2, FailLists
<1>3. CASE ~Fail /\ ReadStatus(line)
  <2>1. Take(line) /\ UNCHANGED <<stage, request, Listing>>
    BY <1>3 DEF ReadStatus
  <2> QED
    BY <1>1, <2>1, TakeLists
<1>4. CASE ~Fail /\ stage # "wait" /\ ReadReply(line)
  <2>1. Matches(line) /\ request # Nothing
    BY <1>1, <1>4 DEF ReadReply
  <2>2. CASE stage \in Passes /\ line.type = "page"
    <3>1. ReadPage(line)
      BY <1>4, <2>1, <2>2 DEF ReadReply
    <3> QED
      BY <1>1, <1>4, <2>1, <2>2, <3>1, ActivePageLists, ArchivedPageLists DEF Passes
  <2>3. CASE ~(stage \in Passes /\ line.type = "page")
    <3>1. /\ Take(line) /\ stage' = After(stage) /\ request' = Nothing
          /\ UNCHANGED Listing
          /\ stage \in {"initialize", "start", "read", "resume", "reread"}
      BY <1>4, <2>1, <2>3 DEF ReadReply
    <3>2. /\ stage = "initialize" => stage' = "active"
          /\ stage = "read" => stage' = "resume"
          /\ stage = "resume" => stage' = "reread"
          /\ stage = "reread" => stage' = "start"
          /\ stage = "start" => stage' = "wait"
      BY <3>1 DEF After
    <3>3. \/ stage = "initialize" /\ stage' = "active"
          \/ /\ stage \notin {"initialize"} \cup Passes
             /\ stage' \notin {"initialize", "read", "done"} \cup Passes
      BY <3>1, <3>2 DEF Passes
    <3> QED
      BY <1>1, <3>1, <3>3, TakeLists
  <2> QED
    BY <2>2, <2>3
<1>5. CASE ~Fail /\ stage = "wait" /\ ReadTurn(line)
  <2>1. /\ Take(line) /\ stage' \in {"wait", "done"} /\ request' = request
        /\ UNCHANGED Listing
    BY <1>5 DEF ReadTurn
  <2>2. goal = "deliver"
    BY <1>5 DEF ListInv, Purpose, WireInv, SessionTypeOK, Passes, Ended
  <2>3. stage \notin {"initialize"} \cup Passes
        /\ stage' \notin {"initialize", "read"} \cup Passes
    BY <1>5, <2>1 DEF Passes
  <2> QED
    BY <1>1, <2>1, <2>2, <2>3, TakeLists
<1> QED
  BY <1>2, <1>3, <1>4, <1>5 DEF Read

LEMMA InitLists == Init => ListInv
<1> SUFFICES ASSUME Init PROVE ListInv
  OBVIOUS
<1>1. stage = "initialize" /\ entries = <<>> /\ ~Listed
  BY DEF Init, Listed
<1>2. Purpose /\ HistoriesKept /\ ActivePages /\ ArchivedPages
  BY <1>1 DEF Purpose, HistoriesKept, Begun, ActivePages, ArchivedPages
<1>3. EntriesSeen
  BY <1>1 DEF EntriesSeen, IsInjective, ToSet
<1>4. ActiveCovered /\ ArchivedCovered
  BY <1>1 DEF ActiveCovered, ArchivedCovered
<1> QED
  BY <1>2, <1>3, <1>4 DEF ListInv

LEMMA NextLists ==
  ASSUME WireInv, WireInv', ListInv, [Next]_sessionVars
  PROVE  ListInv'
<1>1. SessionTypeOK /\ HistoriesKept
  BY DEF WireInv, ListInv
<1>2. CASE UNCHANGED sessionVars
  <2>1. UNCHANGED <<clientVars, historyVars, goal, damaged, archived, status, wire>>
    BY <1>2 DEF sessionVars
  <2>2. HistoriesKept'
    BY <1>1, <2>1 DEF clientVars, historyVars, HistoriesKept, Begun, Eligible
  <2> QED
    BY <2>1, <2>2, ServerLists DEF historyVars
<1>3. CASE Send
  BY <1>3, SendLists
<1>4. CASE Abandon
  BY <1>4, FailLists DEF Abandon
<1>5. CASE Over
  BY <1>2, <1>5 DEF Over
<1>6. CASE \E line \in wire : Read(line)
  BY <1>6, ReadLists
<1>7. ASSUME NEW t \in Threads, Shelve(t)
      PROVE  ListInv'
  BY <1>1, <1>7, WatchKeeps, ServerLists DEF Shelve
<1>8. ASSUME NEW t \in Threads, NEW value \in ThreadStatuses, Work(t, value)
      PROVE  ListInv'
  <2>1. \A l \in wire' : l \in wire \/ l \in {Notice(t, value), TurnLine("started", t, "theirs"),
                                              TurnLine("completed", t, "theirs")}
    BY <1>8 DEF Work, Emit
  <2>2. \A l \in wire' : l \in wire \/ l.type # "page"
    BY <2>1 DEF Notice, TurnLine
  <2>3. Watch /\ UNCHANGED clientVars /\ UNCHANGED <<goal, damaged>>
    BY <1>8 DEF Work
  <2> QED
    BY <1>1, <2>2, <2>3, WatchKeeps, ServerLists
<1>9. ASSUME NEW outcome \in {"completed", "failed"}, FinishTurn(outcome)
      PROVE  ListInv'
  <2>1. \A l \in wire' : l \in wire \/ l \in {Notice(Target, "idle"),
                                              TurnLine(outcome, Target, "ours")}
    BY <1>9 DEF FinishTurn, Emit
  <2>2. \A l \in wire' : l \in wire \/ l.type # "page"
    BY <2>1 DEF Notice, TurnLine
  <2>3. Watch /\ UNCHANGED clientVars /\ UNCHANGED <<goal, damaged>>
    BY <1>9 DEF FinishTurn
  <2> QED
    BY <1>1, <2>2, <2>3, WatchKeeps, ServerLists
<1>10. ASSUME NEW t \in Threads, Announce(t)
       PROVE  ListInv'
  <2>1. \A l \in wire' : l \in wire \/ l = Notice(t, status[t])
    BY <1>10 DEF Announce, Emit
  <2>2. \A l \in wire' : l \in wire \/ l.type # "page"
    BY <2>1 DEF Notice
  <2>3. UNCHANGED clientVars /\ UNCHANGED historyVars /\ UNCHANGED <<goal, damaged, archived, status>>
    BY <1>10 DEF Announce
  <2>4. HistoriesKept'
    BY <1>1, <2>3 DEF clientVars, historyVars, HistoriesKept, Begun, Eligible
  <2> QED
    BY <2>2, <2>3, <2>4, ServerLists DEF historyVars
<1>11. CASE stage \notin Ended /\ \E line : Answer(line)
  BY <1>11, AnswerLists
<1> QED
  BY <1>2, <1>3, <1>4, <1>5, <1>6, <1>7, <1>8, <1>9, <1>10, <1>11 DEF Next

\* The listing is read page by page while it changes, and yet: no thread is
\* offered twice, each one was eligible while the active pass was read and
\* unarchived while the archived one was, and none is missing that was eligible
\* all along and whose entry is in order.
THEOREM ListingsFaithful == Spec => []ListingFaithful
<1>1. WireInv /\ WireInv' /\ ListInv /\ [Next]_sessionVars => ListInv'
  BY NextLists
<1>2. Spec => []ListInv
  BY <1>1, InitLists, WireInductive, PTL DEF Spec
<1>3. ListInv => ListingFaithful
  BY DEF ListInv, EntriesSeen, ActiveCovered, ArchivedCovered, ListingFaithful
<1> QED
  BY <1>2, <1>3, PTL

=============================================================================
