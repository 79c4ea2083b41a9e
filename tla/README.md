# 42 Ultracode in TLA+

A verification project for the `ultracode` package. It models the parts of the
program whose correctness depends on *order*: transactions of competing
processes on one database, leases that run out, retried calls, a delivery that
must happen at most once although processes and machines die, files that are
published while others read and move them, a conversation with a server whose
lines come in any order, processes that resist being taken down. Line numbers below refer to
`src/ultracode/`.

## 1. The system

`ultracode` runs a loop between a *planner*, which submits instructions, and
*workers*, which execute them with the Codex CLI. A *controller* keeps the state
of every run in SQLite. Beside the loop stand a *supervised delivery*, by which
an operator hands one message to a Codex task, and a *feature loop* that
publishes responses into a prompt repository.

| component | source | state | operations |
|---|---|---|---|
| run protocol | `protocol.py` | none (pure) | states, events, `apply_event`, `replay_events` |
| durable controller | `controller.py` | tables `runs`, `events`, `leases`, `operations`, `artifacts` | `create_run`, `submit_instruction`, `claim_turn`, `submit_result`, `report_progress`, `report_blocker`, `request_human`, `pause_run`, `resume_run`, `stop_run`, `fail_run`, `complete_run`, `recover_expired_leases`, `add_artifact` |
| MCP server | `mcp/server.py` | none of its own | one process per role; each tool is one controller call |
| worker command | `cli.py`, `executor.py` | the claim and the result in one process | claim, execute, submit, or report a blocker |
| supervised delivery | `supervised_delivery.py` | capability, journal file, file lock | confirm, consume, open, admit, attempt, record |
| app-server session | `supervised_delivery.py` (`_JsonlSession`) | the request it waits for, cursors and identities of a listing, whether the turn was requested | initialize, list, read, resume, read again, start a turn and wait for it |
| app-server process | `supervised_delivery.py` (`_CodexProcess`, `_StderrScanner`, `_open_initialized_discovery`) | child, process group, stderr thread, deadlines, attempts | launch, terminate, kill, reap, classify, launch again |
| supervised pilot | `route_discovery.py` | locator, route registry, report | discover, select, publish a route, deliver, report |
| publication | `feature_loop.py` | five files, their partial files, Git | `prepare_response`, `prepare`, `publish` |
| prompt authorisation, mock handoff, dogfood | `feature_loop.py`, `supervised_handoff.py`, `dogfood.py` | none | parsing, verification, a fixed scenario |

How they interact:

- Planner, worker and control processes (MCP servers, the CLI) share nothing but
  the SQLite file. Every mutating method is one `BEGIN IMMEDIATE` transaction
  (`controller.py:197-208`), so calls interleave whole.
- `worker-once` makes two controller calls with an execution of up to 15 minutes
  between them, in which anything else may happen to the run.
- Deliveries share a journal file, each under an exclusive `flock`; the kernel
  drops the lock of a process that dies.
- A session talks to one app-server process over pipes; the threads it lists are
  also used by others, through the same server. A discovery launches up to five
  such processes, one after the other; a delivery launches one.
- Pilots share only a locator, whose basename is one of three (`route_discovery.py:42-46`);
  pilots with different basenames share nothing. Each has a journal of its own and calls
  the delivery code.
- The publication coordinator shares its working tree with Git and with readers.

What makes each part hard, and what makes it correct:

| part | hard behaviour | correctness |
|---|---|---|
| controller | expiry racing a late answer, retries under a key, errors after partial work, pauses of a running turn | a lease exactly while a turn runs, only the newest claim answers, a keyed effect happens once, cached row = replayed stream, a run is completed on evidence only |
| worker command | its keys repeat, its lease is shorter than its work | success means a recorded result; a failure reaches a human |
| delivery | death or power loss between any two steps, two processes at once | at most one turn per message, recorded before it is sent, no told outcome taken back |
| session | lines in any order, repeated replies, a listing that changes while it is read, floods of notifications | a faithful listing, a turn requested on a fresh reading, success only for its own turn, an end |
| process | exits between probe and signal, forked helpers, processes that resist SIGKILL, late answers | nothing left before the next attempt, no attempt after an answer, one budget for all |
| publication | a kill between any two files, competing results, a moving frontier | what a document points to is there, one result per sequence, nothing is published from a stale request |
| pilot | several invocations, interrupts, a failure in every step | one attempt over all invocations with one locator basename, a report that agrees with the journal |

The hazards, with the line where each bites and the property that watches it,
are the `hazards` of `PROJECT.json`.

## 2. Modules

| module | models | composed of |
|---|---|---|
| `Protocol` | `protocol.py`: states, events, legality, replay | constant level |
| `Controller` | `controller.py` under calls of all roles, with the clock | extends `Protocol` |
| `TurnLoop` | what the controller promises: one bounded turn at a time, owned by at most one claim | abstract |
| `WorkerOnce` | the worker command next to all other callers | extends `Controller` |
| `Delivery` | processes, journal, disk and lock of supervised delivery | |
| `DeliverOnce` | what the journal promises: a message is handed over at most once, its verdict is final | abstract |
| `Pilot` | invocations of the supervised pilot | its deliveries take the steps of `DeliverOnce` |
| `Publication` | the publication coordinator and Git around it | |
| `Session` | one `_JsonlSession`, the app-server it talks to and that server's other users | a delivery's session is the steps `Prepared`, `TurnStart` and `TurnCompletes` of `Delivery` |
| `Discovery` | the attempts of a discovery and the cleanup of each one's processes | its end is the step `Discover` of `Pilot`, its cleanup the step `CleanUp` of `Delivery` |
| `ControllerProofs`, `HistoryProofs` | theorems about the controller: its tables, its streams and the refinement of `TurnLoop` | the second extends the first, and it `Controller` |
| `WorkerOnceProofs` | theorems about the worker command | extends `WorkerOnce` and `HistoryProofs` |
| `DeliveryProofs`, `SessionProofs`, `DiscoveryProofs`, `PublicationProofs`, `PilotProofs` | theorems | each extends the module it is named for |
| `MC*` | instances for TLC: symmetry sets and sequences only | |

### Protocol and Controller

`snap[r]` is what `_snapshot` returns, extended event by event; `events[r]` the
stream; `row[r]` the cached columns of `runs`; `lease[r]` and `ops` the two
tables. `ReplayAgrees` checks that `snap` is the fold of the stored stream. A
method is one action. Its guard collects every check that would raise, in
particular `Legal`, the refusal of the replay inside `_append_and_sync`: a
transaction that raises is rolled back, so it changes nothing and needs no
action. `REVIEW_STARTED` is appended in the same transaction as the event after
it, so `ReviewAndAppend` appends both or none.

- An idempotency key that is stored either repeats the old answer or raises;
  both change nothing, so `Callable` asks for a key without a row. A call
  without a key (`NoKey`) gets a fresh one in the code and stores a row nobody
  can look up again; the model keeps no row for it.
- A lease token is the number of its claim (`uuid4` in the code; only its being
  fresh matters). The request hash is taken after redaction, which removes the
  token; `Request` leaves it out too.
- A lease keeps its time to live instead of a time stamp; `Tick` lowers all of
  them. `ttl = 0` is the code's `expires_at <= now`.
- `issued` and `answers` are history variables, read by properties only (and by
  the numbering of claims).
- Workers may present *any* token issued so far, also of another run or worker.
- `fail_run` and `recover_expired_leases` are methods of the controller that no
  role of the MCP server reaches; they are actions all the same.
- At the iteration limit the code stores the failure event under a derived key
  (`:limit`), and review starts under `:review`; the model gives an event the
  key of its call.

### WorkerOnce

Several invocations with one worker id and the default keys of the command line.
`job[v]` holds where an invocation stands, its claim and its result. `ClaimStored`
is the case the defaults lead to: `claim_turn` finds its key and returns the old
claim without a look at the run. `Die` kills the command anywhere.

### Delivery and DeliverOnce

A step of a process is what happens between two points where another process,
a kill or a power loss matters: opening the file, locking and reading it, each
write, each synchronisation, the `turn/start` line. `durable` counts the records
that a power loss cannot take; `torn` says that a partial line follows them
(every reader refuses such a file); `linked` says whether the directory entry of
a new file is durable. A power loss keeps the synchronised records of a file whose
name is durable and any part of the rest; a file whose name is not may vanish with
all it held. A message is a pair of payload and target alias, which is
what `terminal_for` compares. The hash chain is left out, since a damaged file is
torn. A failed `fsync` leaves `durable` where it was. A capability is spent
before its expiry and its preview are looked at. An interrupt is a `Crash`:
`_perform` has no handler for it. The path with injected streams, which only
tests use, is left out.

The promise holds per journal path; a message delivered through another journal
is another message. A first delivery that fails between the creation of the
journal and its first record leaves an empty file, which the code refuses from
then on (documented as fail-closed); in the model it is refused by `Admit`.

`Delivery` implements `DeliverOnce` with the synchronised part of the journal as
the verdict of each message.

### Session

`stage` is the request the client is at, `request` the line it wrote and has not
had answered. `goal` tells a delivery (`prepare`, `start_and_wait`) from a
discovery (`initialize`, `list_threads`).

- What the server wrote and the client has not read is a *set*, `wire`: the next
  line read is any of it. The code relies on no order, so none is assumed between
  a reply and the notifications of another thread; a line may also come twice
  (`MaxRepeats`).
- The server answers at any moment after the request, from the state it then has.
  Other users archive threads, bring them back and run turns (`Shelve`, `Work`),
  also on the target, until the session's own turn runs.
- A page holds at most one thread. The server may repeat a thread it has listed,
  return a cursor it has returned, or an empty page with a cursor; it does not
  skip a thread that stays in place.
- `notLoaded` is read as `idle` everywhere in the code; the model has `idle` only.
  `damaged` are the threads whose entry `_thread_entry` refuses.
- A line of the wrong shape, a server request, an unknown method, an error reply,
  a dead child and a deadline all raise: `Abandon`. Raising drops the session.
- `steady`, `seen`, `unarchived` and `rested` are history variables.

### Discovery

`alive` holds the living members of the child's group: the child (`leader`) and
whatever it forked (`helper`). `reaped` says that the child was waited for; a dead
child that was not still makes the group exist, as `killpg` sees it. `verified`
says that the group is known to be the child's own; otherwise only the child is
signalled, as in the code, and an issue is recorded.

- Time is discrete and passes in waits only, each of which ends when its end has
  come; the sleep between attempts may last longer. `Tick` is the clock.
- Any process may exit, fork or write something to stderr that is rejected at any
  moment (`ProcessStep`); a signal ends any subset of the group, none included, so
  a process that survives `SIGKILL` is among the behaviours.
- Of the cleanup issues only whether there is one matters; `provisional` are those
  the code forgets once the group is seen gone.
- Launching takes no time, so the check of the spawn deadline is not in the model.
- `Overdue` is the end of a wait for the server, which is never moved past `Latest`.
  Only then does the client give up of itself (`Expire`): a write that finds no room, a
  read that finds no line, or a caller's block whose next read raises.

### Publication

Files hold the request they were written for, the frontier, or something Git
brought in (`Moved`). `prepare` and `publish` compare both control documents with the
frontier before they write (`RequireExpected`); `prepare_response` does not, so it
writes a response and its checksum on a moved frontier too. Each file is looked at, written as a partial file, and
renamed, in three steps. Assumed: one coordinator per working tree (the partial
file detects leftovers and is no lock), and Git moving only the two control
documents, file by file. A leftover partial file makes later calls refuse, as in
the code.

### Pilot

Each invocation has a locator basename and goes through the phases of
`run_supervised_pilot`. How an exception travels is kept:

- The body of the `with` statement that holds the terminal is left with the outcome
  assigned (`Leaves`: its end, `_PilotTerminal`, `FileExistsError`, an interrupt) or by
  an error whose handler assigns it (`Raises`). Then the terminal is closed
  (`CloseTty`); an `OSError` there reaches the same handler, which replaces the
  outcome, `UNCERTAIN` and `DELIVERED` included, by a tooling failure.
- `Finally` is the finally clause: the guard reads the route of an invocation that has
  published one, and the report is written, or given up.
- An interrupt goes to the closing of the terminal, or straight to the finally clause,
  with the outcome as it stands. A kill runs nothing. Either way, what the invocation
  knew is gone (`Gone`).

The delivery inside takes the steps of
`DeliverOnce`: `UsesDeliverOnce` checks that, and `ImplementsDeliverOnce` checks
that the real delivery does the same. `RouteMoves` is somebody else changing the
private files while the invocation runs; a change stays.

## 3. Runs

| run | instance | shows |
|---|---|---|
| `mc_controller` | 1 run, 2 workers, 3 instructions, 2 results (one without evidence), 1 key, limit 1 or 2, 3 claims, 1 pause, 1 progress report | all controller properties and the refinement of `TurnLoop` |
| `mc_two_runs` | 2 runs, 1 worker, 1 instruction, 3 claims, leases of 1 or 2 ticks, 1 key | calls on one run never disturb the other, keyed effects happen once, every claim ends |
| `mc_worker_once` | 2 invocations, 2 workers, 3 claims, 1 pause | success is recorded, escalation holds |
| `mc_delivery` | 2 processes, 2 messages, 2 confirmations each, 2 crashes | all delivery properties and the refinement of `DeliverOnce` |
| `mc_publication` | 2 competing requests, unbounded retries and kills | all publication properties; deadlock is checked |
| `mc_pilot` | 3 invocations, 2 locator basenames | all pilot properties |
| `mc_session` | 2 threads, 1 notification, 2 cursors per pass, 2 changes by others, 1 repeated line | all session properties; deadlock is checked |
| `mc_discovery` | 3 attempts, budget 12, cleanup 3 with a tail of 1, response 2, backoff 1 and 2 | all discovery properties; deadlock is checked |
| `stale_claim`, `lost_blocker`, `frontier_race`, `interrupted_pilot` | smallest that shows it | section 6 |

Why the bounds are enough: the smallest counterexample to each controller
property needs two claims of one turn (two workers, one expiry) or two turns
(two instructions); a third claim and a third instruction leave room for a stale
one on top. One key is enough for reuse in another method, since every method
may use it; a second run adds reuse across scopes. In `Delivery` two processes
give every race for the lock, a second message a record of another message
between two of one, and two crashes a crash of the recovery from a crash. Two
pilots with one basename race, and a third comes after a crash or has the other basename;
the third basename of the code would behave as the second. In `Session` two threads, one to a
page, give a pass of two pages and a thread that moves between the passes; two
changes give one that moves and comes back, or a turn that begins and ends;
`MaxNotifications` is 256 in the code, and what matters is that it is reached. In
`Discovery` the budget of 12 holds two attempts that use all their time, not
three. `MaxClaims`, `MaxProgress`, `MaxPauses`, `MaxConfirms`, `MaxCrashes`,
`MaxChanges`, `MaxRepeats` and `MaxUnread` are the only bounds that the code does
not have.

Each property was confirmed to fail when a plausible bug is put into the code it
watches (`mutants` in `PROJECT.json`; the mutated definitions stand before the
originals, marked as such).

Deadlock is checked for `Publication`, `Session` and `Discovery`. Elsewhere the
system may stop: a run is terminal, an invocation has ended, or a bound is reached.

**Fairness.** Three properties need it.

- `ClaimsEnd`: the clock advances (`Tick`) and workers keep polling each run
  (`PollForTurn`): nothing in the program sweeps leases, `recover_expired_leases`
  has no caller outside the tests, and an expired claim is taken back by the next
  `claim_turn`. No fairness is assumed for the worker that holds the claim; it may
  have crashed. When the last claim the bound allows has been given out nobody can
  poll any more, so the property asks for nothing then.
- `SessionEnds`: the client goes on (`Send`, `Read`), and a read that finds nothing
  times out (`_Deadline.timeout` bounds every `select`). That a deadline ends a read
  which keeps finding lines is *not* assumed; the budget of notifications does.
  Nothing is assumed of the server.
- `DiscoveryEnds`: the clock advances while the code waits (`Tick`), and the client
  takes the steps that need nothing of the server (`OwnStep`): it launches, gives up
  what is overdue, goes through the cleanup, whose waits are bounded, and starts the
  next attempt. Nothing is assumed of the server or its processes: that it answers, that
  its answer is accepted or refused, that a pipe breaks, a process exits or the caller's
  block ends before its deadline is left to chance. A server that stays silent is given
  up by the deadline alone; without it (`OverdueNever`) the property fails.

## 4. Proofs

TLC checks the instances above; TLAPS checks the following for every value of the
constants, from the named assumptions on them only. Every safety property of the
passing runs, invariant, action property or refinement, is stated by one of these
theorems.

Each proof has the same shape: an inductive invariant, a lemma per action (or per
kind of step) that it is kept, and the theorem from it. What follows says why each
invariant is needed.

**Controller** (`ControllerProofs`)

| theorem | states |
|---|---|
| `TypeCorrect` | `Spec => []TypeOK` |
| `ExclusiveTurns` | `Spec => []LeaseMatchesTurn` |
| `ReviewNeverRests` | `Spec => []NoRestingReview` |
| `LiveLeases` | `Spec => LiveLeaseNotStolen` |

The inductive invariant is `IInv == TypeOK /\ LeaseMatchesTurn /\
NoRestingReview`. None of the three is inductive without the others:
`LeaseMatchesTurn` needs that a pause never preserves a running turn, so that a
resumed run does not enter `CODEX_RUNNING` without a lease, which is part of
`NoRestingReview`; `NoRestingReview` needs the types of the states. The lemmas
follow the helpers of the model: what an appended event, a review prefix and a
deleted lease preserve, for one run, from which each action follows in a step of
its own.

**What the streams say** (`HistoryProofs`)

| theorem | states |
|---|---|
| `ReplayNeverDrifts` | `Spec => []ReplayAgrees` |
| `OneResult` | `Spec => []OneResultPerInstruction` |
| `CompletionRestsOnEvidence` | `Spec => []CompletionIsEvidenced` |
| `HistoryNeverRewritten` | `Spec => HistoryIsFinal` |
| `AnswersFenced` | `Spec => AnswersAreFenced` |
| `EffectsOnce` | `Spec => []KeyedEffectOnce` |
| `ControllerImplementsLoop` | `Spec => ImplementsTurnLoop` |

- *Replay.* `Replay` is a recursive function, so that it is open to proof. That the
  function it defines exists, and that appending an event to a stream applies that
  event to its replay, is a fact about streams of any length. The library's
  induction theorems cannot be used; the proofs look at the smallest length at which
  the claim would fail (`SmallestNumber`, from the well-founded order of the
  numbers) and find that it does not fail there.
- *Steps.* A call leaves a run alone, or appends one accepted event to its stream, or
  two (`REVIEW_STARTED` or `RUN_CREATED`, and the one after it).
  `LogSteps` says so once, and the invariants of the stream are kept event by event
  (the `...Grows` lemmas), however many calls there are.
- `HistoryInv` says of each stream and its snapshot: it is the replay of the stream;
  as many instructions were submitted, under different ids, as the iteration counts,
  within the limit; a run whose turn can still be answered has no result after its last
  instruction (this is what makes a second result impossible, and it has to hold
  through pauses); and the recorded result and instruction are the last ones.
- `FenceInv` ties leases to the stream: the claimant of a lease is the one the last
  `TURN_CLAIMED` names and nothing but progress follows it, and a token that has
  answered is no lease's token.
- `KeyInv` ties the stored operations to the events: a key has a row in a run's scope
  exactly when one call of the run appended events under it.
- *Refinement.* `TurnLoop` sees phases, the newest lease and the number of turns.
  One lemma for each abstract action says which commits of the controller are that
  action, one for each role says which of them its calls are.

**Worker command** (`WorkerOnceProofs`)

| theorem | states |
|---|---|
| `CommandImplementsController` | `CommandSpec => Spec` |
| `SuccessRecorded` | `CommandSpec => []SuccessIsRecorded` |
| `EscalationStays` | `CommandSpec => []EscalationHolds` |

The first makes all of the above hold while the command runs. `JobInv` says what a row
under each of the command's keys stands for: the claim key for an issued claim of the
run, the result key for a recorded result of what that claim was handed, the blocker
key for a run that waits for a human; and that all invocations on a run hold that one
claim. Assumed of the keys: they are different, as the defaults are.

**Delivery** (`DeliveryProofs`)

| theorem | states |
|---|---|
| `TypeCorrect` | `Spec => []TypeOK` |
| `OneTurn` | `Spec => []AtMostOneTurn` |
| `SendsAreRecorded` | `Spec => []SentIsRecorded` |
| `VerdictsStand` | `Spec => []ReportsStand` |
| `NoFreeAttempt` | `Spec => []AttemptsAreConfirmed` |
| `JournalKeepsPromise` | `Spec => ImplementsDeliverOnce` |

`IInv` says what each process knows at each step. A process
past admission holds the lock; one that is about to send has its
`ATTEMPT_STARTED` in the synchronised journal as the last record of its message
and the message unsent; a record that starts an attempt is never followed by one
that says nothing was written; and the name of the file is durable before anything is
written to it (`LinkedFirst`), which is where the refusal of an empty file that
another process created is needed. That a power loss keeps the synchronised part is
what carries these facts over a restart.

`VInv` adds the verdicts: one is the last record of its message and comes after a
start of it, `DELIVERED` is recorded of a message that was sent, what a caller was
told is synchronised, and there is none of the message a process past admission is
about, until it records one.
The refinement needs both: the abstract stage of a message is read off the
synchronised journal, so a synchronisation may be a step of the abstract
specification and every other step must leave all stages alone, a power loss
included. `CInv` counts: attempts recorded and confirmations still to be spent are
together at most the confirmations given.

**Session** (`SessionProofs`)

| theorem | states |
|---|---|
| `TypeCorrect` | `Spec => []SessionTypeOK` |
| `OwnTurn` | `Spec => []CompletedIsOurs` |
| `IdleFirst` | `Spec => []EligibleBeforeTurn` |
| `ListingsFaithful` | `Spec => []ListingFaithful` |

None is inductive: a completion is read long after the turn ended, the turn is asked
for on a status the server wrote before, a page is read when the threads it names have
moved. The invariants therefore speak of the lines not yet read. `SessionInv`: one that
says the session's turn has completed (`CompletionsTrue`), or that the last reading
found the target idle (`RereadsTrue`), was true when it was written and stays true.
`WireInv`: a reply under way answers the present request or an earlier one, and while
the server still owes the present answer nothing under way is taken for it; two requests
are never equal, since the cursor of a request is new and the methods come in one
order. That is what makes a page count once. `ListInv`: a page under way says the truth
of the threads it passes over, up to its own cursor; the client's entries, together with
what it has passed, cover every thread that was eligible all along. Assumed: the
listing is a sequence without repetition, and the page bound is not zero (1024 in
`supervised_delivery.py:55`).

**Discovery** (`DiscoveryProofs`), from an assumption on the budgets only (a tail shorter
than the cleanup, a cleanup shorter than the whole, any number of attempts and any backoff):

| theorem | states |
|---|---|
| `TypeCorrect` | `Spec => []DiscoveryTypeOK` |
| `NothingLeftBehind` | `Spec => []GoneBeforeNext` |
| `InTime` | `Spec => []WithinBudget` |
| `OneAnswer` | `Spec => AnsweredIsFinal` |

The inductive invariant has three parts beside the types: `Timely` (work stops
where the rest of the budget is needed for cleanup, and every wait of the cleanup
ends with it), `Supervised` (each stage of the cleanup has found the processes gone
or has recorded an issue) and `AnswerKept`. `GoneBeforeNext` then follows because an
issue forbids both another attempt and a return.

**Publication** (`PublicationProofs`)

| theorem | states |
|---|---|
| `TypeCorrect` | `Spec => []PubTypeOK` |
| `ArtifactsFirst` | `Spec => []StateNamesArtifacts` |
| `OneResult` | `Spec => []OneResultPublished` |
| `StaleIsHarmless` | `Spec => StaleCallsPublishNothing` |

What a document points to is right because of the order of the files, also those an
earlier, killed call has written; so `PubInv` says that every file before the one the
call is at holds its result or was moved by Git (`Placed`), that an artifact is never
replaced (`NothingReplaced`), and that there is one response that anyone was told of
(`OneResponse`). A `prepare` or `publish` that began on a moved frontier
gets no further than the comparison (`Halted`); the theorem says of `prepare_response`,
which has no comparison, that it writes its two files and reports no publication.

**Pilot** (`PilotProofs`)

| theorem | states |
|---|---|
| `TypeCorrect` | `Spec => []PilotTypeOK` |
| `OneAttempt` | `Spec => []OneDelivery` |
| `HonestReports` | `Spec => []ReportsAreTrue` |
| `RouteStays` | `Spec => []LocatorNamesRoute` |
| `KeepsThePromise` | `Spec => UsesDeliverOnce` |

All of it follows from who holds the locator of a basename: an invocation gets past its
publication only with the locator its own, and nobody takes it over, so the journals of
all others with that basename stay empty (`Owning`). What a report says is decided
some steps before it is written, so the invariant relates outcome, verdict and journal
at each stage, those an interrupt leaves included (`Concluding`). With `JournalKeepsPromise` this closes the chain: the
pilot uses its delivery only as `DeliverOnce` allows, and the real delivery does
nothing else.

**What stays with TLC.** `ClaimsEnd`, `SessionEnds` and `DiscoveryEnds` are liveness
under fairness, which the prover does not reach. That the four disagreements of section
6 are real is shown by runs, and there is nothing to prove. `LegalFrom` and the other
tables of `Protocol` are definitions; the theorems use them, nothing is proved of them on
their own.

## 5. Not modelled

- The schema of single lines (`_thread_entry`, `_turn`, `_exact_target`): that a
  line is refused is a way to fail, what it must hold is not stated.
- The identity and hash checks of the executable and its environment: they may
  refuse. Processes that leave the child's group, and a group number that is used
  again, which the code does not follow either.
- Parsing, validation, redaction and rendering; manifests, policies and Git
  verification in `feature_loop.py`; they keep no state.
- `add_artifact`, which inserts a row that no other method reads.
- `supervised_handoff.py` (pure functions over sealed values, called from nowhere
  else), `dogfood.py` (a fixed sequence of modelled calls), the schema script.
- `claim_after_guards` (`feature_loop.py:1099`): the guard compares the frontier with
  a commit that its caller names, so a claim made from old documents is always
  possible; that a result of one is not published is `StaleCallsPublishNothing`.
- Two coordinators in one working tree. The code has no lock against it: the
  exclusive creation of a partial file detects a leftover, and the handler of the
  coordinator that loses it removes the partial file of the one that won
  (`feature_loop.py:1354`). A third call may then create a partial file that the
  first renames before it is written, so a kill can leave a part of a document under
  its final name. Nothing in the repository claims that coordinators may run side by
  side, so there is no property to check.

## 6. Where the code disagrees with what it says

- `stale_claim`: with its default keys the second `worker-once` on a run executes
  the stored claim of the first, an instruction that has been answered.
- `lost_blocker`: a timeout of the executor comes after its lease has expired, so
  the promised escalation raises `LeaseError` and is lost: the run still waits in
  `CODEX_RUNNING` under that very lease, not escalated by anybody. (A report refused
  because the run has been escalated, paused or ended by then is no disagreement, and
  `FailuresEscalate` does not count it.)
- `frontier_race`: a control document that Git moves between the comparison and
  the rename is replaced.
- `interrupted_pilot`: an interrupt during the delivery leaves a report with
  status `TOOLING_FAILURE_BEFORE_LIST`. A second pilot that loses the race for
  the locator reports the same after it has shown its list. An `OSError` in closing the
  terminal likewise replaces a verdict by a tooling failure, but by the one after the
  list, which claims nothing of the delivery; `ReportsAreTrue` therefore claims no
  converse.

Two sentences that are true of the model only when read narrowly, noted here and not
counted as disagreements:

- `docs/security/d8-supervised-delivery-contract.md:89` says that no retry is possible
  after an initialize response is observed. What the code calls observed
  (`supervised_delivery.py:1110`) comes after the health check that follows the read
  of the line (1074): a child that answers and exits with a failure at once has its
  line read and is launched again.
- `docs/security/d8-sequence26-adjudication.md:5` says that status changes before the
  sole turn request is written fail closed, and that after the request an exact
  target-bound `active` is accepted. Written and read refer to the client: a status
  `active` that the server wrote before the request, for a turn of another user, and
  the client reads after it is accepted too (`supervised_delivery.py:1180`). The
  session does not conclude anything from it; `CompletedIsOurs` holds all the same.

## 7. Plan

Done, in this order: `Protocol`, `Controller` with `TurnLoop`, the proofs of the
controller's type and lease invariants, `WorkerOnce`, `Delivery` with
`DeliverOnce` and its proofs, `Publication`, `Pilot`, `Session` and `Discovery` with
their proofs.

What is left of the model is small: a second coordinator in `Publication` once the
code has something to say about it, and `add_artifact` in `Controller` if a method
ever reads its table.

Proved since: all safety properties of the passing runs and the three refinements
(section 4).

What could still be proved: lemmas that say more of the components than a run asks,
first that `Discovery` does for `Pilot` what its step `Discover` says, and that a
`Session` behaves to `Delivery` as the steps `Prepared`, `TurnStart` and
`TurnCompletes` do. Both need a joint module that relates two state spaces, for which
the invariants of section 4 are the ground.
