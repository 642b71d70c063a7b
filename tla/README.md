# Project Persona: a TLA+ verification project

Models of the stateful core of Project Persona, a local persona assistant: the
daemon that supervises its processes, the bridge that hands jobs to the Hermes
agent's kanban board, the long-term memory (conversations, the idle sleep
cycle, hygiene, the inbox), the history window, the local job runner, and the
task queue of the llama-server the persona talks to. Each module is translated from
the source; `PROJECT.json` maps definitions to lines, lists the runs, mutants,
findings, hazards and theorems. Every invariant and action property that a passing
run checks is also proved, for all values of the constants.

## 1. The system

| Part | State | Operations | Interacts with | Hard behaviour |
|---|---|---|---|---|
| Supervisor (`daemon.py`) | per child: task, process, state, strikes, starts, pidfile; `_stopping` | `start`, `_supervise`, `_launch`, `stop`, `wait` | operating system, bus | `stop()` against launches, backoffs and exits; children that ignore SIGTERM |
| Event bus (`eventbus.py`) | subscribers, connections | subscribe, publish, dispatch, stop | daemon, API, clients | slow or dead peers, shutdown |
| Task Board (`taskboard.py`) | sqlite rows: merged JSON state, status, updated_at | `task_set`, `task_get`, `task_list`, `task_delete` | API, bridge, taskman2 (separate processes) | read-modify-write across processes |
| Hermes bridge (`hermes_bridge.py`) | none beyond the two boards | `enqueue_delegated`, `mirror_outcomes`, `tick` | Task Board, Hermes CLI | crash between create and record, lost answers, stale reads, list limits |
| Dispatch loop (`hermes_dispatch_loop.py`) | none | `tick` | Hermes CLI | retries and auto-block inside Hermes |
| Conversations (`conversations.py`) | conversations, turns, `distilled` flags | `add_turn`, `delete_conversation`, selection, `mark_distilled` | chat route, sleep cycle, hygiene | deletion while a request or a pass holds ids |
| Sleep cycle (`sleep_cycle.py`, `server.py`) | pass in progress, skip set | `consolidate`, `_sleep_cycle_loop` | conversations, model, vector store | requests arriving during an await, failures half-way, restarts |
| Hygiene (`memory_hygiene.py`, `server.py`) | facts in the vector store | `memory_hygiene_pass` | conversations, vector store | two deletion rules over one set |
| Vector store (`ragstore.py`) | collections of points | add, query, delete, alias | all memory code | failures are swallowed |
| Intake (`memory_intake.py`), sorting line (`sorting_line.py`) | facts, inbox files, provisional and mature documents | intake with conflicts, `process_inbox`, `promote` | model, vector store, files | one of several steps failing |
| llama-server (`llama_cpp/tools/server`) | two task queues, slots, waiting ids, results, sleep flags | `post`, `defer`, `pop_deferred_task`, `start_loop`, `update_slots`, reader `next`/`stop` | API's HTTP requests | HTTP threads against the main loop, cancels, families of slots, idle sleep |
| Windowing (`windowing.py`) | none | `window_turns` | chat route | budget and cap boundaries |
| Agent run (`server.py`, `taskman2.py`) | job and result files, row | `agent_run`, `run_job` | Task Board | timeouts, API death while a job runs, one id used twice |
| Process manager (`manage.py`) | pidfiles | up, down, daemon | supervisor's pidfiles | stale pids |

What makes each part correct:

* **Supervisor**: never two processes for one child; a bounded number of
  launches; no launch once shutdown has begun; a child is given up only when its
  strikes or launches are used up; shutdown ends and leaves nothing behind.
* **Bridge**: a row points at a card made for it and for ever at the same one;
  every delegated row gets a card; extra cards come from lost ids only; `ok`
  is written only for a finished card, or one a completed run left in review, and is
  not taken back; a finished card's row gets closed.
* **Memory**: turns are retired only when they were read and something came of
  it; conversations with enough turns get consolidated unless skipped ones crowd
  them out; the foreground wins; of a cluster of similar facts a sweep keeps one,
  unless its newest is of a deleted conversation.
* **Sorting line**: a processed file is in memory whatever dies or fails, unless
  the store swallowed it; while nothing fails it is there once; every file leaves the
  inbox.
* **Windowing**: window and summary partition the conversation; the window is the
  longest that fits and its size is bounded; a summarised turn does not come back.
* **Agent run**: an answer `ok` comes with the run's own result file; row, answer
  and process agree as far as the handler's exceptions allow; every request is answered,
  and after it the job's program is over, if not what its commands left behind.
* **llama-server**: a task is run once and never lost; no result is left behind;
  every request is answered; every slot is given back.

## 2. Modules

| Module | Models |
|---|---|
| `ChildContract` | abstract: what the daemon promises about a child |
| `Supervisor` | `daemon.py`: `Supervisor` and `_run` |
| `HermesBridge` | `/agent/delegate`, Task Board rows, bridge process; Hermes external |
| `SleepCycle` | `/chat` persistence and distillation, conversations, sleep cycle, hygiene; model and vector store external |
| `LlamaServer` | `server-queue.cpp` and the slots of `server-context.cpp` |
| `SortingLine` | `sorting_line.py`: inbox, provisional and mature collection; vector store external |
| `AgentRun` | `/agent/run` and `taskman2.py`: files, processes, row |
| `Windowing` | `windowing.py` over the life of a conversation |
| `SeqOps` | the sequence operators of the specifications as recursive functions: `Filter`, `SuffixSums` |
| `SeqOpsProofs` | induction over natural numbers, and what those operators compute |
| `SupervisorProofs`, `HermesBridgeProofs`, `SleepCycleProofs`, `LlamaServerProofs`, `SortingLineProofs`, `AgentRunProofs`, `WindowingProofs` | the theorems about the specification each is named after |
| `MC...` | the module TLC runs for each, with its instances and symmetry sets (used by safety runs only) |

**Supervisor.** The event loop is single threaded, so an action is the code a
coroutine runs between two awaits. `task[c]` says in which await `_supervise` is
suspended: `launching` is inside `create_subprocess_exec` (the process exists,
`c.proc` is not assigned), `waiting` inside `proc.wait()`, `backoff` inside the
sleep. `stopPc` does the same for `stop()`. `Init` is the state `start()` leaves.
Time is abstract: whether a run was long enough to forgive strikes, and whether
the grace period ran out, are choices. Two facts about asyncio are taken from
its implementation: cancelling a task inside `create_subprocess_exec` kills the
new process, cancelling one inside `proc.wait()` does not.

**HermesBridge.** `status`, `tid`, `inflight` are the fields of a row that
control flow reads, `recent` is the order of `updated_at`. The bridge's program
counter stops at every database write and every CLI call, so Hermes, the user
and crashes come between any two. A `task_set` is one step: after
`/agent/delegate` the bridge is the row's only writer. Hermes is external:
cards move `ready -> running -> done | review | blocked | ready` (`ready` stands for
triage, todo and scheduled too: all map to no status), a failed run is retried
until `FailureLimit`, the user may unblock, put in review, send back, accept and
archive. The code maps the column `review` to `blocked` but asks the last run first, so a
completed run's card in review is mirrored `ok`. History variables: `lost`, cards whose
id never reached their row; `reviewed`, cards a completed run left in review.

**SleepCycle.** `turns`, `distilled`, `convs`, `lastId` are the sqlite tables
(AUTOINCREMENT included), `facts` the fact points of the default profile. A chat
request suspends twice (generation, distillation); the sleep cycle suspends in
the distillation of each conversation (`pc = "distil"`), and the answer waits in
`answered` until the coroutine resumes. The remainder of `consolidate`, with
the hygiene sweep that may follow, is synchronous and so part of the resuming
action. Which pairs of facts reach the cosine threshold is the constant `Similar`, any
set of pairs; `Cluster` is what the union-find makes of it among the facts present, so
a chain of near-duplicates is one cluster, of which the sweep keeps a newest point. Links, the
insight entry and the journal change no fact and no turn. `read` is history.

**LlamaServer.** The main thread (`pc`) runs `start_loop`: take a task, process
it, `update_slots`, wait or sleep. Each HTTP thread (`rd[r].pc`) passes the sleep
gate, posts, reads, and stops. A step is what a thread does between two
acquisitions of a mutex, so a result may be sent between the halves of
`stop()`, and a release (which moves one deferred task to the front of the queue)
may come between two cancel tasks. `update_slots` goes slot by slot, since each
release touches the queues. A request has one task and at most one child
(`n_cmpl = 2`), is pinned to a slot or not, or is a slot operation. Which idle slot
is taken, whether a launch or a decode fails, and when generation ends (up to
`MaxTokens`) are choices.

**SortingLine.** `process_inbox` and `promote` run inline on the event loop and never
overlap; their steps are their effects on disk, and a crash, a failing rename,
add, delete or embedding comes between any two. A failing add or delete is silent, as in
`ragstore.py`. A file is in the inbox before its copy is complete, and is taken as it
is when its turn comes: an incomplete one may be refused or stored in part. Nothing in the
repository but its tests calls `promote` so far; it is modelled as callable at any time.

**AgentRun.** A run has its handler (`pc`), its process (`proc`) and its commands (`cmd`):
one that taskman2 waits for, or what a command left behind. The kill of a timeout reaches
the direct child only: taskman2 and not its command, a command and not what it started;
the death of the API reaches none of them. The handler catches `TimeoutExpired` only: any
other exception is a 500 (`StartFails`, `RunFails`, answer `failed`), and after the row was
written it leaves it at `running`. taskman2 exits with 0 also when its result says
`needs_attention`, so the row says `ok` for it. A run whose handler died leaves its row at
`running`. `shared` is history: runs that overlapped another run of their id, about
which the code promises nothing.

**Windowing.** A turn is a number of characters. The loop of `window_turns` is `Begin`,
`Keep`, `Fold` and `Exhausted`; between calls the conversation grows. The settings are
chosen in `Init` from sets that cross each other's boundaries. `folded` is the
previous call's summary (history).

Definitions commented as a changed form of another ("Mutant of ...", "`Judge` without
the ...") are mutants: `PROJECT.json` pairs each with the property that detects it. They
are not part of any specification.

## 3. Runs

| Run | Instance | Result |
|---|---|---|
| `supervisor` | 3 children, 1 strike, 3 launches, fairness | the five invariants and `ShutdownCompletes` hold; `Supervisor` implements `ChildContract` |
| `supervisor_teardown` | | violated: a launch in progress is missed by `stop()` |
| `bridge_safety` | 2 jobs, 3 cards, 1 fault, 1 move by the user, no retries, symmetry | correlation, accounting, finality hold |
| `bridge_live` | 1 job, 2 cards, 1 fault, 1 move by the user, a retry, fairness | rows get cards; finished cards settle rows |
| `memory_safety` | 2 conversations, 2 similar facts, 3 requests, 1 fault, symmetry | retirement, yielding and sweeping are safe |
| `memory_live` | 2 conversations, 1 per pass, 2 requests, 1 fault, fairness | consolidation happens, but for one named state |
| `server_safety` | 3 requests of different shapes, 2 slots, sleeping | once-only, nothing lost, no stray results |
| `server_live` | 2 requests, 2 slots, 2 tokens, sleeping, fairness | every request is answered, but for three named states |
| `server_slots` | a family and a plain request, 2 slots, fairness | violated: a cancelled family keeps its child's slot |
| `agent_run` | 2 runs, 2 ids, 2 deaths or exceptions, fairness | own result, row, quiet and answered |
| `sorting` | 3 files, 1 unreadable, 1 fault, fairness | only swallowed adds lose a document; the inbox drains |
| `windowing` | up to 4 turns, 108 settings | partition, longest fit, bound, no return |

Further configurations reproduce findings that have no run of their own; each is
violated:

| Configuration | Property | Shows |
|---|---|---|
| `MCHermesBridge_duplicate` | `NoDuplicateCards` | a lost answer or crash leads to a second card |
| `MCHermesBridge_retry` | `OnlyTerminalMirrored` | a failure that Hermes retries is mirrored as final |
| `MCHermesBridge_unblock` | `DoneIsMirrored` | an unblocked, finished card stays `blocked` |
| `MCHermesBridge_review` | `OkIsDone` | a completed run's card in review is mirrored `ok` |
| `MCSleepCycle_stored` | `RetireAfterStore` | turns retired with a fact the store lost |
| `MCSleepCycle_hygiene` | `HygieneKeepsNewest` | a valid fact swept away |
| `MCSleepCycle_chain` | `CollapsesNearDuplicates` | a chain of near-duplicates drops a fact nothing near stays for |
| `MCSleepCycle_limit` | `EveryConversationDistilled` | skipped conversations take every slot |
| `MCAgentRun_recorded` | `RunsRecorded` | an uncaught exception leaves the row at `running` |
| `MCLlamaServer_deferred` | `DeferredServed` | deferred tasks wait with every slot idle |
| `MCLlamaServer_sleep` | `TaskWakesServer` | a task posted just as the server falls asleep is slept over |
| `MCSortingLine_whole` | `StoredWhole` | part of a file is stored as the file |
| `MCWindowing_cap` | `AbsoluteCap` | the newest turn stays above the cap |

`MCAgentRun_three` is a larger instance of `agent_run` without its liveness property:
three runs of one id, 2.0 million states, no violation.

Every violated property states what a doc or comment of the repository says; the
quotation and the line are under `findings`. The one with `supervisor_teardown`
was also reproduced with the Python code: with one child running and one inside
`_launch`, the second outlived `stop()` and the event loop.

**Bounds.** Three children let one be launching, one waiting and one in backoff
when `stop()` begins; one forgiven strike and three launches let both limits be
reached in either order. Two jobs suffice for a mix-up of ids, three cards for a
duplicate beside two proper ones; one fault places a crash or a lost call between
any two steps. One failed run blocks a card in the safety run, which leaves room for
the review column; the liveness run has the retry. Two conversations give the pass a second one to go on to, and
three requests a chat, a deletion and a sweep (or a chat during the pass). `MinTurns`
is the code's default 2, one exchange. Two similar facts make a cluster of different
statements; the chain of three is in `MCSleepCycle_chain`, and the theorems hold for any
similarity. One place per pass makes the conversations of the liveness run compete.
`MaxFaults`, `MaxMoves`, `MaxAsked` are bounds of the model; `MaxStrikes`, `MaxTotalStarts`, `Limit`, `FailureLimit`,
`MinTurns` and `MaxConvos` are parameters of the code made small. One chat
request is in progress at a time in the memory runs, beside deletions, sweeps
and the pass; more slots only reorder turns of different exchanges. Two slots and
three requests let a family need both while another task holds one and a third is
deferred; the liveness run has two requests of every shape, and two
tokens so that decoding is repeated. Two runs let an old process or a torn job file meet
a later handler of its id, two faults a failed start and a death; a third run
(`MCAgentRun_three`) adds nothing. Three files put a refused one between two good ones. The
windowing constants are the code's (4 characters per token, a marker of 47) made
small, with budgets, caps and turn sizes on both sides of each other.

Deadlock is checked for the bridge and the memory; the other models end when the
daemon does or when their bounded requests, files or turns are used up.

**Fairness.** Supervisor: the event loop runs every resumed coroutine and expired
timer (weak fairness of each task and of `stop()`'s steps), the kernel reports
dead children, and SIGKILL works; no child has to exit. Bridge: its loop runs and
is restarted by the daemon; the dispatch loop ticks; a run ends, since workers
have a runtime limit; users need do nothing. Memory: the sleep cycle's task runs,
the model answers or times out, and quiet returns when requests stop (their number
is bounded); users need do nothing. llama-server: the main thread and every HTTP
thread that can go on are scheduled; nobody owes it a request, a disconnect or an idle
period. Sorting line: a running call goes on, and the watcher's timer fires again and
again whatever else occupies the event loop (strong fairness of `StartPass`). Agent
run: `subprocess.run` returns when the process ends or after 300 s; nothing is
assumed of taskman2 or its commands.

## 4. Proofs

Each proof module states an inductive invariant `Inv` and shows `Init => Inv` and
`Inv /\ [Next]_vars => Inv'`; `Invariance` is `Spec => []Inv`, and the theorems below
follow from it. Every part of `Inv` was first checked by TLC on the instance of the
module's safety run, except `Bounded` of the memory, which TLC cannot enumerate. The sets of children, jobs, cards,
conversations, facts, runs, ids, requests and settings are arbitrary, and so are
all bounds.

| Module | Theorems | Assumed of the constants |
|---|---|---|
| `SupervisorProofs` | `TypeCorrect`, `GiveUpCorrect`, `PidfileCorrect`, `TeardownCorrect`, `QuietStopCorrect`, `Refinement` (`Spec => Contract!Spec`) | `LimitsAssumption`: a natural `MaxStrikes`, a positive `MaxTotalStarts` |
| `HermesBridgeProofs` | `TypeCorrect`, `CorrelationCorrect`, `AccountingCorrect`, `OkCorrect`, `BindingCorrect` | `BridgeAssumption`: natural limits, `NoCard` is no card, the failure kinds are Hermes's |
| `SleepCycleProofs` | `TypeCorrect`, `TablesCorrect`, `RetirementCorrect`, `ExchangeCorrect`, `YieldCorrect`, `MemoryCorrect` | `MemoryAssumption`: natural limits, a positive `MinTurns`, the two null values are none of the others, `Similar` is a set of sets of facts |
| `LlamaServerProofs` | `TypeCorrect`, `RunsOnceCorrect`, `NothingLostCorrect`, `NoStrayCorrect` | `ShapesAssumption`: at least one slot and one token, well formed shapes; `NoneAssumption`: `None` is no task, entry or shape |
| `SortingLineProofs` | `TypeCorrect`, `LossCorrect`, `OneCopyCorrect` | `SortingAssumption`: natural numbers of files and faults |
| `AgentRunProofs` | `TypeCorrect`, `RowCorrect`, `QuietCorrect`, `ResultCorrect` | `AgentRunAssumption`: a natural `MaxFaults`, the two special values are no run or id |
| `WindowingProofs` | `TypeCorrect`, `PartitionCorrect`, `LongestFitCorrect`, `BoundedBlockCorrect`, `StaysFoldedCorrect` | `WindowingAssumption`: sizes and settings are natural numbers, a token has at least one character |

**Supervisor.** The properties are not inductive on their own. `BudgetLeft`: a
task that may go round its loop again has launches and strikes left, which bounds
the counters. `ProcessPlace`: only a launching, waiting or cancelled task's child has
a process, and a waiting one holds its handle, so a launch never makes a second
process and a judged child has none. `SnapshotLaunched`: what `stop()` listed was
launched, and the grace wait has somebody to wait for. `NextImplements` shows
that each step is a step of `ChildContract` or a stutter.

**Bridge.** `Creating`: while a card is being created its row has none, and the id in
the bridge's hand is that of a card of this row; that keeps ids and rows together
(`Correlated`) and says exactly which ids a crash loses (`CardsAccountedFor`).
`Mirroring`: the rows in hand are open and listed once, so no row is written after
it was closed (`BindingIsForever`). `Fetched`: an answer of `kanban show` may be old,
but that a card is `done`, `archived` or was left in review by a completed run (`Passed`)
stays true, so a stale answer still justifies `ok`; this needs `HermesCards`, that the
card of a completed run has passed.

**Memory.** `IdsLast`: what the pass holds or has read is the turn now stored under
that id, whatever was deleted meanwhile; AUTOINCREMENT gives it, and without it a pass
could retire a turn nobody read. `PassState`: the batch is not empty, and is
read once answered. `Bounded`: there are finitely many conversations, and a latest
fact, so that the clock is a number. Three rules say what a step may do to the tables
(`TableRules`), the pass (`PassRules`) and the store (`StoreRules`); each action is shown
to follow them, and the action properties follow from the rules. `SweepFacts` is where
the sweep comes in: the point kept of a fact's cluster stays or is an orphan and newest.

**llama-server.** A task that has been posted is in one of four stages: not launched
(`Queued`, `Parked` among the deferred, or `InHand`), `Running` in a slot, `Ended` (its
last result is in `queue_results`) or `Done` (the reader has it). `Stages` says that
these exclude each other, `Lists` that no place holds a task twice. `Readers` ties
`waiting_task_ids` to the readers, and `Cancels` says that only requests that are
over are cancelled. `Outbox` says whose results are queued and that none follows a
task's end, without which `next()` could leave one behind. `InPlay` is `NothingLost` in
these terms. Every step of the main thread is one of six moves (it shuffles the
queues, launches, refuses, finishes, streams, or drops a cancelled task: `MainInv`), and
`MovesInv` shows once that a move keeps the stages, results and tasks in play; each
reader step has a lemma of its own. `NothingLost` and `RunsOnce` count and look up
places where the code has them; both are derived from the stages at the end.

**Sorting line.** `Calls`: the variables of a call are empty when it does not run.
`UniqueIds`: points have ids of their own, so deleting by id deletes what was promoted.
`Safe`: the point exists before the file is moved, and the mature one before the
provisional one is deleted, unless the store swallowed it. `Single`: without a fault a
file still in the inbox has no point unless it was just ingested, so a second
pass makes no copy.

**Agent run.** `OverlapIsShared`: two runs active on an id know of each other, so a
run that is not `shared` has the id's files to itself. `OwnFiles`: it is then the last
writer of its job file, taskman2 has read that one, and the result file is its own.
A start that fails may have torn the job file, but then whoever still reads it is shared.
`Lifecycle` and `CommandPlace` say what exists before a start and where a command runs
that taskman2 waits for.

**Windowing.** `Window`: in the loop the kept turns are the clipped newest ones, `used`
is their sum, and every shorter window fits. `Cut`: at the end the next older turn does
not. `FoldedMisfit`: what was folded once still does not fit, since suffix sums
only grow with the conversation. `LongestFit` compares the loop with the suffix sums by
their recursive definition.

**Induction.** Two facts need induction over data: what the recursive functions `Filter`
and `SuffixSums` compute. The library's induction theorems have an operator as a
parameter, so `SeqOpsProofs` states induction about sets instead: every non-empty set of
natural numbers has a least element (`LeastNat`, from the well-founded order of the natural
numbers), hence a set that contains the first number, and each one whose predecessor it
contains, contains all (`BoundedInduction`). The specifications use these
recursive functions where they filter a list, since nothing can be proved here about
a `RECURSIVE` operator or about `SelectSeq`.

**Only model-checked:** liveness, which is out of the prover's reach
(`ShutdownCompletes`, `DelegatedGetsCard`, `FinishedCardSettlesRow`,
`EventuallyDistilled`, `Answered`, `EventuallyAnswered`, `InboxDrains`), and, of
course, the violated properties of section 3.

## 5. Not modelled

* The rest of vendored `llama_cpp` (ggml kernels, model loading, tokenizers, sampling,
  converters, tools), which is most of the repository's lines: numerical and format code
  without protocol state, seen here as decoding that succeeds or fails. Of the server:
  `terminate()`, metrics and LoRA tasks, several prompts in one request, prompts of
  several batches, context shift, speculative decoding, the prompt cache, router mode.
* The Godot and voice clients, setup and migration scripts, prompt assembly,
  sanitising, streaming, sampling, avatar state: text processing or I/O.
* `eventbus.py`: lines to whoever is connected, with no promise of delivery;
  `manage.py`: installation, console output and signals to the pids of pidfiles;
  structured intake: its steps turn on what the model judges contradictory. The
  hazards of the bus and of intake are listed with the reason no property covers them.
* In the supervisor, file errors in `run/` (swallowed) and `build_specs`
  (configuration). In the bridge, texts, priorities, `started_at`, `finished_at`. In
  memory, other profiles: the automatic sweep looks at the default profile only;
  turns recorded within one second count as ordered in the selection; the cosine
  itself. In the sorting
  line, formats, classification and the alias. In agent runs, the content of edits.

## 6. Plan

Done: the seven specifications above, the contract of the supervisor, and proofs of
every invariant and action property that a passing run checks.

Next:

1. Abstract contracts that `LlamaServer` (a request is waiting, served, answered or
   given up) and `HermesBridge` (a row and its card) refine, with the refinements proved
   from the invariants above.
2. A sharper statement of what a deleted conversation leaves in memory, so that
   `RetiredForFacts` and `NoClusterForgotten` name fewer exceptions.
3. The hazards of `PROJECT.json` that have no property yet.
