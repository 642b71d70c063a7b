---------------------------- MODULE HermesBridge ----------------------------
(***************************************************************************)
(* Delegated jobs: the persona's Task Board (services/api/taskboard.py),   *)
(* POST /agent/delegate (services/api/server.py), and the bridge process   *)
(* (tools/hermes_bridge.py) that makes a card on Hermes' kanban for every  *)
(* delegated row and mirrors the card's fate back onto the row.            *)
(*                                                                         *)
(* Hermes itself (cards, dispatcher, workers) is external and is modelled  *)
(* from what the bridge and hermes_dispatch_loop.py use of it.  The bridge *)
(* may be killed between any two steps and is restarted by the daemon.  It *)
(* is the only writer of a row after /agent/delegate has created it, so a  *)
(* task_set is one step here.  Texts, priorities and timestamps are left   *)
(* out; of updated_at the order it gives the rows is kept.                 *)
(***************************************************************************)
EXTENDS Naturals, Sequences, SeqOps

CONSTANTS
    Job,           \* job ids
    Card,          \* Hermes card ids, more than can be used up
    NoCard,        \* no hermes_task_id
    Limit,         \* rows one task_list call returns (limit=200)
    FailureKinds,  \* the outcomes a failed run of a worker may have
    FailureLimit,  \* consecutive failed runs before Hermes blocks a card
    MaxFaults,     \* bound: lost or refused CLI calls and bridge crashes
    MaxMoves       \* bound: cards the user moves, puts in review or sends back

ASSUME BridgeAssumption ==
    /\ NoCard \notin Card
    /\ Limit \in Nat /\ FailureLimit \in Nat /\ MaxFaults \in Nat /\ MaxMoves \in Nat
    /\ FailureKinds \subseteq {"crashed", "timed_out", "gave_up", "spawn_failed", "reclaimed"}

VARIABLES
    status,    \* Task Board: status of a job's row, "absent" without a row
    tid,       \* Task Board: hermes_task_id of a row
    inflight,  \* Task Board: delegate_inflight of a row is set
    recent,    \* Task Board: the rows, last updated first
    cards,     \* Hermes: the cards created for a job (its back-reference)
    col,       \* Hermes: a card's column, "none" for an unused id
    outcome,   \* Hermes: the outcome of a card's latest run, "none" without one
    fails,     \* Hermes: consecutive failed runs of a card
    moves,     \* Hermes: the user's moves so far
    pc,        \* bridge: where its loop is, "down" when the process is dead
    todo,      \* bridge: rows of the last task_list still to be handled
    reply,     \* bridge: the id `kanban create' printed, NoCard for an error
    seen,      \* bridge: the column and outcome `kanban show' printed
    faults,    \* lost or refused calls and crashes so far
    lost,      \* history: cards whose id never reached the bridge's row
    reviewed   \* history: cards a completed run has left in review

boardVars == <<status, tid, inflight, recent>>
hermesVars == <<cards, col, outcome, fails, moves, reviewed>>
bridgeVars == <<pc, todo, reply, seen>>
vars == <<status, tid, inflight, recent, cards, col, outcome, fails, moves,
          pc, todo, reply, seen, faults, lost, reviewed>>

NoStatus == "none"
Statuses == {"absent", "delegated", "running", "ok", "error", "timeout", "blocked"}
\* "ready" stands for triage, todo and scheduled too, which the bridge treats alike.
Columns == {"none", "ready", "running", "review", "blocked", "done", "archived"}
Outcomes == {"none", "active", "completed", "blocked"} \cup FailureKinds
Open == {"delegated", "running"}
Settled == {"blocked", "done", "archived"}

\* What `seen' holds while no answer of `kanban show' is being handled.
Nothing == [col |-> "none", outcome |-> "none"]

Init ==
    /\ status = [j \in Job |-> "absent"]
    /\ tid = [j \in Job |-> NoCard]
    /\ inflight = [j \in Job |-> FALSE]
    /\ recent = <<>>
    /\ cards = [j \in Job |-> {}]
    /\ col = [c \in Card |-> "none"]
    /\ outcome = [c \in Card |-> "none"]
    /\ fails = [c \in Card |-> 0]
    /\ moves = 0
    /\ pc = "sleep" /\ todo = <<>> /\ reply = NoCard
    /\ seen = Nothing
    /\ faults = 0 /\ lost = {} /\ reviewed = {}
-----------------------------------------------------------------------------
(* The Task Board and POST /agent/delegate.                                 *)

\* A task_set gives the row the newest updated_at.
Touch(j) == recent' = <<j>> \o Filter(recent, Job \ {j})

\* task_list(limit), filtered by a status the caller looks for.
TaskList(wanted) ==
    Filter(SubSeq(recent, 1, IF Len(recent) < Limit THEN Len(recent) ELSE Limit),
           {j \in Job : status[j] \in wanted})

\* A row is created only under an id the board does not have (else 409).
Delegate(j) ==
    /\ status[j] = "absent"
    /\ status' = [status EXCEPT ![j] = "delegated"]
    /\ Touch(j)
    /\ UNCHANGED <<tid, inflight, hermesVars, bridgeVars, faults, lost>>
-----------------------------------------------------------------------------
(* Flow A: enqueue_delegated and create_card.                               *)

\* EnqueueBegin that leaves rows alone whose create is said to be in flight.
EnqueueBeginNotInflight ==
    /\ pc = "sleep"
    /\ pc' = "enqueue" /\ todo' = Filter(TaskList({"delegated"}), {j \in Job : ~inflight[j]})
    /\ UNCHANGED <<boardVars, hermesVars, reply, seen, faults, lost>>

EnqueueBegin ==
    /\ pc = "sleep"
    /\ pc' = "enqueue" /\ todo' = TaskList({"delegated"})
    /\ UNCHANGED <<boardVars, hermesVars, reply, seen, faults, lost>>

EnqueueSkip ==
    /\ pc = "enqueue" /\ todo # <<>> /\ tid[Head(todo)] # NoCard
    /\ todo' = Tail(todo)
    /\ UNCHANGED <<boardVars, hermesVars, pc, reply, seen, faults, lost>>

\* MarkInflight without the look at hermes_task_id.
MarkInflightAgain ==
    /\ pc = "enqueue" /\ todo # <<>>
    /\ inflight' = [inflight EXCEPT ![Head(todo)] = TRUE]
    /\ Touch(Head(todo))
    /\ pc' = "creating"
    /\ UNCHANGED <<status, tid, hermesVars, todo, reply, seen, faults, lost>>

MarkInflight ==
    /\ pc = "enqueue" /\ todo # <<>> /\ tid[Head(todo)] = NoCard
    /\ inflight' = [inflight EXCEPT ![Head(todo)] = TRUE]
    /\ Touch(Head(todo))
    /\ pc' = "creating"
    /\ UNCHANGED <<status, tid, hermesVars, todo, reply, seen, faults, lost>>

\* `hermes kanban create' makes a card.  Its id reaches the bridge, or is lost
\* to a non-zero exit or an output without an id.
CardCreated ==
    /\ pc = "creating"
    /\ \E c \in Card :
          /\ col[c] = "none"
          /\ cards' = [cards EXCEPT ![Head(todo)] = @ \cup {c}]
          /\ col' = [col EXCEPT ![c] = "ready"]
          /\ \/ reply' = c /\ UNCHANGED <<faults, lost>>
             \/ /\ faults < MaxFaults /\ faults' = faults + 1
                /\ reply' = NoCard /\ lost' = lost \cup {c}
    /\ pc' = "created"
    /\ UNCHANGED <<boardVars, outcome, fails, moves, reviewed, todo, seen>>

\* It makes none and fails.
CardRefused ==
    /\ pc = "creating"
    /\ faults < MaxFaults /\ faults' = faults + 1
    /\ reply' = NoCard /\ pc' = "created"
    /\ UNCHANGED <<boardVars, hermesVars, todo, seen, lost>>

\* RecordCard that files the id under the next row of the list.
RecordCardUnderNext ==
    /\ pc = "created" /\ reply # NoCard
    /\ LET j == todo[Len(todo)]
       IN  /\ tid' = [tid EXCEPT ![j] = reply]
           /\ inflight' = [inflight EXCEPT ![j] = FALSE]
           /\ Touch(j)
    /\ todo' = Tail(todo) /\ reply' = NoCard /\ pc' = "enqueue"
    /\ UNCHANGED <<status, hermesVars, seen, faults, lost>>

RecordCard ==
    /\ pc = "created" /\ reply # NoCard
    /\ tid' = [tid EXCEPT ![Head(todo)] = reply]
    /\ inflight' = [inflight EXCEPT ![Head(todo)] = FALSE]
    /\ Touch(Head(todo))
    /\ todo' = Tail(todo) /\ reply' = NoCard /\ pc' = "enqueue"
    /\ UNCHANGED <<status, hermesVars, seen, faults, lost>>

\* delegate_error is recorded; the row stays as it is and is tried again.
RecordError ==
    /\ pc = "created" /\ reply = NoCard
    /\ Touch(Head(todo))
    /\ todo' = Tail(todo) /\ pc' = "enqueue"
    /\ UNCHANGED <<status, tid, inflight, hermesVars, reply, seen, faults, lost>>
-----------------------------------------------------------------------------
(* Flow B: mirror_outcomes, fetch_task and derive_update.                   *)

\* _STATUS_MAP and _COLUMN_MAP; NoStatus leaves the row's status alone.
MapHermesStatus(o) ==
    CASE o \in {"active", "reclaimed"}  -> "running"
      [] o = "completed"                -> "ok"
      [] o = "blocked"                  -> "blocked"
      [] o \in {"gave_up", "crashed"}   -> "error"
      [] o = "timed_out"                -> "timeout"
      [] OTHER                          -> NoStatus
\* MapHermesColumn that takes every settled column for success.
MapHermesColumnSettledOk(k) ==
    CASE k = "running"                  -> "running"
      [] k = "review"                   -> "blocked"
      [] k \in Settled                  -> "ok"
      [] OTHER                          -> NoStatus
MapHermesColumn(k) ==
    CASE k = "running"                  -> "running"
      [] k \in {"blocked", "review"}    -> "blocked"
      [] k \in {"done", "archived"}     -> "ok"
      [] OTHER                          -> NoStatus

\* DerivedStatus as it was before 2026-06-21: the run before the column.
DerivedFromRunFirst(s) ==
    LET run == MapHermesStatus(s.outcome)
    IN  IF run # NoStatus THEN run ELSE MapHermesColumn(s.col)

\* A settled column wins over the latest run, which wins over other columns,
\* review among them.
DerivedStatus(s) ==
    LET run == MapHermesStatus(s.outcome)
    IN  IF s.col \in Settled \/ run = NoStatus THEN MapHermesColumn(s.col) ELSE run

\* MirrorBegin without the look at OPEN_STATUSES.
MirrorBeginAllRows ==
    /\ pc = "enqueue" /\ todo = <<>>
    /\ pc' = "mirror" /\ todo' = TaskList(Statuses)
    /\ UNCHANGED <<boardVars, hermesVars, reply, seen, faults, lost>>

MirrorBegin ==
    /\ pc = "enqueue" /\ todo = <<>>
    /\ pc' = "mirror" /\ todo' = TaskList(Open)
    /\ UNCHANGED <<boardVars, hermesVars, reply, seen, faults, lost>>

MirrorSkip ==
    /\ pc = "mirror" /\ todo # <<>> /\ tid[Head(todo)] = NoCard
    /\ todo' = Tail(todo)
    /\ UNCHANGED <<boardVars, hermesVars, pc, reply, seen, faults, lost>>

\* `hermes kanban show' answers, or fails and the row is left for the next tick.
FetchTask ==
    /\ pc = "mirror" /\ todo # <<>> /\ tid[Head(todo)] # NoCard
    /\ LET c == tid[Head(todo)]
       IN  seen' = [col |-> col[c], outcome |-> outcome[c]]
    /\ pc' = "fetched"
    /\ UNCHANGED <<boardVars, hermesVars, todo, reply, faults, lost>>

FetchFails ==
    /\ pc = "mirror" /\ todo # <<>> /\ tid[Head(todo)] # NoCard
    /\ faults < MaxFaults /\ faults' = faults + 1
    /\ todo' = Tail(todo)
    /\ UNCHANGED <<boardVars, hermesVars, pc, reply, seen, lost>>

\* ApplyPatch that writes a status nothing was derived for.
ApplyPatchUnmapped ==
    /\ pc = "fetched"
    /\ status' = [status EXCEPT ![Head(todo)] = DerivedStatus(seen)]
    /\ Touch(Head(todo))
    /\ todo' = Tail(todo) /\ seen' = Nothing /\ pc' = "mirror"
    /\ UNCHANGED <<tid, inflight, hermesVars, reply, faults, lost>>

\* The patch holds a status, or attempts if the card has runs; an empty patch
\* is not written.
ApplyPatch ==
    /\ pc = "fetched"
    /\ LET j == Head(todo)
           st == DerivedStatus(seen)
       IN  /\ status' = [status EXCEPT ![j] = IF st = NoStatus THEN @ ELSE st]
           /\ IF st = NoStatus /\ seen.outcome = "none"
              THEN UNCHANGED recent ELSE Touch(j)
    /\ todo' = Tail(todo) /\ seen' = Nothing /\ pc' = "mirror"
    /\ UNCHANGED <<tid, inflight, hermesVars, reply, faults, lost>>

MirrorEnd ==
    /\ pc = "mirror" /\ todo = <<>>
    /\ pc' = "sleep"
    /\ UNCHANGED <<boardVars, hermesVars, todo, reply, seen, faults, lost>>
-----------------------------------------------------------------------------
(* The process: an unhandled error (a CLI call over its 60 s, a locked      *)
(* database) or a kill ends it anywhere; the daemon starts it again.        *)

BridgeCrash ==
    /\ pc # "down"
    /\ faults < MaxFaults /\ faults' = faults + 1
    /\ pc' = "down" /\ todo' = <<>> /\ reply' = NoCard /\ seen' = Nothing
    /\ lost' = lost \cup ({reply} \ {NoCard})
    /\ UNCHANGED <<boardVars, hermesVars>>

BridgeRestart ==
    /\ pc = "down"
    /\ pc' = "sleep"
    /\ UNCHANGED <<boardVars, hermesVars, todo, reply, seen, faults, lost>>
-----------------------------------------------------------------------------
(* Hermes (external): `kanban dispatch' claims a ready card and spawns a    *)
(* worker; a run ends in completion, with the card done or left for review, *)
(* in a block, or in a failure, after which the card is ready again or,     *)
(* after FailureLimit failures, blocked; the user may unblock, put a card   *)
(* in review, accept it or send it back, and archive.                       *)

Dispatch(c) ==
    /\ col[c] = "ready"
    /\ col' = [col EXCEPT ![c] = "running"]
    /\ outcome' = [outcome EXCEPT ![c] = "active"]
    /\ UNCHANGED <<boardVars, cards, fails, moves, bridgeVars, faults, lost, reviewed>>

RunEnds(c) ==
    /\ col[c] = "running"
    /\ \/ /\ outcome' = [outcome EXCEPT ![c] = "completed"]
          /\ \/ col' = [col EXCEPT ![c] = "done"] /\ UNCHANGED reviewed
             \/ col' = [col EXCEPT ![c] = "review"] /\ reviewed' = reviewed \cup {c}
          /\ UNCHANGED fails
       \/ /\ col' = [col EXCEPT ![c] = "blocked"]
          /\ outcome' = [outcome EXCEPT ![c] = "blocked"]
          /\ UNCHANGED <<fails, reviewed>>
       \/ /\ fails' = [fails EXCEPT ![c] = @ + 1]
          /\ col' = [col EXCEPT ![c] = IF fails'[c] < FailureLimit THEN "ready" ELSE "blocked"]
          /\ \E o \in FailureKinds : outcome' = [outcome EXCEPT ![c] = o]
          /\ UNCHANGED reviewed
    /\ UNCHANGED <<boardVars, cards, moves, bridgeVars, faults, lost>>

Unblock(c) ==
    /\ col[c] = "blocked"
    /\ moves < MaxMoves /\ moves' = moves + 1
    /\ col' = [col EXCEPT ![c] = "ready"]
    /\ fails' = [fails EXCEPT ![c] = 0]
    /\ UNCHANGED <<boardVars, cards, outcome, bridgeVars, faults, lost, reviewed>>

\* A ready card is put in review, or one in review sent back.
Reconsider(c) ==
    /\ moves < MaxMoves /\ moves' = moves + 1
    /\ \/ col[c] = "ready" /\ col' = [col EXCEPT ![c] = "review"]
       \/ col[c] = "review" /\ col' = [col EXCEPT ![c] = "ready"]
    /\ UNCHANGED <<boardVars, cards, outcome, fails, bridgeVars, faults, lost, reviewed>>

Accept(c) ==
    /\ col[c] = "review"
    /\ col' = [col EXCEPT ![c] = "done"]
    /\ UNCHANGED <<boardVars, cards, outcome, fails, moves, bridgeVars, faults, lost, reviewed>>

Archive(c) ==
    /\ col[c] \in {"ready", "review", "blocked", "done"}
    /\ col' = [col EXCEPT ![c] = "archived"]
    /\ UNCHANGED <<boardVars, cards, outcome, fails, moves, bridgeVars, faults, lost, reviewed>>

Bridge == \/ EnqueueBegin \/ EnqueueSkip \/ MarkInflight
          \/ CardCreated \/ CardRefused \/ RecordCard \/ RecordError
          \/ MirrorBegin \/ MirrorSkip \/ FetchTask \/ FetchFails \/ ApplyPatch
          \/ MirrorEnd \/ BridgeRestart

Hermes(c) == \/ Dispatch(c) \/ RunEnds(c) \/ Unblock(c)
             \/ Reconsider(c) \/ Accept(c) \/ Archive(c)

Next == \/ \E j \in Job : Delegate(j)
        \/ Bridge \/ BridgeCrash
        \/ \E c \in Card : Hermes(c)

\* The bridge's loop runs, the dispatch loop ticks and a run ends (workers have
\* a runtime limit).  Nobody has to delegate, unblock, review or archive.
Fairness == /\ WF_vars(Bridge)
            /\ \A c \in Card : WF_vars(Dispatch(c)) /\ WF_vars(RunEnds(c))

Spec == Init /\ [][Next]_vars
FairSpec == Spec /\ Fairness
-----------------------------------------------------------------------------
(* Properties.                                                              *)

\* Types of the two boards and of the bridge's local state.
TypeOK ==
    /\ status \in [Job -> Statuses]
    /\ tid \in [Job -> Card \cup {NoCard}]
    /\ inflight \in [Job -> BOOLEAN]
    /\ recent \in Seq(Job)
    /\ cards \in [Job -> SUBSET Card]
    /\ col \in [Card -> Columns]
    /\ outcome \in [Card -> Outcomes]
    /\ fails \in [Card -> Nat] /\ moves \in 0 .. MaxMoves
    /\ pc \in {"down", "sleep", "enqueue", "creating", "created", "mirror", "fetched"}
    /\ todo \in Seq(Job) /\ reply \in Card \cup {NoCard}
    /\ seen \in [col : Columns, outcome : Outcomes]
    /\ faults \in 0 .. MaxFaults /\ lost \in SUBSET Card /\ reviewed \in SUBSET Card

\* A row points at a card made for that row, and no card serves two jobs.
Correlated ==
    /\ \A j \in Job : tid[j] # NoCard => tid[j] \in cards[j]
    /\ \A i, j \in Job : i # j => cards[i] \cap cards[j] = {}

\* Every card made for a job is the one its row points at, or the one whose id
\* the bridge is about to record, or one whose id was lost to a failed call or a
\* crash: nothing else makes the bridge create a second card for a row.
CardsAccountedFor ==
    \A j \in Job : cards[j] \subseteq
        lost \cup {tid[j]} \cup (IF todo # <<>> /\ Head(todo) = j THEN {reply} ELSE {})

\* A row that says ok points at a card that is done or archived, or one that a
\* completed run has left in review, whatever Hermes and the user did between
\* the bridge's reading and its writing.
OkIsFinal ==
    \A j \in Job : status[j] = "ok" =>
        /\ tid[j] # NoCard
        /\ col[tid[j]] \in {"done", "archived"} \/ tid[j] \in reviewed

\* A step that changes neither the card of a row that has one nor an ok.
KeepsBindings ==
    \A j \in Job :
        /\ tid[j] # NoCard => tid'[j] = tid[j]
        /\ status[j] = "ok" => status'[j] = "ok"

\* The binding of a row to its card is never changed, and a job that the board
\* has shown as finished well is not reopened (a blocked one ought to be, see
\* DoneIsMirrored).
BindingIsForever == [][KeepsBindings]_vars

\* Every delegated row gets a card, across lost calls and crashes.
DelegatedGetsCard ==
    \A j \in Job : status[j] = "delegated" ~> tid[j] # NoCard

\* The fix noted at hermes_bridge.py:178: a row whose card is archived or done
\* stops being mirrored, whatever its last run's outcome was.
FinishedCardSettlesRow ==
    \A j \in Job : (tid[j] # NoCard /\ col[tid[j]] \in {"done", "archived"})
                       ~> (status[j] \notin Open)

\* docs/h2_bridge_design_20260613_0204.md:230-236: a crash between the create and
\* the recording of its id does not lead to a second card.
NoDuplicateCards ==
    \A j \in Job : \A c, d \in cards[j] : c = d

\* docs/h2_bridge_design_20260613_0204.md:265: the bridge "only mirrors the
\* terminal outcome": a row in error or timeout has a card that Hermes has
\* stopped retrying.
OnlyTerminalMirrored ==
    \A j \in Job : status[j] \in {"error", "timeout"} => col[tid[j]] \in Settled

\* docs/wsl_h2_runbook_20260613_0311.md:39: "review -> blocked, done/archived ->
\* ok": a row that says ok has a card that is not, or no longer, in review.
OkIsDone ==
    \A j \in Job : status[j] = "ok" => col[tid[j]] \in {"done", "archived"}

\* docs/h2_bridge_design_20260613_0204.md:24: the bridge mirrors Hermes' truth
\* back onto the board: a finished card's row ends up ok.
DoneIsMirrored ==
    \A j \in Job : (tid[j] # NoCard /\ col[tid[j]] = "done") ~> (status[j] = "ok")
=============================================================================
