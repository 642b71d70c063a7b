----------------------------- MODULE Supervisor -----------------------------
(***************************************************************************)
(* The asyncio supervisor of daemon.py: one _supervise task per child, the *)
(* stop() coroutine, and the operating system that runs, ends and reports  *)
(* the child processes.  The event loop is single threaded, so one action  *)
(* is the code a coroutine runs between two awaits.                        *)
(*                                                                         *)
(* Time is abstract: whether a child outlived stable_reset_s before it     *)
(* died, and whether a grace period ran out, are choices.  File operations *)
(* in run/ are taken to succeed; Init is the state start() leaves behind.  *)
(***************************************************************************)
EXTENDS Naturals

CONSTANTS Child,          \* the ChildSpecs, by name
          MaxStrikes,     \* max_strikes
          MaxTotalStarts  \* max_total_starts

ASSUME LimitsAssumption == /\ MaxStrikes \in Nat
                           /\ MaxTotalStarts \in Nat \ {0}

VARIABLES
    task,     \* where c's _supervise task is suspended, or how it ended
    proc,     \* c's most recent process, as the operating system has it
    handle,   \* c.proc is that process (else None, or an earlier dead one)
    sig,      \* the strongest signal sent to that process
    state,    \* c.state
    strikes,  \* c.strikes
    starts,   \* c.starts
    pidfile,  \* the launch whose pid c's pidfile holds, 0 for no file
    stopPc,   \* where stop() is
    live      \* stop()'s local list of children it waits for

childVars == <<task, proc, handle, sig, state, strikes, starts, pidfile>>
vars == <<task, proc, handle, sig, state, strikes, starts, pidfile, stopPc, live>>

TaskPlaces == {"ready", "launching", "waiting", "backoff", "done", "cancelled"}
ProcStates == {"none", "alive", "zombie", "reaped"}
ChildStates == {"pending", "running", "restarting", "failed", "stopped"}
StopPlaces == {"idle", "grace", "closing", "returned"}

Stopping == stopPc # "idle"
\* After stop() has called t.cancel() a task runs no further code of its own:
\* the next thing it sees is CancelledError at the await it is suspended in.
CancelRequested == stopPc \in {"closing", "returned"}
TaskOver(c) == task[c] \in {"done", "cancelled"}
HasProcess(c) == proc[c] \in {"alive", "zombie"}
\* The loop runs the first step of every task that start() created in one pass,
\* before it resumes any of them and before _run gets to call stop().
AllBegun == \A c \in Child : task[c] # "ready"

Init ==
    /\ task = [c \in Child |-> "ready"]
    /\ proc = [c \in Child |-> "none"]
    /\ handle = [c \in Child |-> FALSE]
    /\ sig = [c \in Child |-> "none"]
    /\ state = [c \in Child |-> "pending"]
    /\ strikes = [c \in Child |-> 0]
    /\ starts = [c \in Child |-> 0]
    /\ pidfile = [c \in Child |-> 0]
    /\ stopPc = "idle"
    /\ live = {}
-----------------------------------------------------------------------------
(* The supervise task.                                                      *)

\* Judge without the max_total_starts ceiling.
JudgeByStrikesOnly(c, n, stable) ==
    LET s == (IF stable THEN 0 ELSE strikes[c]) + 1
        again == ~Stopping /\ s <= MaxStrikes
    IN  /\ strikes' = [strikes EXCEPT ![c] = IF Stopping THEN @ ELSE s]
        /\ state' = [state EXCEPT ![c] = IF again THEN "restarting"
                                         ELSE IF Stopping THEN "stopped" ELSE "failed"]
        /\ task' = [task EXCEPT ![c] = IF again THEN "backoff" ELSE "done"]

\* Judge with `<' where the policy says `<='.
JudgeOneStrikeShort(c, n, stable) ==
    LET s == (IF stable THEN 0 ELSE strikes[c]) + 1
        again == ~Stopping /\ n < MaxTotalStarts /\ s < MaxStrikes
    IN  /\ strikes' = [strikes EXCEPT ![c] =
                          IF Stopping \/ n >= MaxTotalStarts THEN @ ELSE s]
        /\ state' = [state EXCEPT ![c] = IF again THEN "restarting"
                                         ELSE IF Stopping THEN "stopped" ELSE "failed"]
        /\ task' = [task EXCEPT ![c] = IF again THEN "backoff" ELSE "done"]

\* What happens once a launch attempt is known to be over: n launches so far,
\* and `stable' when the process lived for stable_reset_s or longer.
Judge(c, n, stable) ==
    LET s == (IF stable THEN 0 ELSE strikes[c]) + 1
        Becomes(st, place) == /\ state' = [state EXCEPT ![c] = st]
                              /\ task' = [task EXCEPT ![c] = place]
    IN  \/ /\ Stopping
           /\ Becomes("stopped", "done")
           /\ UNCHANGED strikes
        \/ /\ ~Stopping /\ n >= MaxTotalStarts
           /\ Becomes("failed", "done")
           /\ UNCHANGED strikes
        \/ /\ ~Stopping /\ n < MaxTotalStarts
           /\ strikes' = [strikes EXCEPT ![c] = s]
           /\ IF s <= MaxStrikes THEN Becomes("restarting", "backoff")
                                 ELSE Becomes("failed", "done")

\* The task is about to evaluate `while not self._stopping'.
AtLoopHead(c) == task[c] \in {"ready", "backoff"} /\ ~CancelRequested

LeaveLoop(c) ==
    /\ AtLoopHead(c) /\ Stopping
    /\ task' = [task EXCEPT ![c] = "done"]
    /\ UNCHANGED <<proc, handle, sig, state, strikes, starts, pidfile, stopPc, live>>

\* Fork by a loop that does not look at _stopping after the backoff.
ForkWhileStopping(c) ==
    /\ AtLoopHead(c) /\ starts[c] < MaxTotalStarts
    /\ starts' = [starts EXCEPT ![c] = @ + 1]
    /\ proc' = [proc EXCEPT ![c] = "alive"]
    /\ task' = [task EXCEPT ![c] = "launching"]
    /\ UNCHANGED <<handle, sig, state, strikes, pidfile, stopPc, live>>

\* The process is forked, then create_subprocess_exec suspends: c.proc is
\* only assigned when the task resumes.
Fork(c) ==
    /\ AtLoopHead(c) /\ ~Stopping
    /\ starts' = [starts EXCEPT ![c] = @ + 1]
    /\ proc' = [proc EXCEPT ![c] = "alive"]
    /\ sig' = [sig EXCEPT ![c] = "none"]
    /\ handle' = [handle EXCEPT ![c] = FALSE]
    /\ task' = [task EXCEPT ![c] = "launching"]
    /\ UNCHANGED <<state, strikes, pidfile, stopPc, live>>

\* The log cannot be opened or the program cannot be executed: c.proc is
\* None, rc is -1, and the attempt counts as a short-lived run.
LaunchFails(c) ==
    /\ AtLoopHead(c) /\ ~Stopping
    /\ starts' = [starts EXCEPT ![c] = @ + 1]
    /\ handle' = [handle EXCEPT ![c] = FALSE]
    /\ Judge(c, starts[c] + 1, FALSE)
    /\ UNCHANGED <<proc, sig, pidfile, stopPc, live>>

\* LaunchReturns in a task that stop() did not cancel.
LaunchReturnsUncancelled(c) ==
    /\ task[c] = "launching"
    /\ pidfile' = [pidfile EXCEPT ![c] = starts[c]]
    /\ handle' = [handle EXCEPT ![c] = TRUE]
    /\ state' = [state EXCEPT ![c] = "running"]
    /\ task' = [task EXCEPT ![c] = "waiting"]
    /\ UNCHANGED <<proc, sig, strikes, starts, stopPc, live>>

\* _launch resumes, writes the pidfile and returns; the task awaits the exit.
LaunchReturns(c) ==
    /\ task[c] = "launching" /\ AllBegun /\ ~CancelRequested
    /\ pidfile' = [pidfile EXCEPT ![c] = starts[c]]
    /\ handle' = [handle EXCEPT ![c] = TRUE]
    /\ state' = [state EXCEPT ![c] = "running"]
    /\ task' = [task EXCEPT ![c] = "waiting"]
    /\ UNCHANGED <<proc, sig, strikes, starts, stopPc, live>>

\* proc.wait() returns.
ExitSeen(c) ==
    /\ task[c] = "waiting" /\ proc[c] = "reaped" /\ ~CancelRequested
    /\ \E stable \in BOOLEAN : Judge(c, starts[c], stable)
    /\ UNCHANGED <<proc, handle, sig, starts, pidfile, stopPc, live>>

\* CancelledError at the await.  asyncio kills a process whose launch is
\* interrupted; a task interrupted in proc.wait() leaves its process alone.
Cancelled(c) ==
    /\ CancelRequested /\ ~TaskOver(c)
    /\ task' = [task EXCEPT ![c] = "cancelled"]
    /\ sig' = [sig EXCEPT ![c] = IF task[c] = "launching" THEN "kill" ELSE @]
    /\ UNCHANGED <<proc, handle, state, strikes, starts, pidfile, stopPc, live>>
-----------------------------------------------------------------------------
(* stop().                                                                  *)

\* Unlink the pidfiles, cancel the tasks, suspend in bus.stop().
TearDown ==
    /\ stopPc' = "closing"
    /\ pidfile' = [c \in Child |-> 0]

\* The first part of stop(): take the list of live children and SIGTERM them;
\* with none there is nothing to await before the rest.
Stop ==
    /\ ~Stopping /\ AllBegun
    /\ live' = {c \in Child : handle[c] /\ HasProcess(c)}
    /\ sig' = [c \in Child |-> IF c \in live' THEN "term" ELSE sig[c]]
    /\ IF live' # {} THEN stopPc' = "grace" /\ UNCHANGED pidfile
                     ELSE TearDown
    /\ UNCHANGED <<task, proc, handle, state, strikes, starts>>

\* _run calls stop() when SIGINT or SIGTERM arrives ...
StopOnSignal == Stop
\* ... or when every supervise task has ended.
StopOnAllOver == (\A c \in Child : TaskOver(c)) /\ Stop

\* Whether stop()'s wait for child c is over: the process is reaped, and c's
\* own task, which waited first, has been resumed first.
WaitOver(c) == proc[c] = "reaped" /\ task[c] # "waiting"

StopAllExited ==
    /\ stopPc = "grace" /\ \A c \in live : WaitOver(c)
    /\ TearDown
    /\ UNCHANGED <<task, proc, handle, sig, state, strikes, starts, live>>

\* StopTimeout without the SIGKILL.
StopTimeoutNoKill ==
    /\ stopPc = "grace" /\ \E c \in live : ~WaitOver(c)
    /\ TearDown
    /\ UNCHANGED <<task, proc, handle, sig, state, strikes, starts, live>>

\* StopTimeout that goes on waiting for the children it has killed nobody of.
StopTimeoutWaitsOn ==
    /\ stopPc = "grace" /\ \A c \in live : proc[c] = "reaped"
    /\ TearDown
    /\ UNCHANGED <<task, proc, handle, sig, state, strikes, starts, live>>

\* stop_grace has run out: SIGKILL what is left, and do not wait for it.
StopTimeout ==
    /\ stopPc = "grace" /\ \E c \in live : ~WaitOver(c)
    /\ sig' = [c \in Child |-> IF c \in live /\ HasProcess(c) THEN "kill" ELSE sig[c]]
    /\ TearDown
    /\ UNCHANGED <<task, proc, handle, state, strikes, starts, live>>

StopReturns ==
    /\ stopPc = "closing"
    /\ stopPc' = "returned"
    /\ UNCHANGED <<childVars, live>>
-----------------------------------------------------------------------------
(* The operating system: a process may end at any time, for any reason; the *)
(* event loop collects its exit status some time later.                     *)

Exit(c) ==
    /\ proc[c] = "alive"
    /\ proc' = [proc EXCEPT ![c] = "zombie"]
    /\ UNCHANGED <<task, handle, sig, state, strikes, starts, pidfile, stopPc, live>>

Reap(c) ==
    /\ proc[c] = "zombie"
    /\ proc' = [proc EXCEPT ![c] = "reaped"]
    /\ UNCHANGED <<task, handle, sig, state, strikes, starts, pidfile, stopPc, live>>

KilledDies(c) == sig[c] = "kill" /\ Exit(c)

Supervise(c) == \/ LeaveLoop(c) \/ Fork(c) \/ LaunchFails(c)
                \/ LaunchReturns(c) \/ ExitSeen(c) \/ Cancelled(c)

Next ==
    \/ \E c \in Child : Supervise(c) \/ Exit(c) \/ Reap(c)
    \/ StopOnSignal \/ StopOnAllOver \/ StopAllExited \/ StopTimeout \/ StopReturns

\* The event loop runs every resumed coroutine and every expired timer, and
\* SIGKILL cannot be refused.  A child need not die, nor a signal arrive.
Fairness ==
    /\ \A c \in Child : WF_vars(Supervise(c)) /\ WF_vars(Reap(c)) /\ WF_vars(KilledDies(c))
    /\ WF_vars(StopOnAllOver) /\ WF_vars(StopAllExited)
    /\ WF_vars(StopTimeout) /\ WF_vars(StopReturns)

Spec == Init /\ [][Next]_vars
FairSpec == Spec /\ Fairness
-----------------------------------------------------------------------------
(* Properties.                                                              *)

\* Types, and the two counters' ceilings: max_total_starts bounds the launches
\* of a child however its strikes are forgiven.
TypeOK ==
    /\ task \in [Child -> TaskPlaces]
    /\ proc \in [Child -> ProcStates]
    /\ handle \in [Child -> BOOLEAN]
    /\ sig \in [Child -> {"none", "term", "kill"}]
    /\ state \in [Child -> ChildStates]
    /\ strikes \in [Child -> 0 .. MaxStrikes + 1]
    /\ starts \in [Child -> 0 .. MaxTotalStarts]
    /\ pidfile \in [Child -> 0 .. MaxTotalStarts]
    /\ stopPc \in StopPlaces
    /\ live \in SUBSET Child

\* Until shutdown begins a supervise task ends only with its child marked
\* failed, without a process, and with the strikes or the launches used up.
GiveUpIsEarned ==
    \A c \in Child :
        /\ TaskOver(c) /\ ~Stopping => state[c] = "failed"
        /\ state[c] = "failed" =>
              /\ task[c] = "done" /\ ~HasProcess(c)
              /\ strikes[c] = MaxStrikes + 1 \/ starts[c] = MaxTotalStarts

\* stop() unlinks the pidfiles before it cancels the tasks and then suspends in
\* bus.stop(): no task resumes a launch in between and writes its file again.
PidfilesGone == CancelRequested => \A c \in Child : pidfile[c] = 0

\* Every child that stop() found alive has been collected, or SIGKILLed, by the
\* time the tasks are cancelled, whatever it did with SIGTERM.
SnapshotIsDown ==
    CancelRequested => \A c \in live : proc[c] = "reaped" \/ sig[c] = "kill"

\* When stop() finds no child alive, a child that is being forked at that very
\* moment does not outlive the daemon: cancelling its launch kills it.
QuietStopLeavesNothing ==
    CancelRequested /\ live = {} =>
        \A c \in Child : HasProcess(c) => task[c] = "launching" \/ sig[c] = "kill"

\* The contract of ChildContract.tla: at most one process per child, launches
\* bounded, none after shutdown began, no child abandoned before it.
Contract == INSTANCE ChildContract WITH
    up <- {c \in Child : HasProcess(c)},
    over <- {c \in Child : TaskOver(c)},
    halting <- Stopping
ImplementsContract == Contract!Spec

\* stop() returns, and so does the daemon once every child has been given up:
\* a child that ignores SIGTERM cannot hold it.
ShutdownCompletes ==
    (Stopping \/ \A c \in Child : TaskOver(c)) ~> (stopPc = "returned")

\* What daemon.py:115 says: stop() "tears everything down".  Once stop() has
\* returned and the tasks have ended no process is left that nobody has killed.
StopTearsEverythingDown ==
    stopPc = "returned" /\ (\A c \in Child : TaskOver(c)) =>
        \A c \in Child : proc[c] = "alive" => sig[c] = "kill"
=============================================================================
