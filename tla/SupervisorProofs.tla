-------------------------- MODULE SupervisorProofs --------------------------
(***************************************************************************)
(* Proofs about Supervisor.tla for any set of children and any limits.     *)
(* The inductive invariant adds to the checked invariants where a child    *)
(* may have a process, what the counters are at the loop head, and that    *)
(* every child in stop()'s list has been launched.                         *)
(***************************************************************************)
EXTENDS Supervisor, TLAPS

\* A task that may go round its loop again has launches and strikes left.
BudgetLeft ==
    \A c \in Child :
        /\ task[c] \in {"ready", "backoff"} => starts[c] < MaxTotalStarts
        /\ task[c] # "done" => strikes[c] <= MaxStrikes

\* While the tasks run, only a launching or waiting task's child has a
\* process, and c.proc refers to it exactly when the task is waiting.
ProcessPlace ==
    \A c \in Child :
        /\ HasProcess(c) => task[c] \in {"launching", "waiting", "cancelled"}
        /\ task[c] = "waiting" => handle[c]
        /\ task[c] = "cancelled" => CancelRequested

\* stop()'s list: set when stop() begins, of launched children, and not empty
\* if stop() waits for it.
SnapshotLaunched ==
    /\ \A c \in live : proc[c] # "none"
    /\ stopPc = "grace" => live # {}

Inv ==
    /\ TypeOK /\ BudgetLeft /\ ProcessPlace /\ SnapshotLaunched
    /\ GiveUpIsEarned /\ PidfilesGone /\ SnapshotIsDown /\ QuietStopLeavesNothing

USE LimitsAssumption
USE DEF TaskPlaces, ProcStates, ChildStates, StopPlaces

\* The state that start() leaves satisfies the invariant.
LEMMA InitInv == Init => Inv
  BY DEF Init, Inv, TypeOK, BudgetLeft, ProcessPlace, SnapshotLaunched,
         GiveUpIsEarned, PidfilesGone, SnapshotIsDown, QuietStopLeavesNothing,
         HasProcess, TaskOver, Stopping, CancelRequested

\* Every step of a supervise task preserves the invariant.
LEMMA SuperviseInv ==
  ASSUME NEW c \in Child, Inv, Supervise(c)
  PROVE  Inv'
  <1> USE DEF Inv, TypeOK, BudgetLeft, ProcessPlace, SnapshotLaunched,
              GiveUpIsEarned, PidfilesGone, SnapshotIsDown, QuietStopLeavesNothing,
              HasProcess, TaskOver, Stopping, CancelRequested, AtLoopHead
  <1>1. CASE LeaveLoop(c)
    BY <1>1 DEF LeaveLoop
  <1>2. CASE Fork(c)
    BY <1>2 DEF Fork
  <1>3. CASE LaunchFails(c)
    BY <1>3 DEF LaunchFails, Judge
  <1>4. CASE LaunchReturns(c)
    BY <1>4 DEF LaunchReturns
  <1>5. CASE ExitSeen(c)
    BY <1>5 DEF ExitSeen, Judge
  <1>6. CASE Cancelled(c)
    BY <1>6 DEF Cancelled
  <1> QED
    BY <1>1, <1>2, <1>3, <1>4, <1>5, <1>6 DEF Supervise

\* So does every step of stop().
LEMMA StopInv ==
  ASSUME Inv, Stop \/ StopAllExited \/ StopTimeout \/ StopReturns
  PROVE  Inv'
  <1> USE DEF Inv, TypeOK, BudgetLeft, ProcessPlace, SnapshotLaunched,
              GiveUpIsEarned, PidfilesGone, SnapshotIsDown, QuietStopLeavesNothing,
              HasProcess, TaskOver, Stopping, CancelRequested
  <1>1. CASE Stop
    BY <1>1 DEF Stop, TearDown
  <1>2. CASE StopAllExited
    BY <1>2 DEF StopAllExited, TearDown, WaitOver
  <1>3. CASE StopTimeout
    BY <1>3 DEF StopTimeout, TearDown
  <1>4. CASE StopReturns
    BY <1>4 DEF StopReturns, childVars
  <1> QED
    BY <1>1, <1>2, <1>3, <1>4

\* And the end of a process, and the collection of its exit status.
LEMMA ProcessInv ==
  ASSUME NEW c \in Child, Inv, Exit(c) \/ Reap(c)
  PROVE  Inv'
  BY DEF Inv, TypeOK, BudgetLeft, ProcessPlace, SnapshotLaunched,
         GiveUpIsEarned, PidfilesGone, SnapshotIsDown, QuietStopLeavesNothing,
         HasProcess, TaskOver, Stopping, CancelRequested, Exit, Reap

\* The invariant is inductive.
LEMMA NextInv == Inv /\ [Next]_vars => Inv'
  <1> SUFFICES ASSUME Inv, [Next]_vars
               PROVE  Inv'
    OBVIOUS
  <1>1. CASE UNCHANGED vars
    BY <1>1 DEF vars, Inv, TypeOK, BudgetLeft, ProcessPlace, SnapshotLaunched,
         GiveUpIsEarned, PidfilesGone, SnapshotIsDown, QuietStopLeavesNothing,
         HasProcess, TaskOver, Stopping, CancelRequested
  <1>2. CASE Next
    BY <1>2, SuperviseInv, StopInv, ProcessInv DEF Next, StopOnSignal, StopOnAllOver
  <1> QED
    BY <1>1, <1>2

\* Every reachable state satisfies the inductive invariant.
THEOREM Invariance == Spec => []Inv
  BY InitInv, NextInv, PTL DEF Spec

\* Types, and the ceilings on strikes and on launches: a slow crash loop, whose
\* strikes are forgiven after each run, still ends at max_total_starts.
THEOREM TypeCorrect == Spec => []TypeOK
  <1>1. Inv => TypeOK
    BY DEF Inv
  <1> QED
    BY <1>1, Invariance, PTL

\* A child is given up only with its strikes or launches used up, and stays down.
THEOREM GiveUpCorrect == Spec => []GiveUpIsEarned
  <1>1. Inv => GiveUpIsEarned
    BY DEF Inv
  <1> QED
    BY <1>1, Invariance, PTL

\* After the teardown of stop() no pidfile exists: a launch that returns late
\* does not write one again.
THEOREM PidfileCorrect == Spec => []PidfilesGone
  <1>1. Inv => PidfilesGone
    BY DEF Inv
  <1> QED
    BY <1>1, Invariance, PTL

\* Every child stop() found alive is collected or killed when stop() returns.
THEOREM TeardownCorrect == Spec => []SnapshotIsDown
  <1>1. Inv => SnapshotIsDown
    BY DEF Inv
  <1> QED
    BY <1>1, Invariance, PTL

\* A stop() that found no child alive leaves no process that is not killed: the
\* only way past stop() is the grace wait it then does not have.
THEOREM QuietStopCorrect == Spec => []QuietStopLeavesNothing
  <1>1. Inv => QuietStopLeavesNothing
    BY DEF Inv
  <1> QED
    BY <1>1, Invariance, PTL

\* Every step of the supervisor is a step of the contract, or changes nothing
\* the contract speaks of.
LEMMA NextImplements ==
  Inv /\ [Next]_vars => [Contract!Next]_(Contract!contractVars)
  <1> SUFFICES ASSUME Inv, [Next]_vars
               PROVE  Contract!Next \/ UNCHANGED Contract!contractVars
    OBVIOUS
  <1> USE DEF Contract!contractVars, HasProcess, TaskOver, Stopping
  <1>1. CASE UNCHANGED vars
    BY <1>1 DEF vars
  <1>2. ASSUME NEW c \in Child, LeaveLoop(c)
        PROVE  Contract!GiveUp(c)
    BY <1>2 DEF LeaveLoop, AtLoopHead, Contract!GiveUp, Inv, TypeOK, ProcessPlace
  <1>3. ASSUME NEW c \in Child, Fork(c)
        PROVE  Contract!Launch(c)
    BY <1>3 DEF Fork, AtLoopHead, Contract!Launch, Inv, TypeOK, ProcessPlace, BudgetLeft
  <1>4. ASSUME NEW c \in Child, LaunchFails(c)
        PROVE  Contract!Launch(c)
    BY <1>4 DEF LaunchFails, Judge, AtLoopHead, Contract!Launch,
                Inv, TypeOK, ProcessPlace, BudgetLeft
  <1>5. ASSUME NEW c \in Child, LaunchReturns(c)
        PROVE  UNCHANGED Contract!contractVars
    BY <1>5 DEF LaunchReturns, Inv, TypeOK
  <1>6. ASSUME NEW c \in Child, ExitSeen(c)
        PROVE  Contract!GiveUp(c) \/ UNCHANGED Contract!contractVars
    BY <1>6 DEF ExitSeen, Judge, Contract!GiveUp, Inv, TypeOK
  <1>7. ASSUME NEW c \in Child, Cancelled(c)
        PROVE  Contract!GiveUp(c)
    BY <1>7 DEF Cancelled, CancelRequested, Contract!GiveUp, Inv, TypeOK
  <1>8. ASSUME Stop
        PROVE  Contract!Halt
    BY <1>8 DEF Stop, TearDown, Contract!Halt
  <1>9. ASSUME StopAllExited \/ StopTimeout \/ StopReturns
        PROVE  UNCHANGED Contract!contractVars
    BY <1>9 DEF StopAllExited, StopTimeout, StopReturns, TearDown, childVars
  <1>10. ASSUME NEW c \in Child, Exit(c)
         PROVE  UNCHANGED Contract!contractVars
    BY <1>10 DEF Exit, Inv, TypeOK
  <1>11. ASSUME NEW c \in Child, Reap(c)
         PROVE  Contract!Gone(c)
    BY <1>11 DEF Reap, Contract!Gone, Inv, TypeOK
  <1> QED
    BY <1>1, <1>2, <1>3, <1>4, <1>5, <1>6, <1>7, <1>8, <1>9, <1>10, <1>11
       DEF Next, Supervise, StopOnSignal, StopOnAllOver, Contract!Next

\* The supervisor implements its contract: one process per child at a time, at
\* most max_total_starts launches, none after stop() began, and no child with a
\* process given up before that.
THEOREM Refinement == Spec => ImplementsContract
  <1>1. Init => Contract!Init
    BY DEF Init, Contract!Init, HasProcess, TaskOver, Stopping
  <1> QED
    BY <1>1, NextImplements, Invariance, PTL DEF Spec, ImplementsContract, Contract!Spec
=============================================================================
