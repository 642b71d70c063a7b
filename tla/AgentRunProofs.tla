--------------------------- MODULE AgentRunProofs ---------------------------
(***************************************************************************)
(* Proofs about AgentRun.tla for any runs, task ids and number of deaths   *)
(* of the API and failures of its handler.  The properties rest on who may touch the three things a    *)
(* task id names: two runs that use an id at the same time are both in     *)
(* shared, so a run outside shared has its files and its row to itself.    *)
(***************************************************************************)
EXTENDS AgentRun, TLAPS

\* A run has an id from its start on; before that it has nothing, and no
\* answer before the handler is done.
Lifecycle ==
    \A r \in Run :
        /\ pc[r] = "new" => proc[r] = "none" /\ cmd[r] = "none"
        /\ pc[r] # "new" => job[r] \in Job
        /\ pc[r] # "done" => answer[r] = "none"
        /\ pc[r] \in {"running", "lost"} => proc[r] # "none"
        /\ answer[r] \in Final => proc[r] # "none"

\* A command runs under a working taskman2, or survives a killed one.
CommandPlace == \A r \in Run : Waits(r) => proc[r] \in {"working", "killed"}

\* Two runs that use the files of one id know of each other.
OverlapIsShared ==
    \A q, r \in Run : q # r /\ job[q] = job[r] /\ Active(q) /\ Active(r)
        => q \in shared /\ r \in shared

\* A run alone on its id is the last writer of its job file, has read that
\* file, and finds its own result file until it reports.
OwnFiles ==
    \A r \in Run \ shared :
        /\ Active(r) => jobFile[job[r]] = r
        /\ Active(r) /\ proc[r] \in {"working", "writing", "ok"} => payload[r] = r
        /\ pc[r] = "running" /\ proc[r] = "ok" => resultFile[job[r]] = r

Inv ==
    /\ TypeOK /\ Lifecycle /\ CommandPlace /\ OverlapIsShared /\ OwnFiles
    /\ RowTracksRuns /\ QuietAfterAnswer

USE AgentRunAssumption
USE DEF Active, Alive, Final, Waits, Fault, Others, Meets

\* Nothing has started yet.
LEMMA InitInv == Init => Inv
  BY DEF Init, Inv, TypeOK, Lifecycle, CommandPlace, OverlapIsShared, OwnFiles,
         RowTracksRuns, QuietAfterAnswer

\* Starting a run keeps the invariant: whoever still uses the id is shared.
LEMMA StartInv ==
  ASSUME NEW r \in Run, NEW j \in Job, Inv, Start(r, j)
  PROVE  Inv'
  <1> USE DEF Inv, Start
  <1>1. TypeOK'
    BY DEF TypeOK
  <1>2. Lifecycle' /\ CommandPlace'
    BY DEF TypeOK, Lifecycle, CommandPlace
  <1>3. OverlapIsShared'
    BY DEF TypeOK, Lifecycle, OverlapIsShared
  <1>4. OwnFiles'
    BY DEF TypeOK, Lifecycle, OwnFiles
  <1>5. RowTracksRuns'
    BY DEF TypeOK, Lifecycle, RowTracksRuns
  <1>6. QuietAfterAnswer'
    BY DEF TypeOK, Lifecycle, QuietAfterAnswer
  <1> QED
    BY <1>1, <1>2, <1>3, <1>4, <1>5, <1>6

\* So does a start that fails: nobody but shared runs reads what it wrote.
LEMMA StartFailsInv ==
  ASSUME NEW r \in Run, NEW j \in Job, Inv, StartFails(r, j)
  PROVE  Inv'
  <1> USE DEF Inv, StartFails
  <1>1. TypeOK'
    BY DEF TypeOK
  <1>2. Lifecycle' /\ CommandPlace'
    BY DEF TypeOK, Lifecycle, CommandPlace
  <1>3. OverlapIsShared'
    BY DEF TypeOK, Lifecycle, OverlapIsShared
  <1>4. OwnFiles'
    BY DEF TypeOK, Lifecycle, OwnFiles
  <1>5. RowTracksRuns'
    BY DEF TypeOK, Lifecycle, RowTracksRuns
  <1>6. QuietAfterAnswer'
    BY DEF TypeOK, Lifecycle, QuietAfterAnswer
  <1> QED
    BY <1>1, <1>2, <1>3, <1>4, <1>5, <1>6

\* So does an answer, whether taskman2 ended or was killed.
LEMMA HandlerInv ==
  ASSUME NEW r \in Run, Inv, Handler(r)
  PROVE  Inv'
  <1> USE DEF Inv, Handler, Finish, TimedOut, Report, files, history
  <1>1. TypeOK'
    BY DEF TypeOK, Lifecycle
  <1>2. Lifecycle' /\ CommandPlace'
    BY DEF TypeOK, Lifecycle, CommandPlace
  <1>3. OverlapIsShared' /\ OwnFiles'
    BY DEF TypeOK, Lifecycle, OverlapIsShared, OwnFiles
  <1>4. RowTracksRuns'
    <2>0. job[r] \in Job /\ job' = job /\ proc[r] # "none" /\ answer[r] = "none"
      BY DEF TypeOK, Lifecycle
    <2>1. /\ row' = [row EXCEPT ![job[r]] = answer'[r]] /\ answer'[r] \in Final
          /\ answer' = [answer EXCEPT ![r] = answer'[r]] /\ pc' = [pc EXCEPT ![r] = "done"]
          /\ \A q \in Run : proc[q] # "none" => proc'[q] # "none"
      BY DEF TypeOK
    <2>2. \A q \in (Run \ shared)' : pc'[q] = "running" => row'[job'[q]] = "running"
      BY <2>0, <2>1 DEF TypeOK, Lifecycle, OverlapIsShared, RowTracksRuns
    <2>3. ASSUME NEW j \in Job, row'[j] = "running"
          PROVE  \E q \in Run : /\ job'[q] = j /\ proc'[q] # "none"
                                /\ pc'[q] \in {"running", "lost"} \/ answer'[q] = "failed"
      <3>1. j # job[r] /\ row[j] = "running"
        BY <2>0, <2>1, <2>3 DEF TypeOK
      <3>2. PICK q \in Run : /\ job[q] = j /\ proc[q] # "none"
                             /\ pc[q] \in {"running", "lost"} \/ answer[q] = "failed"
        BY <3>1 DEF RowTracksRuns
      <3>3. q # r /\ pc'[q] = pc[q] /\ answer'[q] = answer[q]
        BY <2>1, <3>1, <3>2 DEF TypeOK
      <3> QED
        BY <2>0, <2>1, <3>2, <3>3
    <2>4. ASSUME NEW j \in Job, row'[j] \in Final
          PROVE  \E q \in Run : job'[q] = j /\ answer'[q] = row'[j]
      <3>1. CASE j = job[r]
        BY <2>0, <2>1, <3>1 DEF TypeOK
      <3>2. CASE j # job[r]
        <4>1. PICK q \in Run : job[q] = j /\ answer[q] = row[j]
          BY <2>1, <2>4, <3>2 DEF TypeOK, RowTracksRuns
        <4> QED
          BY <2>0, <2>1, <3>2, <4>1 DEF TypeOK
      <3> QED
        BY <3>1, <3>2
    <2> QED
      BY <2>2, <2>3, <2>4 DEF RowTracksRuns
  <1>5. QuietAfterAnswer'
    BY DEF TypeOK, Lifecycle, CommandPlace, QuietAfterAnswer
  <1> QED
    BY <1>1, <1>2, <1>3, <1>4, <1>5

\* So does an exception in the handler, which leaves the row alone.
LEMMA RunFailsInv ==
  ASSUME NEW r \in Run, Inv, RunFails(r)
  PROVE  Inv'
  <1> USE DEF Inv, RunFails, files
  <1>1. TypeOK'
    BY DEF TypeOK
  <1>2. Lifecycle' /\ CommandPlace'
    BY DEF TypeOK, Lifecycle, CommandPlace
  <1>3. OverlapIsShared' /\ OwnFiles'
    BY DEF TypeOK, Lifecycle, OverlapIsShared, OwnFiles
  <1>4. RowTracksRuns'
    BY DEF TypeOK, Lifecycle, RowTracksRuns
  <1>5. QuietAfterAnswer'
    BY DEF TypeOK, Lifecycle, QuietAfterAnswer
  <1> QED
    BY <1>1, <1>2, <1>3, <1>4, <1>5

\* So does the death of the API, after which its processes go on.
LEMMA CrashInv ==
  ASSUME Inv, Crash
  PROVE  Inv'
  BY DEF Inv, Crash, TypeOK, Lifecycle, CommandPlace, OverlapIsShared, OwnFiles,
         RowTracksRuns, QuietAfterAnswer, files

\* And every step of taskman2 and its commands.
LEMMA ProcessInv ==
  ASSUME NEW r \in Run, Inv, Process(r)
  PROVE  Inv'
  <1> USE DEF Inv, Process, ReadJob, StartCommand, CommandEnds, LeftoversEnd, OpenResult,
              WriteResult, ProcessFails, handler, files, history
  <1>1. TypeOK'
    <2>1. job[r] \in Job /\ jobFile[job[r]] \in Run \cup {None, Torn}
      BY DEF TypeOK, Lifecycle
    <2>2. cmd' \in [Run -> {"none", "running", "left"}]
      BY DEF TypeOK
    <2>3. resultFile' \in [Job -> Run \cup {None, Torn}]
      BY <2>1 DEF TypeOK
    <2> QED
      BY <2>1, <2>2, <2>3 DEF TypeOK
  <1>2. Lifecycle' /\ CommandPlace'
    BY DEF TypeOK, Lifecycle, CommandPlace
  <1>3. OverlapIsShared'
    BY DEF TypeOK, Lifecycle, OverlapIsShared
  <1>4. OwnFiles'
    BY DEF TypeOK, Lifecycle, OverlapIsShared, OwnFiles
  <1>5. RowTracksRuns'
    BY DEF TypeOK, RowTracksRuns
  <1>6. QuietAfterAnswer'
    BY DEF TypeOK, Lifecycle, CommandPlace, QuietAfterAnswer
  <1> QED
    BY <1>1, <1>2, <1>3, <1>4, <1>5, <1>6

\* The invariant is inductive.
LEMMA NextInv == Inv /\ [Next]_vars => Inv'
  <1> SUFFICES ASSUME Inv, [Next]_vars
               PROVE  Inv'
    OBVIOUS
  <1>1. CASE UNCHANGED vars
    BY <1>1 DEF vars, Inv, TypeOK, Lifecycle, CommandPlace, OverlapIsShared, OwnFiles,
                RowTracksRuns, QuietAfterAnswer
  <1>2. CASE Next
    BY <1>2, StartInv, StartFailsInv, HandlerInv, RunFailsInv, CrashInv, ProcessInv DEF Next
  <1> QED
    BY <1>1, <1>2

\* Every reachable state satisfies the inductive invariant.
THEOREM Invariance == Spec => []Inv
  BY InitInv, NextInv, PTL DEF Spec

\* The variables of agent_run and taskman2 keep their types.
THEOREM TypeCorrect == Spec => []TypeOK
  <1>1. Inv => TypeOK
    BY DEF Inv
  <1> QED
    BY <1>1, Invariance, PTL

\* The row agent_run keeps agrees with the runs of its id, through deaths of the
\* API and exceptions in the handler.
THEOREM RowCorrect == Spec => []RowTracksRuns
  <1>1. Inv => RowTracksRuns
    BY DEF Inv
  <1> QED
    BY <1>1, Invariance, PTL

\* After agent_run's answer taskman2 is gone, and no command it waited for is
\* running unless the answer is a timeout or a 500.
THEOREM QuietCorrect == Spec => []QuietAfterAnswer
  <1>1. Inv => QuietAfterAnswer
    BY DEF Inv
  <1> QED
    BY <1>1, Invariance, PTL

\* An answer ok of agent_run for a run alone on its id comes with that run's
\* own, complete result file, made from its own job file.
THEOREM ResultCorrect == Spec => OwnResult
  <1>1. Inv /\ [Next]_vars => [OkWithOwnResult]_vars
    <2> SUFFICES ASSUME Inv, Next
                 PROVE  OkWithOwnResult
      OBVIOUS
    <2>1. ASSUME NEW r \in Run, Handler(r)
          PROVE  OkWithOwnResult
      BY <2>1 DEF OkWithOwnResult, Inv, TypeOK, OwnFiles, Handler, Finish, TimedOut, Report
    <2>2. ASSUME NEW r \in Run, RunFails(r) \/ \E j \in Job : StartFails(r, j)
          PROVE  OkWithOwnResult
      BY <2>2 DEF OkWithOwnResult, Inv, TypeOK, RunFails, StartFails
    <2>3. CASE UNCHANGED answer
      BY <2>3 DEF OkWithOwnResult
    <2> QED
      BY <2>1, <2>2, <2>3 DEF Next, Start, Crash, Process, ReadJob, StartCommand, CommandEnds,
                              LeftoversEnd, OpenResult, WriteResult, ProcessFails, handler
  <1> QED
    BY <1>1, Invariance, PTL DEF Spec, OwnResult
=============================================================================
