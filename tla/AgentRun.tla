------------------------------- MODULE AgentRun -------------------------------
(***************************************************************************)
(* POST /agent/run (services/api/server.py) and the process it starts,     *)
(* tools/taskman2.py: the job file, the result file and the Task Board row *)
(* of a task id, all three named after the id.                             *)
(*                                                                         *)
(* The id is the caller's, or job-<second>: two runs may have the same     *)
(* one, at the same time or one after the other.  The handler is a         *)
(* coroutine that awaits only the subprocess, so what it does before and   *)
(* after is one step each; task_set runs in the same step.  taskman2 reads *)
(* the job file when it gets to run, applies the edits, runs the commands  *)
(* one by one as children of its own, then overwrites the result file.  It *)
(* exits with 0 whatever became of the edits and commands: only an         *)
(* exception of its own is an error.  A kill reaches the process it is     *)
(* meant for and not what that one has started: the handler's timeout      *)
(* spares the command, a command's timeout spares the command's children.  *)
(* An exception that the handler does not catch makes FastAPI answer 500.  *)
(***************************************************************************)
EXTENDS Integers

CONSTANTS
    Run,            \* requests to /agent/run, each with its own payload
    Job,            \* task ids
    None,
    Torn,           \* a file that is being written, or whose writing failed
    MaxFaults       \* bound on deaths of the API and exceptions in the handler

ASSUME AgentRunAssumption ==
    /\ MaxFaults \in Nat
    /\ None # Torn /\ {None, Torn} \cap (Run \cup Job) = {}

VARIABLES
    job,        \* the task id of each run
    pc,         \* the handler: new, running, done, lost (the API died)
    proc,       \* taskman2: none, started, working, writing, ok, bad, killed
    cmd,        \* the job's commands: none; one running, which taskman2 waits for;
                \* left, processes that a command left behind
    payload,    \* the run whose job file taskman2 read
    jobFile,    \* task id -> the run that wrote <id>.job.json last
    resultFile, \* task id -> the run whose process wrote <id>.result.json
    row,        \* task id -> status in the Task Board
    answer,     \* the status each run returned; failed is HTTP 500
    shared,     \* runs that overlapped another run of the same id (history)
    faults      \* deaths and exceptions so far

vars == <<job, pc, proc, cmd, payload, jobFile, resultFile, row, answer, shared, faults>>
handler == <<pc, row, answer>>
files == <<jobFile, resultFile>>
history == <<shared, faults>>

Final == {"ok", "error", "timeout"}
Alive(r) == proc[r] \in {"started", "working", "writing"}
\* A command is running that taskman2 waits for, or did until it was killed.
Waits(r) == cmd[r] = "running"
\* The run still uses the files of its id.
Active(r) == pc[r] = "running" \/ Alive(r)
\* The handler has reported, or will never.
Over(r) == pc[r] \in {"done", "lost"}

Fault == faults < MaxFaults /\ faults' = faults + 1
\* The runs that use the files of j when r begins to write them.
Others(r, j) == {q \in Run \ {r} : job[q] = j /\ Active(q)}
Meets(r, j) == IF Others(r, j) = {} THEN {} ELSE Others(r, j) \cup {r}

-----------------------------------------------------------------------------
(* The handler *)

\* agent_run up to the await: the job file, then the row, then the thread
\* that starts taskman2.
Start(r, j) ==
    /\ pc[r] = "new"
    /\ shared' = shared \cup Meets(r, j)
    /\ job' = [job EXCEPT ![r] = j]
    /\ jobFile' = [jobFile EXCEPT ![j] = r]
    /\ row' = [row EXCEPT ![j] = "running"]
    /\ proc' = [proc EXCEPT ![r] = "started"]
    /\ pc' = [pc EXCEPT ![r] = "running"]
    /\ UNCHANGED <<cmd, payload, resultFile, answer, faults>>

\* An exception on the way there (mkdir, write_text, _job_set) is not caught: no
\* row is written and nothing is started, but the job file may be gone or new.
StartFails(r, j) ==
    /\ pc[r] = "new" /\ Fault
    /\ \/ UNCHANGED <<jobFile, shared>>
       \/ /\ \E written \in {Torn, r} : jobFile' = [jobFile EXCEPT ![j] = written]
          /\ shared' = shared \cup Meets(r, j)
    /\ job' = [job EXCEPT ![r] = j]
    /\ answer' = [answer EXCEPT ![r] = "failed"]
    /\ pc' = [pc EXCEPT ![r] = "done"]
    /\ UNCHANGED <<proc, cmd, payload, resultFile, row>>

\* Mutant of Report: the row is left alone.
ReportWithoutRow(r, status) ==
    /\ row' = row
    /\ answer' = [answer EXCEPT ![r] = status]
    /\ pc' = [pc EXCEPT ![r] = "done"]

\* The end of the handler: the row first, then the answer.
Report(r, status) ==
    /\ row' = [row EXCEPT ![job[r]] = status]
    /\ answer' = [answer EXCEPT ![r] = status]
    /\ pc' = [pc EXCEPT ![r] = "done"]

\* Mutant of Finish: the row gets what the process said.
FinishRaw(r) ==
    /\ pc[r] = "running" /\ proc[r] \in {"ok", "bad"}
    /\ Report(r, proc[r])
    /\ UNCHANGED <<job, proc, cmd, payload, files, history>>

\* subprocess.run returned: ok for exit status 0, error for any other.
Finish(r) ==
    /\ pc[r] = "running" /\ proc[r] \in {"ok", "bad"}
    /\ Report(r, IF proc[r] = "ok" THEN "ok" ELSE "error")
    /\ UNCHANGED <<job, proc, cmd, payload, files, history>>

\* Mutant of TimedOut: subprocess.run is called without a timeout.
TimedOutNever(r) ==
    /\ FALSE
    /\ UNCHANGED vars

\* 300 s are over: subprocess.run kills taskman2 and raises TimeoutExpired.
TimedOut(r) ==
    /\ pc[r] = "running" /\ Alive(r)
    /\ proc' = [proc EXCEPT ![r] = "killed"]
    /\ Report(r, "timeout")
    /\ UNCHANGED <<job, cmd, payload, files, history>>

\* subprocess.run raises anything but TimeoutExpired (no process to be had, output
\* that does not decode), killing taskman2 on the way out, or the last _job_set
\* raises: nothing catches it, and the row stays as it is.
RunFails(r) ==
    /\ pc[r] = "running" /\ Fault
    /\ proc' = [proc EXCEPT ![r] = IF Alive(r) THEN "killed" ELSE @]
    /\ answer' = [answer EXCEPT ![r] = "failed"]
    /\ pc' = [pc EXCEPT ![r] = "done"]
    /\ UNCHANGED <<job, cmd, payload, files, row, shared>>

\* The API dies: its handlers are gone, their processes are not.
Crash ==
    /\ Fault
    /\ \E r \in Run : pc[r] = "running"
    /\ pc' = [r \in Run |-> IF pc[r] = "running" THEN "lost" ELSE pc[r]]
    /\ UNCHANGED <<job, proc, cmd, payload, files, row, answer, shared>>

-----------------------------------------------------------------------------
(* taskman2 *)

\* main loads the job file, which does not parse when torn; run_job applies its
\* edits.
ReadJob(r) ==
    /\ proc[r] = "started" /\ jobFile[job[r]] # Torn
    /\ payload' = [payload EXCEPT ![r] = jobFile[job[r]]]
    /\ proc' = [proc EXCEPT ![r] = "working"]
    /\ UNCHANGED <<job, handler, cmd, files, history>>

\* run_cmd starts a command and waits for it.
StartCommand(r) ==
    /\ proc[r] = "working" /\ ~Waits(r)
    /\ cmd' = [cmd EXCEPT ![r] = "running"]
    /\ UNCHANGED <<job, handler, proc, payload, files, history>>

\* It ends, also when taskman2 is gone, or run_cmd's timeout kills it: the direct
\* child, bash or the program.  What that one started, or put in the background,
\* goes on by itself.
CommandEnds(r) ==
    /\ Waits(r)
    /\ \E after \in {"none", "left"} : cmd' = [cmd EXCEPT ![r] = after]
    /\ UNCHANGED <<job, handler, proc, payload, files, history>>

\* ... until it ends.
LeftoversEnd(r) ==
    /\ cmd[r] = "left"
    /\ cmd' = [cmd EXCEPT ![r] = "none"]
    /\ UNCHANGED <<job, handler, proc, payload, files, history>>

\* Mutant of OpenResult: it does not wait for the last command.
OpenResultEarly(r) ==
    /\ proc[r] = "working"
    /\ resultFile' = [resultFile EXCEPT ![job[r]] = Torn]
    /\ proc' = [proc EXCEPT ![r] = "writing"]
    /\ UNCHANGED <<job, handler, cmd, payload, jobFile, history>>

\* run_job is over; write_text truncates the result file ...
OpenResult(r) ==
    /\ proc[r] = "working" /\ ~Waits(r)
    /\ resultFile' = [resultFile EXCEPT ![job[r]] = Torn]
    /\ proc' = [proc EXCEPT ![r] = "writing"]
    /\ UNCHANGED <<job, handler, cmd, payload, jobFile, history>>

\* Mutant of WriteResult: the process ends well without its result file.
WriteNoResult(r) ==
    /\ proc[r] = "writing"
    /\ proc' = [proc EXCEPT ![r] = "ok"]
    /\ UNCHANGED <<job, handler, cmd, payload, files, history>>

\* ... and writes it; taskman2 exits with 0.
WriteResult(r) ==
    /\ proc[r] = "writing"
    /\ resultFile' = [resultFile EXCEPT ![job[r]] = r]
    /\ proc' = [proc EXCEPT ![r] = "ok"]
    /\ UNCHANGED <<job, handler, cmd, payload, jobFile, history>>

\* An exception ends taskman2: the job file does not parse, an edit raises,
\* its output has no reader any more.  run_cmd lets none out, so no command
\* is running then.
ProcessFails(r) ==
    /\ Alive(r) /\ ~Waits(r)
    /\ proc' = [proc EXCEPT ![r] = "bad"]
    /\ UNCHANGED <<job, handler, cmd, payload, files, history>>

-----------------------------------------------------------------------------
Init ==
    /\ job = [r \in Run |-> None] /\ pc = [r \in Run |-> "new"]
    /\ proc = [r \in Run |-> "none"] /\ cmd = [r \in Run |-> "none"]
    /\ payload = [r \in Run |-> None]
    /\ jobFile = [j \in Job |-> None] /\ resultFile = [j \in Job |-> None]
    /\ row = [j \in Job |-> "absent"] /\ answer = [r \in Run |-> "none"]
    /\ shared = {} /\ faults = 0

Handler(r) == Finish(r) \/ TimedOut(r)
Process(r) ==
    \/ ReadJob(r) \/ StartCommand(r) \/ CommandEnds(r) \/ LeftoversEnd(r)
    \/ OpenResult(r) \/ WriteResult(r) \/ ProcessFails(r)

Next ==
    \/ Crash
    \/ \E r \in Run : \/ Handler(r) \/ RunFails(r) \/ Process(r)
                      \/ \E j \in Job : Start(r, j) \/ StartFails(r, j)

Spec == Init /\ [][Next]_vars

\* subprocess.run returns when taskman2 ends and at the latest after 300 s,
\* and the event loop resumes the handler that awaits it.  Nothing is assumed
\* of taskman2 and of the commands: they may hang.
FairSpec == Spec /\ \A r \in Run : WF_vars(Handler(r))

-----------------------------------------------------------------------------
(* Properties *)

\* The types of the variables.
TypeOK ==
    /\ job \in [Run -> Job \cup {None}]
    /\ pc \in [Run -> {"new", "running", "done", "lost"}]
    /\ proc \in [Run -> {"none", "started", "working", "writing", "ok", "bad", "killed"}]
    /\ cmd \in [Run -> {"none", "running", "left"}]
    /\ payload \in [Run -> Run \cup {None}]
    /\ jobFile \in [Job -> Run \cup {None, Torn}]
    /\ resultFile \in [Job -> Run \cup {None, Torn}]
    /\ row \in [Job -> Final \cup {"absent", "running"}]
    /\ answer \in [Run -> Final \cup {"none", "failed"}]
    /\ shared \subseteq Run /\ faults \in 0..MaxFaults

\* When agent_run answers ok for a run that met no other run of its id, the
\* result file it names is that run's, complete, and made from its own job
\* file, whatever earlier runs of the id (timed out, crashed) left behind.
OkWithOwnResult ==
    \A r \in Run \ shared : answer[r] # "ok" /\ answer'[r] = "ok"
        => payload[r] = r /\ resultFile[job[r]] = r
OwnResult == [][OkWithOwnResult]_vars

\* The row agent_run keeps and the runs agree: a run alone on its id is shown as
\* running until it reports; a row shown as running has a run that will report, or
\* one that began and cannot, as the API died under it or its handler answered
\* 500; and a final status is the answer some run gave.
RowTracksRuns ==
    /\ \A r \in Run \ shared : pc[r] = "running" => row[job[r]] = "running"
    /\ \A j \in Job : row[j] = "running" =>
           \E r \in Run : /\ job[r] = j /\ proc[r] # "none"
                          /\ pc[r] \in {"running", "lost"} \/ answer[r] = "failed"
    /\ \A j \in Job : row[j] \in Final =>
           \E r \in Run : job[r] = j /\ answer[r] = row[j]

\* After agent_run's answer the job's program is over: taskman2 is gone, so no
\* further command starts, and none it waited for is running, except that a
\* timeout or an exception in the handler leaves that one behind.  What the
\* commands themselves left behind is another matter, whatever the answer.
QuietAfterAnswer ==
    \A r \in Run : pc[r] = "done" =>
        /\ ~Alive(r)
        /\ Waits(r) => answer[r] \in {"timeout", "failed"}

\* A request is answered, however long taskman2 or a command takes, unless
\* the API dies.
EventuallyAnswered == \A r \in Run : pc[r] = "running" ~> Over(r)

\* What knowledge.md:86 says of /agent/run, it "RECORDS each run into the Task Board
\* (running -> ok/error/timeout)": a handler that ends leaves a final status.
RunsRecorded ==
    [][\A r \in Run : pc[r] = "running" /\ pc'[r] = "done" => row'[job[r]] \in Final]_vars
=============================================================================
