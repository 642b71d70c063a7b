----------------------------- MODULE LlamaServer -----------------------------
(***************************************************************************)
(* The task queue of llama-server, the process manage.py starts as the     *)
(* persona backend: server_queue, server_response, server_response_reader  *)
(* (server-queue.cpp) and the slots of server_context (server-context.cpp).*)
(*                                                                         *)
(* One main thread runs server_queue::start_loop; every HTTP request has a *)
(* thread of its own that posts tasks, waits for their results and cancels *)
(* what it no longer wants.  They share queue_tasks, queue_tasks_deferred, *)
(* sleeping and req_stop_sleeping under mutex_tasks, and waiting_task_ids  *)
(* and queue_results under mutex_results.  A step below is what a thread   *)
(* does between two acquisitions of a mutex; the slots belong to the main  *)
(* thread.                                                                 *)
(*                                                                         *)
(* Abstractions.  Which idle slot an unpinned task gets depends on cached  *)
(* prompts and on the clock: any idle slot.  A prompt fits one batch; the  *)
(* number of tokens a task generates is any number up to MaxTokens         *)
(* (n_predict); decoding may fail.  A request posts one task, with at most *)
(* one child (n_cmpl = 2).                                                 *)
(***************************************************************************)
EXTENDS Integers, Sequences, FiniteSets, SequencesExt, SeqOps

CONSTANTS
    Request,        \* HTTP requests that reach the server
    NSlots,         \* --parallel
    Shapes,         \* what each request may ask for: sets of ShapeType
    MaxTokens,      \* n_predict, the bound on generated tokens
    SleepEnabled,   \* --sleep-idle-seconds given
    AnySlot, None

Slot == 1 .. NSlots

\* kind "gen" is a completion, "op" a save, restore or erase of one slot;
\* slot is id_slot, kids the number of child tasks, stream as in the request.
ShapeType == [kind : {"gen", "op"}, slot : Slot \cup {AnySlot},
              kids : {0, 1}, stream : BOOLEAN]

\* An operation names its slot and has no children; n_cmpl is at most the
\* number of slots (server-task.cpp:505).
ASSUME ShapesAssumption ==
    /\ NSlots \in Nat \ {0}
    /\ MaxTokens \in Nat \ {0}
    /\ SleepEnabled \in BOOLEAN
    /\ AnySlot \notin Slot
    /\ Shapes \in [Request -> SUBSET ShapeType]
    /\ \A r \in Request : \A sh \in Shapes[r] :
          /\ sh.kids < NSlots
          /\ sh.kind = "op" => sh.slot # AnySlot /\ sh.kids = 0 /\ ~sh.stream

VARIABLES
    queue,      \* queue_tasks: entries [type, id]
    deferred,   \* queue_tasks_deferred: task ids
    sleeping,   \* server_queue::sleeping
    reqStop,    \* server_queue::req_stop_sleeping
    waiting,    \* server_response::waiting_task_ids
    results,    \* server_response::queue_results: [id, kind]
    slot,       \* server_context::slots: [st, task, n]
    pc,         \* where the main thread is in start_loop
    hand,       \* the entry the main thread popped and is processing
    cursor,     \* slot loop index inside update_slots
    rd          \* the HTTP threads and their readers: [pc, shape, got]

vars == <<queue, deferred, sleeping, reqStop, waiting, results, slot, pc,
          hand, cursor, rd>>
tasksVars == <<queue, deferred, sleeping, reqStop>>
resultVars == <<waiting, results>>
mainVars == <<slot, pc, hand, cursor>>

-----------------------------------------------------------------------------
(* Tasks *)

\* A task id is the request and 0 for its task, 1 for the child task.
TaskId == Request \X {0, 1}
Owner(t) == t[1]
IsChild(t) == t[2] = 1
Shape(r) == rd[r].shape
Ids(r) == {r} \X (0 .. Shape(r).kids)

Run(t)    == [type |-> "run", id |-> t]
Cancel(t) == [type |-> "cancel", id |-> t]
NextResponse == [type |-> "next", id |-> None]
Entry == [type : {"run", "cancel"}, id : TaskId] \cup {NextResponse}
Result == [id : TaskId, kind : {"partial", "final", "error"}]

\* None stands for no task, no entry and no shape.
ASSUME NoneAssumption == None \notin TaskId \cup Entry \cup ShapeType

\* task.id_slot, what pop_deferred_task compares: a slot operation keeps its
\* slot in slot_action.id_slot and leaves id_slot at -1.
IdSlot(t) == IF Shape(Owner(t)).kind = "op" THEN AnySlot ELSE Shape(Owner(t)).slot

IdleSlot == [st |-> "idle", task |-> None, n |-> 0]
Processing(s) == slot[s].st # "idle"
Idle == {s \in Slot : ~Processing(s)}

\* server_response::send: a result nobody waits for is dropped.
Send(t, kind, w, q) ==
    IF t \in w THEN Append(q, [id |-> t, kind |-> kind]) ELSE q

\* pop_deferred_task: the first task that names slot s, else the first one.
PopIndex(s) ==
    LET named == {i \in DOMAIN deferred : IdSlot(deferred[i]) = s}
    IN  IF named # {} THEN Min(named) ELSE 1

\* Mutant of Release: the deferred task is copied to the queue, not moved.
ReleaseCopiesDeferred(s) ==
    /\ slot' = [slot EXCEPT ![s] = IdleSlot]
    /\ queue' = IF deferred = <<>> THEN queue
                ELSE <<Run(deferred[PopIndex(s)])>> \o queue
    /\ UNCHANGED deferred

\* server_slot::release with callback_on_release: the slot goes idle and one
\* deferred task moves to the front of the queue.
Release(s) ==
    /\ slot' = [slot EXCEPT ![s] = IdleSlot]
    /\ queue' = IF deferred = <<>> THEN queue
                ELSE <<Run(deferred[PopIndex(s)])>> \o queue
    /\ deferred' = IF deferred = <<>> THEN deferred
                   ELSE RemoveAt(deferred, PopIndex(s))

\* The slot stops with a last result for its task.
Finish(s, kind) ==
    /\ results' = Send(slot[s].task, kind, waiting, results)
    /\ Release(s)
    /\ UNCHANGED waiting

-----------------------------------------------------------------------------
(* The HTTP threads *)

\* create_response calls wait_until_no_sleep: it passes an awake server, and
\* asks a sleeping one to wake up.
Arrive(r) ==
    /\ rd[r].pc = "new"
    /\ \E sh \in Shapes[r] :
          rd' = [rd EXCEPT ![r] = [pc |-> IF sleeping THEN "gate" ELSE "prepare",
                                   shape |-> sh, got |-> {}]]
    /\ reqStop' = (reqStop \/ sleeping)
    /\ UNCHANGED <<queue, deferred, sleeping, resultVars, mainVars>>

\* The wait inside wait_until_no_sleep ends.
PassGate(r) ==
    /\ rd[r].pc = "gate" /\ ~sleeping
    /\ rd' = [rd EXCEPT ![r].pc = "prepare"]
    /\ UNCHANGED <<tasksVars, resultVars, mainVars>>

\* The prompt is tokenized; post_tasks registers the ids and then puts the
\* task into the queue.  No other thread knows the ids before the second half,
\* so the two are one step.
Post(r) ==
    /\ rd[r].pc = "prepare"
    /\ waiting' = waiting \cup Ids(r)
    /\ queue' = Append(queue, Run(<<r, 0>>))
    /\ rd' = [rd EXCEPT ![r].pc = "read"]
    /\ UNCHANGED <<deferred, sleeping, reqStop, results, mainVars>>

Pending(r) == {i \in DOMAIN results : results[i].id \in Ids(r)}

\* next(): the oldest result of this reader.  A partial one is passed on, a
\* final one counts, an error ends the request; so does the last final one.
Receive(r) ==
    /\ rd[r].pc = "read" /\ Pending(r) # {}
    /\ LET i   == Min(Pending(r))
           res == results[i]
           got == IF res.kind = "final" THEN rd[r].got \cup {res.id} ELSE rd[r].got
       IN  /\ results' = RemoveAt(results, i)
           /\ rd' = [rd EXCEPT ![r].got = got,
                               ![r].pc = IF res.kind = "error" \/ got = Ids(r)
                                         THEN "stop" ELSE "read"]
    /\ UNCHANGED <<tasksVars, waiting, mainVars>>

\* should_stop() says the client is gone: asked when recv_with_timeout ran out,
\* and by a stream before each chunk, when results may be there.
ClientGone(r) ==
    /\ rd[r].pc = "read"
    /\ Pending(r) = {} \/ Shape(r).stream
    /\ rd' = [rd EXCEPT ![r].pc = "stop"]
    /\ UNCHANGED <<tasksVars, resultVars, mainVars>>

\* Mutant of StopForget: the ids stay in waiting_task_ids.
StopForgetKeepsIds(r) ==
    /\ rd[r].pc = "stop"
    /\ rd' = [rd EXCEPT ![r].pc = IF rd[r].got = Ids(r) THEN "closed" ELSE "cancel"]
    /\ UNCHANGED <<tasksVars, resultVars, mainVars>>

\* stop(), first half: the ids are no longer waited for.  If every task has
\* sent its final result there is nothing to cancel.
StopForget(r) ==
    /\ rd[r].pc = "stop"
    /\ waiting' = waiting \ Ids(r)
    /\ rd' = [rd EXCEPT ![r].pc = IF rd[r].got = Ids(r) THEN "closed" ELSE "cancel"]
    /\ UNCHANGED <<tasksVars, results, mainVars>>

\* Mutant of StopCancel: cleanup_pending_task empties the deferred queue.
StopCancelDropsDeferred(r) ==
    /\ rd[r].pc = "cancel"
    /\ results' = Filter(results, {res \in Result : res.id \notin Ids(r)})
    /\ deferred' = <<>>
    /\ \E order \in SetToSeqs({Cancel(t) : t \in Ids(r)}) :
          queue' = order \o Filter(queue, Entry \ {Run(t) : t \in Ids(r)})
    /\ rd' = [rd EXCEPT ![r].pc = "closed"]
    /\ UNCHANGED <<sleeping, reqStop, waiting, mainVars>>

\* stop(), second half: the results still queued are erased and a cancel task
\* per id goes to the front of the queue; post() removes the pending tasks.
\* From StopForget on no thread but this one touches the results of these
\* ids, so erasing them and posting is one step.
StopCancel(r) ==
    /\ rd[r].pc = "cancel"
    /\ results' = Filter(results, {res \in Result : res.id \notin Ids(r)})
    /\ deferred' = Filter(deferred, TaskId \ Ids(r))
    /\ \E order \in SetToSeqs({Cancel(t) : t \in Ids(r)}) :
          queue' = order \o Filter(queue, Entry \ {Run(t) : t \in Ids(r)})
    /\ rd' = [rd EXCEPT ![r].pc = "closed"]
    /\ UNCHANGED <<sleeping, reqStop, waiting, mainVars>>

-----------------------------------------------------------------------------
(* The main thread: start_loop *)

\* The inner loop takes the first task; with an empty queue it goes on to
\* update_slots.
TakeTask ==
    /\ pc = "take"
    /\ IF queue = <<>>
       THEN pc' = "update" /\ UNCHANGED <<queue, hand>>
       ELSE /\ hand' = Head(queue)
            /\ queue' = Tail(queue)
            /\ pc' = "handle"
    /\ UNCHANGED <<deferred, sleeping, reqStop, resultVars, slot, cursor, rd>>

Handled == pc' = "take" /\ hand' = None /\ UNCHANGED <<sleeping, reqStop, cursor, rd>>

\* The slots a completion may be launched in: the one it names, else an idle
\* one; a parent needs another idle slot for its child.
Candidates(t) ==
    LET sh == Shape(Owner(t))
    IN  {s \in Idle : /\ sh.slot \in {AnySlot, s}
                      /\ sh.kids <= Cardinality(Idle \ {s})}

\* process_single_task, no slot: the task is deferred.
DeferTask ==
    /\ pc = "handle" /\ hand.type = "run"
    /\ Candidates(hand.id) = {}
    /\ deferred' = Append(deferred, hand.id)
    /\ Handled
    /\ UNCHANGED <<queue, resultVars, slot>>

\* process_single_task, completion: the task takes its slot; its child takes
\* the first other idle slot and waits there for the parent's prompt.
Launch ==
    /\ pc = "handle" /\ hand.type = "run"
    /\ Shape(Owner(hand.id)).kind = "gen"
    /\ \E s \in Candidates(hand.id) :
          LET kid == IF Shape(Owner(hand.id)).kids = 1 THEN Min(Idle \ {s}) ELSE 0
          IN  slot' = [x \in Slot |->
                 CASE x = s   -> [st |-> "started", task |-> hand.id, n |-> 0]
                   [] x = kid -> [st |-> "wait_other", task |-> <<Owner(hand.id), 1>>, n |-> 0]
                   [] OTHER   -> slot[x]]
    /\ Handled
    /\ UNCHANGED <<queue, deferred, resultVars>>

\* launch_slot_with_task refuses the task (an invalid grammar or prompt): an
\* error is sent and the task dropped.  The child is launched first: when it
\* is refused the error is the child's, when the parent is, the child's slot
\* is released again.
LaunchFails ==
    /\ pc = "handle" /\ hand.type = "run"
    /\ Shape(Owner(hand.id)).kind = "gen"
    /\ \E s \in Candidates(hand.id) :
          \/ /\ Shape(Owner(hand.id)).kids = 0
             /\ results' = Send(hand.id, "error", waiting, results)
             /\ UNCHANGED <<queue, deferred, slot>>
          \/ /\ Shape(Owner(hand.id)).kids = 1
             /\ results' = Send(<<Owner(hand.id), 1>>, "error", waiting, results)
             /\ UNCHANGED <<queue, deferred, slot>>
          \/ /\ Shape(Owner(hand.id)).kids = 1
             /\ results' = Send(hand.id, "error", waiting, results)
             /\ Release(Min(Idle \ {s}))
    /\ Handled
    /\ UNCHANGED waiting

\* process_single_task, slot save, restore or erase on an idle slot: done at
\* once, or refused with an error.
SlotOperation ==
    /\ pc = "handle" /\ hand.type = "run"
    /\ Shape(Owner(hand.id)).kind = "op"
    /\ Candidates(hand.id) # {}
    /\ \E kind \in {"final", "error"} :
          results' = Send(hand.id, kind, waiting, results)
    /\ Handled
    /\ UNCHANGED <<queue, deferred, waiting, slot>>

\* process_single_task, cancel: the slot that runs the task is released.
CancelTask ==
    /\ pc = "handle" /\ hand.type = "cancel"
    /\ IF \E s \in Slot : slot[s].task = hand.id
       THEN \E s \in Slot : slot[s].task = hand.id /\ Release(s)
       ELSE UNCHANGED <<queue, deferred, slot>>
    /\ Handled
    /\ UNCHANGED resultVars

\* process_single_task, NEXT_RESPONSE: nothing to do.
SkipNextResponse ==
    /\ pc = "handle" /\ hand.type = "next"
    /\ Handled
    /\ UNCHANGED <<queue, deferred, resultVars, slot>>

\* Mutant of UpdateSlots: NEXT_RESPONSE is not posted.
UpdateSlotsWithoutNext ==
    /\ pc = "update"
    /\ pc' = IF Idle = Slot THEN "wait" ELSE "prompt"
    /\ UNCHANGED <<tasksVars, resultVars, slot, hand, cursor, rd>>

\* update_slots: returns when all slots are idle, else posts NEXT_RESPONSE so
\* that the loop comes back, and looks at the slots in order.
UpdateSlots ==
    /\ pc = "update"
    /\ IF Idle = Slot
       THEN pc' = "wait" /\ UNCHANGED queue
       ELSE pc' = "prompt" /\ queue' = Append(queue, NextResponse)
    /\ UNCHANGED <<deferred, sleeping, reqStop, resultVars, slot, hand, cursor, rd>>

\* The slots from the cursor on that are in one of the states S.
From(S) == {s \in Slot : s >= cursor /\ slot[s].st \in S}

\* update_slots, pending prompts: a started slot puts its prompt into the
\* batch; an empty prompt is answered at once, one that does not fit the
\* context is refused.
StartPrompt ==
    /\ pc = "prompt" /\ From({"started"}) # {}
    /\ LET s == Min(From({"started"}))
       IN  /\ cursor' = s + 1
           /\ \/ /\ slot' = [slot EXCEPT ![s].st = "done_prompt"]
                 /\ UNCHANGED <<queue, deferred, resultVars>>
              \/ Finish(s, "final")
              \/ Finish(s, "error")
    /\ UNCHANGED <<sleeping, reqStop, pc, hand, rd>>

Active == {s \in Slot : slot[s].st \in {"done_prompt", "generating"}}
ParentDone(s) ==
    \E p \in Slot : slot[p].st = "done_prompt" /\ slot[p].task = <<Owner(slot[s].task), 0>>

\* llama_decode: on success a parent that has its prompt shares it with its
\* waiting child; on failure every processing slot is given up; with nothing
\* in the batch nothing happens.
Decode ==
    /\ pc = "prompt" /\ From({"started"}) = {}
    /\ cursor' = 1
    /\ IF Active = {} THEN pc' = "wait" /\ UNCHANGED slot
       ELSE \/ /\ pc' = "sample"
               /\ slot' = [s \in Slot |->
                     IF slot[s].st = "wait_other" /\ ParentDone(s)
                     THEN [slot[s] EXCEPT !.st = "done_prompt"] ELSE slot[s]]
            \/ pc' = "fail" /\ UNCHANGED slot
    /\ UNCHANGED <<tasksVars, resultVars, hand, rd>>

\* update_slots after a failed decode: error and release, slot by slot.
FailSlot ==
    /\ pc = "fail"
    /\ LET busy == {s \in Slot : s >= cursor /\ Processing(s)}
       IN  IF busy = {}
           THEN pc' = "wait" /\ cursor' = 1 /\ UNCHANGED <<queue, deferred, resultVars, slot>>
           ELSE /\ Finish(Min(busy), "error")
                /\ cursor' = Min(busy) + 1
                /\ UNCHANGED pc
    /\ UNCHANGED <<sleeping, reqStop, hand, rd>>

\* Mutant of SampleSlot: the token budget is not looked at.
SampleSlotNoBudget ==
    /\ pc = "sample"
    /\ IF From({"done_prompt", "generating"}) = {}
       THEN pc' = "wait" /\ cursor' = 1 /\ UNCHANGED <<queue, deferred, resultVars, slot>>
       ELSE LET s == Min(From({"done_prompt", "generating"}))
            IN  /\ cursor' = s + 1
                /\ UNCHANGED pc
                /\ \/ Finish(s, "final")
                   \/ /\ slot' = [slot EXCEPT ![s].st = "generating", ![s].n = @ + 1]
                      /\ UNCHANGED <<queue, deferred, resultVars>>
    /\ UNCHANGED <<sleeping, reqStop, hand, rd>>

\* update_slots, sampling: process_token streams the token, unless its text is
\* not complete yet, and then ends the task, which the token budget forces, or
\* goes on.
SampleSlot ==
    /\ pc = "sample"
    /\ IF From({"done_prompt", "generating"}) = {}
       THEN pc' = "wait" /\ cursor' = 1 /\ UNCHANGED <<queue, deferred, results, slot>>
       ELSE LET s == Min(From({"done_prompt", "generating"}))
                t == slot[s].task
                streamed == IF Shape(Owner(t)).stream
                            THEN {results, Send(t, "partial", waiting, results)}
                            ELSE {results}
            IN  /\ cursor' = s + 1
                /\ UNCHANGED pc
                /\ \E out \in streamed :
                      \/ results' = Send(t, "final", waiting, out) /\ Release(s)
                      \/ /\ slot[s].n + 1 < MaxTokens
                         /\ slot' = [slot EXCEPT ![s].st = "generating", ![s].n = @ + 1]
                         /\ results' = out
                         /\ UNCHANGED <<queue, deferred>>
    /\ UNCHANGED <<sleeping, reqStop, waiting, hand, rd>>

\* The outer loop: back to the queue as soon as it holds a task.
Wait ==
    /\ pc = "wait" /\ queue # <<>>
    /\ pc' = "take"
    /\ UNCHANGED <<tasksVars, resultVars, slot, hand, cursor, rd>>

\* No task for idle_sleep_ms: the model is unloaded, under the mutex.
FallAsleep ==
    /\ SleepEnabled
    /\ pc = "wait" /\ queue = <<>>
    /\ sleeping' = TRUE /\ reqStop' = FALSE
    /\ pc' = "asleep"
    /\ UNCHANGED <<queue, deferred, resultVars, slot, hand, cursor, rd>>

\* A request asked for it: the model is loaded again and the loop goes on.
WakeUp ==
    /\ pc = "asleep" /\ reqStop
    /\ sleeping' = FALSE /\ reqStop' = FALSE
    /\ pc' = "take"
    /\ UNCHANGED <<queue, deferred, resultVars, slot, hand, cursor, rd>>

-----------------------------------------------------------------------------
Init ==
    /\ queue = <<>> /\ deferred = <<>>
    /\ sleeping = FALSE /\ reqStop = FALSE
    /\ waiting = {} /\ results = <<>>
    /\ slot = [s \in Slot |-> IdleSlot]
    /\ pc = "take" /\ hand = None /\ cursor = 1
    /\ rd = [r \in Request |-> [pc |-> "new", shape |-> None, got |-> {}]]

ReaderStep(r) ==
    \/ PassGate(r) \/ Post(r) \/ Receive(r)
    \/ StopForget(r) \/ StopCancel(r)

MainStep ==
    \/ TakeTask \/ DeferTask \/ Launch \/ LaunchFails \/ SlotOperation
    \/ CancelTask \/ SkipNextResponse \/ UpdateSlots \/ StartPrompt \/ Decode
    \/ FailSlot \/ SampleSlot \/ Wait \/ WakeUp

Next ==
    \/ MainStep
    \/ FallAsleep
    \/ \E r \in Request : Arrive(r) \/ ClientGone(r) \/ ReaderStep(r)

Spec == Init /\ [][Next]_vars

\* Every thread that can run is scheduled.  Nobody owes the server a request,
\* a disconnect or an idle period.
FairSpec ==
    /\ Spec
    /\ WF_vars(MainStep)
    /\ \A r \in Request : WF_vars(ReaderStep(r))
-----------------------------------------------------------------------------
(* Properties *)

\* Type invariant of the queues, the slots, the main thread and the readers.
TypeOK ==
    /\ queue \in Seq(Entry) /\ deferred \in Seq(TaskId)
    /\ sleeping \in BOOLEAN /\ reqStop \in BOOLEAN
    /\ waiting \subseteq TaskId
    /\ results \in Seq(Result)
    /\ slot \in [Slot -> [st : {"idle", "started", "wait_other", "done_prompt",
                                "generating"},
                          task : TaskId \cup {None}, n : 0 .. MaxTokens - 1]]
    /\ pc \in {"take", "handle", "update", "prompt", "fail", "sample", "wait",
               "asleep"}
    /\ hand \in Entry \cup {None}
    /\ cursor \in 1 .. NSlots + 1
    /\ rd \in [Request ->
                 [pc : {"new", "gate", "prepare", "read", "stop", "cancel", "closed"},
                  shape : ShapeType \cup {None}, got : SUBSET TaskId]]

\* The places a task can be in before it has ended.
Places(t) ==
    {<<"queue", i>> : i \in {i \in DOMAIN queue : queue[i] = Run(t)}}
    \cup {<<"deferred", i>> : i \in {i \in DOMAIN deferred : deferred[i] = t}}
    \cup {<<"hand", 1>> : i \in {i \in {1} : hand = Run(t)}}
    \cup {<<"slot", s>> : s \in {s \in Slot : slot[s].task = t}}

\* The final or error results of a task that its reader has not taken yet.
Ends(t) == {i \in DOMAIN results : results[i].id = t /\ results[i].kind # "partial"}

\* A task is queued, deferred, in the main thread's hand, in one slot or over,
\* and only one of these: it is never run twice and never ends twice
\* (wait_for_all asserts "duplicate result received").  Moving tasks between
\* the two queues, cancelling them and releasing slots must keep it so.
RunsOnce ==
    \A t \in TaskId :
        Cardinality(Places(t)) + Cardinality(Ends(t))
          + (IF t \in rd[Owner(t)].got THEN 1 ELSE 0) <= 1

\* A task somebody waits for is never lost: until its reader has the final
\* result, the task is in play (a child: inside its parent until it is
\* launched), or its result or an error for the request is on its way.
NothingLost ==
    \A r \in Request : rd[r].pc = "read" =>
        \A t \in Ids(r) \ rd[r].got :
            \/ Places(t) # {} \/ Ends(t) # {}
            \/ \E u \in Ids(r), i \in DOMAIN results :
                  results[i] = [id |-> u, kind |-> "error"]
            \/ IsChild(t) /\ {pl \in Places(<<r, 0>>) : pl[1] # "slot"} # {}

\* A reader that is gone leaves no result behind: results nobody will read
\* would stay in queue_results for ever.  stop() relies on the ids being
\* forgotten before the results are erased, and on a task sending nothing
\* after its final result.
NoStrayResults ==
    \A i \in DOMAIN results :
        rd[Owner(results[i].id)].pc \in {"read", "stop", "cancel"}

\* The main thread sleeps over a task that was posted by a request which had
\* passed wait_until_no_sleep before.
Oversleeping == sleeping /\ queue # <<>>
\* Tasks are deferred although no slot is in use, and nothing that could
\* release one is on its way.
Stranded ==
    /\ deferred # <<>> /\ Idle = Slot
    /\ pc \in {"wait", "asleep"} /\ queue = <<>>
\* A child waits, in a slot it keeps from others, for the prompt of a parent
\* that has left its slot.
Orphaned ==
    \E s \in Slot : /\ slot[s].st = "wait_other"
                    /\ \A p \in Slot : slot[p].task # <<Owner(slot[s].task), 0>>

\* Every request that reads is answered (all its final results or an error)
\* or gives up, unless the server is in one of the three states above: they
\* are the only ways in which a posted task can wait for ever.
Answered ==
    \A r \in Request : rd[r].pc = "read" ~>
        (rd[r].pc # "read" \/ Oversleeping \/ Stranded \/ Orphaned)

\* A request that is over gives back every slot it used, children that wait
\* for their parent's prompt included.
SlotsFreed ==
    \A r \in Request : rd[r].pc = "closed" ~>
        \A s \in Slot : slot[s].task \notin {r} \X {0, 1}

\* Comment at server-context.cpp:1681: "if no slot is available, we defer this
\* task for processing later".
DeferredServed ==
    \A t \in TaskId :
        (\E i \in DOMAIN deferred : deferred[i] = t)
          ~> ~(\E i \in DOMAIN deferred : deferred[i] = t)

\* tools/server/README.md:1690: "Any new incoming task will automatically
\* trigger the model to reload."
TaskWakesServer == Oversleeping ~> ~sleeping
=============================================================================
