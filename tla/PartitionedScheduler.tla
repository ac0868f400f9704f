------------------------ MODULE PartitionedScheduler ------------------------
(***************************************************************************)
(* partitioned_scheduler_t: a fixed number of executor threads, each the   *)
(* owner of some tasks (one per action and one garbage collection task per *)
(* component instance).  An executor runs the tasks of its idle list round *)
(* robin; a task locks the instances of its set in one global order, runs  *)
(* as a transaction, unlocks them and goes back to the idle list.  A task  *)
(* that blocks is left in the queue of the lock (module InfoLock) and put  *)
(* on its executor's ready list by whoever grants it the lock.  Executors  *)
(* form a ring and agree by messages that no task is enabled any more:     *)
(* every task skipped once (SHOOT_DOWN), everybody waiting (WAIT1), every  *)
(* task skipped once more (DOUBLE_CHECK), everybody waiting (WAIT2).       *)
(*                                                                         *)
(* One step is one critical section (the spinlock of a lock, the mutex_ of *)
(* an executor's ready list and message queue) or one stretch of           *)
(* thread-local code together with the critical section that ends it.      *)
(***************************************************************************)
EXTENDS InfoLock, Integers, Sequences, FiniteSets

CONSTANTS
  N,          \* thread_count
  TaskCount,  \* number of tasks; tasks are numbered in creation order
  Instance,   \* component instances, numbered in the order of the InstanceSet map
  Owner,      \* task_t::executor, chosen by rand () in initialize_task
  Access,     \* set () of a task: instance -> AccessNone | AccessRead | AccessWrite
  Programs,   \* [always, fd, enables]: the tasks that are always_task_t, the actions
              \* that wait for a descriptor, and the bound on credit
  GcTask,     \* gc_task_t
  Start       \* the sets of tasks the initializers may leave enabled

Executor == 0 .. N - 1
Task == 1 .. TaskCount
AccessKind == {"None", "Read", "Write"}

ASSUME ConstantsAssumption ==
  /\ N \in Nat \ {0}
  /\ TaskCount \in Nat
  /\ Instance \subseteq Nat /\ IsFiniteSet(Instance)
  /\ Owner \in [Task -> Executor]
  /\ \A t \in Task : /\ DOMAIN Access[t] \in (SUBSET Instance) \ {{}}
                     /\ \A i \in DOMAIN Access[t] : Access[t][i] \in AccessKind
  /\ Programs \subseteq [always : SUBSET Task, fd : SUBSET Task, enables : Nat]
  /\ GcTask \subseteq Task
  /\ Start \subseteq SUBSET Task

VARIABLES
  AlwaysTask, \* always_task_t: the precondition is the literal true
  FdTask,     \* actions whose precondition is that a file descriptor is ready
  (* the program being run, as the scheduler sees it *)
  enabled,   \* tasks whose precondition holds now (a gc task: the heap is due)
  credit,    \* how many more times a task may become enabled
  (* tasks and locks *)
  lock,      \* info_t of every instance
  pos,       \* the instances of the task's lock order from task_t::pos_ on
  kind,      \* task_t::last_execution_kind_
  current,   \* task_t::generation_ equals the generation of its executor
  (* executors: lists, messages, descriptors *)
  idle, ready, mailbox,
  tracking,  \* track_file_descriptors_
  fds,       \* file_descriptor_map_, each descriptor named by its task
  usingEventfd, eventfd,
  (* executors: the locals of run_i *)
  pc, state, points, task, message, result,
  handoff    \* list h of the process_list the executor is in

programVars == <<enabled, credit>>
program == <<AlwaysTask, FdTask>> \* which the execution does not change
taskVars == <<lock, pos, kind, current>>
fdVars == <<tracking, fds, usingEventfd, eventfd>>
localVars == <<task, message, result, handoff>>
vars == <<enabled, credit, lock, pos, kind, current, idle, ready, mailbox,
          tracking, fds, usingEventfd, eventfd,
          pc, state, points, task, message, result, handoff>>

NoTask == 0
NoMessage == [kind |-> "NONE", id |-> 0]

Counting == {"NORMAL", "SHOOT_DOWN", "DOUBLE_CHECK"}
MessageKind == {"START_SHOOT_DOWN", "START_WAITING1", "START_DOUBLE_CHECK",
                "START_WAITING2", "TERMINATE", "RESET"}
Result == {"NONE", "SKIP", "HIT", "FIRST_SKIP", "FIRST_HIT"}
Pc == {"fetch", "lock", "run", "unlock", "wake", "break", "message", "decide",
       "asleep", "poll", "polled", "returned", "aborted"}

-----------------------------------------------------------------------------
(* Tasks and what running them does.                                       *)

Mine(e) == {t \in Task : Owner[t] = e}
TasksOf(e) == Cardinality(Mine(e))

(* Tasks in the order in which they were created.                          *)
InOrder == {s \in UNION {[1 .. n -> Task] : n \in 0 .. TaskCount} :
              \A j, k \in DOMAIN s : j < k => s[j] < s[k]}

(* An InstanceSet is a map ordered by instance, the same order for all;    *)
(* pos_ is at the first of the instances that are left.                    *)
InstancesOf(t) == DOMAIN Access[t]
LockAt(t) == CHOOSE i \in pos[t] : \A j \in pos[t] : i <= j

(* Committing t can change the truth of every precondition that looks at   *)
(* an instance t writes.  A collection makes itself undue and changes no   *)
(* precondition; only the outside world makes a descriptor ready.          *)
Touched(t) ==
  IF t \in GcTask THEN {t}
  ELSE {u \in Task \ FdTask :
          \E i \in DOMAIN Access[t] \cap DOMAIN Access[u] : Access[t][i] = "Write"}
       \cup ({t} \cap FdTask)

(* The transaction of t commits: some touched tasks are enabled now, the   *)
(* others are not, and each that has become so uses up credit.             *)
Commit(t) ==
  \E next \in SUBSET (Touched(t) \ (AlwaysTask \cup ({t} \cap GcTask))) :
    LET gained == (next \ enabled) \cup (next \cap {t}) IN
    /\ Cardinality(gained) <= credit
    /\ credit' = credit - Cardinality(gained)
    /\ enabled' = (enabled \ (Touched(t) \ AlwaysTask)) \cup next

-----------------------------------------------------------------------------
(* Waking an executor.  A signal reaches it only if it waits on cond_, and *)
(* is sent only when the list it puts something on was empty; the eventfd  *)
(* is written only while the executor polls or is about to.                *)

(* A plausible bug: the condition is signalled for every item but the first. *)
SignalLate(e, wasEmpty) == [pc EXCEPT ![e] = IF ~wasEmpty /\ @ = "asleep" THEN "fetch" ELSE @]

Signal(e, wasEmpty) == [pc EXCEPT ![e] = IF wasEmpty /\ @ = "asleep" THEN "fetch" ELSE @]

Send(e, m) ==
  LET n == (e + 1) % N IN
  /\ mailbox' = [mailbox EXCEPT ![n] = Append(@, m)]
  /\ eventfd' = [eventfd EXCEPT ![n] = @ \/ (mailbox[n] = <<>> /\ usingEventfd[n])]

(* Program counters after e has sent a message and goes on at p.           *)
SentTo(e, p) ==
  LET n == (e + 1) % N IN [Signal(n, mailbox[n] = <<>>) EXCEPT ![e] = p]

Goto(e, p) == pc' = [pc EXCEPT ![e] = p]

(* ++generation, points = 0: no task of e has run in the new generation.   *)
NewGeneration(e) ==
  /\ current' = [t \in Task |-> current[t] /\ Owner[t] # e]
  /\ points' = [points EXCEPT ![e] = 0]

Enter(e, s) == state' = [state EXCEPT ![e] = s]
Track(e, on) ==
  /\ tracking' = [tracking EXCEPT ![e] = on]
  /\ fds' = IF on THEN [fds EXCEPT ![e] = {}] ELSE fds

Msg(k, e) == [kind |-> k, id |-> e]

-----------------------------------------------------------------------------
Init ==
  /\ \E p \in Programs :
       AlwaysTask = p.always /\ FdTask = p.fd /\ credit = p.enables
  /\ enabled \in {S \cup AlwaysTask : S \in Start}
  /\ lock = [i \in Instance |-> FreeLock]
  /\ pos = [t \in Task |-> InstancesOf(t)]
  /\ kind = [t \in Task |-> "HIT"]
  /\ current = [t \in Task |-> TRUE]
  /\ idle \in [Executor -> InOrder]
  /\ \A e \in Executor : {idle[e][k] : k \in DOMAIN idle[e]} = Mine(e)
  /\ ready = [e \in Executor |-> <<>>]
  /\ mailbox = [e \in Executor |-> <<>>]
  /\ tracking = [e \in Executor |-> FALSE]
  /\ fds = [e \in Executor |-> {}]
  /\ usingEventfd = [e \in Executor |-> FALSE]
  /\ eventfd = [e \in Executor |-> FALSE]
  /\ pc = [e \in Executor |-> "fetch"]
  /\ state = [e \in Executor |-> "NORMAL"]
  /\ points = [e \in Executor |-> 0]
  /\ task = [e \in Executor |-> NoTask]
  /\ message = [e \in Executor |-> NoMessage]
  /\ result = [e \in Executor |-> "NONE"]
  /\ handoff = [e \in Executor |-> <<>>]

(* What run_i does with what it has got: a task comes first.               *)
Fetched(e, t, m) ==
  IF t = NoTask THEN (IF m = NoMessage THEN "decide" ELSE "message")
  ELSE IF state[e] = "POLL" THEN "aborted"
  ELSE IF pos[t] = {} THEN "run" ELSE "lock"

(* get_ready_task_and_message: at most one ready task and one message.     *)
Fetch(e) ==
  LET t == IF ready[e] = <<>> THEN NoTask ELSE Head(ready[e])
      m == IF mailbox[e] = <<>> THEN NoMessage ELSE Head(mailbox[e])
  IN
  /\ pc[e] = "fetch"
  /\ task' = [task EXCEPT ![e] = t]
  /\ message' = [message EXCEPT ![e] = m]
  /\ ready' = [ready EXCEPT ![e] = IF t = NoTask THEN @ ELSE Tail(@)]
  /\ mailbox' = [mailbox EXCEPT ![e] = IF m = NoMessage THEN @ ELSE Tail(@)]
  /\ eventfd' = [eventfd EXCEPT ![e] = @ /\ ~usingEventfd[e]]
  /\ Goto(e, Fetched(e, t, m))
  /\ UNCHANGED <<programVars, taskVars, idle, tracking, fds, usingEventfd,
                 state, points, result, handoff>>

(* Where run_i goes when it is done with the task it had.                  *)
AfterTask(e) == IF message[e] = NoMessage THEN "fetch" ELSE "message"

(* One iteration of resume's locking loop.  A task that blocks leaves the  *)
(* executor with the result NONE; pos_ already points past the instance.   *)
LockNext(e) ==
  LET t == task[e]
      i == LockAt(t)
      reads == Access[t][i] # "Write"
      blocks == IF reads THEN ReadBlocks(lock[i]) ELSE WriteBlocks(lock[i])
  IN
  /\ pc[e] = "lock"
  /\ lock' = [lock EXCEPT ![i] = IF reads THEN AfterReadLock(@, t) ELSE AfterWriteLock(@, t)]
  /\ pos' = [pos EXCEPT ![t] = @ \ {i}]
  /\ task' = [task EXCEPT ![e] = IF blocks THEN NoTask ELSE t]
  /\ Goto(e, IF blocks THEN AfterTask(e) ELSE IF pos[t] = {i} THEN "run" ELSE "lock")
  /\ UNCHANGED <<programVars, kind, current, idle, ready, mailbox, fdVars,
                 state, points, message, result, handoff>>

(* last_execution_kind_, once the task has been brought into generation.   *)
Before(t) == IF current[t] THEN kind[t] ELSE "HIT"

Outcome(hit, before) ==
  IF hit THEN (IF before = "HIT" THEN "HIT" ELSE "FIRST_HIT")
         ELSE (IF before = "HIT" THEN "FIRST_SKIP" ELSE "SKIP")

(* resume with all locks held: bring the task into this generation, run    *)
(* it, and classify the outcome against the previous one.                  *)
Run(e) ==
  LET t == task[e]
      hit == t \in enabled
  IN
  /\ pc[e] = "run"
  /\ IF hit THEN Commit(t) ELSE UNCHANGED programVars
  /\ current' = [current EXCEPT ![t] = TRUE]
  /\ kind' = [kind EXCEPT ![t] = IF hit THEN "HIT" ELSE "SKIP"]
  /\ result' = [result EXCEPT ![e] = Outcome(hit, Before(t))]
  /\ fds' = [fds EXCEPT ![e] = @ \cup IF tracking[e] THEN {t} \cap FdTask ELSE {}]
  /\ pos' = [pos EXCEPT ![t] = InstancesOf(t)]
  /\ Goto(e, "unlock")
  /\ UNCHANGED <<lock, idle, ready, mailbox, tracking, usingEventfd, eventfd,
                 state, points, task, message, handoff>>

(* A plausible bug: a task that hits again is still counted as skipped.    *)
ScoreNoDecrement(r) == IF r = "FIRST_SKIP" THEN 1 ELSE 0

(* What a result does to points.                                           *)
Score(r) == IF r = "FIRST_SKIP" THEN 1 ELSE IF r = "FIRST_HIT" THEN -1 ELSE 0

(* A hit while the executors count towards quiescence starts them over.    *)
Breaks(e) == state[e] \in {"SHOOT_DOWN", "DOUBLE_CHECK"} /\ result[e] \in {"HIT", "FIRST_HIT"}

AfterUnlock(e, p) ==
  IF p # {} THEN "unlock" ELSE IF Breaks(e) THEN "break" ELSE AfterTask(e)

(* A plausible bug: the task goes back to the head of the idle list.       *)
ProceedToHead(e, p) ==
  \/ /\ p # {}
     /\ UNCHANGED <<idle, task, result, points>>
  \/ /\ p = {}
     /\ idle' = [idle EXCEPT ![e] = <<task[e]>> \o @]
     /\ task' = [task EXCEPT ![e] = NoTask]
     /\ result' = [result EXCEPT ![e] = "NONE"]
     /\ points' = [points EXCEPT ![e] =
                     IF state[e] \in Counting /\ ~Breaks(e) THEN @ + Score(result[e]) ELSE @]

(* What follows an unlock that leaves the instances p: the next unlock, or, *)
(* after the last, to_idle_list and what run_i makes of the result.        *)
(* Stragglers, which run in WAIT1 and WAIT2, change nothing.               *)
Proceed(e, p) ==
  \/ /\ p # {}
     /\ UNCHANGED <<idle, task, result, points>>
  \/ /\ p = {}
     /\ idle' = [idle EXCEPT ![e] = Append(@, task[e])]
     /\ task' = [task EXCEPT ![e] = NoTask]
     /\ result' = [result EXCEPT ![e] = "NONE"]
     /\ points' = [points EXCEPT ![e] =
                     IF state[e] \in Counting /\ ~Breaks(e) THEN @ + Score(result[e]) ELSE @]

(* read_unlock or write_unlock of the next instance, up to the release of  *)
(* the spinlock in process_list.                                           *)
UnlockNext(e) ==
  LET t == task[e]
      i == LockAt(t)
      l == IF Access[t][i] # "Write" THEN DropRead(lock[i]) ELSE DropWrite(lock[i])
  IN
  /\ pc[e] = "unlock"
  /\ lock' = [lock EXCEPT ![i] = ProcessList(l)]
  /\ handoff' = [handoff EXCEPT ![e] = Granted(l)]
  /\ pos' = [pos EXCEPT ![t] = @ \ {i}]
  /\ \/ /\ Granted(l) # <<>>
        /\ Goto(e, "wake")
        /\ UNCHANGED <<idle, task, result, points>>
     \/ /\ Granted(l) = <<>>
        /\ Goto(e, AfterUnlock(e, pos[t] \ {i}))
        /\ Proceed(e, pos[t] \ {i})
  /\ UNCHANGED <<programVars, kind, current, ready, mailbox, fdVars, state, message>>

(* One iteration of process_list's signal loop: to_ready_list.             *)
Wake(e) ==
  LET t == Head(handoff[e])
      o == Owner[t]
      last == Len(handoff[e]) = 1
  IN
  /\ pc[e] = "wake"
  /\ ready' = [ready EXCEPT ![o] = Append(@, t)]
  /\ eventfd' = [eventfd EXCEPT ![o] = @ \/ (ready[o] = <<>> /\ usingEventfd[o])]
  /\ handoff' = [handoff EXCEPT ![e] = Tail(@)]
  /\ pc' = [Signal(o, ready[o] = <<>>) EXCEPT
              ![e] = IF last THEN AfterUnlock(e, pos[task[e]]) ELSE "wake"]
  /\ IF last THEN Proceed(e, pos[task[e]]) ELSE UNCHANGED <<idle, task, result, points>>
  /\ UNCHANGED <<programVars, taskVars, mailbox, tracking, fds, usingEventfd, state, message>>

(* The executor leaves SHOOT_DOWN or DOUBLE_CHECK after a hit, or POLL     *)
(* after a descriptor has become ready, and tells the ring.                *)
BreakOff(e) ==
  /\ pc[e] \in {"break", "polled"}
  /\ Enter(e, "NORMAL")
  /\ NewGeneration(e)
  /\ Track(e, FALSE)
  /\ usingEventfd' = [usingEventfd EXCEPT ![e] = @ /\ pc[e] # "polled"]
  /\ Send(e, Msg("RESET", e))
  /\ pc' = SentTo(e, AfterTask(e))
  /\ UNCHANGED <<programVars, lock, pos, kind, idle, ready, localVars>>

-----------------------------------------------------------------------------
(* The message of this round.  A message an executor does not act on is    *)
(* dropped: it is not passed on.                                           *)

Move(e, s) == Enter(e, s) /\ NewGeneration(e)

Pass(e) ==
  /\ Send(e, message[e])
  /\ pc' = SentTo(e, "fetch")

OnStartShootDown(e, m) ==
  /\ m.kind = "START_SHOOT_DOWN" /\ m.id # e /\ state[e] = "NORMAL"
  /\ Move(e, "SHOOT_DOWN")
  /\ Pass(e)
  /\ UNCHANGED <<tracking, fds>>

(* Plausible bugs: the message of another executor is swallowed; the       *)
(* double check is left out.                                               *)
OnStartWaiting1Swallow(e, m) ==
  /\ m.kind = "START_WAITING1" /\ state[e] = "WAIT1" /\ m.id = e
  /\ Move(e, "DOUBLE_CHECK")
  /\ Track(e, TRUE)
  /\ Send(e, Msg("START_DOUBLE_CHECK", e))
  /\ pc' = SentTo(e, "fetch")

OnStartWaiting1Once(e, m) ==
  /\ m.kind = "START_WAITING1" /\ state[e] = "WAIT1"
  /\ Enter(e, "WAIT2")
  /\ \/ m.id # e /\ Send(e, m)
     \/ m.id = e /\ Send(e, Msg("START_WAITING2", e))
  /\ pc' = SentTo(e, "fetch")
  /\ UNCHANGED <<points, current, tracking, fds>>

OnStartWaiting1(e, m) ==
  /\ m.kind = "START_WAITING1" /\ state[e] = "WAIT1"
  /\ \/ /\ m.id # e
        /\ Pass(e)
        /\ UNCHANGED <<state, points, current, tracking, fds>>
     \/ /\ m.id = e
        /\ Move(e, "DOUBLE_CHECK")
        /\ Track(e, TRUE)
        /\ Send(e, Msg("START_DOUBLE_CHECK", e))
        /\ pc' = SentTo(e, "fetch")

OnStartDoubleCheck(e, m) ==
  /\ m.kind = "START_DOUBLE_CHECK" /\ m.id # e /\ state[e] = "WAIT1"
  /\ Move(e, "DOUBLE_CHECK")
  /\ Track(e, TRUE)
  /\ Pass(e)

(* A plausible bug: passed on by an executor that still checks.            *)
OnStartWaiting2Anywhere(e, m) ==
  /\ m.kind = "START_WAITING2"
  /\ \/ /\ m.id # e
        /\ Pass(e)
     \/ /\ m.id = e
        /\ Send(e, Msg("TERMINATE", 0))
        /\ pc' = SentTo(e, "returned")
  /\ UNCHANGED <<state, points, current, tracking, fds>>

OnStartWaiting2(e, m) ==
  /\ m.kind = "START_WAITING2" /\ state[e] = "WAIT2"
  /\ \/ /\ m.id # e
        /\ Pass(e)
     \/ /\ m.id = e
        /\ Send(e, Msg("TERMINATE", 0))
        /\ pc' = SentTo(e, "returned")
  /\ UNCHANGED <<state, points, current, tracking, fds>>

(* assert (state == WAIT2)                                                 *)
OnTerminate(e, m) ==
  /\ m.kind = "TERMINATE"
  /\ Send(e, m)
  /\ pc' = SentTo(e, IF state[e] = "WAIT2" THEN "returned" ELSE "aborted")
  /\ UNCHANGED <<state, points, current, tracking, fds>>

(* using_eventfd_ stays as it is when a RESET takes an executor out of POLL. *)
OnReset(e, m) ==
  /\ m.kind = "RESET" /\ m.id # e
  /\ Move(e, "NORMAL")
  /\ Track(e, FALSE)
  /\ Pass(e)

ActedOn(e, m) ==
  CASE m.kind = "START_SHOOT_DOWN" -> m.id # e /\ state[e] = "NORMAL"
    [] m.kind = "START_WAITING1" -> state[e] = "WAIT1"
    [] m.kind = "START_DOUBLE_CHECK" -> m.id # e /\ state[e] = "WAIT1"
    [] m.kind = "START_WAITING2" -> state[e] = "WAIT2"
    [] m.kind = "TERMINATE" -> TRUE
    [] m.kind = "RESET" -> m.id # e

Dropped(e, m) ==
  /\ ~ActedOn(e, m)
  /\ Goto(e, "fetch")
  /\ UNCHANGED <<mailbox, eventfd, state, points, current, tracking, fds>>

HandleMessage(e) ==
  LET m == message[e] IN
  /\ pc[e] = "message"
  /\ \/ OnStartShootDown(e, m)
     \/ OnStartWaiting1(e, m)
     \/ OnStartDoubleCheck(e, m)
     \/ OnStartWaiting2(e, m)
     \/ OnTerminate(e, m)
     \/ OnReset(e, m)
     \/ Dropped(e, m)
  /\ message' = [message EXCEPT ![e] = NoMessage]
  /\ UNCHANGED <<programVars, lock, pos, kind, idle, ready, usingEventfd,
                 task, result, handoff>>

-----------------------------------------------------------------------------
(* Nothing was ready and no message had come.                              *)

AllSkipped(e) == points[e] = TasksOf(e)

DecideShootDown(e) ==
  /\ state[e] = "NORMAL"
  /\ Move(e, "SHOOT_DOWN")
  /\ Send(e, Msg("START_SHOOT_DOWN", e))
  /\ pc' = SentTo(e, "fetch")
  /\ UNCHANGED usingEventfd

DecideWait(e, from, to, k) ==
  /\ state[e] = from
  /\ Enter(e, to)
  /\ Send(e, Msg(k, e))
  /\ pc' = SentTo(e, "fetch")
  /\ UNCHANGED <<points, current, usingEventfd>>

DecidePoll(e) ==
  /\ state[e] = "DOUBLE_CHECK" /\ fds[e] # {}
  /\ Enter(e, "POLL")
  /\ usingEventfd' = [usingEventfd EXCEPT ![e] = TRUE]
  /\ Goto(e, "fetch")
  /\ UNCHANGED <<points, current, mailbox, eventfd>>

(* sleep (): check under the mutex, and wait on cond_ if there is nothing. *)
SleepIn(e) == Goto(e, IF ready[e] = <<>> /\ mailbox[e] = <<>> THEN "asleep" ELSE "fetch")

DecideBlock(e) ==
  /\ \/ state[e] \in {"WAIT1", "WAIT2"} /\ SleepIn(e)
     \/ state[e] = "POLL" /\ Goto(e, "poll")
  /\ UNCHANGED <<state, points, current, mailbox, eventfd, usingEventfd>>

Decide(e) ==
  /\ pc[e] = "decide"
  /\ AllSkipped(e)
  /\ \/ DecideShootDown(e)
     \/ DecideWait(e, "SHOOT_DOWN", "WAIT1", "START_WAITING1")
     \/ fds[e] = {} /\ DecideWait(e, "DOUBLE_CHECK", "WAIT2", "START_WAITING2")
     \/ DecidePoll(e)
     \/ DecideBlock(e)
  /\ UNCHANGED <<programVars, lock, pos, kind, idle, ready, tracking, fds, localVars>>

(* Not everything has been skipped: take the first idle task, or sleep     *)
(* until one of those that are blocked becomes ready.                      *)
StartIdle(e) ==
  /\ pc[e] = "decide"
  /\ ~AllSkipped(e)
  /\ \/ /\ idle[e] # <<>>
        /\ idle' = [idle EXCEPT ![e] = Tail(@)]
        /\ task' = [task EXCEPT ![e] = Head(idle[e])]
        /\ pos' = [pos EXCEPT ![Head(idle[e])] = InstancesOf(Head(idle[e]))]
        /\ Goto(e, IF state[e] \in Counting THEN "lock" ELSE "aborted")
     \/ /\ idle[e] = <<>>
        /\ SleepIn(e)
        /\ UNCHANGED <<idle, task, pos>>
  /\ UNCHANGED <<programVars, lock, kind, current, ready, mailbox, fdVars,
                 state, points, message, result, handoff>>

(* ::poll returns when the eventfd or a tracked descriptor is ready; it    *)
(* is a hit unless the eventfd is all there is.                            *)
FdIsReady(e) == fds[e] \cap enabled # {}

Poll(e) ==
  /\ pc[e] = "poll"
  /\ eventfd[e] \/ FdIsReady(e)
  /\ Goto(e, IF FdIsReady(e) THEN "polled" ELSE "fetch")
  /\ UNCHANGED <<programVars, taskVars, idle, ready, mailbox, fdVars,
                 state, points, localVars>>

-----------------------------------------------------------------------------
(* The outside world makes a descriptor ready.                             *)
FdReady(t) ==
  /\ t \in FdTask \ enabled
  /\ credit > 0
  /\ enabled' = enabled \cup {t}
  /\ credit' = credit - 1
  /\ UNCHANGED <<taskVars, idle, ready, mailbox, fdVars, pc, state, points, localVars>>

Step(e) ==
  \/ Fetch(e) \/ LockNext(e) \/ Run(e) \/ UnlockNext(e) \/ Wake(e) \/ BreakOff(e)
  \/ HandleMessage(e) \/ Decide(e) \/ StartIdle(e) \/ Poll(e)

Next ==
  /\ \/ \E e \in Executor : Step(e)
     \/ \E t \in FdTask : FdReady(t)
  /\ UNCHANGED program

(* Every executor is a thread the system schedules; nothing outside has to *)
(* happen.                                                                 *)
Spec == Init /\ [][Next]_<<vars, program>> /\ \A e \in Executor : WF_vars(Step(e))

-----------------------------------------------------------------------------
(* The instances a task has the locks of: while it locks or is queued,     *)
(* those before pos_ except one it still waits for; while it unlocks,      *)
(* those from pos_ on.                                                     *)
Queued(t, i) == \E k \in DOMAIN lock[i].queue : lock[i].queue[k].task = t
OnCpu(t, p) == \E e \in Executor : task[e] = t /\ pc[e] \in p
Idle(t) == \E k \in DOMAIN idle[Owner[t]] : idle[Owner[t]][k] = t
Holds(t, i) ==
  /\ i \in DOMAIN Access[t]
  /\ ~Idle(t) /\ ~Queued(t, i)
  /\ i \in pos[t] <=> OnCpu(t, {"unlock", "wake"})

(* Two tasks never own one instance when one of them writes it, although   *)
(* the lock passes from task to task across threads and a task keeps its   *)
(* locks while it is queued for the next one.                              *)
Conflict(t, u, i) ==
  /\ i \in DOMAIN Access[t] \cap DOMAIN Access[u]
  /\ "Write" \in {Access[t][i], Access[u][i]}
Isolation ==
  \A t, u \in Task : \A i \in Instance :
    t # u /\ Conflict(t, u, i) => ~(Holds(t, i) /\ Holds(u, i))

(* The intrusive next pointer allows a task on one list only: it is idle,  *)
(* ready, blocked on one lock, about to be woken, or being run, and never  *)
(* two of these, nor none.                                                 *)
At(s, t) == {k \in DOMAIN s : s[k] = t}
OnExecutor(e, t) ==
  {<<"idle", e, k>> : k \in At(idle[e], t)} \cup {<<"ready", e, k>> : k \in At(ready[e], t)}
  \cup {<<"wake", e, k>> : k \in At(handoff[e], t)}
  \cup {<<"run", e, k>> : k \in {0} \cap {IF task[e] = t THEN 0 ELSE 1}}
OnExecutors(t) == UNION {OnExecutor(e, t) : e \in Executor}
OnLocks(t) ==
  UNION {{<<"queue", i, k>> : k \in {j \in DOMAIN lock[i].queue : lock[i].queue[j].task = t}} :
         i \in Instance}
Entries(t) == OnExecutors(t) \cup OnLocks(t)
OnOneList ==
  \A t \in Task : /\ Cardinality(Entries(t)) = 1
                  /\ \A x \in Entries(t) : x[1] \in {"idle", "ready", "run"} => x[2] = Owner[t]

(* points is the number of own tasks whose last run in this generation was *)
(* a skip, whatever mixture of idle, resumed and blocked runs led there;   *)
(* so --points never wraps a size_t around.                                *)
PointsAreSkips ==
  \A e \in Executor :
    state[e] \in Counting /\ pc[e] \notin {"unlock", "wake", "break"} =>
      points[e] = Cardinality({t \in Mine(e) : current[t] /\ kind[t] = "SKIP"})

(* No executor reaches a NOT_REACHED or fails an assertion, as the code    *)
(* says.  It does: a task that was blocked when all had been skipped can   *)
(* be put on the ready list of an executor in POLL.                        *)
NeverAborts == \A e \in Executor : pc[e] # "aborted"

(* And only so: no message or idle task ever finds an executor in a state  *)
(* in which run_i does not expect it, although old messages are acted on   *)
(* and stragglers run while the executors wait for each other.             *)
AbortsOnlyInPoll == \A e \in Executor : pc[e] = "aborted" => state[e] = "POLL"

(* A thread that waits has nothing to take: cond_ and the eventfd are      *)
(* signalled only when a list was empty, and that is enough.               *)
NoLostWakeup ==
  \A e \in Executor :
    ready[e] # <<>> \/ mailbox[e] # <<>> =>
      /\ pc[e] # "asleep"
      /\ pc[e] = "poll" => eventfd[e]

(* Once one executor decides to terminate, all of them are in WAIT2, so    *)
(* TERMINATE finds everybody where its assertion wants them.               *)
Terminating ==
  \/ \E e \in Executor : pc[e] = "returned"
  \/ \E e \in Executor : \E k \in DOMAIN mailbox[e] : mailbox[e][k].kind = "TERMINATE"
TerminationIsUnanimous ==
  Terminating => \A e \in Executor : state[e] = "WAIT2"

(* The program ends only when no action can run.  It does not: what a      *)
(* straggler, which run_i resumes in WAIT1 or WAIT2, enables is forgotten. *)
TerminatesOnlyWhenDone == Terminating => enabled = {}

(* Every executor returns, if the program comes to rest and waits for      *)
(* nothing outside.                                                        *)
Terminates ==
  AlwaysTask \cup FdTask = {} => <>(\A e \in Executor : pc[e] = "returned")

(* An action that can run is run, or something else disables it.           *)
EnabledIsServed == \A t \in Task : t \in enabled \ AlwaysTask ~> t \notin enabled

(* When all threads wait, only descriptors that are not ready are waited   *)
(* for: no action can run.  It does not hold either: what a straggler      *)
(* enables is forgotten by those that have been through the double check.  *)
AllWait ==
  \A e \in Executor : pc[e] \in {"asleep", "poll"} /\ ~eventfd[e] /\ ~FdIsReady(e)
WaitsOnlyWhenDone == AllWait => enabled = {}

(* A literal true precondition keeps the program running: the action is    *)
(* executed again and again, and no executor returns.                      *)
AlwaysRuns ==
  \A t \in Task :
    []<>(t \in AlwaysTask => \E e \in Executor : task[e] = t /\ pc[e] = "run")
=============================================================================
