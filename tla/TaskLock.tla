------------------------------ MODULE TaskLock ------------------------------
(***************************************************************************)
(* One info_t and the tasks that lock it: the protocol around the lock of  *)
(* module InfoLock.  A task that blocks is left in the queue and its       *)
(* executor goes on to something else; the task that releases the lock     *)
(* grants it to the head of the queue while it holds the spinlock, and     *)
(* after it has let the spinlock go wakes the granted tasks one by one     *)
(* (process_list's "Signal" loop), so there is a window in which a task    *)
(* owns the lock and does not know it.                                     *)
(***************************************************************************)
EXTENDS InfoLock, Integers, Sequences, FiniteSets

CONSTANT Task

ASSUME TaskAssumption == IsFiniteSet(Task)

VARIABLES
  lock,      \* the info_t
  status,    \* where each task stands with this lock
  reads,     \* the access of a task that is not outside: read or write
  handoff    \* the list h a releasing task has still to wake

vars == <<lock, status, reads, handoff>>

(* "granted": taken off the queue by process_list, not yet woken.          *)
Status == {"outside", "queued", "granted", "holding"}

Init ==
  /\ lock = FreeLock
  /\ status = [t \in Task |-> "outside"]
  /\ reads \in [Task -> BOOLEAN]
  /\ handoff = [t \in Task |-> <<>>]

(* A task asks for a lock only when it runs, so not while the thread that  *)
(* runs it is still inside the previous process_list.                      *)
MayLock(t) == status[t] = "outside" /\ handoff[t] = <<>>

ReadLock(t) ==
  /\ MayLock(t)
  /\ lock' = AfterReadLock(lock, t)
  /\ status' = [status EXCEPT ![t] = IF ReadBlocks(lock) THEN "queued" ELSE "holding"]
  /\ reads' = [reads EXCEPT ![t] = TRUE]
  /\ UNCHANGED handoff

WriteLock(t) ==
  /\ MayLock(t)
  /\ lock' = AfterWriteLock(lock, t)
  /\ status' = [status EXCEPT ![t] = IF WriteBlocks(lock) THEN "queued" ELSE "holding"]
  /\ reads' = [reads EXCEPT ![t] = FALSE]
  /\ UNCHANGED handoff

(* What both unlocks do to everybody, given the lock after the count has   *)
(* been adjusted.                                                          *)
Release(t, l) ==
  /\ lock' = ProcessList(l)
  /\ status' = [u \in Task |->
                  IF u = t THEN "outside"
                  ELSE IF \E i \in DOMAIN Granted(l) : Granted(l)[i] = u THEN "granted"
                  ELSE status[u]]
  /\ handoff' = [handoff EXCEPT ![t] = Granted(l)]
  /\ UNCHANGED reads

ReadUnlock(t) ==
  /\ status[t] = "holding" /\ reads[t]
  /\ Release(t, DropRead(lock))

WriteUnlock(t) ==
  /\ status[t] = "holding" /\ ~reads[t]
  /\ Release(t, DropWrite(lock))

(* A plausible bug: the loop wakes the head and does not move on.          *)
WakeForever(t) ==
  /\ handoff[t] # <<>>
  /\ status' = [status EXCEPT ![Head(handoff[t])] = "holding"]
  /\ UNCHANGED <<lock, reads, handoff>>

(* h->to_ready_list () for the next task of process_list's list.           *)
Wake(t) ==
  /\ handoff[t] # <<>>
  /\ status' = [status EXCEPT ![Head(handoff[t])] = "holding"]
  /\ handoff' = [handoff EXCEPT ![t] = Tail(@)]
  /\ UNCHANGED <<lock, reads>>

Lock(t) == ReadLock(t) \/ WriteLock(t)
Unlock(t) == ReadUnlock(t) \/ WriteUnlock(t)

Next == \E t \in Task : Lock(t) \/ Unlock(t) \/ Wake(t)

(* A task that runs finishes its transaction, and a thread that releases   *)
(* finishes its wake-ups; nobody has to ask for the lock.                  *)
Fairness == \A t \in Task : WF_vars(Unlock(t)) /\ WF_vars(Wake(t))

Spec == Init /\ [][Next]_vars /\ Fairness

-----------------------------------------------------------------------------
Owners == {t \in Task : status[t] \in {"granted", "holding"}}
Readers == {t \in Owners : reads[t]}
Writers == {t \in Owners : ~reads[t]}
Waiting == {t \in Task : status[t] = "queued"}

(* Every variable has the shape the code gives it.                         *)
TypeOK ==
  /\ lock \in [count : Nat \cup {-1}, queue : Seq([task : Task, read : BOOLEAN])]
  /\ status \in [Task -> Status]
  /\ reads \in [Task -> BOOLEAN]
  /\ handoff \in [Task -> Seq(Task)]

(* A writer owns the lock alone, also while its wake-up is still pending:  *)
(* no reader and no second writer owns it between process_list's grant and *)
(* the to_ready_list that tells the owner.                                 *)
MutualExclusion ==
  /\ Writers # {} => Readers = {}
  /\ \A t, u \in Writers : t = u

(* count_ is exactly the number of owners, granted ones included, so the   *)
(* assertions of read_unlock and write_unlock never fail and the count     *)
(* reaches zero exactly when the last owner leaves.                        *)
CountIsOwners ==
  lock.count = IF Writers # {} THEN -1 ELSE Cardinality(Readers)

(* The queue holds exactly the blocked tasks, each once, with the access   *)
(* it asked for: no request is lost by process_list's list surgery.        *)
QueueIsWaiting ==
  /\ \A i \in DOMAIN lock.queue : /\ lock.queue[i].task \in Waiting
                                  /\ lock.queue[i].read = reads[lock.queue[i].task]
  /\ \A i, j \in DOMAIN lock.queue : lock.queue[i].task = lock.queue[j].task => i = j
  /\ \A t \in Waiting : \E i \in DOMAIN lock.queue : lock.queue[i].task = t

(* Nobody waits for a lock that would admit it: the queue is empty when    *)
(* the lock is free, and while readers own it a writer is at its head.     *)
NoIdleWait ==
  lock.queue # <<>> => /\ lock.count # 0
                       /\ lock.count > 0 => ~lock.queue[1].read

(* A granted task is woken exactly once: it is on exactly one releaser's   *)
(* list, at one place of it.                                               *)
WokenOnce ==
  /\ \A t, u \in Task : \A i \in DOMAIN handoff[t], j \in DOMAIN handoff[u] :
       handoff[t][i] = handoff[u][j] => t = u /\ i = j
  /\ \A t \in Task : \A i \in DOMAIN handoff[t] : status[handoff[t][i]] = "granted"
  /\ \A u \in Task : status[u] = "granted" =>
       \E t \in Task : \E i \in DOMAIN handoff[t] : handoff[t][i] = u

(* First come, first served: no task becomes an owner while a task that    *)
(* was queued before it, or was queued when it arrived, still waits.       *)
Place(t) == CHOOSE i \in DOMAIN lock.queue : lock.queue[i].task = t
NoOvertaking ==
  [][\A t \in Owners' \ Owners : \A u \in Waiting :
        (t \in Waiting => Place(u) < Place(t)) => u \notin Waiting']_vars

(* Every blocked task eventually owns the lock and knows it.               *)
EveryRequestServed == \A t \in Task : status[t] = "queued" ~> status[t] = "holding"

(* The lock keeps what RWLock promises.                                    *)
RW == INSTANCE RWLock WITH readers <- Readers, writers <- Writers, waiting <- Waiting
ImplementsRWLock == RW!RWSpec

=============================================================================
