------------------------------ MODULE InfoLock ------------------------------
(***************************************************************************)
(* The reader/writer lock that partitioned_scheduler_t::info_t keeps for   *)
(* every component instance, as a value and the functions its four         *)
(* operations compute.  Each operation runs inside the spinlock lock_, so  *)
(* each is one indivisible step of whoever calls it.                       *)
(*                                                                         *)
(* A lock is a record: count is count_ (0 free, n > 0 readers, -1 one      *)
(* writer); queue is the list head_ .. tail_ of the blocked tasks, each    *)
(* with the flag task_t::read_lock it was enqueued with.                   *)
(***************************************************************************)
LOCAL INSTANCE Integers
LOCAL INSTANCE Sequences

Request(t, r) == [task |-> t, read |-> r]

FreeLock == [count |-> 0, queue |-> <<>>]

(* Plausible bugs for the checks: a reader that looks only at the queue, a *)
(* reader that joins the readers past a queued writer.                     *)
ReadBlocksOnQueueOnly(l) == l.queue # <<>>
ReadBlocksBarging(l) == l.count < 0

(* read_lock and write_lock return true: the caller is left in the queue.  *)
ReadBlocks(l) == ~(l.count = 0 \/ (l.count > 0 /\ l.queue = <<>>))
WriteBlocks(l) == l.count # 0

AfterReadLock(l, t) ==
  IF ReadBlocks(l) THEN [l EXCEPT !.queue = Append(@, Request(t, TRUE))]
                   ELSE [l EXCEPT !.count = @ + 1]

AfterWriteLock(l, t) ==
  IF WriteBlocks(l) THEN [l EXCEPT !.queue = Append(@, Request(t, FALSE))]
                    ELSE [l EXCEPT !.count = @ - 1]

(* How many requests process_list takes off a non-empty queue: the writer  *)
(* at its head, or every reader up to the first writer.                    *)
GrantSize(q) ==
  IF ~q[1].read THEN 1
  ELSE CHOOSE n \in 1 .. Len(q) : /\ \A i \in 1 .. n : q[i].read
                                  /\ n = Len(q) \/ ~q[n + 1].read

(* A plausible bug: a single waiter is taken for an empty list.            *)
MustGrantLate(l) == l.count = 0 /\ Len(l.queue) > 1

(* process_list has somebody to grant the lock to.                         *)
MustGrant(l) == l.count = 0 /\ l.queue # <<>>

(* The tasks process_list has taken off the queue, in the order in which   *)
(* it will put them on their executors' ready lists.                       *)
Granted(l) ==
  IF MustGrant(l)
  THEN [i \in 1 .. GrantSize(l.queue) |-> l.queue[i].task]
  ELSE <<>>

(* Plausible bugs: the whole batch counted as one owner; a request dropped *)
(* behind the batch.                                                       *)
ProcessListCountOne(l) ==
  IF MustGrant(l)
  THEN [count |-> IF l.queue[1].read THEN 1 ELSE -1,
        queue |-> SubSeq(l.queue, GrantSize(l.queue) + 1, Len(l.queue))]
  ELSE l

ProcessListSkipOne(l) ==
  IF MustGrant(l)
  THEN [count |-> IF l.queue[1].read THEN GrantSize(l.queue) ELSE -1,
        queue |-> SubSeq(l.queue, GrantSize(l.queue) + 2, Len(l.queue))]
  ELSE l

ProcessList(l) ==
  IF MustGrant(l)
  THEN [count |-> IF l.queue[1].read THEN GrantSize(l.queue) ELSE -1,
        queue |-> SubSeq(l.queue, GrantSize(l.queue) + 1, Len(l.queue))]
  ELSE l

(* The first half of read_unlock and write_unlock; ProcessList and Granted *)
(* applied to it give the lock and the wake-ups after the whole call.      *)
DropRead(l) == [l EXCEPT !.count = @ - 1]
DropWrite(l) == [l EXCEPT !.count = @ + 1]

=============================================================================
