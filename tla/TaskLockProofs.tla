--------------------------- MODULE TaskLockProofs ---------------------------
(***************************************************************************)
(* TaskLock for every finite set of tasks: its safety invariants and its   *)
(* implementation of RWLock.  The invariants hold each other up (the count *)
(* tells a newcomer whether there are owners, the queue tells a releaser   *)
(* whom to grant), so they are proved together as one inductive invariant, *)
(* with the fact that a task that takes part in the lock is not itself in  *)
(* the middle of waking others.                                           *)
(***************************************************************************)
EXTENDS TaskLock, SequenceTheorems, FiniteSetTheorems, WellFoundedInduction, TLAPS

(***************************************************************************)
(* What the operations of InfoLock return, for every lock and every queue. *)
(* The proofs below cite these facts instead of its definitions.           *)
(***************************************************************************)
Requests(T) == [task : T, read : BOOLEAN]
Locks(T) == [count : Int, queue : Seq(Requests(T))]

(* A non-empty set of natural numbers has a least element: the position of *)
(* the first writer in a queue is one.                                     *)
LEMMA LeastNat ==
  ASSUME NEW S \in SUBSET Nat, S # {}
  PROVE  \E m \in S : \A k \in S : m <= k
<1>1. PICK m \in S : \A k \in S : ~(<<k, m>> \in OpToRel(<, Nat))
  BY WFMin, NatLessThanWellFounded
<1>2. \A k \in S : ~(k < m)
  BY <1>1 DEF OpToRel
<1>3. QED  BY <1>2

(* process_list grants the writer at the head alone, or the readers up to  *)
(* the first writer and no fewer.                                          *)
LEMMA GrantSizeSpec ==
  ASSUME NEW T, NEW q \in Seq(Requests(T)), q # <<>>
  PROVE  /\ GrantSize(q) \in 1 .. Len(q)
         /\ ~q[1].read => GrantSize(q) = 1
         /\ q[1].read => /\ \A i \in 1 .. GrantSize(q) : q[i].read
                         /\ GrantSize(q) = Len(q) \/ ~q[GrantSize(q) + 1].read
<1>1. Len(q) \in Nat \ {0}
  BY EmptySeq
<1>2. CASE ~q[1].read
  BY <1>1, <1>2 DEF GrantSize
<1>3. CASE q[1].read
  <2> DEFINE Prefix(n) == /\ \A i \in 1 .. n : q[i].read
                          /\ n = Len(q) \/ ~q[n + 1].read
             W == {i \in 1 .. Len(q) : ~q[i].read}
  <2>1. \E n \in 1 .. Len(q) : Prefix(n)
    <3>1. CASE W = {}
      <4>1. Prefix(Len(q))
        BY <3>1
      <4>2. QED  BY <4>1, <1>1
    <3>2. CASE W # {}
      <4>1. PICK m \in W : \A k \in W : m <= k
        <5>1. W \in SUBSET Nat
          OBVIOUS
        <5> HIDE DEF W
        <5>2. QED  BY <3>2, <5>1, LeastNat
      <4>2. m - 1 \in 1 .. Len(q)
        BY <1>1, <1>3, <4>1
      <4>3. Prefix(m - 1)
        BY <1>1, <4>1, <4>2
      <4>4. QED  BY <4>2, <4>3
    <3>3. QED  BY <3>1, <3>2
  <2>2. GrantSize(q) = CHOOSE n \in 1 .. Len(q) : Prefix(n)
    BY <1>3 DEF GrantSize
  <2> HIDE DEF Prefix
  <2>3. GrantSize(q) \in 1 .. Len(q) /\ Prefix(GrantSize(q))
    BY <2>1, <2>2
  <2>4. QED  BY <1>3, <2>3 DEF Prefix
<1>4. QED  BY <1>2, <1>3

(* A grant takes the batch off the front of the queue, hands its tasks out *)
(* in order, and leaves the rest of the queue in order.                    *)
LEMMA GrantSpec ==
  ASSUME NEW T, NEW l \in Locks(T), MustGrant(l)
  PROVE  LET q == l.queue
             n == GrantSize(l.queue)
             m == ProcessList(l)
         IN /\ m \in Locks(T)
            /\ m.count = IF q[1].read THEN n ELSE -1
            /\ Len(m.queue) = Len(q) - n
            /\ \A i \in 1 .. Len(q) - n : m.queue[i] = q[i + n]
            /\ Granted(l) \in Seq(T)
            /\ Len(Granted(l)) = n
            /\ \A i \in 1 .. n : Granted(l)[i] = q[i].task
<1> DEFINE q == l.queue
           n == GrantSize(q)
           r == SubSeq(q, n + 1, Len(q))
<1>1. q \in Seq(Requests(T)) /\ q # <<>>
  BY DEF Locks, MustGrant
<1>2. n \in 1 .. Len(q) /\ Len(q) \in Nat
  BY <1>1, GrantSizeSpec, LenProperties
<1>3. \A i \in 1 .. Len(q) : q[i] \in Requests(T)
  BY <1>1, ElementOfSeq
<1>4. /\ r \in Seq(Requests(T))
      /\ Len(r) = Len(q) - n
      /\ \A i \in 1 .. Len(q) - n : r[i] = q[i + n]
  <2>1. \A i \in n + 1 .. Len(q) : q[i] \in Requests(T)
    BY <1>2, <1>3
  <2>2. n + 1 \in Int /\ Len(q) \in Int
    BY <1>2
  <2> HIDE DEF q, n
  <2>3. /\ r \in Seq(Requests(T))
        /\ Len(r) = IF n + 1 <= Len(q) THEN Len(q) - (n + 1) + 1 ELSE 0
        /\ \A i \in 1 .. Len(q) - (n + 1) + 1 : r[i] = q[n + 1 + i - 1]
    BY <2>1, <2>2, SubSeqProperties
  <2>4. QED  BY <1>2, <2>3
<1>5. ProcessList(l) = [count |-> IF q[1].read THEN n ELSE -1, queue |-> r]
  BY DEF ProcessList
<1>6. Granted(l) = [i \in 1 .. n |-> q[i].task]
  BY DEF Granted
<1>7. [i \in 1 .. n |-> q[i].task] \in Seq(T) /\ Len([i \in 1 .. n |-> q[i].task]) = n
  <2>1. \A i \in 1 .. n : q[i].task \in T
    BY <1>2, <1>3 DEF Requests
  <2>2. n \in Nat
    BY <1>2
  <2> HIDE DEF q, n
  <2>3. QED  BY <2>1, <2>2
<1> HIDE DEF q, n, r
<1>8. ProcessList(l) \in Locks(T)
  BY <1>2, <1>4, <1>5 DEF Locks
<1>9. QED  BY <1>2, <1>4, <1>5, <1>6, <1>7, <1>8 DEF q, n

(* The number of tasks at the first n places of a queue without            *)
(* repetitions is n.                                                       *)
LEMMA BatchCardinality ==
  ASSUME NEW n \in Nat, NEW f, DOMAIN f = 1 .. n,
         \A i, j \in 1 .. n : f[i] = f[j] => i = j,
         NEW S, S = {f[i] : i \in 1 .. n}
  PROVE  Cardinality(S) = n
<1> DEFINE g == [i \in 1 .. n |-> f[i]]
<1>1. g \in Bijection(1 .. n, S)
  <2>1. g \in [1 .. n -> S]
    OBVIOUS
  <2>2. \A i, j \in 1 .. n : g[i] = g[j] => i = j
    OBVIOUS
  <2>3. \A s \in S : \E i \in 1 .. n : g[i] = s
    OBVIOUS
  <2> HIDE DEF g
  <2>4. QED  BY <2>1, <2>2, <2>3 DEF Bijection, Injection, Surjection, IsInjective
<1>2. ExistsBijection(1 .. n, S)
  BY <1>1 DEF ExistsBijection
<1>3. QED  BY <1>2, FS_CountingElements

(* With nothing to grant the list is left alone and nobody is woken.       *)
LEMMA NoGrantSpec ==
  ASSUME NEW l, ~MustGrant(l)
  PROVE  ProcessList(l) = l /\ Granted(l) = <<>>
BY DEF ProcessList, Granted

-----------------------------------------------------------------------------

(* A task that waits for or owns the lock has no wake-ups left to do.      *)
Settled == \A t \in Task : status[t] # "outside" => handoff[t] = <<>>

IInv ==
  /\ TypeOK
  /\ MutualExclusion
  /\ CountIsOwners
  /\ QueueIsWaiting
  /\ NoIdleWait
  /\ WokenOnce
  /\ Settled

(* The facts about the types that the proofs below use.                    *)
LEMMA Types ==
  ASSUME TypeOK
  PROVE  /\ lock \in Locks(Task)
         /\ lock = [count |-> lock.count, queue |-> lock.queue]
         /\ lock.count \in Int /\ lock.count >= -1
         /\ lock.queue \in Seq(Requests(Task))
         /\ DOMAIN lock.queue = 1 .. Len(lock.queue)
         /\ Len(lock.queue) \in Nat
         /\ \A i \in 1 .. Len(lock.queue) : lock.queue[i] \in Requests(Task)
         /\ lock.queue # <<>> => Len(lock.queue) > 0
<1>1. /\ lock \in Locks(Task) /\ lock.queue \in Seq(Requests(Task))
      /\ lock.count \in Int /\ lock.count >= -1
  BY DEF TypeOK, Locks, Requests
<1>2. lock = [count |-> lock.count, queue |-> lock.queue]
  BY <1>1 DEF Locks
<1>3. QED  BY <1>1, <1>2, LenProperties, EmptySeq, ElementOfSeq

(* Sets of owners are finite.                                              *)
LEMMA OwnersFinite == IsFiniteSet(Readers) /\ IsFiniteSet(Writers)
<1>1. Readers \in SUBSET Task /\ Writers \in SUBSET Task
  BY DEF Readers, Writers, Owners
<1>2. QED  BY <1>1, TaskAssumption, FS_Subset

-----------------------------------------------------------------------------
(* The free lock with nobody using it satisfies the invariant.             *)
LEMMA InitIInv == Init => IInv
<1> SUFFICES ASSUME Init PROVE IInv
  OBVIOUS
<1>1. TypeOK
  BY EmptySeq DEF Init, FreeLock, TypeOK, Status
<1>2. Owners = {} /\ Readers = {} /\ Writers = {} /\ Waiting = {}
  BY DEF Init, Owners, Readers, Writers, Waiting
<1>3. MutualExclusion /\ CountIsOwners
  BY <1>2, FS_EmptySet DEF Init, FreeLock, MutualExclusion, CountIsOwners
<1>4. lock.queue = <<>> /\ DOMAIN lock.queue = {}
  BY DEF Init, FreeLock
<1>5. QueueIsWaiting /\ NoIdleWait
  BY <1>2, <1>4 DEF QueueIsWaiting, NoIdleWait
<1>6. WokenOnce /\ Settled
  BY DEF Init, WokenOnce, Settled
<1>7. QED  BY <1>1, <1>3, <1>5, <1>6 DEF IInv

(* A task that gets the lock at once becomes an owner; nobody waits.       *)
LEMMA GrantedAtOnce ==
  ASSUME IInv, NEW t \in Task, MayLock(t),
         status' = [status EXCEPT ![t] = "holding"],
         reads' = [reads EXCEPT ![t] = reads'[t]], reads'[t] \in BOOLEAN,
         handoff' = handoff, lock'.queue = lock.queue,
         lock' \in Locks(Task),
         lock'.queue = <<>>, Writers = {},
         \/ reads'[t] /\ lock'.count = Cardinality(Readers) + 1
         \/ ~reads'[t] /\ Readers = {} /\ lock'.count = -1
  PROVE  /\ IInv'
         /\ t \notin Owners /\ Waiting = {} /\ Waiting' = {}
         /\ Readers' = IF reads'[t] THEN Readers \cup {t} ELSE Readers
         /\ Writers' = IF reads'[t] THEN {} ELSE {t}
<1>1. t \notin Owners /\ t \notin Waiting
  BY DEF MayLock, Owners, Waiting
<1>2. /\ Readers' = IF reads'[t] THEN Readers \cup {t} ELSE Readers
      /\ Writers' = IF reads'[t] THEN {} ELSE {t}
      /\ Waiting' = Waiting
  BY <1>1 DEF IInv, TypeOK, Owners, Readers, Writers, Waiting
<1>3. Cardinality(Readers) \in Nat /\ Cardinality(Readers \cup {t}) = Cardinality(Readers) + 1
  BY <1>1, OwnersFinite, FS_CardinalityType, FS_AddElement DEF Readers
<1>4. TypeOK'
  <2>1. lock' \in [count : Nat \cup {-1}, queue : Seq([task : Task, read : BOOLEAN])]
    BY <1>3 DEF Locks, Requests
  <2>2. status' \in [Task -> Status] /\ reads' \in [Task -> BOOLEAN] /\ handoff' \in [Task -> Seq(Task)]
    BY DEF IInv, TypeOK, Status
  <2>3. QED  BY <2>1, <2>2 DEF TypeOK
<1>5. MutualExclusion'
  BY <1>2 DEF MutualExclusion
<1>6. CountIsOwners'
  BY <1>2, <1>3 DEF CountIsOwners
<1>7. Waiting = {} /\ QueueIsWaiting'
  <2>1. Waiting = {} /\ DOMAIN lock'.queue = {}
    BY DEF IInv, QueueIsWaiting
  <2>2. QED  BY <1>2, <2>1 DEF QueueIsWaiting
<1>8. NoIdleWait'
  BY DEF NoIdleWait
<1>9. WokenOnce'
  BY DEF IInv, TypeOK, WokenOnce, MayLock
<1>10. Settled'
  BY DEF IInv, TypeOK, Settled, MayLock
<1>11. QED  BY <1>1, <1>2, <1>4, <1>5, <1>6, <1>7, <1>8, <1>9, <1>10 DEF IInv

(* A task that has to wait goes to the end of the queue; owners stay.      *)
LEMMA Enqueued ==
  ASSUME IInv, NEW t \in Task, MayLock(t),
         status' = [status EXCEPT ![t] = "queued"],
         reads' = [reads EXCEPT ![t] = reads'[t]], reads'[t] \in BOOLEAN,
         handoff' = handoff,
         lock' = [lock EXCEPT !.queue = Append(lock.queue, Request(t, reads'[t]))],
         lock.count # 0,
         lock.count > 0 /\ lock.queue = <<>> => ~reads'[t]
  PROVE  /\ IInv'
         /\ t \notin Owners /\ t \notin Waiting
         /\ Readers' = Readers /\ Writers' = Writers /\ Waiting' = Waiting \cup {t}
<1> DEFINE q == lock.queue
           r == Request(t, reads'[t])
<1>1. t \notin Owners /\ t \notin Waiting
  BY DEF MayLock, Owners, Waiting
<1>2. Readers' = Readers /\ Writers' = Writers /\ Waiting' = Waiting \cup {t}
  BY <1>1 DEF IInv, TypeOK, Owners, Readers, Writers, Waiting
<1>3. r \in Requests(Task) /\ r.task = t /\ r.read = reads'[t]
  BY DEF Request, Requests
<1>4. q \in Seq(Requests(Task)) /\ DOMAIN q = 1 .. Len(q) /\ Len(q) \in Nat
      /\ (q # <<>> => Len(q) > 0)
  BY Types DEF IInv
<1>5. lock'.queue = Append(q, r) /\ lock'.count = lock.count
  BY Types DEF IInv
<1>6. /\ lock'.queue \in Seq(Requests(Task))
      /\ DOMAIN lock'.queue = 1 .. Len(q) + 1
      /\ \A i \in 1 .. Len(q) : lock'.queue[i] = q[i]
      /\ lock'.queue[Len(q) + 1] = r
  BY <1>3, <1>4, <1>5, AppendProperties, LenProperties
<1> HIDE DEF q, r
<1>7. TypeOK'
  BY <1>5, <1>6 DEF IInv, TypeOK, Status, Requests
<1>8. MutualExclusion' /\ CountIsOwners'
  BY <1>2, <1>5 DEF IInv, MutualExclusion, CountIsOwners
<1>9. QueueIsWaiting'
  <2>1. \A i \in 1 .. Len(q) : q[i].task \in Waiting /\ q[i].read = reads[q[i].task]
    BY <1>4 DEF IInv, QueueIsWaiting, q
  <2>2. \A i, j \in 1 .. Len(q) : q[i].task = q[j].task => i = j
    BY <1>4 DEF IInv, QueueIsWaiting, q
  <2>3. \A u \in Waiting : \E i \in 1 .. Len(q) : q[i].task = u
    BY <1>4 DEF IInv, QueueIsWaiting, q
  <2>4. \A u \in Waiting : reads'[u] = reads[u]
    BY <1>1 DEF IInv, TypeOK, Waiting
  <2>5. \A i \in 1 .. Len(q) + 1 : /\ lock'.queue[i].task \in Waiting'
                                   /\ lock'.queue[i].read = reads'[lock'.queue[i].task]
    BY <1>2, <1>3, <1>4, <1>6, <2>1, <2>4
  <2>6. \A i, j \in 1 .. Len(q) + 1 : lock'.queue[i].task = lock'.queue[j].task => i = j
    BY <1>1, <1>3, <1>4, <1>6, <2>1, <2>2
  <2>7. \A u \in Waiting' : \E i \in 1 .. Len(q) + 1 : lock'.queue[i].task = u
    BY <1>2, <1>3, <1>4, <1>6, <2>3
  <2>8. QED  BY <1>6, <2>5, <2>6, <2>7 DEF QueueIsWaiting
<1>10. NoIdleWait'
  <2>1. CASE q = <<>>
    <3>1. Len(q) = 0
      BY <2>1
    <3>2. QED  BY <1>3, <1>5, <1>6, <2>1, <3>1 DEF NoIdleWait, q
  <2>2. CASE q # <<>>
    BY <1>4, <1>5, <1>6, <2>2 DEF IInv, NoIdleWait, q
  <2>3. QED  BY <2>1, <2>2
<1>11. WokenOnce'
  BY DEF IInv, TypeOK, WokenOnce, MayLock
<1>12. Settled'
  BY DEF IInv, TypeOK, Settled, MayLock
<1>13. QED  BY <1>1, <1>2, <1>7, <1>8, <1>9, <1>10, <1>11, <1>12 DEF IInv

(* What asking for the lock does to everybody, as an abstract reader or    *)
(* writer sees it.                                                         *)
Asked(t) ==
  /\ t \notin Owners /\ t \notin Waiting
  /\ \/ /\ Waiting = {} /\ Waiting' = {} /\ Writers = {}
        /\ \/ Readers' = Readers \cup {t} /\ Writers' = {}
           \/ Readers = {} /\ Readers' = {} /\ Writers' = {t}
     \/ /\ Owners # {}
        /\ Readers' = Readers /\ Writers' = Writers /\ Waiting' = Waiting \cup {t}

(* A count that is not zero means that somebody owns the lock.             *)
LEMMA CountedOwners ==
  ASSUME IInv, lock.count # 0
  PROVE  Owners # {}
<1>1. Readers # {} \/ Writers # {}
  BY FS_EmptySet DEF IInv, CountIsOwners
<1>2. QED  BY <1>1 DEF Readers, Writers

(* RWLock_ReadLock keeps the invariant, whether the task is granted the    *)
(* lock at once or sleeps at the tail of the queue.                        *)
LEMMA ReadLockIInv ==
  ASSUME IInv, NEW t \in Task, ReadLock(t)
  PROVE  IInv' /\ Asked(t)
<1>1. CASE ReadBlocks(lock)
  <2>1. lock.count # 0
    BY <1>1 DEF ReadBlocks
  <2>2. QED  BY <1>1, <2>1, Enqueued, CountedOwners, Types DEF IInv, TypeOK, ReadLock, ReadBlocks, AfterReadLock, Asked
<1>2. CASE ~ReadBlocks(lock)
  <2>1. lock.queue = <<>> /\ lock.count >= 0
    BY <1>2, Types DEF IInv, ReadBlocks, NoIdleWait
  <2>2. Writers = {} /\ lock.count = Cardinality(Readers)
    BY <2>1 DEF IInv, CountIsOwners
  <2>3. lock' = [lock EXCEPT !.count = lock.count + 1]
    BY <1>2 DEF ReadLock, AfterReadLock
  <2>4. /\ lock' \in Locks(Task)
        /\ lock'.queue = lock.queue
        /\ lock'.count = Cardinality(Readers) + 1
    BY <2>2, <2>3, Types DEF IInv, Locks
  <2>5. QED  BY <1>2, <2>1, <2>2, <2>4, GrantedAtOnce DEF IInv, TypeOK, ReadLock, MayLock, Waiting, Asked
<1>3. QED  BY <1>1, <1>2

(* RWLock_WriteLock keeps the invariant in the same two cases.             *)
LEMMA WriteLockIInv ==
  ASSUME IInv, NEW t \in Task, WriteLock(t)
  PROVE  IInv' /\ Asked(t)
<1>1. CASE WriteBlocks(lock)
  <2>1. lock.count # 0
    BY <1>1 DEF WriteBlocks
  <2>2. QED  BY <1>1, <2>1, Enqueued, CountedOwners, Types DEF IInv, TypeOK, WriteLock, WriteBlocks, AfterWriteLock, Asked
<1>2. CASE ~WriteBlocks(lock)
  <2>1. lock.queue = <<>> /\ lock.count = 0
    BY <1>2 DEF IInv, WriteBlocks, NoIdleWait
  <2>2. Writers = {} /\ Readers = {}
    BY <2>1, OwnersFinite, FS_EmptySet DEF IInv, CountIsOwners
  <2>3. lock' = [lock EXCEPT !.count = lock.count - 1]
    BY <1>2 DEF WriteLock, AfterWriteLock
  <2>4. /\ lock' \in Locks(Task)
        /\ lock'.queue = lock.queue
        /\ lock'.count = -1
    BY <2>1, <2>3, Types DEF IInv, Locks
  <2>5. QED  BY <1>2, <2>1, <2>2, <2>4, GrantedAtOnce DEF IInv, TypeOK, WriteLock, MayLock, Waiting, Asked
<1>3. QED  BY <1>1, <1>2

-----------------------------------------------------------------------------
(* The lock between the adjustment of the count and process_list: it       *)
(* counts the readers that stay, and no writer stays.                      *)
Left(t) == IF reads[t] THEN DropRead(lock) ELSE DropWrite(lock)

Unlocking(t) ==
  /\ status[t] = "holding"
  /\ Left(t) \in Locks(Task)
  /\ Left(t).queue = lock.queue
  /\ Writers \ {t} = {}
  /\ Left(t).count = Cardinality(Readers \ {t})
  /\ Readers \ {t} # {} /\ lock.queue # <<>> => ~lock.queue[1].read

(* Giving up a read lock takes one reader from the count and leaves no     *)
(* writer; readers that stay keep a writer at the head of the queue.       *)
LEMMA ReadUnlocking ==
  ASSUME IInv, NEW t \in Task, ReadUnlock(t)
  PROVE  Unlocking(t) /\ Release(t, Left(t))
<1>1. t \in Readers /\ status[t] = "holding"
  BY DEF ReadUnlock, Readers, Owners
<1>2. Writers = {} /\ lock.count = Cardinality(Readers)
  BY <1>1 DEF IInv, MutualExclusion, CountIsOwners
<1>3. /\ Cardinality(Readers \ {t}) = Cardinality(Readers) - 1
      /\ Cardinality(Readers) \in Nat
      /\ Cardinality(Readers) # 0
  BY <1>1, OwnersFinite, FS_RemoveElement, FS_CardinalityType, FS_EmptySet
<1>4. /\ DropRead(lock) \in Locks(Task)
      /\ DropRead(lock).queue = lock.queue
      /\ DropRead(lock).count = lock.count - 1
  BY Types DEF IInv, DropRead, Locks
<1>5. lock.queue # <<>> => ~lock.queue[1].read
  BY <1>2, <1>3 DEF IInv, NoIdleWait
<1>6. Left(t) = DropRead(lock) /\ Release(t, Left(t))
  BY DEF ReadUnlock, Left
<1>7. QED  BY <1>1, <1>2, <1>3, <1>4, <1>5, <1>6 DEF Unlocking

(* Giving up the write lock leaves no owner and a count of zero.           *)
LEMMA WriteUnlocking ==
  ASSUME IInv, NEW t \in Task, WriteUnlock(t)
  PROVE  Unlocking(t) /\ Release(t, Left(t))
<1>1. t \in Writers /\ status[t] = "holding"
  BY DEF WriteUnlock, Writers, Owners
<1>2. Writers \ {t} = {} /\ Readers = {} /\ lock.count = -1
  BY <1>1 DEF IInv, MutualExclusion, CountIsOwners
<1>3. /\ DropWrite(lock) \in Locks(Task)
      /\ DropWrite(lock).queue = lock.queue
      /\ DropWrite(lock).count = lock.count + 1
  BY Types DEF IInv, DropWrite, Locks
<1>4. Readers \ {t} = {} /\ Cardinality(Readers \ {t}) = 0
  BY <1>2, FS_EmptySet
<1>5. Left(t) = DropWrite(lock) /\ Release(t, Left(t))
  BY DEF WriteUnlock, Left
<1>6. QED  BY <1>1, <1>2, <1>3, <1>4, <1>5 DEF Unlocking

(* Nobody is granted the lock: the other readers keep it.                  *)
LEMMA ReleaseWithoutGrant ==
  ASSUME IInv, NEW t \in Task, Unlocking(t), Release(t, Left(t)), ~MustGrant(Left(t))
  PROVE  /\ IInv'
         /\ t \in Owners /\ (Owners = {t} => Waiting = {})
         /\ Readers' = Readers \ {t} /\ Writers' = {} /\ Waiting' = Waiting
<1>1. lock' = Left(t) /\ handoff' = [handoff EXCEPT ![t] = <<>>] /\ reads' = reads
  BY NoGrantSpec DEF Release
<1>2. status' = [status EXCEPT ![t] = "outside"]
  <2>1. Granted(Left(t)) = <<>> /\ DOMAIN <<>> = {}
    BY NoGrantSpec
  <2>2. status' = [u \in Task |-> IF u = t THEN "outside" ELSE status[u]]
    BY <2>1 DEF Release
  <2>3. QED  BY <2>2 DEF IInv, TypeOK
<1>3. handoff[t] = <<>>
  BY DEF IInv, Settled, Unlocking
<1>4. handoff' = handoff
  BY <1>1, <1>3 DEF IInv, TypeOK
<1>5. t \notin Waiting
  BY DEF Unlocking, Waiting
<1>6. Readers' = Readers \ {t} /\ Writers' = {} /\ Waiting' = Waiting
  BY <1>1, <1>2, <1>5 DEF IInv, TypeOK, Owners, Readers, Writers, Waiting, Unlocking
<1>7. IsFiniteSet(Readers \ {t}) /\ Cardinality(Readers \ {t}) \in Nat
  BY OwnersFinite, FS_RemoveElement, FS_CardinalityType
<1>8. TypeOK'
  <2>1. lock' \in [count : Nat \cup {-1}, queue : Seq([task : Task, read : BOOLEAN])]
    BY <1>1, <1>7 DEF Unlocking, Locks, Requests
  <2>2. status' \in [Task -> Status]
    BY <1>2 DEF IInv, TypeOK, Status
  <2>3. QED  BY <1>1, <1>4, <2>1, <2>2 DEF IInv, TypeOK
<1>9. MutualExclusion'
  BY <1>6 DEF MutualExclusion
<1>10. CountIsOwners'
  BY <1>1, <1>6 DEF CountIsOwners, Unlocking
<1>11. QueueIsWaiting'
  BY <1>1, <1>6 DEF IInv, QueueIsWaiting, Unlocking
<1>12. NoIdleWait'
  <2>1. Left(t).queue # <<>> => Left(t).count # 0
    BY DEF MustGrant
  <2>2. Left(t).count > 0 => Readers \ {t} # {}
    <3> SUFFICES ASSUME Readers \ {t} = {} PROVE Left(t).count = 0
      BY DEF Unlocking
    <3>1. QED  BY FS_EmptySet DEF Unlocking
  <2>3. QED  BY <1>1, <2>1, <2>2 DEF NoIdleWait, Unlocking
<1>13. WokenOnce' /\ Settled'
  <2>1. \A u \in Task : status[u] # "outside" \/ status'[u] = "outside"
    BY <1>2 DEF IInv, TypeOK
  <2>2. \A u \in Task : status'[u] = "granted" <=> status[u] = "granted"
    BY <1>2 DEF IInv, TypeOK, Unlocking
  <2>3. \A u \in Task : \A i \in DOMAIN handoff[u] : handoff[u][i] \in Task
    BY DEF IInv, TypeOK
  <2>4. WokenOnce'
    BY <1>4, <2>2, <2>3 DEF IInv, WokenOnce
  <2>5. Settled'
    BY <1>2, <1>4 DEF IInv, TypeOK, Settled
  <2>6. QED  BY <2>4, <2>5
<1>14. t \in Owners
  BY DEF Unlocking, Owners
<1>15. ASSUME Owners = {t} PROVE Waiting = {}
  <2>1. Readers \ {t} = {}
    BY <1>15 DEF Readers
  <2>2. Left(t).count = 0
    BY <2>1, FS_EmptySet DEF Unlocking
  <2>3. lock.queue = <<>>
    BY <2>2 DEF MustGrant, Unlocking
  <2>4. QED  BY <2>3 DEF IInv, QueueIsWaiting
<1>16. QED  BY <1>6, <1>8, <1>9, <1>10, <1>11, <1>12, <1>13, <1>14, <1>15 DEF IInv

(* The last owner hands the lock over to the batch at the head.            *)
LEMMA ReleaseWithGrant ==
  ASSUME IInv, NEW t \in Task, Unlocking(t), Release(t, Left(t)), MustGrant(Left(t))
  PROVE  /\ IInv'
         /\ Owners = {t}
         /\ Owners' # {} /\ Owners' \in SUBSET Waiting
         /\ Waiting' = Waiting \ Owners'
         /\ \/ Readers' = Owners' /\ Writers' = {}
            \/ Writers' = Owners' /\ Readers' = {} /\ \E w \in Owners' : Owners' = {w}
         /\ \A u \in Owners', v \in Waiting' : Place(u) < Place(v)
<1> DEFINE q == lock.queue
           n == GrantSize(q)
           G == {q[i].task : i \in 1 .. n}
<1>1. Owners = {t}
  <2>1. Readers \ {t} = {}
    BY OwnersFinite, FS_RemoveElement, FS_EmptySet DEF Unlocking, MustGrant
  <2>2. QED  BY <2>1 DEF Unlocking, Owners, Readers, Writers
<1>2. /\ q \in Seq(Requests(Task)) /\ q # <<>>
      /\ DOMAIN q = 1 .. Len(q) /\ Len(q) \in Nat
      /\ \A i \in 1 .. Len(q) : q[i] \in Requests(Task)
  BY Types DEF IInv, MustGrant, Unlocking
<1>3. /\ n \in 1 .. Len(q)
      /\ ~q[1].read => n = 1
      /\ q[1].read => /\ \A i \in 1 .. n : q[i].read
                      /\ n = Len(q) \/ ~q[n + 1].read
  BY <1>2, GrantSizeSpec
<1>4. Left(t) \in Locks(Task) /\ Left(t).queue = q
  BY DEF Unlocking
<1>5. /\ lock' \in Locks(Task)
      /\ lock'.count = IF q[1].read THEN n ELSE -1
      /\ Len(lock'.queue) = Len(q) - n
      /\ \A i \in 1 .. Len(q) - n : lock'.queue[i] = q[i + n]
      /\ Granted(Left(t)) \in Seq(Task)
      /\ Len(Granted(Left(t))) = n
      /\ \A i \in 1 .. n : Granted(Left(t))[i] = q[i].task
  <2>1. PICK l : l = Left(t)
    OBVIOUS
  <2>2. l \in Locks(Task) /\ MustGrant(l) /\ l.queue = q
    BY <1>4, <2>1
  <2>3. lock' = ProcessList(l)
    BY <2>1 DEF Release
  <2>4. LET m == ProcessList(l)
            k == GrantSize(l.queue)
        IN /\ m \in Locks(Task)
           /\ m.count = IF l.queue[1].read THEN k ELSE -1
           /\ Len(m.queue) = Len(l.queue) - k
           /\ \A i \in 1 .. Len(l.queue) - k : m.queue[i] = l.queue[i + k]
           /\ Granted(l) \in Seq(Task) /\ Len(Granted(l)) = k
           /\ \A i \in 1 .. k : Granted(l)[i] = l.queue[i].task
    BY <2>2, GrantSpec
  <2>5. QED  BY <2>1, <2>2, <2>3, <2>4
<1>6. DOMAIN lock'.queue = 1 .. Len(q) - n /\ DOMAIN Granted(Left(t)) = 1 .. n
  BY <1>3, <1>5, LenProperties DEF Locks
<1>7. reads' = reads /\ handoff' = [handoff EXCEPT ![t] = Granted(Left(t))]
  BY DEF Release
<1> HIDE DEF n, q
<1>len. Len(q) \in Nat /\ n \in Nat /\ 1 <= n /\ n <= Len(q)
  <2>1. Len(q) \in Nat
    BY <1>2
  <2>2. n \in 1 .. Len(q)
    BY <1>3
  <2>3. QED  BY <2>1, <2>2
<1>8. /\ \A i \in 1 .. Len(q) : q[i].task \in Waiting /\ q[i].read = reads[q[i].task]
      /\ \A i, j \in 1 .. Len(q) : q[i].task = q[j].task => i = j
      /\ \A u \in Waiting : \E i \in 1 .. Len(q) : q[i].task = u
  BY <1>2 DEF IInv, QueueIsWaiting, q
<1>9. G \in SUBSET Waiting /\ G # {} /\ t \notin Waiting
  BY <1>3, <1>8 DEF Unlocking, Waiting
<1>10. status' = [u \in Task |-> IF u = t THEN "outside"
                                ELSE IF u \in G THEN "granted" ELSE status[u]]
  <2>1. \A u : (\E i \in DOMAIN Granted(Left(t)) : Granted(Left(t))[i] = u) <=> u \in G
    <3>1. PICK g : g = Granted(Left(t))
      OBVIOUS
    <3>2. DOMAIN g = 1 .. n /\ \A i \in 1 .. n : g[i] = q[i].task
      BY <1>5, <1>6, <3>1
    <3>3. \A u : (\E i \in DOMAIN g : g[i] = u) <=> u \in G
      BY <3>2
    <3>4. QED  BY <3>1, <3>3
  <2>2. status' = [u \in Task |->
                     IF u = t THEN "outside"
                     ELSE IF \E i \in DOMAIN Granted(Left(t)) : Granted(Left(t))[i] = u
                          THEN "granted" ELSE status[u]]
    BY DEF Release
  <2> HIDE DEF G
  <2>3. QED  BY <2>1, <2>2
<1>11. \A u \in Task \ {t} : status[u] \in {"outside", "queued"}
  BY <1>1 DEF IInv, TypeOK, Status, Owners
<1>12. Owners' = G /\ Waiting' = Waiting \ G
  BY <1>9, <1>10, <1>11 DEF Owners, Waiting
<1>13. /\ q[1].read => Readers' = G /\ Writers' = {}
       /\ ~q[1].read => Readers' = {} /\ Writers' = G /\ G = {q[1].task}
  <2>1. q[1].read => \A u \in G : reads[u]
    BY <1>3, <1>8
  <2>2. ~q[1].read => G = {q[1].task} /\ ~reads[q[1].task]
    BY <1>3, <1>8
  <2>3. QED  BY <1>7, <1>12, <2>1, <2>2 DEF Readers, Writers
<1>14. Cardinality(G) = n
  <2> DEFINE f == [i \in 1 .. n |-> q[i].task]
  <2>1. G = {f[i] : i \in 1 .. n}
    OBVIOUS
  <2>2. \A i, j \in 1 .. n : f[i] = f[j] => i = j
    BY <1>3, <1>8
  <2>3. n \in Nat /\ DOMAIN f = 1 .. n
    BY <1>3
  <2> HIDE DEF f, G
  <2>4. QED  BY <2>1, <2>2, <2>3, BatchCardinality
<1>15. TypeOK'
  <2>1. lock' \in [count : Nat \cup {-1}, queue : Seq([task : Task, read : BOOLEAN])]
    BY <1>3, <1>5 DEF Locks, Requests
  <2>2. status' \in [Task -> Status]
    BY <1>10 DEF IInv, TypeOK, Status
  <2>3. handoff' \in [Task -> Seq(Task)]
    BY <1>5, <1>7 DEF IInv, TypeOK
  <2>4. QED  BY <1>7, <2>1, <2>2, <2>3 DEF IInv, TypeOK
<1>16. MutualExclusion'
  BY <1>13 DEF MutualExclusion
<1>17. CountIsOwners'
  BY <1>5, <1>13, <1>14 DEF CountIsOwners
<1>18. QueueIsWaiting'
  <2>1. \A i \in 1 .. Len(q) - n : i + n \in 1 .. Len(q) /\ i + n > n
    BY <1>len
  <2>2. \A i \in 1 .. Len(q) - n : q[i + n].task \in Waiting \ G
    <3> SUFFICES ASSUME NEW i \in 1 .. Len(q) - n, NEW k \in 1 .. n
                 PROVE  q[i + n].task # q[k].task
      BY <1>8, <2>1
    <3>1. i + n \in 1 .. Len(q) /\ k \in 1 .. Len(q) /\ i + n # k
      BY <1>len
    <3>2. QED  BY <1>8, <3>1
  <2>3. \A i \in 1 .. Len(q) - n : /\ lock'.queue[i].task \in Waiting'
                                   /\ lock'.queue[i].read = reads'[lock'.queue[i].task]
    <3> SUFFICES ASSUME NEW i \in 1 .. Len(q) - n
                 PROVE  /\ lock'.queue[i].task \in Waiting'
                        /\ lock'.queue[i].read = reads'[lock'.queue[i].task]
      OBVIOUS
    <3>1. lock'.queue[i] = q[i + n] /\ i + n \in 1 .. Len(q)
      BY <1>5, <2>1
    <3>2. q[i + n].task \in Waiting' /\ q[i + n].read = reads'[q[i + n].task]
      BY <1>7, <1>8, <1>12, <2>2, <3>1
    <3>3. QED  BY <3>1, <3>2
  <2>4. \A i, j \in 1 .. Len(q) - n : lock'.queue[i].task = lock'.queue[j].task => i = j
    <3> SUFFICES ASSUME NEW i \in 1 .. Len(q) - n, NEW j \in 1 .. Len(q) - n,
                        lock'.queue[i].task = lock'.queue[j].task
                 PROVE  i = j
      OBVIOUS
    <3>1. q[i + n].task = q[j + n].task
      BY <1>5
    <3>2. i + n = j + n
      BY <1>8, <2>1, <3>1
    <3>3. QED  BY <1>len, <3>2
  <2>5. \A u \in Waiting' : \E i \in 1 .. Len(q) - n : lock'.queue[i].task = u
    <3> SUFFICES ASSUME NEW u \in Waiting'
                 PROVE  \E i \in 1 .. Len(q) - n : lock'.queue[i].task = u
      OBVIOUS
    <3>1. PICK k \in 1 .. Len(q) : q[k].task = u
      BY <1>8, <1>12
    <3>2. ~(k \in 1 .. n)
      BY <1>12, <3>1
    <3>3. k - n \in 1 .. Len(q) - n /\ (k - n) + n = k
      BY <1>len, <3>2
    <3>4. QED  BY <1>5, <3>1, <3>3
  <2>6. QED  BY <1>6, <2>3, <2>4, <2>5 DEF QueueIsWaiting
<1>19. NoIdleWait'
  <2>1. CASE lock'.queue = <<>>
    BY <2>1 DEF NoIdleWait
  <2>2. CASE lock'.queue # <<>>
    <3>1. n < Len(q)
      <4>1. lock'.queue \in Seq(Requests(Task))
        BY <1>5 DEF Locks
      <4>2. Len(q) - n > 0
        BY <1>5, <2>2, <4>1, EmptySeq
      <4>3. QED  BY <1>len, <4>2
    <3>2. lock'.queue[1] = q[n + 1]
      <4>1. 1 \in 1 .. Len(q) - n /\ 1 + n = n + 1
        BY <1>len, <3>1
      <4>2. QED  BY <1>5, <4>1
    <3>3. QED  BY <1>3, <1>5, <3>1, <3>2 DEF NoIdleWait
  <2>3. QED  BY <2>1, <2>2
<1>20. \A u \in Task : handoff[u] = <<>>
  <2>1. \A u \in Task : \A i \in 1 .. Len(handoff[u]) : handoff[u][i] \in Task
    BY DEF IInv, TypeOK
  <2>2. \A u \in Task : status[u] # "granted"
    BY <1>1 DEF Owners, Unlocking
  <2>3. \A u \in Task : DOMAIN handoff[u] = 1 .. Len(handoff[u]) /\ Len(handoff[u]) \in Nat
                        /\ (handoff[u] # <<>> => Len(handoff[u]) > 0)
    BY EmptySeq, LenProperties DEF IInv, TypeOK
  <2>4. QED  BY <2>1, <2>2, <2>3 DEF IInv, WokenOnce
<1>21. WokenOnce'
  <2>1. /\ handoff'[t] = Granted(Left(t))
        /\ \A u \in Task \ {t} : handoff'[u] = <<>> /\ DOMAIN handoff'[u] = {}
    BY <1>7, <1>20 DEF IInv, TypeOK
  <2>2. \A i \in 1 .. n : Granted(Left(t))[i] \in G /\ status'[Granted(Left(t))[i]] = "granted"
    BY <1>5, <1>9, <1>10 DEF Waiting
  <2>3. \A i, j \in 1 .. n : Granted(Left(t))[i] = Granted(Left(t))[j] => i = j
    <3> SUFFICES ASSUME NEW i \in 1 .. n, NEW j \in 1 .. n,
                        Granted(Left(t))[i] = Granted(Left(t))[j]
                 PROVE  i = j
      OBVIOUS
    <3>1. i \in 1 .. Len(q) /\ j \in 1 .. Len(q)
      BY <1>len
    <3>2. Granted(Left(t))[i] = q[i].task /\ Granted(Left(t))[j] = q[j].task
      BY <1>5
    <3>3. q[i].task = q[j].task
      BY <3>2
    <3>4. \A k, m \in 1 .. Len(q) : q[k].task = q[m].task => k = m
      BY <1>8
    <3>5. QED  BY <3>1, <3>3, <3>4
  <2>4. \A u \in Task : status'[u] = "granted" => \E i \in 1 .. n : Granted(Left(t))[i] = u
    BY <1>5, <1>10, <1>11
  <2>only. \A u \in Task : \A i \in DOMAIN handoff'[u] :
             u = t /\ i \in 1 .. n /\ handoff'[u][i] = Granted(Left(t))[i]
    <3> SUFFICES ASSUME NEW u \in Task, NEW i \in DOMAIN handoff'[u]
                 PROVE  u = t /\ i \in 1 .. n /\ handoff'[u][i] = Granted(Left(t))[i]
      OBVIOUS
    <3>1. u = t
      BY <2>1
    <3>2. handoff'[u] = Granted(Left(t))
      BY <2>1, <3>1
    <3>3. QED  BY <1>6, <3>1, <3>2
  <2>5. \A u, v \in Task : \A i \in DOMAIN handoff'[u], j \in DOMAIN handoff'[v] :
          handoff'[u][i] = handoff'[v][j] => u = v /\ i = j
    BY <2>only, <2>3
  <2>6. \A u \in Task : \A i \in DOMAIN handoff'[u] : status'[handoff'[u][i]] = "granted"
    BY <2>only, <2>2
  <2>7. \A u \in Task : status'[u] = "granted" =>
          \E v \in Task : \E i \in DOMAIN handoff'[v] : handoff'[v][i] = u
    BY <1>6, <2>1, <2>4
  <2>8. QED  BY <2>5, <2>6, <2>7 DEF WokenOnce
<1>22. Settled'
  BY <1>7, <1>10, <1>20 DEF IInv, TypeOK, Settled
<1>23. \A u \in Owners', v \in Waiting' : Place(u) < Place(v)
  <2>1. \A u \in Waiting : Place(u) \in 1 .. Len(q) /\ q[Place(u)].task = u
    BY <1>2, <1>8 DEF Place, q
  <2>2. \A u \in G : Place(u) \in 1 .. n
    <3>1. \A i \in 1 .. n : i \in 1 .. Len(q)
      BY <1>len
    <3>2. QED  BY <1>8, <1>9, <2>1, <3>1, SMTT(30)
  <2>3. \A v \in Waiting \ G : Place(v) \in 1 .. Len(q) /\ Place(v) \notin 1 .. n
    BY <2>1
  <2>4. QED  BY <1>2, <1>3, <1>12, <2>2, <2>3
<1>24. IInv'
  BY <1>15, <1>16, <1>17, <1>18, <1>19, <1>21, <1>22 DEF IInv
<1>25. QED  BY <1>1, <1>9, <1>12, <1>13, <1>23, <1>24

(* What a release does to everybody: the owner leaves, and only the last   *)
(* one hands over, to a batch from the front of the queue.                 *)
Released(t) ==
  /\ t \in Owners
  /\ \/ /\ Owners = {t} => Waiting = {}
        /\ Readers' = Readers \ {t} /\ Writers' = {} /\ Waiting' = Waiting
        /\ Writers \ {t} = {}
     \/ /\ Owners = {t}
        /\ Owners' # {} /\ Owners' \in SUBSET Waiting
        /\ Waiting' = Waiting \ Owners'
        /\ \/ Readers' = Owners' /\ Writers' = {}
           \/ Writers' = Owners' /\ Readers' = {} /\ \E w \in Owners' : Owners' = {w}
        /\ \A u \in Owners', v \in Waiting' : Place(u) < Place(v)

(* An unlock keeps the invariant, whether or not it grants the lock on.    *)
LEMMA UnlockIInv ==
  ASSUME IInv, NEW t \in Task, Unlock(t)
  PROVE  IInv' /\ Released(t)
<1>1. Unlocking(t) /\ Release(t, Left(t))
  BY ReadUnlocking, WriteUnlocking DEF Unlock
<1>2. CASE MustGrant(Left(t))
  BY <1>1, <1>2, ReleaseWithGrant DEF Released
<1>3. CASE ~MustGrant(Left(t))
  <2>1. Writers \ {t} = {}
    BY <1>1 DEF Unlocking
  <2>2. QED  BY <1>1, <1>3, <2>1, ReleaseWithoutGrant DEF Released
<1>4. QED  BY <1>2, <1>3

(* The owner at the head of a hand-over list learns that it is one.        *)
LEMMA WakeIInv ==
  ASSUME IInv, NEW t \in Task, Wake(t)
  PROVE  /\ IInv'
         /\ Owners' = Owners /\ Readers' = Readers /\ Writers' = Writers
         /\ Waiting' = Waiting
<1> DEFINE s == handoff[t]
           h == handoff[t][1]
<1>1. /\ s \in Seq(Task) /\ s # <<>>
      /\ DOMAIN s = 1 .. Len(s) /\ Len(s) \in Nat /\ Len(s) > 0
      /\ h \in Task /\ Head(s) = h
      /\ Tail(s) \in Seq(Task) /\ DOMAIN Tail(s) = 1 .. Len(s) - 1
      /\ \A i \in 1 .. Len(s) - 1 : Tail(s)[i] = s[i + 1]
  <2>1. s \in Seq(Task) /\ s # <<>>
    BY DEF IInv, TypeOK, Wake
  <2>2. DOMAIN s = 1 .. Len(s) /\ Len(s) \in Nat /\ Len(s) > 0
    BY <2>1, EmptySeq, LenProperties
  <2>3. h \in Task /\ Head(s) = h
    BY <2>1, <2>2, ElementOfSeq
  <2>4. /\ Tail(s) \in Seq(Task) /\ DOMAIN Tail(s) = 1 .. Len(s) - 1
        /\ \A i \in 1 .. Len(s) - 1 : Tail(s)[i] = s[i + 1]
    BY <2>1, HeadTailProperties, LenProperties
  <2>5. QED  BY <2>1, <2>2, <2>3, <2>4
<1>2. /\ status' = [status EXCEPT ![h] = "holding"]
      /\ handoff' = [handoff EXCEPT ![t] = Tail(s)]
      /\ lock' = lock /\ reads' = reads
  BY <1>1 DEF Wake
<1> HIDE DEF s
<1>3. status[h] = "granted" /\ h = s[1]
  BY <1>1 DEF IInv, WokenOnce, s
<1>4. /\ \A u \in Task : status'[u] = IF u = h THEN "holding" ELSE status[u]
      /\ \A u \in Task : handoff'[u] = IF u = t THEN Tail(s) ELSE handoff[u]
  BY <1>1, <1>2 DEF IInv, TypeOK
<1>5. /\ Owners' = Owners /\ Readers' = Readers /\ Writers' = Writers
      /\ Waiting' = Waiting
  BY <1>2, <1>3, <1>4 DEF Owners, Readers, Writers, Waiting
<1>6. TypeOK'
  BY <1>1, <1>2 DEF IInv, TypeOK, Status
<1>7. MutualExclusion' /\ CountIsOwners' /\ QueueIsWaiting' /\ NoIdleWait'
  BY <1>2, <1>5 DEF IInv, MutualExclusion, CountIsOwners, QueueIsWaiting, NoIdleWait
<1>8. WokenOnce'
  <2> DEFINE At(u, i) == IF u = t THEN i + 1 ELSE i
  <2>1. \A u \in Task : \A i \in DOMAIN handoff'[u] :
          /\ At(u, i) \in DOMAIN handoff[u]
          /\ handoff'[u][i] = handoff[u][At(u, i)]
          /\ handoff'[u][i] # h
          /\ handoff'[u][i] \in Task
    <3> SUFFICES ASSUME NEW u \in Task, NEW i \in DOMAIN handoff'[u]
                 PROVE  /\ At(u, i) \in DOMAIN handoff[u]
                        /\ handoff'[u][i] = handoff[u][At(u, i)]
                        /\ handoff'[u][i] # h
                        /\ handoff'[u][i] \in Task
      OBVIOUS
    <3>1. CASE u = t
      <4>1. i \in 1 .. Len(s) - 1 /\ i + 1 \in 1 .. Len(s) /\ i + 1 # 1 /\ 1 \in 1 .. Len(s)
        <5>1. handoff'[u] = Tail(s)
          BY <1>4, <3>1
        <5>2. i \in 1 .. Len(s) - 1
          BY <1>1, <5>1
        <5>3. Len(s) \in Nat
          BY <1>1
        <5>4. QED  BY <5>2, <5>3
      <4>2. handoff'[u][i] = s[i + 1] /\ s[i + 1] \in Task
        BY <1>1, <1>4, <3>1, <4>1, ElementOfSeq
      <4>3. s[i + 1] # s[1]
        BY <1>1, <4>1 DEF IInv, WokenOnce, s
      <4>4. QED  BY <1>1, <1>3, <3>1, <4>1, <4>2, <4>3 DEF s
    <3>2. CASE u # t
      <4>1. handoff'[u] = handoff[u] /\ 1 \in DOMAIN s
        BY <1>1, <1>4, <3>2
      <4>2. handoff[u][i] # s[1]
        BY <3>2, <4>1 DEF IInv, WokenOnce, s
      <4>3. handoff[u][i] \in Task
        BY <4>1, ElementOfSeq, LenProperties DEF IInv, TypeOK
      <4>4. QED  BY <1>3, <3>2, <4>1, <4>2, <4>3
    <3>3. QED  BY <3>1, <3>2
  <2>int. \A u \in Task : \A i \in DOMAIN handoff'[u] : i \in Int
    <3> SUFFICES ASSUME NEW u \in Task
                 PROVE  \A i \in DOMAIN handoff'[u] : i \in Int
      OBVIOUS
    <3>1. handoff'[u] \in Seq(Task)
      BY <1>6 DEF TypeOK
    <3>2. QED  BY <3>1, LenProperties
  <2>2. \A u, v \in Task : \A i \in DOMAIN handoff'[u], j \in DOMAIN handoff'[v] :
          handoff'[u][i] = handoff'[v][j] => u = v /\ i = j
    <3> SUFFICES ASSUME NEW u \in Task, NEW v \in Task,
                        NEW i \in DOMAIN handoff'[u], NEW j \in DOMAIN handoff'[v],
                        handoff'[u][i] = handoff'[v][j]
                 PROVE  u = v /\ i = j
      OBVIOUS
    <3>1. u = v /\ At(u, i) = At(v, j)
      BY <2>1 DEF IInv, WokenOnce
    <3>2. i \in Int /\ j \in Int
      BY <2>int
    <3>3. QED  BY <3>1, <3>2
  <2>3. \A u \in Task : \A i \in DOMAIN handoff'[u] : status'[handoff'[u][i]] = "granted"
    BY <1>4, <2>1 DEF IInv, WokenOnce
  <2>4. \A u \in Task : status'[u] = "granted" =>
          \E v \in Task : \E i \in DOMAIN handoff'[v] : handoff'[v][i] = u
    <3> SUFFICES ASSUME NEW u \in Task, status'[u] = "granted"
                 PROVE  \E v \in Task : \E i \in DOMAIN handoff'[v] : handoff'[v][i] = u
      OBVIOUS
    <3>1. u # h /\ status[u] = "granted"
      BY <1>4
    <3>2. PICK v \in Task : \E i \in DOMAIN handoff[v] : handoff[v][i] = u
      BY <3>1 DEF IInv, WokenOnce
    <3>3. PICK i \in DOMAIN handoff[v] : handoff[v][i] = u
      BY <3>2
    <3>4. CASE v # t
      BY <1>4, <3>3, <3>4
    <3>5. CASE v = t
      <4>1. i \in 1 .. Len(s) /\ s[i] = u /\ i # 1
        BY <1>1, <1>3, <3>1, <3>3, <3>5 DEF s
      <4>2. i - 1 \in 1 .. Len(s) - 1 /\ (i - 1) + 1 = i
        BY <1>1, <4>1
      <4>3. Tail(s)[i - 1] = u /\ i - 1 \in DOMAIN Tail(s)
        BY <1>1, <4>1, <4>2
      <4>4. handoff'[t] = Tail(s)
        BY <1>4
      <4>5. QED  BY <4>3, <4>4
    <3>6. QED  BY <3>4, <3>5
  <2>5. QED  BY <2>2, <2>3, <2>4 DEF WokenOnce
<1>9. Settled'
  <2>1. status[t] = "outside" /\ t # h
    BY <1>1, <1>3 DEF IInv, Settled, s
  <2>2. QED  BY <1>3, <1>4, <2>1 DEF IInv, Settled
<1>10. QED  BY <1>5, <1>6, <1>7, <1>8, <1>9 DEF IInv

(* A step that changes nothing keeps the invariant and moves no task.      *)
LEMMA StutterIInv ==
  ASSUME IInv, UNCHANGED vars
  PROVE  /\ IInv'
         /\ Owners' = Owners /\ Readers' = Readers /\ Writers' = Writers
         /\ Waiting' = Waiting
<1>1. /\ Owners' = Owners /\ Readers' = Readers /\ Writers' = Writers
      /\ Waiting' = Waiting
  BY DEF vars, Owners, Readers, Writers, Waiting
<1>2. QED
  BY <1>1 DEF vars, IInv, TypeOK, MutualExclusion, CountIsOwners, QueueIsWaiting,
              NoIdleWait, WokenOnce, Settled

(* Every operation keeps the invariant: it is inductive.                   *)
LEMMA NextIInv == IInv /\ [Next]_vars => IInv'
<1> SUFFICES ASSUME IInv, [Next]_vars PROVE IInv'
  OBVIOUS
<1>1. ASSUME NEW t \in Task, ReadLock(t) PROVE IInv'
  BY <1>1, ReadLockIInv
<1>2. ASSUME NEW t \in Task, WriteLock(t) PROVE IInv'
  BY <1>2, WriteLockIInv
<1>3. ASSUME NEW t \in Task, Unlock(t) PROVE IInv'
  BY <1>3, UnlockIInv
<1>4. ASSUME NEW t \in Task, Wake(t) PROVE IInv'
  BY <1>4, WakeIInv
<1>5. CASE UNCHANGED vars
  BY <1>5, StutterIInv
<1>6. QED  BY <1>1, <1>2, <1>3, <1>4, <1>5 DEF Next, Lock

-----------------------------------------------------------------------------
(* All of the lock's safety invariants hold together, for any number of    *)
(* tasks.                                                                  *)
THEOREM Invariance == Spec => []IInv
<1>1. QED  BY InitIInv, NextIInv, PTL DEF Spec

(* The variables keep the shape that task_t and info_t give them; count_   *)
(* never goes below -1.                                                    *)
THEOREM TypeCorrect == Spec => []TypeOK
<1>1. IInv => TypeOK
  BY DEF IInv
<1>2. QED  BY Invariance, <1>1, PTL

(* A writer owns the lock alone, whatever the interleaving of grants,      *)
(* wake-ups and newcomers, for any number of tasks.                        *)
THEOREM Exclusion == Spec => []MutualExclusion
<1>1. IInv => MutualExclusion
  BY DEF IInv
<1>2. QED  BY Invariance, <1>1, PTL

(* count_ counts the owners, so the assertions of read_unlock and          *)
(* write_unlock hold.                                                      *)
THEOREM Counting == Spec => []CountIsOwners
<1>1. IInv => CountIsOwners
  BY DEF IInv
<1>2. QED  BY Invariance, <1>1, PTL

(* The list head_ .. tail_ holds the blocked tasks, each once, and whoever *)
(* is at its head has a reason to wait.                                    *)
THEOREM Queueing == Spec => [](QueueIsWaiting /\ NoIdleWait)
<1>1. IInv => QueueIsWaiting /\ NoIdleWait
  BY DEF IInv
<1>2. QED  BY Invariance, <1>1, PTL

(* Every task process_list takes off the queue is put on a ready list once. *)
THEOREM Waking == Spec => []WokenOnce
<1>1. IInv => WokenOnce
  BY DEF IInv
<1>2. QED  BY Invariance, <1>1, PTL

-----------------------------------------------------------------------------
(* No task owns the lock before one that was queued ahead of it: the lock  *)
(* is first come, first served, with readers in a batch.                   *)
THEOREM FirstComeFirstServed == Spec => NoOvertaking
<1> DEFINE Fair == \A t \in Owners' \ Owners : \A u \in Waiting :
                     (t \in Waiting => Place(u) < Place(t)) => u \notin Waiting'
<1>1. ASSUME IInv, [Next]_vars PROVE Fair \/ UNCHANGED vars
  <2>1. ASSUME NEW t \in Task, Lock(t) PROVE Fair
    <3>1. Asked(t)
      BY <1>1, <2>1, ReadLockIInv, WriteLockIInv DEF Lock
    <3>2. Owners = Readers \cup Writers /\ Owners' = Readers' \cup Writers'
      BY DEF Owners, Readers, Writers
    <3>3. QED  BY <3>1, <3>2 DEF Asked
  <2>2. ASSUME NEW t \in Task, Unlock(t) PROVE Fair
    <3>1. Released(t)
      BY <1>1, <2>2, UnlockIInv
    <3>2. Owners = Readers \cup Writers /\ Owners' = Readers' \cup Writers'
      BY DEF Owners, Readers, Writers
    <3>3. \A u \in Waiting : Place(u) \in Int
      BY <1>1, Types DEF IInv, QueueIsWaiting, Place
    <3>4. CASE Owners' \in SUBSET Waiting /\ \A u \in Owners', v \in Waiting' : Place(u) < Place(v)
      <4> SUFFICES ASSUME NEW o \in Owners', NEW u \in Waiting, Place(u) < Place(o),
                          u \in Waiting'
                   PROVE  FALSE
        BY <3>4
      <4>1. Place(o) < Place(u) /\ Place(o) \in Int /\ Place(u) \in Int
        BY <3>3, <3>4
      <4>2. QED  BY <4>1
    <3>5. CASE Readers' = Readers \ {t} /\ Writers' = {}
      BY <3>2, <3>5
    <3>6. QED  BY <3>1, <3>4, <3>5 DEF Released
  <2>3. ASSUME NEW t \in Task, Wake(t) PROVE Fair
    BY <1>1, <2>3, WakeIInv
  <2>4. QED  BY <1>1, <2>1, <2>2, <2>3 DEF Next
<1>2. IInv /\ [Next]_vars => [Fair]_vars
  BY <1>1
<1>3. QED  BY Invariance, <1>2, PTL DEF Spec, NoOvertaking

(* With the counter, the queue and the pending wake-ups forgotten, every   *)
(* step of the lock is a step of RWLock: acquire, wait, leave or hand over. *)
THEOREM Implementation == Spec => ImplementsRWLock
<1>1. Init => RW!RWInit
  BY DEF Init, RW!RWInit, Owners, Readers, Writers, Waiting
<1>2. ASSUME IInv, [Next]_vars PROVE [RW!RWNext]_(RW!rwVars)
  <2>0. Owners = Readers \cup Writers /\ Owners' = Readers' \cup Writers'
    BY DEF Owners, Readers, Writers
  <2>1. ASSUME NEW t \in Task, Lock(t) PROVE RW!RWNext
    <3>1. Asked(t)
      BY <1>2, <2>1, ReadLockIInv, WriteLockIInv DEF Lock
    <3>2. RW!AcquireRead(t) \/ RW!AcquireWrite(t) \/ RW!Wait(t)
      BY <2>0, <3>1 DEF Asked, RW!AcquireRead, RW!AcquireWrite, RW!Wait, RW!Outside, RW!Free
    <3>3. QED  BY <3>2 DEF RW!RWNext
  <2>2. ASSUME NEW t \in Task, Unlock(t) PROVE RW!RWNext
    <3>1. Released(t)
      BY <1>2, <2>2, UnlockIInv
    <3>2. RW!Leave(t) \/ RW!HandOver(t)
      <4>1. CASE /\ Owners = {t} => Waiting = {}
                 /\ Readers' = Readers \ {t} /\ Writers' = {} /\ Waiting' = Waiting
                 /\ Writers \ {t} = {}
        BY <2>0, <3>1, <4>1 DEF Released, RW!Leave
      <4>2. CASE /\ Owners = {t}
                 /\ Owners' # {} /\ Owners' \in SUBSET Waiting
                 /\ Waiting' = Waiting \ Owners'
                 /\ \/ Readers' = Owners' /\ Writers' = {}
                    \/ Writers' = Owners' /\ Readers' = {} /\ \E w \in Owners' : Owners' = {w}
        <5>1. Waiting # {} /\ Owners' \in (SUBSET Waiting) \ {{}}
          BY <4>2
        <5>2. QED  BY <2>0, <4>2, <5>1 DEF RW!HandOver
      <4>3. QED  BY <3>1, <4>1, <4>2 DEF Released
    <3>3. QED  BY <3>2 DEF RW!RWNext
  <2>3. ASSUME NEW t \in Task, Wake(t) PROVE UNCHANGED RW!rwVars
    BY <1>2, <2>3, WakeIInv DEF RW!rwVars
  <2>4. CASE UNCHANGED vars
    BY <1>2, <2>4, StutterIInv DEF RW!rwVars
  <2>5. QED  BY <1>2, <2>1, <2>2, <2>3, <2>4 DEF Next
<1>3. QED  BY <1>1, <1>2, Invariance, PTL DEF Spec, ImplementsRWLock, RW!RWSpec

=============================================================================
