--------------------- MODULE PartitionedSchedulerProofs ---------------------
(***************************************************************************)
(* The locks and lists of PartitionedScheduler, for every program and any  *)
(* number of executors and tasks.  A task is in one place at a time, and   *)
(* the place it has reached says which locks it has; the count of every    *)
(* lock is an account of those who have it.  Isolation follows.  Then the  *)
(* wake-ups and the counting of skips, again for all, and what the         *)
(* messages of the ring bring about, for one executor and for two.         *)
(***************************************************************************)
EXTENDS PartitionedScheduler, SequenceTheorems, FiniteSetTheorems, WellFoundedInduction, TLAPS

(***************************************************************************)
(* What the operations of InfoLock return, for every lock and every queue. *)
(* The proofs below cite these facts instead of its definitions.           *)
(***************************************************************************)
Requests(T) == [task : T, read : BOOLEAN]
Locks(T) == [count : Int, queue : Seq(Requests(T))]

(* A non-empty set of natural numbers has a least element: the position of *)
(* the first writer in a queue is one.                                     *)
LEMMA LeastNat ==
  ASSUME NEW S \in SUBSET Nat, S # {}
  PROVE  \E m \in S : \A k \in S : m <= k
<1>1. PICK m \in S : \A k \in S : ~(<<k, m>> \in OpToRel(<, Nat))
  BY WFMin, NatLessThanWellFounded
<1>2. \A k \in S : ~(k < m)
  BY <1>1 DEF OpToRel
<1>3. QED  BY <1>2

(* process_list grants the writer at the head alone, or the readers up to  *)
(* the first writer and no fewer.                                          *)
LEMMA GrantSizeSpec ==
  ASSUME NEW T, NEW q \in Seq(Requests(T)), q # <<>>
  PROVE  /\ GrantSize(q) \in 1 .. Len(q)
         /\ ~q[1].read => GrantSize(q) = 1
         /\ q[1].read => /\ \A i \in 1 .. GrantSize(q) : q[i].read
                         /\ GrantSize(q) = Len(q) \/ ~q[GrantSize(q) + 1].read
<1>1. Len(q) \in Nat \ {0}
  BY EmptySeq
<1>2. CASE ~q[1].read
  BY <1>1, <1>2 DEF GrantSize
<1>3. CASE q[1].read
  <2> DEFINE Prefix(n) == /\ \A i \in 1 .. n : q[i].read
                          /\ n = Len(q) \/ ~q[n + 1].read
             W == {i \in 1 .. Len(q) : ~q[i].read}
  <2>1. \E n \in 1 .. Len(q) : Prefix(n)
    <3>1. CASE W = {}
      <4>1. Prefix(Len(q))
        BY <3>1
      <4>2. QED  BY <4>1, <1>1
    <3>2. CASE W # {}
      <4>1. PICK m \in W : \A k \in W : m <= k
        <5>1. W \in SUBSET Nat
          OBVIOUS
        <5> HIDE DEF W
        <5>2. QED  BY <3>2, <5>1, LeastNat
      <4>2. m - 1 \in 1 .. Len(q)
        BY <1>1, <1>3, <4>1
      <4>3. Prefix(m - 1)
        BY <1>1, <4>1, <4>2
      <4>4. QED  BY <4>2, <4>3
    <3>3. QED  BY <3>1, <3>2
  <2>2. GrantSize(q) = CHOOSE n \in 1 .. Len(q) : Prefix(n)
    BY <1>3 DEF GrantSize
  <2> HIDE DEF Prefix
  <2>3. GrantSize(q) \in 1 .. Len(q) /\ Prefix(GrantSize(q))
    BY <2>1, <2>2
  <2>4. QED  BY <1>3, <2>3 DEF Prefix
<1>4. QED  BY <1>2, <1>3

(* A grant takes the batch off the front of the queue, hands its tasks out *)
(* in order, and leaves the rest of the queue in order.                    *)
LEMMA GrantSpec ==
  ASSUME NEW T, NEW l \in Locks(T), MustGrant(l)
  PROVE  LET q == l.queue
             n == GrantSize(l.queue)
             m == ProcessList(l)
         IN /\ m \in Locks(T)
            /\ m.count = IF q[1].read THEN n ELSE -1
            /\ Len(m.queue) = Len(q) - n
            /\ \A i \in 1 .. Len(q) - n : m.queue[i] = q[i + n]
            /\ Granted(l) \in Seq(T)
            /\ Len(Granted(l)) = n
            /\ \A i \in 1 .. n : Granted(l)[i] = q[i].task
<1> DEFINE q == l.queue
           n == GrantSize(q)
           r == SubSeq(q, n + 1, Len(q))
<1>1. q \in Seq(Requests(T)) /\ q # <<>>
  BY DEF Locks, MustGrant
<1>2. n \in 1 .. Len(q) /\ Len(q) \in Nat
  BY <1>1, GrantSizeSpec, LenProperties
<1>3. \A i \in 1 .. Len(q) : q[i] \in Requests(T)
  BY <1>1, ElementOfSeq
<1>4. /\ r \in Seq(Requests(T))
      /\ Len(r) = Len(q) - n
      /\ \A i \in 1 .. Len(q) - n : r[i] = q[i + n]
  <2>1. \A i \in n + 1 .. Len(q) : q[i] \in Requests(T)
    BY <1>2, <1>3
  <2>2. n + 1 \in Int /\ Len(q) \in Int
    BY <1>2
  <2> HIDE DEF q, n
  <2>3. /\ r \in Seq(Requests(T))
        /\ Len(r) = IF n + 1 <= Len(q) THEN Len(q) - (n + 1) + 1 ELSE 0
        /\ \A i \in 1 .. Len(q) - (n + 1) + 1 : r[i] = q[n + 1 + i - 1]
    BY <2>1, <2>2, SubSeqProperties
  <2>4. QED  BY <1>2, <2>3
<1>5. ProcessList(l) = [count |-> IF q[1].read THEN n ELSE -1, queue |-> r]
  BY DEF ProcessList
<1>6. Granted(l) = [i \in 1 .. n |-> q[i].task]
  BY DEF Granted
<1>7. [i \in 1 .. n |-> q[i].task] \in Seq(T) /\ Len([i \in 1 .. n |-> q[i].task]) = n
  <2>1. \A i \in 1 .. n : q[i].task \in T
    BY <1>2, <1>3 DEF Requests
  <2>2. n \in Nat
    BY <1>2
  <2> HIDE DEF q, n
  <2>3. QED  BY <2>1, <2>2
<1> HIDE DEF q, n, r
<1>8. ProcessList(l) \in Locks(T)
  BY <1>2, <1>4, <1>5 DEF Locks
<1>9. QED  BY <1>2, <1>4, <1>5, <1>6, <1>7, <1>8 DEF q, n

(* The number of tasks at the first n places of a queue without            *)
(* repetitions is n.                                                       *)
LEMMA BatchCardinality ==
  ASSUME NEW n \in Nat, NEW f, DOMAIN f = 1 .. n,
         \A i, j \in 1 .. n : f[i] = f[j] => i = j,
         NEW S, S = {f[i] : i \in 1 .. n}
  PROVE  Cardinality(S) = n
<1> DEFINE g == [i \in 1 .. n |-> f[i]]
<1>1. g \in Bijection(1 .. n, S)
  <2>1. g \in [1 .. n -> S]
    OBVIOUS
  <2>2. \A i, j \in 1 .. n : g[i] = g[j] => i = j
    OBVIOUS
  <2>3. \A s \in S : \E i \in 1 .. n : g[i] = s
    OBVIOUS
  <2> HIDE DEF g
  <2>4. QED  BY <2>1, <2>2, <2>3 DEF Bijection, Injection, Surjection, IsInjective
<1>2. ExistsBijection(1 .. n, S)
  BY <1>1 DEF ExistsBijection
<1>3. QED  BY <1>2, FS_CountingElements

(* With nothing to grant the list is left alone and nobody is woken.       *)
LEMMA NoGrantSpec ==
  ASSUME NEW l, ~MustGrant(l)
  PROVE  ProcessList(l) = l /\ Granted(l) = <<>>
BY DEF ProcessList, Granted

-----------------------------------------------------------------------------

(***************************************************************************)
(* One lock l, the set O of those who have it, and the set V of those who  *)
(* take it for writing.                                                    *)
(***************************************************************************)
Account(l, O, V) ==
  \/ l.count = -1 /\ \E w \in V : O = {w}
  \/ l.count \in Nat /\ l.count = Cardinality(O) /\ O \cap V = {}

(* A task that does not block is added to the account. *)
LEMMA AcquireAccount ==
  ASSUME NEW T, NEW l \in Locks(T), NEW O \in SUBSET T, IsFiniteSet(O), NEW V,
         NEW t \in T \ O, Account(l, O, V)
  PROVE  /\ t \notin V /\ ~ReadBlocks(l) => Account(AfterReadLock(l, t), O \cup {t}, V)
         /\ t \in V /\ ~WriteBlocks(l) => Account(AfterWriteLock(l, t), O \cup {t}, V)
<1>1. l.count \in Int /\ l = [count |-> l.count, queue |-> l.queue]
  BY DEF Locks
<1>2. Cardinality(O \cup {t}) = Cardinality(O) + 1 /\ Cardinality(O) \in Nat
  BY FS_AddElement, FS_CardinalityType
<1>3. ASSUME t \notin V, ~ReadBlocks(l)
      PROVE  Account(AfterReadLock(l, t), O \cup {t}, V)
  <2>1. l.count \in Nat /\ l.count = Cardinality(O) /\ O \cap V = {}
    BY <1>1, <1>3 DEF Account, ReadBlocks
  <2>2. AfterReadLock(l, t).count = l.count + 1
    BY <1>1, <1>3 DEF AfterReadLock
  <2>3. QED
    BY <1>2, <1>3, <2>1, <2>2 DEF Account
<1>4. ASSUME t \in V, ~WriteBlocks(l)
      PROVE  Account(AfterWriteLock(l, t), O \cup {t}, V)
  <2>1. l.count = 0
    BY <1>4 DEF WriteBlocks
  <2>2. Cardinality(O) = 0
    BY <2>1 DEF Account
  <2>3. O = {}
    BY <2>2, FS_EmptySet
  <2>4. AfterWriteLock(l, t).count = -1
    BY <1>1, <1>4, <2>1 DEF AfterWriteLock
  <2>5. QED
    BY <1>4, <2>3, <2>4 DEF Account
<1>5. QED
  BY <1>3, <1>4

(* One that blocks changes the queue only. *)
LEMMA BlockAccount ==
  ASSUME NEW T, NEW l \in Locks(T), NEW O, NEW V, NEW t \in T, Account(l, O, V)
  PROVE  /\ ReadBlocks(l) => Account(AfterReadLock(l, t), O, V)
         /\ WriteBlocks(l) => Account(AfterWriteLock(l, t), O, V)
<1>1. l = [count |-> l.count, queue |-> l.queue]
  BY DEF Locks
<1>2. ReadBlocks(l) => AfterReadLock(l, t).count = l.count
  BY <1>1 DEF AfterReadLock
<1>3. WriteBlocks(l) => AfterWriteLock(l, t).count = l.count
  BY <1>1 DEF AfterWriteLock
<1>4. QED
  BY <1>2, <1>3 DEF Account

(* An unlock takes the task off the account and puts those on it to whom   *)
(* the lock is granted.                                                    *)
Unlocked(l, t, V) == IF t \in V THEN DropWrite(l) ELSE DropRead(l)
GrantedSet(l) == {Granted(l)[k] : k \in 1 .. Len(Granted(l))}

LEMMA UnlockAccount ==
  ASSUME NEW T, NEW l \in Locks(T), NEW O \in SUBSET T, IsFiniteSet(O), NEW V,
         NEW t \in O, Account(l, O, V),
         \A k \in 1 .. Len(l.queue) : l.queue[k].read <=> l.queue[k].task \notin V,
         \A j, k \in 1 .. Len(l.queue) : l.queue[j].task = l.queue[k].task => j = k
  PROVE  LET m == Unlocked(l, t, V)
         IN  /\ m \in Locks(T) /\ m.queue = l.queue
             /\ Account(ProcessList(m), (O \ {t}) \cup GrantedSet(m), V)
<1> DEFINE m == Unlocked(l, t, V)
<1>1. /\ l.count \in Int /\ l = [count |-> l.count, queue |-> l.queue]
      /\ l.queue \in Seq(Requests(T))
  BY DEF Locks
<1>2. m = [count |-> IF t \in V THEN l.count + 1 ELSE l.count - 1, queue |-> l.queue]
  BY <1>1 DEF Unlocked, DropWrite, DropRead
<1>3. m \in Locks(T) /\ m.queue = l.queue
  BY <1>1, <1>2 DEF Locks
<1>4. /\ IsFiniteSet(O \ {t}) /\ Cardinality(O) \in Nat
      /\ Cardinality(O \ {t}) = Cardinality(O) - 1
      /\ Cardinality(O \ {t}) \in Nat
  BY FS_RemoveElement, FS_CardinalityType
<1>5. /\ m.count \in Nat /\ m.count = Cardinality(O \ {t})
      /\ (O \ {t}) \cap V = {}
  <2>1. CASE t \in V
    <3>1. l.count = -1 /\ O = {t}
      BY <2>1 DEF Account
    <3>2. O \ {t} = {}
      BY <3>1
    <3>3. Cardinality(O \ {t}) = 0
      BY <3>2, FS_EmptySet
    <3>4. QED
      BY <1>2, <2>1, <3>1, <3>2, <3>3
  <2>2. CASE t \notin V
    <3>1. l.count = Cardinality(O) /\ O \cap V = {}
      BY <2>2 DEF Account
    <3>2. m.count = Cardinality(O \ {t})
      BY <1>2, <1>4, <2>2, <3>1
    <3>3. QED
      BY <1>4, <3>1, <3>2
  <2>3. QED
    BY <2>1, <2>2
<1> HIDE DEF m
<1>6. CASE ~MustGrant(m)
  <2>1. ProcessList(m) = m /\ Granted(m) = <<>>
    BY <1>6, NoGrantSpec
  <2>2. GrantedSet(m) = {}
    BY <2>1 DEF GrantedSet
  <2>3. QED
    BY <1>3, <1>5, <2>1, <2>2 DEF Account, m
<1>7. CASE MustGrant(m)
  <2> DEFINE q == m.queue
             n == GrantSize(q)
             G == GrantedSet(m)
  <2>1. O \ {t} = {}
    BY <1>4, <1>5, <1>7, FS_EmptySet DEF MustGrant
  <2>2. /\ ProcessList(m).count = IF q[1].read THEN n ELSE -1
        /\ Len(Granted(m)) = n
        /\ \A k \in 1 .. n : Granted(m)[k] = q[k].task
    BY <1>3, <1>7, GrantSpec
  <2>3. q \in Seq(Requests(T)) /\ q # <<>>
    BY <1>3, <1>7 DEF Locks, MustGrant
  <2>4. /\ n \in 1 .. Len(q)
        /\ ~q[1].read => n = 1
        /\ q[1].read => \A k \in 1 .. n : q[k].read
    BY <2>3, GrantSizeSpec
  <2>5. Len(q) \in Nat /\ n \in Nat \ {0}
    BY <2>3, <2>4, LenProperties
  <2>6. \A k \in 1 .. n : k \in 1 .. Len(l.queue) /\ q[k] = l.queue[k]
    BY <1>3, <2>4, <2>5
  <2>7. G = {q[k].task : k \in 1 .. n}
    BY <2>2 DEF GrantedSet
  <2> HIDE DEF q, n, G
  <2>8. CASE q[1].read
    <3> DEFINE f == [k \in 1 .. n |-> q[k].task]
    <3>1. Cardinality(G) = n
      <4>1. \A j, k \in 1 .. n : f[j] = f[k] => j = k
        BY <2>6
      <4>2. G = {f[k] : k \in 1 .. n}
        BY <2>7
      <4>3. DOMAIN f = 1 .. n /\ n \in Nat
        BY <2>5
      <4> HIDE DEF f
      <4>4. QED
        BY <4>1, <4>2, <4>3, BatchCardinality
    <3>2. G \cap V = {}
      BY <2>4, <2>6, <2>7, <2>8
    <3>3. ProcessList(m).count = n
      BY <2>2, <2>8 DEF q, n
    <3>4. QED
      BY <1>3, <2>1, <2>5, <3>1, <3>2, <3>3 DEF Account, G, m
  <2>9. CASE ~q[1].read
    <3>1. n = 1 /\ ProcessList(m).count = -1
      BY <2>2, <2>4, <2>9 DEF q, n
    <3>2. G = {q[1].task}
      BY <2>7, <3>1
    <3>3. q[1].task \in V
      BY <2>6, <2>9, <3>1
    <3>4. QED
      BY <1>3, <2>1, <3>1, <3>2, <3>3 DEF Account, G, m
  <2>10. QED
    BY <2>8, <2>9
<1>8. QED
  BY <1>6, <1>7

(***************************************************************************)
(* Lists without repetitions.                                              *)
(***************************************************************************)
Has(s, t) == \E k \in 1 .. Len(s) : s[k] = t
Once(s) == \A j, k \in 1 .. Len(s) : s[j] = s[k] => j = k

LEMMA HasEmpty == \A t : ~Has(<<>>, t) /\ Once(<<>>)
BY EmptySeq DEF Has, Once

LEMMA AppendList ==
  ASSUME NEW T, NEW s \in Seq(T), NEW x \in T
  PROVE  /\ Append(s, x) \in Seq(T)
         /\ \A t : Has(Append(s, x), t) <=> Has(s, t) \/ t = x
         /\ Once(s) /\ ~Has(s, x) => Once(Append(s, x))
<1> DEFINE a == Append(s, x)
<1>1. /\ a \in Seq(T) /\ Len(a) = Len(s) + 1 /\ a[Len(s) + 1] = x
      /\ \A k \in 1 .. Len(s) : a[k] = s[k]
      /\ Len(s) \in Nat
  BY AppendProperties, LenProperties
<1> HIDE DEF a
<1>2. ASSUME NEW t PROVE Has(a, t) <=> Has(s, t) \/ t = x
  <2>1. \A k : k \in 1 .. Len(a) <=> k \in 1 .. Len(s) \/ k = Len(s) + 1
    BY <1>1
  <2>2. QED
    BY <1>1, <2>1 DEF Has
<1>3. ASSUME Once(s), ~Has(s, x) PROVE Once(a)
  <2>1. ASSUME NEW j \in 1 .. Len(a), NEW k \in 1 .. Len(a), a[j] = a[k] PROVE j = k
    <3>1. CASE j \in 1 .. Len(s) /\ k \in 1 .. Len(s)
      BY <1>1, <1>3, <2>1, <3>1 DEF Once
    <3>2. CASE j = Len(s) + 1 /\ k = Len(s) + 1
      BY <3>2
    <3>3. CASE j \in 1 .. Len(s) /\ k = Len(s) + 1
      BY <1>1, <1>3, <2>1, <3>3 DEF Has
    <3>4. CASE k \in 1 .. Len(s) /\ j = Len(s) + 1
      BY <1>1, <1>3, <2>1, <3>4 DEF Has
    <3>5. QED
      BY <1>1, <2>1, <3>1, <3>2, <3>3, <3>4
  <2>2. QED
    BY <2>1 DEF Once
<1>4. QED
  BY <1>1, <1>2, <1>3 DEF a

LEMMA TailList ==
  ASSUME NEW T, NEW s \in Seq(T), s # <<>>, Once(s)
  PROVE  /\ Head(s) \in T /\ Has(s, Head(s))
         /\ Tail(s) \in Seq(T) /\ Once(Tail(s))
         /\ Len(s) = 1 <=> Tail(s) = <<>>
         /\ \A t : Has(Tail(s), t) <=> Has(s, t) /\ t # Head(s)
<1> DEFINE u == Tail(s)
<1>1. /\ Head(s) \in T /\ u \in Seq(T) /\ Len(u) = Len(s) - 1
      /\ \A k \in 1 .. Len(u) : u[k] = s[k + 1]
      /\ Len(s) \in Nat \ {0}
  BY HeadTailProperties, EmptySeq
<1>2. Head(s) = s[1]
  OBVIOUS
<1> HIDE DEF u
<1>3. Len(s) = 1 <=> u = <<>>
  <2>1. u # <<>> => Len(u) \in Nat \ {0}
    BY <1>1, EmptySeq
  <2>2. u = <<>> => Len(u) = 0
    BY EmptySeq
  <2>3. QED
    BY <1>1, <2>1, <2>2
<1>4. Once(u)
  <2>1. ASSUME NEW j \in 1 .. Len(u), NEW k \in 1 .. Len(u), u[j] = u[k] PROVE j = k
    <3>1. j + 1 \in 1 .. Len(s) /\ k + 1 \in 1 .. Len(s) /\ s[j + 1] = s[k + 1]
      BY <1>1, <2>1
    <3>2. j + 1 = k + 1
      BY <3>1 DEF Once
    <3>3. QED
      BY <3>2
  <2>2. QED
    BY <2>1 DEF Once
<1>5. ASSUME NEW t PROVE Has(u, t) <=> Has(s, t) /\ t # s[1]
  <2>1. ASSUME NEW k \in 1 .. Len(u), u[k] = t PROVE Has(s, t) /\ t # s[1]
    <3>1. k + 1 \in 1 .. Len(s) /\ s[k + 1] = t /\ 1 \in 1 .. Len(s) /\ k + 1 # 1
      BY <1>1, <2>1
    <3>2. QED
      BY <3>1 DEF Has, Once
  <2>2. ASSUME NEW k \in 1 .. Len(s), s[k] = t, t # s[1] PROVE Has(u, t)
    <3>1. k - 1 \in 1 .. Len(u) /\ u[k - 1] = s[k - 1 + 1] /\ k - 1 + 1 = k
      BY <1>1, <2>2
    <3>2. QED
      BY <2>2, <3>1 DEF Has
  <2>3. QED
    BY <2>1, <2>2 DEF Has
<1>6. Has(s, s[1])
  BY <1>1 DEF Has
<1>7. QED
  BY <1>1, <1>2, <1>3, <1>4, <1>5, <1>6 DEF u

(* The queue of a lock, in which every request carries the access V says.  *)
Waits(q, t) == \E k \in 1 .. Len(q) : q[k].task = t
Queue(q, V) ==
  /\ \A j, k \in 1 .. Len(q) : q[j].task = q[k].task => j = k
  /\ \A k \in 1 .. Len(q) : q[k].read <=> q[k].task \notin V

LEMMA EnqueueQueue ==
  ASSUME NEW T, NEW q \in Seq(Requests(T)), NEW t \in T, NEW V, NEW r \in BOOLEAN,
         Queue(q, V), ~Waits(q, t), r <=> t \notin V
  PROVE  LET a == Append(q, Request(t, r))
         IN  /\ a \in Seq(Requests(T)) /\ Queue(a, V)
             /\ \A u : Waits(a, u) <=> Waits(q, u) \/ u = t
<1> DEFINE x == Request(t, r)
           a == Append(q, x)
<1>1. x \in Requests(T) /\ x.task = t /\ x.read = r
  BY DEF Request, Requests
<1> HIDE DEF x
<1>2. /\ a \in Seq(Requests(T)) /\ Len(a) = Len(q) + 1 /\ a[Len(q) + 1] = x
      /\ \A k \in 1 .. Len(q) : a[k] = q[k]
      /\ Len(q) \in Nat
  BY <1>1, AppendProperties, LenProperties
<1> HIDE DEF a
<1>3. \A k : k \in 1 .. Len(a) <=> k \in 1 .. Len(q) \/ k = Len(q) + 1
  BY <1>2
<1>4. ASSUME NEW u PROVE Waits(a, u) <=> Waits(q, u) \/ u = t
  BY <1>1, <1>2, <1>3 DEF Waits
<1>5. ASSUME NEW j \in 1 .. Len(a), NEW k \in 1 .. Len(a), a[j].task = a[k].task
      PROVE  j = k
  <2>1. CASE j \in 1 .. Len(q) /\ k \in 1 .. Len(q)
    BY <1>2, <1>5, <2>1 DEF Queue
  <2>2. CASE j \in 1 .. Len(q) /\ k = Len(q) + 1
    BY <1>1, <1>2, <1>5, <2>2 DEF Waits
  <2>3. CASE k \in 1 .. Len(q) /\ j = Len(q) + 1
    BY <1>1, <1>2, <1>5, <2>3 DEF Waits
  <2>4. QED
    BY <1>3, <2>1, <2>2, <2>3
<1>6. ASSUME NEW k \in 1 .. Len(a) PROVE a[k].read <=> a[k].task \notin V
  <2>1. CASE k \in 1 .. Len(q)
    BY <1>2, <2>1 DEF Queue
  <2>2. CASE k = Len(q) + 1
    BY <1>1, <1>2, <2>2
  <2>3. QED
    BY <1>3, <2>1, <2>2
<1>7. QED
  BY <1>2, <1>4, <1>5, <1>6 DEF Queue, a, x

(* process_list moves its batch from the queue to its list, and leaves the *)
(* others where they are.                                                  *)
LEMMA GrantQueue ==
  ASSUME NEW T, NEW l \in Locks(T), NEW V, Queue(l.queue, V)
  PROVE  /\ ProcessList(l) \in Locks(T)
         /\ Queue(ProcessList(l).queue, V)
         /\ Granted(l) \in Seq(T) /\ Once(Granted(l))
         /\ \A t : /\ Has(Granted(l), t) <=> t \in GrantedSet(l)
                   /\ t \in GrantedSet(l) => Waits(l.queue, t)
                   /\ Waits(ProcessList(l).queue, t) <=>
                        Waits(l.queue, t) /\ t \notin GrantedSet(l)
<1>1. \A t : Has(Granted(l), t) <=> t \in GrantedSet(l)
  BY DEF Has, GrantedSet
<1>2. CASE ~MustGrant(l)
  <2>1. ProcessList(l) = l /\ Granted(l) = <<>>
    BY <1>2, NoGrantSpec
  <2>2. \A t : ~Has(<<>>, t) /\ Once(<<>>) /\ <<>> \in Seq(T)
    BY HasEmpty, EmptySeq
  <2>3. QED
    BY <1>1, <2>1, <2>2
<1>3. CASE MustGrant(l)
  <2> DEFINE q == l.queue
             n == GrantSize(q)
             r == ProcessList(l).queue
             g == Granted(l)
  <2>1. /\ ProcessList(l) \in Locks(T)
        /\ Len(r) = Len(q) - n
        /\ \A k \in 1 .. Len(q) - n : r[k] = q[k + n]
        /\ g \in Seq(T) /\ Len(g) = n
        /\ \A k \in 1 .. n : g[k] = q[k].task
    BY <1>3, GrantSpec
  <2>2. q \in Seq(Requests(T)) /\ q # <<>>
    BY <1>3 DEF Locks, MustGrant
  <2>3. n \in 1 .. Len(q) /\ Len(q) \in Nat
    BY <2>2, GrantSizeSpec, LenProperties
  <2> HIDE DEF q, n, r, g
  <2>4. Once(g)
    <3>1. ASSUME NEW j \in 1 .. Len(g), NEW k \in 1 .. Len(g), g[j] = g[k] PROVE j = k
      <4>1. j \in 1 .. Len(q) /\ k \in 1 .. Len(q) /\ q[j].task = q[k].task
        BY <2>1, <2>3, <3>1
      <4>2. QED
        BY <4>1 DEF Queue, q
    <3>2. QED
      BY <3>1 DEF Once
  <2>5. Queue(r, V)
    <3>1. ASSUME NEW j \in 1 .. Len(r), NEW k \in 1 .. Len(r), r[j].task = r[k].task
          PROVE  j = k
      <4>1. /\ j + n \in 1 .. Len(q) /\ k + n \in 1 .. Len(q)
            /\ q[j + n].task = q[k + n].task
        BY <2>1, <2>3, <3>1
      <4>2. j + n = k + n
        BY <4>1 DEF Queue, q
      <4>3. QED
        BY <2>3, <4>2
    <3>2. ASSUME NEW k \in 1 .. Len(r) PROVE r[k].read <=> r[k].task \notin V
      <4>1. k + n \in 1 .. Len(q) /\ r[k] = q[k + n]
        BY <2>1, <2>3
      <4>2. QED
        BY <4>1 DEF Queue, q
    <3>3. QED
      BY <3>1, <3>2 DEF Queue
  <2>6. ASSUME NEW t
        PROVE  /\ Has(g, t) => Waits(q, t)
               /\ Waits(r, t) <=> Waits(q, t) /\ ~Has(g, t)
    <3>1. Has(g, t) => Waits(q, t)
      BY <2>1, <2>3 DEF Has, Waits
    <3>2. ASSUME NEW k \in 1 .. Len(r), r[k].task = t PROVE Waits(q, t) /\ ~Has(g, t)
      <4>1. k + n \in 1 .. Len(q) /\ q[k + n].task = t
        BY <2>1, <2>3, <3>2
      <4>2. ASSUME NEW j \in 1 .. Len(g), g[j] = t PROVE FALSE
        <5>1. j \in 1 .. Len(q) /\ q[j].task = t
          BY <2>1, <2>3, <4>2
        <5>2. j = k + n
          BY <4>1, <5>1 DEF Queue, q
        <5>3. QED
          BY <2>1, <2>3, <5>2
      <4>3. QED
        BY <4>1, <4>2 DEF Waits, Has
    <3>3. ASSUME NEW k \in 1 .. Len(q), q[k].task = t, ~Has(g, t) PROVE Waits(r, t)
      <4>1. k > n
        BY <2>1, <2>3, <3>3 DEF Has
      <4>2. k - n \in 1 .. Len(r) /\ r[k - n] = q[k - n + n] /\ k - n + n = k
        BY <2>1, <2>3, <4>1
      <4>3. QED
        BY <3>3, <4>2 DEF Waits
    <3>4. QED
      BY <3>1, <3>2, <3>3 DEF Waits
  <2>7. QED
    BY <1>1, <2>1, <2>4, <2>5, <2>6 DEF q, r, g
<1>4. QED
  BY <1>2, <1>3

-----------------------------------------------------------------------------
(***************************************************************************)
(* The invariant: at says in which list each task is, on which lock it     *)
(* waits for, or which executor is to wake it.                             *)
(***************************************************************************)
Places == {"idle", "ready", "run", "queue", "wake"}
Working == {"lock", "run", "unlock", "wake"}

Writing(i) == {t \in Task : i \in InstancesOf(t) /\ Access[t][i] = "Write"}
Holders(i) == {t \in Task : Holds(t, i)}

Typed ==
  /\ pc \in [Executor -> Pc]
  /\ task \in [Executor -> Task \cup {NoTask}]
  /\ pos \in [Task -> SUBSET Instance] /\ \A t \in Task : pos[t] \subseteq InstancesOf(t)
  /\ lock \in [Instance -> Locks(Task)]
  /\ idle \in [Executor -> Seq(Task)]
  /\ ready \in [Executor -> Seq(Task)]
  /\ handoff \in [Executor -> Seq(Task)]

IdleAre(at) ==
  \A e \in Executor : /\ Once(idle[e])
                      /\ \A t \in Task : Has(idle[e], t) <=> at[t] = "idle" /\ Owner[t] = e
ReadyAre(at) ==
  \A e \in Executor : /\ Once(ready[e])
                      /\ \A t \in Task : Has(ready[e], t) <=> at[t] = "ready" /\ Owner[t] = e
WokenAre(at, on) ==
  \A e \in Executor : /\ Once(handoff[e])
                      /\ \A t \in Task : Has(handoff[e], t) <=> at[t] = "wake" /\ on[t] = e
QueuedAre(at, on) ==
  \A i \in Instance : /\ Queue(lock[i].queue, Writing(i))
                      /\ \A t \in Task : Waits(lock[i].queue, t) <=> at[t] = "queue" /\ on[t] = i

(* A task that is queued for a lock has gone past it; one that is to be    *)
(* woken is on somebody's list.                                            *)
Waiting(at, on) ==
  \A t \in Task : /\ at[t] = "queue" => on[t] \in InstancesOf(t) \ pos[t]
                  /\ at[t] = "wake" => on[t] \in Executor

(* What an executor runs, and where in run_i it can be with it.            *)
RunAt(at, e) ==
  /\ \A t \in Task : task[e] = t <=> at[t] = "run" /\ Owner[t] = e
  /\ pc[e] \in Working => task[e] # NoTask
  /\ pc[e] \notin Working \cup {"aborted"} => task[e] = NoTask
  /\ pc[e] \in {"lock", "unlock"} => pos[task[e]] # {}
  /\ pc[e] = "run" => pos[task[e]] = {}
  /\ handoff[e] # <<>> <=> pc[e] = "wake"

Placed(at, on) ==
  /\ IdleAre(at) /\ ReadyAre(at) /\ WokenAre(at, on) /\ QueuedAre(at, on)
  /\ Waiting(at, on)
  /\ \A e \in Executor : RunAt(at, e)

Accounts == \A i \in Instance : Account(lock[i], Holders(i), Writing(i))

Inv(at, on) == Typed /\ Placed(at, on) /\ Accounts

IInv == \E at \in [Task -> Places], on \in [Task -> Int] : Inv(at, on)

(* Facts about the constants. *)
LEMMA Constants ==
  /\ NoTask \notin Task /\ IsFiniteSet(Task)
  /\ \A t \in Task : /\ Owner[t] \in Executor /\ InstancesOf(t) # {}
                     /\ InstancesOf(t) \subseteq Instance
  /\ Executor \subseteq Int /\ Instance \subseteq Int
<1>1. TaskCount \in Nat /\ Task = 1 .. TaskCount
  BY ConstantsAssumption DEF Task
<1>2. IsFiniteSet(Task)
  BY <1>1, FS_Interval
<1>3. NoTask \notin Task
  BY <1>1 DEF NoTask
<1>4. \A t \in Task : /\ Owner[t] \in Executor /\ InstancesOf(t) # {}
                      /\ InstancesOf(t) \subseteq Instance
  BY ConstantsAssumption DEF InstancesOf
<1>5. Executor \subseteq Int /\ Instance \subseteq Int
  BY ConstantsAssumption DEF Executor
<1>6. QED
  BY <1>2, <1>3, <1>4, <1>5

(* What it means to have a lock, in terms of the places. *)
Means(at, on, t, i) ==
  /\ i \in InstancesOf(t) /\ at[t] # "idle" /\ ~(at[t] = "queue" /\ on[t] = i)
  /\ i \in pos[t] <=> at[t] = "run" /\ pc[Owner[t]] \in {"unlock", "wake"}

LEMMA HoldsMeans ==
  ASSUME NEW at \in [Task -> Places], NEW on \in [Task -> Int], Typed, Placed(at, on),
         NEW t \in Task, NEW i \in Instance
  PROVE  Holds(t, i) <=> Means(at, on, t, i)
<1>1. Idle(t) <=> at[t] = "idle"
  <2>1. DOMAIN idle[Owner[t]] = 1 .. Len(idle[Owner[t]])
    BY Constants, LenProperties DEF Typed
  <2>2. Idle(t) <=> Has(idle[Owner[t]], t)
    BY <2>1 DEF Idle, Has
  <2>3. QED
    BY <2>2, Constants DEF Placed, IdleAre
<1>2. Queued(t, i) <=> at[t] = "queue" /\ on[t] = i
  <2>1. lock[i].queue \in Seq(Requests(Task))
    BY DEF Typed, Locks
  <2>2. DOMAIN lock[i].queue = 1 .. Len(lock[i].queue)
    BY <2>1, LenProperties
  <2>3. Queued(t, i) <=> Waits(lock[i].queue, t)
    BY <2>2 DEF Queued, Waits
  <2>4. QED
    BY <2>3 DEF Placed, QueuedAre
<1>3. OnCpu(t, {"unlock", "wake"}) <=> at[t] = "run" /\ pc[Owner[t]] \in {"unlock", "wake"}
  BY Constants DEF OnCpu, Placed, RunAt
<1>4. QED
  BY <1>1, <1>2, <1>3 DEF Holds, Means, InstancesOf

LEMMA HoldsMeansNext ==
  ASSUME NEW at \in [Task -> Places], NEW on \in [Task -> Int], Typed', Placed(at, on)',
         NEW t \in Task, NEW i \in Instance
  PROVE  Holds(t, i)' <=> Means(at, on, t, i)'
<1>1. Idle(t)' <=> at[t] = "idle"
  <2>1. DOMAIN idle'[Owner[t]] = 1 .. Len(idle'[Owner[t]])
    BY Constants, LenProperties DEF Typed
  <2>2. Idle(t)' <=> Has(idle'[Owner[t]], t)
    BY <2>1 DEF Idle, Has
  <2>3. QED
    BY <2>2, Constants DEF Placed, IdleAre
<1>2. Queued(t, i)' <=> at[t] = "queue" /\ on[t] = i
  <2>1. lock'[i].queue \in Seq(Requests(Task))
    BY DEF Typed, Locks
  <2>2. DOMAIN lock'[i].queue = 1 .. Len(lock'[i].queue)
    BY <2>1, LenProperties
  <2>3. Queued(t, i)' <=> Waits(lock'[i].queue, t)
    BY <2>2 DEF Queued, Waits
  <2>4. QED
    BY <2>3 DEF Placed, QueuedAre
<1>3. OnCpu(t, {"unlock", "wake"})' <=> at[t] = "run" /\ pc'[Owner[t]] \in {"unlock", "wake"}
  BY Constants DEF OnCpu, Placed, RunAt
<1>4. QED
  BY <1>1, <1>2, <1>3 DEF Holds, Means, InstancesOf

(* A step after which everybody has the locks he had keeps the accounts.   *)
LEMMA SteadyAccounts ==
  ASSUME NEW at \in [Task -> Places], NEW on \in [Task -> Int], Inv(at, on),
         NEW at2 \in [Task -> Places], NEW on2 \in [Task -> Int], Typed', Placed(at2, on2)',
         lock' = lock,
         \A t \in Task, i \in Instance : Means(at2, on2, t, i)' <=> Means(at, on, t, i)
  PROVE  Inv(at2, on2)'
<1>1. ASSUME NEW i \in Instance PROVE Holders(i)' = Holders(i)
  <2>1. ASSUME NEW t \in Task PROVE Holds(t, i)' <=> Holds(t, i)
    <3>1. Holds(t, i) <=> Means(at, on, t, i)
      BY HoldsMeans DEF Inv
    <3>2. Holds(t, i)' <=> Means(at2, on2, t, i)'
      BY HoldsMeansNext
    <3>3. QED
      BY <3>1, <3>2
  <2>2. QED
    BY <2>1 DEF Holders
<1>2. Accounts'
  BY <1>1 DEF Inv, Accounts, Writing
<1>3. QED
  BY <1>2 DEF Inv

(* Nobody enters or leaves a queue. *)
LEMMA QueuedStill ==
  ASSUME NEW at, NEW on, NEW at2, NEW on2, QueuedAre(at, on), lock' = lock,
         \A t \in Task : /\ at2[t] = "queue" <=> at[t] = "queue"
                         /\ at[t] = "queue" => on2[t] = on[t]
  PROVE  QueuedAre(at2, on2)'
<1>1. \A i : Writing(i)' = Writing(i)
  BY DEF Writing
<1>2. QED
  BY <1>1 DEF QueuedAre

-----------------------------------------------------------------------------
(* In the beginning all tasks are idle and nobody has a lock.              *)
LEMMA InitIInv == Init => IInv
<1> SUFFICES ASSUME Init PROVE IInv
  OBVIOUS
<1> DEFINE at == [t \in Task |-> "idle"]
           on == [t \in Task |-> 0]
<1>1. at \in [Task -> Places] /\ on \in [Task -> Int]
  BY DEF Places
<1>2. ASSUME NEW e \in Executor
      PROVE  /\ idle[e] \in Seq(Task) /\ Once(idle[e])
             /\ \A t \in Task : Has(idle[e], t) <=> Owner[t] = e
  <2>1. PICK n \in 0 .. TaskCount : idle[e] \in [1 .. n -> Task]
    <3>1. idle[e] \in InOrder
      BY DEF Init
    <3>2. idle[e] \in UNION {[1 .. n -> Task] : n \in 0 .. TaskCount}
      BY <3>1 DEF InOrder
    <3>3. QED
      BY <3>2
  <2>2. n \in Nat
    BY <2>1, ConstantsAssumption
  <2>3. idle[e] \in Seq(Task) /\ Len(idle[e]) = n
    BY <2>1, <2>2, IsASeq
  <2>4. DOMAIN idle[e] = 1 .. Len(idle[e])
    BY <2>1, <2>3
  <2>5. \A j, k \in DOMAIN idle[e] : j < k => idle[e][j] < idle[e][k]
    BY DEF Init, InOrder
  <2>6. \A k \in 1 .. Len(idle[e]) : idle[e][k] \in Int
    BY <2>1, <2>3 DEF Task
  <2>7. Once(idle[e])
    <3>1. ASSUME NEW j \in 1 .. Len(idle[e]), NEW k \in 1 .. Len(idle[e]), idle[e][j] = idle[e][k]
          PROVE  j = k
      <4>1. idle[e][j] \in Int /\ idle[e][k] \in Int /\ ~(idle[e][j] < idle[e][k])
        BY <2>6, <3>1
      <4>2. j \in DOMAIN idle[e] /\ k \in DOMAIN idle[e]
        BY <2>4
      <4>3. ~(j < k)
        BY <4>1, <4>2, <2>5
      <4>4. ~(k < j)
        BY <4>1, <4>2, <2>5, <3>1
      <4>5. QED
        BY <4>3, <4>4
    <3>2. QED
      BY <3>1 DEF Once
  <2>8. {idle[e][k] : k \in DOMAIN idle[e]} = Mine(e)
    BY DEF Init
  <2>9. \A t \in Task : Has(idle[e], t) <=> Owner[t] = e
    BY <2>4, <2>8 DEF Has, Mine
  <2>10. QED
    BY <2>3, <2>7, <2>9
<1>3. Typed
  <2>1. \A e \in Executor : ready[e] \in Seq(Task) /\ handoff[e] \in Seq(Task)
    BY EmptySeq DEF Init
  <2>2. \A i \in Instance : lock[i] \in Locks(Task)
    BY EmptySeq DEF Init, FreeLock, Locks
  <2>3. pos \in [Task -> SUBSET Instance] /\ \A t \in Task : pos[t] \subseteq InstancesOf(t)
    BY Constants DEF Init
  <2>4. pc \in [Executor -> Pc] /\ task \in [Executor -> Task \cup {NoTask}]
    BY DEF Init, Pc
  <2>5. idle \in [Executor -> Seq(Task)]
    BY <1>2 DEF Init
  <2>6. QED
    BY <2>1, <2>2, <2>3, <2>4, <2>5 DEF Init, Typed
<1>4. Placed(at, on)
  <2>1. IdleAre(at)
    BY <1>2 DEF IdleAre
  <2>2. ReadyAre(at) /\ WokenAre(at, on)
    BY HasEmpty DEF Init, ReadyAre, WokenAre
  <2>3. QueuedAre(at, on)
    <3>1. ASSUME NEW i \in Instance
          PROVE  Queue(lock[i].queue, Writing(i)) /\ \A t : ~Waits(lock[i].queue, t)
      <4>1. Len(lock[i].queue) = 0
        BY EmptySeq DEF Init, FreeLock
      <4>2. QED
        BY <4>1 DEF Queue, Waits
    <3>2. QED
      BY <3>1 DEF QueuedAre
  <2>4. Waiting(at, on)
    BY DEF Waiting
  <2>5. ASSUME NEW e \in Executor PROVE RunAt(at, e)
    BY Constants DEF Init, RunAt, Working
  <2>6. QED
    BY <2>1, <2>2, <2>3, <2>4, <2>5 DEF Placed
<1>5. Accounts
  <2>1. ASSUME NEW i \in Instance PROVE Holders(i) = {}
    <3>1. \A t \in Task : ~Means(at, on, t, i)
      BY DEF Means
    <3>2. QED
      BY <1>1, <1>3, <1>4, <3>1, HoldsMeans DEF Holders
  <2>2. QED
    BY <2>1, FS_EmptySet DEF Init, FreeLock, Accounts, Account
<1>6. QED
  BY <1>1, <1>3, <1>4, <1>5 DEF IInv, Inv

-----------------------------------------------------------------------------
(* Steps that move no task and touch no lock.                              *)
Idles(p) == p \notin Working \cup {"aborted"}

LEMMA QuietStep ==
  ASSUME NEW at \in [Task -> Places], NEW on \in [Task -> Int], Inv(at, on),
         UNCHANGED <<lock, pos, idle, ready, task, handoff>>,
         pc' \in [Executor -> Pc],
         \A f \in Executor : pc'[f] = pc[f] \/ (Idles(pc[f]) /\ pc'[f] \notin Working)
  PROVE  Inv(at, on)'
<1>1. Typed'
  BY DEF Inv, Typed
<1>2. ASSUME NEW f \in Executor PROVE RunAt(at, f)'
  <2>1. RunAt(at, f)
    BY DEF Inv, Placed
  <2>2. QED
    BY <2>1 DEF RunAt, Idles, Working
<1>3. Placed(at, on)'
  <2>1. IdleAre(at)' /\ ReadyAre(at)' /\ WokenAre(at, on)'
    BY DEF Inv, Placed, IdleAre, ReadyAre, WokenAre
  <2>2. QueuedAre(at, on)' /\ Waiting(at, on)'
    BY DEF Inv, Placed, QueuedAre, Waiting, Writing
  <2>3. QED
    BY <1>2, <2>1, <2>2 DEF Placed
<1>4. ASSUME NEW t \in Task, NEW i \in Instance
      PROVE  Means(at, on, t, i)' <=> Means(at, on, t, i)
  BY Constants DEF Means, Idles, Working
<1>5. QED
  BY <1>1, <1>3, <1>4, SteadyAccounts

(* A message, or a task that is put on a ready list, may end a wait.       *)
LEMMA SignalShape ==
  ASSUME NEW n, NEW b, NEW e \in Executor, NEW p \in Pc, pc \in [Executor -> Pc],
         pc' = [Signal(n, b) EXCEPT ![e] = p]
  PROVE  /\ pc' \in [Executor -> Pc] /\ pc'[e] = p
         /\ \A f \in Executor \ {e} :
              pc'[f] = pc[f] \/ (pc[f] = "asleep" /\ pc'[f] = "fetch")
BY DEF Signal, Pc

LEMMA QuietAt ==
  ASSUME NEW at \in [Task -> Places], NEW on \in [Task -> Int], Inv(at, on),
         UNCHANGED <<lock, pos, idle, ready, task, handoff>>,
         NEW e \in Executor, NEW p \in Pc \ Working, Idles(pc[e]),
         Goto(e, p) \/ pc' = SentTo(e, p)
  PROVE  Inv(at, on)'
<1>1. pc \in [Executor -> Pc]
  BY DEF Inv, Typed
<1>2. /\ pc' \in [Executor -> Pc] /\ pc'[e] = p
      /\ \A f \in Executor \ {e} :
           pc'[f] = pc[f] \/ (pc[f] = "asleep" /\ pc'[f] = "fetch")
  <2>1. CASE Goto(e, p)
    BY <1>1, <2>1 DEF Goto
  <2>2. CASE pc' = SentTo(e, p)
    BY <1>1, <2>2, SignalShape DEF SentTo
  <2>3. QED
    BY <2>1, <2>2
<1>3. \A f \in Executor : pc'[f] = pc[f] \/ (Idles(pc[f]) /\ pc'[f] \notin Working)
  BY <1>2 DEF Idles, Working
<1>4. QED
  BY <1>2, <1>3, QuietStep

LEMMA AfterTaskPc == \A e : AfterTask(e) \in {"fetch", "message"}
BY DEF AfterTask

LEMMA BreakOffInv ==
  ASSUME NEW at \in [Task -> Places], NEW on \in [Task -> Int], Inv(at, on),
         NEW e \in Executor, BreakOff(e)
  PROVE  Inv(at, on)'
<1>1. Idles(pc[e]) /\ AfterTask(e) \in Pc \ Working
  BY AfterTaskPc DEF BreakOff, Idles, Working, Pc
<1>2. QED
  BY <1>1, QuietAt DEF BreakOff, localVars

LEMMA HandleMessageInv ==
  ASSUME NEW at \in [Task -> Places], NEW on \in [Task -> Int], Inv(at, on),
         NEW e \in Executor, HandleMessage(e)
  PROVE  Inv(at, on)'
<1> DEFINE m == message[e]
<1>1. Idles(pc[e]) /\ {"fetch", "returned", "aborted"} \subseteq Pc \ Working
  BY DEF HandleMessage, Idles, Working, Pc
<1>2. UNCHANGED <<lock, pos, idle, ready, task, handoff>>
  BY DEF HandleMessage
<1>3. \E p \in {"fetch", "returned", "aborted"} : Goto(e, p) \/ pc' = SentTo(e, p)
  <2>1. CASE OnStartShootDown(e, m)
    BY <2>1 DEF OnStartShootDown, Pass
  <2>2. CASE OnStartWaiting1(e, m)
    BY <2>2 DEF OnStartWaiting1, Pass
  <2>3. CASE OnStartDoubleCheck(e, m)
    BY <2>3 DEF OnStartDoubleCheck, Pass
  <2>4. CASE OnStartWaiting2(e, m)
    BY <2>4 DEF OnStartWaiting2, Pass
  <2>5. CASE OnTerminate(e, m)
    BY <2>5 DEF OnTerminate
  <2>6. CASE OnReset(e, m)
    BY <2>6 DEF OnReset, Pass
  <2>7. CASE Dropped(e, m)
    BY <2>7 DEF Dropped
  <2>8. QED
    BY <2>1, <2>2, <2>3, <2>4, <2>5, <2>6, <2>7 DEF HandleMessage
<1>4. QED
  BY <1>1, <1>2, <1>3, QuietAt

LEMMA DecideInv ==
  ASSUME NEW at \in [Task -> Places], NEW on \in [Task -> Int], Inv(at, on),
         NEW e \in Executor, Decide(e)
  PROVE  Inv(at, on)'
<1>1. Idles(pc[e]) /\ {"fetch", "asleep", "poll"} \subseteq Pc \ Working
  BY DEF Decide, Idles, Working, Pc
<1>2. UNCHANGED <<lock, pos, idle, ready, task, handoff>>
  BY DEF Decide, localVars
<1>3. \E p \in {"fetch", "asleep", "poll"} : Goto(e, p) \/ pc' = SentTo(e, p)
  <2>1. CASE DecideShootDown(e)
    BY <2>1 DEF DecideShootDown
  <2>2. ASSUME NEW from, NEW to, NEW k, DecideWait(e, from, to, k)
        PROVE  \E p \in {"fetch", "asleep", "poll"} : Goto(e, p) \/ pc' = SentTo(e, p)
    BY <2>2 DEF DecideWait
  <2>3. CASE DecidePoll(e)
    BY <2>3 DEF DecidePoll
  <2>4. CASE DecideBlock(e)
    BY <2>4 DEF DecideBlock, SleepIn
  <2>5. QED
    BY <2>1, <2>2, <2>3, <2>4 DEF Decide
<1>4. QED
  BY <1>1, <1>2, <1>3, QuietAt

LEMMA PollInv ==
  ASSUME NEW at \in [Task -> Places], NEW on \in [Task -> Int], Inv(at, on),
         NEW e \in Executor, Poll(e)
  PROVE  Inv(at, on)'
<1>1. Idles(pc[e]) /\ {"fetch", "polled"} \subseteq Pc \ Working
  BY DEF Poll, Idles, Working, Pc
<1>2. UNCHANGED <<lock, pos, idle, ready, task, handoff>>
  BY DEF Poll, taskVars, localVars
<1>3. \E p \in {"fetch", "polled"} : Goto(e, p)
  BY DEF Poll
<1>4. QED
  BY <1>1, <1>2, <1>3, QuietAt

-----------------------------------------------------------------------------
(* The first idle task is taken: it has no lock before and none after.     *)
LEMMA StartIdleInv ==
  ASSUME NEW at \in [Task -> Places], NEW on \in [Task -> Int], Inv(at, on),
         NEW e \in Executor, StartIdle(e)
  PROVE  \E at2 \in [Task -> Places] : Inv(at2, on)'
<1>1. CASE idle[e] = <<>>
  <2>1. Idles(pc[e]) /\ {"fetch", "asleep"} \subseteq Pc \ Working
    BY DEF StartIdle, Idles, Working, Pc
  <2>2. UNCHANGED <<lock, pos, idle, ready, task, handoff>>
    BY <1>1 DEF StartIdle
  <2>3. \E p \in {"fetch", "asleep"} : Goto(e, p)
    BY <1>1 DEF StartIdle, SleepIn
  <2>4. QED
    BY <2>1, <2>2, <2>3, QuietAt
<1>2. CASE idle[e] # <<>>
  <2> PICK h : h = Head(idle[e])
    OBVIOUS
  <2>1. /\ Typed /\ IdleAre(at) /\ ReadyAre(at) /\ WokenAre(at, on) /\ QueuedAre(at, on)
        /\ Waiting(at, on) /\ \A f \in Executor : RunAt(at, f)
    BY DEF Inv, Placed
  <2>2. idle[e] \in Seq(Task) /\ Once(idle[e])
    BY <2>1 DEF Typed, IdleAre
  <2>3. /\ h \in Task /\ Has(idle[e], h) /\ Tail(idle[e]) \in Seq(Task) /\ Once(Tail(idle[e]))
        /\ \A t : Has(Tail(idle[e]), t) <=> Has(idle[e], t) /\ t # h
    BY <1>2, <2>2, TailList
  <2>4. at[h] = "idle" /\ Owner[h] = e
    BY <2>1, <2>3 DEF IdleAre
  <2>5. /\ pc[e] = "decide"
        /\ idle' = [idle EXCEPT ![e] = Tail(@)]
        /\ task' = [task EXCEPT ![e] = h]
        /\ pos' = [pos EXCEPT ![h] = InstancesOf(h)]
        /\ pc' = [pc EXCEPT ![e] = pc'[e]] /\ pc'[e] \in {"lock", "aborted"}
        /\ UNCHANGED <<lock, ready, handoff>>
    BY <1>2, <2>1 DEF StartIdle, Goto, Typed
  <2>6. task[e] = NoTask
    BY <2>1, <2>5 DEF RunAt, Working
  <2>7. PICK at2 \in [Task -> Places] :
          at2[h] = "run" /\ \A t \in Task \ {h} : at2[t] = at[t]
    <3>1. [at EXCEPT ![h] = "run"] \in [Task -> Places]
      BY <2>3 DEF Places
    <3>2. QED
      BY <2>3, <3>1
  <2>8. Typed'
    BY <2>1, <2>3, <2>5, Constants DEF Typed, Pc
  <2>9. IdleAre(at2)'
    BY <2>1, <2>3, <2>4, <2>5, <2>7, Constants DEF IdleAre, Typed
  <2>10. ReadyAre(at2)' /\ WokenAre(at2, on)' /\ QueuedAre(at2, on)'
    <3>1. ReadyAre(at2)'
      BY <2>1, <2>3, <2>4, <2>5, <2>7 DEF ReadyAre
    <3>2. WokenAre(at2, on)'
      BY <2>1, <2>3, <2>4, <2>5, <2>7 DEF WokenAre
    <3>3. QueuedAre(at2, on)'
      <4>1. \A t \in Task : at2[t] = "queue" <=> at[t] = "queue"
        BY <2>4, <2>7
      <4>2. QED
        BY <2>1, <2>5, <4>1, QueuedStill
    <3>4. QED
      BY <3>1, <3>2, <3>3
  <2>11. Waiting(at2, on)'
    BY <2>1, <2>3, <2>5, <2>7 DEF Waiting, Typed
  <2>12. ASSUME NEW f \in Executor PROVE RunAt(at2, f)'
    <3>1. CASE f = e
      BY <2>1, <2>3, <2>4, <2>5, <2>6, <2>7, <3>1, Constants DEF RunAt, Working, Typed
    <3>2. CASE f # e
      <4>1. RunAt(at, f) /\ task \in [Executor -> Task \cup {NoTask}] /\ pc \in [Executor -> Pc]
        BY <2>1 DEF Typed
      <4>2. task'[f] = task[f] /\ pc'[f] = pc[f] /\ handoff'[f] = handoff[f]
        BY <2>5, <3>2, <4>1
      <4>3. \A t \in Task : task[f] = t <=> at2[t] = "run" /\ Owner[t] = f
        <5>1. \A t \in Task : task[f] = t <=> at[t] = "run" /\ Owner[t] = f
          BY <4>1 DEF RunAt
        <5>2. task[f] # h /\ Owner[h] # f /\ h \in Task
          BY <2>3, <2>4, <3>2, <5>1
        <5>3. QED
          BY <2>7, <5>1, <5>2
      <4>4. pc[f] \in {"lock", "unlock"} => task[f] # NoTask /\ task[f] \in Task /\ task[f] # h
        <5>1. pc[f] \in {"lock", "unlock"} => pc[f] \in Working
          BY DEF Working
        <5>2. task[f] # h
          BY <2>3, <2>4, <3>2, <4>1 DEF RunAt
        <5>3. QED
          BY <4>1, <5>1, <5>2 DEF RunAt
      <4>5. pc[f] = "run" => task[f] # NoTask /\ task[f] \in Task /\ task[f] # h
        <5>1. pc[f] = "run" => pc[f] \in Working
          BY DEF Working
        <5>2. task[f] # h
          BY <2>3, <2>4, <3>2, <4>1 DEF RunAt
        <5>3. QED
          BY <4>1, <5>1, <5>2 DEF RunAt
      <4>6. \A t \in Task : t # h => pos'[t] = pos[t]
        BY <2>1, <2>3, <2>5 DEF Typed
      <4>7. QED
        BY <4>1, <4>2, <4>3, <4>4, <4>5, <4>6 DEF RunAt
    <3>3. QED
      BY <3>1, <3>2
  <2>13. Placed(at2, on)'
    BY <2>9, <2>10, <2>11, <2>12 DEF Placed
  <2>14. ASSUME NEW t \in Task, NEW i \in Instance
         PROVE  Means(at2, on, t, i)' <=> Means(at, on, t, i)
    <3>1. CASE t = h
      <4>1. ~Means(at, on, t, i)
        BY <2>4, <3>1 DEF Means
      <4>2. pos'[t] = InstancesOf(t) /\ pc'[Owner[t]] \notin {"unlock", "wake"}
        BY <2>1, <2>3, <2>4, <2>5, <3>1 DEF Typed
      <4>3. ~Means(at2, on, t, i)'
        BY <4>2 DEF Means
      <4>4. QED
        BY <4>1, <4>3
    <3>2. CASE t # h
      <4>1. at[t] = "run" => Owner[t] # e
        BY <2>1, <2>6, Constants DEF RunAt
      <4>2. at2[t] = at[t] /\ pos'[t] = pos[t]
        BY <2>1, <2>3, <2>5, <2>7, <3>2 DEF Typed
      <4>3. Owner[t] # e => pc'[Owner[t]] = pc[Owner[t]]
        BY <2>1, <2>5, Constants DEF Typed
      <4>4. QED
        BY <4>1, <4>2, <4>3 DEF Means
    <3>3. QED
      BY <3>1, <3>2
  <2>15. QED
    BY <2>5, <2>7, <2>8, <2>13, <2>14, SteadyAccounts
<1>3. QED
  BY <1>1, <1>2

(* A ready task is taken: it keeps the locks it has.                       *)
LEMMA FetchInv ==
  ASSUME NEW at \in [Task -> Places], NEW on \in [Task -> Int], Inv(at, on),
         NEW e \in Executor, Fetch(e)
  PROVE  \E at2 \in [Task -> Places] : Inv(at2, on)'
<1>1. CASE ready[e] = <<>>
  <2>1. Idles(pc[e]) /\ {"decide", "message"} \subseteq Pc \ Working
    BY DEF Fetch, Idles, Working, Pc
  <2>2. task[e] = NoTask
    BY DEF Fetch, Inv, Placed, RunAt, Working
  <2>3. UNCHANGED <<lock, pos, idle, ready, task, handoff>>
    BY <1>1, <2>2 DEF Fetch, Inv, Typed, taskVars
  <2>4. \E p \in {"decide", "message"} : Goto(e, p)
    BY <1>1 DEF Fetch, Fetched
  <2>5. QED
    BY <2>1, <2>3, <2>4, QuietAt
<1>2. CASE ready[e] # <<>>
  <2> PICK h : h = Head(ready[e])
    OBVIOUS
  <2>1. /\ Typed /\ IdleAre(at) /\ ReadyAre(at) /\ WokenAre(at, on) /\ QueuedAre(at, on)
        /\ Waiting(at, on) /\ \A f \in Executor : RunAt(at, f)
    BY DEF Inv, Placed
  <2>2. ready[e] \in Seq(Task) /\ Once(ready[e])
    BY <2>1 DEF Typed, ReadyAre
  <2>3. /\ h \in Task /\ Has(ready[e], h) /\ Tail(ready[e]) \in Seq(Task) /\ Once(Tail(ready[e]))
        /\ \A t : Has(Tail(ready[e]), t) <=> Has(ready[e], t) /\ t # h
    BY <1>2, <2>2, TailList
  <2>4. at[h] = "ready" /\ Owner[h] = e /\ h # NoTask
    BY <2>1, <2>3, Constants DEF ReadyAre
  <2>5. /\ pc[e] = "fetch"
        /\ ready' = [ready EXCEPT ![e] = Tail(@)]
        /\ task' = [task EXCEPT ![e] = h]
        /\ pc' = [pc EXCEPT ![e] = pc'[e]] /\ pc'[e] \in {"lock", "run", "aborted"}
        /\ pc'[e] = "lock" => pos[h] # {}
        /\ pc'[e] = "run" => pos[h] = {}
        /\ UNCHANGED <<lock, pos, idle, handoff>>
    BY <1>2, <2>1, <2>4 DEF Fetch, Fetched, Goto, Typed, taskVars
  <2>6. task[e] = NoTask
    BY <2>1, <2>5 DEF RunAt, Working
  <2>7. PICK at2 \in [Task -> Places] :
          at2[h] = "run" /\ \A t \in Task \ {h} : at2[t] = at[t]
    <3>1. [at EXCEPT ![h] = "run"] \in [Task -> Places]
      BY <2>3 DEF Places
    <3>2. QED
      BY <2>3, <3>1
  <2>8. Typed'
    BY <2>1, <2>3, <2>5, Constants DEF Typed, Pc
  <2>9. ReadyAre(at2)'
    BY <2>1, <2>3, <2>4, <2>5, <2>7, Constants DEF ReadyAre, Typed
  <2>10. IdleAre(at2)' /\ WokenAre(at2, on)' /\ QueuedAre(at2, on)'
    <3>1. IdleAre(at2)'
      BY <2>1, <2>3, <2>4, <2>5, <2>7 DEF IdleAre
    <3>2. WokenAre(at2, on)'
      BY <2>1, <2>3, <2>4, <2>5, <2>7 DEF WokenAre
    <3>3. QueuedAre(at2, on)'
      <4>1. \A t \in Task : at2[t] = "queue" <=> at[t] = "queue"
        BY <2>4, <2>7
      <4>2. QED
        BY <2>1, <2>5, <4>1, QueuedStill
    <3>4. QED
      BY <3>1, <3>2, <3>3
  <2>11. Waiting(at2, on)'
    BY <2>1, <2>3, <2>5, <2>7 DEF Waiting, Typed
  <2>12. ASSUME NEW f \in Executor PROVE RunAt(at2, f)'
    <3>1. CASE f = e
      BY <2>1, <2>3, <2>4, <2>5, <2>6, <2>7, <3>1, Constants DEF RunAt, Working, Typed
    <3>2. CASE f # e
      <4>1. RunAt(at, f) /\ task \in [Executor -> Task \cup {NoTask}] /\ pc \in [Executor -> Pc]
        BY <2>1 DEF Typed
      <4>2. task'[f] = task[f] /\ pc'[f] = pc[f] /\ handoff'[f] = handoff[f]
        BY <2>5, <3>2, <4>1
      <4>3. \A t \in Task : task[f] = t <=> at2[t] = "run" /\ Owner[t] = f
        <5>1. \A t \in Task : task[f] = t <=> at[t] = "run" /\ Owner[t] = f
          BY <4>1 DEF RunAt
        <5>2. task[f] # h /\ Owner[h] # f /\ h \in Task
          BY <2>3, <2>4, <3>2, <5>1
        <5>3. QED
          BY <2>7, <5>1, <5>2
      <4>4. pc[f] \in {"lock", "unlock"} => task[f] # NoTask /\ task[f] \in Task /\ task[f] # h
        <5>1. pc[f] \in {"lock", "unlock"} => pc[f] \in Working
          BY DEF Working
        <5>2. task[f] # h
          BY <2>3, <2>4, <3>2, <4>1 DEF RunAt
        <5>3. QED
          BY <4>1, <5>1, <5>2 DEF RunAt
      <4>5. pc[f] = "run" => task[f] # NoTask /\ task[f] \in Task /\ task[f] # h
        <5>1. pc[f] = "run" => pc[f] \in Working
          BY DEF Working
        <5>2. task[f] # h
          BY <2>3, <2>4, <3>2, <4>1 DEF RunAt
        <5>3. QED
          BY <4>1, <5>1, <5>2 DEF RunAt
      <4>6. \A t \in Task : t # h => pos'[t] = pos[t]
        BY <2>1, <2>3, <2>5 DEF Typed
      <4>7. QED
        BY <4>1, <4>2, <4>3, <4>4, <4>5, <4>6 DEF RunAt
    <3>3. QED
      BY <3>1, <3>2
  <2>13. Placed(at2, on)'
    BY <2>9, <2>10, <2>11, <2>12 DEF Placed
  <2>14. ASSUME NEW t \in Task, NEW i \in Instance
         PROVE  Means(at2, on, t, i)' <=> Means(at, on, t, i)
    <3>1. CASE t = h
      BY <2>1, <2>3, <2>4, <2>5, <2>7, <3>1 DEF Means, Typed
    <3>2. CASE t # h
      <4>1. at[t] = "run" => Owner[t] # e
        BY <2>1, <2>6, Constants DEF RunAt
      <4>2. at2[t] = at[t] /\ pos'[t] = pos[t]
        BY <2>1, <2>3, <2>5, <2>7, <3>2 DEF Typed
      <4>3. Owner[t] # e => pc'[Owner[t]] = pc[Owner[t]]
        BY <2>1, <2>5, Constants DEF Typed
      <4>4. QED
        BY <4>1, <4>2, <4>3 DEF Means
    <3>3. QED
      BY <3>1, <3>2
  <2>15. QED
    BY <2>5, <2>7, <2>8, <2>13, <2>14, SteadyAccounts
<1>3. QED
  BY <1>1, <1>2

(* The task that runs an executor, where it works on it. *)
LEMMA AtWork ==
  ASSUME NEW at \in [Task -> Places], NEW on \in [Task -> Int], Inv(at, on),
         NEW e \in Executor, pc[e] \in Working
  PROVE  task[e] \in Task /\ at[task[e]] = "run" /\ Owner[task[e]] = e
BY Constants DEF Inv, Placed, RunAt, Typed

(* All locks have been taken; they are given back from the first on.       *)
LEMMA RunInv ==
  ASSUME NEW at \in [Task -> Places], NEW on \in [Task -> Int], Inv(at, on),
         NEW e \in Executor, Run(e)
  PROVE  Inv(at, on)'
<1> DEFINE t == task[e]
<1>1. /\ Typed /\ IdleAre(at) /\ ReadyAre(at) /\ WokenAre(at, on) /\ QueuedAre(at, on)
      /\ Waiting(at, on) /\ \A f \in Executor : RunAt(at, f)
  BY DEF Inv, Placed
<1>2. /\ pc[e] = "run"
      /\ pos' = [pos EXCEPT ![t] = InstancesOf(t)]
      /\ pc' = [pc EXCEPT ![e] = "unlock"]
      /\ UNCHANGED <<lock, idle, ready, task, handoff>>
  BY DEF Run, Goto
<1>3. t \in Task /\ at[t] = "run" /\ Owner[t] = e
  BY <1>2, AtWork DEF Working
<1>4. pos[t] = {}
  BY <1>1, <1>2 DEF RunAt
<1> HIDE DEF t
<1>5. Typed'
  BY <1>1, <1>2, <1>3, Constants DEF Typed, Pc
<1>6. IdleAre(at)' /\ ReadyAre(at)' /\ WokenAre(at, on)' /\ QueuedAre(at, on)'
  BY <1>1, <1>2, ZenonT(40) DEF IdleAre, ReadyAre, WokenAre, QueuedAre, Writing
<1>7. Waiting(at, on)'
  BY <1>1, <1>2, <1>3 DEF Waiting, Typed
<1>8. ASSUME NEW f \in Executor PROVE RunAt(at, f)'
  <2>1. CASE f = e
    BY <1>1, <1>2, <1>3, <2>1, Constants DEF RunAt, Working, Typed, t
  <2>2. CASE f # e
    <3>1. task[f] # t
      BY <1>1, <1>3, <2>2 DEF RunAt
    <3>2. QED
      BY <1>1, <1>2, <1>3, <2>2, <3>1 DEF RunAt, Typed
  <2>3. QED
    BY <2>1, <2>2
<1>9. Placed(at, on)'
  BY <1>6, <1>7, <1>8 DEF Placed
<1>10. ASSUME NEW u \in Task, NEW i \in Instance
       PROVE  Means(at, on, u, i)' <=> Means(at, on, u, i)
  <2>1. CASE u = t
    BY <1>1, <1>2, <1>3, <1>4, <2>1 DEF Means, Typed
  <2>2. CASE u # t
    <3>1. at[u] = "run" => Owner[u] # e
      BY <1>1, <2>2 DEF RunAt, t
    <3>2. QED
      BY <1>1, <1>2, <1>3, <2>2, <3>1, Constants DEF Means, Typed
  <2>3. QED
    BY <2>1, <2>2
<1>11. QED
  BY <1>2, <1>5, <1>9, <1>10, SteadyAccounts

-----------------------------------------------------------------------------
(* A step that changes one lock, and the set of those who have it to D.    *)
LEMMA NewAccounts ==
  ASSUME NEW at \in [Task -> Places], NEW on \in [Task -> Int], Inv(at, on),
         NEW at2 \in [Task -> Places], NEW on2 \in [Task -> Int], Typed', Placed(at2, on2)',
         NEW i0 \in Instance, NEW D \in SUBSET Task,
         \A i \in Instance \ {i0} : lock'[i] = lock[i],
         \A t \in Task, i \in Instance \ {i0} :
           Means(at2, on2, t, i)' <=> Means(at, on, t, i),
         \A t \in Task : Means(at2, on2, t, i0)' <=> t \in D,
         Account(lock'[i0], D, Writing(i0))
  PROVE  Inv(at2, on2)'
<1>1. ASSUME NEW i \in Instance \ {i0} PROVE Holders(i)' = Holders(i)
  <2>1. ASSUME NEW t \in Task PROVE Holds(t, i)' <=> Holds(t, i)
    <3>1. Holds(t, i) <=> Means(at, on, t, i)
      BY HoldsMeans DEF Inv
    <3>2. Holds(t, i)' <=> Means(at2, on2, t, i)'
      BY HoldsMeansNext
    <3>3. QED
      BY <3>1, <3>2
  <2>2. QED
    BY <2>1 DEF Holders
<1>2. Holders(i0)' = D
  <2>1. ASSUME NEW t \in Task PROVE Holds(t, i0)' <=> t \in D
    <3>1. Holds(t, i0)' <=> Means(at2, on2, t, i0)'
      BY HoldsMeansNext
    <3>2. QED
      BY <3>1
  <2>2. QED
    BY <2>1 DEF Holders
<1>3. \A i : Writing(i)' = Writing(i)
  BY DEF Writing
<1>4. Accounts'
  <2>1. ASSUME NEW i \in Instance PROVE Account(lock'[i], Holders(i)', Writing(i))
    <3>1. CASE i = i0
      BY <1>2, <3>1
    <3>2. CASE i # i0
      BY <1>1, <3>2 DEF Inv, Accounts
    <3>3. QED
      BY <3>1, <3>2
  <2>2. QED
    BY <1>3, <2>1 DEF Accounts
<1>5. QED
  BY <1>4 DEF Inv

(* The account before the step. *)
LEMMA OldAccount ==
  ASSUME NEW at \in [Task -> Places], NEW on \in [Task -> Int], Inv(at, on),
         NEW i \in Instance
  PROVE  /\ Holders(i) \in SUBSET Task /\ IsFiniteSet(Holders(i))
         /\ \A t \in Task : t \in Holders(i) <=> Means(at, on, t, i)
         /\ Account(lock[i], Holders(i), Writing(i))
<1>1. Holders(i) \in SUBSET Task
  BY DEF Holders
<1>2. IsFiniteSet(Holders(i))
  BY <1>1, Constants, FS_Subset
<1>3. \A t \in Task : t \in Holders(i) <=> Means(at, on, t, i)
  BY HoldsMeans DEF Holders, Inv
<1>4. QED
  BY <1>1, <1>2, <1>3 DEF Inv, Accounts

(* pos_ is at one of the instances that are left. *)
LEMMA LockAtPos ==
  ASSUME Typed, NEW t \in Task, pos[t] # {}
  PROVE  LockAt(t) \in pos[t] /\ LockAt(t) \in Instance /\ LockAt(t) \in InstancesOf(t)
<1>1. pos[t] \in SUBSET Nat
  BY ConstantsAssumption DEF Typed
<1>2. \E i \in pos[t] : \A j \in pos[t] : i <= j
  BY <1>1, LeastNat
<1>3. QED
  BY <1>2 DEF LockAt, Typed

(* read_lock or write_lock for t: what becomes of the queue.               *)
Locked(l, t, V) == IF t \in V THEN AfterWriteLock(l, t) ELSE AfterReadLock(l, t)
Blocks(l, t, V) == IF t \in V THEN WriteBlocks(l) ELSE ReadBlocks(l)

LEMMA LockedShape ==
  ASSUME NEW T, NEW l \in Locks(T), NEW t \in T, NEW V, NEW m, m = Locked(l, t, V),
         Queue(l.queue, V), ~Waits(l.queue, t)
  PROVE  /\ m \in Locks(T) /\ Queue(m.queue, V)
         /\ Blocks(l, t, V) => /\ m.count = l.count
                               /\ \A u : Waits(m.queue, u) <=> Waits(l.queue, u) \/ u = t
         /\ ~Blocks(l, t, V) => m.queue = l.queue
<1>1. l = [count |-> l.count, queue |-> l.queue] /\ l.count \in Int
      /\ l.queue \in Seq(Requests(T))
  BY DEF Locks
<1>2. CASE t \in V /\ WriteBlocks(l)
  <2>1. m = [l EXCEPT !.queue = Append(@, Request(t, FALSE))]
    BY <1>2 DEF Locked, AfterWriteLock
  <2>2. PICK q : /\ q \in Seq(Requests(T)) /\ Queue(q, V)
                 /\ \A u : Waits(q, u) <=> Waits(l.queue, u) \/ u = t
                 /\ m = [l EXCEPT !.queue = q]
    BY <1>1, <1>2, <2>1, EnqueueQueue
  <2>3. m = [count |-> l.count, queue |-> q]
    BY <1>1, <2>2
  <2>4. m.queue = q /\ m.count = l.count /\ m \in Locks(T)
    BY <1>1, <2>2, <2>3 DEF Locks
  <2>5. Blocks(l, t, V)
    BY <1>2 DEF Blocks
  <2>6. QED
    BY <2>2, <2>4, <2>5
<1>3. CASE t \notin V /\ ReadBlocks(l)
  <2>1. m = [l EXCEPT !.queue = Append(@, Request(t, TRUE))]
    BY <1>3 DEF Locked, AfterReadLock
  <2>2. PICK q : /\ q \in Seq(Requests(T)) /\ Queue(q, V)
                 /\ \A u : Waits(q, u) <=> Waits(l.queue, u) \/ u = t
                 /\ m = [l EXCEPT !.queue = q]
    <3>1. /\ Append(l.queue, Request(t, TRUE)) \in Seq(Requests(T))
          /\ Queue(Append(l.queue, Request(t, TRUE)), V)
          /\ \A u : Waits(Append(l.queue, Request(t, TRUE)), u) <=> Waits(l.queue, u) \/ u = t
      <4>1. PICK r, k : r = TRUE /\ k = l.queue
        OBVIOUS
      <4>2. r \in BOOLEAN /\ (r <=> t \notin V)
        <5>1. t \notin V
          BY <1>3
        <5>2. QED
          BY <4>1, <5>1, Zenon
      <4>3. k \in Seq(Requests(T)) /\ Queue(k, V) /\ ~Waits(k, t)
        BY <1>1, <4>1
      <4>4. /\ Append(k, Request(t, r)) \in Seq(Requests(T))
            /\ Queue(Append(k, Request(t, r)), V)
            /\ \A u : Waits(Append(k, Request(t, r)), u) <=> Waits(k, u) \/ u = t
        BY <4>2, <4>3, EnqueueQueue
      <4>5. QED
        BY <4>1, <4>4, Zenon
    <3>2. QED
      BY <2>1, <3>1
  <2>3. m = [count |-> l.count, queue |-> q]
    BY <1>1, <2>2
  <2>4. m.queue = q /\ m.count = l.count /\ m \in Locks(T)
    BY <1>1, <2>2, <2>3 DEF Locks
  <2>5. Blocks(l, t, V)
    BY <1>3 DEF Blocks
  <2>6. QED
    BY <2>2, <2>4, <2>5
<1>4. CASE ~Blocks(l, t, V)
  <2>1. m = [count |-> IF t \in V THEN l.count - 1 ELSE l.count + 1, queue |-> l.queue]
    BY <1>1, <1>4 DEF Blocks, Locked, AfterReadLock, AfterWriteLock
  <2>2. QED
    BY <1>1, <1>4, <2>1 DEF Locks
<1>5. QED
  BY <1>2, <1>3, <1>4 DEF Blocks

(* The next lock is taken.                                                 *)
LEMMA LockNextInv ==
  ASSUME NEW at \in [Task -> Places], NEW on \in [Task -> Int], Inv(at, on),
         NEW e \in Executor, LockNext(e)
  PROVE  \E at2 \in [Task -> Places], on2 \in [Task -> Int] : Inv(at2, on2)'
<1>1. /\ Typed /\ IdleAre(at) /\ ReadyAre(at) /\ WokenAre(at, on) /\ QueuedAre(at, on)
      /\ Waiting(at, on) /\ \A f \in Executor : RunAt(at, f)
  BY DEF Inv, Placed
<1>2. pc[e] = "lock"
  BY DEF LockNext
<1> PICK t : t = task[e]
  OBVIOUS
<1>3. t \in Task /\ at[t] = "run" /\ Owner[t] = e /\ t # NoTask
  BY <1>2, AtWork, Constants DEF Working
<1>4. pos[t] # {}
  BY <1>1, <1>2 DEF RunAt
<1> PICK i0 : i0 = LockAt(t)
  OBVIOUS
<1>5. i0 \in pos[t] /\ i0 \in Instance /\ i0 \in InstancesOf(t)
  BY <1>1, <1>3, <1>4, LockAtPos
<1>6. t \in Writing(i0) <=> Access[t][i0] = "Write"
  BY <1>3, <1>5 DEF Writing
<1> PICK l : l = lock[i0]
  OBVIOUS
<1> PICK b \in BOOLEAN : b <=> Blocks(l, t, Writing(i0))
  OBVIOUS
<1> PICK m : m = Locked(l, t, Writing(i0))
  OBVIOUS
<1>7. l \in Locks(Task)
  BY <1>1, <1>5 DEF Typed
<1>8. /\ lock' = [lock EXCEPT ![i0] = m]
      /\ pos' = [pos EXCEPT ![t] = @ \ {i0}]
      /\ task' = [task EXCEPT ![e] = IF b THEN NoTask ELSE t]
      /\ pc' = [pc EXCEPT ![e] = IF b THEN AfterTask(e)
                                 ELSE IF pos[t] = {i0} THEN "run" ELSE "lock"]
      /\ UNCHANGED <<idle, ready, handoff>>
  <2>1. CASE t \in Writing(i0)
    BY <1>6, <2>1 DEF LockNext, Goto, Blocks, Locked
  <2>2. CASE t \notin Writing(i0)
    BY <1>6, <2>2 DEF LockNext, Goto, Blocks, Locked
  <2>3. QED
    BY <2>1, <2>2
<1>9. /\ Queue(l.queue, Writing(i0))
      /\ \A u \in Task : Waits(l.queue, u) <=> at[u] = "queue" /\ on[u] = i0
  BY <1>1, <1>5 DEF QueuedAre
<1>10. ~Waits(l.queue, t)
  BY <1>3, <1>9
<1>11. /\ m \in Locks(Task) /\ Queue(m.queue, Writing(i0))
       /\ b => /\ m.count = l.count
               /\ \A u : Waits(m.queue, u) <=> Waits(l.queue, u) \/ u = t
       /\ ~b => m.queue = l.queue
  <2>1. /\ m \in Locks(Task) /\ Queue(m.queue, Writing(i0))
        /\ Blocks(l, t, Writing(i0)) =>
             /\ m.count = l.count
             /\ \A u : Waits(m.queue, u) <=> Waits(l.queue, u) \/ u = t
        /\ ~Blocks(l, t, Writing(i0)) => m.queue = l.queue
    <3>1. Queue(l.queue, Writing(i0)) /\ t \in Task
      BY <1>3, <1>9
    <3>2. m = Locked(l, t, Writing(i0))
      OBVIOUS
    <3>3. QED
      BY ONLY <1>7, <1>10, <3>1, <3>2, LockedShape, SMTT(30)
  <2>2. QED
    BY <2>1
<1>12. lock'[i0] = m /\ \A i \in Instance \ {i0} : lock'[i] = lock[i]
  BY <1>1, <1>5, <1>8 DEF Typed
<1>13. pos'[t] = pos[t] \ {i0} /\ \A u \in Task \ {t} : pos'[u] = pos[u]
  BY <1>1, <1>3, <1>8 DEF Typed
<1>14. \A f \in Executor \ {e} : task'[f] = task[f] /\ pc'[f] = pc[f]
  BY <1>1, <1>8 DEF Typed
<1>15. Typed'
  <2>1. pc' \in [Executor -> Pc] /\ task' \in [Executor -> Task \cup {NoTask}]
    BY <1>1, <1>3, <1>8, AfterTaskPc DEF Typed, Pc
  <2>2. lock' \in [Instance -> Locks(Task)]
    BY <1>1, <1>8, <1>11 DEF Typed
  <2>3. pos' \in [Task -> SUBSET Instance] /\ \A u \in Task : pos'[u] \subseteq InstancesOf(u)
    BY <1>1, <1>3, <1>8, <1>13 DEF Typed
  <2>4. QED
    BY <1>1, <1>8, <2>1, <2>2, <2>3 DEF Typed
<1>16. /\ Holders(i0) \in SUBSET Task /\ IsFiniteSet(Holders(i0))
       /\ \A u \in Task : u \in Holders(i0) <=> Means(at, on, u, i0)
       /\ Account(l, Holders(i0), Writing(i0))
  BY <1>5, OldAccount
<1>17. \A u \in Task \ {t} : at[u] = "run" => Owner[u] # e
  BY <1>1 DEF RunAt
<1> PICK O : O = Holders(i0)
  OBVIOUS
<1>18. t \notin O
  BY <1>2, <1>3, <1>5, <1>16 DEF Means
<1>19. CASE b
  <2>1. PICK at2 \in [Task -> Places] :
          at2[t] = "queue" /\ \A u \in Task \ {t} : at2[u] = at[u]
    <3>1. [at EXCEPT ![t] = "queue"] \in [Task -> Places]
      BY <1>3 DEF Places
    <3>2. QED
      BY <1>3, <3>1
  <2>2. PICK on2 \in [Task -> Int] :
          on2[t] = i0 /\ \A u \in Task \ {t} : on2[u] = on[u]
    <3>1. [on EXCEPT ![t] = i0] \in [Task -> Int]
      BY <1>5, Constants
    <3>2. QED
      BY <1>3, <3>1
  <2>3. /\ m.count = l.count
        /\ \A u : Waits(m.queue, u) <=> Waits(l.queue, u) \/ u = t
    BY <1>11, <1>19
  <2>4. IdleAre(at2)' /\ ReadyAre(at2)' /\ WokenAre(at2, on2)'
    <3>1. IdleAre(at2)'
      BY <1>1, <1>3, <1>8, <2>1 DEF IdleAre
    <3>2. ReadyAre(at2)'
      BY <1>1, <1>3, <1>8, <2>1 DEF ReadyAre
    <3>3. WokenAre(at2, on2)'
      BY <1>1, <1>3, <1>8, <2>1, <2>2 DEF WokenAre
    <3>4. QED
      BY <3>1, <3>2, <3>3
  <2>5. QueuedAre(at2, on2)'
    <3>1. \A i : Writing(i)' = Writing(i)
      BY DEF Writing
    <3>2. ASSUME NEW i \in Instance
          PROVE  /\ Queue(lock'[i].queue, Writing(i))
                 /\ \A u \in Task : Waits(lock'[i].queue, u) <=> at2[u] = "queue" /\ on2[u] = i
      <4>1. CASE i = i0
        BY <1>3, <1>9, <1>11, <1>12, <2>1, <2>2, <2>3, <4>1
      <4>2. CASE i # i0
        BY <1>1, <1>3, <1>12, <2>1, <2>2, <4>2 DEF QueuedAre
      <4>3. QED
        BY <4>1, <4>2
    <3>3. QED
      BY <3>1, <3>2 DEF QueuedAre
  <2>6. Waiting(at2, on2)'
    BY <1>1, <1>3, <1>5, <1>13, <2>1, <2>2 DEF Waiting
  <2>7. ASSUME NEW f \in Executor PROVE RunAt(at2, f)'
    <3>1. CASE f = e
      <4>1. task'[e] = NoTask /\ pc'[e] \in {"fetch", "message"}
        BY <1>1, <1>8, <1>19, AfterTaskPc DEF Typed
      <4>2. \A u \in Task : ~(at2[u] = "run" /\ Owner[u] = e)
        BY <1>17, <2>1
      <4>3. QED
        BY <1>1, <1>2, <1>8, <3>1, <4>1, <4>2, Constants DEF RunAt, Working
    <3>2. CASE f # e
      BY <1>1, <1>3, <1>8, <1>13, <1>14, <2>1, <3>2, Constants DEF RunAt
    <3>3. QED
      BY <3>1, <3>2
  <2>8. Placed(at2, on2)'
    BY <2>4, <2>5, <2>6, <2>7 DEF Placed
  <2>9. ASSUME NEW u \in Task, NEW i \in Instance
        PROVE  Means(at2, on2, u, i)' <=> Means(at, on, u, i)
    <3>1. CASE u = t
      BY <1>2, <1>3, <1>5, <1>13, <2>1, <2>2, <3>1 DEF Means
    <3>2. CASE u # t
      <4>1. at2[u] = at[u] /\ on2[u] = on[u] /\ pos'[u] = pos[u]
        BY <1>13, <2>1, <2>2, <3>2
      <4>2. at[u] = "run" => pc'[Owner[u]] = pc[Owner[u]]
        BY <1>14, <1>17, <3>2, Constants
      <4>3. QED
        BY <4>1, <4>2 DEF Means
    <3>3. QED
      BY <3>1, <3>2
  <2>10. Account(m, O, Writing(i0))
    BY <1>16, <2>3 DEF Account
  <2>11. \A u \in Task : Means(at2, on2, u, i0)' <=> u \in O
    BY <1>5, <1>16, <2>9
  <2>12. O \in SUBSET Task /\ Account(lock'[i0], O, Writing(i0))
    BY <1>12, <1>16, <2>10
  <2>13. Inv(at2, on2)'
    BY <1>5, <1>12, <1>15, <2>8, <2>9, <2>11, <2>12, NewAccounts
  <2>14. QED
    BY <2>13
<1>20. CASE ~b
  <2>1. m.queue = l.queue
    BY <1>11, <1>20
  <2>2. task' = task /\ pc'[e] = IF pos[t] = {i0} THEN "run" ELSE "lock"
    BY <1>1, <1>8, <1>20 DEF Typed
  <2>3. IdleAre(at)' /\ ReadyAre(at)' /\ WokenAre(at, on)'
    BY <1>1, <1>8 DEF IdleAre, ReadyAre, WokenAre
  <2>4. QueuedAre(at, on)'
    <3>1. \A i : Writing(i)' = Writing(i)
      BY DEF Writing
    <3>2. \A i \in Instance : lock'[i].queue = lock[i].queue
      BY <1>12, <2>1
    <3>3. QED
      BY <1>1, <3>1, <3>2 DEF QueuedAre
  <2>5. Waiting(at, on)'
    BY <1>1, <1>3, <1>13 DEF Waiting
  <2>6. ASSUME NEW f \in Executor PROVE RunAt(at, f)'
    <3>1. CASE f = e
      BY <1>1, <1>2, <1>3, <1>4, <1>5, <1>8, <1>13, <2>2, <3>1, Constants DEF RunAt, Working
    <3>2. CASE f # e
      BY <1>1, <1>3, <1>8, <1>13, <1>14, <3>2, Constants DEF RunAt
    <3>3. QED
      BY <3>1, <3>2
  <2>7. Placed(at, on)'
    BY <2>3, <2>4, <2>5, <2>6 DEF Placed
  <2>8. pc[e] \notin {"unlock", "wake"} /\ pc'[e] \notin {"unlock", "wake"}
    BY <1>2, <2>2
  <2>9. ASSUME NEW u \in Task, NEW i \in Instance, u # t \/ i # i0
        PROVE  Means(at, on, u, i)' <=> Means(at, on, u, i)
    <3>1. CASE u = t
      BY <1>3, <1>13, <2>8, <2>9, <3>1 DEF Means
    <3>2. CASE u # t
      BY <1>13, <1>14, <1>17, <3>2, Constants DEF Means
    <3>3. QED
      BY <3>1, <3>2
  <2>10. Means(at, on, t, i0)'
    BY <1>3, <1>5, <1>13, <2>8 DEF Means
  <2>11. \A u \in Task : Means(at, on, u, i0)' <=> u \in O \cup {t}
    BY <1>3, <1>5, <1>16, <2>9, <2>10
  <2>12. Account(m, O \cup {t}, Writing(i0))
    BY <1>3, <1>7, <1>16, <1>18, <1>20, AcquireAccount DEF Blocks, Locked
  <2>13. O \cup {t} \in SUBSET Task /\ Account(lock'[i0], O \cup {t}, Writing(i0))
    BY <1>3, <1>12, <1>16, <2>12
  <2>14. Inv(at, on)'
    BY <1>5, <1>12, <1>15, <2>7, <2>9, <2>11, <2>13, NewAccounts
  <2>15. QED
    BY <2>14
<1>21. QED
  BY <1>19, <1>20

(* After its last unlock a task is idle; before, it goes on.               *)
Ends(e, d) ==
  /\ idle' = IF d = "idle" THEN [idle EXCEPT ![e] = Append(@, task[e])] ELSE idle
  /\ task' = IF d = "idle" THEN [task EXCEPT ![e] = NoTask] ELSE task

(* What becomes of the places of the tasks with it.                        *)
EndsAs(at, on, e, d, t, at2) ==
  /\ at \in [Task -> Places] /\ on \in [Task -> Int] /\ Inv(at, on)
  /\ e \in Executor /\ pc[e] \in Working /\ d \in {"idle", "run"} /\ Ends(e, d)
  /\ t = task[e]
  /\ at2 \in [Task -> Places] /\ at2[t] = d
  /\ \A u \in Task \ {t} : /\ at2[u] = "idle" <=> at[u] = "idle"
                           /\ at2[u] = "run" <=> at[u] = "run"

LEMMA EndsInv ==
  ASSUME NEW at, NEW on, NEW e, NEW d, NEW t, NEW at2, EndsAs(at, on, e, d, t, at2)
  PROVE  /\ idle' \in [Executor -> Seq(Task)] /\ task' \in [Executor -> Task \cup {NoTask}]
         /\ IdleAre(at2)'
         /\ \A f \in Executor : \A u \in Task : task'[f] = u <=> at2[u] = "run" /\ Owner[u] = f
         /\ \A f \in Executor \ {e} : task'[f] = task[f]
         /\ task'[e] = IF d = "idle" THEN NoTask ELSE t
<1> USE DEF EndsAs
<1>1. t \in Task /\ at[t] = "run" /\ Owner[t] = e
  BY AtWork
<1>2. /\ idle \in [Executor -> Seq(Task)] /\ task \in [Executor -> Task \cup {NoTask}]
      /\ IdleAre(at) /\ \A f \in Executor : RunAt(at, f)
  BY DEF Inv, Typed, Placed
<1>3. \A f \in Executor : \A u \in Task : task[f] = u <=> at[u] = "run" /\ Owner[u] = f
  BY <1>2 DEF RunAt
<1>4. CASE d = "run"
  <2>1. idle' = idle /\ task' = task
    BY <1>4 DEF Ends
  <2>2. \A u \in Task : /\ at2[u] = "idle" <=> at[u] = "idle"
                        /\ at2[u] = "run" <=> at[u] = "run"
    BY <1>1, <1>4
  <2>3. IdleAre(at2)'
    BY <1>2, <2>1, <2>2 DEF IdleAre
  <2>4. QED
    BY <1>2, <1>3, <1>4, <2>1, <2>2, <2>3
<1>5. CASE d = "idle"
  <2> PICK a : a = Append(idle[e], t)
    OBVIOUS
  <2>1. /\ idle' = [idle EXCEPT ![e] = a] /\ task' = [task EXCEPT ![e] = NoTask]
    BY <1>5 DEF Ends
  <2>2. idle[e] \in Seq(Task) /\ Once(idle[e]) /\ ~Has(idle[e], t)
    BY <1>1, <1>2 DEF IdleAre
  <2>3. a \in Seq(Task) /\ Once(a) /\ \A u : Has(a, u) <=> Has(idle[e], u) \/ u = t
    BY <1>1, <2>2, AppendList
  <2>4. idle'[e] = a /\ \A f \in Executor \ {e} : idle'[f] = idle[f]
    BY <1>2, <2>1
  <2>5. task'[e] = NoTask /\ \A f \in Executor \ {e} : task'[f] = task[f]
    BY <1>2, <2>1
  <2>6. IdleAre(at2)'
    <3>1. ASSUME NEW f \in Executor
          PROVE  /\ Once(idle'[f])
                 /\ \A u \in Task : Has(idle'[f], u) <=> at2[u] = "idle" /\ Owner[u] = f
      <4>1. CASE f = e
        <5>1. idle'[f] = a
          BY <2>4, <4>1
        <5>2. ASSUME NEW u \in Task
              PROVE  Has(a, u) <=> at2[u] = "idle" /\ Owner[u] = f
          <6>1. Has(idle[e], u) <=> at[u] = "idle" /\ Owner[u] = e
            BY <1>2 DEF IdleAre
          <6>2. Has(a, u) <=> Has(idle[e], u) \/ u = t
            BY <2>3
          <6>3. u = t => at2[u] = "idle" /\ Owner[u] = e
            BY <1>1, <1>5
          <6>4. QED
            BY <4>1, <6>1, <6>2, <6>3
        <5>3. QED
          BY <2>3, <5>1, <5>2
      <4>2. CASE f # e
        <5>1. idle'[f] = idle[f] /\ Once(idle[f])
          BY <1>2, <2>4, <4>2 DEF IdleAre
        <5>2. ASSUME NEW u \in Task
              PROVE  Has(idle[f], u) <=> at2[u] = "idle" /\ Owner[u] = f
          <6>1. Has(idle[f], u) <=> at[u] = "idle" /\ Owner[u] = f
            BY <1>2 DEF IdleAre
          <6>2. u = t => at[u] # "idle" /\ Owner[u] # f
            BY <1>1, <4>2
          <6>3. QED
            BY <6>1, <6>2
        <5>3. QED
          BY <5>1, <5>2
      <4>3. QED
        BY <4>1, <4>2
    <3>2. QED
      BY <3>1 DEF IdleAre
  <2>7. ASSUME NEW f \in Executor, NEW u \in Task
        PROVE  task'[f] = u <=> at2[u] = "run" /\ Owner[u] = f
    <3>1. CASE u = t
      BY <1>1, <1>3, <1>5, <2>5, <3>1, Constants
    <3>2. CASE u # t
      BY <1>3, <2>5, <3>2, Constants
    <3>3. QED
      BY <3>1, <3>2
  <2>8. idle' \in [Executor -> Seq(Task)] /\ task' \in [Executor -> Task \cup {NoTask}]
    BY <1>2, <2>1, <2>3
  <2>9. QED
    BY <1>5, <2>5, <2>6, <2>7, <2>8
<1>6. QED
  BY <1>4, <1>5

(* Proceed and the step after it, in the terms of Ends. *)
LEMMA ProceedEnds ==
  ASSUME NEW e \in Executor, NEW p, Proceed(e, p), NEW d, d = IF p = {} THEN "idle" ELSE "run"
  PROVE  /\ Ends(e, d)
         /\ AfterUnlock(e, p) \in IF d = "idle" THEN {"break", "fetch", "message"} ELSE {"unlock"}
<1>1. CASE p = {}
  BY <1>1, AfterTaskPc DEF Proceed, Ends, AfterUnlock
<1>2. CASE p # {}
  BY <1>2 DEF Proceed, Ends, AfterUnlock
<1>3. QED
  BY <1>1, <1>2

(* The next lock is given back and passed on.                              *)
LEMMA UnlockNextInv ==
  ASSUME NEW at \in [Task -> Places], NEW on \in [Task -> Int], Inv(at, on),
         NEW e \in Executor, UnlockNext(e)
  PROVE  \E at2 \in [Task -> Places], on2 \in [Task -> Int] : Inv(at2, on2)'
<1>1. /\ Typed /\ IdleAre(at) /\ ReadyAre(at) /\ WokenAre(at, on) /\ QueuedAre(at, on)
      /\ Waiting(at, on) /\ \A f \in Executor : RunAt(at, f)
  BY DEF Inv, Placed
<1>2. pc[e] = "unlock" /\ pc[e] \in Working
  BY DEF UnlockNext, Working
<1> PICK t : t = task[e]
  OBVIOUS
<1>3. t \in Task /\ at[t] = "run" /\ Owner[t] = e /\ t # NoTask
  BY <1>2, AtWork, Constants
<1>4. pos[t] # {}
  BY <1>1, <1>2 DEF RunAt
<1> PICK i0 : i0 = LockAt(t)
  OBVIOUS
<1>5. i0 \in pos[t] /\ i0 \in Instance /\ i0 \in InstancesOf(t)
  BY <1>1, <1>3, <1>4, LockAtPos
<1> PICK p : p = pos[t] \ {i0}
  OBVIOUS
<1>6. t \in Writing(i0) <=> Access[t][i0] = "Write"
  BY <1>3, <1>5 DEF Writing
<1> PICK l : l = lock[i0]
  OBVIOUS
<1> PICK m : m = Unlocked(l, t, Writing(i0))
  OBVIOUS
<1> PICK g : g = Granted(m)
  OBVIOUS
<1> PICK G : G = GrantedSet(m)
  OBVIOUS
<1> PICK r : r = ProcessList(m)
  OBVIOUS
<1>0. PICK d : d \in {"idle", "run"} /\ (d = "idle" <=> g = <<>> /\ p = {})
  OBVIOUS
<1>7. l \in Locks(Task)
  BY <1>1, <1>5 DEF Typed
<1>8. m = IF Access[t][i0] # "Write" THEN DropRead(l) ELSE DropWrite(l)
  <2>1. m = IF t \in Writing(i0) THEN DropWrite(l) ELSE DropRead(l)
    BY DEF Unlocked
  <2>2. QED
    BY <1>6, <2>1
<1>9. /\ lock' = [lock EXCEPT ![i0] = r]
      /\ handoff' = [handoff EXCEPT ![e] = g]
      /\ pos' = [pos EXCEPT ![t] = @ \ {i0}]
      /\ ready' = ready
      /\ \/ /\ g # <<>> /\ Goto(e, "wake")
            /\ UNCHANGED <<idle, task, result, points>>
         \/ /\ g = <<>> /\ Goto(e, AfterUnlock(e, p))
            /\ Proceed(e, p)
  BY <1>8 DEF UnlockNext
<1>10. /\ Ends(e, d)
       /\ pc' = [pc EXCEPT ![e] = pc'[e]]
       /\ pc'[e] \in IF d = "idle" THEN {"break", "fetch", "message"} ELSE {"unlock", "wake"}
       /\ pc'[e] = "wake" <=> g # <<>>
       /\ pc'[e] = "unlock" => p # {}
  <2>1. CASE g # <<>>
    <3>1. Goto(e, "wake") /\ UNCHANGED <<idle, task>> /\ d = "run"
      BY <1>0, <1>9, <2>1
    <3>2. pc'[e] = "wake" /\ pc' = [pc EXCEPT ![e] = pc'[e]]
      BY <1>1, <3>1 DEF Goto, Typed
    <3>3. QED
      BY <2>1, <3>1, <3>2 DEF Ends
  <2>2. CASE g = <<>>
    <3>1. Goto(e, AfterUnlock(e, p)) /\ Proceed(e, p) /\ d = (IF p = {} THEN "idle" ELSE "run")
      BY <1>0, <1>9, <2>2
    <3>2. /\ Ends(e, d)
          /\ AfterUnlock(e, p) \in IF d = "idle" THEN {"break", "fetch", "message"} ELSE {"unlock"}
      BY <3>1, ProceedEnds
    <3>3. pc'[e] = AfterUnlock(e, p) /\ pc' = [pc EXCEPT ![e] = pc'[e]]
      BY <1>1, <3>1 DEF Goto, Typed
    <3>4. QED
      BY <2>2, <3>1, <3>2, <3>3
  <2>3. QED
    BY <2>1, <2>2
<1> PICK O : O = Holders(i0)
  OBVIOUS
<1>11. /\ O \in SUBSET Task /\ IsFiniteSet(O)
       /\ \A u \in Task : u \in O <=> Means(at, on, u, i0)
       /\ Account(l, O, Writing(i0))
  BY <1>5, OldAccount
<1>12. t \in O
  BY <1>2, <1>3, <1>5, <1>11 DEF Means
<1>13. /\ Queue(l.queue, Writing(i0))
       /\ \A u \in Task : Waits(l.queue, u) <=> at[u] = "queue" /\ on[u] = i0
  BY <1>1, <1>5 DEF QueuedAre
<1>14. /\ m \in Locks(Task) /\ m.queue = l.queue
       /\ Account(r, (O \ {t}) \cup G, Writing(i0))
  <2>1. /\ \A k \in 1 .. Len(l.queue) : l.queue[k].read <=> l.queue[k].task \notin Writing(i0)
        /\ \A j, k \in 1 .. Len(l.queue) : l.queue[j].task = l.queue[k].task => j = k
    BY <1>13 DEF Queue
  <2>2. LET n == Unlocked(l, t, Writing(i0))
        IN  /\ n \in Locks(Task) /\ n.queue = l.queue
            /\ Account(ProcessList(n), (O \ {t}) \cup GrantedSet(n), Writing(i0))
    BY ONLY <1>7, <1>11, <1>12, <2>1, UnlockAccount, SMTT(30)
  <2>3. QED
    BY <2>2
<1>15. /\ r \in Locks(Task) /\ Queue(r.queue, Writing(i0))
       /\ g \in Seq(Task) /\ Once(g)
       /\ \A u : /\ Has(g, u) <=> u \in G
                 /\ u \in G => Waits(l.queue, u)
                 /\ Waits(r.queue, u) <=> Waits(l.queue, u) /\ u \notin G
  <2>1. m \in Locks(Task) /\ Queue(m.queue, Writing(i0))
    BY <1>13, <1>14
  <2>2. /\ ProcessList(m) \in Locks(Task) /\ Queue(ProcessList(m).queue, Writing(i0))
        /\ Granted(m) \in Seq(Task) /\ Once(Granted(m))
        /\ \A u : /\ Has(Granted(m), u) <=> u \in GrantedSet(m)
                  /\ u \in GrantedSet(m) => Waits(m.queue, u)
                  /\ Waits(ProcessList(m).queue, u) <=>
                       Waits(m.queue, u) /\ u \notin GrantedSet(m)
    BY <2>1, GrantQueue, Zenon
  <2>3. QED
    BY <1>14, <2>2
<1>16. \A u \in G : u \in Task
  BY <1>15 DEF Has
<1>17. \A u \in G : u \in Task /\ at[u] = "queue" /\ on[u] = i0 /\ u # t
  BY <1>3, <1>13, <1>15, <1>16
<1>18. PICK at2 \in [Task -> Places] :
         /\ at2[t] = d
         /\ \A u \in G : at2[u] = "wake"
         /\ \A u \in Task \ (G \cup {t}) : at2[u] = at[u]
  <2> DEFINE f == [u \in Task |-> IF u \in G THEN "wake"
                                  ELSE IF u = t THEN d ELSE at[u]]
  <2>1. f \in [Task -> Places]
    BY <1>0 DEF Places
  <2>2. /\ f[t] = d
        /\ \A u \in G : f[u] = "wake"
        /\ \A u \in Task \ (G \cup {t}) : f[u] = at[u]
    BY <1>3, <1>17
  <2> HIDE DEF f
  <2>3. QED
    BY <2>1, <2>2
<1>19. PICK on2 \in [Task -> Int] :
         /\ \A u \in G : on2[u] = e
         /\ \A u \in Task \ G : on2[u] = on[u]
  <2> DEFINE f == [u \in Task |-> IF u \in G THEN e ELSE on[u]]
  <2>1. f \in [Task -> Int]
    BY Constants
  <2>2. /\ \A u \in G : f[u] = e
        /\ \A u \in Task \ G : f[u] = on[u]
    BY <1>17
  <2> HIDE DEF f
  <2>3. QED
    BY <2>1, <2>2
<1>20. \A u \in Task \ {t} : /\ at2[u] = "idle" <=> at[u] = "idle"
                             /\ at2[u] = "run" <=> at[u] = "run"
                             /\ at2[u] = "ready" <=> at[u] = "ready"
  <2>1. ASSUME NEW u \in Task \ {t}
        PROVE  /\ at2[u] = "idle" <=> at[u] = "idle"
               /\ at2[u] = "run" <=> at[u] = "run"
               /\ at2[u] = "ready" <=> at[u] = "ready"
    <3>1. CASE u \in G
      BY <1>17, <1>18, <3>1
    <3>2. CASE u \notin G
      BY <1>0, <1>18, <3>2
    <3>3. QED
      BY <3>1, <3>2
  <2>2. QED
    BY <2>1
<1>21. /\ idle' \in [Executor -> Seq(Task)] /\ task' \in [Executor -> Task \cup {NoTask}]
       /\ IdleAre(at2)'
       /\ \A f \in Executor : \A u \in Task : task'[f] = u <=> at2[u] = "run" /\ Owner[u] = f
       /\ \A f \in Executor \ {e} : task'[f] = task[f]
       /\ task'[e] = IF d = "idle" THEN NoTask ELSE t
  <2>1. /\ Inv(at, on) /\ t = task[e] /\ pc[e] \in Working /\ Ends(e, d)
        /\ d \in {"idle", "run"}
    BY <1>0, <1>2, <1>10
  <2>2. at2[t] = d
    BY <1>18
  <2>3. \A u \in Task \ {t} : /\ at2[u] = "idle" <=> at[u] = "idle"
                              /\ at2[u] = "run" <=> at[u] = "run"
    BY <1>20
  <2>4. EndsAs(at, on, e, d, t, at2)
    BY <2>1, <2>2, <2>3 DEF EndsAs
  <2>5. QED
    BY <2>4, EndsInv
<1>22. lock'[i0] = r /\ \A i \in Instance \ {i0} : lock'[i] = lock[i]
  BY <1>1, <1>5, <1>9 DEF Typed
<1>23. pos'[t] = p /\ \A u \in Task \ {t} : pos'[u] = pos[u]
  BY <1>1, <1>3, <1>9 DEF Typed
<1>24. /\ \A f \in Executor \ {e} : pc'[f] = pc[f] /\ handoff'[f] = handoff[f]
       /\ handoff'[e] = g
  BY <1>1, <1>9, <1>10 DEF Typed
<1>25. \A u \in Task \ {t} : at[u] = "run" => Owner[u] # e
  BY <1>1 DEF RunAt
<1>26. Typed'
  <2>1. pc'[e] \in Pc
    BY <1>10 DEF Pc
  <2>2. pc' \in [Executor -> Pc]
    BY <1>1, <1>10, <2>1 DEF Typed
  <2>3. lock' \in [Instance -> Locks(Task)]
    BY <1>1, <1>9, <1>15 DEF Typed
  <2>4. pos' \in [Task -> SUBSET Instance] /\ \A u \in Task : pos'[u] \subseteq InstancesOf(u)
    BY <1>1, <1>3, <1>9, <1>23 DEF Typed
  <2>5. handoff' \in [Executor -> Seq(Task)]
    BY <1>1, <1>9, <1>15 DEF Typed
  <2>6. ready' \in [Executor -> Seq(Task)]
    BY <1>1, <1>9 DEF Typed
  <2>7. QED
    BY <1>21, <2>2, <2>3, <2>4, <2>5, <2>6 DEF Typed
<1>27. ReadyAre(at2)'
  <2>1. ASSUME NEW f \in Executor, NEW u \in Task
        PROVE  Has(ready'[f], u) <=> at2[u] = "ready" /\ Owner[u] = f
    <3>1. Has(ready'[f], u) <=> at[u] = "ready" /\ Owner[u] = f
      BY <1>1, <1>9 DEF ReadyAre
    <3>2. at2[t] # "ready" /\ at[t] # "ready"
      BY <1>0, <1>3, <1>18
    <3>3. QED
      BY <1>20, <3>1, <3>2
  <2>2. \A f \in Executor : Once(ready'[f])
    BY <1>1, <1>9 DEF ReadyAre
  <2>3. QED
    BY <2>1, <2>2 DEF ReadyAre
<1>28. WokenAre(at2, on2)'
  <2>1. \A u \in Task : ~(at[u] = "wake" /\ on[u] = e)
    <3>1. handoff[e] = <<>>
      BY <1>1, <1>2 DEF RunAt
    <3>2. QED
      BY <1>1, <3>1, HasEmpty DEF WokenAre
  <2>2. ASSUME NEW f \in Executor, NEW u \in Task
        PROVE  Has(handoff'[f], u) <=> at2[u] = "wake" /\ on2[u] = f
    <3>1. f = e => (Has(handoff'[f], u) <=> u \in G)
      BY <1>15, <1>24
    <3>2. f # e => (Has(handoff'[f], u) <=> at[u] = "wake" /\ on[u] = f)
      BY <1>1, <1>24 DEF WokenAre
    <3>3. u \in G => at2[u] = "wake" /\ on2[u] = e /\ at[u] # "wake"
      BY <1>17, <1>18, <1>19
    <3>4. u \notin G => /\ at2[u] = "wake" <=> at[u] = "wake"
                        /\ on2[u] = on[u]
      BY <1>0, <1>3, <1>18, <1>19
    <3>5. QED
      BY <2>1, <3>1, <3>2, <3>3, <3>4
  <2>3. ASSUME NEW f \in Executor PROVE Once(handoff'[f])
    BY <1>1, <1>15, <1>24 DEF WokenAre
  <2>4. QED
    BY <2>2, <2>3 DEF WokenAre
<1>29. QueuedAre(at2, on2)'
  <2>1. \A i : Writing(i)' = Writing(i)
    BY DEF Writing
  <2>2. ASSUME NEW u \in Task, NEW i \in Instance
        PROVE  at2[u] = "queue" /\ on2[u] = i <=> at[u] = "queue" /\ on[u] = i /\ u \notin G
    <3>1. u \in G => at2[u] # "queue"
      BY <1>18
    <3>2. u \notin G => /\ at2[u] = "queue" <=> at[u] = "queue"
                        /\ on2[u] = on[u]
      BY <1>0, <1>3, <1>18, <1>19
    <3>3. QED
      BY <3>1, <3>2
  <2>3. ASSUME NEW i \in Instance
        PROVE  /\ Queue(lock'[i].queue, Writing(i))
               /\ \A u \in Task : Waits(lock'[i].queue, u) <=> at2[u] = "queue" /\ on2[u] = i
    <3>1. CASE i = i0
      BY <1>13, <1>15, <1>22, <2>2, <3>1
    <3>2. CASE i # i0
      <4>1. lock'[i] = lock[i] /\ \A u \in G : on[u] # i
        BY <1>17, <1>22, <3>2
      <4>2. Queue(lock[i].queue, Writing(i))
        BY <1>1 DEF QueuedAre
      <4>3. \A u \in Task : Waits(lock[i].queue, u) <=> at[u] = "queue" /\ on[u] = i
        BY <1>1 DEF QueuedAre
      <4>4. QED
        BY <2>2, <4>1, <4>2, <4>3
    <3>3. QED
      BY <3>1, <3>2
  <2>4. QED
    BY <2>1, <2>3 DEF QueuedAre
<1>30. Waiting(at2, on2)'
  <2>1. ASSUME NEW u \in Task
        PROVE  /\ at2[u] = "queue" => on2[u] \in InstancesOf(u) \ pos'[u]
               /\ at2[u] = "wake" => on2[u] \in Executor
    <3>1. CASE u \in G
      BY <1>18, <1>19, <3>1
    <3>2. CASE u = t
      BY <1>0, <1>18, <3>2
    <3>3. CASE u \notin G /\ u # t
      BY <1>1, <1>18, <1>19, <1>23, <3>3 DEF Waiting
    <3>4. QED
      BY <3>1, <3>2, <3>3
  <2>2. QED
    BY <2>1 DEF Waiting, InstancesOf
<1>31. ASSUME NEW f \in Executor PROVE RunAt(at2, f)'
  <2>1. \A u \in Task : task'[f] = u <=> at2[u] = "run" /\ Owner[u] = f
    BY <1>21
  <2>2. CASE f = e
    <3>1. handoff'[f] # <<>> <=> pc'[f] = "wake"
      BY <1>10, <1>24, <2>2
    <3>2. CASE d = "idle"
      <4>1. task'[f] = NoTask /\ pc'[f] \in {"break", "fetch", "message"}
        BY <1>10, <1>21, <2>2, <3>2
      <4>2. QED
        BY <2>1, <3>1, <4>1 DEF RunAt, Working
    <3>3. CASE d = "run"
      <4>1. task'[f] = t /\ pc'[f] \in {"unlock", "wake"} /\ pos'[t] = p
        BY <1>10, <1>21, <1>23, <2>2, <3>3
      <4>2. pc'[f] = "unlock" => p # {}
        BY <1>10, <2>2
      <4>3. QED
        BY <1>3, <2>1, <3>1, <4>1, <4>2 DEF RunAt, Working
    <3>4. QED
      BY <1>0, <3>2, <3>3
  <2>3. CASE f # e
    <3>1. RunAt(at, f) /\ task'[f] = task[f] /\ pc'[f] = pc[f] /\ handoff'[f] = handoff[f]
      BY <1>1, <1>21, <1>24, <2>3
    <3>2. task[f] \in Task \cup {NoTask}
      BY <1>1 DEF Typed
    <3>3. task[f] # t
      BY <1>1, <1>3, <2>3 DEF RunAt
    <3>4. pc[f] \in {"lock", "unlock", "run"} => task[f] \in Task /\ pos'[task[f]] = pos[task[f]]
      BY <1>23, <3>1, <3>2, <3>3 DEF RunAt, Working
    <3>5. QED
      BY <2>1, <3>1, <3>4 DEF RunAt
  <2>4. QED
    BY <2>2, <2>3
<1>32. Placed(at2, on2)'
  BY <1>21, <1>27, <1>28, <1>29, <1>30, <1>31 DEF Placed
<1>33. ASSUME NEW i \in Instance PROVE Means(at2, on2, t, i)' <=> Means(at, on, t, i) /\ i # i0
  <2>1. Means(at, on, t, i) <=> i \in pos[t]
    BY <1>1, <1>2, <1>3 DEF Means, Typed
  <2>2. CASE d = "idle"
    <3>1. at2[t] = "idle" /\ pos[t] = {i0}
      BY <1>0, <1>5, <1>18, <2>2
    <3>2. QED
      BY <2>1, <3>1 DEF Means
  <2>3. CASE d = "run"
    <3>1. at2[t] = "run" /\ pc'[Owner[t]] \in {"unlock", "wake"} /\ pos'[t] = pos[t] \ {i0}
      BY <1>3, <1>10, <1>18, <1>23, <2>3
    <3>2. pos[t] \subseteq InstancesOf(t)
      BY <1>1, <1>3 DEF Typed
    <3>3. Means(at2, on2, t, i)' <=> i \in pos'[t]
      BY <3>1, <3>2 DEF Means, InstancesOf
    <3>4. QED
      BY <2>1, <3>1, <3>3
  <2>4. QED
    BY <1>0, <2>2, <2>3
<1>34. ASSUME NEW u \in G, NEW i \in Instance
       PROVE  Means(at2, on2, u, i)' <=> Means(at, on, u, i) \/ i = i0
  <2>1. at[u] = "queue" /\ on[u] = i0 /\ at2[u] = "wake" /\ pos'[u] = pos[u] /\ u \in Task
    BY <1>17, <1>18, <1>23
  <2>2. i0 \in InstancesOf(u) \ pos[u]
    BY <1>1, <2>1 DEF Waiting
  <2>3. QED
    BY <2>1, <2>2 DEF Means, InstancesOf
<1>35. ASSUME NEW u \in Task \ (G \cup {t}), NEW i \in Instance
       PROVE  Means(at2, on2, u, i)' <=> Means(at, on, u, i)
  <2>1. at2[u] = at[u] /\ on2[u] = on[u] /\ pos'[u] = pos[u]
    BY <1>18, <1>19, <1>23
  <2>2. at[u] = "run" => pc'[Owner[u]] = pc[Owner[u]]
    BY <1>24, <1>25, Constants
  <2>3. QED
    BY <2>1, <2>2 DEF Means, InstancesOf
<1>36. ASSUME NEW u \in Task, NEW i \in Instance \ {i0}
       PROVE  Means(at2, on2, u, i)' <=> Means(at, on, u, i)
  BY <1>33, <1>34, <1>35
<1> PICK D : D = (O \ {t}) \cup G
  OBVIOUS
<1>37. ASSUME NEW u \in Task PROVE Means(at2, on2, u, i0)' <=> u \in D
  <2>1. u \in O <=> Means(at, on, u, i0)
    BY <1>11
  <2>2. CASE u = t
    BY <1>5, <1>17, <1>33, <2>2
  <2>3. CASE u \in G
    BY <1>5, <1>34, <2>3
  <2>4. CASE u \notin G /\ u # t
    BY <1>5, <1>35, <2>1, <2>4
  <2>5. QED
    BY <2>2, <2>3, <2>4
<1>38. D \in SUBSET Task /\ Account(lock'[i0], D, Writing(i0))
  BY <1>11, <1>14, <1>16, <1>22
<1>39. Inv(at2, on2)'
  BY <1>5, <1>22, <1>26, <1>32, <1>36, <1>37, <1>38, NewAccounts
<1>40. QED
  BY <1>39

(* A task that has been granted a lock is put on its executor's list.      *)
LEMMA WakeInv ==
  ASSUME NEW at \in [Task -> Places], NEW on \in [Task -> Int], Inv(at, on),
         NEW e \in Executor, Wake(e)
  PROVE  \E at2 \in [Task -> Places] : Inv(at2, on)'
<1>1. /\ Typed /\ IdleAre(at) /\ ReadyAre(at) /\ WokenAre(at, on) /\ QueuedAre(at, on)
      /\ Waiting(at, on) /\ \A f \in Executor : RunAt(at, f)
  BY DEF Inv, Placed
<1>2. pc[e] = "wake" /\ pc[e] \in Working
  BY DEF Wake, Working
<1> PICK t : t = task[e]
  OBVIOUS
<1>3. t \in Task /\ at[t] = "run" /\ Owner[t] = e /\ t # NoTask
  BY <1>2, AtWork, Constants
<1>4. handoff[e] # <<>> /\ handoff[e] \in Seq(Task) /\ Once(handoff[e])
  BY <1>1, <1>2 DEF RunAt, Typed, WokenAre
<1> PICK h : h = Head(handoff[e])
  OBVIOUS
<1> PICK g : g = Tail(handoff[e])
  OBVIOUS
<1>5. /\ h \in Task /\ Has(handoff[e], h) /\ g \in Seq(Task) /\ Once(g)
      /\ Len(handoff[e]) = 1 <=> g = <<>>
      /\ \A u : Has(g, u) <=> Has(handoff[e], u) /\ u # h
  BY <1>4, TailList
<1>6. at[h] = "wake" /\ on[h] = e /\ h # t
  BY <1>1, <1>3, <1>5 DEF WokenAre
<1> PICK o : o = Owner[h]
  OBVIOUS
<1>7. o \in Executor
  BY <1>5, Constants
<1> PICK a : a = Append(ready[o], h)
  OBVIOUS
<1>8. a \in Seq(Task) /\ Once(a) /\ \A u : Has(a, u) <=> Has(ready[o], u) \/ u = h
  <2>1. ready[o] \in Seq(Task) /\ Once(ready[o]) /\ ~Has(ready[o], h)
    BY <1>1, <1>5, <1>6, <1>7 DEF Typed, ReadyAre
  <2>2. QED
    BY <1>5, <2>1, AppendList
<1>9. PICK d : d \in {"idle", "run"} /\ (d = "idle" <=> g = <<>> /\ pos[t] = {})
  OBVIOUS
<1> PICK q : q = IF g = <<>> THEN AfterUnlock(e, pos[t]) ELSE "wake"
  OBVIOUS
<1>10. /\ ready' = [ready EXCEPT ![o] = a]
       /\ handoff' = [handoff EXCEPT ![e] = g]
       /\ pc' = [Signal(o, ready[o] = <<>>) EXCEPT ![e] = q]
       /\ lock' = lock /\ pos' = pos
       /\ IF g = <<>> THEN Proceed(e, pos[t]) ELSE UNCHANGED <<idle, task>>
  BY <1>5 DEF Wake, taskVars
<1>11. /\ Ends(e, d)
       /\ q \in IF d = "idle" THEN {"break", "fetch", "message"} ELSE {"unlock", "wake"}
       /\ q = "wake" <=> g # <<>>
       /\ q = "unlock" => pos[t] # {}
  <2>1. CASE g # <<>>
    BY <1>9, <1>10, <2>1 DEF Ends
  <2>2. CASE g = <<>>
    <3>1. Proceed(e, pos[t]) /\ d = (IF pos[t] = {} THEN "idle" ELSE "run")
      BY <1>9, <1>10, <2>2
    <3>2. /\ Ends(e, d)
          /\ AfterUnlock(e, pos[t]) \in
               IF d = "idle" THEN {"break", "fetch", "message"} ELSE {"unlock"}
      BY <3>1, ProceedEnds
    <3>3. QED
      BY <2>2, <3>1, <3>2
  <2>3. QED
    BY <2>1, <2>2
<1>12. /\ pc' \in [Executor -> Pc] /\ pc'[e] = q
       /\ \A f \in Executor \ {e} :
            pc'[f] = pc[f] \/ (pc[f] = "asleep" /\ pc'[f] = "fetch")
  <2>1. q \in Pc /\ pc \in [Executor -> Pc]
    BY <1>1, <1>11 DEF Pc, Typed
  <2>2. pc' = [Signal(o, ready[o] = <<>>) EXCEPT ![e] = q]
    BY <1>10
  <2>3. QED
    BY <2>1, <2>2 DEF Signal, Pc
<1>13. PICK at2 \in [Task -> Places] :
         /\ at2[t] = d /\ at2[h] = "ready"
         /\ \A u \in Task \ {t, h} : at2[u] = at[u]
  <2> DEFINE f == [u \in Task |-> IF u = h THEN "ready" ELSE IF u = t THEN d ELSE at[u]]
  <2>1. f \in [Task -> Places]
    BY <1>9 DEF Places
  <2>2. f[t] = d /\ f[h] = "ready" /\ \A u \in Task \ {t, h} : f[u] = at[u]
    BY <1>3, <1>5, <1>6
  <2> HIDE DEF f
  <2>3. QED
    BY <2>1, <2>2
<1>14. ASSUME NEW u \in Task \ {t}
       PROVE  /\ at2[u] = "idle" <=> at[u] = "idle"
              /\ at2[u] = "run" <=> at[u] = "run"
              /\ at2[u] = "queue" <=> at[u] = "queue"
              /\ at2[u] = "wake" <=> at[u] = "wake" /\ u # h
              /\ at2[u] = "ready" <=> at[u] = "ready" \/ u = h
  <2>1. CASE u = h
    BY <1>6, <1>13, <2>1
  <2>2. CASE u # h
    BY <1>13, <2>2
  <2>3. QED
    BY <2>1, <2>2
<1>15. /\ idle' \in [Executor -> Seq(Task)] /\ task' \in [Executor -> Task \cup {NoTask}]
       /\ IdleAre(at2)'
       /\ \A f \in Executor : \A u \in Task : task'[f] = u <=> at2[u] = "run" /\ Owner[u] = f
       /\ \A f \in Executor \ {e} : task'[f] = task[f]
       /\ task'[e] = IF d = "idle" THEN NoTask ELSE t
  <2>1. /\ Inv(at, on) /\ t = task[e] /\ pc[e] \in Working /\ Ends(e, d)
        /\ d \in {"idle", "run"}
    BY <1>2, <1>9, <1>11
  <2>2. at2[t] = d
    BY <1>13
  <2>3. \A u \in Task \ {t} : /\ at2[u] = "idle" <=> at[u] = "idle"
                              /\ at2[u] = "run" <=> at[u] = "run"
    BY <1>14
  <2>4. EndsAs(at, on, e, d, t, at2)
    BY <2>1, <2>2, <2>3 DEF EndsAs
  <2>5. QED
    BY <2>4, EndsInv
<1>16. /\ ready'[o] = a /\ \A f \in Executor \ {o} : ready'[f] = ready[f]
       /\ handoff'[e] = g /\ \A f \in Executor \ {e} : handoff'[f] = handoff[f]
  BY <1>1, <1>7, <1>10 DEF Typed
<1>17. at2[t] \notin {"ready", "wake", "queue"} /\ at[t] = "run"
  BY <1>3, <1>9, <1>13
<1>18. Typed'
  <2>1. ready' \in [Executor -> Seq(Task)]
    BY <1>1, <1>8, <1>10 DEF Typed
  <2>2. handoff' \in [Executor -> Seq(Task)]
    BY <1>1, <1>5, <1>10 DEF Typed
  <2>3. /\ lock' \in [Instance -> Locks(Task)] /\ pos' \in [Task -> SUBSET Instance]
        /\ \A u \in Task : pos'[u] \subseteq InstancesOf(u)
    BY <1>1, <1>10 DEF Typed
  <2>4. QED
    BY <1>12, <1>15, <2>1, <2>2, <2>3 DEF Typed, InstancesOf
<1>19. ReadyAre(at2)'
  <2>1. ASSUME NEW f \in Executor, NEW u \in Task
        PROVE  Has(ready'[f], u) <=> at2[u] = "ready" /\ Owner[u] = f
    <3>1. Has(ready[f], u) <=> at[u] = "ready" /\ Owner[u] = f
      BY <1>1 DEF ReadyAre
    <3>2. Has(ready'[f], u) <=> Has(ready[f], u) \/ (u = h /\ f = o)
      BY <1>8, <1>16
    <3>3. at2[u] = "ready" <=> at[u] = "ready" \/ u = h
      BY <1>6, <1>14, <1>17
    <3>4. QED
      BY <3>1, <3>2, <3>3
  <2>2. ASSUME NEW f \in Executor PROVE Once(ready'[f])
    BY <1>1, <1>8, <1>16 DEF ReadyAre
  <2>3. QED
    BY <2>1, <2>2 DEF ReadyAre
<1>20. WokenAre(at2, on)'
  <2>1. ASSUME NEW f \in Executor, NEW u \in Task
        PROVE  Has(handoff'[f], u) <=> at2[u] = "wake" /\ on[u] = f
    <3>1. Has(handoff[f], u) <=> at[u] = "wake" /\ on[u] = f
      BY <1>1 DEF WokenAre
    <3>2. Has(handoff'[f], u) <=> Has(handoff[f], u) /\ ~(u = h /\ f = e)
      BY <1>5, <1>16
    <3>3. at2[u] = "wake" <=> at[u] = "wake" /\ u # h
      BY <1>14, <1>17
    <3>4. QED
      BY <1>6, <3>1, <3>2, <3>3
  <2>2. ASSUME NEW f \in Executor PROVE Once(handoff'[f])
    BY <1>1, <1>5, <1>16 DEF WokenAre
  <2>3. QED
    BY <2>1, <2>2 DEF WokenAre
<1>21. QueuedAre(at2, on)'
  <2>1. \A u \in Task : at2[u] = "queue" <=> at[u] = "queue"
    BY <1>14, <1>17
  <2>2. QED
    BY <1>1, <1>10, <2>1, QueuedStill
<1>22. Waiting(at2, on)'
  <2>1. \A u \in Task : /\ at2[u] = "queue" => at[u] = "queue"
                        /\ at2[u] = "wake" => at[u] = "wake"
    BY <1>14, <1>17
  <2>2. QED
    BY <1>1, <1>10, <2>1 DEF Waiting, InstancesOf
<1>23. ASSUME NEW f \in Executor PROVE RunAt(at2, f)'
  <2>1. \A u \in Task : task'[f] = u <=> at2[u] = "run" /\ Owner[u] = f
    BY <1>15
  <2>2. CASE f = e
    <3>1. handoff'[f] # <<>> <=> pc'[f] = "wake"
      BY <1>11, <1>12, <1>16, <2>2
    <3>2. CASE d = "idle"
      <4>1. task'[f] = NoTask /\ pc'[f] \in {"break", "fetch", "message"}
        BY <1>11, <1>12, <1>15, <2>2, <3>2
      <4>2. QED
        BY <2>1, <3>1, <4>1 DEF RunAt, Working
    <3>3. CASE d = "run"
      <4>1. task'[f] = t /\ pc'[f] \in {"unlock", "wake"} /\ pos'[t] = pos[t]
        BY <1>10, <1>11, <1>12, <1>15, <2>2, <3>3
      <4>2. pc'[f] = "unlock" => pos[t] # {}
        BY <1>11, <1>12, <2>2
      <4>3. QED
        BY <1>3, <2>1, <3>1, <4>1, <4>2 DEF RunAt, Working
    <3>4. QED
      BY <1>9, <3>2, <3>3
  <2>3. CASE f # e
    <3>1. RunAt(at, f) /\ task'[f] = task[f] /\ handoff'[f] = handoff[f] /\ pos' = pos
      BY <1>1, <1>10, <1>15, <1>16, <2>3
    <3>2. pc'[f] = pc[f] \/ (pc[f] = "asleep" /\ pc'[f] = "fetch")
      BY <1>12, <2>3
    <3>3. QED
      BY <2>1, <3>1, <3>2 DEF RunAt, Working
  <2>4. QED
    BY <2>2, <2>3
<1>24. Placed(at2, on)'
  BY <1>15, <1>19, <1>20, <1>21, <1>22, <1>23 DEF Placed
<1>25. ASSUME NEW u \in Task, NEW i \in Instance
       PROVE  Means(at2, on, u, i)' <=> Means(at, on, u, i)
  <2>1. CASE u = t
    <3>1. Means(at, on, t, i) <=> i \in InstancesOf(t) /\ i \in pos[t]
      BY <1>2, <1>3 DEF Means
    <3>2. CASE d = "idle"
      <4>1. at2[t] = "idle" /\ pos[t] = {}
        BY <1>9, <1>13, <3>2
      <4>2. QED
        BY <2>1, <3>1, <4>1 DEF Means
    <3>3. CASE d = "run"
      <4>1. at2[t] = "run" /\ pc'[Owner[t]] \in {"unlock", "wake"}
        BY <1>3, <1>11, <1>12, <1>13, <3>3
      <4>2. QED
        BY <1>10, <2>1, <3>1, <4>1 DEF Means, InstancesOf
    <3>4. QED
      BY <1>9, <3>2, <3>3
  <2>2. CASE u = h
    BY <1>6, <1>10, <1>13, <2>2 DEF Means, InstancesOf
  <2>3. CASE u # t /\ u # h
    <3>1. at2[u] = at[u]
      BY <1>13, <2>3
    <3>2. at[u] = "run" => Owner[u] \in Executor \ {e}
      BY <1>1, <2>3, Constants DEF RunAt
    <3>3. at[u] = "run" => (pc'[Owner[u]] \in {"unlock", "wake"} <=> pc[Owner[u]] \in {"unlock", "wake"})
      BY <1>12, <3>2
    <3>4. QED
      BY <1>10, <3>1, <3>3 DEF Means, InstancesOf
  <2>4. QED
    BY <2>1, <2>2, <2>3
<1>26. Inv(at2, on)'
  BY <1>10, <1>18, <1>24, <1>25, SteadyAccounts
<1>27. QED
  BY <1>26

-----------------------------------------------------------------------------
(* Every step keeps the invariant, for some change of the places.          *)
LEMMA NextIInv == IInv /\ [Next]_<<vars, program>> => IInv'
<1> SUFFICES ASSUME IInv, [Next]_<<vars, program>> PROVE IInv'
  OBVIOUS
<1>1. PICK at \in [Task -> Places], on \in [Task -> Int] : Inv(at, on)
  BY DEF IInv
<1>2. ASSUME Inv(at, on)' PROVE IInv'
  BY <1>2 DEF IInv
<1>3. ASSUME NEW at2 \in [Task -> Places], NEW on2 \in [Task -> Int], Inv(at2, on2)' PROVE IInv'
  BY <1>3 DEF IInv
<1>4. ASSUME NEW e \in Executor, Step(e) PROVE IInv'
  <2>1. CASE Fetch(e)
    BY <1>1, <1>3, <2>1, FetchInv
  <2>2. CASE LockNext(e)
    BY <1>1, <1>3, <2>2, LockNextInv
  <2>3. CASE Run(e)
    BY <1>1, <1>2, <2>3, RunInv
  <2>4. CASE UnlockNext(e)
    BY <1>1, <1>3, <2>4, UnlockNextInv
  <2>5. CASE Wake(e)
    BY <1>1, <1>3, <2>5, WakeInv
  <2>6. CASE BreakOff(e)
    BY <1>1, <1>2, <2>6, BreakOffInv
  <2>7. CASE HandleMessage(e)
    BY <1>1, <1>2, <2>7, HandleMessageInv
  <2>8. CASE Decide(e)
    BY <1>1, <1>2, <2>8, DecideInv
  <2>9. CASE StartIdle(e)
    BY <1>1, <1>3, <2>9, StartIdleInv
  <2>10. CASE Poll(e)
    BY <1>1, <1>2, <2>10, PollInv
  <2>11. QED
    BY <1>4, <2>1, <2>2, <2>3, <2>4, <2>5, <2>6, <2>7, <2>8, <2>9, <2>10 DEF Step
<1>5. ASSUME UNCHANGED <<lock, pos, idle, ready, task, handoff, pc>> PROVE IInv'
  <2>1. pc \in [Executor -> Pc]
    BY <1>1 DEF Inv, Typed
  <2>2. Inv(at, on)'
    BY <1>1, <1>5, <2>1, QuietStep
  <2>3. QED
    BY <1>2, <2>2
<1>6. ASSUME NEW t \in FdTask, FdReady(t) PROVE IInv'
  BY <1>5, <1>6 DEF FdReady, taskVars, localVars
<1>7. CASE UNCHANGED <<vars, program>>
  BY <1>5, <1>7 DEF vars
<1>8. QED
  BY <1>4, <1>6, <1>7 DEF Next

(* The account of a lock excludes two tasks of which one writes. *)
LEMMA AccountIsolates == IInv => Isolation
<1> SUFFICES ASSUME IInv, NEW t \in Task, NEW u \in Task, NEW i \in Instance,
                    t # u, Conflict(t, u, i), Holds(t, i), Holds(u, i)
             PROVE  FALSE
  BY DEF Isolation
<1>1. Account(lock[i], Holders(i), Writing(i))
  BY DEF IInv, Inv, Accounts
<1>2. t \in Holders(i) /\ u \in Holders(i)
  BY DEF Holders
<1>3. t \in Writing(i) \/ u \in Writing(i)
  BY DEF Conflict, Writing, InstancesOf
<1>4. QED
  BY <1>1, <1>2, <1>3 DEF Account

(* Whatever the executors, tasks and programs: at every moment each task   *)
(* is in exactly one place (at: idle list, ready list, queue, list of      *)
(* those to be woken, executor) and the count of each lock is an account   *)
(* of the tasks that have it.                                              *)
THEOREM LocksAccounted == Spec => []IInv
BY InitIInv, NextIInv, PTL DEF Spec

(* partitioned_scheduler_t::info_t: two tasks never have one instance when *)
(* one of them writes it, through every interleaving of the critical       *)
(* sections of any number of threads.                                      *)
THEOREM Isolated == Spec => []Isolation
BY LocksAccounted, AccountIsolates, PTL

(* Where a task is listed, entry by entry. *)
Listed(t, x) ==
  \/ \E e \in Executor : \E k \in 1 .. Len(idle[e]) : idle[e][k] = t /\ x = <<"idle", e, k>>
  \/ \E e \in Executor : \E k \in 1 .. Len(ready[e]) : ready[e][k] = t /\ x = <<"ready", e, k>>
  \/ \E e \in Executor : \E k \in 1 .. Len(handoff[e]) : handoff[e][k] = t /\ x = <<"wake", e, k>>
  \/ \E e \in Executor : task[e] = t /\ x = <<"run", e, 0>>
  \/ \E i \in Instance : \E k \in 1 .. Len(lock[i].queue) :
       lock[i].queue[k].task = t /\ x = <<"queue", i, k>>

LEMMA EntriesListed ==
  ASSUME Typed, NEW t \in Task
  PROVE  \A x : x \in Entries(t) <=> Listed(t, x)
<1>1. ASSUME NEW e \in Executor
      PROVE  /\ At(idle[e], t) = {k \in 1 .. Len(idle[e]) : idle[e][k] = t}
             /\ At(ready[e], t) = {k \in 1 .. Len(ready[e]) : ready[e][k] = t}
             /\ At(handoff[e], t) = {k \in 1 .. Len(handoff[e]) : handoff[e][k] = t}
  <2>1. /\ DOMAIN idle[e] = 1 .. Len(idle[e])
        /\ DOMAIN ready[e] = 1 .. Len(ready[e])
        /\ DOMAIN handoff[e] = 1 .. Len(handoff[e])
    BY LenProperties DEF Typed
  <2>2. QED
    BY <2>1 DEF At
<1>2. ASSUME NEW i \in Instance PROVE DOMAIN lock[i].queue = 1 .. Len(lock[i].queue)
  <2>1. lock[i].queue \in Seq(Requests(Task))
    BY DEF Typed, Locks
  <2>2. QED
    BY <2>1, LenProperties
<1>3. ASSUME NEW x
      PROVE  x \in Entries(t) <=>
               \/ \E e \in Executor : \/ \E k \in At(idle[e], t) : x = <<"idle", e, k>>
                                      \/ \E k \in At(ready[e], t) : x = <<"ready", e, k>>
                                      \/ \E k \in At(handoff[e], t) : x = <<"wake", e, k>>
                                      \/ \E k \in {0} \cap {IF task[e] = t THEN 0 ELSE 1} :
                                           x = <<"run", e, k>>
               \/ \E i \in Instance :
                    \E k \in {j \in DOMAIN lock[i].queue : lock[i].queue[j].task = t} :
                      x = <<"queue", i, k>>
  <2> DEFINE Q(i) == {<<"queue", i, k>> :
                        k \in {j \in DOMAIN lock[i].queue : lock[i].queue[j].task = t}}
  <2>1. x \in OnExecutors(t) <=> \E e \in Executor : x \in OnExecutor(e, t)
    BY DEF OnExecutors
  <2>2. x \in OnLocks(t) <=> \E i \in Instance : x \in Q(i)
    BY Zenon DEF OnLocks
  <2>3. ASSUME NEW e
        PROVE  x \in OnExecutor(e, t) <=>
                 \/ \E k \in At(idle[e], t) : x = <<"idle", e, k>>
                 \/ \E k \in At(ready[e], t) : x = <<"ready", e, k>>
                 \/ \E k \in At(handoff[e], t) : x = <<"wake", e, k>>
                 \/ \E k \in {0} \cap {IF task[e] = t THEN 0 ELSE 1} : x = <<"run", e, k>>
    BY Zenon DEF OnExecutor
  <2>4. ASSUME NEW i
        PROVE  x \in Q(i) <=>
                 \E k \in {j \in DOMAIN lock[i].queue : lock[i].queue[j].task = t} :
                   x = <<"queue", i, k>>
    BY Zenon
  <2> HIDE DEF Q
  <2>5. x \in Entries(t) <=> x \in OnExecutors(t) \/ x \in OnLocks(t)
    BY DEF Entries
  <2>6. QED
    BY <2>1, <2>2, <2>3, <2>4, <2>5
<1>4. ASSUME NEW e \in Executor
      PROVE  {0} \cap {IF task[e] = t THEN 0 ELSE 1} = IF task[e] = t THEN {0} ELSE {}
  <2>1. CASE task[e] = t
    BY <2>1
  <2>2. CASE task[e] # t
    BY <2>2
  <2>3. QED
    BY <2>1, <2>2
<1>5. ASSUME NEW x PROVE x \in Entries(t) <=> Listed(t, x)
  BY <1>1, <1>2, <1>3, <1>4 DEF Listed
<1>6. QED
  BY <1>5

(* The place of a task is the one list it is on. *)
LEMMA PlacedOnOneList == IInv => OnOneList
<1> SUFFICES ASSUME IInv PROVE OnOneList
  OBVIOUS
<1>1. PICK at \in [Task -> Places], on \in [Task -> Int] : Inv(at, on)
  BY DEF IInv
<1>2. /\ Typed /\ IdleAre(at) /\ ReadyAre(at) /\ WokenAre(at, on) /\ QueuedAre(at, on)
      /\ Waiting(at, on) /\ \A f \in Executor : RunAt(at, f)
  BY <1>1 DEF Inv, Placed
<1>3. ASSUME NEW t \in Task
      PROVE  /\ Cardinality(Entries(t)) = 1
             /\ \A x \in Entries(t) : x[1] \in {"idle", "ready", "run"} => x[2] = Owner[t]
  <2> PICK E : E = Entries(t)
    OBVIOUS
  <2>1. \A x : x \in E <=> Listed(t, x)
    BY <1>2, <1>3, EntriesListed
  <2>2. /\ Owner[t] \in Executor
        /\ at[t] \in Places
    BY <1>3, Constants
  <2>3. ASSUME NEW e \in Executor
        PROVE  /\ \A k \in 1 .. Len(idle[e]) : idle[e][k] = t => at[t] = "idle" /\ Owner[t] = e
               /\ \A k \in 1 .. Len(ready[e]) : ready[e][k] = t => at[t] = "ready" /\ Owner[t] = e
               /\ \A k \in 1 .. Len(handoff[e]) : handoff[e][k] = t => at[t] = "wake" /\ on[t] = e
               /\ task[e] = t => at[t] = "run" /\ Owner[t] = e
               /\ Once(idle[e]) /\ Once(ready[e]) /\ Once(handoff[e])
    BY <1>2, <1>3 DEF IdleAre, ReadyAre, WokenAre, RunAt, Has
  <2>4. ASSUME NEW i \in Instance
        PROVE  /\ \A k \in 1 .. Len(lock[i].queue) :
                    lock[i].queue[k].task = t => at[t] = "queue" /\ on[t] = i
               /\ \A j, k \in 1 .. Len(lock[i].queue) :
                    lock[i].queue[j].task = lock[i].queue[k].task => j = k
    BY <1>2, <1>3 DEF QueuedAre, Queue, Waits
  <2>5. \E x : Listed(t, x) /\ (x[1] \in {"idle", "ready", "run"} => x[2] = Owner[t])
               /\ \A y : Listed(t, y) => y = x
    <3>1. CASE at[t] = "idle"
      <4>1. Has(idle[Owner[t]], t)
        BY <1>2, <1>3, <2>2, <3>1 DEF IdleAre
      <4>2. PICK k \in 1 .. Len(idle[Owner[t]]) : idle[Owner[t]][k] = t
        BY <4>1 DEF Has
      <4>3. Listed(t, <<"idle", Owner[t], k>>)
        BY <2>2, <4>2 DEF Listed
      <4>4. ASSUME NEW y, Listed(t, y) PROVE y = <<"idle", Owner[t], k>>
        BY <2>2, <2>3, <2>4, <3>1, <4>2, <4>4 DEF Listed, Once
      <4>5. QED
        BY <4>3, <4>4
    <3>2. CASE at[t] = "ready"
      <4>1. Has(ready[Owner[t]], t)
        BY <1>2, <1>3, <2>2, <3>2 DEF ReadyAre
      <4>2. PICK k \in 1 .. Len(ready[Owner[t]]) : ready[Owner[t]][k] = t
        BY <4>1 DEF Has
      <4>3. Listed(t, <<"ready", Owner[t], k>>)
        BY <2>2, <4>2 DEF Listed
      <4>4. ASSUME NEW y, Listed(t, y) PROVE y = <<"ready", Owner[t], k>>
        BY <2>2, <2>3, <2>4, <3>2, <4>2, <4>4 DEF Listed, Once
      <4>5. QED
        BY <4>3, <4>4
    <3>3. CASE at[t] = "wake"
      <4>1. on[t] \in Executor /\ Has(handoff[on[t]], t)
        BY <1>2, <1>3, <3>3 DEF WokenAre, Waiting
      <4>2. PICK k \in 1 .. Len(handoff[on[t]]) : handoff[on[t]][k] = t
        BY <4>1 DEF Has
      <4>3. Listed(t, <<"wake", on[t], k>>)
        BY <4>1, <4>2 DEF Listed
      <4>4. ASSUME NEW y, Listed(t, y) PROVE y = <<"wake", on[t], k>>
        BY <2>3, <2>4, <3>3, <4>1, <4>2, <4>4 DEF Listed, Once
      <4>5. QED
        BY <4>3, <4>4
    <3>4. CASE at[t] = "run"
      <4>1. task[Owner[t]] = t
        BY <1>2, <1>3, <2>2, <3>4 DEF RunAt
      <4>2. Listed(t, <<"run", Owner[t], 0>>)
        BY <2>2, <4>1 DEF Listed
      <4>3. ASSUME NEW y, Listed(t, y) PROVE y = <<"run", Owner[t], 0>>
        BY <2>3, <2>4, <3>4, <4>3 DEF Listed
      <4>4. QED
        BY <4>2, <4>3
    <3>5. CASE at[t] = "queue"
      <4>1. on[t] \in Instance /\ Waits(lock[on[t]].queue, t)
        BY <1>2, <1>3, <3>5, Constants DEF QueuedAre, Waiting
      <4>2. PICK k \in 1 .. Len(lock[on[t]].queue) : lock[on[t]].queue[k].task = t
        BY <4>1 DEF Waits
      <4>3. Listed(t, <<"queue", on[t], k>>)
        BY <4>1, <4>2 DEF Listed
      <4>4. ASSUME NEW y, Listed(t, y) PROVE y = <<"queue", on[t], k>>
        BY <2>3, <2>4, <3>5, <4>1, <4>2, <4>4 DEF Listed
      <4>5. QED
        BY <4>3, <4>4
    <3>6. QED
      BY <2>2, <3>1, <3>2, <3>3, <3>4, <3>5 DEF Places
  <2>6. PICK x : /\ Listed(t, x) /\ (x[1] \in {"idle", "ready", "run"} => x[2] = Owner[t])
                 /\ \A y : Listed(t, y) => y = x
    BY <2>5
  <2>7. E = {x}
    BY <2>1, <2>6
  <2>8. Cardinality({x}) = 1
    BY FS_Singleton
  <2>9. QED
    BY <2>6, <2>7, <2>8
<1>4. QED
  BY <1>3 DEF OnOneList

(* The one intrusive next pointer of a task is enough: at every moment a   *)
(* task is on one list, which is its own executor's unless it waits for a  *)
(* lock or for the executor that has granted it one.                       *)
THEOREM OneList == Spec => []OnOneList
BY LocksAccounted, PlacedOnOneList, PTL

-----------------------------------------------------------------------------
(***************************************************************************)
(* Two things that an executor of the partitioned scheduler rests on when  *)
(* it decides whether to go on: its wake-ups and its counter of skips.     *)
(*                                                                         *)
(* No wake-up is lost: the condition and the eventfd of an executor are    *)
(* signalled only when a list was empty, and only while it polls or is     *)
(* about to.  The window is between get_ready_task_and_message, which      *)
(* finds nothing and drains the eventfd, and the wait.                     *)
(***************************************************************************)
State == {"NORMAL", "SHOOT_DOWN", "WAIT1", "DOUBLE_CHECK", "WAIT2", "POLL"}
Mail == [kind : MessageKind, id : Nat]

Mailed ==
  /\ pc \in [Executor -> Pc] /\ state \in [Executor -> State]
  /\ usingEventfd \in [Executor -> BOOLEAN] /\ eventfd \in [Executor -> BOOLEAN]
  /\ mailbox \in [Executor -> Seq(Mail)]
  /\ message \in [Executor -> Mail \cup {NoMessage}]

(* There is something for the executor to take. *)
Items(e) == ready[e] # <<>> \/ mailbox[e] # <<>>

Awake(e) ==
  /\ state[e] = "POLL" => usingEventfd[e]
  /\ pc[e] = "poll" => state[e] = "POLL"
  /\ Items(e) => pc[e] # "asleep"
  /\ Items(e) /\ pc[e] \in {"decide", "poll"} /\ usingEventfd[e] => eventfd[e]

WInv == Mailed /\ \A e \in Executor : Awake(e)

-----------------------------------------------------------------------------
(* In the beginning all lists are empty. *)
LEMMA InitWInv == Init => WInv
<1> SUFFICES ASSUME Init PROVE WInv
  OBVIOUS
<1>1. Mailed
  BY EmptySeq DEF Init, Mailed, Pc, State
<1>2. ASSUME NEW e \in Executor PROVE Awake(e)
  BY DEF Init, Awake, Items
<1>3. QED
  BY <1>1, <1>2 DEF WInv

(* The other executors: one that is given something is signalled.          *)
Given(f) ==
  /\ pc'[f] = pc[f] \/ (pc[f] = "asleep" /\ pc'[f] = "fetch")
  /\ state'[f] = state[f]
  /\ usingEventfd'[f] <=> usingEventfd[f]
  /\ eventfd[f] => eventfd'[f]
  /\ Items(f)' => Items(f) \/ (pc'[f] # "asleep" /\ (usingEventfd[f] => eventfd'[f]))

LEMMA GivenAwake ==
  ASSUME NEW f \in Executor, Awake(f), Given(f)
  PROVE  Awake(f)'
<1>1. /\ pc'[f] = pc[f] \/ (pc[f] = "asleep" /\ pc'[f] = "fetch")
      /\ state'[f] = state[f]
      /\ usingEventfd'[f] <=> usingEventfd[f]
      /\ eventfd[f] => eventfd'[f]
      /\ Items(f)' => Items(f) \/ (pc'[f] # "asleep" /\ (usingEventfd[f] => eventfd'[f]))
  BY DEF Given
<1>2. (state[f] = "POLL")' => usingEventfd'[f]
  BY <1>1 DEF Awake
<1>3. (pc[f] = "poll")' => state'[f] = "POLL"
  BY <1>1 DEF Awake
<1>4. Items(f)' => pc'[f] # "asleep"
  BY <1>1 DEF Awake
<1>5. Items(f)' /\ pc'[f] \in {"decide", "poll"} /\ usingEventfd'[f] => eventfd'[f]
  BY <1>1 DEF Awake
<1>6. QED
  BY <1>2, <1>3, <1>4, <1>5 DEF Awake, Items

(* The executor itself, when it neither waits nor is about to.             *)
Busy(p) == p \in Pc \ {"decide", "poll", "asleep"}

LEMMA BusyStep ==
  ASSUME WInv, Mailed', NEW e \in Executor, Busy(pc'[e]),
         (state[e] = "POLL")' => usingEventfd'[e],
         \A f \in Executor \ {e} : Given(f)
  PROVE  WInv'
<1>1. Awake(e)'
  BY DEF Awake, Busy
<1>2. ASSUME NEW f \in Executor \ {e} PROVE Awake(f)'
  BY GivenAwake DEF WInv
<1>3. QED
  BY <1>1, <1>2 DEF WInv

(* Or when it has seen that there is nothing. *)
LEMMA NothingStep ==
  ASSUME WInv, Mailed', NEW e \in Executor, ~Items(e)', (pc[e] # "poll")',
         (state[e] = "POLL")' => usingEventfd'[e],
         \A f \in Executor \ {e} : Given(f)
  PROVE  WInv'
<1>1. Awake(e)'
  BY DEF Awake, Items
<1>2. ASSUME NEW f \in Executor \ {e} PROVE Awake(f)'
  BY GivenAwake DEF WInv
<1>3. QED
  BY <1>1, <1>2 DEF WInv

(* A step on its own lists and counters only. *)
LEMMA OwnStep ==
  ASSUME WInv, NEW e \in Executor, NEW p, Busy(p), Goto(e, p),
         UNCHANGED <<ready, mailbox, state, usingEventfd, eventfd>>,
         message' \in [Executor -> Mail \cup {NoMessage}]
  PROVE  WInv'
<1>1. /\ pc' \in [Executor -> Pc] /\ pc'[e] = p
      /\ \A f \in Executor \ {e} : pc'[f] = pc[f]
  BY DEF Goto, Busy, WInv, Mailed
<1>2. Mailed'
  BY <1>1 DEF WInv, Mailed
<1>3. \A f \in Executor \ {e} : Given(f)
  BY <1>1 DEF Given, Items
<1>4. (state[e] = "POLL")' => usingEventfd'[e]
  BY DEF WInv, Awake
<1>5. QED
  BY <1>1, <1>2, <1>3, <1>4, BusyStep

(* A message is sent to the next executor of the ring, which may be the    *)
(* sender.                                                                 *)
LEMMA SendStep ==
  ASSUME WInv, NEW e \in Executor, NEW m \in Mail, Send(e, m),
         NEW p, Busy(p), pc' = SentTo(e, p),
         usingEventfd' \in [Executor -> BOOLEAN], state' \in [Executor -> State],
         \A f \in Executor \ {e} : /\ usingEventfd'[f] <=> usingEventfd[f]
                                  /\ state'[f] = state[f],
         (state[e] = "POLL")' => usingEventfd'[e],
         ready' = ready, message' \in [Executor -> Mail \cup {NoMessage}]
  PROVE  WInv'
<1> PICK n : n = (e + 1) % N
  OBVIOUS
<1>1. n \in Executor
  BY ConstantsAssumption DEF Executor
<1>2. Mailed
  BY DEF WInv
<1> PICK a : a = Append(mailbox[n], m)
  OBVIOUS
<1>3. a \in Seq(Mail) /\ a # <<>>
  <2>1. mailbox[n] \in Seq(Mail)
    BY <1>1, <1>2 DEF Mailed
  <2>2. a \in Seq(Mail) /\ Len(a) = Len(mailbox[n]) + 1 /\ Len(mailbox[n]) \in Nat
    BY <2>1, AppendProperties, LenProperties
  <2>3. QED
    BY <2>2, EmptySeq
<1>4. /\ mailbox' = [mailbox EXCEPT ![n] = a]
      /\ eventfd' = [eventfd EXCEPT ![n] = @ \/ (mailbox[n] = <<>> /\ usingEventfd[n])]
      /\ pc' = [Signal(n, mailbox[n] = <<>>) EXCEPT ![e] = p]
  BY DEF Send, SentTo
<1>5. /\ mailbox'[n] = a /\ \A f \in Executor \ {n} : mailbox'[f] = mailbox[f]
      /\ mailbox' \in [Executor -> Seq(Mail)]
  BY <1>1, <1>2, <1>3, <1>4 DEF Mailed
<1>6. /\ eventfd' \in [Executor -> BOOLEAN]
      /\ eventfd'[n] <=> eventfd[n] \/ (mailbox[n] = <<>> /\ usingEventfd[n])
      /\ \A f \in Executor \ {n} : eventfd'[f] <=> eventfd[f]
  BY <1>1, <1>2, <1>4 DEF Mailed
<1>7. /\ pc' \in [Executor -> Pc] /\ pc'[e] = p
      /\ \A f \in Executor \ {e} :
           /\ pc'[f] = pc[f] \/ (pc[f] = "asleep" /\ pc'[f] = "fetch")
           /\ f = n /\ mailbox[n] = <<>> => pc'[f] # "asleep"
  <2>1. pc \in [Executor -> Pc] /\ p \in Pc
    BY <1>2 DEF Mailed, Busy
  <2>2. /\ pc' \in [Executor -> Pc] /\ pc'[e] = p
        /\ \A f \in Executor \ {e} :
             pc'[f] = pc[f] \/ (pc[f] = "asleep" /\ pc'[f] = "fetch")
    BY <1>4, <2>1, SignalShape
  <2>3. ASSUME n # e, mailbox[n] = <<>> PROVE pc'[n] # "asleep"
    BY <1>1, <1>4, <2>1, <2>3 DEF Signal
  <2>4. QED
    BY <2>2, <2>3
<1>10. Mailed'
  BY <1>5, <1>6, <1>7, Zenon DEF Mailed
<1>11. ASSUME NEW f \in Executor \ {e} PROVE Given(f)
  <2>1. /\ pc'[f] = pc[f] \/ (pc[f] = "asleep" /\ pc'[f] = "fetch")
        /\ state'[f] = state[f] /\ (usingEventfd'[f] <=> usingEventfd[f])
    BY <1>7
  <2>2. eventfd[f] => eventfd'[f]
    BY <1>6
  <2>3. Items(f)' => Items(f) \/ (pc'[f] # "asleep" /\ (usingEventfd[f] => eventfd'[f]))
    <3>1. CASE f # n
      BY <1>5, <3>1 DEF Items
    <3>2. CASE f = n /\ mailbox[n] # <<>>
      BY <3>2 DEF Items
    <3>3. CASE f = n /\ mailbox[n] = <<>>
      BY <1>6, <1>7, <3>3
    <3>4. QED
      BY <3>1, <3>2, <3>3
  <2>4. QED
    BY <2>1, <2>2, <2>3 DEF Given
<1>12. QED
  BY <1>7, <1>10, <1>11, BusyStep

-----------------------------------------------------------------------------
(* The steps that send. *)
LEMMA MsgMail == ASSUME NEW k \in MessageKind, NEW e \in Nat PROVE Msg(k, e) \in Mail
BY DEF Msg, Mail

LEMMA ExecutorNat == Executor \subseteq Nat
BY ConstantsAssumption DEF Executor

LEMMA BreakOffAwake == ASSUME WInv, NEW e \in Executor, BreakOff(e) PROVE WInv'
<1>1. Mailed
  BY DEF WInv
<1>2. Msg("RESET", e) \in Mail
  BY MsgMail, ExecutorNat DEF MessageKind
<1>3. Busy(AfterTask(e))
  BY AfterTaskPc DEF Busy, Pc
<1>4. /\ state' = [state EXCEPT ![e] = "NORMAL"]
      /\ usingEventfd' = [usingEventfd EXCEPT ![e] = @ /\ pc[e] # "polled"]
  BY DEF BreakOff, Enter
<1>5. state' \in [Executor -> State] /\ state'[e] = "NORMAL"
      /\ \A f \in Executor \ {e} : state'[f] = state[f]
  BY <1>1, <1>4 DEF Mailed, State
<1>6. usingEventfd' \in [Executor -> BOOLEAN]
      /\ \A f \in Executor \ {e} : usingEventfd'[f] <=> usingEventfd[f]
  BY <1>1, <1>4 DEF Mailed
<1>7. /\ Send(e, Msg("RESET", e)) /\ pc' = SentTo(e, AfterTask(e))
      /\ ready' = ready /\ message' \in [Executor -> Mail \cup {NoMessage}]
  BY <1>1 DEF BreakOff, localVars, Mailed
<1>8. QED
  BY <1>2, <1>3, <1>5, <1>6, <1>7, SendStep

LEMMA HandleMessageAwake == ASSUME WInv, NEW e \in Executor, HandleMessage(e) PROVE WInv'
<1> PICK m : m = message[e]
  OBVIOUS
<1>1. Mailed /\ m \in Mail \cup {NoMessage}
  BY DEF WInv, Mailed
<1>2. /\ ready' = ready /\ usingEventfd' = usingEventfd
      /\ message' \in [Executor -> Mail \cup {NoMessage}]
  BY <1>1 DEF HandleMessage, Mailed
<1>3. Busy("fetch") /\ Busy("returned") /\ Busy("aborted")
  BY DEF Busy, Pc
<1>4. usingEventfd' \in [Executor -> BOOLEAN]
      /\ \A f \in Executor \ {e} : usingEventfd'[f] <=> usingEventfd[f]
  BY <1>1, <1>2 DEF Mailed
<1>5. ASSUME NEW x \in Mail, Send(e, x), NEW p, Busy(p), pc' = SentTo(e, p),
             NEW s \in State \ {"POLL"}, state' = state \/ Enter(e, s)
      PROVE  WInv'
  <2>1. /\ state' \in [Executor -> State]
        /\ \A f \in Executor \ {e} : state'[f] = state[f]
        /\ (state[e] = "POLL")' => state[e] = "POLL"
    BY <1>1, <1>5 DEF Enter, Mailed
  <2>2. (state[e] = "POLL")' => usingEventfd'[e]
    BY <1>2, <2>1 DEF WInv, Awake
  <2>3. QED
    BY <1>2, <1>4, <1>5, <2>1, <2>2, SendStep
<1>6. m.kind \in MessageKind => m \in Mail
  BY <1>1 DEF NoMessage, MessageKind
<1>7. {"NORMAL", "SHOOT_DOWN", "DOUBLE_CHECK"} \subseteq State \ {"POLL"}
  BY DEF State
<1>8. \A k \in MessageKind : Msg(k, e) \in Mail /\ Msg(k, 0) \in Mail
  BY MsgMail, ExecutorNat
<1>9. MessageKind = {"START_SHOOT_DOWN", "START_WAITING1", "START_DOUBLE_CHECK",
                     "START_WAITING2", "TERMINATE", "RESET"}
  BY DEF MessageKind
<1>10. CASE OnStartShootDown(e, m)
  BY <1>3, <1>5, <1>6, <1>7, <1>9, <1>10 DEF OnStartShootDown, Move, Pass
<1>11. CASE OnStartWaiting1(e, m)
  <2>1. CASE m.id # e
    BY <1>3, <1>5, <1>6, <1>7, <1>9, <1>11, <2>1 DEF OnStartWaiting1, Pass
  <2>2. CASE m.id = e
    BY <1>3, <1>5, <1>7, <1>8, <1>9, <1>11, <2>2 DEF OnStartWaiting1, Move
  <2>3. QED
    BY <2>1, <2>2
<1>12. CASE OnStartDoubleCheck(e, m)
  BY <1>3, <1>5, <1>6, <1>7, <1>9, <1>12 DEF OnStartDoubleCheck, Move, Pass
<1>13. CASE OnStartWaiting2(e, m)
  <2>1. CASE m.id # e
    BY <1>3, <1>5, <1>6, <1>7, <1>9, <1>13, <2>1 DEF OnStartWaiting2, Pass
  <2>2. CASE m.id = e
    BY <1>3, <1>5, <1>7, <1>8, <1>9, <1>13, <2>2 DEF OnStartWaiting2
  <2>3. QED
    BY <2>1, <2>2
<1>14. CASE OnTerminate(e, m)
  BY <1>3, <1>5, <1>6, <1>7, <1>9, <1>14 DEF OnTerminate
<1>15. CASE OnReset(e, m)
  BY <1>3, <1>5, <1>6, <1>7, <1>9, <1>15 DEF OnReset, Move, Pass
<1>16. CASE Dropped(e, m)
  BY <1>2, <1>3, <1>16, OwnStep DEF Dropped
<1>17. QED
  BY <1>10, <1>11, <1>12, <1>13, <1>14, <1>15, <1>16 DEF HandleMessage

(* What the lists of tasks are, from the invariant of the locks. *)
LEMMA Lists ==
  ASSUME IInv
  PROVE  /\ ready \in [Executor -> Seq(Task)]
         /\ \A e \in Executor : pc[e] = "wake" => Owner[Head(handoff[e])] \in Executor
<1>1. PICK at \in [Task -> Places], on \in [Task -> Int] : Inv(at, on)
  BY DEF IInv
<1>2. /\ ready \in [Executor -> Seq(Task)] /\ handoff \in [Executor -> Seq(Task)]
      /\ \A e \in Executor : handoff[e] # <<>> <=> pc[e] = "wake"
  BY <1>1 DEF Inv, Typed, Placed, RunAt
<1>3. ASSUME NEW e \in Executor, pc[e] = "wake" PROVE Owner[Head(handoff[e])] \in Executor
  <2>1. handoff[e] \in Seq(Task) /\ handoff[e] # <<>>
    BY <1>2, <1>3
  <2>2. Head(handoff[e]) \in Task
    BY <2>1, HeadTailProperties
  <2>3. QED
    BY <2>2, Constants
<1>4. QED
  BY <1>2, <1>3

(* A task that is put on a ready list. *)
LEMMA WakeAwake == ASSUME WInv, IInv, NEW e \in Executor, Wake(e) PROVE WInv'
<1> PICK o : o = Owner[Head(handoff[e])]
  OBVIOUS
<1> PICK a : a = Append(ready[o], Head(handoff[e]))
  OBVIOUS
<1> PICK p : p = IF Len(handoff[e]) = 1 THEN AfterUnlock(e, pos[task[e]]) ELSE "wake"
  OBVIOUS
<1>1. Mailed /\ pc[e] = "wake"
  BY DEF WInv, Wake
<1>2. o \in Executor /\ ready \in [Executor -> Seq(Task)]
  BY <1>1, Lists
<1>3. Busy(p)
  BY AfterTaskPc DEF AfterUnlock, Busy, Pc
<1>4. /\ ready' = [ready EXCEPT ![o] = a]
      /\ eventfd' = [eventfd EXCEPT ![o] = @ \/ (ready[o] = <<>> /\ usingEventfd[o])]
      /\ pc' = [Signal(o, ready[o] = <<>>) EXCEPT ![e] = p]
      /\ UNCHANGED <<mailbox, usingEventfd, state, message>>
  BY DEF Wake
<1>5. \A f \in Executor \ {o} : ready'[f] = ready[f]
  BY <1>2, <1>4
<1>6. /\ eventfd' \in [Executor -> BOOLEAN]
      /\ eventfd'[o] <=> eventfd[o] \/ (ready[o] = <<>> /\ usingEventfd[o])
      /\ \A f \in Executor \ {o} : eventfd'[f] <=> eventfd[f]
  BY <1>1, <1>2, <1>4 DEF Mailed
<1>7. /\ pc' \in [Executor -> Pc] /\ pc'[e] = p
      /\ \A f \in Executor \ {e} :
           /\ pc'[f] = pc[f] \/ (pc[f] = "asleep" /\ pc'[f] = "fetch")
           /\ f = o /\ ready[o] = <<>> => pc'[f] # "asleep"
  <2>1. pc \in [Executor -> Pc] /\ p \in Pc
    BY <1>1, <1>3 DEF Mailed, Busy
  <2>2. /\ pc' \in [Executor -> Pc] /\ pc'[e] = p
        /\ \A f \in Executor \ {e} :
             pc'[f] = pc[f] \/ (pc[f] = "asleep" /\ pc'[f] = "fetch")
    BY <1>4, <2>1 DEF Signal, Pc
  <2>3. ASSUME o # e, ready[o] = <<>> PROVE pc'[o] # "asleep"
    BY <1>2, <1>4, <2>1, <2>3 DEF Signal
  <2>4. QED
    BY <2>2, <2>3
<1>8. Mailed'
  BY <1>1, <1>4, <1>6, <1>7 DEF Mailed
<1>9. ASSUME NEW f \in Executor \ {e} PROVE Given(f)
  <2>1. /\ pc'[f] = pc[f] \/ (pc[f] = "asleep" /\ pc'[f] = "fetch")
        /\ state'[f] = state[f] /\ (usingEventfd'[f] <=> usingEventfd[f])
    BY <1>4, <1>7
  <2>2. eventfd[f] => eventfd'[f]
    BY <1>6
  <2>3. Items(f)' => Items(f) \/ (pc'[f] # "asleep" /\ (usingEventfd[f] => eventfd'[f]))
    <3>1. CASE f # o
      BY <1>4, <1>5, <3>1 DEF Items
    <3>2. CASE f = o /\ ready[o] # <<>>
      BY <3>2 DEF Items
    <3>3. CASE f = o /\ ready[o] = <<>>
      BY <1>6, <1>7, <3>3
    <3>4. QED
      BY <3>1, <3>2, <3>3
  <2>4. QED
    BY <2>1, <2>2, <2>3 DEF Given
<1>10. (state[e] = "POLL")' => usingEventfd'[e]
  BY <1>4 DEF WInv, Awake
<1>11. QED
  BY <1>3, <1>7, <1>8, <1>9, <1>10, BusyStep

(* get_ready_task_and_message finds nothing, or there is something to do.  *)
LEMMA FetchAwake == ASSUME WInv, IInv, NEW e \in Executor, Fetch(e) PROVE WInv'
<1> PICK t : t = IF ready[e] = <<>> THEN NoTask ELSE Head(ready[e])
  OBVIOUS
<1> PICK m : m = IF mailbox[e] = <<>> THEN NoMessage ELSE Head(mailbox[e])
  OBVIOUS
<1>1. Mailed /\ ready \in [Executor -> Seq(Task)]
  BY Lists DEF WInv
<1>2. ready[e] # <<>> => t # NoTask
  <2>1. ready[e] # <<>> => Head(ready[e]) \in Task
    BY <1>1, HeadTailProperties
  <2>2. QED
    BY <2>1, Constants
<1>3. /\ m \in Mail \cup {NoMessage}
      /\ mailbox[e] # <<>> => m # NoMessage /\ Tail(mailbox[e]) \in Seq(Mail)
  <2>1. mailbox[e] \in Seq(Mail)
    BY <1>1 DEF Mailed
  <2>2. mailbox[e] # <<>> => Head(mailbox[e]) \in Mail /\ Tail(mailbox[e]) \in Seq(Mail)
    BY <2>1, HeadTailProperties
  <2>3. NoMessage \notin Mail
    BY DEF NoMessage, Mail, MessageKind
  <2>4. QED
    BY <2>2, <2>3
<1>4. /\ message' = [message EXCEPT ![e] = m]
      /\ ready' = [ready EXCEPT ![e] = IF t = NoTask THEN @ ELSE Tail(@)]
      /\ mailbox' = [mailbox EXCEPT ![e] = IF m = NoMessage THEN @ ELSE Tail(@)]
      /\ eventfd' = [eventfd EXCEPT ![e] = @ /\ ~usingEventfd[e]]
      /\ pc' = [pc EXCEPT ![e] = Fetched(e, t, m)]
      /\ UNCHANGED <<usingEventfd, state>>
  BY DEF Fetch, Goto
<1>5. /\ pc' \in [Executor -> Pc] /\ pc'[e] = Fetched(e, t, m)
      /\ \A f \in Executor \ {e} : pc'[f] = pc[f]
  BY <1>1, <1>4 DEF Mailed, Fetched, Pc
<1>6. /\ \A f \in Executor \ {e} : ready'[f] = ready[f] /\ mailbox'[f] = mailbox[f]
      /\ \A f \in Executor \ {e} : eventfd'[f] <=> eventfd[f]
      /\ eventfd' \in [Executor -> BOOLEAN]
  BY <1>1, <1>4 DEF Mailed
<1>7. /\ mailbox' \in [Executor -> Seq(Mail)]
      /\ message' \in [Executor -> Mail \cup {NoMessage}]
  BY <1>1, <1>3, <1>4 DEF Mailed
<1>8. Mailed'
  BY <1>1, <1>4, <1>5, <1>6, <1>7 DEF Mailed
<1>9. \A f \in Executor \ {e} : Given(f)
  BY <1>4, <1>5, <1>6 DEF Given, Items
<1>10. (state[e] = "POLL")' => usingEventfd'[e]
  BY <1>4 DEF WInv, Awake
<1>11. CASE t = NoTask /\ m = NoMessage
  <2>1. ready[e] = <<>> /\ mailbox[e] = <<>>
    BY <1>2, <1>3, <1>11
  <2>2. ready'[e] = <<>> /\ mailbox'[e] = <<>>
    BY <1>1, <1>4, <1>11, <2>1 DEF Mailed
  <2>3. ~Items(e)'
    BY <2>2 DEF Items
  <2>4. (pc[e] # "poll")'
    BY <1>5 DEF Fetched
  <2>5. QED
    BY <1>8, <1>9, <1>10, <2>3, <2>4, NothingStep
<1>12. CASE t # NoTask \/ m # NoMessage
  <2>1. Busy(pc'[e])
    BY <1>5, <1>12 DEF Fetched, Busy, Pc
  <2>2. QED
    BY <1>8, <1>9, <1>10, <2>1, BusyStep
<1>13. QED
  BY <1>11, <1>12

(* The decision to wait: it is taken when nothing was found, and checked   *)
(* again under the mutex, or covered by the eventfd.                       *)
LEMMA SleepAwake ==
  ASSUME WInv, NEW e \in Executor, SleepIn(e),
         UNCHANGED <<ready, mailbox, state, usingEventfd, eventfd, message>>
  PROVE  WInv'
<1>1. Mailed
  BY DEF WInv
<1>2. CASE Items(e)
  <2>1. Goto(e, "fetch") /\ Busy("fetch")
    BY <1>2 DEF SleepIn, Items, Busy, Pc
  <2>2. message' \in [Executor -> Mail \cup {NoMessage}]
    BY <1>1 DEF Mailed
  <2>3. QED
    BY <2>1, <2>2, OwnStep
<1>3. CASE ~Items(e)
  <2>1. Goto(e, "asleep")
    BY <1>3 DEF SleepIn, Items
  <2>2. /\ pc' \in [Executor -> Pc] /\ pc'[e] = "asleep"
        /\ \A f \in Executor \ {e} : pc'[f] = pc[f]
    BY <1>1, <2>1 DEF Goto, Mailed, Pc
  <2>3. Mailed'
    BY <1>1, <2>2 DEF Mailed
  <2>4. ~Items(e)'
    BY <1>3 DEF Items
  <2>5. \A f \in Executor \ {e} : Given(f)
    BY <2>2 DEF Given, Items
  <2>6. (state[e] = "POLL")' => usingEventfd'[e]
    BY DEF WInv, Awake
  <2>7. QED
    BY <2>2, <2>3, <2>4, <2>5, <2>6, NothingStep
<1>4. QED
  BY <1>2, <1>3

LEMMA DecideAwake == ASSUME WInv, NEW e \in Executor, Decide(e) PROVE WInv'
<1>1. Mailed /\ pc[e] = "decide"
  BY DEF WInv, Decide
<1>2. ready' = ready /\ message' = message /\ message' \in [Executor -> Mail \cup {NoMessage}]
  BY <1>1 DEF Decide, localVars, Mailed
<1>3. Busy("fetch")
  BY DEF Busy, Pc
<1>4. ASSUME NEW k \in MessageKind, Send(e, Msg(k, e)), pc' = SentTo(e, "fetch"),
             NEW s \in State \ {"POLL"}, Enter(e, s), UNCHANGED usingEventfd
      PROVE  WInv'
  <2>1. /\ state' \in [Executor -> State] /\ state'[e] # "POLL"
        /\ \A f \in Executor \ {e} : state'[f] = state[f]
    BY <1>1, <1>4 DEF Enter, Mailed
  <2>2. usingEventfd' \in [Executor -> BOOLEAN]
        /\ \A f \in Executor \ {e} : usingEventfd'[f] <=> usingEventfd[f]
    BY <1>1, <1>4 DEF Mailed
  <2>3. Msg(k, e) \in Mail
    BY MsgMail, ExecutorNat
  <2>4. QED
    BY <1>2, <1>3, <1>4, <2>1, <2>2, <2>3, SendStep
<1>5. {"SHOOT_DOWN", "WAIT1", "WAIT2"} \subseteq State \ {"POLL"}
      /\ {"START_SHOOT_DOWN", "START_WAITING1", "START_WAITING2"} \subseteq MessageKind
  BY DEF State, MessageKind
<1>6. CASE DecideShootDown(e)
  BY <1>4, <1>5, <1>6 DEF DecideShootDown, Move
<1>7. CASE DecideWait(e, "SHOOT_DOWN", "WAIT1", "START_WAITING1")
  BY <1>4, <1>5, <1>7 DEF DecideWait
<1>8. CASE DecideWait(e, "DOUBLE_CHECK", "WAIT2", "START_WAITING2")
  BY <1>4, <1>5, <1>8 DEF DecideWait
<1>9. CASE DecidePoll(e)
  <2>1. /\ state' = [state EXCEPT ![e] = "POLL"]
        /\ usingEventfd' = [usingEventfd EXCEPT ![e] = TRUE]
        /\ pc' = [pc EXCEPT ![e] = "fetch"]
        /\ UNCHANGED <<mailbox, eventfd>>
    BY <1>9 DEF DecidePoll, Enter, Goto
  <2>2. /\ state' \in [Executor -> State]
        /\ \A f \in Executor \ {e} : state'[f] = state[f]
    BY <1>1, <2>1 DEF Mailed, State
  <2>3. /\ usingEventfd' \in [Executor -> BOOLEAN] /\ usingEventfd'[e]
        /\ \A f \in Executor \ {e} : usingEventfd'[f] <=> usingEventfd[f]
    BY <1>1, <2>1 DEF Mailed
  <2>4. /\ pc' \in [Executor -> Pc] /\ pc'[e] = "fetch"
        /\ \A f \in Executor \ {e} : pc'[f] = pc[f]
    BY <1>1, <2>1 DEF Mailed, Pc
  <2>5. Mailed'
    BY <1>1, <1>2, <2>1, <2>2, <2>3, <2>4 DEF Mailed
  <2>6. \A f \in Executor \ {e} : Given(f)
    BY <1>2, <2>1, <2>2, <2>3, <2>4 DEF Given, Items
  <2>7. QED
    BY <1>3, <2>3, <2>4, <2>5, <2>6, BusyStep
<1>10. CASE DecideBlock(e)
  <2>1. UNCHANGED <<state, mailbox, eventfd, usingEventfd>>
    BY <1>10 DEF DecideBlock
  <2>2. CASE SleepIn(e)
    BY <1>2, <2>1, <2>2, SleepAwake
  <2>3. CASE state[e] = "POLL" /\ Goto(e, "poll")
    <3>1. /\ pc' \in [Executor -> Pc] /\ pc'[e] = "poll"
          /\ \A f \in Executor \ {e} : pc'[f] = pc[f]
      BY <1>1, <2>3 DEF Goto, Mailed, Pc
    <3>2. Mailed'
      BY <1>1, <1>2, <2>1, <3>1 DEF Mailed
    <3>3. Items(e)' <=> Items(e)
      BY <1>2, <2>1 DEF Items
    <3>4. Awake(e)'
      BY <1>1, <2>1, <2>3, <3>1, <3>3 DEF WInv, Awake, Items
    <3>5. ASSUME NEW f \in Executor \ {e} PROVE Awake(f)'
      <4>1. Given(f)
        BY <1>2, <2>1, <3>1 DEF Given, Items
      <4>2. QED
        BY <4>1, GivenAwake DEF WInv
    <3>6. QED
      BY <3>2, <3>4, <3>5 DEF WInv
  <2>4. QED
    BY <1>10, <2>2, <2>3 DEF DecideBlock
<1>11. QED
  BY <1>6, <1>7, <1>8, <1>9, <1>10 DEF Decide

(* The steps that touch only what belongs to the executor. *)
LEMMA OwnAwake ==
  ASSUME WInv, NEW e \in Executor,
         LockNext(e) \/ Run(e) \/ UnlockNext(e) \/ StartIdle(e) \/ Poll(e)
  PROVE  WInv'
<1>1. message' = message /\ message \in [Executor -> Mail \cup {NoMessage}]
  BY DEF WInv, Mailed, LockNext, Run, UnlockNext, StartIdle, Poll, localVars
<1>2. UNCHANGED <<ready, mailbox, state, usingEventfd, eventfd>>
  BY DEF LockNext, Run, UnlockNext, StartIdle, Poll, fdVars
<1>3. (\E p : Busy(p) /\ Goto(e, p)) \/ SleepIn(e)
  <2>1. \A p \in {"run", "lock", "unlock", "wake", "fetch", "message", "break", "aborted",
                  "polled"} : Busy(p)
    BY DEF Busy, Pc
  <2>2. CASE LockNext(e)
    <3>1. \E p \in {"run", "lock", "fetch", "message"} : Goto(e, p)
      BY <2>2, AfterTaskPc DEF LockNext
    <3>2. QED
      BY <2>1, <3>1
  <2>3. CASE Run(e)
    BY <2>1, <2>3 DEF Run
  <2>4. CASE UnlockNext(e)
    <3>1. \E p \in {"wake", "unlock", "break", "fetch", "message"} : Goto(e, p)
      BY <2>4, AfterTaskPc DEF UnlockNext, AfterUnlock
    <3>2. QED
      BY <2>1, <3>1
  <2>5. CASE StartIdle(e)
    <3>1. (\E p \in {"lock", "aborted"} : Goto(e, p)) \/ SleepIn(e)
      BY <2>5 DEF StartIdle
    <3>2. QED
      BY <2>1, <3>1
  <2>6. CASE Poll(e)
    <3>1. \E p \in {"polled", "fetch"} : Goto(e, p)
      BY <2>6 DEF Poll
    <3>2. QED
      BY <2>1, <3>1
  <2>7. QED
    BY <2>2, <2>3, <2>4, <2>5, <2>6
<1>4. CASE SleepIn(e)
  BY <1>1, <1>2, <1>4, SleepAwake
<1>5. ASSUME NEW p, Busy(p), Goto(e, p) PROVE WInv'
  BY <1>1, <1>2, <1>5, OwnStep
<1>6. QED
  BY <1>3, <1>4, <1>5

-----------------------------------------------------------------------------
(* Every step keeps it. *)
LEMMA NextWInv == WInv /\ IInv /\ [Next]_<<vars, program>> => WInv'
<1> SUFFICES ASSUME WInv, IInv, [Next]_<<vars, program>> PROVE WInv'
  OBVIOUS
<1>1. ASSUME NEW e \in Executor, Step(e) PROVE WInv'
  BY <1>1, FetchAwake, OwnAwake, WakeAwake, BreakOffAwake, HandleMessageAwake, DecideAwake
     DEF Step
<1>2. ASSUME UNCHANGED <<pc, state, usingEventfd, eventfd, mailbox, message, ready>> PROVE WInv'
  <2>1. Mailed'
    BY <1>2 DEF WInv, Mailed
  <2>2. \A e \in Executor : Awake(e)'
    BY <1>2 DEF WInv, Awake, Items
  <2>3. QED
    BY <2>1, <2>2 DEF WInv
<1>3. ASSUME NEW t \in FdTask, FdReady(t) PROVE WInv'
  BY <1>2, <1>3 DEF FdReady, fdVars, localVars
<1>4. CASE UNCHANGED <<vars, program>>
  BY <1>2, <1>4 DEF vars
<1>5. QED
  BY <1>1, <1>3, <1>4 DEF Next

LEMMA AlwaysAwake == Spec => []WInv
<1>1. Spec => []IInv
  BY LocksAccounted
<1>2. QED
  BY <1>1, InitWInv, NextWInv, PTL DEF Spec

LEMMA AwakeMeans == WInv => NoLostWakeup
BY DEF WInv, Awake, Items, NoLostWakeup

(* to_ready_list, send_to_next, sleep and poll: an executor that waits has *)
(* nothing on its lists, or its eventfd is set.                            *)
THEOREM WokenUp == Spec => []NoLostWakeup
BY AlwaysAwake, AwakeMeans, PTL

-----------------------------------------------------------------------------
(***************************************************************************)
(* points of an executor against the generation and the last execution     *)
(* kind of its tasks: the counter and the classification are kept apart    *)
(* and updated at different times, the kinds when a task runs, the counter *)
(* when it has given back its locks.                                       *)
(***************************************************************************)
(* Where a result has not been added to points yet. *)
Pending == {"unlock", "wake", "break"}

Skipped(e) == {t \in Mine(e) : current[t] /\ kind[t] = "SKIP"}

Scored ==
  /\ points \in [Executor -> Int]
  /\ kind \in [Task -> {"HIT", "SKIP"}] /\ current \in [Task -> BOOLEAN]
  /\ result \in [Executor -> Result]

Counted(e) ==
  state[e] \in Counting =>
    /\ pc[e] \notin Pending => points[e] = Cardinality(Skipped(e))
    /\ pc[e] \in {"unlock", "wake"} /\ ~Breaks(e) =>
         points[e] + Score(result[e]) = Cardinality(Skipped(e))

PInv == Scored /\ \A e \in Executor : Counted(e)

-----------------------------------------------------------------------------
LEMMA ScoreInt == \A r : Score(r) \in Int
BY DEF Score

(* In the beginning nothing has been skipped. *)
LEMMA InitPInv == Init => PInv
<1> SUFFICES ASSUME Init PROVE PInv
  OBVIOUS
<1>1. Scored
  BY DEF Init, Scored, Result
<1>2. ASSUME NEW e \in Executor PROVE Counted(e)
  <2>1. Skipped(e) = {}
    BY DEF Init, Skipped, Mine
  <2>2. points[e] = 0 /\ pc[e] = "fetch"
    BY DEF Init
  <2>3. QED
    BY <2>1, <2>2, FS_EmptySet DEF Counted, Pending
<1>3. QED
  BY <1>1, <1>2 DEF PInv

(* An executor whose counter, state and tasks a step leaves alone.         *)
Uncounted(f) ==
  /\ points'[f] = points[f] /\ state'[f] = state[f] /\ result'[f] = result[f]
  /\ Skipped(f)' = Skipped(f)
  /\ \/ pc'[f] = pc[f]
     \/ pc[f] \notin Pending /\ pc'[f] \notin Pending
     \/ pc[f] \in {"unlock", "wake"} /\ pc'[f] \in {"unlock", "wake"}

LEMMA UncountedStill ==
  ASSUME NEW f \in Executor, Counted(f), Uncounted(f)
  PROVE  Counted(f)'
BY DEF Counted, Uncounted, Breaks, Pending

(* A new generation. *)
LEMMA FreshCounted ==
  ASSUME NEW e \in Executor, PInv, NewGeneration(e), UNCHANGED <<kind, result>>
  PROVE  /\ Scored' /\ points'[e] = 0 /\ Skipped(e)' = {}
         /\ \A f \in Executor \ {e} : points'[f] = points[f] /\ Skipped(f)' = Skipped(f)
<1>1. Scored
  BY DEF PInv
<1>2. /\ current' = [t \in Task |-> current[t] /\ Owner[t] # e]
      /\ points' = [points EXCEPT ![e] = 0]
  BY DEF NewGeneration
<1>3. points' \in [Executor -> Int] /\ points'[e] = 0
      /\ \A f \in Executor \ {e} : points'[f] = points[f]
  BY <1>1, <1>2 DEF Scored
<1>4. current' \in [Task -> BOOLEAN]
  BY <1>2, Zenon
<1>5. \A t \in Task : current'[t] <=> current[t] /\ Owner[t] # e
  BY <1>2, Zenon
<1>6. Scored'
  BY <1>1, <1>3, <1>4 DEF Scored
<1>7. Skipped(e)' = {}
  BY <1>5 DEF Skipped, Mine
<1>8. \A f \in Executor \ {e} : Skipped(f)' = Skipped(f)
  BY <1>5 DEF Skipped, Mine
<1>9. QED
  BY <1>3, <1>6, <1>7, <1>8

(* The step of e leaves the others alone. *)
LEMMA OthersStill ==
  ASSUME PInv, Scored', NEW e \in Executor, Counted(e)',
         \A f \in Executor \ {e} : Uncounted(f)
  PROVE  PInv'
BY UncountedStill DEF PInv

(* A step that leaves all counters alone. *)
LEMMA AllStill ==
  ASSUME PInv, UNCHANGED <<points, state, result, kind, current>>,
         \A f \in Executor : \/ pc'[f] = pc[f]
                             \/ pc[f] \notin Pending /\ pc'[f] \notin Pending
                             \/ pc[f] \in {"unlock", "wake"} /\ pc'[f] \in {"unlock", "wake"}
  PROVE  PInv'
<1>1. ASSUME NEW f \in Executor PROVE Counted(f)'
  <2>1. Uncounted(f)
    BY DEF Uncounted, Skipped
  <2>2. QED
    BY <2>1, UncountedStill DEF PInv
<1>2. Scored'
  BY DEF PInv, Scored
<1>3. QED
  BY <1>1, <1>2 DEF PInv

(* Where the step of e leads, if it may send a message. *)
LEMMA PcShape ==
  ASSUME Mailed, NEW e \in Executor, NEW p \in Pc, Goto(e, p) \/ pc' = SentTo(e, p)
  PROVE  /\ pc' \in [Executor -> Pc] /\ pc'[e] = p
         /\ \A f \in Executor \ {e} :
              pc'[f] = pc[f] \/ (pc[f] \notin Pending /\ pc'[f] \notin Pending)
<1>1. pc \in [Executor -> Pc]
  BY DEF Mailed
<1>2. CASE Goto(e, p)
  BY <1>1, <1>2 DEF Goto
<1>3. CASE pc' = SentTo(e, p)
  BY <1>1, <1>3, SignalShape DEF SentTo, Pending
<1>4. QED
  BY <1>2, <1>3

(* Into a new generation. *)
LEMMA MoveStep ==
  ASSUME PInv, Mailed, NEW e \in Executor, NewGeneration(e), NEW s, Enter(e, s),
         UNCHANGED <<kind, result>>, NEW p \in Pc \ Pending, Goto(e, p) \/ pc' = SentTo(e, p)
  PROVE  PInv'
<1>1. /\ pc'[e] = p
      /\ \A f \in Executor \ {e} :
           pc'[f] = pc[f] \/ (pc[f] \notin Pending /\ pc'[f] \notin Pending)
  BY PcShape
<1>2. /\ Scored' /\ points'[e] = 0 /\ Skipped(e)' = {}
      /\ \A f \in Executor \ {e} : points'[f] = points[f] /\ Skipped(f)' = Skipped(f)
  BY FreshCounted
<1>3. \A f \in Executor \ {e} : state'[f] = state[f] /\ result'[f] = result[f]
  BY DEF Enter, Mailed
<1>4. Counted(e)'
  BY <1>1, <1>2, FS_EmptySet DEF Counted, Pending
<1>5. \A f \in Executor \ {e} : Uncounted(f)
  BY <1>1, <1>2, <1>3 DEF Uncounted
<1>6. QED
  BY <1>2, <1>4, <1>5, OthersStill

(* Into a state in which nothing is counted. *)
LEMMA EnterStep ==
  ASSUME PInv, Mailed, NEW e \in Executor, NEW s \in State \ Counting, Enter(e, s),
         UNCHANGED <<points, current, kind, result>>,
         NEW p \in Pc \ Pending, Goto(e, p) \/ pc' = SentTo(e, p)
  PROVE  PInv'
<1>1. /\ pc'[e] = p
      /\ \A f \in Executor \ {e} :
           pc'[f] = pc[f] \/ (pc[f] \notin Pending /\ pc'[f] \notin Pending)
  BY PcShape
<1>2. state'[e] = s /\ \A f \in Executor \ {e} : state'[f] = state[f]
  BY DEF Enter, Mailed
<1>3. Scored'
  BY DEF PInv, Scored
<1>4. Counted(e)'
  BY <1>2 DEF Counted
<1>5. \A f \in Executor \ {e} : Uncounted(f)
  BY <1>1, <1>2 DEF Uncounted, Skipped
<1>6. QED
  BY <1>3, <1>4, <1>5, OthersStill

(* In the same state. *)
LEMMA StayStep ==
  ASSUME PInv, Mailed, NEW e \in Executor, pc[e] \notin Pending,
         UNCHANGED <<state, points, current, kind, result>>,
         NEW p \in Pc \ Pending, Goto(e, p) \/ pc' = SentTo(e, p)
  PROVE  PInv'
<1>1. /\ pc'[e] = p
      /\ \A f \in Executor \ {e} :
           pc'[f] = pc[f] \/ (pc[f] \notin Pending /\ pc'[f] \notin Pending)
  BY PcShape
<1>2. \A f \in Executor : \/ pc'[f] = pc[f]
                          \/ pc[f] \notin Pending /\ pc'[f] \notin Pending
                          \/ pc[f] \in {"unlock", "wake"} /\ pc'[f] \in {"unlock", "wake"}
  BY <1>1
<1>3. QED
  BY <1>2, AllStill

-----------------------------------------------------------------------------
(* A task runs: its kind changes at once, points only when it is unlocked. *)
LEMMA RunCounted ==
  ASSUME PInv, Mailed, IInv, NEW e \in Executor, Run(e)
  PROVE  PInv'
<1> PICK t : t = task[e]
  OBVIOUS
<1>1. t \in Task /\ Owner[t] = e
  <2>1. PICK at \in [Task -> Places], on \in [Task -> Int] : Inv(at, on)
    BY DEF IInv
  <2>2. pc[e] \in Working
    BY DEF Run, Working
  <2>3. QED
    BY <2>1, <2>2, AtWork
<1> PICK hit \in BOOLEAN : hit <=> t \in enabled
  OBVIOUS
<1>2. /\ pc[e] = "run" /\ pc' = [pc EXCEPT ![e] = "unlock"]
      /\ current' = [current EXCEPT ![t] = TRUE]
      /\ kind' = [kind EXCEPT ![t] = IF hit THEN "HIT" ELSE "SKIP"]
      /\ result' = [result EXCEPT ![e] = Outcome(hit, Before(t))]
      /\ UNCHANGED <<state, points>>
  BY DEF Run, Goto
<1>3. /\ Scored /\ pc \in [Executor -> Pc]
      /\ Counted(e)
  BY DEF PInv, Mailed
<1>4. pc'[e] = "unlock" /\ \A f \in Executor \ {e} : pc'[f] = pc[f]
  BY <1>2, <1>3
<1>5. /\ kind' \in [Task -> {"HIT", "SKIP"}] /\ kind'[t] = (IF hit THEN "HIT" ELSE "SKIP")
      /\ \A u \in Task \ {t} : kind'[u] = kind[u]
  BY <1>1, <1>2, <1>3 DEF Scored
<1>6. /\ current' \in [Task -> BOOLEAN] /\ current'[t]
      /\ \A u \in Task \ {t} : current'[u] <=> current[u]
  BY <1>1, <1>2, <1>3 DEF Scored
<1>7. Outcome(hit, Before(t)) \in Result
  BY DEF Outcome, Result
<1>8. /\ result' \in [Executor -> Result] /\ result'[e] = Outcome(hit, Before(t))
      /\ \A f \in Executor \ {e} : result'[f] = result[f]
  BY <1>2, <1>3, <1>7 DEF Scored
<1>9. Scored'
  BY <1>2, <1>3, <1>5, <1>6, <1>8 DEF Scored
<1>10. ASSUME NEW f \in Executor \ {e} PROVE Uncounted(f)
  <2>1. Skipped(f)' = Skipped(f)
    BY <1>1, <1>5, <1>6 DEF Skipped, Mine
  <2>2. QED
    BY <1>2, <1>4, <1>8, <2>1 DEF Uncounted
<1> PICK S : S = Skipped(e)
  OBVIOUS
<1>11. /\ IsFiniteSet(S) /\ Cardinality(S) \in Nat
       /\ Cardinality(S \cup {t}) = IF t \in S THEN Cardinality(S) ELSE Cardinality(S) + 1
       /\ Cardinality(S \ {t}) = IF t \in S THEN Cardinality(S) - 1 ELSE Cardinality(S)
  <2>1. S \subseteq Task
    BY DEF Skipped, Mine
  <2>2. IsFiniteSet(S)
    BY <2>1, Constants, FS_Subset
  <2>3. QED
    BY <2>2, FS_AddElement, FS_RemoveElement, FS_CardinalityType
<1>12. Skipped(e)' = IF hit THEN S \ {t} ELSE S \cup {t}
  <2>1. CASE hit
    BY <1>1, <1>5, <1>6, <2>1 DEF Skipped, Mine
  <2>2. CASE ~hit
    BY <1>1, <1>5, <1>6, <2>2 DEF Skipped, Mine
  <2>3. QED
    BY <2>1, <2>2
<1>13. Before(t) = IF t \in S THEN "SKIP" ELSE "HIT"
  <2>1. t \in S <=> current[t] /\ kind[t] = "SKIP"
    BY <1>1 DEF Skipped, Mine
  <2>2. kind[t] \in {"HIT", "SKIP"}
    BY <1>1, <1>3 DEF Scored
  <2>3. CASE current[t]
    BY <2>1, <2>2, <2>3 DEF Before
  <2>4. CASE ~current[t]
    BY <2>1, <2>4 DEF Before
  <2>5. QED
    BY <2>3, <2>4
<1>14. Score(result'[e]) = IF hit THEN (IF t \in S THEN -1 ELSE 0)
                                  ELSE (IF t \in S THEN 0 ELSE 1)
  <2>1. CASE hit
    BY <1>8, <1>13, <2>1 DEF Score, Outcome
  <2>2. CASE ~hit
    BY <1>8, <1>13, <2>2 DEF Score, Outcome
  <2>3. QED
    BY <2>1, <2>2
<1>15. Counted(e)'
  <2>1. SUFFICES ASSUME state[e] \in Counting
                 PROVE  points[e] + Score(result'[e]) = Cardinality(Skipped(e)')
    BY <1>2, <1>4 DEF Counted, Pending
  <2>2. points[e] = Cardinality(S)
    BY <1>2, <1>3, <2>1 DEF Counted, Pending
  <2>3. CASE hit
    BY <1>11, <1>12, <1>14, <2>2, <2>3
  <2>4. CASE ~hit
    BY <1>11, <1>12, <1>14, <2>2, <2>4
  <2>5. QED
    BY <2>3, <2>4
<1>16. QED
  BY <1>9, <1>10, <1>15, OthersStill

(* Where run_i goes after the last unlock. *)
LEMMA AfterUnlockPc ==
  ASSUME NEW e, NEW p
  PROVE  /\ AfterUnlock(e, p) \in Pc
         /\ p # {} => AfterUnlock(e, p) = "unlock"
         /\ p = {} /\ Breaks(e) => AfterUnlock(e, p) = "break"
         /\ p = {} /\ ~Breaks(e) => AfterUnlock(e, p) \in Pc \ Pending
BY AfterTaskPc DEF AfterUnlock, Pc, Pending

(* The last unlock: the result is counted, unless it breaks off. *)
LEMMA FinishStep ==
  ASSUME PInv, Mailed, NEW e \in Executor, pc[e] \in {"unlock", "wake"},
         NEW p, Proceed(e, p), UNCHANGED <<state, kind, current>>,
         pc' \in [Executor -> Pc], pc'[e] = AfterUnlock(e, p),
         \A f \in Executor \ {e} :
           pc'[f] = pc[f] \/ (pc[f] \notin Pending /\ pc'[f] \notin Pending)
  PROVE  PInv'
<1>1. /\ Scored /\ Counted(e)
  BY DEF PInv
<1>2. CASE p # {}
  <2>1. UNCHANGED <<points, result>>
    BY <1>2 DEF Proceed
  <2>2. \A f \in Executor : \/ pc'[f] = pc[f]
                            \/ pc[f] \notin Pending /\ pc'[f] \notin Pending
                            \/ pc[f] \in {"unlock", "wake"} /\ pc'[f] \in {"unlock", "wake"}
    BY <1>2, AfterUnlockPc
  <2>3. QED
    BY <2>1, <2>2, AllStill
<1>3. CASE p = {}
  <2> PICK n \in Int : n = points[e] + Score(result[e])
    BY <1>1, ScoreInt DEF Scored
  <2>1. /\ result' = [result EXCEPT ![e] = "NONE"]
        /\ points' = [points EXCEPT ![e] =
                        IF state[e] \in Counting /\ ~Breaks(e) THEN n ELSE points[e]]
    BY <1>3 DEF Proceed
  <2>2. /\ points' \in [Executor -> Int]
        /\ state[e] \in Counting /\ ~Breaks(e) => points'[e] = n
        /\ \A f \in Executor \ {e} : points'[f] = points[f]
    BY <1>1, <2>1 DEF Scored
  <2>3. /\ result' \in [Executor -> Result] /\ result'[e] = "NONE"
        /\ \A f \in Executor \ {e} : result'[f] = result[f]
    BY <1>1, <2>1 DEF Scored, Result
  <2>4. Scored'
    BY <1>1, <2>2, <2>3 DEF Scored
  <2>5. \A f \in Executor \ {e} : Uncounted(f)
    BY <2>2, <2>3 DEF Uncounted, Skipped
  <2>6. CASE Breaks(e)
    <3>1. pc'[e] = "break"
      BY <1>3, <2>6, AfterUnlockPc
    <3>2. Counted(e)'
      BY <3>1 DEF Counted, Pending
    <3>3. QED
      BY <2>4, <2>5, <3>2, OthersStill
  <2>7. CASE ~Breaks(e)
    <3>1. pc'[e] \notin Pending
      BY <1>3, <2>7, AfterUnlockPc
    <3>2. Skipped(e)' = Skipped(e)
      BY DEF Skipped
    <3>3. Counted(e)'
      BY <1>1, <2>2, <2>7, <3>1, <3>2 DEF Counted, Pending
    <3>4. QED
      BY <2>4, <2>5, <3>3, OthersStill
  <2>8. QED
    BY <2>6, <2>7
<1>4. QED
  BY <1>2, <1>3

LEMMA UnlockNextCounted ==
  ASSUME PInv, Mailed, NEW e \in Executor, UnlockNext(e)
  PROVE  PInv'
<1>1. /\ pc[e] = "unlock" /\ pc \in [Executor -> Pc]
      /\ UNCHANGED <<state, kind, current>>
  BY DEF UnlockNext, Mailed
<1>2. CASE Goto(e, "wake") /\ UNCHANGED <<result, points>>
  <2>1. \A f \in Executor : \/ pc'[f] = pc[f]
                            \/ pc[f] \notin Pending /\ pc'[f] \notin Pending
                            \/ pc[f] \in {"unlock", "wake"} /\ pc'[f] \in {"unlock", "wake"}
    BY <1>1, <1>2 DEF Goto
  <2>2. QED
    BY <1>1, <1>2, <2>1, AllStill
<1>3. ASSUME NEW p, Goto(e, AfterUnlock(e, p)), Proceed(e, p) PROVE PInv'
  <2>1. /\ pc' \in [Executor -> Pc] /\ pc'[e] = AfterUnlock(e, p)
        /\ \A f \in Executor \ {e} : pc'[f] = pc[f]
    BY <1>1, <1>3, AfterUnlockPc DEF Goto
  <2>2. QED
    BY <1>1, <1>3, <2>1, FinishStep
<1>4. QED
  BY <1>2, <1>3 DEF UnlockNext

LEMMA WakeCounted ==
  ASSUME PInv, Mailed, NEW e \in Executor, Wake(e)
  PROVE  PInv'
<1> PICK o : o = Owner[Head(handoff[e])]
  OBVIOUS
<1> PICK last \in BOOLEAN : last <=> Len(handoff[e]) = 1
  OBVIOUS
<1> PICK p : p = pos[task[e]]
  OBVIOUS
<1> PICK q : q = IF last THEN AfterUnlock(e, p) ELSE "wake"
  OBVIOUS
<1>1. /\ pc[e] = "wake" /\ pc \in [Executor -> Pc] /\ q \in Pc
      /\ UNCHANGED <<state, kind, current>>
  BY AfterUnlockPc DEF Wake, Mailed, Pc, taskVars
<1>2. pc' = [Signal(o, ready[o] = <<>>) EXCEPT ![e] = q]
  BY DEF Wake
<1>3. /\ pc' \in [Executor -> Pc] /\ pc'[e] = q
      /\ \A f \in Executor \ {e} :
           pc'[f] = pc[f] \/ (pc[f] \notin Pending /\ pc'[f] \notin Pending)
  BY <1>1, <1>2 DEF Signal, Pc, Pending
<1>4. CASE last
  <2>1. Proceed(e, p)
    BY <1>4 DEF Wake
  <2>2. QED
    BY <1>1, <1>3, <1>4, <2>1, FinishStep
<1>5. CASE ~last
  <2>1. UNCHANGED <<points, result>>
    BY <1>5 DEF Wake
  <2>2. \A f \in Executor : \/ pc'[f] = pc[f]
                            \/ pc[f] \notin Pending /\ pc'[f] \notin Pending
                            \/ pc[f] \in {"unlock", "wake"} /\ pc'[f] \in {"unlock", "wake"}
    BY <1>1, <1>3, <1>5
  <2>3. QED
    BY <1>1, <2>1, <2>2, AllStill
<1>6. QED
  BY <1>4, <1>5

-----------------------------------------------------------------------------
(* The other steps. *)
LEMMA BreakOffCounted ==
  ASSUME PInv, Mailed, NEW e \in Executor, BreakOff(e)
  PROVE  PInv'
<1>1. /\ NewGeneration(e) /\ Enter(e, "NORMAL") /\ UNCHANGED <<kind, result>>
      /\ pc' = SentTo(e, AfterTask(e))
  BY DEF BreakOff, localVars
<1>2. AfterTask(e) \in Pc \ Pending
  BY AfterTaskPc DEF Pc, Pending
<1>3. QED
  BY <1>1, <1>2, MoveStep

LEMMA HandleMessageCounted ==
  ASSUME PInv, Mailed, NEW e \in Executor, HandleMessage(e)
  PROVE  PInv'
<1> PICK m : m = message[e]
  OBVIOUS
<1>1. pc[e] \notin Pending /\ UNCHANGED <<kind, result>>
  BY DEF HandleMessage, Pending
<1>2. {"fetch", "returned", "aborted"} \subseteq Pc \ Pending
  BY DEF Pc, Pending
<1>3. ASSUME NEW s, Enter(e, s), NewGeneration(e), pc' = SentTo(e, "fetch") PROVE PInv'
  BY <1>1, <1>2, <1>3, MoveStep
<1>4. ASSUME UNCHANGED <<state, points, current>>,
             NEW p \in {"fetch", "returned", "aborted"}, Goto(e, p) \/ pc' = SentTo(e, p)
      PROVE  PInv'
  BY <1>1, <1>2, <1>4, StayStep
<1>5. CASE OnStartShootDown(e, m)
  BY <1>3, <1>5 DEF OnStartShootDown, Move, Pass
<1>6. CASE OnStartWaiting1(e, m)
  BY <1>3, <1>4, <1>6 DEF OnStartWaiting1, Move, Pass
<1>7. CASE OnStartDoubleCheck(e, m)
  BY <1>3, <1>7 DEF OnStartDoubleCheck, Move, Pass
<1>8. CASE OnStartWaiting2(e, m)
  BY <1>4, <1>8 DEF OnStartWaiting2, Pass
<1>9. CASE OnTerminate(e, m)
  <2>1. PICK p \in {"returned", "aborted"} : pc' = SentTo(e, p)
    BY <1>9 DEF OnTerminate
  <2>2. QED
    BY <1>4, <1>9, <2>1 DEF OnTerminate
<1>10. CASE OnReset(e, m)
  BY <1>3, <1>10 DEF OnReset, Move, Pass
<1>11. CASE Dropped(e, m)
  BY <1>4, <1>11 DEF Dropped
<1>12. QED
  BY <1>5, <1>6, <1>7, <1>8, <1>9, <1>10, <1>11 DEF HandleMessage

LEMMA DecideCounted ==
  ASSUME PInv, Mailed, NEW e \in Executor, Decide(e)
  PROVE  PInv'
<1>1. pc[e] \notin Pending /\ UNCHANGED <<kind, result>>
  BY DEF Decide, Pending, localVars
<1>2. {"fetch", "asleep", "poll"} \subseteq Pc \ Pending
  BY DEF Pc, Pending
<1>3. {"WAIT1", "WAIT2", "POLL"} \subseteq State \ Counting
  BY DEF State, Counting
<1>4. ASSUME NEW s \in {"WAIT1", "WAIT2", "POLL"}, Enter(e, s), UNCHANGED <<points, current>>,
             Goto(e, "fetch") \/ pc' = SentTo(e, "fetch")
      PROVE  PInv'
  BY <1>1, <1>2, <1>3, <1>4, EnterStep
<1>5. CASE DecideShootDown(e)
  BY <1>1, <1>2, <1>5, MoveStep DEF DecideShootDown, Move
<1>6. ASSUME NEW from, NEW to \in {"WAIT1", "WAIT2"}, NEW k, DecideWait(e, from, to, k)
      PROVE  PInv'
  BY <1>4, <1>6 DEF DecideWait
<1>7. CASE DecidePoll(e)
  BY <1>4, <1>7 DEF DecidePoll
<1>8. CASE DecideBlock(e)
  <2>1. UNCHANGED <<state, points, current>>
    BY <1>8 DEF DecideBlock
  <2>2. PICK p \in {"fetch", "asleep", "poll"} : Goto(e, p)
    BY <1>8 DEF DecideBlock, SleepIn
  <2>3. QED
    BY <1>1, <1>2, <2>1, <2>2, StayStep
<1>9. QED
  BY <1>5, <1>6, <1>7, <1>8 DEF Decide

LEMMA StayCounted ==
  ASSUME PInv, Mailed, NEW e \in Executor, Fetch(e) \/ LockNext(e) \/ StartIdle(e) \/ Poll(e)
  PROVE  PInv'
<1>1. pc[e] \notin Pending /\ UNCHANGED <<state, points, current, kind, result>>
  BY DEF Fetch, LockNext, StartIdle, Poll, Pending, taskVars, localVars
<1>2. ASSUME NEW p \in Pc \ Pending, Goto(e, p) PROVE PInv'
  BY <1>1, <1>2, StayStep
<1>3. {"fetch", "message", "decide", "aborted", "run", "lock", "asleep", "poll", "polled"}
        \subseteq Pc \ Pending
  BY DEF Pc, Pending
<1>4. CASE Fetch(e)
  <2>1. \A t, m : Fetched(e, t, m) \in {"message", "decide", "aborted", "run", "lock"}
    BY DEF Fetched
  <2>2. \E t, m : Goto(e, Fetched(e, t, m))
    BY <1>4 DEF Fetch
  <2>3. QED
    BY <1>2, <1>3, <2>1, <2>2
<1>5. CASE LockNext(e)
  <2>1. AfterTask(e) \in {"fetch", "message"}
    BY AfterTaskPc
  <2>2. \E p \in {AfterTask(e), "run", "lock"} : Goto(e, p)
    BY <1>5 DEF LockNext
  <2>3. QED
    BY <1>2, <1>3, <2>1, <2>2
<1>6. CASE StartIdle(e)
  <2>1. \E p \in {"fetch", "asleep", "lock", "aborted"} : Goto(e, p)
    BY <1>6 DEF StartIdle, SleepIn
  <2>2. QED
    BY <1>2, <1>3, <2>1
<1>7. CASE Poll(e)
  <2>1. \E p \in {"polled", "fetch"} : Goto(e, p)
    BY <1>7 DEF Poll
  <2>2. QED
    BY <1>2, <1>3, <2>1
<1>8. QED
  BY <1>4, <1>5, <1>6, <1>7

LEMMA NextPInv == PInv /\ WInv /\ IInv /\ [Next]_<<vars, program>> => PInv'
<1> SUFFICES ASSUME PInv, WInv, IInv, [Next]_<<vars, program>> PROVE PInv'
  OBVIOUS
<1>1. Mailed
  BY DEF WInv
<1>2. ASSUME NEW e \in Executor, Step(e) PROVE PInv'
  BY <1>1, <1>2, RunCounted, UnlockNextCounted, WakeCounted, BreakOffCounted,
     HandleMessageCounted, DecideCounted, StayCounted DEF Step
<1>3. ASSUME UNCHANGED <<pc, state, points, result, kind, current>> PROVE PInv'
  BY <1>3, AllStill
<1>4. ASSUME NEW t \in FdTask, FdReady(t) PROVE PInv'
  BY <1>3, <1>4 DEF FdReady, taskVars, localVars
<1>5. CASE UNCHANGED <<vars, program>>
  BY <1>3, <1>5 DEF vars
<1>6. QED
  BY <1>2, <1>4, <1>5 DEF Next

LEMMA CountedMeans == PInv => PointsAreSkips
BY DEF PInv, Counted, Pending, Skipped, PointsAreSkips

(* points is the number of tasks of the executor that skipped in this      *)
(* generation, however a task came to run and however often it blocked; so *)
(* an executor that decides has seen every one of its tasks skip.          *)
THEOREM PointsCount == Spec => []PointsAreSkips
<1>1. Spec => []IInv
  BY LocksAccounted
<1>2. Spec => []WInv
  BY AlwaysAwake
<1>3. QED
  BY <1>1, <1>2, InitPInv, NextPInv, CountedMeans, PTL DEF Spec

-----------------------------------------------------------------------------
(***************************************************************************)
(* The scheduler with one thread (--threads=1).  What the messages of the  *)
(* ring agree on fails for more threads, because a message does not say    *)
(* which round it belongs to and tasks that were blocked run late.  With   *)
(* one thread neither can happen: a task has given back its locks before   *)
(* the next one starts, so that none is ever queued, and a message that    *)
(* the executor sends itself is read in the state it was sent in.          *)
(***************************************************************************)
Harmless(e) == [kind : {"START_SHOOT_DOWN", "START_DOUBLE_CHECK", "RESET"}, id : {e}]

(* In the two waiting states the message that ends them is under way.      *)
UnderWay(e, s, k) ==
  /\ state[e] = s
  /\ \/ pc[e] = "fetch" /\ mailbox[e] = <<Msg(k, e)>>
     \/ pc[e] = "message" /\ message[e] = Msg(k, e) /\ mailbox[e] = <<>>

Ended(e) ==
  state[e] = "WAIT2" /\ pc[e] = "returned" /\ mailbox[e] = <<Msg("TERMINATE", e)>>

(* In the others there are only messages it does not act on, and it has    *)
(* none when it decides.                                                   *)
Between(e) ==
  /\ state[e] \in Counting \cup {"POLL"}
  /\ mailbox[e] \in Seq(Harmless(e)) /\ message[e] \in Harmless(e) \cup {NoMessage}
  /\ pc[e] \notin {"asleep", "wake", "returned", "aborted"}
  /\ pc[e] = "decide" => mailbox[e] = <<>>
  /\ pc[e] = "message" => message[e] # NoMessage
  /\ pc[e] \in {"lock", "run", "unlock", "break"} => state[e] \in Counting
  /\ pc[e] \in {"poll", "polled"} => state[e] = "POLL"
  /\ state[e] = "POLL" => points[e] = TasksOf(e)

Phase(e) ==
  \/ UnderWay(e, "WAIT1", "START_WAITING1")
  \/ UnderWay(e, "WAIT2", "START_WAITING2")
  \/ Ended(e)
  \/ Between(e)

NoneWaits == /\ \A e \in Executor : ready[e] = <<>>
             /\ \A i \in Instance : lock[i].queue = <<>>

(* A task that has skipped in the double check is not enabled, or has its  *)
(* descriptor watched, until something hits.                               *)
Hitting(e) == pc[e] = "break" \/ (pc[e] = "unlock" /\ Breaks(e))

Looked(e) ==
  /\ state[e] = "DOUBLE_CHECK" => tracking[e]
  /\ state[e] = "DOUBLE_CHECK" /\ ~Hitting(e) =>
       \A t \in Skipped(e) : IF t \in FdTask THEN t \in fds[e] ELSE t \notin enabled
  /\ state[e] = "POLL" => FdTask \subseteq fds[e] /\ enabled \subseteq FdTask
  /\ state[e] = "WAIT2" => FdTask = {} /\ enabled = {}

Programmed ==
  /\ AlwaysTask \subseteq Task /\ FdTask \subseteq Task /\ enabled \subseteq Task
  /\ tracking \in [Executor -> BOOLEAN] /\ fds \in [Executor -> SUBSET Task]

SInv == Programmed /\ NoneWaits /\ \A e \in Executor : Phase(e) /\ Looked(e)

(* With one executor the ring leads back to it, and all tasks are its own. *)
LEMMA Single ==
  ASSUME N = 1, NEW e \in Executor
  PROVE  /\ Executor = {e} /\ (e + 1) % N = e /\ e = 0
         /\ Mine(e) = Task
<1>1. Executor = {0}
  BY DEF Executor
<1>2. e = 0
  BY <1>1
<1>3. \A t \in Task : Owner[t] \in Executor
  BY Constants
<1>4. QED
  BY <1>1, <1>2, <1>3 DEF Mine

(* The invariant speaks of the one executor. *)
LEMMA SoloStep ==
  ASSUME N = 1, NEW e \in Executor, Programmed', (ready'[e] = <<>>),
         \A i \in Instance : lock'[i].queue = <<>>, Phase(e)', Looked(e)'
  PROVE  SInv'
BY Single DEF SInv, NoneWaits

LEMMA InitSInv == ASSUME N = 1 PROVE Init => SInv
<1> SUFFICES ASSUME Init PROVE SInv
  OBVIOUS
<1>1. PICK p \in Programs : AlwaysTask = p.always /\ FdTask = p.fd /\ credit = p.enables
  BY DEF Init
<1>2. Programmed
  <2>1. p \in [always : SUBSET Task, fd : SUBSET Task, enables : Nat]
    BY ConstantsAssumption
  <2>2. AlwaysTask \subseteq Task /\ FdTask \subseteq Task
    BY <1>1, <2>1
  <2>3. enabled \subseteq Task
    BY <2>2, ConstantsAssumption DEF Init
  <2>4. QED
    BY <2>2, <2>3 DEF Init, Programmed
<1>3. NoneWaits
  BY DEF Init, NoneWaits, FreeLock
<1>4. ASSUME NEW e \in Executor PROVE Phase(e) /\ Looked(e)
  <2>1. /\ state[e] = "NORMAL" /\ pc[e] = "fetch" /\ mailbox[e] = <<>>
        /\ message[e] = NoMessage
    BY <1>4 DEF Init
  <2>2. Between(e)
    BY <2>1, EmptySeq DEF Between, Counting
  <2>3. Looked(e)
    BY <2>1 DEF Looked
  <2>4. QED
    BY <2>2, <2>3 DEF Phase
<1>5. QED
  BY <1>2, <1>3, <1>4 DEF SInv

-----------------------------------------------------------------------------
(* Nobody has a lock but the task that is run, so it does not block.       *)
LEMMA SoloLocks ==
  ASSUME N = 1, IInv, SInv, NEW e \in Executor
  PROVE  /\ handoff[e] = <<>> /\ pc[e] # "wake"
         /\ pc[e] = "lock" => \A i \in pos[task[e]] :
              /\ i \in Instance /\ ~ReadBlocks(lock[i]) /\ ~WriteBlocks(lock[i])
         /\ pc[e] \notin Working \cup {"aborted"} /\ idle[e] = <<>> => Task = {}
<1>1. PICK at \in [Task -> Places], on \in [Task -> Int] : Inv(at, on)
  BY DEF IInv
<1>2. /\ Typed /\ IdleAre(at) /\ ReadyAre(at) /\ WokenAre(at, on) /\ QueuedAre(at, on)
      /\ Waiting(at, on) /\ \A f \in Executor : RunAt(at, f)
  BY <1>1 DEF Inv, Placed
<1>3. handoff[e] # <<>> <=> pc[e] = "wake"
  BY <1>2 DEF RunAt
<1>4. ASSUME NEW t \in Task
      PROVE  at[t] \notin {"ready", "queue"} /\ Owner[t] = e
  <2>1. Owner[t] = e
    BY Single, Constants
  <2>2. ready[e] = <<>> /\ \A i \in Instance : lock[i].queue = <<>>
    BY DEF SInv, NoneWaits
  <2>3. at[t] # "ready"
    BY <1>2, <2>1, <2>2, HasEmpty DEF ReadyAre
  <2>4. at[t] # "queue"
    <3>1. SUFFICES ASSUME at[t] = "queue" PROVE FALSE
      OBVIOUS
    <3>2. on[t] \in Instance
      BY <1>2, <3>1, Constants DEF Waiting
    <3>3. Waits(lock[on[t]].queue, t)
      BY <1>2, <3>1, <3>2 DEF QueuedAre
    <3>4. QED
      BY <2>2, <3>2, <3>3 DEF Waits
  <2>5. QED
    BY <2>1, <2>3, <2>4
<1>5. pc[e] # "wake"
  BY Single DEF SInv, Phase, UnderWay, Ended, Between
<1>6. ASSUME NEW t \in Task PROVE at[t] \in {"idle", "run"}
  <2>1. handoff[e] = <<>>
    BY <1>3, <1>5
  <2>2. at[t] # "wake"
    <3>1. \A f \in Executor : f = e
      BY Single
    <3>2. SUFFICES ASSUME at[t] = "wake" PROVE FALSE
      OBVIOUS
    <3>3. on[t] = e
      BY <1>2, <3>1, <3>2 DEF Waiting
    <3>4. Has(handoff[e], t)
      BY <1>2, <3>2, <3>3 DEF WokenAre
    <3>5. QED
      BY <2>1, <3>4, HasEmpty
  <2>3. QED
    BY <1>1, <1>4, <2>2 DEF Places
<1>7. ASSUME pc[e] = "lock", NEW i \in pos[task[e]]
      PROVE  i \in Instance /\ ~ReadBlocks(lock[i]) /\ ~WriteBlocks(lock[i])
  <2>1. task[e] \in Task
    BY <1>1, <1>7, AtWork DEF Working
  <2>2. i \in Instance
    BY <1>2, <1>7, <2>1 DEF Typed
  <2>3. Holders(i) = {}
    <3>1. SUFFICES ASSUME NEW t \in Task, Holds(t, i) PROVE FALSE
      BY DEF Holders
    <3>2. Means(at, on, t, i)
      BY <1>1, <2>2, <3>1, HoldsMeans DEF Inv
    <3>3. at[t] = "run"
      BY <1>6, <3>2 DEF Means
    <3>4. t = task[e]
      BY <1>2, <1>4, <3>3 DEF RunAt
    <3>5. QED
      BY <1>4, <1>7, <3>2, <3>4 DEF Means
  <2>4. Account(lock[i], {}, Writing(i))
    BY <1>1, <2>2, <2>3 DEF Inv, Accounts
  <2>5. lock[i].count = 0
    BY <2>4, FS_EmptySet DEF Account
  <2>6. QED
    BY <2>2, <2>5 DEF ReadBlocks, WriteBlocks
<1>8. ASSUME pc[e] \notin Working \cup {"aborted"}, idle[e] = <<>> PROVE Task = {}
  <2>1. ASSUME NEW t \in Task PROVE FALSE
    <3>1. task[e] = NoTask
      BY <1>2, <1>8 DEF RunAt
    <3>2. at[t] # "run"
      BY <1>2, <1>4, <2>1, <3>1, Constants DEF RunAt
    <3>3. at[t] = "idle"
      BY <1>6, <3>2
    <3>4. Has(idle[e], t)
      BY <1>2, <1>4, <3>3 DEF IdleAre
    <3>5. QED
      BY <1>8, <3>4, HasEmpty
  <2>2. QED
    BY <2>1
<1>9. QED
  BY <1>3, <1>5, <1>7, <1>8

(* Where the last step has left what the double check has seen.            *)
LEMMA LookedStill ==
  ASSUME NEW e \in Executor, Looked(e),
         UNCHANGED <<state, tracking, fds, enabled, kind, current, FdTask>>,
         Hitting(e) => Hitting(e)'
  PROVE  Looked(e)'
<1>1. Skipped(e)' = Skipped(e)
  BY DEF Skipped, Mine
<1>2. QED
  BY <1>1 DEF Looked

LEMMA MessageKinds ==
  /\ \A e : NoMessage \notin Harmless(e)
  /\ \A e, k : k # "NONE" => Msg(k, e) # NoMessage
BY DEF Harmless, NoMessage, Msg

LEMMA FetchSolo ==
  ASSUME N = 1, SInv, IInv, WInv, NEW e \in Executor, Fetch(e), UNCHANGED program
  PROVE  SInv'
<1> PICK m : m = IF mailbox[e] = <<>> THEN NoMessage ELSE Head(mailbox[e])
  OBVIOUS
<1>1. /\ Programmed /\ NoneWaits /\ Phase(e) /\ Looked(e)
      /\ pc \in [Executor -> Pc] /\ message \in [Executor -> Mail \cup {NoMessage}]
      /\ mailbox \in [Executor -> Seq(Mail)]
  BY DEF SInv, WInv, Mailed
<1>2. ready[e] = <<>>
  BY <1>1 DEF NoneWaits
<1>3. /\ pc[e] = "fetch" /\ message' = [message EXCEPT ![e] = m]
      /\ ready' = [ready EXCEPT ![e] = @]
      /\ mailbox' = [mailbox EXCEPT ![e] = IF m = NoMessage THEN @ ELSE Tail(@)]
      /\ pc' = [pc EXCEPT ![e] = IF m = NoMessage THEN "decide" ELSE "message"]
      /\ UNCHANGED <<enabled, lock, kind, current, tracking, fds, state, points,
                     AlwaysTask, FdTask>>
  BY <1>2 DEF Fetch, Fetched, Goto, programVars, taskVars, program
<1>4. /\ message'[e] = m /\ mailbox'[e] = IF m = NoMessage THEN mailbox[e] ELSE Tail(mailbox[e])
      /\ pc'[e] = IF m = NoMessage THEN "decide" ELSE "message"
  BY <1>1, <1>3
<1>5. Phase(e)'
  <2>1. ASSUME NEW s, NEW k \in {"START_WAITING1", "START_WAITING2"}, UnderWay(e, s, k)
        PROVE  UnderWay(e, s, k)'
    <3>1. mailbox[e] = <<Msg(k, e)>>
      BY <1>3, <2>1 DEF UnderWay
    <3>2. m = Msg(k, e) /\ m # NoMessage /\ Tail(mailbox[e]) = <<>>
      BY <3>1, MessageKinds
    <3>3. QED
      BY <1>3, <1>4, <2>1, <3>2 DEF UnderWay, Msg
  <2>2. ASSUME Between(e) PROVE Between(e)'
    <3>1. mailbox[e] \in Seq(Harmless(e))
      BY <2>2 DEF Between
    <3>2. CASE mailbox[e] = <<>>
      <4>1. m = NoMessage
        BY <3>2
      <4>2. QED
        <5>1. /\ mailbox'[e] = <<>> /\ message'[e] = NoMessage /\ pc'[e] = "decide"
              /\ state'[e] = state[e] /\ points'[e] = points[e]
          BY <1>3, <1>4, <3>2, <4>1
        <5>2. Harmless(e)' = Harmless(e) /\ TasksOf(e)' = TasksOf(e)
          BY DEF Harmless, TasksOf, Mine
        <5>3. QED
          BY <1>3, <2>2, <5>1, <5>2, EmptySeq DEF Between
    <3>3. CASE mailbox[e] # <<>>
      <4>1. m \in Harmless(e) /\ Tail(mailbox[e]) \in Seq(Harmless(e)) /\ m # NoMessage
        <5>1. m = Head(mailbox[e])
          BY <3>3
        <5>2. QED
          BY <3>1, <3>3, <5>1, HeadTailProperties, MessageKinds
      <4>2. mailbox'[e] \in Seq(Harmless(e)) /\ pc'[e] = "message" /\ message'[e] = m
        BY <1>4, <4>1
      <4>3. Harmless(e)' = Harmless(e) /\ TasksOf(e)' = TasksOf(e)
        BY DEF Harmless, TasksOf, Mine
      <4>4. QED
        BY <1>3, <2>2, <4>1, <4>2, <4>3 DEF Between
    <3>4. QED
      BY <3>2, <3>3
  <2>3. QED
    BY <1>1, <1>3, <2>1, <2>2 DEF Phase, Ended
<1>6. Looked(e)'
  BY <1>1, <1>3, LookedStill DEF Hitting
<1>7. ready'[e] = <<>>
  BY <1>2, <1>3, Lists
<1>8. QED
  BY <1>1, <1>3, <1>5, <1>6, <1>7, SoloStep DEF Programmed, NoneWaits

(* Taking a lock, and giving one back: nothing is queued or granted.       *)
LEMMA LockNextSolo ==
  ASSUME N = 1, SInv, IInv, WInv, NEW e \in Executor, LockNext(e), UNCHANGED program
  PROVE  SInv'
<1> PICK t : t = task[e]
  OBVIOUS
<1> PICK i : i = LockAt(t)
  OBVIOUS
<1>1. /\ Programmed /\ NoneWaits /\ Phase(e) /\ Looked(e)
      /\ pc \in [Executor -> Pc]
  BY DEF SInv, WInv, Mailed
<1>2. PICK at \in [Task -> Places], on \in [Task -> Int] : Inv(at, on)
  BY DEF IInv
<1>3. /\ pc[e] = "lock" /\ t \in Task /\ pos[t] # {} /\ pos[t] \subseteq Instance
      /\ lock \in [Instance -> Locks(Task)] /\ t # NoTask
  <2>1. pc[e] = "lock" /\ t \in Task
    BY <1>2, AtWork DEF LockNext, Working
  <2>2. QED
    BY <1>2, <2>1, Constants DEF Inv, Typed, Placed, RunAt
<1>4. i \in pos[t]
  BY <1>2, <1>3, LockAtPos DEF Inv
<1>5. i \in Instance /\ ~ReadBlocks(lock[i]) /\ ~WriteBlocks(lock[i])
  BY <1>3, <1>4, SoloLocks
<1>6. /\ \E l \in {AfterReadLock(lock[i], t), AfterWriteLock(lock[i], t)} : lock' = [lock EXCEPT ![i] = l]
      /\ pc' = [pc EXCEPT ![e] = IF pos[t] = {i} THEN "run" ELSE "lock"]
      /\ UNCHANGED <<enabled, kind, current, ready, mailbox, message, tracking, fds, state, points,
                     AlwaysTask, FdTask>>
  BY <1>5 DEF LockNext, Goto, programVars, fdVars, program
<1>7. \A l \in {AfterReadLock(lock[i], t), AfterWriteLock(lock[i], t)} : l.queue = lock[i].queue
  <2>1. lock[i] = [count |-> lock[i].count, queue |-> lock[i].queue]
    BY <1>3, <1>5 DEF Locks
  <2>2. QED
    BY <1>5, <2>1 DEF AfterReadLock, AfterWriteLock
<1>8. \A j \in Instance : lock'[j].queue = <<>>
  BY <1>1, <1>3, <1>5, <1>6, <1>7 DEF NoneWaits
<1>9. Between(e)
  BY <1>1, <1>3 DEF Phase, UnderWay, Ended
<1>10. pc'[e] \in {"run", "lock"}
  BY <1>1, <1>6
<1>11. Between(e)'
  <2>1. Harmless(e)' = Harmless(e) /\ TasksOf(e)' = TasksOf(e)
    BY DEF Harmless, TasksOf, Mine
  <2>2. QED
    BY <1>3, <1>6, <1>9, <1>10, <2>1 DEF Between
<1>12. Looked(e)'
  BY <1>1, <1>3, <1>6, LookedStill DEF Hitting
<1>13. QED
  BY <1>1, <1>6, <1>8, <1>11, <1>12, SoloStep DEF Programmed, NoneWaits, Phase

(* An executor that counts goes on with its task. *)
LEMMA WorksOn ==
  ASSUME NEW e \in Executor, Between(e), state[e] \in Counting,
         UNCHANGED <<mailbox, message, state>>,
         pc'[e] \in {"fetch", "message", "lock", "run", "unlock", "break"},
         pc'[e] = "message" => message[e] # NoMessage
  PROVE  Between(e)'
<1>1. Harmless(e)' = Harmless(e)
  BY DEF Harmless
<1>2. QED
  BY <1>1 DEF Between, Counting

LEMMA RunSolo ==
  ASSUME N = 1, SInv, IInv, WInv, PInv, NEW e \in Executor, Run(e), UNCHANGED program
  PROVE  SInv'
<1> PICK t : t = task[e]
  OBVIOUS
<1>1. /\ Programmed /\ NoneWaits /\ Phase(e) /\ Looked(e)
      /\ pc \in [Executor -> Pc] /\ Scored
  BY DEF SInv, WInv, Mailed, PInv
<1>2. /\ pc[e] = "run" /\ t \in Task /\ Owner[t] = e
  <2>1. PICK at \in [Task -> Places], on \in [Task -> Int] : Inv(at, on)
    BY DEF IInv
  <2>2. QED
    BY <2>1, AtWork DEF Run, Working
<1>3. /\ IF t \in enabled THEN Commit(t) ELSE UNCHANGED <<enabled, credit>>
      /\ current' = [current EXCEPT ![t] = TRUE]
      /\ kind' = [kind EXCEPT ![t] = IF t \in enabled THEN "HIT" ELSE "SKIP"]
      /\ result' = [result EXCEPT ![e] = Outcome(t \in enabled, Before(t))]
      /\ fds' = [fds EXCEPT ![e] = @ \cup IF tracking[e] THEN {t} \cap FdTask ELSE {}]
      /\ pc' = [pc EXCEPT ![e] = "unlock"]
      /\ UNCHANGED <<lock, ready, mailbox, message, tracking, state, AlwaysTask, FdTask>>
  BY DEF Run, Goto, program, programVars
<1>4. pc'[e] = "unlock"
  BY <1>1, <1>3
<1>5. Between(e)
  BY <1>1, <1>2 DEF Phase, UnderWay, Ended
<1>6. Between(e)'
  <2>1. state[e] \in Counting
    BY <1>2, <1>5 DEF Between
  <2>2. QED
    BY <1>3, <1>4, <1>5, <2>1, WorksOn
<1>7. Programmed'
  <2>1. enabled' \subseteq Task
    <3>1. CASE t \in enabled
      <4>1. PICK next \in SUBSET (Touched(t) \ (AlwaysTask \cup ({t} \cap GcTask))) :
              enabled' = (enabled \ (Touched(t) \ AlwaysTask)) \cup next
        BY <1>3, <3>1 DEF Commit
      <4>2. Touched(t) \subseteq Task
        BY <1>2 DEF Touched
      <4>3. QED
        BY <1>1, <4>1, <4>2 DEF Programmed
    <3>2. CASE t \notin enabled
      BY <1>1, <1>3, <3>2 DEF Programmed
    <3>3. QED
      BY <3>1, <3>2
  <2>2. fds' \in [Executor -> SUBSET Task]
    BY <1>1, <1>2, <1>3 DEF Programmed
  <2>3. QED
    BY <1>1, <1>3, <2>1, <2>2 DEF Programmed
<1>8. Looked(e)'
  <2>1. state'[e] = state[e] /\ state[e] \in Counting
    BY <1>2, <1>3, <1>5 DEF Between
  <2>2. state'[e] = "DOUBLE_CHECK" => tracking'[e]
    BY <1>1, <1>3 DEF Looked
  <2>3. ASSUME state[e] = "DOUBLE_CHECK", ~Hitting(e)', NEW u \in Skipped(e)'
        PROVE  IF u \in FdTask THEN u \in fds'[e] ELSE u \notin enabled'
    <3>1. t \notin enabled
      <4>1. SUFFICES ASSUME t \in enabled PROVE FALSE
        OBVIOUS
      <4>2. result'[e] \in {"HIT", "FIRST_HIT"}
        BY <1>1, <1>3, <4>1 DEF Scored, Outcome
      <4>3. Hitting(e)'
        BY <1>3, <1>4, <2>3, <4>2 DEF Hitting, Breaks
      <4>4. QED
        BY <2>3, <4>3
    <3>2. enabled' = enabled /\ (t \in FdTask => t \in fds'[e]) /\ fds[e] \subseteq fds'[e]
      BY <1>1, <1>3, <2>3, <3>1 DEF Programmed, Looked
    <3>3. u # t => u \in Skipped(e)
      BY <1>1, <1>2, <1>3, <2>3 DEF Skipped, Mine, Scored
    <3>4. ~Hitting(e)
      BY <1>2 DEF Hitting
    <3>5. QED
      BY <1>1, <1>3, <2>3, <3>1, <3>2, <3>3, <3>4 DEF Looked
  <2>4. QED
    BY <1>3, <2>1, <2>2, <2>3 DEF Looked, Counting
<1>9. QED
  BY <1>1, <1>3, <1>6, <1>7, <1>8, SoloStep DEF NoneWaits, Phase

LEMMA UnlockNextSolo ==
  ASSUME N = 1, SInv, IInv, WInv, PInv, NEW e \in Executor, UnlockNext(e), UNCHANGED program
  PROVE  SInv'
<1> PICK t : t = task[e]
  OBVIOUS
<1> PICK i : i = LockAt(t)
  OBVIOUS
<1> PICK l : l = IF Access[t][i] # "Write" THEN DropRead(lock[i]) ELSE DropWrite(lock[i])
  OBVIOUS
<1> PICK p : p = pos[t] \ {i}
  OBVIOUS
<1>1. /\ Programmed /\ NoneWaits /\ Phase(e) /\ Looked(e)
      /\ pc \in [Executor -> Pc]
  BY DEF SInv, WInv, Mailed
<1>2. PICK at \in [Task -> Places], on \in [Task -> Int] : Inv(at, on)
  BY DEF IInv
<1>3. /\ pc[e] = "unlock" /\ t \in Task /\ i \in Instance
      /\ lock \in [Instance -> Locks(Task)]
  <2>1. pc[e] = "unlock" /\ t \in Task
    BY <1>2, AtWork DEF UnlockNext, Working
  <2>2. Typed /\ pos[t] # {}
    BY <1>2, <2>1 DEF Inv, Placed, RunAt
  <2>3. QED
    BY <2>1, <2>2, LockAtPos DEF Typed
<1>4. l.queue = <<>>
  <2>1. lock[i] = [count |-> lock[i].count, queue |-> lock[i].queue] /\ lock[i].queue = <<>>
    BY <1>1, <1>3 DEF Locks, NoneWaits
  <2>2. QED
    BY <2>1 DEF DropRead, DropWrite
<1>5. ProcessList(l) = l /\ Granted(l) = <<>>
  BY <1>4, NoGrantSpec DEF MustGrant
<1>6. /\ lock' = [lock EXCEPT ![i] = l]
      /\ pc' = [pc EXCEPT ![e] = AfterUnlock(e, p)]
      /\ Proceed(e, p)
      /\ UNCHANGED <<enabled, kind, current, ready, mailbox, message, tracking, fds, state,
                     AlwaysTask, FdTask>>
  BY <1>5 DEF UnlockNext, Goto, programVars, fdVars, program
<1>7. \A j \in Instance : lock'[j].queue = <<>>
  BY <1>1, <1>3, <1>4, <1>6 DEF NoneWaits
<1>8. Between(e) /\ state[e] \in Counting
  BY <1>1, <1>3 DEF Phase, UnderWay, Ended, Between
<1>9. pc'[e] = AfterUnlock(e, p)
  BY <1>1, <1>6
<1>10. Between(e)'
  <2>1. /\ pc'[e] \in {"fetch", "message", "unlock", "break"}
        /\ pc'[e] = "message" => message[e] # NoMessage
    BY <1>9 DEF AfterUnlock, AfterTask
  <2>2. QED
    BY <1>6, <1>8, <2>1, WorksOn
<1>11. Hitting(e) => Hitting(e)'
  <2>1. SUFFICES ASSUME Breaks(e) PROVE Hitting(e)'
    BY <1>3 DEF Hitting
  <2>2. CASE p = {}
    BY <1>9, <2>1, <2>2 DEF AfterUnlock, Hitting
  <2>3. CASE p # {}
    BY <1>6, <1>9, <2>1, <2>3 DEF AfterUnlock, Hitting, Proceed, Breaks
  <2>4. QED
    BY <2>2, <2>3
<1>12. Looked(e)'
  BY <1>1, <1>6, <1>11, LookedStill
<1>13. QED
  BY <1>1, <1>6, <1>7, <1>10, <1>12, SoloStep DEF Programmed, NoneWaits, Phase

-----------------------------------------------------------------------------
(* What the executor sends, it receives. *)
LEMMA SendSolo ==
  ASSUME N = 1, WInv, NEW e \in Executor, NEW m, Send(e, m), NEW p \in Pc, pc' = SentTo(e, p)
  PROVE  mailbox'[e] = Append(mailbox[e], m) /\ pc'[e] = p
<1>1. pc \in [Executor -> Pc] /\ mailbox \in [Executor -> Seq(Mail)]
  BY DEF WInv, Mailed
<1>2. (e + 1) % N = e
  BY Single
<1>3. mailbox' = [mailbox EXCEPT ![e] = Append(@, m)]
  BY <1>2 DEF Send
<1>4. pc' = [Signal(e, mailbox[e] = <<>>) EXCEPT ![e] = p]
  BY <1>2 DEF SentTo
<1>5. pc'[e] = p
  BY <1>1, <1>4, SignalShape
<1>6. QED
  BY <1>1, <1>3, <1>5

LEMMA HarmlessMessage ==
  ASSUME NEW e, NEW k \in {"START_SHOOT_DOWN", "START_DOUBLE_CHECK", "RESET"},
         NEW s \in Seq(Harmless(e))
  PROVE  Append(s, Msg(k, e)) \in Seq(Harmless(e))
<1>1. Msg(k, e) \in Harmless(e)
  BY DEF Msg, Harmless
<1>2. QED
  BY <1>1, AppendProperties

LEMMA BreakOffSolo ==
  ASSUME N = 1, SInv, WInv, NEW e \in Executor, BreakOff(e), UNCHANGED program
  PROVE  SInv'
<1>1. /\ Programmed /\ NoneWaits /\ Phase(e) /\ Looked(e)
      /\ pc \in [Executor -> Pc] /\ state \in [Executor -> State]
  BY DEF SInv, WInv, Mailed
<1>2. /\ pc[e] \in {"break", "polled"}
      /\ state' = [state EXCEPT ![e] = "NORMAL"]
      /\ tracking' = [tracking EXCEPT ![e] = FALSE] /\ fds' = fds
      /\ Send(e, Msg("RESET", e)) /\ pc' = SentTo(e, AfterTask(e))
      /\ UNCHANGED <<enabled, lock, ready, message, AlwaysTask, FdTask>>
  BY DEF BreakOff, Enter, Track, programVars, localVars, program
<1>3. mailbox'[e] = Append(mailbox[e], Msg("RESET", e)) /\ pc'[e] = AfterTask(e)
  BY <1>2, SendSolo, AfterTaskPc DEF Pc
<1>4. state'[e] = "NORMAL"
  BY <1>1, <1>2
<1>5. Between(e)
  BY <1>1, <1>2 DEF Phase, UnderWay, Ended
<1>6. Between(e)'
  <2>1. mailbox'[e] \in Seq(Harmless(e))
    BY <1>3, <1>5, HarmlessMessage DEF Between
  <2>2. pc'[e] \in {"fetch", "message"} /\ (pc'[e] = "message" => message[e] # NoMessage)
    BY <1>3 DEF AfterTask
  <2>3. Harmless(e)' = Harmless(e)
    BY DEF Harmless
  <2>4. QED
    BY <1>2, <1>4, <1>5, <2>1, <2>2, <2>3 DEF Between, Counting
<1>7. Looked(e)'
  BY <1>4 DEF Looked
<1>8. Programmed'
  BY <1>1, <1>2 DEF Programmed
<1>9. QED
  BY <1>1, <1>2, <1>6, <1>7, <1>8, SoloStep DEF NoneWaits, Phase

LEMMA HandleMessageSolo ==
  ASSUME N = 1, SInv, WInv, PInv, NEW e \in Executor, HandleMessage(e), UNCHANGED program
  PROVE  SInv'
<1> PICK m : m = message[e]
  OBVIOUS
<1>1. /\ Programmed /\ NoneWaits /\ Phase(e) /\ Looked(e) /\ e = 0
      /\ pc \in [Executor -> Pc] /\ state \in [Executor -> State] /\ mailbox \in [Executor -> Seq(Mail)]
      /\ message \in [Executor -> Mail \cup {NoMessage}]
  BY Single DEF SInv, WInv, Mailed
<1>2. /\ pc[e] = "message" /\ message' = [message EXCEPT ![e] = NoMessage]
      /\ UNCHANGED <<enabled, lock, kind, ready, result, AlwaysTask, FdTask>>
  BY DEF HandleMessage, programVars, program
<1>3. message'[e] = NoMessage
  BY <1>1, <1>2
<1>4. CASE UnderWay(e, "WAIT1", "START_WAITING1")
  <2>1. m = Msg("START_WAITING1", e) /\ state[e] = "WAIT1" /\ mailbox[e] = <<>>
    BY <1>2, <1>4 DEF UnderWay
  <2>2. m.kind = "START_WAITING1" /\ m.id = e
    BY <2>1 DEF Msg
  <2>3. OnStartWaiting1(e, m)
    BY <2>1, <2>2 DEF HandleMessage, OnStartShootDown, OnStartDoubleCheck, OnStartWaiting2,
                      OnTerminate, OnReset, Dropped, ActedOn
  <2>4. /\ Move(e, "DOUBLE_CHECK") /\ Track(e, TRUE)
        /\ Send(e, Msg("START_DOUBLE_CHECK", e)) /\ pc' = SentTo(e, "fetch")
    BY <2>2, <2>3 DEF OnStartWaiting1
  <2>5. mailbox'[e] = Append(mailbox[e], Msg("START_DOUBLE_CHECK", e)) /\ pc'[e] = "fetch"
    BY <2>4, SendSolo DEF Pc
  <2>6. mailbox'[e] \in Seq(Harmless(e))
    BY <2>1, <2>5, EmptySeq, HarmlessMessage
  <2>7. state'[e] = "DOUBLE_CHECK"
    BY <1>1, <2>4 DEF Move, Enter
  <2>8. Between(e)'
    <3>1. Harmless(e)' = Harmless(e)
      BY DEF Harmless
    <3>2. QED
      BY <1>3, <2>5, <2>6, <2>7, <3>1 DEF Between, Counting
  <2>9. Skipped(e)' = {}
    BY <1>2, <2>4, FreshCounted DEF Move
  <2>10. /\ tracking' = [tracking EXCEPT ![e] = TRUE] /\ fds' = [fds EXCEPT ![e] = {}]
    BY <2>4 DEF Track
  <2>11. Programmed' /\ tracking'[e]
    BY <1>1, <1>2, <2>10 DEF Programmed
  <2>12. Looked(e)'
    BY <2>7, <2>9, <2>11 DEF Looked
  <2>13. QED
    BY <1>1, <1>2, <2>8, <2>11, <2>12, SoloStep DEF NoneWaits, Phase
<1>5. CASE UnderWay(e, "WAIT2", "START_WAITING2")
  <2>1. m = Msg("START_WAITING2", e) /\ state[e] = "WAIT2" /\ mailbox[e] = <<>>
    BY <1>2, <1>5 DEF UnderWay
  <2>2. m.kind = "START_WAITING2" /\ m.id = e
    BY <2>1 DEF Msg
  <2>3. OnStartWaiting2(e, m)
    BY <2>1, <2>2 DEF HandleMessage, OnStartShootDown, OnStartDoubleCheck, OnStartWaiting1,
                      OnTerminate, OnReset, Dropped, ActedOn
  <2>4. /\ Send(e, Msg("TERMINATE", e)) /\ pc' = SentTo(e, "returned")
        /\ UNCHANGED <<state, points, current, tracking, fds>>
    BY <1>1, <2>2, <2>3 DEF OnStartWaiting2
  <2>5. mailbox'[e] = Append(mailbox[e], Msg("TERMINATE", e)) /\ pc'[e] = "returned"
    BY <2>4, SendSolo DEF Pc
  <2>6. Ended(e)'
    BY <2>1, <2>4, <2>5 DEF Ended, Msg
  <2>7. Looked(e)'
    BY <1>1, <1>2, <2>4, LookedStill DEF Hitting
  <2>8. QED
    BY <1>1, <1>2, <2>4, <2>6, <2>7, SoloStep DEF Programmed, NoneWaits, Phase
<1>6. CASE Between(e)
  <2>1. m \in Harmless(e)
    BY <1>2, <1>6 DEF Between
  <2>2. m.id = e /\ m.kind \in {"START_SHOOT_DOWN", "START_DOUBLE_CHECK", "RESET"}
    BY <2>1 DEF Harmless
  <2>3. Dropped(e, m)
    BY <2>2 DEF HandleMessage, OnStartShootDown, OnStartDoubleCheck, OnStartWaiting1,
                OnStartWaiting2, OnTerminate, OnReset
  <2>4. /\ pc' = [pc EXCEPT ![e] = "fetch"]
        /\ UNCHANGED <<mailbox, state, points, current, tracking, fds>>
    BY <2>3 DEF Dropped, Goto
  <2>5. pc'[e] = "fetch"
    BY <1>1, <2>4
  <2>6. Between(e)'
    <3>1. Harmless(e)' = Harmless(e) /\ TasksOf(e)' = TasksOf(e)
      BY DEF Harmless, TasksOf, Mine
    <3>2. QED
      BY <1>3, <1>6, <2>4, <2>5, <3>1 DEF Between
  <2>7. Looked(e)'
    BY <1>1, <1>2, <2>4, LookedStill DEF Hitting
  <2>8. QED
    BY <1>1, <1>2, <2>4, <2>6, <2>7, SoloStep DEF Programmed, NoneWaits, Phase
<1>7. QED
  BY <1>1, <1>2, <1>4, <1>5, <1>6 DEF Phase, Ended

-----------------------------------------------------------------------------
(* What the executor decides.  When all have skipped in the double check,  *)
(* none is enabled that does not wait for a descriptor it watches.         *)
LEMMA AllLooked ==
  ASSUME N = 1, SInv, PInv, NEW e \in Executor, pc[e] = "decide", state[e] = "DOUBLE_CHECK",
         AllSkipped(e)
  PROVE  FdTask \subseteq fds[e] /\ enabled \subseteq FdTask
<1>1. Mine(e) = Task /\ IsFiniteSet(Task)
  BY Single, Constants
<1>2. points[e] = Cardinality(Skipped(e)) /\ points[e] = Cardinality(Task)
  BY <1>1 DEF PInv, Counted, Counting, Pending, AllSkipped, TasksOf
<1>3. Skipped(e) \subseteq Task
  BY DEF Skipped, Mine
<1>4. Skipped(e) = Task
  BY <1>1, <1>2, <1>3, FS_Subset
<1>5. \A t \in Task : IF t \in FdTask THEN t \in fds[e] ELSE t \notin enabled
  BY <1>4 DEF SInv, Looked, Hitting
<1>6. QED
  BY <1>5 DEF SInv, Programmed

LEMMA DecideSolo ==
  ASSUME N = 1, SInv, WInv, PInv, NEW e \in Executor, Decide(e), UNCHANGED program
  PROVE  SInv'
<1>1. /\ Programmed /\ NoneWaits /\ Phase(e) /\ Looked(e)
      /\ pc \in [Executor -> Pc] /\ state \in [Executor -> State]
      /\ usingEventfd \in [Executor -> BOOLEAN]
  BY DEF SInv, WInv, Mailed
<1>2. /\ pc[e] = "decide" /\ points[e] = TasksOf(e)
      /\ UNCHANGED <<enabled, lock, kind, ready, message, tracking, fds, AlwaysTask, FdTask>>
  BY DEF Decide, AllSkipped, programVars, localVars, program
<1>3. Between(e)
  BY <1>1, <1>2 DEF Phase, UnderWay, Ended
<1>4. /\ mailbox[e] = <<>>
      /\ Harmless(e)' = Harmless(e) /\ TasksOf(e)' = TasksOf(e)
  BY <1>2, <1>3 DEF Between, Harmless, TasksOf, Mine
<1>5. Programmed' /\ NoneWaits'
  BY <1>1, <1>2 DEF Programmed, NoneWaits
<1>6. ASSUME Phase(e)', Looked(e)' PROVE SInv'
  BY <1>5, <1>6, SoloStep DEF NoneWaits
<1>7. CASE DecideShootDown(e)
  <2>1. /\ state' = [state EXCEPT ![e] = "SHOOT_DOWN"]
        /\ Send(e, Msg("START_SHOOT_DOWN", e)) /\ pc' = SentTo(e, "fetch")
    BY <1>7 DEF DecideShootDown, Move, Enter
  <2>2. mailbox'[e] = Append(mailbox[e], Msg("START_SHOOT_DOWN", e)) /\ pc'[e] = "fetch"
    BY <2>1, SendSolo DEF Pc
  <2>3. mailbox'[e] \in Seq(Harmless(e))
    BY <1>4, <2>2, EmptySeq, HarmlessMessage
  <2>4. state'[e] = "SHOOT_DOWN"
    BY <1>1, <2>1
  <2>5. Between(e)'
    BY <1>2, <1>3, <1>4, <2>2, <2>3, <2>4 DEF Between, Counting
  <2>6. Looked(e)'
    BY <2>4 DEF Looked
  <2>7. QED
    BY <1>6, <2>5, <2>6 DEF Phase
<1>8. CASE DecideWait(e, "SHOOT_DOWN", "WAIT1", "START_WAITING1")
  <2>1. /\ state' = [state EXCEPT ![e] = "WAIT1"]
        /\ Send(e, Msg("START_WAITING1", e)) /\ pc' = SentTo(e, "fetch")
    BY <1>8 DEF DecideWait, Enter
  <2>2. mailbox'[e] = Append(mailbox[e], Msg("START_WAITING1", e)) /\ pc'[e] = "fetch"
    BY <2>1, SendSolo DEF Pc
  <2>3. state'[e] = "WAIT1"
    BY <1>1, <2>1
  <2>4. UnderWay(e, "WAIT1", "START_WAITING1")'
    BY <1>4, <2>2, <2>3 DEF UnderWay, Msg
  <2>5. Looked(e)'
    BY <2>3 DEF Looked
  <2>6. QED
    BY <1>6, <2>4, <2>5 DEF Phase
<1>9. CASE fds[e] = {} /\ DecideWait(e, "DOUBLE_CHECK", "WAIT2", "START_WAITING2")
  <2>1. /\ state[e] = "DOUBLE_CHECK"
        /\ state' = [state EXCEPT ![e] = "WAIT2"]
        /\ Send(e, Msg("START_WAITING2", e)) /\ pc' = SentTo(e, "fetch")
    BY <1>9 DEF DecideWait, Enter
  <2>2. mailbox'[e] = Append(mailbox[e], Msg("START_WAITING2", e)) /\ pc'[e] = "fetch"
    BY <2>1, SendSolo DEF Pc
  <2>3. state'[e] = "WAIT2"
    BY <1>1, <2>1
  <2>4. UnderWay(e, "WAIT2", "START_WAITING2")'
    BY <1>4, <2>2, <2>3 DEF UnderWay, Msg
  <2>5. FdTask = {} /\ enabled = {}
    BY <1>2, <1>9, <2>1, AllLooked DEF AllSkipped
  <2>6. Looked(e)'
    BY <1>2, <2>3, <2>5 DEF Looked
  <2>7. QED
    BY <1>6, <2>4, <2>6 DEF Phase
<1>10. CASE DecidePoll(e)
  <2>1. /\ state[e] = "DOUBLE_CHECK"
        /\ state' = [state EXCEPT ![e] = "POLL"]
        /\ pc' = [pc EXCEPT ![e] = "fetch"]
        /\ UNCHANGED <<points, mailbox>>
    BY <1>10 DEF DecidePoll, Enter, Goto
  <2>2. state'[e] = "POLL" /\ pc'[e] = "fetch"
    BY <1>1, <2>1
  <2>3. Between(e)'
    BY <1>2, <1>3, <1>4, <2>1, <2>2 DEF Between
  <2>4. FdTask \subseteq fds[e] /\ enabled \subseteq FdTask
    BY <1>2, <2>1, AllLooked DEF AllSkipped
  <2>5. Looked(e)'
    BY <1>2, <2>2, <2>4 DEF Looked
  <2>6. QED
    BY <1>6, <2>3, <2>5 DEF Phase
<1>11. CASE DecideBlock(e)
  <2>1. state[e] = "POLL"
    BY <1>3, <1>11 DEF DecideBlock, Between, Counting
  <2>2. pc' = [pc EXCEPT ![e] = "poll"] /\ UNCHANGED <<state, points, current, mailbox>>
    BY <1>11, <2>1 DEF DecideBlock, Goto
  <2>3. pc'[e] = "poll"
    BY <1>1, <2>2
  <2>4. Between(e)'
    BY <1>2, <1>3, <1>4, <2>1, <2>2, <2>3 DEF Between
  <2>5. Looked(e)'
    BY <1>1, <1>2, <2>2, LookedStill DEF Hitting
  <2>6. QED
    BY <1>6, <2>4, <2>5 DEF Phase
<1>12. QED
  BY <1>7, <1>8, <1>9, <1>10, <1>11 DEF Decide

(* A task is taken from the idle list: with one executor they are all      *)
(* there, so that it never has to sleep.                                   *)
LEMMA StartIdleSolo ==
  ASSUME N = 1, SInv, IInv, WInv, PInv, NEW e \in Executor, StartIdle(e), UNCHANGED program
  PROVE  SInv'
<1>1. /\ Programmed /\ NoneWaits /\ Phase(e) /\ Looked(e) /\ pc \in [Executor -> Pc]
  BY DEF SInv, WInv, Mailed
<1>2. /\ pc[e] = "decide" /\ points[e] # TasksOf(e)
      /\ UNCHANGED <<enabled, lock, kind, current, ready, mailbox, message, tracking, fds, state,
                     AlwaysTask, FdTask>>
  BY DEF StartIdle, AllSkipped, programVars, fdVars, program
<1>3. Between(e)
  BY <1>1, <1>2 DEF Phase, UnderWay, Ended
<1>4. state[e] \in Counting
  BY <1>2, <1>3 DEF Between
<1>5. idle[e] # <<>>
  <2>1. SUFFICES ASSUME idle[e] = <<>> PROVE FALSE
    OBVIOUS
  <2>2. Task = {}
    BY <1>2, <2>1, SoloLocks DEF Working
  <2>3. Skipped(e) = {} /\ Mine(e) = {}
    BY <2>2 DEF Skipped, Mine
  <2>4. points[e] = Cardinality(Skipped(e))
    BY <1>2, <1>4 DEF PInv, Counted, Pending
  <2>5. QED
    BY <1>2, <2>3, <2>4 DEF TasksOf
<1>6. pc'[e] = "lock"
  BY <1>1, <1>4, <1>5 DEF StartIdle, Goto
<1>7. Between(e)'
  BY <1>2, <1>3, <1>4, <1>6, WorksOn
<1>8. Looked(e)'
  BY <1>1, <1>2, LookedStill DEF Hitting
<1>9. QED
  BY <1>1, <1>2, <1>7, <1>8, SoloStep DEF Programmed, NoneWaits, Phase

LEMMA PollSolo ==
  ASSUME N = 1, SInv, WInv, NEW e \in Executor, Poll(e), UNCHANGED program
  PROVE  SInv'
<1>1. /\ Programmed /\ NoneWaits /\ Phase(e) /\ Looked(e) /\ pc \in [Executor -> Pc]
  BY DEF SInv, WInv, Mailed
<1>2. /\ pc[e] = "poll" /\ pc' = [pc EXCEPT ![e] = IF FdIsReady(e) THEN "polled" ELSE "fetch"]
      /\ UNCHANGED <<enabled, lock, kind, current, ready, mailbox, message, tracking, fds, state,
                     points, AlwaysTask, FdTask>>
  BY DEF Poll, Goto, programVars, taskVars, fdVars, localVars, program
<1>3. Between(e)
  BY <1>1, <1>2 DEF Phase, UnderWay, Ended
<1>4. pc'[e] \in {"polled", "fetch"}
  BY <1>1, <1>2
<1>5. Between(e)'
  <2>1. Harmless(e)' = Harmless(e) /\ TasksOf(e)' = TasksOf(e)
    BY DEF Harmless, TasksOf, Mine
  <2>2. QED
    BY <1>2, <1>3, <1>4, <2>1 DEF Between
<1>6. Looked(e)'
  BY <1>1, <1>2, LookedStill DEF Hitting
<1>7. QED
  BY <1>1, <1>2, <1>5, <1>6, SoloStep DEF Programmed, NoneWaits, Phase

(* A descriptor that becomes ready is watched, or will be looked at.       *)
LEMMA FdReadySolo ==
  ASSUME N = 1, SInv, NEW t \in FdTask, FdReady(t), UNCHANGED program
  PROVE  SInv'
<1>1. /\ enabled' = enabled \cup {t}
      /\ UNCHANGED <<lock, kind, current, ready, mailbox, message, result, tracking, fds, pc, state, points,
                     AlwaysTask, FdTask>>
  BY DEF FdReady, taskVars, fdVars, localVars, program
<1>2. ASSUME NEW e \in Executor PROVE Phase(e)' /\ Looked(e)'
  <2>1. Phase(e) /\ Looked(e)
    BY DEF SInv
  <2>2. /\ Harmless(e)' = Harmless(e) /\ TasksOf(e)' = TasksOf(e)
        /\ Skipped(e)' = Skipped(e)
    BY <1>1 DEF Harmless, TasksOf, Mine, Skipped
  <2>3. Phase(e)'
    BY <1>1, <2>1, <2>2 DEF Phase, UnderWay, Ended, Between, Msg
  <2>4. Looked(e)'
    BY <1>1, <2>1, <2>2 DEF Looked, Hitting, Breaks
  <2>5. QED
    BY <2>3, <2>4
<1>3. QED
  BY <1>1, <1>2 DEF SInv, Programmed, NoneWaits

LEMMA NextSInv ==
  ASSUME N = 1, SInv, IInv, WInv, PInv, [Next]_<<vars, program>>
  PROVE  SInv'
<1>1. ASSUME NEW e \in Executor, Step(e), UNCHANGED program PROVE SInv'
  <2>1. ~Wake(e)
    BY SoloLocks DEF Wake
  <2>2. QED
    BY <1>1, <2>1, FetchSolo, LockNextSolo, RunSolo, UnlockNextSolo, BreakOffSolo,
       HandleMessageSolo, DecideSolo, StartIdleSolo, PollSolo DEF Step
<1>2. CASE UNCHANGED <<vars, program>>
  <2>1. ASSUME NEW e \in Executor PROVE Phase(e)' /\ Looked(e)'
    <3>1. Phase(e) /\ Looked(e)
      BY DEF SInv
    <3>2. /\ Harmless(e)' = Harmless(e) /\ TasksOf(e)' = TasksOf(e)
          /\ Skipped(e)' = Skipped(e)
      BY <1>2 DEF Harmless, TasksOf, Mine, Skipped, vars
    <3>3. Phase(e)'
      BY <1>2, <3>1, <3>2 DEF Phase, UnderWay, Ended, Between, Msg, vars
    <3>4. Looked(e)'
      BY <1>2, <3>1, <3>2 DEF Looked, Hitting, Breaks, vars, program
    <3>5. QED
      BY <3>3, <3>4
  <2>2. QED
    BY <1>2, <2>1 DEF SInv, Programmed, NoneWaits, vars, program
<1>3. QED
  BY <1>1, <1>2, FdReadySolo DEF Next

(* What the invariant of one executor says about its end.                  *)
LEMMA SoloMeans ==
  ASSUME N = 1, SInv
  PROVE  NeverAborts /\ TerminationIsUnanimous /\ TerminatesOnlyWhenDone /\ WaitsOnlyWhenDone
<1> PICK e \in Executor : Executor = {e}
  <2>1. 0 \in Executor
    BY DEF Executor
  <2>2. QED
    BY <2>1, Single
<1>1. Programmed /\ Phase(e) /\ Looked(e)
  BY DEF SInv
<1>2. pc[e] \notin {"aborted", "asleep"}
  BY <1>1 DEF Phase, UnderWay, Ended, Between
<1>3. Terminating => Ended(e)
  <2>1. ASSUME ~Ended(e) PROVE pc[e] # "returned"
    BY <1>1, <2>1 DEF Phase, UnderWay, Between
  <2>2. ASSUME ~Ended(e), NEW k \in DOMAIN mailbox[e] PROVE mailbox[e][k].kind # "TERMINATE"
    <3>1. CASE Between(e)
      <4>1. mailbox[e] \in Seq(Harmless(e))
        BY <3>1 DEF Between
      <4>2. k \in 1 .. Len(mailbox[e])
        BY <2>2, <4>1, LenProperties
      <4>3. mailbox[e][k] \in Harmless(e)
        BY <4>1, <4>2, ElementOfSeq
      <4>4. QED
        BY <4>3 DEF Harmless
    <3>2. CASE UnderWay(e, "WAIT1", "START_WAITING1") \/ UnderWay(e, "WAIT2", "START_WAITING2")
      BY <2>2, <3>2 DEF UnderWay, Msg
    <3>3. QED
      BY <1>1, <2>2, <3>1, <3>2 DEF Phase
  <2>3. QED
    BY <2>1, <2>2 DEF Terminating
<1>4. NeverAborts
  BY <1>2 DEF NeverAborts
<1>5. TerminationIsUnanimous
  BY <1>3 DEF TerminationIsUnanimous, Ended
<1>6. TerminatesOnlyWhenDone
  BY <1>1, <1>3 DEF TerminatesOnlyWhenDone, Ended, Looked
<1>7. WaitsOnlyWhenDone
  <2>1. SUFFICES ASSUME pc[e] \in {"asleep", "poll"}, ~FdIsReady(e) PROVE enabled = {}
    BY DEF WaitsOnlyWhenDone, AllWait
  <2>2. state[e] = "POLL"
    BY <1>1, <1>2, <2>1 DEF Phase, UnderWay, Ended, Between
  <2>3. QED
    BY <1>1, <2>1, <2>2 DEF Looked, FdIsReady
<1>8. QED
  BY <1>4, <1>5, <1>6, <1>7

LEMMA SoloInvariant == ASSUME N = 1 PROVE Spec => []SInv
<1>1. Spec => []IInv
  BY LocksAccounted
<1>2. Spec => []WInv
  BY AlwaysAwake
<1>3. PInv /\ WInv /\ IInv /\ [Next]_<<vars, program>> => PInv'
  BY NextPInv
<1>4. SInv /\ PInv /\ WInv /\ IInv /\ [Next]_<<vars, program>> => SInv'
  BY NextSInv
<1>5. Init => SInv
  BY InitSInv
<1>6. QED
  BY <1>1, <1>2, <1>3, <1>4, <1>5, InitPInv, PTL DEF Spec

(* run_i with one thread and any program reaches no NOT_REACHED and fails  *)
(* no assertion.                                                           *)
THEOREM OneThreadNeverAborts == ASSUME N = 1 PROVE Spec => []NeverAborts
<1>1. SInv => NeverAborts
  BY SoloMeans
<1>2. QED
  BY <1>1, SoloInvariant, PTL

(* run_i with one thread: the messages an executor sends itself find it in *)
(* the states they were sent in, so that it returns out of WAIT2.          *)
THEOREM OneThreadUnanimous == ASSUME N = 1 PROVE Spec => []TerminationIsUnanimous
<1>1. SInv => TerminationIsUnanimous
  BY SoloMeans
<1>2. QED
  BY <1>1, SoloInvariant, PTL

(* run_i with one thread returns only when no action can run: the double   *)
(* check has looked at every task since the last one that ran.             *)
THEOREM OneThreadEndsDone == ASSUME N = 1 PROVE Spec => []TerminatesOnlyWhenDone
<1>1. SInv => TerminatesOnlyWhenDone
  BY SoloMeans
<1>2. QED
  BY <1>1, SoloInvariant, PTL

(* sleep and poll with one thread: it waits only for descriptors, when it  *)
(* watches those of all the actions that have one and nothing else can run. *)
THEOREM OneThreadRestsDone == ASSUME N = 1 PROVE Spec => []WaitsOnlyWhenDone
<1>1. SInv => WaitsOnlyWhenDone
  BY SoloMeans
<1>2. QED
  BY <1>1, SoloInvariant, PTL

-----------------------------------------------------------------------------
(***************************************************************************)
(* The ring with two threads (the default of main.cpp).  A message says    *)
(* who sent it first but not in which round, so that old ones are acted    *)
(* on, and the executors may be rounds apart.  What holds all the same is  *)
(* about the RESETs: once an executor is done with the double check, no    *)
(* RESET of the other is on its way to it unless the other has gone back   *)
(* to NORMAL and has yet to be stopped on its way to WAIT2.                *)
(***************************************************************************)
Coming(e, m) == m # NoMessage /\ (message[e] = m \/ Has(mailbox[e], m))

Letter == [kind : MessageKind \ {"TERMINATE"}, id : Executor] \cup {Msg("TERMINATE", 0)}

(* Done with the double check: all skipped once more, and no message.      *)
Done(e) == state[e] = "WAIT2" \/ (state[e] = "DOUBLE_CHECK" /\ pc[e] = "decide")

(* Nothing takes f back behind the double check when e is in it too.       *)
NoReset(e, f) ==
  Done(f) /\ state[e] \in {"DOUBLE_CHECK", "WAIT2"} => ~Coming(f, Msg("RESET", e))

(* Nor when e is about to enter it.                                        *)
Enters(e, f) ==
  /\ state[e] = "WAIT1" \/ (state[e] = "SHOOT_DOWN" /\ pc[e] = "decide")
  /\ Coming(e, Msg("START_WAITING1", e)) \/ Coming(e, Msg("START_DOUBLE_CHECK", f))
NoResetBefore(e, f) == Done(f) /\ Enters(e, f) => ~Coming(f, Msg("RESET", e))

(* A START_WAITING2 that f is going to pass on comes back in time.         *)
Returns(e, f) == Done(f) /\ Coming(f, Msg("START_WAITING2", e)) => state[e] = "WAIT2"

Concludes(e) ==
  \/ pc[e] = "returned"
  \/ Coming(e, Msg("START_WAITING2", e))
  \/ Coming(e, Msg("TERMINATE", 0))
Unanimous == (\E e \in Executor : Concludes(e)) => \A e \in Executor : state[e] = "WAIT2"

Lettered(e) == \A m : Coming(e, m) => m \in Letter
Paced(e) ==
  /\ pc[e] = "break" => state[e] \in {"SHOOT_DOWN", "DOUBLE_CHECK"}
  /\ pc[e] \in {"poll", "polled"} => state[e] = "POLL"

DInv ==
  /\ \A e \in Executor : Lettered(e) /\ Paced(e)
  /\ \A e, f \in Executor : e # f => NoReset(e, f) /\ NoResetBefore(e, f) /\ Returns(e, f)
  /\ Unanimous

(* With two executors the next one is the other one.                       *)
LEMMA Two ==
  ASSUME N = 2, NEW e \in Executor
  PROVE  /\ (e + 1) % N \in Executor /\ (e + 1) % N # e
         /\ Executor = {e, (e + 1) % N}
<1>1. Executor = {0, 1}
  BY DEF Executor
<1>2. (0 + 1) % 2 = 1 /\ (1 + 1) % 2 = 0
  OBVIOUS
<1>3. QED
  BY <1>1, <1>2

LEMMA InitDInv == Init => DInv
<1> SUFFICES ASSUME Init PROVE DInv
  OBVIOUS
<1>1. ASSUME NEW e \in Executor
      PROVE /\ state[e] = "NORMAL" /\ pc[e] = "fetch" /\ mailbox[e] = <<>>
            /\ message[e] = NoMessage
  BY DEF Init
<1>2. ASSUME NEW e \in Executor, NEW m PROVE ~Coming(e, m)
  BY <1>1, HasEmpty DEF Coming
<1>3. QED
  BY <1>1, <1>2 DEF DInv, Lettered, Paced, NoReset, NoResetBefore, Returns, Unanimous, Concludes,
                    Enters

-----------------------------------------------------------------------------
(* A step that changes no state and sends no message.                      *)
LEMMA RingStill ==
  ASSUME DInv, state' = state,
         \A e \in Executor : \A m : Coming(e, m)' => Coming(e, m),
         \A e \in Executor : pc'[e] = "decide" => pc[e] = "decide" \/ \A m : ~Coming(e, m)',
         \A e \in Executor : pc'[e] = "returned" => pc[e] = "returned",
         \A e \in Executor : Paced(e)'
  PROVE  DInv'
<1>1. \A e \in Executor : Lettered(e)'
  <2>1. Letter' = Letter
    BY DEF Letter, Executor, Msg
  <2>2. QED
    BY <2>1 DEF DInv, Lettered
<1>2. ASSUME NEW e \in Executor, NEW f \in Executor, e # f
      PROVE  NoReset(e, f)' /\ NoResetBefore(e, f)' /\ Returns(e, f)'
  <2>1. NoReset(e, f) /\ NoResetBefore(e, f) /\ Returns(e, f)
    BY <1>2 DEF DInv
  <2>2. Done(f)' => Done(f) \/ \A m : ~Coming(f, m)'
    BY DEF Done
  <2>3. Enters(e, f)' => Enters(e, f)
    BY DEF Enters
  <2>4. NoReset(e, f)' /\ Returns(e, f)'
    BY <2>1, <2>2 DEF NoReset, Returns
  <2>5. NoResetBefore(e, f)'
    BY <2>1, <2>2, <2>3 DEF NoResetBefore
  <2>6. QED
    BY <2>4, <2>5
<1>3. Unanimous'
  BY DEF DInv, Unanimous, Concludes
<1>4. QED
  BY <1>1, <1>2, <1>3 DEF DInv

(* A step of e into the state s that sends m to the other executor f.      *)
LEMMA RingSends ==
  ASSUME DInv, NEW e \in Executor, NEW f \in Executor, Executor = {e, f}, e # f,
         NEW s, NEW m \in Letter, state'[e] = s, state'[f] = state[f],
         \A x : Coming(e, x)' => Coming(e, x),
         \A x : Coming(f, x)' => Coming(f, x) \/ x = m,
         pc'[e] \in {"fetch", "message", "returned"},
         pc'[f] = pc[f] \/ pc'[f] = "fetch",
         Done(f) /\ s \in {"DOUBLE_CHECK", "WAIT2"} =>
           ~Coming(f, Msg("RESET", e)) /\ m # Msg("RESET", e),
         Done(f) /\ s = "WAIT1"
           /\ (Coming(e, Msg("START_WAITING1", e)) \/ Coming(e, Msg("START_DOUBLE_CHECK", f))) =>
           ~Coming(f, Msg("RESET", e)) /\ m # Msg("RESET", e),
         Done(f) /\ (Coming(f, Msg("START_WAITING2", e)) \/ m = Msg("START_WAITING2", e)) =>
           s = "WAIT2",
         s = "WAIT2" =>
           Done(e) /\ m # Msg("START_WAITING1", f) /\ m # Msg("START_DOUBLE_CHECK", e),
         Concludes(e) \/ Concludes(f) \/ pc'[e] = "returned"
           \/ m \in {Msg("START_WAITING2", f), Msg("TERMINATE", 0)} =>
           s = "WAIT2" /\ state[f] = "WAIT2"
  PROVE  DInv'
<1>1. Letter' = Letter
  BY DEF Letter, Executor, Msg
<1>2. \A x \in Executor : Lettered(x)' /\ Paced(x)'
  BY <1>1 DEF DInv, Lettered, Paced
<1>3. Done(f)' => Done(f)
  BY DEF Done
<1>4. Done(e)' => s = "WAIT2"
  BY DEF Done
<1>5. NoReset(e, f)' /\ NoResetBefore(e, f)' /\ Returns(e, f)'
  <2>1. NoReset(e, f)'
    BY <1>3 DEF NoReset
  <2>2. NoResetBefore(e, f)'
    <3>1. Enters(e, f)' =>
            s = "WAIT1" /\ (Coming(e, Msg("START_WAITING1", e))
                            \/ Coming(e, Msg("START_DOUBLE_CHECK", f)))
      BY DEF Enters
    <3>2. QED
      BY <1>3, <3>1 DEF NoResetBefore
  <2>3. Returns(e, f)'
    BY <1>3 DEF Returns
  <2>4. QED
    BY <2>1, <2>2, <2>3
<1>6. NoReset(f, e)' /\ NoResetBefore(f, e)' /\ Returns(f, e)'
  <2>1. NoReset(f, e) /\ NoResetBefore(f, e) /\ Returns(f, e)
    BY DEF DInv
  <2>2. Enters(f, e)' /\ s = "WAIT2" => Enters(f, e)
    BY DEF Enters
  <2>3. NoReset(f, e)'
    BY <1>4, <2>1 DEF NoReset
  <2>4. NoResetBefore(f, e)'
    BY <1>4, <2>1, <2>2 DEF NoResetBefore
  <2>5. Returns(f, e)'
    BY <1>4, <2>1 DEF Returns
  <2>6. QED
    BY <2>3, <2>4, <2>5
<1>7. Unanimous'
  <2>1. Concludes(e)' => Concludes(e) \/ pc'[e] = "returned"
    BY DEF Concludes
  <2>2. Concludes(f)' =>
          Concludes(f) \/ m \in {Msg("START_WAITING2", f), Msg("TERMINATE", 0)}
    BY DEF Concludes
  <2>3. QED
    BY <2>1, <2>2 DEF Unanimous
<1>8. QED
  BY <1>2, <1>5, <1>6, <1>7 DEF DInv

LEMMA LetterMail == Letter \subseteq Mail
<1>1. Msg("TERMINATE", 0) \in Mail
  BY MsgMail DEF MessageKind
<1>2. [kind : MessageKind \ {"TERMINATE"}, id : Executor] \subseteq Mail
  BY ExecutorNat DEF Mail
<1>3. QED
  BY <1>1, <1>2 DEF Letter

(* A message is what its kind and its sender say. *)
LEMMA LetterIs ==
  /\ \A m \in Letter : m = Msg(m.kind, m.id) /\ m.id \in Executor
  /\ \A m \in Letter : m.kind = "TERMINATE" => m = Msg("TERMINATE", 0)
  /\ \A k, e, l, f : Msg(k, e) = Msg(l, f) <=> k = l /\ e = f
  /\ \A k \in MessageKind \ {"TERMINATE"}, e \in Executor : Msg(k, e) \in Letter
  /\ Msg("TERMINATE", 0) \in Letter
  /\ \A k, e : Msg(k, e).kind = k /\ Msg(k, e).id = e
<1>1. 0 \in Executor
  BY ConstantsAssumption DEF Executor
<1>2. QED
  BY <1>1 DEF Letter, Msg, MessageKind

LEMMA SendDuo ==
  ASSUME N = 2, WInv, NEW e \in Executor, NEW f \in Executor, f = (e + 1) % N,
         NEW m \in Letter, Send(e, m),
         NEW p \in Pc, pc' = SentTo(e, p),
         message' \in {message, [message EXCEPT ![e] = NoMessage]}
  PROVE  /\ \A x : Coming(e, x)' => Coming(e, x)
         /\ \A x : Coming(f, x)' => Coming(f, x) \/ x = m
         /\ pc'[e] = p
         /\ pc'[f] = pc[f] \/ pc'[f] = "fetch"
<1>1. f # e
  BY Two
<1>2. /\ pc \in [Executor -> Pc] /\ mailbox \in [Executor -> Seq(Mail)]
      /\ message \in [Executor -> Mail \cup {NoMessage}]
  BY DEF WInv, Mailed
<1>3. m \in Mail
  BY LetterMail
<1>4. /\ mailbox' = [mailbox EXCEPT ![f] = Append(@, m)]
      /\ pc' = [Signal(f, mailbox[f] = <<>>) EXCEPT ![e] = p]
  BY DEF Send, SentTo
<1>5. mailbox'[e] = mailbox[e] /\ mailbox'[f] = Append(mailbox[f], m)
  BY <1>1, <1>2, <1>4
<1>6. \A x : Has(mailbox'[f], x) <=> Has(mailbox[f], x) \/ x = m
  BY <1>1, <1>2, <1>3, <1>5, AppendList
<1>7. message'[f] = message[f] /\ message'[e] \in {message[e], NoMessage}
  BY <1>1, <1>2
<1>8. pc'[e] = p /\ (pc'[f] = pc[f] \/ pc'[f] = "fetch")
  BY <1>1, <1>2, <1>4, SignalShape
<1>9. \A x : Coming(e, x)' => Coming(e, x)
  BY <1>5, <1>7 DEF Coming
<1>10. \A x : Coming(f, x)' => Coming(f, x) \/ x = m
  BY <1>6, <1>7 DEF Coming
<1>11. QED
  BY <1>8, <1>9, <1>10

(* Both together: e enters the state s and sends m. *)
LEMMA SendsAndEnters ==
  ASSUME N = 2, WInv, DInv, NEW e \in Executor, NEW f \in Executor, f = (e + 1) % N,
         NEW m \in Letter, Send(e, m),
         NEW p \in {"fetch", "message", "returned"}, pc' = SentTo(e, p),
         message' \in {message, [message EXCEPT ![e] = NoMessage]},
         NEW s, state' = [state EXCEPT ![e] = s],
         Done(f) /\ s \in {"DOUBLE_CHECK", "WAIT2"} =>
           ~Coming(f, Msg("RESET", e)) /\ m # Msg("RESET", e),
         Done(f) /\ s = "WAIT1"
           /\ (Coming(e, Msg("START_WAITING1", e)) \/ Coming(e, Msg("START_DOUBLE_CHECK", f))) =>
           ~Coming(f, Msg("RESET", e)) /\ m # Msg("RESET", e),
         Done(f) /\ (Coming(f, Msg("START_WAITING2", e)) \/ m = Msg("START_WAITING2", e)) =>
           s = "WAIT2",
         s = "WAIT2" =>
           Done(e) /\ m # Msg("START_WAITING1", f) /\ m # Msg("START_DOUBLE_CHECK", e),
         Concludes(e) \/ Concludes(f) \/ p = "returned"
           \/ m \in {Msg("START_WAITING2", f), Msg("TERMINATE", 0)} =>
           s = "WAIT2" /\ state[f] = "WAIT2"
  PROVE  DInv'
<1>1. e # f /\ Executor = {e, f}
  BY Two
<1>2. state'[e] = s /\ state'[f] = state[f]
  BY <1>1 DEF WInv, Mailed
<1>3. /\ \A x : Coming(e, x)' => Coming(e, x)
      /\ \A x : Coming(f, x)' => Coming(f, x) \/ x = m
      /\ pc'[e] = p
      /\ pc'[f] = pc[f] \/ pc'[f] = "fetch"
  BY SendDuo DEF Pc
<1>4. QED
  BY <1>1, <1>2, <1>3, RingSends

(* What the invariant says of the two. *)
LEMMA Between2 ==
  ASSUME N = 2, DInv, NEW e \in Executor, NEW f \in Executor, f = (e + 1) % N
  PROVE  /\ e # f /\ Executor = {e, f} /\ Lettered(e) /\ Paced(e)
         /\ NoReset(e, f) /\ NoResetBefore(e, f) /\ Returns(e, f)
         /\ NoReset(f, e) /\ NoResetBefore(f, e) /\ Returns(f, e)
         /\ Concludes(e) \/ Concludes(f) => state[e] = "WAIT2" /\ state[f] = "WAIT2"
<1>1. e # f /\ Executor = {e, f}
  BY Two
<1>2. QED
  BY <1>1 DEF DInv, Unanimous

(* A step of e that leaves the messages and the state alone.               *)
LEMMA OwnDuo ==
  ASSUME DInv, WInv, NEW e \in Executor, UNCHANGED <<state, mailbox, message>>,
         NEW p \in Pc \ {"decide", "returned"},
         p = "break" => state[e] \in {"SHOOT_DOWN", "DOUBLE_CHECK"},
         p \in {"poll", "polled"} => state[e] = "POLL",
         pc'[e] = p, \A g \in Executor \ {e} : pc'[g] = pc[g] \/ pc'[g] = "fetch"
  PROVE  DInv'
<1>1. \A g \in Executor : Paced(g)'
  BY DEF DInv, Paced
<1>2. \A g \in Executor : \A m : Coming(g, m)' => Coming(g, m)
  BY DEF Coming
<1>3. \A g \in Executor : pc'[g] = "decide" => pc[g] = "decide" \/ \A m : ~Coming(g, m)'
  OBVIOUS
<1>4. \A g \in Executor : pc'[g] = "returned" => pc[g] = "returned"
  OBVIOUS
<1>5. state' = state
  OBVIOUS
<1>6. QED
  BY <1>1, <1>2, <1>3, <1>4, <1>5, RingStill

LEMMA BreakOffDuo ==
  ASSUME N = 2, DInv, WInv, NEW e \in Executor, BreakOff(e)
  PROVE  DInv'
<1> PICK f : f = (e + 1) % N
  OBVIOUS
<1>1. f \in Executor
  BY Two
<1>2. /\ Paced(e) /\ NoReset(f, e) /\ Returns(e, f)
      /\ Concludes(e) \/ Concludes(f) => state[e] = "WAIT2"
  BY <1>1, Between2
<1>3. /\ pc[e] \in {"break", "polled"}
      /\ state' = [state EXCEPT ![e] = "NORMAL"]
      /\ Send(e, Msg("RESET", e)) /\ pc' = SentTo(e, AfterTask(e))
      /\ message' = message
  BY DEF BreakOff, Enter, localVars
<1>4. state[e] \in {"SHOOT_DOWN", "DOUBLE_CHECK", "POLL"}
  BY <1>2, <1>3 DEF Paced
<1>5. ~Concludes(e) /\ ~Concludes(f) /\ (Done(f) => ~Coming(f, Msg("START_WAITING2", e)))
  BY <1>2, <1>4 DEF Returns
<1>6. Msg("RESET", e) \in Letter
  BY LetterIs DEF MessageKind
<1>7. /\ Msg("RESET", e) # Msg("START_WAITING2", e)
      /\ Msg("RESET", e) \notin {Msg("START_WAITING2", f), Msg("TERMINATE", 0)}
  BY LetterIs
<1>8. AfterTask(e) \in {"fetch", "message"}
  BY AfterTaskPc
<1>9. QED
  BY <1>1, <1>3, <1>5, <1>6, <1>7, <1>8, SendsAndEnters

LEMMA HandleMessageDuo ==
  ASSUME N = 2, DInv, WInv, NEW e \in Executor, HandleMessage(e)
  PROVE  DInv'
<1> PICK f : f = (e + 1) % N
  OBVIOUS
<1> PICK m : m = message[e]
  OBVIOUS
<1>1. /\ f \in Executor
      /\ pc \in [Executor -> Pc] /\ state \in [Executor -> State]
      /\ message \in [Executor -> Mail \cup {NoMessage}]
  BY Two DEF WInv, Mailed
<1>2. /\ e # f /\ Executor = {e, f} /\ Lettered(e)
      /\ NoReset(e, f) /\ NoResetBefore(e, f) /\ Returns(e, f)
      /\ NoReset(f, e) /\ NoResetBefore(f, e) /\ Returns(f, e)
      /\ Concludes(e) \/ Concludes(f) => state[e] = "WAIT2" /\ state[f] = "WAIT2"
  BY <1>1, Between2
<1>3. pc[e] = "message" /\ message' = [message EXCEPT ![e] = NoMessage]
  BY DEF HandleMessage
<1>4. m.kind \in MessageKind => m \in Letter /\ Coming(e, m)
  <2>1. m.kind \in MessageKind => m # NoMessage
    BY DEF NoMessage, MessageKind
  <2>2. QED
    BY <1>2, <2>1 DEF Coming, Lettered
<1>5. ASSUME NEW k \in MessageKind \ {"TERMINATE"}, m.kind = k
      PROVE  /\ m \in Letter /\ Coming(e, m)
             /\ m.id = e => m = Msg(k, e)
             /\ m.id # e => m = Msg(k, f)
  BY <1>2, <1>4, <1>5, LetterIs
<1>6. MessageKind = {"START_SHOOT_DOWN", "START_WAITING1", "START_DOUBLE_CHECK",
                     "START_WAITING2", "TERMINATE", "RESET"}
  BY DEF MessageKind
<1>7. state' = state => state' = [state EXCEPT ![e] = state[e]]
  BY <1>1
<1>8. CASE OnStartShootDown(e, m)
  <2>1. /\ m = Msg("START_SHOOT_DOWN", f) /\ m \in Letter /\ state[e] = "NORMAL"
        /\ state' = [state EXCEPT ![e] = "SHOOT_DOWN"]
        /\ Send(e, m) /\ pc' = SentTo(e, "fetch")
    BY <1>5, <1>6, <1>8 DEF OnStartShootDown, Move, Enter, Pass
  <2>2. ~Concludes(e) /\ ~Concludes(f) /\ (Done(f) => ~Coming(f, Msg("START_WAITING2", e)))
    BY <1>2, <2>1 DEF Returns
  <2>3. /\ m # Msg("START_WAITING2", e)
        /\ m \notin {Msg("START_WAITING2", f), Msg("TERMINATE", 0)}
    BY <2>1, LetterIs
  <2>4. QED
    BY <1>1, <1>3, <2>1, <2>2, <2>3, SendsAndEnters
<1>9. CASE OnStartWaiting1(e, m) /\ m.id # e
  <2>1. /\ m = Msg("START_WAITING1", f) /\ m \in Letter /\ state[e] = "WAIT1"
        /\ Send(e, m) /\ pc' = SentTo(e, "fetch")
    BY <1>5, <1>6, <1>9 DEF OnStartWaiting1, Pass
  <2>2. ~Concludes(e) /\ ~Concludes(f) /\ (Done(f) => ~Coming(f, Msg("START_WAITING2", e)))
    BY <1>2, <2>1 DEF Returns
  <2>3. /\ m # Msg("START_WAITING2", e) /\ m # Msg("RESET", e)
        /\ m \notin {Msg("START_WAITING2", f), Msg("TERMINATE", 0)}
    BY <2>1, LetterIs
  <2>4. Done(f) /\ (Coming(e, Msg("START_WAITING1", e)) \/ Coming(e, Msg("START_DOUBLE_CHECK", f)))
          => ~Coming(f, Msg("RESET", e))
    BY <1>2, <2>1 DEF NoResetBefore, Enters
  <2>5. state' = [state EXCEPT ![e] = "WAIT1"]
    BY <1>7, <1>9, <2>1 DEF OnStartWaiting1
  <2>6. QED
    BY <1>1, <1>3, <2>1, <2>2, <2>3, <2>4, <2>5, SendsAndEnters
<1>10. CASE OnStartWaiting1(e, m) /\ m.id = e
  <2>1. /\ m = Msg("START_WAITING1", e) /\ Coming(e, m) /\ state[e] = "WAIT1"
        /\ state' = [state EXCEPT ![e] = "DOUBLE_CHECK"]
        /\ Send(e, Msg("START_DOUBLE_CHECK", e)) /\ pc' = SentTo(e, "fetch")
    BY <1>5, <1>6, <1>10 DEF OnStartWaiting1, Move, Enter
  <2>2. ~Concludes(e) /\ ~Concludes(f) /\ (Done(f) => ~Coming(f, Msg("START_WAITING2", e)))
    BY <1>2, <2>1 DEF Returns
  <2>3. Msg("START_DOUBLE_CHECK", e) \in Letter
    BY <1>6, LetterIs
  <2>4. \A g : \A k \in {"START_WAITING2", "RESET", "TERMINATE"} : Msg("START_DOUBLE_CHECK", e) # Msg(k, g)
    BY LetterIs
  <2>5. Done(f) => ~Coming(f, Msg("RESET", e))
    BY <1>2, <2>1 DEF NoResetBefore, Enters
  <2>6. QED
    BY <1>1, <1>3, <2>1, <2>2, <2>3, <2>4, <2>5, SendsAndEnters
<1>11. CASE OnStartDoubleCheck(e, m)
  <2>1. /\ m = Msg("START_DOUBLE_CHECK", f) /\ m \in Letter /\ Coming(e, m) /\ state[e] = "WAIT1"
        /\ state' = [state EXCEPT ![e] = "DOUBLE_CHECK"]
        /\ Send(e, m) /\ pc' = SentTo(e, "fetch")
    BY <1>5, <1>6, <1>11 DEF OnStartDoubleCheck, Move, Enter, Pass
  <2>2. ~Concludes(e) /\ ~Concludes(f) /\ (Done(f) => ~Coming(f, Msg("START_WAITING2", e)))
    BY <1>2, <2>1 DEF Returns
  <2>3. \A g : \A k \in {"START_WAITING2", "RESET", "TERMINATE"} : m # Msg(k, g)
    BY <2>1, LetterIs
  <2>4. Done(f) => ~Coming(f, Msg("RESET", e))
    BY <1>2, <2>1 DEF NoResetBefore, Enters
  <2>5. QED
    BY <1>1, <1>3, <2>1, <2>2, <2>3, <2>4, SendsAndEnters
<1>12. CASE OnStartWaiting2(e, m) /\ m.id # e
  <2>1. /\ m = Msg("START_WAITING2", f) /\ m \in Letter /\ Coming(e, m) /\ state[e] = "WAIT2"
        /\ Send(e, m) /\ pc' = SentTo(e, "fetch")
    BY <1>5, <1>6, <1>12 DEF OnStartWaiting2, Pass
  <2>2. Done(e) /\ state[f] = "WAIT2"
    BY <1>2, <2>1 DEF Returns, Done
  <2>3. \A g : \A k \in {"START_WAITING1", "START_DOUBLE_CHECK", "RESET", "TERMINATE"} : m # Msg(k, g)
    BY <2>1, LetterIs
  <2>4. Done(f) => ~Coming(f, Msg("RESET", e))
    BY <1>2, <2>1 DEF NoReset
  <2>5. state' = [state EXCEPT ![e] = "WAIT2"]
    BY <1>7, <1>12, <2>1 DEF OnStartWaiting2
  <2>6. QED
    <3>1. PICK p, s : p = "fetch" /\ s = "WAIT2"
      OBVIOUS
    <3>2. p \in {"fetch", "message", "returned"} /\ p # "returned" /\ pc' = SentTo(e, p)
      BY <2>1, <3>1
    <3>3. state' = [state EXCEPT ![e] = s] /\ s # "DOUBLE_CHECK" /\ s # "WAIT1"
      BY <2>5, <3>1
    <3>4. Done(f) => ~Coming(f, Msg("RESET", e)) /\ m # Msg("RESET", e)
      BY <2>3, <2>4
    <3>5. s = "WAIT2" => Done(e) /\ m # Msg("START_WAITING1", f) /\ m # Msg("START_DOUBLE_CHECK", e)
      BY <2>2, <2>3
    <3>6. s = "WAIT2" /\ state[f] = "WAIT2"
      BY <2>2, <3>1
    <3>7. message' \in {message, [message EXCEPT ![e] = NoMessage]}
      BY <1>3
    <3>8. m \in Letter /\ Send(e, m)
      BY <2>1
    <3>9. QED
      BY <1>1, <3>2, <3>3, <3>4, <3>5, <3>6, <3>7, <3>8, SendsAndEnters
<1>13. ASSUME state' = [state EXCEPT ![e] = "WAIT2"], Send(e, Msg("TERMINATE", 0)),
              pc' = SentTo(e, "returned"), Concludes(e)
       PROVE  DInv'
  <2>1. state[e] = "WAIT2" /\ state[f] = "WAIT2" /\ Done(e)
    BY <1>2, <1>13 DEF Done
  <2>2. Msg("TERMINATE", 0) \in Letter
    BY LetterIs
  <2>3. /\ Msg("TERMINATE", 0) # Msg("START_WAITING1", f)
        /\ Msg("TERMINATE", 0) # Msg("START_DOUBLE_CHECK", e)
        /\ Msg("TERMINATE", 0) # Msg("RESET", e)
    BY LetterIs
  <2>4. Done(f) => ~Coming(f, Msg("RESET", e))
    BY <1>2, <2>1 DEF NoReset
  <2>5. QED
    BY <1>1, <1>3, <1>13, <2>1, <2>2, <2>3, <2>4, SendsAndEnters
<1>14. CASE OnStartWaiting2(e, m) /\ m.id = e
  <2>1. /\ m = Msg("START_WAITING2", e) /\ Coming(e, m) /\ state' = state
        /\ Send(e, Msg("TERMINATE", 0)) /\ pc' = SentTo(e, "returned")
    BY <1>5, <1>6, <1>14 DEF OnStartWaiting2
  <2>2. Concludes(e) /\ state[e] = "WAIT2"
    BY <1>2, <2>1 DEF Concludes
  <2>3. state' = [state EXCEPT ![e] = "WAIT2"]
    BY <1>7, <2>1, <2>2
  <2>4. QED
    BY <1>13, <2>1, <2>2, <2>3
<1>15. CASE OnTerminate(e, m)
  <2>1. m = Msg("TERMINATE", 0) /\ Coming(e, m)
    BY <1>4, <1>6, <1>15, LetterIs DEF OnTerminate
  <2>2. Concludes(e) /\ state[e] = "WAIT2"
    BY <1>2, <2>1 DEF Concludes
  <2>3. Send(e, Msg("TERMINATE", 0)) /\ pc' = SentTo(e, "returned")
    BY <1>15, <2>1, <2>2 DEF OnTerminate
  <2>4. state' = [state EXCEPT ![e] = "WAIT2"]
    BY <1>7, <1>15, <2>2 DEF OnTerminate
  <2>5. QED
    BY <1>13, <2>2, <2>3, <2>4
<1>16. CASE OnReset(e, m)
  <2>1. /\ m = Msg("RESET", f) /\ m \in Letter /\ Coming(e, m)
        /\ state' = [state EXCEPT ![e] = "NORMAL"]
        /\ Send(e, m) /\ pc' = SentTo(e, "fetch")
    BY <1>5, <1>6, <1>16 DEF OnReset, Move, Enter, Pass
  <2>2. ~(state[e] = "WAIT2" /\ Done(f))
    BY <1>2, <2>1 DEF NoReset, Done
  <2>3. ~Concludes(e) /\ ~Concludes(f) /\ (Done(f) => ~Coming(f, Msg("START_WAITING2", e)))
    BY <1>2, <2>2 DEF Returns, Done
  <2>4. \A g : \A k \in {"START_WAITING2", "TERMINATE"} : m # Msg(k, g)
    BY <2>1, LetterIs
  <2>5. QED
    BY <1>1, <1>3, <2>1, <2>3, <2>4, SendsAndEnters
<1>17. CASE Dropped(e, m)
  <2>1. state' = state /\ mailbox' = mailbox /\ pc' = [pc EXCEPT ![e] = "fetch"]
    BY <1>17 DEF Dropped, Goto
  <2>2. \A g \in Executor : \A x : Coming(g, x)' => Coming(g, x)
    BY <1>1, <1>3, <2>1 DEF Coming
  <2>3. \A g \in Executor : pc'[g] = pc[g] \/ pc'[g] = "fetch"
    BY <1>1, <2>1
  <2>4. \A g \in Executor : Paced(g)'
    BY <2>1, <2>3 DEF DInv, Paced
  <2>5. QED
    BY <2>1, <2>2, <2>3, <2>4, RingStill
<1>18. QED
  BY <1>8, <1>9, <1>10, <1>11, <1>12, <1>14, <1>15, <1>16, <1>17 DEF HandleMessage

LEMMA DecideDuo ==
  ASSUME N = 2, DInv, WInv, NEW e \in Executor, Decide(e)
  PROVE  DInv'
<1> PICK f : f = (e + 1) % N
  OBVIOUS
<1>1. /\ f \in Executor
      /\ pc \in [Executor -> Pc] /\ state \in [Executor -> State]
  BY Two DEF WInv, Mailed
<1>2. /\ e # f /\ Executor = {e, f}
      /\ NoReset(e, f) /\ NoResetBefore(e, f) /\ Returns(e, f)
      /\ Concludes(e) \/ Concludes(f) => state[e] = "WAIT2" /\ state[f] = "WAIT2"
  BY <1>1, Between2
<1>3. pc[e] = "decide" /\ message' = message
  BY DEF Decide, localVars
<1>4. MessageKind = {"START_SHOOT_DOWN", "START_WAITING1", "START_DOUBLE_CHECK",
                     "START_WAITING2", "TERMINATE", "RESET"}
  BY DEF MessageKind
<1>5. state[e] # "WAIT2" =>
        ~Concludes(e) /\ ~Concludes(f) /\ (Done(f) => ~Coming(f, Msg("START_WAITING2", e)))
  BY <1>2 DEF Returns
<1>6. CASE DecideShootDown(e)
  <2>1. /\ state[e] = "NORMAL" /\ state' = [state EXCEPT ![e] = "SHOOT_DOWN"]
        /\ Send(e, Msg("START_SHOOT_DOWN", e)) /\ pc' = SentTo(e, "fetch")
    BY <1>6 DEF DecideShootDown, Move, Enter
  <2>2. Msg("START_SHOOT_DOWN", e) \in Letter
    BY <1>4, LetterIs
  <2>3. \A g : \A k \in {"START_WAITING2", "TERMINATE"} : Msg("START_SHOOT_DOWN", e) # Msg(k, g)
    BY LetterIs
  <2>4. QED
    BY <1>1, <1>3, <1>5, <2>1, <2>2, <2>3, SendsAndEnters
<1>7. CASE DecideWait(e, "SHOOT_DOWN", "WAIT1", "START_WAITING1")
  <2>1. /\ state[e] = "SHOOT_DOWN" /\ state' = [state EXCEPT ![e] = "WAIT1"]
        /\ Send(e, Msg("START_WAITING1", e)) /\ pc' = SentTo(e, "fetch")
    BY <1>7 DEF DecideWait, Enter
  <2>2. Msg("START_WAITING1", e) \in Letter
    BY <1>4, LetterIs
  <2>3. \A g : \A k \in {"START_WAITING2", "TERMINATE", "RESET"} : Msg("START_WAITING1", e) # Msg(k, g)
    BY LetterIs
  <2>4. Done(f) /\ (Coming(e, Msg("START_WAITING1", e)) \/ Coming(e, Msg("START_DOUBLE_CHECK", f)))
          => ~Coming(f, Msg("RESET", e))
    BY <1>2, <1>3, <2>1 DEF NoResetBefore, Enters
  <2>5. QED
    BY <1>1, <1>3, <1>5, <2>1, <2>2, <2>3, <2>4, SendsAndEnters
<1>8. CASE DecideWait(e, "DOUBLE_CHECK", "WAIT2", "START_WAITING2")
  <2>1. /\ state[e] = "DOUBLE_CHECK" /\ state' = [state EXCEPT ![e] = "WAIT2"]
        /\ Send(e, Msg("START_WAITING2", e)) /\ pc' = SentTo(e, "fetch")
    BY <1>8 DEF DecideWait, Enter
  <2>2. Msg("START_WAITING2", e) \in Letter
    BY <1>4, LetterIs
  <2>3. /\ Msg("START_WAITING2", e) # Msg("RESET", e)
        /\ Msg("START_WAITING2", e) # Msg("START_WAITING1", f)
        /\ Msg("START_WAITING2", e) # Msg("START_DOUBLE_CHECK", e)
        /\ Msg("START_WAITING2", e) \notin {Msg("START_WAITING2", f), Msg("TERMINATE", 0)}
    BY <1>2, LetterIs
  <2>4. Done(e) /\ (Done(f) => ~Coming(f, Msg("RESET", e)))
    BY <1>2, <1>3, <2>1 DEF NoReset, Done
  <2>5. ~Concludes(e) /\ ~Concludes(f)
    BY <1>5, <2>1
  <2>6. QED
    BY <1>1, <1>3, <2>1, <2>2, <2>3, <2>4, <2>5, SendsAndEnters
<1>9. CASE DecidePoll(e)
  <2>1. /\ state[e] = "DOUBLE_CHECK" /\ state' = [state EXCEPT ![e] = "POLL"]
        /\ mailbox' = mailbox /\ pc' = [pc EXCEPT ![e] = "fetch"]
    BY <1>9 DEF DecidePoll, Enter, Goto
  <2>2. state'[e] = "POLL" /\ state'[f] = state[f] /\ pc'[e] = "fetch" /\ pc'[f] = pc[f]
    BY <1>1, <1>2, <2>1
  <2>3. \A g, x : Coming(g, x)' => Coming(g, x)
    BY <1>3, <2>1 DEF Coming
  <2>4. PICK m : m = Msg("RESET", e)
    OBVIOUS
  <2>5. m \in Letter /\ m # Msg("START_WAITING2", e)
        /\ m \notin {Msg("START_WAITING2", f), Msg("TERMINATE", 0)}
    BY <1>4, <2>4, LetterIs
  <2>6. ~Concludes(e) /\ ~Concludes(f) /\ (Done(f) => ~Coming(f, Msg("START_WAITING2", e)))
    BY <1>5, <2>1
  <2>7. QED
    BY <1>1, <1>2, <2>2, <2>3, <2>5, <2>6, RingSends
<1>10. CASE DecideBlock(e)
  <2>1. state' = state /\ mailbox' = mailbox
    BY <1>10 DEF DecideBlock
  <2>2. PICK p \in {"asleep", "fetch", "poll"} :
          /\ pc' = [pc EXCEPT ![e] = p]
          /\ p = "poll" => state[e] = "POLL"
    BY <1>10 DEF DecideBlock, SleepIn, Goto
  <2>3. p \in Pc \ {"decide", "returned"} /\ p \notin {"break", "polled"}
    BY <2>2 DEF Pc
  <2>4. pc'[e] = p /\ \A g \in Executor \ {e} : pc'[g] = pc[g]
    BY <1>1, <2>2
  <2>5. QED
    BY <1>3, <2>1, <2>2, <2>3, <2>4, OwnDuo
<1>11. QED
  BY <1>6, <1>7, <1>8, <1>9, <1>10 DEF Decide

(* get_ready_task_and_message: the message taken is still the executor's.  *)
LEMMA FetchDuo ==
  ASSUME DInv, WInv, NEW e \in Executor, Fetch(e)
  PROVE  DInv'
<1> PICK t : t = IF ready[e] = <<>> THEN NoTask ELSE Head(ready[e])
  OBVIOUS
<1> PICK m : m = IF mailbox[e] = <<>> THEN NoMessage ELSE Head(mailbox[e])
  OBVIOUS
<1>1. /\ pc \in [Executor -> Pc] /\ mailbox \in [Executor -> Seq(Mail)]
      /\ message \in [Executor -> Mail \cup {NoMessage}]
  BY DEF WInv, Mailed
<1>2. /\ state' = state
      /\ message' = [message EXCEPT ![e] = m]
      /\ mailbox' = [mailbox EXCEPT ![e] = IF m = NoMessage THEN @ ELSE Tail(@)]
      /\ pc' = [pc EXCEPT ![e] = Fetched(e, t, m)]
  BY DEF Fetch, Goto
<1>3. mailbox[e] # <<>> =>
        /\ m \in Mail /\ Has(mailbox[e], m)
        /\ \A x : Has(Tail(mailbox[e]), x) => Has(mailbox[e], x)
  <2>1. SUFFICES ASSUME mailbox[e] # <<>>
                 PROVE  /\ m \in Mail /\ Has(mailbox[e], m)
                        /\ \A x : Has(Tail(mailbox[e]), x) => Has(mailbox[e], x)
    OBVIOUS
  <2>2. PICK q : q = mailbox[e]
    OBVIOUS
  <2>3. q \in Seq(Mail) /\ q # <<>> /\ m = Head(q)
    BY <1>1, <2>1, <2>2
  <2>4. /\ m \in Mail /\ Tail(q) \in Seq(Mail) /\ Len(Tail(q)) = Len(q) - 1
        /\ \A k \in 1 .. Len(Tail(q)) : Tail(q)[k] = q[k + 1]
        /\ Len(q) \in Nat \ {0} /\ m = q[1]
    BY <2>3, HeadTailProperties, EmptySeq
  <2>5. Has(q, m)
    BY <2>4 DEF Has
  <2>6. ASSUME NEW x, Has(Tail(q), x) PROVE Has(q, x)
    <3>1. PICK k \in 1 .. Len(Tail(q)) : Tail(q)[k] = x
      BY <2>6 DEF Has
    <3>2. k + 1 \in 1 .. Len(q) /\ q[k + 1] = x
      BY <2>4, <3>1
    <3>3. QED
      BY <3>2 DEF Has
  <2>7. QED
    BY <2>2, <2>4, <2>5, <2>6
<1>4. ASSUME NEW g \in Executor, NEW x, Coming(g, x)' PROVE Coming(g, x)
  <2>1. CASE g # e
    <3>1. mailbox'[g] = mailbox[g] /\ message'[g] = message[g]
      BY <1>1, <1>2, <2>1
    <3>2. QED
      BY <1>4, <3>1 DEF Coming
  <2>2. CASE g = e
    <3>1. message'[e] = m /\ mailbox'[e] = IF m = NoMessage THEN mailbox[e] ELSE Tail(mailbox[e])
      BY <1>1, <1>2
    <3>2. CASE mailbox[e] = <<>>
      BY <1>4, <2>2, <3>1, <3>2, HasEmpty DEF Coming
    <3>3. CASE mailbox[e] # <<>>
      BY <1>3, <1>4, <2>2, <3>1, <3>3 DEF Coming
    <3>4. QED
      BY <3>2, <3>3
  <2>3. QED
    BY <2>1, <2>2
<1>5. ASSUME NEW g \in Executor, pc'[g] = "decide"
      PROVE  pc[g] = "decide" \/ \A x : ~Coming(g, x)'
  <2>1. CASE g # e
    BY <1>1, <1>2, <1>5, <2>1
  <2>2. CASE g = e
    <3>1. m = NoMessage
      BY <1>1, <1>2, <1>5, <2>2 DEF Fetched
    <3>2. mailbox[e] = <<>>
      BY <1>3, <3>1 DEF NoMessage, Mail, MessageKind
    <3>3. mailbox'[e] = <<>> /\ message'[e] = NoMessage
      BY <1>1, <1>2, <3>1, <3>2
    <3>4. QED
      BY <2>2, <3>3, HasEmpty DEF Coming
  <2>3. QED
    BY <2>1, <2>2
<1>6. ASSUME NEW g \in Executor PROVE (pc'[g] = "returned" => pc[g] = "returned") /\ Paced(g)'
  <2>1. Fetched(e, t, m) \in {"message", "decide", "aborted", "run", "lock"}
    BY DEF Fetched
  <2>2. pc'[g] = pc[g] \/ pc'[g] \in {"message", "decide", "aborted", "run", "lock"}
    BY <1>1, <1>2, <2>1
  <2>3. QED
    BY <1>2, <2>2 DEF DInv, Paced
<1>7. QED
  BY <1>2, <1>4, <1>5, <1>6, RingStill

(* The other steps leave the messages and the state alone.                 *)
LEMMA OthersDuo ==
  ASSUME DInv, WInv, NEW e \in Executor,
         LockNext(e) \/ Run(e) \/ UnlockNext(e) \/ Wake(e) \/ StartIdle(e) \/ Poll(e)
  PROVE  DInv'
<1>1. UNCHANGED <<state, mailbox, message>>
  BY DEF LockNext, Run, UnlockNext, Wake, StartIdle, Poll, localVars
<1>2. /\ pc \in [Executor -> Pc]
      /\ pc[e] = "poll" => state[e] = "POLL"
  BY DEF WInv, Mailed, Awake
<1>3. \A p : /\ AfterUnlock(e, p) \in {"unlock", "break", "fetch", "message"}
             /\ AfterUnlock(e, p) = "break" => state[e] \in {"SHOOT_DOWN", "DOUBLE_CHECK"}
  BY AfterTaskPc DEF AfterUnlock, Breaks
<1>4. ASSUME NEW p \in Pc \ {"decide", "returned"},
             p = "break" => state[e] \in {"SHOOT_DOWN", "DOUBLE_CHECK"},
             p \in {"poll", "polled"} => state[e] = "POLL",
             pc'[e] = p, \A g \in Executor \ {e} : pc'[g] = pc[g] \/ pc'[g] = "fetch"
      PROVE  DInv'
  BY <1>1, <1>4, OwnDuo
<1>5. ASSUME NEW p \in Pc \ {"decide", "returned"}, Goto(e, p),
              p = "break" => state[e] \in {"SHOOT_DOWN", "DOUBLE_CHECK"},
              p \in {"poll", "polled"} => state[e] = "POLL"
       PROVE  DInv'
  <2>1. pc'[e] = p /\ \A g \in Executor \ {e} : pc'[g] = pc[g]
    BY <1>2, <1>5 DEF Goto
  <2>2. QED
    BY <1>4, <1>5, <2>1
<1>6. CASE LockNext(e)
  <2>1. \E p \in {"run", "lock", "fetch", "message"} : Goto(e, p)
    BY <1>6, AfterTaskPc DEF LockNext
  <2>2. QED
    BY <1>5, <2>1 DEF Pc
<1>7. CASE Run(e)
  BY <1>5, <1>7 DEF Run, Pc
<1>8. CASE UnlockNext(e)
  <2>1. Goto(e, "wake") \/ \E p : Goto(e, AfterUnlock(e, p))
    BY <1>8 DEF UnlockNext
  <2>2. QED
    BY <1>3, <1>5, <2>1 DEF Pc
<1>9. CASE Wake(e)
  <2> PICK o : o = Owner[Head(handoff[e])]
    OBVIOUS
  <2> PICK p : p = IF Len(handoff[e]) = 1 THEN AfterUnlock(e, pos[task[e]]) ELSE "wake"
    OBVIOUS
  <2>1. pc' = [Signal(o, ready[o] = <<>>) EXCEPT ![e] = p]
    BY <1>9 DEF Wake
  <2>2. /\ p \in {"wake", "unlock", "break", "fetch", "message"}
        /\ p = "break" => state[e] \in {"SHOOT_DOWN", "DOUBLE_CHECK"}
    BY <1>3
  <2>3. p \in Pc \ {"decide", "returned"} /\ p \notin {"poll", "polled"}
    BY <2>2 DEF Pc
  <2>4. pc'[e] = p /\ \A g \in Executor \ {e} : pc'[g] = pc[g] \/ pc'[g] = "fetch"
    <3>1. PICK s : s = Signal(o, ready[o] = <<>>)
      OBVIOUS
    <3>2. DOMAIN s = Executor /\ \A g \in Executor : s[g] = pc[g] \/ s[g] = "fetch"
      BY <1>2, <3>1 DEF Signal
    <3>3. pc' = [s EXCEPT ![e] = p]
      BY <2>1, <3>1
    <3>4. QED
      BY <3>2, <3>3
  <2>5. QED
    BY <1>4, <2>2, <2>3, <2>4
<1>10. CASE StartIdle(e)
  <2>1. \E p \in {"lock", "aborted", "asleep", "fetch"} : Goto(e, p)
    BY <1>10 DEF StartIdle, SleepIn
  <2>2. QED
    BY <1>5, <2>1 DEF Pc
<1>11. CASE Poll(e)
  <2>1. \E p \in {"polled", "fetch"} : Goto(e, p) /\ state[e] = "POLL"
    BY <1>2, <1>11 DEF Poll
  <2>2. QED
    BY <1>5, <2>1 DEF Pc
<1>12. QED
  BY <1>6, <1>7, <1>8, <1>9, <1>10, <1>11

LEMMA NextDInv ==
  ASSUME N = 2, DInv, WInv, [Next]_<<vars, program>>
  PROVE  DInv'
<1>1. ASSUME NEW e \in Executor, Step(e) PROVE DInv'
  BY <1>1, BreakOffDuo, HandleMessageDuo, DecideDuo, FetchDuo, OthersDuo DEF Step
<1>2. ASSUME UNCHANGED <<pc, state, mailbox, message>> PROVE DInv'
  <2>1. /\ \A e, m : Coming(e, m)' => Coming(e, m)
        /\ \A e \in Executor : Paced(e)'
    BY <1>2 DEF Coming, DInv, Paced
  <2>2. QED
    BY <1>2, <2>1, RingStill
<1>3. ASSUME NEW t \in FdTask, FdReady(t) PROVE DInv'
  BY <1>2, <1>3 DEF FdReady, localVars
<1>4. CASE UNCHANGED <<vars, program>>
  BY <1>2, <1>4 DEF vars
<1>5. QED
  BY <1>1, <1>3, <1>4 DEF Next

-----------------------------------------------------------------------------
(***************************************************************************)
(* What else could end run_i: an idle task in WAIT1, WAIT2 or POLL.  It    *)
(* goes there only when all its tasks have been skipped, which stragglers  *)
(* do not change.  A straggler in POLL does end it.                        *)
(***************************************************************************)
Settled(e) ==
  /\ pc[e] = "aborted" => state[e] = "POLL"
  /\ state[e] \in {"WAIT1", "WAIT2", "POLL"} => points[e] = TasksOf(e)
AInv == \A e \in Executor : Settled(e)

LEMMA InitAInv == Init => AInv
BY DEF Init, AInv, Settled

LEMMA SettledStep ==
  ASSUME AInv, NEW e \in Executor, Settled(e)',
         \A g \in Executor \ {e} :
           /\ state'[g] = state[g] /\ points'[g] = points[g]
           /\ pc'[g] = pc[g] \/ pc'[g] = "fetch"
  PROVE  AInv'
<1>1. ASSUME NEW g \in Executor \ {e} PROVE Settled(g)'
  <2>1. TasksOf(g)' = TasksOf(g)
    BY DEF TasksOf, Mine
  <2>2. QED
    BY <2>1 DEF AInv, Settled
<1>2. QED
  BY <1>1 DEF AInv

(* A step of e to the program counter p that may enter a counting state.   *)
LEMMA CountingStep ==
  ASSUME AInv, Mailed, Scored, NEW e \in Executor, NEW p \in Pc \ {"aborted"},
         pc'[e] = p, \A g \in Executor \ {e} : pc'[g] = pc[g] \/ pc'[g] = "fetch",
         \/ state' = state /\ points' = points
         \/ \E s \in {"NORMAL", "SHOOT_DOWN", "DOUBLE_CHECK"} : Enter(e, s) /\ NewGeneration(e)
         \/ \E s \in {"WAIT1", "WAIT2", "POLL"} : Enter(e, s) /\ AllSkipped(e) /\ points' = points
  PROVE  AInv'
<1>1. /\ pc \in [Executor -> Pc] /\ state \in [Executor -> State]
      /\ points \in [Executor -> Int] /\ TasksOf(e)' = TasksOf(e)
  BY DEF Mailed, Scored, TasksOf, Mine
<1>2. CASE state' = state /\ points' = points
  BY <1>1, <1>2, SettledStep DEF AInv, Settled
<1>3. CASE \E s \in {"NORMAL", "SHOOT_DOWN", "DOUBLE_CHECK"} : Enter(e, s) /\ NewGeneration(e)
  <2>1. state'[e] \in {"NORMAL", "SHOOT_DOWN", "DOUBLE_CHECK"}
        /\ \A g \in Executor \ {e} : state'[g] = state[g] /\ points'[g] = points[g]
    BY <1>1, <1>3 DEF Enter, NewGeneration
  <2>2. QED
    BY <2>1, SettledStep DEF Settled
<1>4. CASE \E s \in {"WAIT1", "WAIT2", "POLL"} : Enter(e, s) /\ AllSkipped(e) /\ points' = points
  <2>1. state'[e] \in {"WAIT1", "WAIT2", "POLL"}
        /\ \A g \in Executor \ {e} : state'[g] = state[g] /\ points'[g] = points[g]
    BY <1>1, <1>4 DEF Enter
  <2>2. points'[e] = TasksOf(e)
    BY <1>4 DEF AllSkipped
  <2>3. QED
    BY <1>1, <2>1, <2>2, SettledStep DEF Settled
<1>5. QED
  BY <1>2, <1>3, <1>4

LEMMA PcTo ==
  ASSUME Mailed, NEW e \in Executor, NEW p \in Pc, Goto(e, p) \/ pc' = SentTo(e, p)
  PROVE  pc'[e] = p /\ \A g \in Executor \ {e} : pc'[g] = pc[g] \/ pc'[g] = "fetch"
<1>1. pc \in [Executor -> Pc]
  BY DEF Mailed
<1>2. CASE Goto(e, p)
  BY <1>1, <1>2 DEF Goto
<1>3. CASE pc' = SentTo(e, p)
  BY <1>1, <1>3, SignalShape DEF SentTo
<1>4. QED
  BY <1>2, <1>3

LEMMA HandleMessageSettled ==
  ASSUME N = 2, DInv, AInv, Mailed, Scored, NEW e \in Executor, HandleMessage(e)
  PROVE  AInv'
<1> PICK f : f = (e + 1) % N
  OBVIOUS
<1> PICK m : m = message[e]
  OBVIOUS
<1>1. ASSUME NEW p \in {"fetch", "returned"}, Goto(e, p) \/ pc' = SentTo(e, p),
             \/ state' = state /\ points' = points
             \/ \E s \in {"NORMAL", "SHOOT_DOWN", "DOUBLE_CHECK"} : Move(e, s)
      PROVE  AInv'
  <2>1. p \in Pc \ {"aborted"}
    BY <1>1 DEF Pc
  <2>2. pc'[e] = p /\ \A g \in Executor \ {e} : pc'[g] = pc[g] \/ pc'[g] = "fetch"
    BY <1>1, <2>1, PcTo
  <2>3. QED
    BY <1>1, <2>1, <2>2, CountingStep DEF Move
<1>2. CASE OnStartShootDown(e, m)
  BY <1>1, <1>2 DEF OnStartShootDown, Pass
<1>3. CASE OnStartWaiting1(e, m)
  BY <1>1, <1>3 DEF OnStartWaiting1, Pass
<1>4. CASE OnStartDoubleCheck(e, m)
  BY <1>1, <1>4 DEF OnStartDoubleCheck, Pass
<1>5. CASE OnStartWaiting2(e, m)
  BY <1>1, <1>5 DEF OnStartWaiting2, Pass
<1>6. CASE OnTerminate(e, m)
  <2>1. m.kind = "TERMINATE" /\ m # NoMessage
    BY <1>6 DEF OnTerminate, NoMessage
  <2>2. Coming(e, m) /\ m \in Letter
    BY <2>1 DEF Coming, DInv, Lettered
  <2>3. Concludes(e)
    BY <2>1, <2>2, LetterIs DEF Concludes
  <2>4. state[e] = "WAIT2"
    BY <2>3 DEF DInv, Unanimous
  <2>5. QED
    BY <1>1, <1>6, <2>4 DEF OnTerminate
<1>7. CASE OnReset(e, m)
  BY <1>1, <1>7 DEF OnReset, Pass
<1>8. CASE Dropped(e, m)
  BY <1>1, <1>8 DEF Dropped
<1>9. QED
  BY <1>2, <1>3, <1>4, <1>5, <1>6, <1>7, <1>8 DEF HandleMessage

LEMMA DecideSettled ==
  ASSUME AInv, Mailed, Scored, NEW e \in Executor, Decide(e)
  PROVE  AInv'
<1>1. AllSkipped(e) /\ {"fetch", "asleep", "poll"} \subseteq Pc \ {"aborted"}
  BY DEF Decide, Pc
<1>2. CASE DecidePoll(e)
  <2>1. Enter(e, "POLL") /\ points' = points /\ Goto(e, "fetch")
    BY <1>2 DEF DecidePoll
  <2>2. pc'[e] = "fetch" /\ \A g \in Executor \ {e} : pc'[g] = pc[g] \/ pc'[g] = "fetch"
    BY <1>1, <2>1, PcTo
  <2>3. QED
    BY <1>1, <2>1, <2>2, CountingStep
<1>3. CASE DecideShootDown(e)
  <2>1. Move(e, "SHOOT_DOWN") /\ pc' = SentTo(e, "fetch")
    BY <1>3 DEF DecideShootDown
  <2>2. pc'[e] = "fetch" /\ \A g \in Executor \ {e} : pc'[g] = pc[g] \/ pc'[g] = "fetch"
    BY <1>1, <2>1, PcTo
  <2>3. QED
    BY <1>1, <2>1, <2>2, CountingStep DEF Move
<1>4. ASSUME NEW from, NEW to \in {"WAIT1", "WAIT2"}, NEW k, DecideWait(e, from, to, k)
      PROVE  AInv'
  <2>1. Enter(e, to) /\ points' = points /\ pc' = SentTo(e, "fetch")
    BY <1>4 DEF DecideWait
  <2>2. pc'[e] = "fetch" /\ \A g \in Executor \ {e} : pc'[g] = pc[g] \/ pc'[g] = "fetch"
    BY <1>1, <2>1, PcTo
  <2>3. QED
    BY <1>1, <2>1, <2>2, CountingStep
<1>5. CASE DecideBlock(e)
  <2>1. PICK p \in {"asleep", "fetch", "poll"} : Goto(e, p)
    BY <1>5 DEF DecideBlock, SleepIn
  <2>2. p \in Pc \ {"aborted"}
    BY <1>1, <2>1
  <2>3. pc'[e] = p /\ \A g \in Executor \ {e} : pc'[g] = pc[g] \/ pc'[g] = "fetch"
    BY <2>1, <2>2, PcTo
  <2>4. state' = state /\ points' = points
    BY <1>5 DEF DecideBlock
  <2>5. QED
    BY <2>2, <2>3, <2>4, CountingStep
<1>6. QED
  BY <1>2, <1>3, <1>4, <1>5 DEF Decide

(* The steps that change neither the state nor points.                     *)
LEMMA PlainSettled ==
  ASSUME AInv, Mailed, Scored, NEW e \in Executor,
         Fetch(e) \/ LockNext(e) \/ Run(e) \/ StartIdle(e) \/ Poll(e)
  PROVE  AInv'
<1>1. state' = state /\ points' = points
  BY DEF Fetch, LockNext, Run, StartIdle, Poll
<1>2. ASSUME NEW p \in Pc \ {"aborted"}, Goto(e, p) PROVE AInv'
  <2>1. pc'[e] = p /\ \A g \in Executor \ {e} : pc'[g] = pc[g] \/ pc'[g] = "fetch"
    BY <1>2, PcTo
  <2>2. QED
    BY <1>1, <1>2, <2>1, CountingStep
<1>3. /\ state[e] \in State
      /\ state[e] \in {"WAIT1", "WAIT2", "POLL"} => AllSkipped(e)
  BY DEF AInv, Settled, Mailed, AllSkipped
<1>4. {"message", "decide", "run", "lock", "fetch", "unlock", "asleep", "polled"}
        \subseteq Pc \ {"aborted"}
  BY DEF Pc
<1>5. CASE Fetch(e)
  <2>1. PICK t, m : Goto(e, Fetched(e, t, m))
    BY <1>5 DEF Fetch
  <2>2. CASE Fetched(e, t, m) \in {"message", "decide", "run", "lock"}
    BY <1>2, <1>4, <2>1, <2>2
  <2>3. CASE state[e] = "POLL" /\ Fetched(e, t, m) = "aborted"
    <3>1. pc' = [pc EXCEPT ![e] = "aborted"] /\ pc \in [Executor -> Pc]
      BY <2>1, <2>3 DEF Goto, Mailed
    <3>2. Settled(e)'
      <4>1. TasksOf(e)' = TasksOf(e)
        BY DEF TasksOf, Mine
      <4>2. QED
        BY <1>1, <2>3, <4>1 DEF AInv, Settled
    <3>3. QED
      BY <1>1, <3>1, <3>2, SettledStep
  <2>4. QED
    BY <2>2, <2>3 DEF Fetched
<1>6. CASE LockNext(e)
  <2>1. AfterTask(e) \in {"fetch", "message"}
    BY AfterTaskPc
  <2>2. \E p \in {AfterTask(e), "run", "lock"} : Goto(e, p)
    BY <1>6 DEF LockNext
  <2>3. QED
    BY <1>2, <1>4, <2>1, <2>2
<1>7. CASE Run(e)
  BY <1>2, <1>4, <1>7 DEF Run
<1>8. CASE StartIdle(e)
  <2>1. state[e] \in Counting
    BY <1>3, <1>8 DEF StartIdle, State, Counting
  <2>2. \E p \in {"fetch", "asleep", "lock"} : Goto(e, p)
    BY <1>8, <2>1 DEF StartIdle, SleepIn
  <2>3. QED
    BY <1>2, <1>4, <2>2
<1>9. CASE Poll(e)
  <2>1. \E p \in {"polled", "fetch"} : Goto(e, p)
    BY <1>9 DEF Poll
  <2>2. QED
    BY <1>2, <1>4, <2>1
<1>10. QED
  BY <1>5, <1>6, <1>7, <1>8, <1>9

(* Giving back locks: points changes only where it is counted.             *)
LEMMA UnlockSettled ==
  ASSUME AInv, Mailed, Scored, IInv, NEW e \in Executor, UnlockNext(e) \/ Wake(e)
  PROVE  AInv'
<1>1. /\ state' = state /\ points \in [Executor -> Int] /\ pc \in [Executor -> Pc]
      /\ TasksOf(e)' = TasksOf(e)
  BY DEF UnlockNext, Wake, Scored, Mailed, TasksOf, Mine
<1>2. \/ points' = points
      \/ points' = [points EXCEPT ![e] = IF state[e] \in Counting /\ ~Breaks(e)
                                           THEN @ + Score(result[e]) ELSE @]
  BY DEF UnlockNext, Wake, Proceed
<1>3. /\ \A g \in Executor \ {e} : points'[g] = points[g]
      /\ state[e] \in {"WAIT1", "WAIT2", "POLL"} => points'[e] = points[e]
  BY <1>1, <1>2 DEF Counting
<1>4. ASSUME NEW p \in {"wake", "unlock", "break", "fetch", "message"}, pc'[e] = p,
             \A g \in Executor \ {e} : pc'[g] = pc[g] \/ pc'[g] = "fetch"
      PROVE  AInv'
  <2>1. Settled(e)'
    BY <1>1, <1>3, <1>4 DEF AInv, Settled
  <2>2. QED
    BY <1>1, <1>3, <1>4, <2>1, SettledStep
<1>5. \A q : AfterUnlock(e, q) \in {"unlock", "break", "fetch", "message"}
  BY AfterTaskPc DEF AfterUnlock
<1>6. CASE UnlockNext(e)
  <2>1. Goto(e, "wake") \/ \E q : Goto(e, AfterUnlock(e, q))
    BY <1>6 DEF UnlockNext
  <2>2. PICK p \in {"wake", "unlock", "break", "fetch", "message"} : Goto(e, p)
    BY <1>5, <2>1
  <2>3. pc'[e] = p /\ \A g \in Executor \ {e} : pc'[g] = pc[g]
    BY <1>1, <2>2 DEF Goto
  <2>4. QED
    BY <1>4, <2>2, <2>3
<1>7. CASE Wake(e)
  <2> PICK o : o = Owner[Head(handoff[e])]
    OBVIOUS
  <2> PICK p : p = IF Len(handoff[e]) = 1 THEN AfterUnlock(e, pos[task[e]]) ELSE "wake"
    OBVIOUS
  <2>1. pc' = [Signal(o, ready[o] = <<>>) EXCEPT ![e] = p]
    BY <1>7 DEF Wake
  <2>2. p \in {"wake", "unlock", "break", "fetch", "message"}
    BY <1>5
  <2>3. p \in Pc
    BY <2>2 DEF Pc
  <2>4. pc'[e] = p /\ \A g \in Executor \ {e} : pc'[g] = pc[g] \/ pc'[g] = "fetch"
    <3>1. PICK s : s = Signal(o, ready[o] = <<>>)
      OBVIOUS
    <3>2. DOMAIN s = Executor /\ \A g \in Executor : s[g] = pc[g] \/ s[g] = "fetch"
      BY <1>1, <3>1 DEF Signal
    <3>3. pc' = [s EXCEPT ![e] = p]
      BY <2>1, <3>1
    <3>4. QED
      BY <3>2, <3>3
  <2>5. QED
    BY <1>4, <2>2, <2>4
<1>8. QED
  BY <1>6, <1>7

LEMMA NextAInv ==
  ASSUME N = 2, DInv, AInv, WInv, PInv, IInv, [Next]_<<vars, program>>
  PROVE  AInv'
<1>1. Mailed /\ Scored
  BY DEF WInv, PInv
<1>2. ASSUME NEW e \in Executor, Step(e) PROVE AInv'
  <2>1. CASE BreakOff(e)
    <3>1. AfterTask(e) \in Pc \ {"aborted"}
      BY AfterTaskPc DEF Pc
    <3>2. pc' = SentTo(e, AfterTask(e)) /\ Enter(e, "NORMAL") /\ NewGeneration(e)
      BY <2>1 DEF BreakOff
    <3>3. pc'[e] = AfterTask(e) /\ \A g \in Executor \ {e} : pc'[g] = pc[g] \/ pc'[g] = "fetch"
      BY <1>1, <3>1, <3>2, PcTo
    <3>4. QED
      BY <1>1, <3>1, <3>2, <3>3, CountingStep
  <2>2. QED
    BY <1>1, <1>2, <2>1, HandleMessageSettled, DecideSettled, PlainSettled, UnlockSettled
       DEF Step
<1>3. CASE UNCHANGED <<pc, state, points>>
  BY <1>3 DEF AInv, Settled, TasksOf, Mine, Executor
<1>4. QED
  BY <1>2, <1>3 DEF Next, FdReady, vars

-----------------------------------------------------------------------------
LEMMA DuoMeans == DInv /\ WInv => TerminationIsUnanimous
<1> SUFFICES ASSUME DInv, WInv, Terminating PROVE \A e \in Executor : state[e] = "WAIT2"
  BY DEF TerminationIsUnanimous
<1>1. ASSUME NEW e \in Executor, NEW k \in DOMAIN mailbox[e],
             mailbox[e][k].kind = "TERMINATE"
      PROVE  Concludes(e)
  <2>1. PICK m : m = mailbox[e][k]
    OBVIOUS
  <2>2. mailbox[e] \in Seq(Mail)
    BY DEF WInv, Mailed
  <2>3. k \in 1 .. Len(mailbox[e])
    BY <1>1, <2>2, LenProperties
  <2>4. Coming(e, m)
    BY <1>1, <2>1, <2>3 DEF Coming, Has, NoMessage
  <2>5. m \in Letter
    BY <2>4 DEF DInv, Lettered
  <2>6. QED
    BY <1>1, <2>1, <2>4, <2>5, LetterIs DEF Concludes
<1>2. \E e \in Executor : Concludes(e)
  BY <1>1 DEF Terminating, Concludes
<1>3. QED
  BY <1>2 DEF DInv, Unanimous

(* run_i with two threads: whatever old messages are still in the ring,    *)
(* when one executor decides to terminate the other one is in WAIT2 too    *)
(* and stays there.                                                        *)
THEOREM TwoThreadsUnanimous == ASSUME N = 2 PROVE Spec => []TerminationIsUnanimous
<1>1. Spec => []WInv
  BY AlwaysAwake
<1>2. DInv /\ WInv /\ [Next]_<<vars, program>> => DInv'
  BY NextDInv
<1>3. QED
  BY <1>1, <1>2, InitDInv, DuoMeans, PTL DEF Spec

(* run_i with two threads, in any program: no message and no idle task     *)
(* ever finds an executor in a state in which run_i does not expect it.    *)
(* The only NOT_REACHED that can be reached is that of a task that becomes *)
(* ready in POLL.                                                          *)
THEOREM TwoThreadsAbortOnlyInPoll == ASSUME N = 2 PROVE Spec => []AbortsOnlyInPoll
<1>1. Spec => []IInv
  BY LocksAccounted
<1>2. Spec => []WInv
  BY AlwaysAwake
<1>3. DInv /\ WInv /\ [Next]_<<vars, program>> => DInv'
  BY NextDInv
<1>4. PInv /\ WInv /\ IInv /\ [Next]_<<vars, program>> => PInv'
  BY NextPInv
<1>5. DInv /\ AInv /\ WInv /\ PInv /\ IInv /\ [Next]_<<vars, program>> => AInv'
  BY NextAInv
<1>6. AInv => AbortsOnlyInPoll
  BY DEF AInv, Settled, AbortsOnlyInPoll
<1>7. QED
  BY <1>1, <1>2, <1>3, <1>4, <1>5, <1>6, InitAInv, InitDInv, InitPInv, PTL DEF Spec

==============================================================================
