-------------------------- MODULE InstanceScheduler --------------------------
(***************************************************************************)
(* instance_scheduler_t: all executor threads share one schedule, a list   *)
(* of component instances.  A thread takes the first instance, tries each  *)
(* of its actions once under the locks of the action's instance set,       *)
(* collects the instance's garbage, and takes the next.  An action that    *)
(* changes an instance puts it back on the schedule, with the instances    *)
(* whose preconditions look at it.  The threads exit when the schedule is  *)
(* empty and nobody is working on an instance (pending_).                  *)
(*                                                                         *)
(* One step is one critical section of list_mutex_, one lock or unlock of  *)
(* an instance, or one evaluation of an action under its locks.  The       *)
(* instances' locks are pthread_rwlock_t, which let a reader in whenever   *)
(* no writer has the lock.                                                 *)
(***************************************************************************)
EXTENDS Integers, Sequences, FiniteSets

CONSTANTS
  Thread,     \* executors
  Instance,   \* component instances, numbered in the order of the InstanceSet map
  Action,     \* actions, numbered
  ActionsOf,  \* instance -> its actions in order
  Access,     \* instance_set (): action -> instance -> "None" | "Read" | "Write"
  Changes,    \* action -> the instances with an activation that writes them
              \* (mutable_phase_access); what else is written is so in a precondition
              \* or an immutable phase, by a method, whose receiver is not checked
  Pulls,      \* action -> the instances in the sets of its precondition's getters
  Calls,      \* actions with an activation that has arguments (in_action)
  MaxEnable   \* bound: how often an action may become enabled after the start

NoThread == "nobody"
NoInstance == -1
Itself == -1

ASSUME ConstantsAssumption ==
  /\ IsFiniteSet(Thread) /\ Thread # {} /\ NoThread \notin Thread
  /\ Instance \subseteq Nat /\ IsFiniteSet(Instance)
  /\ IsFiniteSet(Action)
  /\ ActionsOf \in [Instance -> Seq(Action)]
  /\ \A a \in Action : /\ DOMAIN Access[a] \subseteq Instance
                       /\ \A i \in DOMAIN Access[a] : Access[a][i] \in {"None", "Read", "Write"}
                       /\ Changes[a] \subseteq {i \in DOMAIN Access[a] : Access[a][i] = "Write"}
                       /\ Pulls[a] \subseteq DOMAIN Access[a]
                       /\ \E i \in Instance : \E k \in DOMAIN ActionsOf[i] : ActionsOf[i][k] = a
  /\ Calls \subseteq Action
  /\ MaxEnable \in Nat

VARIABLES
  enabled,   \* actions whose precondition holds
  credit,    \* how many more times an action may become enabled
  schedule,  \* the list head_ .. tail_
  next,      \* instance_info_t::next is not NULL
  pending,   \* pending_
  readers, writer,  \* the rwlock of each instance: who has it for reading, for writing
  pc,
  record,    \* the instance a thread works on
  rest,      \* the actions of record still to be tried, the current one first
  todo,      \* the instances still to be locked, or unlocked, for the current action
  pushes     \* what the current transaction has still to push: <<the instance of
             \* an activation, Itself or an instance linked to it>>

programVars == <<enabled, credit>>
listVars == <<schedule, next, pending>>
lockVars == <<readers, writer>>
vars == <<enabled, credit, schedule, next, pending, readers, writer, pc, record, rest, todo, pushes>>

Pc == {"take", "waiting", "lock", "run", "push", "unlock", "gc", "collect", "finish", "exited"}

(* The instances in the order in which init pushes them.                   *)
InOrder == {s \in [1 .. Cardinality(Instance) -> Instance] :
              \A j, k \in DOMAIN s : j < k => s[j] < s[k]}

Owner(a) == CHOOSE i \in Instance : \E k \in DOMAIN ActionsOf[i] : ActionsOf[i][k] = a

(* lock and unlock do nothing about an instance with AccessNone.           *)
LockSet(a) == {i \in DOMAIN Access[a] : Access[a][i] # "None"}

(* They take the instances in the order of the map.                        *)
First(i, S) == i \in S /\ \A j \in S : i <= j

Written(a) == {i \in DOMAIN Access[a] : Access[a][i] = "Write"}
WrittenEarly(a) == Written(a) \ Changes[a]

(* compute_dependent_instances: those with a precondition that pulls from i. *)
Linked(i) == {j \in Instance : \E k \in DOMAIN ActionsOf[j] : i \in Pulls[ActionsOf[j][k]]}

(* The instances of the activations that push: those that write their      *)
(* instance, and one of an action that has arguments.                      *)
Pushing(a) == Changes[a] \cup (IF a \in Calls THEN {Owner(a)} ELSE {})

(* A plausible bug: the instances that look at a changed one are left out. *)
PushesOwn(a) == Pushing(a) \X {Itself}

(* What a transaction pushes: the instance of each of these activations,   *)
(* and the instances linked to it.                                         *)
Pushes(a) == {p \in Pushing(a) \X (Instance \cup {Itself}) :
                p[2] = Itself \/ p[2] \in Linked(p[1])}

Target(p) == IF p[2] = Itself THEN p[1] ELSE p[2]

Before(p, q) == p[1] < q[1] \/ (p[1] = q[1] /\ p[2] < q[2])

-----------------------------------------------------------------------------
Init ==
  /\ enabled \in SUBSET Action
  /\ credit = MaxEnable
  /\ schedule \in InOrder
  /\ next = [i \in Instance |-> TRUE]
  /\ pending = 0
  /\ readers = [i \in Instance |-> {}]
  /\ writer = [i \in Instance |-> NoThread]
  /\ pc = [e \in Thread |-> "take"]
  /\ record = [e \in Thread |-> NoInstance]
  /\ rest = [e \in Thread |-> <<>>]
  /\ todo = [e \in Thread |-> {}]
  /\ pushes = [e \in Thread |-> {}]

(* pthread_cond_signal: one of the waiting threads, if there is one, gets  *)
(* to look at the schedule again; e itself goes on at p.                   *)
SignalAndGoto(e, p) ==
  \/ /\ \A f \in Thread : pc[f] # "waiting"
     /\ pc' = [pc EXCEPT ![e] = p]
  \/ \E f \in Thread : /\ pc[f] = "waiting"
                       /\ pc' = [pc EXCEPT ![f] = "take", ![e] = p]

(* Start on the actions in s: lock for the first, or collect garbage when  *)
(* there is none.                                                          *)
Begin(e, s) ==
  /\ rest' = [rest EXCEPT ![e] = s]
  /\ todo' = [todo EXCEPT ![e] = IF s = <<>> THEN {} ELSE LockSet(Head(s))]

At(s) == IF s = <<>> THEN "gc" ELSE IF LockSet(Head(s)) = {} THEN "run" ELSE "lock"

(* run_i, from the lock of list_mutex_: take the first instance ...        *)
Take(e) ==
  /\ pc[e] = "take" /\ schedule # <<>>
  /\ record' = [record EXCEPT ![e] = Head(schedule)]
  /\ schedule' = Tail(schedule)
  /\ next' = [next EXCEPT ![Head(schedule)] = FALSE]
  /\ pending' = pending + 1
  /\ Begin(e, ActionsOf[Head(schedule)])
  /\ pc' = [pc EXCEPT ![e] = At(ActionsOf[Head(schedule)])]
  /\ UNCHANGED <<programVars, lockVars, pushes>>

(* ... or wait until there is one, or until nobody works any more ...      *)
Wait(e) ==
  /\ pc[e] = "take" /\ schedule = <<>> /\ pending # 0
  /\ pc' = [pc EXCEPT ![e] = "waiting"]
  /\ UNCHANGED <<programVars, listVars, lockVars, record, rest, todo, pushes>>

(* A plausible bug: the news is not passed on.                             *)
ExitSilently(e) ==
  /\ pc[e] = "take" /\ schedule = <<>> /\ pending = 0
  /\ pc' = [pc EXCEPT ![e] = "exited"]
  /\ UNCHANGED <<programVars, listVars, lockVars, record, rest, todo, pushes>>

(* A plausible bug: an empty schedule is taken for the end.                *)
ExitEarly(e) ==
  /\ pc[e] = "take" /\ schedule = <<>>
  /\ SignalAndGoto(e, "exited")
  /\ UNCHANGED <<programVars, listVars, lockVars, record, rest, todo, pushes>>

(* ... and exit then, after passing the news on.                           *)
Exit(e) ==
  /\ pc[e] = "take" /\ schedule = <<>> /\ pending = 0
  /\ SignalAndGoto(e, "exited")
  /\ UNCHANGED <<programVars, listVars, lockVars, record, rest, todo, pushes>>

(* pthread_rwlock_rdlock and pthread_rwlock_wrlock return.                 *)
Free(i) == writer[i] = NoThread /\ readers[i] = {}

AcquireRead(e, i) ==
  /\ writer[i] = NoThread
  /\ readers' = [readers EXCEPT ![i] = @ \cup {e}]
  /\ UNCHANGED writer

AcquireWrite(e, i) ==
  /\ Free(i)
  /\ writer' = [writer EXCEPT ![i] = e]
  /\ UNCHANGED readers

(* A plausible bug: only a write lock is given back.                       *)
ReleaseWrite(e, i) ==
  /\ writer' = [writer EXCEPT ![i] = IF @ = e THEN NoThread ELSE @]
  /\ UNCHANGED readers

Release(e, i) ==
  /\ writer' = [writer EXCEPT ![i] = IF @ = e THEN NoThread ELSE @]
  /\ readers' = [readers EXCEPT ![i] = @ \ {e}]

(* A plausible bug: any access is taken for a reader's.                    *)
LockNextReading(e) ==
  /\ pc[e] = "lock"
  /\ \E i \in Instance :
       /\ First(i, todo[e])
       /\ AcquireRead(e, i)
       /\ todo' = [todo EXCEPT ![e] = @ \ {i}]
       /\ pc' = [pc EXCEPT ![e] = IF todo[e] = {i} THEN "run" ELSE "lock"]
  /\ UNCHANGED <<programVars, listVars, record, rest, pushes>>

LockNext(e) ==
  /\ pc[e] = "lock"
  /\ \E i \in Instance :
       /\ First(i, todo[e])
       /\ \/ Access[Head(rest[e])][i] = "Read" /\ AcquireRead(e, i)
          \/ Access[Head(rest[e])][i] = "Write" /\ AcquireWrite(e, i)
       /\ todo' = [todo EXCEPT ![e] = @ \ {i}]
       /\ pc' = [pc EXCEPT ![e] = IF todo[e] = {i} THEN "run" ELSE "lock"]
  /\ UNCHANGED <<programVars, listVars, record, rest, pushes>>

(* The actions whose precondition a change of the instances in S may       *)
(* affect.                                                                 *)
LooksAt(b) == Pulls[b] \cup {Owner(b)}
TouchedBy(S) == {b \in Action : LooksAt(b) \cap S # {}}
Touched(a) == TouchedBy(Written(a))

Commit(a, S) ==
  \E on \in SUBSET TouchedBy(S) :
    LET gained == (on \ enabled) \cup (on \cap {a}) IN
    /\ Cardinality(gained) <= credit
    /\ credit' = credit - Cardinality(gained)
    /\ enabled' = (enabled \ TouchedBy(S)) \cup on

(* The next action, its locks given back.                                  *)
NextAction(e) ==
  /\ Begin(e, Tail(rest[e]))
  /\ pc' = [pc EXCEPT ![e] = At(Tail(rest[e]))]

(* execute (action): evaluate the precondition, and the transaction if it  *)
(* is true.  Its pushes follow, each a critical section of its own, before *)
(* the locks are given back.  A precondition that is false may have        *)
(* written all the same.                                                   *)
Run(e) ==
  LET a == Head(rest[e])
      after == IF a \in enabled THEN Pushes(a) ELSE {}
  IN
  /\ pc[e] = "run"
  /\ Commit(a, IF a \in enabled THEN Written(a) ELSE WrittenEarly(a))
  /\ pushes' = [pushes EXCEPT ![e] = after]
  /\ \/ /\ after # {} \/ LockSet(a) # {}
        /\ todo' = [todo EXCEPT ![e] = LockSet(a)]
        /\ pc' = [pc EXCEPT ![e] = IF after # {} THEN "push" ELSE "unlock"]
        /\ UNCHANGED rest
     \/ /\ after = {} /\ LockSet(a) = {}
        /\ NextAction(e)
  /\ UNCHANGED <<listVars, lockVars, record>>

(* Executor::push calls scheduler_.push, which adds an instance that is    *)
(* not on the schedule, and signals in any case.                           *)
Push(e) ==
  /\ pc[e] = "push"
  /\ \E p \in pushes[e] :
       LET more == pushes[e] # {p}
           i == Target(p)
       IN
       /\ \A q \in pushes[e] \ {p} : Before(p, q)
       /\ pushes' = [pushes EXCEPT ![e] = @ \ {p}]
       /\ schedule' = IF next[i] THEN schedule ELSE Append(schedule, i)
       /\ next' = [next EXCEPT ![i] = TRUE]
       /\ \/ more /\ SignalAndGoto(e, "push") /\ UNCHANGED <<rest, todo>>
          \/ ~more /\ todo[e] # {} /\ SignalAndGoto(e, "unlock") /\ UNCHANGED <<rest, todo>>
          \/ ~more /\ todo[e] = {} /\ SignalAndGoto(e, At(Tail(rest[e]))) /\ Begin(e, Tail(rest[e]))
  /\ UNCHANGED <<programVars, pending, lockVars, record>>

UnlockNext(e) ==
  /\ pc[e] = "unlock"
  /\ \E i \in Instance :
       /\ First(i, todo[e])
       /\ Release(e, i)
       /\ \/ /\ todo[e] # {i}
             /\ todo' = [todo EXCEPT ![e] = @ \ {i}]
             /\ UNCHANGED <<pc, rest>>
          \/ /\ todo[e] = {i}
             /\ NextAction(e)
  /\ UNCHANGED <<programVars, listVars, record, pushes>>

(* collect_garbage under the write lock of the instance.                   *)
GcLock(e) ==
  /\ pc[e] = "gc"
  /\ AcquireWrite(e, record[e])
  /\ pc' = [pc EXCEPT ![e] = "collect"]
  /\ UNCHANGED <<programVars, listVars, record, rest, todo, pushes>>

GcUnlock(e) ==
  /\ pc[e] = "collect"
  /\ Release(e, record[e])
  /\ pc' = [pc EXCEPT ![e] = "finish"]
  /\ UNCHANGED <<programVars, listVars, record, rest, todo, pushes>>

Finish(e) ==
  /\ pc[e] = "finish"
  /\ pending' = pending - 1
  /\ record' = [record EXCEPT ![e] = NoInstance]
  /\ SignalAndGoto(e, "take")
  /\ UNCHANGED <<programVars, schedule, next, lockVars, rest, todo, pushes>>

Step(e) ==
  \/ Take(e) \/ Wait(e) \/ Exit(e) \/ LockNext(e) \/ Run(e) \/ Push(e)
  \/ UnlockNext(e) \/ GcLock(e) \/ GcUnlock(e) \/ Finish(e)

Next == \E e \in Thread : Step(e)

(* Every executor is a thread the system schedules.                        *)
Spec == Init /\ [][Next]_vars /\ \A e \in Thread : WF_vars(Step(e))

-----------------------------------------------------------------------------
OnSchedule(i) == \E k \in DOMAIN schedule : schedule[k] = i

(* Two threads never run actions, or an action and a collection, that      *)
(* touch one instance when one of them writes it, although an instance can *)
(* be on the schedule again while a thread is still working on it.         *)
Uses(e, i) ==
  IF pc[e] \in {"run", "push"} THEN
    IF i \in DOMAIN Access[Head(rest[e])] THEN Access[Head(rest[e])][i] ELSE "None"
  ELSE IF pc[e] = "collect" /\ record[e] = i THEN "Write" ELSE "None"
Isolation ==
  \A e, f \in Thread : \A i \in Instance :
    e # f /\ Uses(e, i) = "Write" => Uses(f, i) = "None"

(* An executor that is between two actions holds no lock: not one is left   *)
(* behind, on whichever way an action with its locks and pushes ends.      *)
Held(e) == {i \in Instance : writer[i] = e \/ e \in readers[i]}
LocksGivenBack ==
  \A e \in Thread : pc[e] \notin {"lock", "run", "push", "unlock", "collect"} => Held(e) = {}

(* An action that can run is not forgotten: its instance is on the         *)
(* schedule, or will be pushed by the transaction that enabled it, or a    *)
(* thread is about to try it.  That is so of the actions whose transaction *)
(* writes what their precondition looks at or activates with arguments:    *)
(* the others do not push their instance, and are tried once.  And it is   *)
(* so if their precondition looks at nothing that is written before an     *)
(* activation: only an activation pushes.                                  *)
InHand(a) ==
  \/ OnSchedule(Owner(a))
  \/ \E e \in Thread : \E p \in pushes[e] : Target(p) = Owner(a)
  \/ \E e \in Thread : \E k \in DOMAIN rest[e] :
       rest[e][k] = a /\ (k = 1 => pc[e] \in {"lock", "run"})
Repeats(a) == a \in Touched(a) \/ a \in Calls
Announced(a) == \A b \in Action : LooksAt(a) \cap WrittenEarly(b) = {}
Followed(a) == Repeats(a) /\ Announced(a)
NotForgotten == \A a \in enabled : Followed(a) => InHand(a)

(* The documentation has it of every action that repeats itself: the state *)
(* of a component does not change in an immutable phase, and the scheduler *)
(* selects the enabled transactions.                                       *)
NoneForgotten == \A a \in enabled : Repeats(a) => InHand(a)

(* A thread exits only when the program is at rest: no other is working,   *)
(* and no action that repeats itself, and looks at nothing that is written *)
(* before an activation, can run.                                          *)
Off == {"take", "waiting", "exited"}
ExitsAtRest ==
  (\E e \in Thread : pc[e] = "exited") =>
    /\ \A f \in Thread : pc[f] \in Off
    /\ \A a \in enabled : ~Followed(a)

(* Every thread exits, if the program comes to rest.                       *)
Terminates == <>(\A e \in Thread : pc[e] = "exited")
=============================================================================
