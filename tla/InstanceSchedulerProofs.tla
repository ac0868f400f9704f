---------------------- MODULE InstanceSchedulerProofs ----------------------
(***************************************************************************)
(* InstanceScheduler for every program and any number of threads.          *)
(*                                                                         *)
(* The locks: transactions are isolated, and no lock is left behind.  Both *)
(* follow from an exact account of the locks (IInv): an executor holds     *)
(* what the place it has reached in run_i says, and no lock has a writer   *)
(* beside another owner.                                                   *)
(*                                                                         *)
(* The schedule: an action that can run is not forgotten (FInv, of which   *)
(* NotForgotten is a part, says where a thread has actions to try and      *)
(* instances to push), and with the meaning of pending_ (RInv) threads     *)
(* exit only when the program is at rest.                                  *)
(***************************************************************************)
EXTENDS InstanceScheduler, FiniteSetTheorems, TLAPS

Shape ==
  /\ pc \in [Thread -> Pc]
  /\ writer \in [Instance -> Thread \cup {NoThread}]
  /\ readers \in [Instance -> SUBSET Thread]
  /\ todo = [e \in Thread |-> todo[e]]
  /\ rest = [e \in Thread |-> rest[e]]
  /\ record = [e \in Thread |-> record[e]]

Exclusive == \A i \in Instance : writer[i] # NoThread => readers[i] = {}

(* The locks an executor ought to hold at its place. *)
Due(e) ==
  IF pc[e] = "lock" THEN LockSet(Head(rest[e])) \ todo[e]
  ELSE IF pc[e] \in {"run", "push"} THEN LockSet(Head(rest[e]))
  ELSE IF pc[e] = "unlock" THEN todo[e]
  ELSE IF pc[e] = "collect" THEN {record[e]} ELSE {}

Account(e) ==
  /\ Held(e) = Due(e) \cap Instance
  /\ pc[e] = "lock" => todo[e] \subseteq LockSet(Head(rest[e]))
  /\ pc[e] = "push" => todo[e] = LockSet(Head(rest[e]))
  /\ pc[e] \in {"lock", "run", "push"} =>
       \A i \in Held(e) : Access[Head(rest[e])][i] = "Write" => writer[i] = e
  /\ pc[e] = "collect" => \A i \in Held(e) : writer[i] = e

IInv == Shape /\ Exclusive /\ \A e \in Thread : Account(e)

-----------------------------------------------------------------------------
(* In the beginning nobody holds a lock. *)
LEMMA InitIInv == Init => IInv
<1> SUFFICES ASSUME Init PROVE IInv
  OBVIOUS
<1>1. Shape
  BY DEF Init, Shape, Pc
<1>2. Exclusive
  BY DEF Init, Exclusive
<1>3. ASSUME NEW e \in Thread PROVE Account(e)
  BY ConstantsAssumption DEF Init, Account, Held, Due
<1>4. QED
  BY <1>1, <1>2, <1>3 DEF IInv

-----------------------------------------------------------------------------
(* What a step of another executor leaves alone: at most it wakes f up. *)
Still(f) ==
  /\ pc'[f] = pc[f] \/ (pc[f] = "waiting" /\ pc'[f] = "take")
  /\ todo'[f] = todo[f] /\ rest'[f] = rest[f] /\ record'[f] = record[f]
  /\ \A i \in Instance : /\ (writer'[i] = f) = (writer[i] = f)
                         /\ (f \in readers'[i]) = (f \in readers[i])

LEMMA StillAccount ==
  ASSUME NEW f \in Thread, Account(f), Still(f)
  PROVE  Account(f)'
<1>1. Held(f)' = Held(f)
  BY DEF Held, Still
<1>2. Due(f)' = Due(f)
  BY DEF Due, Still
<1>3. /\ (pc[f] = "lock")' => todo'[f] \subseteq LockSet(Head(rest'[f]))
      /\ (pc[f] = "push")' => todo'[f] = LockSet(Head(rest'[f]))
  BY DEF Account, Still
<1>4. (pc[f] \in {"lock", "run", "push"})' =>
        \A i \in Held(f)' : Access[Head(rest'[f])][i] = "Write" => writer'[i] = f
  BY <1>1 DEF Account, Still, Held
<1>5. (pc[f] = "collect")' => \A i \in Held(f)' : writer'[i] = f
  BY <1>1 DEF Account, Still, Held
<1>6. QED
  BY <1>1, <1>2, <1>3, <1>4, <1>5 DEF Account

(* So a step of e has to be checked for e only. *)
LEMMA StepOfOne ==
  ASSUME IInv, NEW e \in Thread, Shape', Exclusive', Account(e)',
         \A f \in Thread \ {e} : Still(f)
  PROVE  IInv'
<1>1. ASSUME NEW f \in Thread PROVE Account(f)'
  <2>1. CASE f = e
    BY <2>1
  <2>2. CASE f # e
    BY <2>2, StillAccount DEF IInv
  <2>3. QED
    BY <2>1, <2>2
<1>2. QED
  BY <1>1 DEF IInv

(* A step of an executor e that only goes on. *)
LEMMA GoesOn ==
  ASSUME Shape, NEW e \in Thread, NEW p \in Pc, pc' = [pc EXCEPT ![e] = p]
  PROVE  /\ pc' \in [Thread -> Pc] /\ pc'[e] = p
         /\ \A f \in Thread \ {e} : pc'[f] = pc[f]
BY DEF Shape

(* A signal wakes at most one executor. *)
LEMMA Signals ==
  ASSUME Shape, NEW e \in Thread, pc[e] # "waiting", NEW p \in Pc, SignalAndGoto(e, p)
  PROVE  /\ pc' \in [Thread -> Pc] /\ pc'[e] = p
         /\ \A f \in Thread \ {e} : pc'[f] = pc[f] \/ (pc[f] = "waiting" /\ pc'[f] = "take")
<1>1. CASE pc' = [pc EXCEPT ![e] = p]
  BY <1>1, GoesOn
<1>2. CASE \E g \in Thread : pc[g] = "waiting" /\ pc' = [pc EXCEPT ![g] = "take", ![e] = p]
  <2>1. PICK g \in Thread : pc[g] = "waiting" /\ pc' = [pc EXCEPT ![g] = "take", ![e] = p]
    BY <1>2
  <2>2. QED
    BY <2>1 DEF Shape, Pc
<1>3. QED
  BY <1>1, <1>2 DEF SignalAndGoto

-----------------------------------------------------------------------------
(* Where an executor stands that begins with the actions in s: it holds nothing
   yet, and that is right. *)
LEMMA Begins ==
  ASSUME NEW e \in Thread, NEW s, Shape, Begin(e, s), pc'[e] = At(s), Held(e)' = {}
  PROVE  /\ Account(e)' /\ At(s) \in Pc
         /\ todo' = [f \in Thread |-> todo'[f]] /\ rest' = [f \in Thread |-> rest'[f]]
         /\ \A f \in Thread \ {e} : todo'[f] = todo[f] /\ rest'[f] = rest[f]
<1>1. /\ rest'[e] = s /\ todo'[e] = IF s = <<>> THEN {} ELSE LockSet(Head(s))
      /\ todo' = [f \in Thread |-> todo'[f]] /\ rest' = [f \in Thread |-> rest'[f]]
      /\ \A f \in Thread \ {e} : todo'[f] = todo[f] /\ rest'[f] = rest[f]
  BY DEF Begin, Shape
<1>2. At(s) \in {"gc", "run", "lock"}
  BY DEF At
<1>3. Due(e)' = {}
  BY <1>1 DEF Due, At
<1>4. Account(e)'
  BY <1>1, <1>2, <1>3 DEF Account, At
<1>5. QED
  BY <1>1, <1>2, <1>4 DEF Pc

(* Nobody who stands where Due is empty holds a lock. *)
LEMMA HoldsNothing ==
  ASSUME NEW e \in Thread, Account(e), Due(e) = {}
  PROVE  Held(e) = {}
BY DEF Account

LEMMA LocksUnchanged ==
  ASSUME UNCHANGED lockVars, Shape, Exclusive
  PROVE  /\ Exclusive' /\ \A f \in Thread : Held(f)' = Held(f)
         /\ writer' = writer /\ readers' = readers
BY DEF lockVars, Exclusive, Held

(* Taking an instance from the schedule. *)
LEMMA TakeIInv ==
  ASSUME IInv, NEW e \in Thread, Take(e)
  PROVE  IInv'
<1> DEFINE s == ActionsOf[Head(schedule)]
<1>1. /\ Shape /\ Exclusive /\ Account(e) /\ pc[e] = "take" /\ Begin(e, s)
      /\ pc' = [pc EXCEPT ![e] = At(s)] /\ UNCHANGED lockVars
      /\ record' = [record EXCEPT ![e] = Head(schedule)]
  BY DEF IInv, Take
<1>2. Held(e)' = {}
  BY <1>1, HoldsNothing, LocksUnchanged DEF Due
<1>3. At(s) \in Pc
  BY DEF At, Pc
<1>4. /\ pc' \in [Thread -> Pc] /\ pc'[e] = At(s)
      /\ \A f \in Thread \ {e} : pc'[f] = pc[f]
  BY <1>1, <1>3, GoesOn
<1>5. /\ Account(e)'
      /\ todo' = [f \in Thread |-> todo'[f]] /\ rest' = [f \in Thread |-> rest'[f]]
      /\ \A f \in Thread \ {e} : todo'[f] = todo[f] /\ rest'[f] = rest[f]
  BY <1>1, <1>2, <1>4, Begins
<1>6. Shape' /\ Exclusive'
  BY <1>1, <1>4, <1>5, LocksUnchanged DEF Shape
<1>7. \A f \in Thread \ {e} : Still(f)
  BY <1>1, <1>4, <1>5, LocksUnchanged DEF Still, Shape
<1>8. QED
  BY <1>5, <1>6, <1>7, StepOfOne

(* Waiting, and leaving. *)
LEMMA WaitIInv ==
  ASSUME IInv, NEW e \in Thread, Wait(e)
  PROVE  IInv'
<1>1. /\ Shape /\ Exclusive /\ Account(e) /\ pc[e] = "take"
      /\ pc' = [pc EXCEPT ![e] = "waiting"]
      /\ UNCHANGED <<lockVars, record, rest, todo>>
  BY DEF IInv, Wait
<1>2. /\ pc' \in [Thread -> Pc] /\ pc'[e] = "waiting"
      /\ \A f \in Thread \ {e} : pc'[f] = pc[f]
  BY <1>1, GoesOn DEF Pc
<1>3. Shape' /\ Exclusive'
  BY <1>1, <1>2, LocksUnchanged DEF Shape
<1>4. Account(e)'
  BY <1>1, <1>2, LocksUnchanged DEF Account, Due
<1>5. \A f \in Thread \ {e} : Still(f)
  BY <1>1, <1>2, LocksUnchanged DEF Still
<1>6. QED
  BY <1>3, <1>4, <1>5, StepOfOne

LEMMA ExitIInv ==
  ASSUME IInv, NEW e \in Thread, Exit(e)
  PROVE  IInv'
<1>1. /\ Shape /\ Exclusive /\ Account(e) /\ pc[e] = "take"
      /\ SignalAndGoto(e, "exited") /\ UNCHANGED <<lockVars, record, rest, todo>>
  BY DEF IInv, Exit
<1>2. /\ pc' \in [Thread -> Pc] /\ pc'[e] = "exited"
      /\ \A f \in Thread \ {e} : pc'[f] = pc[f] \/ (pc[f] = "waiting" /\ pc'[f] = "take")
  BY <1>1, Signals DEF Pc
<1>3. Shape' /\ Exclusive'
  BY <1>1, <1>2, LocksUnchanged DEF Shape
<1>4. Account(e)'
  BY <1>1, <1>2, LocksUnchanged DEF Account, Due
<1>5. \A f \in Thread \ {e} : Still(f)
  BY <1>1, <1>2, LocksUnchanged DEF Still
<1>6. QED
  BY <1>3, <1>4, <1>5, StepOfOne

(* Giving up the place after the collection. *)
LEMMA FinishIInv ==
  ASSUME IInv, NEW e \in Thread, Finish(e)
  PROVE  IInv'
<1>1. /\ Shape /\ Exclusive /\ Account(e) /\ pc[e] = "finish"
      /\ record' = [record EXCEPT ![e] = NoInstance]
      /\ SignalAndGoto(e, "take") /\ UNCHANGED <<lockVars, rest, todo>>
  BY DEF IInv, Finish
<1>2. /\ pc' \in [Thread -> Pc] /\ pc'[e] = "take"
      /\ \A f \in Thread \ {e} : pc'[f] = pc[f] \/ (pc[f] = "waiting" /\ pc'[f] = "take")
  BY <1>1, Signals DEF Pc
<1>3. Shape' /\ Exclusive'
  BY <1>1, <1>2, LocksUnchanged DEF Shape
<1>4. Account(e)'
  BY <1>1, <1>2, LocksUnchanged DEF Account, Due
<1>5. \A f \in Thread \ {e} : Still(f)
  BY <1>1, <1>2, LocksUnchanged DEF Still, Shape
<1>6. QED
  BY <1>3, <1>4, <1>5, StepOfOne

-----------------------------------------------------------------------------
(* What taking and giving back a lock does to the owners. *)
LEMMA Acquires ==
  ASSUME Shape, Exclusive, NEW e \in Thread, NEW i \in Instance,
         AcquireRead(e, i) \/ AcquireWrite(e, i)
  PROVE  /\ writer' \in [Instance -> Thread \cup {NoThread}]
         /\ readers' \in [Instance -> SUBSET Thread]
         /\ Exclusive'
         /\ Held(e)' = Held(e) \cup {i}
         /\ AcquireWrite(e, i) => writer'[i] = e
         /\ \A j \in Instance : j # i => writer'[j] = writer[j]
         /\ \A f \in Thread \ {e}, j \in Instance :
              /\ (writer'[j] = f) = (writer[j] = f)
              /\ (f \in readers'[j]) = (f \in readers[j])
<1>1. NoThread \notin Thread
  BY ConstantsAssumption
<1>2. CASE AcquireRead(e, i)
  <2>1. /\ writer[i] = NoThread /\ writer' = writer
        /\ readers' = [readers EXCEPT ![i] = @ \cup {e}]
    BY <1>2 DEF AcquireRead
  <2>2. ~AcquireWrite(e, i)
    BY <1>1, <2>1 DEF AcquireWrite, Shape
  <2>3. QED
    BY <2>1, <2>2 DEF Shape, Exclusive, Held
<1>3. CASE AcquireWrite(e, i)
  <2>1. /\ writer[i] = NoThread /\ readers[i] = {} /\ readers' = readers
        /\ writer' = [writer EXCEPT ![i] = e]
    BY <1>3 DEF AcquireWrite, Free
  <2>2. QED
    BY <1>1, <2>1 DEF Shape, Exclusive, Held
<1>4. QED
  BY <1>2, <1>3

LEMMA Releases ==
  ASSUME Shape, Exclusive, NEW e \in Thread, NEW i \in Instance, Release(e, i)
  PROVE  /\ writer' \in [Instance -> Thread \cup {NoThread}]
         /\ readers' \in [Instance -> SUBSET Thread]
         /\ Exclusive'
         /\ Held(e)' = Held(e) \ {i}
         /\ \A f \in Thread \ {e}, j \in Instance :
              /\ (writer'[j] = f) = (writer[j] = f)
              /\ (f \in readers'[j]) = (f \in readers[j])
<1>1. NoThread \notin Thread
  BY ConstantsAssumption
<1>2. /\ writer' = [writer EXCEPT ![i] = IF @ = e THEN NoThread ELSE @]
      /\ readers' = [readers EXCEPT ![i] = @ \ {e}]
  BY DEF Release
<1>3. QED
  BY <1>1, <1>2 DEF Shape, Exclusive, Held

(* Locking the next instance of the set. *)
LEMMA LockNextIInv ==
  ASSUME IInv, NEW e \in Thread, LockNext(e)
  PROVE  IInv'
<1> DEFINE a == Head(rest[e])
<1>1. Shape /\ Exclusive /\ Account(e) /\ pc[e] = "lock"
  BY DEF IInv, LockNext
<1>2. PICK i \in Instance :
        /\ i \in todo[e]
        /\ \/ Access[a][i] = "Read" /\ AcquireRead(e, i)
           \/ Access[a][i] = "Write" /\ AcquireWrite(e, i)
        /\ todo' = [todo EXCEPT ![e] = @ \ {i}]
        /\ pc' = [pc EXCEPT ![e] = IF todo[e] = {i} THEN "run" ELSE "lock"]
        /\ UNCHANGED <<record, rest>>
  BY DEF LockNext, First
<1>3. /\ pc' \in [Thread -> Pc] /\ pc'[e] = IF todo[e] = {i} THEN "run" ELSE "lock"
      /\ \A f \in Thread \ {e} : pc'[f] = pc[f]
  BY <1>1, <1>2 DEF Shape, Pc
<1>4. todo'[e] = todo[e] \ {i}
  BY <1>1, <1>2 DEF Shape
<1>5. Shape'
  BY <1>1, <1>2, <1>3, Acquires DEF Shape
<1>6. Exclusive'
  BY <1>1, <1>2, Acquires
<1>7. Account(e)'
  <2>1. Held(e) = (LockSet(a) \ todo[e]) \cap Instance
    BY <1>1 DEF Account, Due
  <2>2. todo[e] \subseteq LockSet(a) /\ \A j \in Held(e) : Access[a][j] = "Write" => writer[j] = e
    BY <1>1 DEF Account
  <2>3. Held(e)' = (LockSet(a) \ todo'[e]) \cap Instance
    BY <1>1, <1>2, <1>4, <2>1, <2>2, Acquires
  <2>4. rest'[e] = rest[e]
    BY <1>2
  <2>5. Held(e)' = Due(e)' \cap Instance
    <3>1. CASE todo[e] = {i}
      BY <1>3, <1>4, <2>3, <2>4, <3>1 DEF Due
    <3>2. CASE todo[e] # {i}
      BY <1>3, <2>3, <2>4, <3>2 DEF Due
    <3>3. QED
      BY <3>1, <3>2
  <2>6. \A j \in Held(e)' : Access[a][j] = "Write" => writer'[j] = e
    <3>1. TAKE j \in Held(e)'
    <3>2. HAVE Access[a][j] = "Write"
    <3>3. CASE j = i
      BY <1>1, <1>2, <3>2, <3>3, Acquires
    <3>4. CASE j # i
      BY <1>1, <1>2, <2>2, <3>2, <3>4, Acquires DEF Held
    <3>5. QED
      BY <3>3, <3>4
  <2>7. QED
    BY <1>3, <1>4, <2>2, <2>4, <2>5, <2>6 DEF Account
<1>8. \A f \in Thread \ {e} : Still(f)
  BY <1>1, <1>2, <1>3, Acquires DEF Still, Shape
<1>9. QED
  BY <1>5, <1>6, <1>7, <1>8, StepOfOne

-----------------------------------------------------------------------------
(* Evaluating an action: the locks stay as they are, unless there were none. *)
LEMMA RunIInv ==
  ASSUME IInv, NEW e \in Thread, Run(e)
  PROVE  IInv'
<1> DEFINE a == Head(rest[e])
          after == IF a \in enabled THEN Pushes(a) ELSE {}
<1>1. /\ Shape /\ Exclusive /\ Account(e) /\ pc[e] = "run"
      /\ UNCHANGED <<lockVars, record>>
  BY DEF IInv, Run
<1>2. CASE /\ todo' = [todo EXCEPT ![e] = LockSet(a)]
           /\ pc' = [pc EXCEPT ![e] = IF after # {} THEN "push" ELSE "unlock"]
           /\ UNCHANGED rest
  <2>1. PICK p \in {"push", "unlock"} : pc' = [pc EXCEPT ![e] = p]
    BY <1>2
  <2>2. /\ pc' \in [Thread -> Pc] /\ pc'[e] = p
        /\ \A f \in Thread \ {e} : pc'[f] = pc[f]
    BY <1>1, <2>1, GoesOn DEF Pc
  <2>3. todo'[e] = LockSet(a) /\ rest'[e] = rest[e]
    BY <1>1, <1>2 DEF Shape
  <2>4. Shape' /\ Exclusive'
    BY <1>1, <1>2, <2>2, LocksUnchanged DEF Shape
  <2>5. Account(e)'
    BY <1>1, <2>2, <2>3, LocksUnchanged DEF Account, Due
  <2>6. \A f \in Thread \ {e} : Still(f)
    BY <1>1, <1>2, <2>2, LocksUnchanged DEF Still, Shape
  <2>7. QED
    BY <2>4, <2>5, <2>6, StepOfOne
<1>3. CASE LockSet(a) = {} /\ NextAction(e)
  <2>1. Held(e)' = {}
    BY <1>1, <1>3, HoldsNothing, LocksUnchanged DEF Due
  <2>2. Begin(e, Tail(rest[e])) /\ pc' = [pc EXCEPT ![e] = At(Tail(rest[e]))]
    BY <1>3 DEF NextAction
  <2>3. At(Tail(rest[e])) \in Pc
    BY DEF At, Pc
  <2>4. /\ pc' \in [Thread -> Pc] /\ pc'[e] = At(Tail(rest[e]))
        /\ \A f \in Thread \ {e} : pc'[f] = pc[f]
    BY <1>1, <2>2, <2>3, GoesOn
  <2>5. /\ Account(e)'
        /\ todo' = [f \in Thread |-> todo'[f]] /\ rest' = [f \in Thread |-> rest'[f]]
        /\ \A f \in Thread \ {e} : todo'[f] = todo[f] /\ rest'[f] = rest[f]
    BY <1>1, <2>1, <2>2, <2>4, Begins
  <2>6. Shape' /\ Exclusive'
    BY <1>1, <2>4, <2>5, LocksUnchanged DEF Shape
  <2>7. \A f \in Thread \ {e} : Still(f)
    BY <1>1, <2>4, <2>5, LocksUnchanged DEF Still
  <2>8. QED
    BY <2>5, <2>6, <2>7, StepOfOne
<1>4. QED
  BY <1>2, <1>3 DEF Run

(* Pushing an instance on the schedule. *)
LEMMA PushIInv ==
  ASSUME IInv, NEW e \in Thread, Push(e)
  PROVE  IInv'
<1>1. /\ Shape /\ Exclusive /\ Account(e) /\ pc[e] = "push"
      /\ UNCHANGED <<lockVars, record>>
  BY DEF IInv, Push
<1>2. CASE \E p \in {"push", "unlock"} : SignalAndGoto(e, p) /\ UNCHANGED <<rest, todo>>
  <2>1. PICK p \in {"push", "unlock"} : SignalAndGoto(e, p) /\ UNCHANGED <<rest, todo>>
    BY <1>2
  <2>2. /\ pc' \in [Thread -> Pc] /\ pc'[e] = p
        /\ \A f \in Thread \ {e} : pc'[f] = pc[f] \/ (pc[f] = "waiting" /\ pc'[f] = "take")
    BY <1>1, <2>1, Signals DEF Pc
  <2>3. Shape' /\ Exclusive'
    BY <1>1, <2>1, <2>2, LocksUnchanged DEF Shape
  <2>4. Account(e)'
    BY <1>1, <2>1, <2>2, LocksUnchanged DEF Account, Due
  <2>5. \A f \in Thread \ {e} : Still(f)
    BY <1>1, <2>1, <2>2, LocksUnchanged DEF Still
  <2>6. QED
    BY <2>3, <2>4, <2>5, StepOfOne
<1>3. CASE todo[e] = {} /\ SignalAndGoto(e, At(Tail(rest[e]))) /\ Begin(e, Tail(rest[e]))
  <2>1. Held(e)' = {}
    BY <1>1, <1>3, HoldsNothing, LocksUnchanged DEF Due, Account
  <2>2. At(Tail(rest[e])) \in Pc
    BY DEF At, Pc
  <2>3. /\ pc' \in [Thread -> Pc] /\ pc'[e] = At(Tail(rest[e]))
        /\ \A f \in Thread \ {e} : pc'[f] = pc[f] \/ (pc[f] = "waiting" /\ pc'[f] = "take")
    BY <1>1, <1>3, <2>2, Signals
  <2>4. /\ Account(e)'
        /\ todo' = [f \in Thread |-> todo'[f]] /\ rest' = [f \in Thread |-> rest'[f]]
        /\ \A f \in Thread \ {e} : todo'[f] = todo[f] /\ rest'[f] = rest[f]
    BY <1>1, <1>3, <2>1, <2>3, Begins
  <2>5. Shape' /\ Exclusive'
    BY <1>1, <2>3, <2>4, LocksUnchanged DEF Shape
  <2>6. \A f \in Thread \ {e} : Still(f)
    BY <1>1, <2>3, <2>4, LocksUnchanged DEF Still
  <2>7. QED
    BY <2>4, <2>5, <2>6, StepOfOne
<1>4. QED
  BY <1>2, <1>3 DEF Push

(* Giving a lock back, and going on to the next action after the last. *)
LEMMA UnlockNextIInv ==
  ASSUME IInv, NEW e \in Thread, UnlockNext(e)
  PROVE  IInv'
<1>1. Shape /\ Exclusive /\ Account(e) /\ pc[e] = "unlock"
  BY DEF IInv, UnlockNext
<1>2. PICK i \in Instance :
        /\ i \in todo[e] /\ Release(e, i) /\ record' = record
        /\ \/ /\ todo[e] # {i}
              /\ todo' = [todo EXCEPT ![e] = @ \ {i}]
              /\ UNCHANGED <<pc, rest>>
           \/ /\ todo[e] = {i}
              /\ NextAction(e)
  BY DEF UnlockNext, First
<1>3. Held(e)' = (todo[e] \ {i}) \cap Instance
  BY <1>1, <1>2, Releases DEF Account, Due
<1>4. Exclusive'
  BY <1>1, <1>2, Releases
<1>5. CASE todo' = [todo EXCEPT ![e] = @ \ {i}] /\ UNCHANGED <<pc, rest>>
  <2>1. todo'[e] = todo[e] \ {i}
    BY <1>1, <1>5 DEF Shape
  <2>2. Shape'
    BY <1>1, <1>2, <1>5, Releases DEF Shape
  <2>3. Account(e)'
    BY <1>1, <1>3, <1>5, <2>1 DEF Account, Due
  <2>4. \A f \in Thread \ {e} : Still(f)
    BY <1>1, <1>2, <1>5, Releases DEF Still, Shape
  <2>5. QED
    BY <1>4, <2>2, <2>3, <2>4, StepOfOne
<1>6. CASE todo[e] = {i} /\ NextAction(e)
  <2>1. Held(e)' = {}
    BY <1>3, <1>6
  <2>2. Begin(e, Tail(rest[e])) /\ pc' = [pc EXCEPT ![e] = At(Tail(rest[e]))]
    BY <1>6 DEF NextAction
  <2>3. At(Tail(rest[e])) \in Pc
    BY DEF At, Pc
  <2>4. /\ pc' \in [Thread -> Pc] /\ pc'[e] = At(Tail(rest[e]))
        /\ \A f \in Thread \ {e} : pc'[f] = pc[f]
    BY <1>1, <2>2, <2>3, GoesOn
  <2>5. /\ Account(e)'
        /\ todo' = [f \in Thread |-> todo'[f]] /\ rest' = [f \in Thread |-> rest'[f]]
        /\ \A f \in Thread \ {e} : todo'[f] = todo[f] /\ rest'[f] = rest[f]
    BY <1>1, <2>1, <2>2, <2>4, Begins
  <2>6. Shape'
    BY <1>1, <1>2, <2>4, <2>5, Releases DEF Shape
  <2>7. \A f \in Thread \ {e} : Still(f)
    BY <1>1, <1>2, <2>4, <2>5, Releases DEF Still
  <2>8. QED
    BY <1>4, <2>5, <2>6, <2>7, StepOfOne
<1>7. QED
  BY <1>2, <1>5, <1>6

-----------------------------------------------------------------------------
(* The write lock for the collection.  The instance a thread has taken from the
   schedule may be anything here; a lock outside Instance cannot be had. *)
LEMMA GcLockIInv ==
  ASSUME IInv, NEW e \in Thread, GcLock(e)
  PROVE  IInv'
<1>1. /\ Shape /\ Exclusive /\ Account(e) /\ pc[e] = "gc" /\ AcquireWrite(e, record[e])
      /\ pc' = [pc EXCEPT ![e] = "collect"] /\ UNCHANGED <<record, rest, todo>>
  BY DEF IInv, GcLock
<1>2. /\ pc' \in [Thread -> Pc] /\ pc'[e] = "collect"
      /\ \A f \in Thread \ {e} : pc'[f] = pc[f]
  BY <1>1, GoesOn DEF Pc
<1>3. Held(e) = {}
  BY <1>1, HoldsNothing DEF Due
<1>4. CASE record[e] \in Instance
  <2>1. Shape' /\ Exclusive'
    BY <1>1, <1>2, <1>4, Acquires DEF Shape
  <2>2. Held(e)' = {record[e]} /\ writer'[record[e]] = e
    BY <1>1, <1>3, <1>4, Acquires
  <2>3. Account(e)'
    BY <1>1, <1>2, <1>4, <2>2 DEF Account, Due
  <2>4. \A f \in Thread \ {e} : Still(f)
    BY <1>1, <1>2, <1>4, Acquires DEF Still
  <2>5. QED
    BY <2>1, <2>3, <2>4, StepOfOne
<1>5. CASE record[e] \notin Instance
  <2>1. writer' = writer /\ readers' = readers
    BY <1>1, <1>5 DEF AcquireWrite, Shape
  <2>2. Shape' /\ Exclusive'
    BY <1>1, <1>2, <2>1 DEF Shape, Exclusive
  <2>3. Held(e)' = {}
    BY <1>3, <2>1 DEF Held
  <2>4. Account(e)'
    BY <1>1, <1>2, <1>5, <2>3 DEF Account, Due
  <2>5. \A f \in Thread \ {e} : Still(f)
    BY <1>1, <1>2, <2>1 DEF Still
  <2>6. QED
    BY <2>2, <2>4, <2>5, StepOfOne
<1>6. QED
  BY <1>4, <1>5

LEMMA GcUnlockIInv ==
  ASSUME IInv, NEW e \in Thread, GcUnlock(e)
  PROVE  IInv'
<1>1. /\ Shape /\ Exclusive /\ Account(e) /\ pc[e] = "collect" /\ Release(e, record[e])
      /\ pc' = [pc EXCEPT ![e] = "finish"] /\ UNCHANGED <<record, rest, todo>>
  BY DEF IInv, GcUnlock
<1>2. /\ pc' \in [Thread -> Pc] /\ pc'[e] = "finish"
      /\ \A f \in Thread \ {e} : pc'[f] = pc[f]
  BY <1>1, GoesOn DEF Pc
<1>3. Held(e) = {record[e]} \cap Instance
  BY <1>1 DEF Account, Due
<1>4. /\ writer' \in [Instance -> Thread \cup {NoThread}]
      /\ readers' \in [Instance -> SUBSET Thread]
      /\ Exclusive' /\ Held(e)' = {}
      /\ \A f \in Thread \ {e}, j \in Instance :
           /\ (writer'[j] = f) = (writer[j] = f)
           /\ (f \in readers'[j]) = (f \in readers[j])
  <2>1. CASE record[e] \in Instance
    BY <1>1, <1>3, <2>1, Releases
  <2>2. CASE record[e] \notin Instance
    <3>1. writer' = writer /\ readers' = readers
      BY <1>1, <2>2 DEF Release, Shape
    <3>2. QED
      BY <1>1, <1>3, <2>2, <3>1 DEF Shape, Exclusive, Held
  <2>3. QED
    BY <2>1, <2>2
<1>5. Shape'
  BY <1>1, <1>2, <1>4 DEF Shape
<1>6. Account(e)'
  BY <1>2, <1>4 DEF Account, Due
<1>7. \A f \in Thread \ {e} : Still(f)
  BY <1>1, <1>2, <1>4 DEF Still
<1>8. QED
  BY <1>4, <1>5, <1>6, <1>7, StepOfOne

-----------------------------------------------------------------------------
LEMMA StutterIInv ==
  ASSUME IInv, UNCHANGED vars
  PROVE  IInv'
BY DEF IInv, vars, Shape, Exclusive, Account, Held, Due

LEMMA NextIInv ==
  ASSUME IInv, [Next]_vars
  PROVE  IInv'
<1>1. CASE UNCHANGED vars
  BY <1>1, StutterIInv
<1>2. ASSUME NEW e \in Thread, Step(e) PROVE IInv'
  BY <1>2, TakeIInv, WaitIInv, ExitIInv, LockNextIInv, RunIInv, PushIInv,
     UnlockNextIInv, GcLockIInv, GcUnlockIInv, FinishIInv DEF Step
<1>3. QED
  BY <1>1, <1>2 DEF Next

LEMMA Invariance == Spec => []IInv
<1>1. Init => IInv
  BY InitIInv
<1>2. IInv /\ [Next]_vars => IInv'
  BY NextIInv
<1>3. QED
  BY <1>1, <1>2, PTL DEF Spec

(* No two threads run actions, or an action and a collection, that touch one
   instance when one of them writes it. *)
THEOREM Isolated == Spec => []Isolation
<1>1. IInv => Isolation
  <2> SUFFICES ASSUME IInv, NEW e \in Thread, NEW f \in Thread, NEW i \in Instance,
                      e # f, Uses(e, i) = "Write", Uses(f, i) # "None"
               PROVE  FALSE
    BY DEF Isolation
  <2>1. Shape /\ Exclusive /\ Account(e) /\ Account(f)
    BY DEF IInv
  <2>2. writer[i] = e
    <3>1. CASE pc[e] \in {"run", "push"}
      <4>1. i \in DOMAIN Access[Head(rest[e])] /\ Access[Head(rest[e])][i] = "Write"
        BY <3>1 DEF Uses
      <4>2. i \in Held(e)
        BY <2>1, <3>1, <4>1 DEF Account, Due, LockSet
      <4>3. QED
        BY <2>1, <3>1, <4>1, <4>2 DEF Account
    <3>2. CASE pc[e] \notin {"run", "push"}
      <4>1. pc[e] = "collect" /\ record[e] = i
        BY <3>2 DEF Uses
      <4>2. QED
        BY <2>1, <4>1 DEF Account, Due
    <3>3. QED
      BY <3>1, <3>2
  <2>3. i \in Held(f)
    <3>1. CASE pc[f] \in {"run", "push"}
      <4>1. i \in LockSet(Head(rest[f]))
        BY <3>1 DEF Uses, LockSet
      <4>2. QED
        BY <2>1, <3>1, <4>1 DEF Account, Due
    <3>2. CASE pc[f] \notin {"run", "push"}
      <4>1. pc[f] = "collect" /\ record[f] = i
        BY <3>2 DEF Uses
      <4>2. QED
        BY <2>1, <4>1 DEF Account, Due
    <3>3. QED
      BY <3>1, <3>2
  <2>4. readers[i] = {}
    BY <2>1, <2>2, ConstantsAssumption DEF Exclusive
  <2>5. QED
    BY <2>2, <2>3, <2>4 DEF Held
<1>2. QED
  BY <1>1, Invariance, PTL

(* A thread between two actions holds no lock. *)
THEOREM NothingLeftBehind == Spec => []LocksGivenBack
<1>1. IInv => LocksGivenBack
  BY DEF IInv, LocksGivenBack, Account, Due
<1>2. QED
  BY <1>1, Invariance, PTL

-----------------------------------------------------------------------------
(* NotForgotten.  The list says of an instance that it is on the schedule only
   if it is; a thread has actions to try just while it works on an instance, and
   something to push just while it does that. *)
Working == {"lock", "run", "push", "unlock"}

Listed ==
  /\ schedule \in Seq(Instance)
  /\ next \in [Instance -> BOOLEAN]
  /\ \A i \in Instance : next[i] => OnSchedule(i)

Place(e) ==
  /\ rest[e] \in Seq(Action)
  /\ pc[e] \in Working <=> rest[e] # <<>>
  /\ pushes[e] \subseteq Instance \X (Instance \cup {Itself})
  /\ pushes[e] # {} => pc[e] = "push"

ToPush(e, a) == \E p \in pushes[e] : Target(p) = Owner(a)
ToTry(e, a) == \E k \in DOMAIN rest[e] : rest[e][k] = a /\ (k = 1 => pc[e] \in {"lock", "run"})
Kept(a) == OnSchedule(Owner(a)) \/ \E e \in Thread : ToPush(e, a) \/ ToTry(e, a)

FInv ==
  /\ enabled \subseteq Action
  /\ pushes = [e \in Thread |-> pushes[e]]
  /\ Listed
  /\ \A e \in Thread : Place(e)
  /\ \A a \in enabled : Followed(a) => Kept(a)

(* Every action is one of its instance's. *)
LEMMA OwnerHas ==
  ASSUME NEW a \in Action
  PROVE  /\ Owner(a) \in Instance
         /\ \E k \in DOMAIN ActionsOf[Owner(a)] : ActionsOf[Owner(a)][k] = a
BY ConstantsAssumption DEF Owner

(* A transaction that changes what the precondition of b looks at pushes the
   instance of b, if no other change than by an activation can concern it, and
   so does one that repeats itself. *)
LEMMA PushesTouched ==
  ASSUME NEW a \in Action, NEW b \in Action, Announced(b), b \in Touched(a) \/ (b = a /\ a \in Calls)
  PROVE  \E p \in Pushes(a) : Target(p) = Owner(b)
<1>1. Owner(b) \in Instance /\ Itself \notin Instance
  BY OwnerHas, ConstantsAssumption DEF Itself
<1>2. CASE Owner(b) \in Pushing(a)
  <2>1. <<Owner(b), Itself>> \in Pushes(a)
    BY <1>2 DEF Pushes
  <2>2. QED
    BY <2>1 DEF Target
<1>3. CASE Owner(b) \notin Pushing(a)
  <2>1. PICK i \in Changes[a] : i \in Pulls[b]
    <3>1. b # a \/ a \notin Calls
      BY <1>3 DEF Pushing
    <3>2. PICK i \in Written(a) : i \in LooksAt(b)
      BY <3>1 DEF Touched, TouchedBy
    <3>3. i \in Changes[a]
      BY <3>2 DEF Announced, WrittenEarly
    <3>4. QED
      BY <1>3, <3>2, <3>3 DEF LooksAt, Pushing
  <2>2. Owner(b) \in Linked(i)
    BY <2>1, OwnerHas DEF Linked
  <2>3. <<i, Owner(b)>> \in Pushes(a)
    BY <1>1, <2>1, <2>2 DEF Pushes, Pushing
  <2>4. QED
    BY <1>1, <2>3 DEF Target
<1>4. QED
  BY <1>2, <1>3

LEMMA PushesType ==
  ASSUME NEW a \in Action
  PROVE  Pushes(a) \subseteq Instance \X (Instance \cup {Itself})
<1>1. Pushing(a) \subseteq Instance
  BY OwnerHas, ConstantsAssumption DEF Pushing
<1>2. QED
  BY <1>1 DEF Pushes

LEMMA AllInOrder ==
  ASSUME NEW s \in InOrder
  PROVE  s \in Seq(Instance) /\ \A i \in Instance : \E k \in DOMAIN s : s[k] = i
<1> DEFINE n == Cardinality(Instance)
<1>1. IsFiniteSet(Instance) /\ Instance \subseteq Nat /\ n \in Nat
  BY ConstantsAssumption, FS_CardinalityType
<1>2. s \in [1 .. n -> Instance] /\ \A j, k \in 1 .. n : j < k => s[j] < s[k]
  BY DEF InOrder
<1>3. s \in Injection(1 .. n, Instance)
  <2>1. \A j \in 1 .. n : s[j] \in Instance /\ s[j] \in Nat
    BY <1>1, <1>2
  <2>2. \A j, k \in 1 .. n : s[j] = s[k] => ~(j < k) /\ ~(k < j)
    BY <1>2, <2>1
  <2>3. \A j, k \in 1 .. n : s[j] = s[k] => j = k
    BY <1>1, <2>2
  <2>4. QED
    BY <1>2, <2>3 DEF Injection, IsInjective
<1>4. Cardinality(1 .. n) = n
  <2>1. n = IF 1 > n THEN 0 ELSE n - 1 + 1
    BY <1>1
  <2>2. QED
    BY <1>1, <2>1, FS_Interval
<1>5. s \in Surjection(1 .. n, Instance)
  BY <1>1, <1>3, <1>4, FS_Injection
<1>6. s \in Seq(Instance)
  BY <1>1, <1>2
<1>7. QED
  BY <1>2, <1>5, <1>6 DEF Surjection

LEMMA InitFInv == Init => FInv
<1> SUFFICES ASSUME Init PROVE FInv
  OBVIOUS
<1>1. schedule \in Seq(Instance) /\ \A i \in Instance : OnSchedule(i)
  BY AllInOrder DEF Init, OnSchedule
<1>2. Listed
  BY <1>1 DEF Listed, Init
<1>6. \A e \in Thread : Place(e)
  BY DEF Init, Place, Working
<1>7. \A a \in enabled : Kept(a)
  BY <1>1, OwnerHas DEF Init, Kept
<1>8. QED
  BY <1>2, <1>6, <1>7 DEF Init, FInv

-----------------------------------------------------------------------------
(* What a step of e leaves of another thread, beside Still. *)
Left(f) ==
  /\ pc'[f] = pc[f] \/ (pc[f] = "waiting" /\ pc'[f] = "take")
  /\ rest'[f] = rest[f] /\ pushes'[f] = pushes[f]

LEMMA LeftPlace ==
  ASSUME NEW f \in Thread, Place(f), Left(f)
  PROVE  /\ Place(f)'
         /\ \A a : (ToPush(f, a) => ToPush(f, a)') /\ (ToTry(f, a) => ToTry(f, a)')
<1>1. Place(f)'
  BY DEF Place, Left, Working
<1>2. ASSUME NEW a, ToPush(f, a) PROVE ToPush(f, a)'
  BY <1>2 DEF ToPush, Left
<1>3. ASSUME NEW a, ToTry(f, a) PROVE ToTry(f, a)'
  <2>1. rest[f] # <<>>
    BY <1>3 DEF ToTry
  <2>2. pc'[f] = pc[f]
    BY <2>1 DEF Place, Left, Working
  <2>3. QED
    BY <1>3, <2>2 DEF ToTry, Left
<1>4. QED
  BY <1>1, <1>2, <1>3

(* So again a step of e has to be checked for e only: that no action which was
   kept by the schedule or by e gets lost, and none that has become enabled. *)
LEMMA StepKeeps ==
  ASSUME FInv, NEW e \in Thread,
         enabled' \subseteq Action, pushes' = [f \in Thread |-> pushes'[f]],
         Listed', Place(e)', \A f \in Thread \ {e} : Left(f),
         \A a \in enabled' :
           Followed(a) => \/ Kept(a)'
                         \/ /\ a \in enabled
                            /\ OnSchedule(Owner(a)) => Kept(a)'
                            /\ ToPush(e, a) => Kept(a)'
                            /\ ToTry(e, a) => Kept(a)'
  PROVE  FInv'
<1>1. \A f \in Thread : Place(f)'
  BY LeftPlace DEF FInv
<1>2. ASSUME NEW a \in enabled', Followed(a) PROVE Kept(a)'
  <2>1. CASE Kept(a)'
    BY <2>1
  <2>2. CASE a \in enabled /\ (OnSchedule(Owner(a)) => Kept(a)')
             /\ (ToPush(e, a) => Kept(a)') /\ (ToTry(e, a) => Kept(a)')
    <3>1. Kept(a)
      BY <1>2, <2>2 DEF FInv
    <3>2. ASSUME NEW f \in Thread \ {e}, ToPush(f, a) \/ ToTry(f, a) PROVE Kept(a)'
      BY <3>2, LeftPlace DEF FInv, Kept
    <3>3. QED
      BY <2>2, <3>1, <3>2 DEF Kept
  <2>3. QED
    BY <1>2, <2>1, <2>2
<1>3. QED
  BY <1>1, <1>2 DEF FInv

(* Steps of a thread that works on no action before or after. *)
LEMMA IdlesFInv ==
  ASSUME FInv, NEW e \in Thread, pc[e] \notin Working, pc'[e] \notin Working,
         UNCHANGED <<enabled, schedule, next, rest, pushes>>,
         \A f \in Thread \ {e} : pc'[f] = pc[f] \/ (pc[f] = "waiting" /\ pc'[f] = "take")
  PROVE  FInv'
<1>1. Listed' /\ enabled' \subseteq Action /\ pushes' = [f \in Thread |-> pushes'[f]]
  BY DEF FInv, Listed, OnSchedule
<1>2. Place(e)' /\ pushes[e] = {} /\ rest[e] = <<>>
  BY DEF FInv, Place, Working
<1>3. \A f \in Thread \ {e} : Left(f)
  BY DEF Left
<1>4. \A a \in enabled' : /\ a \in enabled /\ (OnSchedule(Owner(a)) => Kept(a)')
                          /\ (ToPush(e, a) => Kept(a)') /\ (ToTry(e, a) => Kept(a)')
  BY <1>2 DEF OnSchedule, Kept, ToPush, ToTry
<1>5. QED
  BY <1>1, <1>2, <1>3, <1>4, StepKeeps

LEMMA WaitFInv ==
  ASSUME IInv, FInv, NEW e \in Thread, Wait(e)
  PROVE  FInv'
<1>1. /\ Shape /\ pc[e] = "take" /\ pc' = [pc EXCEPT ![e] = "waiting"]
      /\ UNCHANGED <<enabled, schedule, next, rest, pushes>>
  BY DEF IInv, Wait, programVars, listVars
<1>2. QED
  BY <1>1, GoesOn, IdlesFInv DEF Pc, Working

LEMMA ExitFInv ==
  ASSUME IInv, FInv, NEW e \in Thread, Exit(e)
  PROVE  FInv'
<1>1. /\ Shape /\ pc[e] = "take" /\ SignalAndGoto(e, "exited")
      /\ UNCHANGED <<enabled, schedule, next, rest, pushes>>
  BY DEF IInv, Exit, programVars, listVars
<1>2. QED
  BY <1>1, Signals, IdlesFInv DEF Pc, Working

LEMMA FinishFInv ==
  ASSUME IInv, FInv, NEW e \in Thread, Finish(e)
  PROVE  FInv'
<1>1. /\ Shape /\ pc[e] = "finish" /\ SignalAndGoto(e, "take")
      /\ UNCHANGED <<enabled, schedule, next, rest, pushes>>
  BY DEF IInv, Finish, programVars
<1>2. QED
  BY <1>1, Signals, IdlesFInv DEF Pc, Working

LEMMA CollectFInv ==
  ASSUME IInv, FInv, NEW e \in Thread, GcLock(e) \/ GcUnlock(e)
  PROVE  FInv'
<1>1. PICK p \in {"collect", "finish"} : pc' = [pc EXCEPT ![e] = p]
  BY DEF GcLock, GcUnlock
<1>2. /\ Shape /\ pc[e] \in {"gc", "collect"}
      /\ UNCHANGED <<enabled, schedule, next, rest, pushes>>
  BY DEF IInv, GcLock, GcUnlock, programVars, listVars
<1>3. QED
  BY <1>1, <1>2, GoesOn, IdlesFInv DEF Pc, Working

-----------------------------------------------------------------------------
(* Steps of a thread that works on an action. *)
LEMMA BeginsPlace ==
  ASSUME Shape, NEW e \in Thread, NEW s \in Seq(Action), Begin(e, s), pc'[e] = At(s), pushes'[e] = {}
  PROVE  /\ Place(e)' /\ \A f \in Thread \ {e} : rest'[f] = rest[f]
         /\ \A k \in DOMAIN s : ToTry(e, s[k])'
<1>1. rest'[e] = s /\ \A f \in Thread \ {e} : rest'[f] = rest[f]
  BY DEF Begin, Shape
<1>2. s # <<>> => At(s) \in {"lock", "run"}
  BY DEF At
<1>3. s = <<>> => At(s) = "gc"
  BY DEF At
<1>4. Place(e)'
  BY <1>1, <1>2, <1>3 DEF Place, Working
<1>5. ASSUME NEW k \in DOMAIN s PROVE ToTry(e, s[k])'
  BY <1>1, <1>2 DEF ToTry
<1>6. QED
  BY <1>1, <1>4, <1>5

(* Going on to the next action leaves all but the first to be tried. *)
LEMMA TailKeeps ==
  ASSUME NEW e \in Thread, Place(e), NEW a, ToTry(e, a), pc[e] \notin {"lock", "run"} \/ a # Head(rest[e])
  PROVE  \E k \in DOMAIN Tail(rest[e]) : Tail(rest[e])[k] = a
<1>1. rest[e] \in Seq(Action)
  BY DEF Place
<1>2. PICK k \in DOMAIN rest[e] : rest[e][k] = a /\ (k = 1 => pc[e] \in {"lock", "run"})
  BY DEF ToTry
<1>3. k # 1 /\ k \in 1 .. Len(rest[e])
  BY <1>1, <1>2
<1>4. k - 1 \in DOMAIN Tail(rest[e]) /\ Tail(rest[e])[k - 1] = a
  BY <1>1, <1>2, <1>3
<1>5. QED
  BY <1>4

LEMMA LockNextFInv ==
  ASSUME IInv, FInv, NEW e \in Thread, LockNext(e)
  PROVE  FInv'
<1>1. /\ Shape /\ pc[e] = "lock" /\ Place(e)
      /\ UNCHANGED <<enabled, schedule, next, rest, pushes>>
  BY DEF IInv, FInv, LockNext, programVars, listVars
<1>2. PICK p \in {"lock", "run"} : pc' = [pc EXCEPT ![e] = p]
  BY DEF LockNext
<1>3. /\ pc'[e] = p /\ \A f \in Thread \ {e} : pc'[f] = pc[f]
  BY <1>1, <1>2, GoesOn DEF Pc
<1>4. Listed' /\ enabled' \subseteq Action /\ pushes' = [f \in Thread |-> pushes'[f]]
  BY <1>1 DEF FInv, Listed, OnSchedule
<1>5. Place(e)'
  BY <1>1, <1>3 DEF Place, Working
<1>6. \A f \in Thread \ {e} : Left(f)
  BY <1>1, <1>3 DEF Left
<1>7. \A a \in enabled' : /\ a \in enabled /\ (OnSchedule(Owner(a)) => Kept(a)')
                          /\ (ToPush(e, a) => Kept(a)') /\ (ToTry(e, a) => Kept(a)')
  BY <1>1, <1>3 DEF OnSchedule, Kept, ToPush, ToTry
<1>8. QED
  BY <1>4, <1>5, <1>6, <1>7, StepKeeps

(* Taking an instance from the schedule: all its actions are tried. *)
LEMMA TakeFInv ==
  ASSUME IInv, FInv, NEW e \in Thread, Take(e)
  PROVE  FInv'
<1>h. PICK h : h = Head(schedule)
  OBVIOUS
<1> DEFINE s == ActionsOf[h]
<1>1. /\ Shape /\ pc[e] = "take" /\ Place(e) /\ schedule # <<>> /\ Begin(e, s)
      /\ pc' = [pc EXCEPT ![e] = At(s)] /\ schedule' = Tail(schedule)
      /\ next' = [next EXCEPT ![h] = FALSE] /\ UNCHANGED <<enabled, pushes>>
  BY <1>h DEF IInv, FInv, Take, programVars
<1>2. schedule \in Seq(Instance) /\ h \in Instance /\ next \in [Instance -> BOOLEAN]
  BY <1>h, <1>1 DEF FInv, Listed
<1>3. s \in Seq(Action)
  BY <1>2, ConstantsAssumption
<1>4. At(s) \in Pc
  BY DEF At, Pc
<1>5. pc'[e] = At(s) /\ \A f \in Thread \ {e} : pc'[f] = pc[f]
  BY <1>1, <1>4, GoesOn
<1>6. pushes'[e] = {} /\ rest[e] = <<>>
  BY <1>1 DEF Place, Working
<1>7. /\ Place(e)' /\ \A f \in Thread \ {e} : rest'[f] = rest[f]
      /\ \A k \in DOMAIN s : ToTry(e, s[k])'
  BY <1>1, <1>3, <1>5, <1>6, BeginsPlace
<1>8. \A i \in Instance : OnSchedule(i) /\ i # h => OnSchedule(i)'
  <2>1. ASSUME NEW k \in DOMAIN schedule, schedule[k] # h
        PROVE  k - 1 \in DOMAIN Tail(schedule) /\ Tail(schedule)[k - 1] = schedule[k]
    BY <1>h, <1>1, <1>2, <2>1
  <2>2. QED
    BY <1>1, <2>1 DEF OnSchedule
<1>9. Listed'
  BY <1>1, <1>2, <1>8 DEF FInv, Listed
<1>10. \A f \in Thread \ {e} : Left(f)
  BY <1>1, <1>5, <1>7 DEF Left
<1>11. ASSUME NEW a \in enabled'
       PROVE  /\ a \in enabled /\ (OnSchedule(Owner(a)) => Kept(a)')
              /\ (ToPush(e, a) => Kept(a)') /\ (ToTry(e, a) => Kept(a)')
  <2>1. a \in Action /\ a \in enabled
    BY <1>1 DEF FInv
  <2>2. CASE Owner(a) = h
    <3>1. PICK k \in DOMAIN s : s[k] = a
      BY <2>1, <2>2, OwnerHas
    <3>2. ToTry(e, a)'
      BY <1>7, <3>1
    <3>3. QED
      BY <2>1, <3>2 DEF Kept
  <2>3. CASE Owner(a) # h
    <3>1. OnSchedule(Owner(a)) => Kept(a)'
      BY <1>8, <2>1, <2>3, OwnerHas DEF Kept
    <3>2. ~ToPush(e, a) /\ ~ToTry(e, a)
      BY <1>1, <1>6 DEF ToPush, ToTry
    <3>3. QED
      BY <2>1, <3>1, <3>2
  <2>4. QED
    BY <2>2, <2>3
<1>12. QED
  BY <1>1, <1>7, <1>9, <1>10, <1>11, StepKeeps DEF FInv

(* Going on to the next action: what e had still to try is still to be tried. *)
LEMMA NextKeeps ==
  ASSUME Shape, NEW e \in Thread, Place(e), pc[e] \in Working, Begin(e, Tail(rest[e])),
         pc'[e] = At(Tail(rest[e])), pushes'[e] = {}
  PROVE  /\ Place(e)' /\ \A f \in Thread \ {e} : rest'[f] = rest[f]
         /\ \A a : ToTry(e, a) /\ (pc[e] \notin {"lock", "run"} \/ a # Head(rest[e])) => ToTry(e, a)'
<1>1. PICK s : s = Tail(rest[e])
  OBVIOUS
<1>2. rest[e] \in Seq(Action) /\ rest[e] # <<>>
  BY DEF Place
<1>3. s \in Seq(Action)
  BY <1>1, <1>2
<1>4. Begin(e, s) /\ pc'[e] = At(s)
  BY <1>1
<1>5. /\ Place(e)' /\ \A f \in Thread \ {e} : rest'[f] = rest[f]
      /\ \A k \in DOMAIN s : ToTry(e, s[k])'
  BY <1>3, <1>4, BeginsPlace
<1>6. ASSUME NEW a, ToTry(e, a), pc[e] \notin {"lock", "run"} \/ a # Head(rest[e])
      PROVE  ToTry(e, a)'
  <2>1. PICK k \in DOMAIN s : s[k] = a
    BY <1>1, <1>6, TailKeeps
  <2>2. QED
    BY <1>5, <2>1
<1>7. QED
  BY <1>5, <1>6

LEMMA UnlockNextFInv ==
  ASSUME IInv, FInv, NEW e \in Thread, UnlockNext(e)
  PROVE  FInv'
<1>1. /\ Shape /\ pc[e] = "unlock" /\ Place(e) /\ UNCHANGED <<enabled, schedule, next, pushes>>
      /\ UNCHANGED <<pc, rest>> \/ NextAction(e)
  BY DEF IInv, FInv, UnlockNext, programVars, listVars
<1>2. Listed' /\ enabled' \subseteq Action /\ pushes' = [f \in Thread |-> pushes'[f]]
  BY <1>1 DEF FInv, Listed, OnSchedule
<1>3. pushes'[e] = {} /\ pushes[e] = {}
  BY <1>1 DEF Place
<1>4. /\ Place(e)' /\ \A f \in Thread \ {e} : rest'[f] = rest[f] /\ pc'[f] = pc[f]
      /\ \A a : ToTry(e, a) => ToTry(e, a)'
  <2>1. CASE UNCHANGED <<pc, rest>>
    BY <1>1, <2>1 DEF Place, ToTry
  <2>2. CASE NextAction(e)
    <3>1. Begin(e, Tail(rest[e])) /\ pc' = [pc EXCEPT ![e] = At(Tail(rest[e]))]
      BY <2>2 DEF NextAction
    <3>2. At(Tail(rest[e])) \in Pc
      BY DEF At, Pc
    <3>3. pc'[e] = At(Tail(rest[e])) /\ \A f \in Thread \ {e} : pc'[f] = pc[f]
      BY <1>1, <3>1, <3>2, GoesOn
    <3>4. pc[e] \in Working /\ pc[e] \notin {"lock", "run"}
      BY <1>1 DEF Working
    <3>5. QED
      BY <1>1, <1>3, <3>1, <3>3, <3>4, NextKeeps
  <2>3. QED
    BY <1>1, <2>1, <2>2
<1>5. \A f \in Thread \ {e} : Left(f)
  BY <1>1, <1>4 DEF Left
<1>6. \A a \in enabled' : /\ a \in enabled /\ (OnSchedule(Owner(a)) => Kept(a)')
                          /\ (ToPush(e, a) => Kept(a)') /\ (ToTry(e, a) => Kept(a)')
  <2>1. TAKE a \in enabled'
  <2>2. a \in enabled /\ (OnSchedule(Owner(a)) => Kept(a)')
    BY <1>1 DEF OnSchedule, Kept
  <2>3. ToTry(e, a) => Kept(a)'
    BY <1>4 DEF Kept
  <2>4. ~ToPush(e, a)
    BY <1>3 DEF ToPush
  <2>5. QED
    BY <2>2, <2>3, <2>4
<1>7. QED
  BY <1>2, <1>4, <1>5, <1>6, StepKeeps

(* Evaluating an action.  What its transaction makes true it also pushes, its
   own precondition included. *)
LEMMA RunFInv ==
  ASSUME IInv, FInv, NEW e \in Thread, Run(e)
  PROVE  FInv'
<1>h. PICK h : h = Head(rest[e])
  OBVIOUS
<1>p. PICK after : after = IF h \in enabled THEN Pushes(h) ELSE {}
  OBVIOUS
<1>1. /\ Shape /\ pc[e] = "run" /\ Place(e) /\ UNCHANGED <<schedule, next>>
      /\ pushes' = [pushes EXCEPT ![e] = after]
  BY <1>h, <1>p DEF IInv, FInv, Run, listVars
<1>2. rest[e] \in Seq(Action) /\ rest[e] # <<>> /\ h \in Action
  BY <1>h, <1>1 DEF Place, Working
<1>3. \/ UNCHANGED rest /\ pc' = [pc EXCEPT ![e] = IF after # {} THEN "push" ELSE "unlock"]
      \/ after = {} /\ NextAction(e)
  BY <1>h, <1>p DEF Run
<1>s. PICK S : S = IF h \in enabled THEN Written(h) ELSE WrittenEarly(h)
  OBVIOUS
<1>4. \E on \in SUBSET TouchedBy(S) : enabled' = (enabled \ TouchedBy(S)) \cup on
  BY <1>h, <1>s DEF Run, Commit
<1>5. enabled \subseteq Action /\ enabled' \subseteq Action
  BY <1>4 DEF FInv, TouchedBy
<1>6. /\ Listed' /\ pushes' = [f \in Thread |-> pushes'[f]]
      /\ pushes'[e] = after /\ \A f \in Thread \ {e} : pushes'[f] = pushes[f]
  BY <1>1 DEF FInv, Listed, OnSchedule
<1>7. after \subseteq Instance \X (Instance \cup {Itself})
  BY <1>p, <1>2, PushesType
<1>8. /\ Place(e)' /\ \A f \in Thread \ {e} : rest'[f] = rest[f] /\ pc'[f] = pc[f]
      /\ \A a : ToTry(e, a) /\ a # h => ToTry(e, a)'
  <2>1. CASE UNCHANGED rest /\ pc' = [pc EXCEPT ![e] = IF after # {} THEN "push" ELSE "unlock"]
    <3>1. PICK p \in {"push", "unlock"} : p = IF after # {} THEN "push" ELSE "unlock"
      OBVIOUS
    <3>2. pc' = [pc EXCEPT ![e] = p]
      BY <2>1, <3>1
    <3>3. pc'[e] = p /\ \A f \in Thread \ {e} : pc'[f] = pc[f]
      BY <1>1, <3>2, GoesOn DEF Pc
    <3>4. Place(e)'
      BY <1>2, <1>6, <1>7, <2>1, <3>1, <3>3 DEF Place, Working
    <3>5. ASSUME NEW a, ToTry(e, a), a # h PROVE ToTry(e, a)'
      BY <1>h, <1>2, <2>1, <3>5 DEF ToTry
    <3>6. QED
      BY <2>1, <3>3, <3>4, <3>5
  <2>2. CASE after = {} /\ NextAction(e)
    <3>1. Begin(e, Tail(rest[e])) /\ pc' = [pc EXCEPT ![e] = At(Tail(rest[e]))]
      BY <2>2 DEF NextAction
    <3>2. At(Tail(rest[e])) \in Pc
      BY DEF At, Pc
    <3>3. pc'[e] = At(Tail(rest[e])) /\ \A f \in Thread \ {e} : pc'[f] = pc[f]
      BY <1>1, <3>1, <3>2, GoesOn
    <3>4. pc[e] \in Working /\ pushes'[e] = {}
      BY <1>1, <1>6, <2>2 DEF Working
    <3>5. QED
      BY <1>h, <1>1, <3>1, <3>3, <3>4, NextKeeps
  <2>3. QED
    BY <1>3, <2>1, <2>2
<1>9. \A f \in Thread \ {e} : Left(f)
  BY <1>6, <1>8 DEF Left
<1>10. ASSUME NEW a \in enabled', Followed(a)
       PROVE  \/ Kept(a)'
              \/ a \in enabled /\ (OnSchedule(Owner(a)) => Kept(a)')
                 /\ (ToPush(e, a) => Kept(a)') /\ (ToTry(e, a) => Kept(a)')
  <2>1. CASE h \in enabled /\ (a \in Touched(h) \/ a = h)
    <3>1. a \in Touched(h) \/ (a = h /\ h \in Calls)
      BY <1>10, <2>1 DEF Followed, Repeats
    <3>2. \E p \in after : Target(p) = Owner(a)
      BY <1>p, <1>2, <1>5, <1>10, <2>1, <3>1, PushesTouched DEF Followed
    <3>3. QED
      BY <1>6, <3>2 DEF Kept, ToPush
  <2>2. CASE ~(h \in enabled /\ (a \in Touched(h) \/ a = h))
    <3>1. a \notin TouchedBy(S)
      <4>1. CASE h \in enabled
        BY <1>s, <2>2, <4>1 DEF Touched
      <4>2. CASE h \notin enabled
        <5>1. LooksAt(a) \cap WrittenEarly(h) = {}
          BY <1>2, <1>10 DEF Followed, Announced
        <5>2. QED
          BY <1>s, <4>2, <5>1 DEF TouchedBy
      <4>3. QED
        BY <4>1, <4>2
    <3>6. a \in enabled /\ a # h
      BY <1>4, <1>10, <2>2, <3>1
    <3>2. OnSchedule(Owner(a)) => Kept(a)'
      BY <1>1 DEF OnSchedule, Kept
    <3>3. ~ToPush(e, a)
      BY <1>1 DEF Place, ToPush
    <3>4. ToTry(e, a) => Kept(a)'
      BY <1>8, <3>6 DEF Kept
    <3>5. QED
      BY <3>2, <3>3, <3>4, <3>6
  <2>3. QED
    BY <2>1, <2>2
<1>11. QED
  BY <1>5, <1>6, <1>8, <1>9, <1>10, StepKeeps

(* Pushing an instance: it is on the schedule after it. *)
LEMMA PushFInv ==
  ASSUME IInv, FInv, NEW e \in Thread, Push(e)
  PROVE  FInv'
<1>1. PICK p \in pushes[e] :
        /\ pushes' = [pushes EXCEPT ![e] = @ \ {p}]
        /\ schedule' = IF next[Target(p)] THEN schedule ELSE Append(schedule, Target(p))
        /\ next' = [next EXCEPT ![Target(p)] = TRUE]
        /\ \/ SignalAndGoto(e, "push") /\ UNCHANGED rest /\ pushes[e] # {p}
           \/ SignalAndGoto(e, "unlock") /\ UNCHANGED rest /\ pushes[e] = {p}
           \/ /\ SignalAndGoto(e, At(Tail(rest[e]))) /\ Begin(e, Tail(rest[e]))
              /\ pushes[e] = {p}
  BY DEF Push
<1>2. Shape /\ pc[e] = "push" /\ Place(e) /\ UNCHANGED enabled
  BY DEF IInv, FInv, Push, programVars
<1>3. PICK i : i = Target(p)
  OBVIOUS
<1>4. i \in Instance
  BY <1>2, <1>3 DEF Place, Target
<1>5. /\ Listed' /\ OnSchedule(i)'
      /\ \A j \in Instance : OnSchedule(j) => OnSchedule(j)'
  <2>1. schedule \in Seq(Instance) /\ next \in [Instance -> BOOLEAN]
    BY DEF FInv, Listed
  <2>2. CASE next[i]
    <3>1. schedule' = schedule /\ next' = next
      BY <1>1, <1>3, <1>4, <2>1, <2>2
    <3>2. QED
      BY <1>4, <2>1, <2>2, <3>1 DEF FInv, Listed, OnSchedule
  <2>3. CASE ~next[i]
    <3>1. schedule' = Append(schedule, i) /\ next' = [next EXCEPT ![i] = TRUE]
      BY <1>1, <1>3, <2>3
    <3>2. \A k \in DOMAIN schedule : k \in DOMAIN schedule' /\ schedule'[k] = schedule[k]
      BY <1>4, <2>1, <3>1
    <3>3. schedule' \in Seq(Instance) /\ Len(schedule) + 1 \in DOMAIN schedule'
          /\ schedule'[Len(schedule) + 1] = i
      BY <1>4, <2>1, <3>1
    <3>4. OnSchedule(i)' /\ \A j \in Instance : OnSchedule(j) => OnSchedule(j)'
      BY <3>2, <3>3 DEF OnSchedule
    <3>5. next' \in [Instance -> BOOLEAN] /\ \A j \in Instance : j # i => next'[j] = next[j]
      BY <2>1, <3>1
    <3>6. \A j \in Instance : next'[j] => OnSchedule(j)'
      BY <3>4, <3>5 DEF FInv, Listed
    <3>7. QED
      BY <3>3, <3>4, <3>5, <3>6 DEF Listed
  <2>4. QED
    BY <2>2, <2>3
<1>6. /\ pushes' = [f \in Thread |-> pushes'[f]] /\ pushes'[e] = pushes[e] \ {p}
      /\ \A f \in Thread \ {e} : pushes'[f] = pushes[f]
  BY <1>1 DEF FInv
<1>7. /\ Place(e)'
      /\ \A f \in Thread \ {e} : /\ rest'[f] = rest[f]
                                 /\ pc'[f] = pc[f] \/ (pc[f] = "waiting" /\ pc'[f] = "take")
      /\ \A a : ToTry(e, a) => ToTry(e, a)'
  <2>1. CASE UNCHANGED rest /\ \/ SignalAndGoto(e, "push") /\ pushes[e] # {p}
                               \/ SignalAndGoto(e, "unlock") /\ pushes[e] = {p}
    <3>1. /\ (pc'[e] = "push" /\ pushes[e] # {p}) \/ (pc'[e] = "unlock" /\ pushes[e] = {p})
          /\ \A f \in Thread \ {e} : pc'[f] = pc[f] \/ (pc[f] = "waiting" /\ pc'[f] = "take")
      BY <1>2, <2>1, Signals DEF Pc
    <3>2. Place(e)'
      BY <1>2, <1>6, <2>1, <3>1 DEF Place, Working
    <3>3. ASSUME NEW a, ToTry(e, a) PROVE ToTry(e, a)'
      BY <1>2, <2>1, <3>3 DEF ToTry
    <3>4. QED
      BY <2>1, <3>1, <3>2, <3>3
  <2>2. CASE /\ SignalAndGoto(e, At(Tail(rest[e]))) /\ Begin(e, Tail(rest[e]))
             /\ pushes[e] = {p}
    <3>1. At(Tail(rest[e])) \in Pc
      BY DEF At, Pc
    <3>2. /\ pc'[e] = At(Tail(rest[e]))
          /\ \A f \in Thread \ {e} : pc'[f] = pc[f] \/ (pc[f] = "waiting" /\ pc'[f] = "take")
      BY <1>2, <2>2, <3>1, Signals
    <3>3. pc[e] \in Working /\ pc[e] \notin {"lock", "run"} /\ pushes'[e] = {}
      BY <1>2, <1>6, <2>2 DEF Working
    <3>4. QED
      BY <1>2, <2>2, <3>2, <3>3, NextKeeps
  <2>3. QED
    BY <1>1, <2>1, <2>2
<1>8. \A f \in Thread \ {e} : Left(f)
  BY <1>6, <1>7 DEF Left
<1>9. ASSUME NEW a \in enabled'
      PROVE  /\ a \in enabled /\ (OnSchedule(Owner(a)) => Kept(a)')
             /\ (ToPush(e, a) => Kept(a)') /\ (ToTry(e, a) => Kept(a)')
  <2>1. a \in enabled /\ a \in Action
    BY <1>2, <1>9 DEF FInv
  <2>2. OnSchedule(Owner(a)) => Kept(a)'
    BY <1>5, <2>1, OwnerHas DEF Kept
  <2>3. ToPush(e, a) => Kept(a)'
    <3>1. ASSUME NEW q \in pushes[e], Target(q) = Owner(a) PROVE Kept(a)'
      <4>1. CASE q = p
        <5>1. Owner(a) = i
          BY <1>3, <3>1, <4>1
        <5>2. QED
          BY <1>5, <5>1 DEF Kept
      <4>2. CASE q # p
        BY <1>6, <3>1, <4>2 DEF Kept, ToPush
      <4>3. QED
        BY <4>1, <4>2
    <3>2. QED
      BY <3>1 DEF ToPush
  <2>4. ToTry(e, a) => Kept(a)'
    BY <1>7 DEF Kept
  <2>5. QED
    BY <2>1, <2>2, <2>3, <2>4
<1>10. QED
  BY <1>2, <1>5, <1>6, <1>7, <1>8, <1>9, StepKeeps DEF FInv

-----------------------------------------------------------------------------
LEMMA StutterFInv ==
  ASSUME FInv, UNCHANGED vars
  PROVE  FInv'
BY DEF FInv, vars, Listed, OnSchedule, Place, Kept, ToPush, ToTry

LEMMA NextFInv ==
  ASSUME IInv, FInv, [Next]_vars
  PROVE  FInv'
<1>1. CASE UNCHANGED vars
  BY <1>1, StutterFInv
<1>2. ASSUME NEW e \in Thread, Step(e) PROVE FInv'
  BY <1>2, TakeFInv, WaitFInv, ExitFInv, LockNextFInv, RunFInv, PushFInv,
     UnlockNextFInv, CollectFInv, FinishFInv DEF Step
<1>3. QED
  BY <1>1, <1>2 DEF Next

(* An action that can run is not forgotten, in any program and with any number
   of threads, if its transaction writes what its precondition looks at or
   activates with arguments, and nothing its precondition looks at is written
   before an activation. *)
THEOREM Remembered == Spec => []NotForgotten
<1>1. Init => FInv
  BY InitFInv
<1>2. IInv /\ FInv /\ [Next]_vars => FInv'
  BY NextFInv
<1>3. FInv => NotForgotten
  BY DEF FInv, NotForgotten, InHand, Kept, ToPush, ToTry
<1>4. QED
  BY <1>1, <1>2, <1>3, Invariance, PTL DEF Spec

-----------------------------------------------------------------------------
(* The end: pending_ counts the threads at work, and once a thread has exited
   there is none, nor anything on the schedule that could put one to work. *)
Busy == {f \in Thread : pc[f] \notin Off}

RInv ==
  /\ pending = Cardinality(Busy)
  /\ (\E e \in Thread : pc[e] = "exited") => schedule = <<>> /\ Busy = {}

LEMMA InitRInv == Init => RInv
<1> SUFFICES ASSUME Init PROVE RInv
  OBVIOUS
<1>1. Busy = {}
  BY DEF Init, Busy, Off
<1>2. QED
  BY <1>1, FS_EmptySet, ConstantsAssumption DEF Init, RInv

LEMMA BusyFinite == IsFiniteSet(Busy) /\ IsFiniteSet(Busy')
<1>1. Busy \subseteq Thread /\ Busy' \subseteq Thread
  BY DEF Busy
<1>2. QED
  BY <1>1, FS_Subset, ConstantsAssumption

(* A thread at work goes on working, and takes nothing from the list. *)
LEMMA WorksOn ==
  ASSUME RInv, NEW e \in Thread, pc[e] \notin Off, pc'[e] \notin Off, pending' = pending,
         \A f \in Thread \ {e} : pc'[f] = pc[f] \/ (pc[f] = "waiting" /\ pc'[f] = "take")
  PROVE  RInv'
<1>1. Busy' = Busy
  BY DEF Busy, Off
<1>2. e \in Busy
  BY DEF Busy
<1>3. \A f \in Thread : pc[f] # "exited"
  BY <1>2 DEF RInv
<1>4. \A f \in Thread : pc'[f] # "exited"
  BY <1>3 DEF Off
<1>5. QED
  BY <1>1, <1>4 DEF RInv

LEMMA TakeRInv ==
  ASSUME IInv, RInv, NEW e \in Thread, Take(e)
  PROVE  RInv'
<1>1. PICK p : p = At(ActionsOf[Head(schedule)])
  OBVIOUS
<1>2. /\ Shape /\ pc[e] = "take" /\ schedule # <<>> /\ pending' = pending + 1
      /\ pc' = [pc EXCEPT ![e] = p]
  BY <1>1 DEF IInv, Take
<1>3. p \in {"gc", "run", "lock"}
  BY <1>1 DEF At
<1>4. pc'[e] = p /\ \A f \in Thread \ {e} : pc'[f] = pc[f]
  BY <1>2, <1>3, GoesOn DEF Pc
<1>5. Busy' = Busy \cup {e} /\ e \notin Busy
  BY <1>2, <1>3, <1>4 DEF Busy, Off
<1>6. Cardinality(Busy') = Cardinality(Busy) + 1
  BY <1>5, BusyFinite, FS_AddElement
<1>7. \A f \in Thread : pc'[f] # "exited"
  BY <1>2, <1>3, <1>4 DEF RInv
<1>8. QED
  BY <1>2, <1>6, <1>7 DEF RInv

LEMMA FinishRInv ==
  ASSUME IInv, RInv, NEW e \in Thread, Finish(e)
  PROVE  RInv'
<1>1. /\ Shape /\ pc[e] = "finish" /\ pending' = pending - 1 /\ SignalAndGoto(e, "take")
  BY DEF IInv, Finish
<1>2. /\ pc'[e] = "take"
      /\ \A f \in Thread \ {e} : pc'[f] = pc[f] \/ (pc[f] = "waiting" /\ pc'[f] = "take")
  BY <1>1, Signals DEF Pc
<1>3. Busy' = Busy \ {e} /\ e \in Busy
  BY <1>1, <1>2 DEF Busy, Off
<1>4. Cardinality(Busy') = Cardinality(Busy) - 1
  BY <1>3, BusyFinite, FS_RemoveElement
<1>5. \A f \in Thread : pc'[f] # "exited"
  BY <1>1, <1>2, <1>3 DEF RInv
<1>6. QED
  BY <1>1, <1>4, <1>5 DEF RInv

LEMMA WaitRInv ==
  ASSUME IInv, RInv, NEW e \in Thread, Wait(e)
  PROVE  RInv'
<1>1. /\ Shape /\ pc[e] = "take" /\ pc' = [pc EXCEPT ![e] = "waiting"]
      /\ UNCHANGED <<schedule, pending>>
  BY DEF IInv, Wait, listVars
<1>2. pc'[e] = "waiting" /\ \A f \in Thread \ {e} : pc'[f] = pc[f]
  BY <1>1, GoesOn DEF Pc
<1>3. Busy' = Busy
  BY <1>1, <1>2 DEF Busy, Off
<1>4. QED
  BY <1>1, <1>2, <1>3 DEF RInv

LEMMA ExitRInv ==
  ASSUME IInv, RInv, NEW e \in Thread, Exit(e)
  PROVE  RInv'
<1>1. /\ Shape /\ pc[e] = "take" /\ SignalAndGoto(e, "exited")
      /\ schedule = <<>> /\ pending = 0 /\ UNCHANGED <<schedule, pending>>
  BY DEF IInv, Exit, listVars
<1>2. /\ pc'[e] = "exited"
      /\ \A f \in Thread \ {e} : pc'[f] = pc[f] \/ (pc[f] = "waiting" /\ pc'[f] = "take")
  BY <1>1, Signals DEF Pc
<1>3. Busy' = Busy
  BY <1>1, <1>2 DEF Busy, Off
<1>4. Busy = {}
  BY <1>1, BusyFinite, FS_EmptySet DEF RInv
<1>5. QED
  BY <1>1, <1>3, <1>4 DEF RInv

LEMMA WorkRInv ==
  ASSUME IInv, RInv, NEW e \in Thread,
         LockNext(e) \/ Run(e) \/ Push(e) \/ UnlockNext(e) \/ GcLock(e) \/ GcUnlock(e)
  PROVE  RInv'
<1>1. Shape /\ pending' = pending /\ pc[e] \notin Off
  BY DEF IInv, LockNext, Run, Push, UnlockNext, GcLock, GcUnlock, listVars, Off
<1>2. PICK t : t = At(Tail(rest[e]))
  OBVIOUS
<1>3. t \in {"gc", "run", "lock"}
  BY <1>2 DEF At
<1>4. \/ pc' = pc
      \/ \E p \in {"lock", "run", "push", "unlock", "collect", "finish", t} :
           pc' = [pc EXCEPT ![e] = p] \/ SignalAndGoto(e, p)
  <2>1. CASE LockNext(e)
    BY <2>1 DEF LockNext
  <2>2. CASE Run(e)
    BY <1>2, <2>2 DEF Run, NextAction
  <2>3. CASE Push(e)
    BY <1>2, <2>3 DEF Push
  <2>4. CASE UnlockNext(e)
    BY <1>2, <2>4 DEF UnlockNext, NextAction
  <2>5. CASE GcLock(e) \/ GcUnlock(e)
    BY <2>5 DEF GcLock, GcUnlock
  <2>6. QED
    BY <2>1, <2>2, <2>3, <2>4, <2>5
<1>5. CASE pc' = pc
  BY <1>1, <1>5, WorksOn
<1>6. ASSUME NEW p \in {"lock", "run", "push", "unlock", "collect", "finish", t},
             pc' = [pc EXCEPT ![e] = p] \/ SignalAndGoto(e, p)
      PROVE  RInv'
  <2>1. p \in Pc /\ p \notin Off /\ pc[e] # "waiting"
    BY <1>1, <1>3 DEF Pc, Off
  <2>2. /\ pc'[e] = p
        /\ \A f \in Thread \ {e} : pc'[f] = pc[f] \/ (pc[f] = "waiting" /\ pc'[f] = "take")
    BY <1>1, <1>6, <2>1, GoesOn, Signals
  <2>3. QED
    BY <1>1, <2>1, <2>2, WorksOn
<1>7. QED
  BY <1>4, <1>5, <1>6

LEMMA NextRInv ==
  ASSUME IInv, RInv, [Next]_vars
  PROVE  RInv'
<1>1. CASE UNCHANGED vars
  BY <1>1 DEF vars, RInv, Busy
<1>2. ASSUME NEW e \in Thread, Step(e) PROVE RInv'
  BY <1>2, TakeRInv, FinishRInv, WaitRInv, ExitRInv, WorkRInv DEF Step
<1>3. QED
  BY <1>1, <1>2 DEF Next

(* A thread exits only when no other is working and no such action can run: an empty schedule and a pending_ of 0 do mean the end. *)
THEOREM EndsAtRest == Spec => []ExitsAtRest
<1>1. Init => FInv /\ RInv
  BY InitFInv, InitRInv
<1>2. IInv /\ FInv /\ RInv /\ [Next]_vars => FInv' /\ RInv'
  BY NextFInv, NextRInv
<1>3. IInv /\ FInv /\ RInv => ExitsAtRest
  <2> SUFFICES ASSUME FInv, RInv, NEW e \in Thread, pc[e] = "exited"
               PROVE  /\ \A f \in Thread : pc[f] \in Off
                      /\ \A a \in enabled : ~Followed(a)
    BY DEF ExitsAtRest
  <2>1. schedule = <<>> /\ \A f \in Thread : pc[f] \in Off
    BY DEF RInv, Busy
  <2>2. \A f \in Thread : rest[f] = <<>> /\ pushes[f] = {}
    BY <2>1 DEF FInv, Place, Working, Off
  <2>3. ASSUME NEW a PROVE ~Kept(a)
    BY <2>1, <2>2 DEF Kept, OnSchedule, ToPush, ToTry
  <2>4. QED
    BY <2>1, <2>3 DEF FInv
<1>4. QED
  BY <1>1, <1>2, <1>3, Invariance, PTL DEF Spec
=============================================================================
