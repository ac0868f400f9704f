------------------------------- MODULE RWLock -------------------------------
(***************************************************************************)
(* What a reader/writer lock that hands itself over promises, without a    *)
(* counter, a queue or an order: who holds it for reading, who holds it    *)
(* for writing, who waits.  A release passes the lock on in the same step, *)
(* and never leaves it free while somebody waits.                          *)
(***************************************************************************)
CONSTANT Task

VARIABLES readers, writers, waiting

rwVars == <<readers, writers, waiting>>

Exclusive ==
  /\ writers # {} => readers = {}
  /\ \A t, u \in writers : t = u

RWInit == readers = {} /\ writers = {} /\ waiting = {}

Free == readers = {} /\ writers = {}

Outside(t) == t \notin readers \cup writers \cup waiting

AcquireRead(t) ==
  /\ Outside(t)
  /\ writers = {} /\ waiting = {}
  /\ readers' = readers \cup {t}
  /\ UNCHANGED <<writers, waiting>>

AcquireWrite(t) ==
  /\ Outside(t)
  /\ Free
  /\ writers' = {t}
  /\ UNCHANGED <<readers, waiting>>

Wait(t) ==
  /\ Outside(t)
  /\ ~Free
  /\ waiting' = waiting \cup {t}
  /\ UNCHANGED <<readers, writers>>

(* The last holder leaves: some of those who wait hold the lock now.       *)
HandOver(t) ==
  /\ readers \cup writers = {t}
  /\ waiting # {}
  /\ \E next \in (SUBSET waiting) \ {{}} :
       /\ waiting' = waiting \ next
       /\ \/ /\ readers' = next /\ writers' = {}
          \/ /\ \E w \in next : next = {w}
             /\ writers' = next /\ readers' = {}

Leave(t) ==
  /\ t \in readers \cup writers
  /\ readers \cup writers = {t} => waiting = {}
  /\ readers' = readers \ {t}
  /\ writers' = writers \ {t}
  /\ UNCHANGED waiting

RWNext ==
  \E t \in Task :
    AcquireRead(t) \/ AcquireWrite(t) \/ Wait(t) \/ HandOver(t) \/ Leave(t)

RWSpec == RWInit /\ [][RWNext]_rwVars
=============================================================================
