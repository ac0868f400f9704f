CONSTANT Task = {t1, t2, t3, t4}
SPECIFICATION Spec
INVARIANTS MutualExclusion CountIsOwners QueueIsWaiting WokenOnce
PROPERTIES NoOvertaking EveryRequestServed ImplementsRWLock
