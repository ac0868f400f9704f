----------------------------- MODULE HeapChanges -----------------------------
(***************************************************************************)
(* What the operation Change (operation.cpp) and the operations on heap    *)
(* links promise each other.  Change counts the uses of the link under     *)
(* its mutex, makes the linked heap the one the instance allocates in, and *)
(* puts the old one back after its body.  MoveOp and MergeOp leave a link  *)
(* that is in use alone.  Everything else that happens to storage is one   *)
(* action here: it may store any words, but not to a link in use.          *)
(*                                                                         *)
(* Heap gives the detail: blocks, chunks, pointers and the collector.      *)
(***************************************************************************)
EXTENDS Integers, Sequences, FiniteSets

CONSTANTS
  Slots,       \* slots malloc can give to blocks
  MaxHeaps,    \* heaps that exist at a time, the component's included
  Locks,       \* the locks transactions take: Read, Write
  Transaction  \* threads that run transactions of the component

ASSUME ChangesAssumption ==
  /\ {Slots, MaxHeaps} \subseteq Nat \ {0}
  /\ Locks \subseteq {"Read", "Write"} /\ IsFiniteSet(Transaction)

Null == 0
Slot == 1 .. Slots
HeapId == Slots + 1 .. Slots + MaxHeaps
Component == Slots + 1

VARIABLES
  mem,       \* the word in every slot
  changes,   \* heap_link_t::change_count, of every slot
  current,   \* ComponentInfoBase::heap_
  saved,     \* the Changes each transaction is in: link and old_heap
  access,    \* the lock each transaction holds of the instance
  crashed    \* a null or freed heap was used
control == <<changes, current, saved, access, crashed>>

ControlInit ==
  /\ \A s \in Slot : mem[s] = Null
  /\ changes = [s \in Slot |-> 0]
  /\ current = Component
  /\ saved = [t \in Transaction |-> <<>>]
  /\ access = [t \in Transaction |-> "None"]
  /\ crashed = FALSE

(* The scheduler gives a transaction the lock of the instance.             *)
Lock(t, a) ==
  /\ access[t] = "None" /\ ~crashed
  /\ \A u \in Transaction : access[u] = "None" \/ {access[u], a} = {"Read"}
  /\ access' = [access EXCEPT ![t] = a]
  /\ UNCHANGED <<mem, changes, current, saved, crashed>>

Unlock(t) ==
  /\ access[t] # "None" /\ saved[t] = <<>> /\ ~crashed
  /\ access' = [access EXCEPT ![t] = "None"]
  /\ UNCHANGED <<mem, changes, current, saved, crashed>>

(* Change, up to the body.  The count is kept under the mutex of the link; *)
(* the current heap is a field of the instance.                            *)
Enter(t, l) ==
  /\ access[t] # "None" /\ ~crashed /\ mem[l] # Null
  /\ changes' = [changes EXCEPT ![l] = @ + 1]
  /\ saved' = [saved EXCEPT ![t] = Append(@, [link |-> l, old |-> current])]
  /\ current' = mem[l]
  /\ UNCHANGED <<mem, access, crashed>>

(* Change, after the body.                                                 *)
(* A plausible bug: the heap is left where the body found it.              *)
LeaveNotRestored(t) ==
  /\ saved[t] # <<>> /\ ~crashed
  /\ changes' = [changes EXCEPT ![saved[t][Len(saved[t])].link] = @ - 1]
  /\ saved' = [saved EXCEPT ![t] = SubSeq(@, 1, Len(@) - 1)]
  /\ UNCHANGED <<mem, current, access, crashed>>
Leave(t) ==
  /\ saved[t] # <<>> /\ ~crashed
  /\ LET c == saved[t][Len(saved[t])] IN
     /\ current' = c.old
     /\ changes' = [changes EXCEPT ![c.link] = @ - 1]
  /\ saved' = [saved EXCEPT ![t] = SubSeq(@, 1, Len(@) - 1)]
  /\ UNCHANGED <<mem, access, crashed>>

(* A null heap is used: nothing happens in this instance any more.         *)
Crash == ~crashed /\ crashed' = TRUE /\ UNCHANGED <<mem, changes, current, saved, access>>

(* MoveOp and MergeOp break a link nobody uses; NewOp, assignments and the *)
(* collector change other words.                                           *)
Unused(l) == changes[l] = 0
StoreWords ==
  /\ ~crashed
  /\ \A l \in Slot : mem'[l] \in Int /\ (mem'[l] # mem[l] => Unused(l))
  /\ UNCHANGED control

ControlNext ==
  \/ StoreWords \/ Crash
  \/ \E t \in Transaction :
       \/ \E a \in Locks : Lock(t, a)
       \/ Unlock(t) \/ Leave(t)
       \/ \E l \in Slot : Enter(t, l)

ControlSpec == ControlInit /\ [][ControlNext]_<<mem, control>>

-----------------------------------------------------------------------------
(* Between transactions an instance allocates in its own heap again, and   *)
(* no link is held back by a Change that is over.                          *)
HeapRestored ==
  (\A t \in Transaction : saved[t] = <<>>) =>
    current = Component /\ \A s \in Slot : changes[s] = 0

(* While a Change runs its link leads to the heap its body, or the next    *)
(* Change inside its body, started in: the heap the body allocates in is   *)
(* not moved to another parent or merged away under it.                    *)
InnerHeap(t, k) == IF k = Len(saved[t]) THEN current ELSE saved[t][k + 1].old
LinkOfChangeStays ==
  \A t \in Transaction : \A k \in DOMAIN saved[t] :
    mem[saved[t][k].link] = InnerHeap(t, k)
=============================================================================
