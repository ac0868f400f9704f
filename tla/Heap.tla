-------------------------------- MODULE Heap --------------------------------
(***************************************************************************)
(* The heaps of one component: Block and Heap (heap.cpp), the operations   *)
(* that allocate, move, merge and change heaps (operation.cpp), and the    *)
(* collector, which runs between transactions.                             *)
(*                                                                         *)
(* Storage is a row of slots of two words.  One word of a slot is modelled *)
(* (the other holds data): 0, the address of a slot, or a heap.  A heap    *)
(* link is an object of one slot that names a heap.  The root of the       *)
(* component's heap is the component itself: slots below zero that belong  *)
(* to no block.                                                            *)
(***************************************************************************)
EXTENDS HeapChanges

CONSTANTS
  Roots,       \* slots of the component
  MaxSize,     \* slots of the largest object
  MaxOps,      \* operations of a behaviour
  Interior     \* whether a pointer may refer to the middle of an object

ASSUME HeapAssumption ==
  {Roots, MaxSize, MaxOps} \subseteq Nat \ {0} /\ Interior \in BOOLEAN

RootSlot == -Roots .. -1

VARIABLES
  heap,      \* HeapId -> Heap
  object,    \* slots with the bit OBJECT
  allocated, \* slots with the bit ALLOCATED
  links,     \* objects that are a heap_link_t
  ops        \* operations so far
storage == <<heap, object, allocated, links>>
vars == <<storage, mem, control, ops>>

Free == [live |-> FALSE]
NewHeap(begin, end) ==
  [live |-> TRUE, tree |-> <<>>, free |-> <<>>, allocated |-> 0, nextBlock |-> 0,
   nextCollection |-> 0, begin |-> begin, end |-> end, children |-> <<>>, parent |-> Null]

-----------------------------------------------------------------------------
(* The blocks of a heap are a search tree: <<>>, or <<left, block, right>>. *)
Elements(s) == {s[k] : k \in DOMAIN s}
Reverse(s) == [k \in DOMAIN s |-> s[Len(s) + 1 - k]]
Extent(b) == b.begin .. b.begin + b.size - 1

RECURSIVE Blocks(_), Insert(_, _), Find(_, _), MergeBlocks(_, _)
Blocks(t) == IF t = <<>> THEN {} ELSE Blocks(t[1]) \cup {t[2]} \cup Blocks(t[3])

Insert(t, b) ==
  IF t = <<>> THEN <<<<>>, b, <<>>>>
  ELSE IF b.begin < t[2].begin THEN <<Insert(t[1], b), t[2], t[3]>>
       ELSE <<t[1], t[2], Insert(t[3], b)>>

Find(t, p) ==
  IF t = <<>> THEN {}
  ELSE IF p \in Extent(t[2]) THEN {t[2]}
       ELSE IF p < t[2].begin THEN Find(t[1], p) ELSE Find(t[3], p)

(* Left subtree, right subtree, then the block itself.                     *)
MergeBlocks(t, u) ==
  IF u = <<>> THEN t ELSE Insert(MergeBlocks(MergeBlocks(t, u[1]), u[3]), u[2])

(* The tree without its right-most block, and that block.                  *)
RECURSIVE RightMost(_), WithoutRightMost(_)
RightMost(t) == IF t[3] = <<>> THEN t[2] ELSE RightMost(t[3])
WithoutRightMost(t) == IF t[3] = <<>> THEN t[1] ELSE <<t[1], t[2], WithoutRightMost(t[3])>>

(* A plausible bug: the right subtree is forgotten when there is a left one.        *)
RemoveTopLosing(t) == IF t[1] = <<>> THEN t[3] ELSE t[1]
RemoveTop(t) ==
  IF t[1] = <<>> THEN t[3]
  ELSE IF t[3] = <<>> THEN t[1] ELSE <<WithoutRightMost(t[1]), RightMost(t[1]), t[3]>>

(* The chunks of the runs of unmarked slots of a block; each is pushed at  *)
(* the head of the free list, so the last one comes first.                 *)
RECURSIVE Chunks(_, _, _)
Chunks(s, b, marked) ==
  IF s \notin Extent(b) THEN <<>>
  ELSE IF s \in marked THEN Chunks(s + 1, b, marked)
       ELSE LET stop == CHOOSE e \in s + 1 .. b.begin + b.size :
                          /\ \A a \in s .. e - 1 : a \notin marked
                          /\ e \notin Extent(b) \/ e \in marked
            IN <<[at |-> s, size |-> stop - s]>> \o Chunks(stop, b, marked)

(* Block::sweep: a block without a marked slot is given back, the others   *)
(* contribute to the new free list.                                        *)
RECURSIVE SweepTree(_, _), SweepFree(_, _, _)
SweepTree(t, marked) ==
  IF t = <<>> THEN <<>>
  ELSE LET u == <<SweepTree(t[1], marked), t[2], SweepTree(t[3], marked)>>
       IN IF Extent(t[2]) \cap marked # {} THEN u ELSE RemoveTop(u)
SweepFree(t, marked, free) ==
  IF t = <<>> THEN free
  ELSE LET below == SweepFree(t[3], marked, SweepFree(t[1], marked, free))
       IN IF Extent(t[2]) \cap marked = {} THEN below
          ELSE Reverse(Chunks(t[2].begin, t[2], marked)) \o below

-----------------------------------------------------------------------------
(* The whole state as a record, for the functions that recurse over heaps. *)
Now == [heap |-> heap, object |-> object, allocated |-> allocated, mem |-> mem]

Storage(S) == UNION {UNION {Extent(b) : b \in Blocks(S.heap[h].tree)} :
                     h \in {g \in HeapId : S.heap[g].live}}
Begins(S, n) ==
  {b \in Slot : b + n - 1 \in Slot /\ b .. b + n - 1 \cap Storage(S) = {}}

(* Heap::allocate: first fit; a new block, of at least next_block_size_,   *)
(* when no chunk fits; the rest of the chunk becomes the head of the free  *)
(* list.  malloc may put a block anywhere: below or above the others.      *)
FirstFit(free, n) ==
  CHOOSE k \in 1 .. Len(free) + 1 :
    /\ \A j \in 1 .. k - 1 : free[j].size < n
    /\ k <= Len(free) => free[k].size >= n
Largest(x, y) == IF x < y THEN y ELSE x
Take(S, h, free, k, n) ==
  LET c == free[k]
      rest == SubSeq(free, 1, k - 1) \o SubSeq(free, k + 1, Len(free))
      got == c.at .. c.at + n - 1
  IN [at |-> c.at,
      state |-> [S EXCEPT !.heap[h].free =
                   IF c.size > n THEN <<[at |-> c.at + n, size |-> c.size - n]>> \o rest ELSE rest,
                 !.heap[h].allocated = @ + n,
                 !.object = @ \cup {c.at},
                 !.allocated = @ \cup got,
                 !.mem = [a \in DOMAIN @ |-> IF a \in got THEN Null ELSE @[a]]]]
(* What allocate may return: the address and the state after it.           *)
Allocate(S, h, n) ==
  LET H == S.heap[h]
      k == FirstFit(H.free, n)
      m == Largest(n, H.nextBlock)
      B == Begins(S, m)
  IN IF k <= Len(H.free) THEN {Take(S, h, H.free, k, n)}
     ELSE {Take([S EXCEPT !.heap[h].tree = Insert(@, [begin |-> b, size |-> m]),
                          !.heap[h].nextBlock = 2 * m],
                h, Append(H.free, [at |-> b, size |-> m]), k, n) :
           b \in {x \in B : (\A y \in B : x <= y) \/ (\A y \in B : y <= x)}}

-----------------------------------------------------------------------------
(* Block::mark.  The loop backward stops at the slot with OBJECT and does  *)
(* not mark it; the loop forward runs to the first slot that is not        *)
(* allocated, through the objects that follow.                             *)
Backward(b, S, p) ==
  {s \in b.begin .. p : \A a \in s .. p : a \notin S.object}
(* A plausible bug: the slot pointed to is marked, not the rest of the object.      *)
ForwardOne(b, S, p) == {p} \cap S.allocated
Forward(b, S, p) ==
  {s \in Extent(b) : s >= p /\ p .. s \subseteq S.allocated}
MarkOf(S, h, p) ==
  UNION {IF p \in S.allocated THEN Backward(b, S, p) \cup Forward(b, S, p) ELSE {} :
         b \in Find(S.heap[h].tree, p)}

(* The work list ends with the slots closed under the words they hold; the *)
(* order in which blocks are scanned does not matter, as what one address  *)
(* marks depends on OBJECT and ALLOCATED only.                             *)
RECURSIVE Closure(_, _, _)
Closure(S, h, marked) ==
  LET more == marked \cup UNION {MarkOf(S, h, S.mem[s]) : s \in marked}
  IN IF more = marked THEN marked ELSE Closure(S, h, more)
RootOf(S, h) == S.heap[h].begin .. S.heap[h].end - 1
Marked(S, h) ==
  Closure(S, h, MarkOf(S, h, S.heap[h].begin)
                \cup UNION {MarkOf(S, h, S.mem[s]) : s \in RootOf(S, h)})

(* Heap::~Heap frees the blocks and the children.                          *)
RECURSIVE Delete(_, _), DeleteAll(_, _)
Delete(S, h) ==
  LET gone == UNION {Extent(b) : b \in Blocks(S.heap[h].tree)}
  IN DeleteAll([S EXCEPT !.heap[h] = Free, !.object = @ \ gone, !.allocated = @ \ gone,
                         !.mem = [a \in DOMAIN @ |-> IF a \in gone THEN Null ELSE @[a]]],
               S.heap[h].children)
DeleteAll(S, c) == IF c = <<>> THEN S ELSE DeleteAll(Delete(S, Head(c)), Tail(c))

(* Mark and sweep of one heap, without its children.                       *)
Sweep(S, h) ==
  LET marked == Marked(S, h)
      dead == UNION {Extent(b) : b \in Blocks(S.heap[h].tree)} \ marked
      tree == SweepTree(S.heap[h].tree, marked)
      n == Cardinality(marked)
  IN [S EXCEPT !.heap[h].tree = tree,
               !.heap[h].free = SweepFree(S.heap[h].tree, marked, <<>>),
               !.heap[h].allocated = n,
               !.heap[h].nextCollection = 2 * n,
               !.heap[h].nextBlock = n,
               !.object = @ \ dead, !.allocated = @ \ dead,
               !.mem = [a \in DOMAIN @ |-> IF a \in dead THEN Null ELSE @[a]]]
Reachable(S, h) ==
  {S.mem[s] : s \in RootOf(S, h) \cup Marked(S, h)} \cap Elements(S.heap[h].children)

(* Heap::collect_garbage: a heap that has outgrown its limit is collected, *)
(* its reachable children are visited and the others freed; a heap that    *)
(* has not only passes the call on.                                        *)
RECURSIVE Collected(_, _), CollectedAll(_, _, _)
Collected(S, h) ==
  IF S.heap[h].allocated > S.heap[h].nextCollection
  THEN LET kept == Reachable(S, h)
       IN CollectedAll([Sweep(S, h) EXCEPT !.heap[h].children =
                          SelectSeq(S.heap[h].children, LAMBDA c : c \in kept)],
                       S.heap[h].children, kept)
  ELSE CollectedAll(S, S.heap[h].children, HeapId)
CollectedAll(S, c, kept) ==
  IF c = <<>> THEN S
  ELSE CollectedAll(IF Head(c) \in kept THEN Collected(S, Head(c)) ELSE Delete(S, Head(c)),
                    Tail(c), kept)

-----------------------------------------------------------------------------
InsertChild(S, g, c) ==
  [S EXCEPT !.heap[c].parent = g,
            !.heap[g].children = <<c>> \o @,
            !.heap[g].nextCollection = 0]

RemoveFromParent(S, c) ==
  LET g == S.heap[c].parent
  IN IF g = Null THEN S
     ELSE [S EXCEPT !.heap[g].children = SelectSeq(@, LAMBDA x : x # c),
                    !.heap[g].nextCollection = 0,
                    !.heap[c].parent = Null]

(* Heap::merge: x's blocks, chunks and children are appended to g's, and x *)
(* is freed.  The children keep the parent they had.                       *)
(* A plausible bug: the children stay behind.                              *)
MergedWithoutChildren(S, g, x) ==
  [S EXCEPT !.heap[g].tree = MergeBlocks(@, S.heap[x].tree),
            !.heap[g].free = @ \o S.heap[x].free,
            !.heap[g].allocated = @ + S.heap[x].allocated,
            !.heap[x] = Free]
Merged(S, g, x) ==
  [S EXCEPT !.heap[g].tree = MergeBlocks(@, S.heap[x].tree),
            !.heap[g].free = @ \o S.heap[x].free,
            !.heap[g].allocated = @ + S.heap[x].allocated,
            !.heap[g].children = @ \o S.heap[x].children,
            !.heap[x] = Free]

(* make_heap_link                                                          *)
MakeHeapLink(S, h, g) ==
  {[at |-> r.at, state |-> [r.state EXCEPT !.mem[r.at] = h]] : r \in Allocate(S, g, 1)}

-----------------------------------------------------------------------------
(* What a program reaches from a root: an object through a pointer to any  *)
(* of its slots.  Heaps are reached through links.                         *)
Within(S, p) ==
  {s \in Slot : LET lo == IF s < p THEN s ELSE p
                    hi == IF s < p THEN p ELSE s
                IN lo .. hi \subseteq S.allocated /\ (lo + 1 .. hi) \cap S.object = {}}
RECURSIVE Spread(_, _)
Spread(S, seen) ==
  LET more == seen \cup UNION {Within(S, S.mem[s]) : s \in {a \in seen : S.mem[a] \in Slot}}
  IN IF more = seen THEN seen ELSE Spread(S, more)
Visible(S, h) == Spread(S, RootOf(S, h))

(* The heaps a transaction is in, the innermost one first.                 *)
Around(t) == {current} \cup {saved[t][k].old : k \in DOMAIN saved[t]}
(* A word it can store to, of the heap it allocates in; NoWord stands for  *)
(* the stack, which is all a transaction can write under a read lock.      *)
NoWord == Null
Words(t) ==
  IF access[t] = "Write" THEN Visible(Now, current) \ links ELSE {NoWord}
LinksSeen(t) == links \cap UNION {Visible(Now, h) : h \in Around(t)}

Counted == ops < MaxOps /\ ops' = ops + 1
Busy(t) == access[t] # "None" /\ ~crashed /\ Counted
Become(S, w, p) ==
  /\ heap' = S.heap /\ object' = S.object /\ allocated' = S.allocated
  /\ mem' = IF w = NoWord THEN S.mem ELSE [S.mem EXCEPT ![w] = p]
  /\ links' = links \cap S.object

Init ==
  /\ heap = [h \in HeapId |-> IF h = Component THEN NewHeap(-Roots, 0) ELSE Free]
  /\ object = {} /\ allocated = {} /\ links = {}
  /\ mem = [s \in RootSlot \cup Slot |-> Null]
  /\ ControlInit
  /\ ops = 0

Start(t, a) == Lock(t, a) /\ UNCHANGED <<storage, ops>>
Finish(t) == Unlock(t) /\ UNCHANGED <<storage, ops>>

(* NewOp, for a type that is not a heap type.                              *)
New(t, n, w) ==
  /\ Busy(t)
  /\ \E r \in Allocate(Now, current, n) : Become(r.state, w, r.at)
  /\ UNCHANGED control

(* NewOp, for a heap type: a heap with a root, a child of the current heap, *)
(* and the link to it.                                                     *)
FirstFree(h) == ~heap[h].live /\ \A g \in HeapId : g < h => heap[g].live
NewHeapOp(t, n, w) ==
  /\ Busy(t)
  /\ \E h \in {g \in HeapId : FirstFree(g)} :
     \E r \in Allocate([Now EXCEPT !.heap[h] = NewHeap(Null, Null)], h, n) :
     LET grown == [r.state EXCEPT !.heap[h].begin = r.at, !.heap[h].end = r.at + n]
     IN \E l \in MakeHeapLink(InsertChild(grown, current, h), h, current) :
          /\ heap' = l.state.heap /\ object' = l.state.object
          /\ allocated' = l.state.allocated
          /\ mem' = IF w = NoWord THEN l.state.mem ELSE [l.state.mem EXCEPT ![w] = l.at]
          /\ links' = links \cup {l.at}
  /\ UNCHANGED control

(* An assignment of a pointer, or of the address of a later part of what   *)
(* it points to.                                                           *)
Assign(t, w, v, d) ==
  /\ Busy(t) /\ access[t] = "Write"
  /\ mem[w] # mem[v] + d
  /\ d > 0 => Interior /\ mem[v] \in Slot /\ mem[v] + d \in Within(Now, mem[v])
  /\ Become(Now, w, mem[v] + d)
  /\ UNCHANGED control
Clear(t, w) ==
  /\ Busy(t) /\ access[t] = "Write" /\ mem[w] # Null
  /\ Become(Now, w, Null)
  /\ UNCHANGED control

(* MoveOp and MergeOp break the link first, and need the heap on its       *)
(* parent's list.                                                          *)
(* A plausible bug: the count of the link is not looked at.                *)
CanBreakInUse(l) == mem[l] # Null
CanBreak(l) == mem[l] # Null /\ Unused(l)
OnList(h) ==
  heap[h].parent # Null =>
    heap[heap[h].parent].live /\ h \in Elements(heap[heap[h].parent].children)
Broken(l) == RemoveFromParent([Now EXCEPT !.mem[l] = Null], mem[l])

MoveOp(t, l, w) ==
  /\ Busy(t)
  /\ \/ /\ CanBreak(l) /\ OnList(mem[l])
        /\ \E r \in MakeHeapLink(InsertChild(Broken(l), current, mem[l]), mem[l], current) :
             /\ heap' = r.state.heap /\ object' = r.state.object
             /\ allocated' = r.state.allocated
             /\ mem' = IF w = NoWord THEN r.state.mem ELSE [r.state.mem EXCEPT ![w] = r.at]
             /\ links' = links \cup {r.at}
        /\ UNCHANGED control
     \/ CanBreak(l) /\ ~OnList(mem[l]) /\ Crash /\ UNCHANGED storage
     \/ ~CanBreak(l) /\ Become(Now, w, Null) /\ UNCHANGED control

MergeOp(t, l, w) ==
  /\ Busy(t)
  /\ \/ /\ CanBreak(l) /\ OnList(mem[l])
        /\ Become(Merged(Broken(l), current, mem[l]), w, heap[mem[l]].begin)
        /\ UNCHANGED control
     \/ CanBreak(l) /\ ~OnList(mem[l]) /\ Crash /\ UNCHANGED storage
     \/ ~CanBreak(l) /\ Become(Now, w, Null) /\ UNCHANGED control

Change(t, l) ==
  /\ Busy(t) /\ Len(saved[t]) < 2
  /\ IF mem[l] = Null THEN Crash ELSE Enter(t, l)
  /\ UNCHANGED storage
Changed(t) == Leave(t) /\ UNCHANGED <<storage, ops>>

(* The collector takes the instance like a transaction that writes it.     *)
Collect ==
  /\ \A t \in Transaction : access[t] = "None"
  /\ ~crashed /\ Counted
  /\ Become(Collected(Now, current), NoWord, Null)
  /\ UNCHANGED control

Operation(t) ==
  \/ \E n \in 1 .. MaxSize : \E w \in Words(t) : New(t, n, w) \/ NewHeapOp(t, n, w)
  \/ \E w \in Words(t) \ {NoWord} : Clear(t, w)
  \/ \E w, v \in Words(t) \ {NoWord} : \E d \in 0 .. MaxSize - 1 : Assign(t, w, v, d)
  \/ \E l \in LinksSeen(t) : \/ Change(t, l)
                             \/ \E w \in Words(t) : MoveOp(t, l, w) \/ MergeOp(t, l, w)
  \/ Changed(t)

Next ==
  \/ Collect
  \/ \E t \in Transaction : Operation(t) \/ Finish(t) \/ \E a \in Locks : Start(t, a)

Spec == Init /\ [][Next]_vars

-----------------------------------------------------------------------------
(* The heaps the component reaches through links.                          *)
RECURSIVE HeldFrom(_, _)
HeldFrom(S, H) ==
  LET more == H \cup ({S.mem[l] : l \in UNION {Visible(S, h) : h \in H}} \cap HeapId)
  IN IF more = H THEN H ELSE HeldFrom(S, more)
Held(S) == HeldFrom(S, {Component})
LiveHeap == {h \in HeapId : heap[h].live}

(* A step frees nothing the component reaches, and no part of an object:   *)
(* each slot stays allocated, and the first slot of an object its first.   *)
KeepsReachable ==
  [][\A h \in Held(Now) : \A s \in Visible(Now, h) \cap Slot :
       s \in allocated' /\ (s \in object <=> s \in object')]_vars

(* The chunks of a heap are disjoint and are exactly what its blocks have  *)
(* that is not allocated; allocated_size_ is the rest; every address of a  *)
(* block is found in the tree.                                             *)
ChunkSlots(h) == UNION {{c.at .. c.at + c.size - 1} : c \in Elements(heap[h].free)}
StorageAccounted ==
  \A h \in LiveHeap :
    LET blocks == Blocks(heap[h].tree)
        owned == UNION {Extent(b) : b \in blocks}
    IN /\ UNION ChunkSlots(h) = owned \ allocated
       /\ \A j, k \in DOMAIN heap[h].free :
            j # k => heap[h].free[j].at \notin
                     heap[h].free[k].at .. heap[h].free[k].at + heap[h].free[k].size - 1
       /\ heap[h].allocated = Cardinality(owned \cap allocated)
       /\ \A b \in blocks : \A s \in Extent(b) : Find(heap[h].tree, s) = {b}

(* A link the component reaches leads to a live heap, a child of the heap  *)
(* that holds the link: the collector looks for it nowhere else.           *)
LinksLeadToChildren ==
  \A h \in Held(Now) :
    /\ heap[h].live
    /\ \A l \in Visible(Now, h) \cap links :
         mem[l] # Null => mem[l] \in Elements(heap[h].children)
=============================================================================
