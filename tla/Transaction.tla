---------------------------- MODULE Transaction ----------------------------
(***************************************************************************)
(* One transaction: every path through the immutable phase of an action,   *)
(* the reactions it activates, the functions, methods and getters they     *)
(* call, and the deferred bodies of the mutable phase, for every program   *)
(* of the statements below.  A statement is taken when check_types accepts *)
(* it in the scope at hand (scopes, mutabilities, contexts), and only the  *)
(* checks that the compiler makes are made here.  It has the effect of the *)
(* operation generated for it: on the evaluation stack, whose frames are   *)
(* laid out as in MemoryModel, on the current instance and its current     *)
(* heap, and on the objects in the heaps.                                  *)
(*                                                                         *)
(* The program is not fixed in advance: its text is what the path has      *)
(* needed so far.  A loop or a branch only repeats or selects statements   *)
(* of one lexical scope, so a path is a sequence of them.                  *)
(*                                                                         *)
(* A component and an element (an object of the one other type, T) have a  *)
(* field p, a pointer to T, and a field h, a heap link to a heap of T.     *)
(***************************************************************************)
EXTENDS Integers, Sequences, SequencesExt, FiniteSets

CONSTANTS
  Instances,      \* the component instances; instance 1 takes the action
  Bindings,       \* possible bindings: instance -> sequence of instances with a reaction
  Pull,           \* instance -> instances whose getter a pull port of it is bound to
  MaxStatements,  \* binding -> bound on the statements of a path
  MaxLocals       \* size of the locals of a frame, in words

ASSUME TransactionAssumption ==
  /\ IsFiniteSet(Instances) /\ Instances = 1 .. Cardinality(Instances) /\ 1 \in Instances
  /\ Bindings \subseteq [Instances -> Seq(Instances)]
  /\ Pull \in [Instances -> SUBSET Instances]
  /\ MaxStatements \in [Bindings -> Nat]
  /\ MaxLocals \in Nat

VARIABLES
  bound,    \* the binding of the ports, one of Bindings
  phase,    \* "immutable", "mutable" or "done": where runtime::execute is
  data,     \* Stack::data_ up to top_, one word for each pointer
  bp,       \* Stack::base_pointer_, 0 for NULL
  list,     \* ExecutorBase::mutable_phase_base_pointer_
  info,     \* ExecutorBase::current_info_
  heap,     \* instance -> ComponentInfoBase::heap_
  obj,      \* the objects allocated, in order
  text,     \* base pointer -> what the compiler knows of the code of the frame
  native,   \* the native calls of Operation::execute, the innermost last
  acts,     \* the frames that activated, in order (history)
  ran,      \* the frames whose body was run, in order (history)
  count     \* statements taken (bounds the path)

vars == <<bound, phase, data, bp, list, info, heap, obj, text, native, acts, ran, count>>

(***************************************************************************)
(* Mutabilities, symbols and scopes.                                       *)
(***************************************************************************)
Mutable   == 0
Immutable == 1
Foreign   == 2
Mutability == {Mutable, Immutable, Foreign}

Sym(kind, type, intrinsic, indirection, offset) ==
  [kind |-> kind, type |-> type, im |-> intrinsic, ind |-> indirection, off |-> offset]

(* A function with the value of x given or replaced. *)
Put(f, x, v) == [y \in DOMAIN f \cup {x} |-> IF y = x THEN v ELSE f[y]]

Hidden(s) == [s EXCEPT !.kind = "Hidden"]

IsParameter(s) == s.kind \in {"Receiver", "Receiver_Duplicate", "Ordinary", "Ordinary_Duplicate"}
IsVariable(s)  == s.kind \in {"Variable", "Variable_Duplicate"}

(* A name is entered once in a frame, except for what activate and change
   re-enter, so the first declaration of a name in a scope is the only one. *)
Names(scopes) == UNION {DOMAIN scopes[i].symbols : i \in DOMAIN scopes}

Find(scopes, n) ==
  LET i == CHOOSE k \in DOMAIN scopes :
             n \in DOMAIN scopes[k].symbols /\ \A m \in 1 .. k - 1 : n \notin DOMAIN scopes[m].symbols
  IN  scopes[i].symbols[n]

Visible(scopes) == {n \in Names(scopes) : Find(scopes, n).kind # "Hidden"}

Duplicate(s, indirection) ==
  [s EXCEPT !.kind = CASE s.kind = "Receiver" -> "Receiver_Duplicate"
                       [] s.kind = "Ordinary" -> "Ordinary_Duplicate"
                       [] s.kind = "Variable" -> "Variable_Duplicate"
                       [] OTHER -> s.kind,
            !.ind = indirection]

(* In the body of an activation the receiver is mutable; everything that may
   point into another component is hidden. *)
ActivateScope(scopes) ==
  LET Hides(s) == \/ IsParameter(s) /\ s.kind # "Receiver"
                  \/ IsVariable(s) /\ s.ind = Foreign
      entered == {n \in Visible(scopes) : LET s == Find(scopes, n) IN s.kind = "Receiver" \/ Hides(s)}
  IN  [kind |-> "activate",
       symbols |-> [n \in entered |->
                      LET s == Find(scopes, n)
                      IN  IF Hides(s) THEN Hidden(s) ELSE Duplicate(s, Mutable)]]

(* In the body of a change statement everything outside the heap is foreign. *)
ChangeScope(scopes) ==
  [kind |-> "change",
   symbols |-> [n \in Visible(scopes) |->
                  LET s == Find(scopes, n)
                  IN  IF IsVariable(s) THEN [Duplicate(s, Foreign) EXCEPT !.im = Foreign]
                      ELSE Duplicate(s, Foreign)]]

(***************************************************************************)
(* Objects.  A heap has the number of its root, a component or an element; *)
(* a heap link is an object of the heap it was made in, and its p is the   *)
(* root of the heap it leads to, or 0 when it is broken.                   *)
(***************************************************************************)
Object(h, p, l) == [heap |-> h, p |-> p, h |-> l, link |-> FALSE]
Link(h, root) == [heap |-> h, p |-> root, h |-> 0, link |-> TRUE]

(* The objects that belong to a component are those it leads to. *)
ComponentState(i) ==
  LET Leads(S) == (UNION {{obj[o].p, obj[o].h} : o \in S}) \ {0}
      reach[S \in SUBSET (1 .. Len(obj))] ==
        IF Leads(S) \subseteq S THEN S ELSE reach[S \cup Leads(S)]
  IN  reach[{i}]

(***************************************************************************)
(* The frame on top of the native stack.                                   *)
(***************************************************************************)
Current == Last(native)
Running == native # <<>> /\ ~Current.ports
F == text[bp]
InnerScope == Head(F.scopes)

Frame(context, scopes, values, returns, next) ==
  [context |-> context, scopes |-> scopes, values |-> values, returns |-> returns,
   next |-> next, locals |-> 1, mutable |-> FALSE, changes |-> <<>>]

Native(b) == [bp |-> b, old |-> info, ports |-> FALSE, todo |-> <<>>, top |-> 0, type |-> "T"]

Locals == [i \in 1 .. MaxLocals |-> 0]

(***************************************************************************)
(* Expressions: an identifier, a field selected through a pointer, or a    *)
(* new object or heap.  A place has a type, its two mutabilities and the   *)
(* value found there.                                                      *)
(***************************************************************************)
Place(type, intrinsic, indirection, value, kind, at) ==
  [type |-> type, im |-> intrinsic, ind |-> indirection, val |-> value, kind |-> kind, at |-> at]

Identifiers ==
  {LET s == Find(F.scopes, n) IN Place(s.type, s.im, s.ind, data[bp + s.off], "symbol", n) :
     n \in Visible(F.scopes)}

Selections ==
  LET bases == {b \in Identifiers : b.type \in {"C", "T"} /\ b.val # 0}
  IN  {Place("T", b.ind, b.ind, obj[b.val].p, "p", b.val) : b \in bases}
        \cup {Place("H", b.ind, b.ind, obj[b.val].h, "h", b.val) : b \in bases}

News == {Place(t, Immutable, Mutable, Len(obj) + 1, "new", 0) : t \in {"T", "H"}}

NoArgument == Place("T", Immutable, Mutable, 0, "new", 0)

Places == Identifiers \cup Selections

(* NewOp: an object in the current heap, or a link in the current heap to a
   new heap with its root object. *)
Allocated(e) ==
  CASE e.kind # "new" -> obj
    [] e.kind = "new" /\ e.type = "T" -> Append(obj, Object(heap[info], 0, 0))
    [] OTHER -> obj \o <<Link(heap[info], Len(obj) + 2), Object(Len(obj) + 2, 0, 0)>>

Least(Allowed(_, _), e) ==
  CHOOSE m \in Mutability : Allowed(m, e) /\ \A k \in Mutability : Allowed(k, e) => m <= k

Take == Running /\ count < MaxStatements[bound] /\ count' = count + 1

(***************************************************************************)
(* Statements.                                                             *)
(***************************************************************************)
(* The frame f with a variable entered in its innermost scope. *)
Entered(f, symbol, value) ==
  [f EXCEPT !.scopes[1].symbols = Put(@, f.next, symbol),
            !.values = Put(@, f.next, value),
            !.next = @ + 1,
            !.locals = @ + 1]

Enter(symbol, value) ==
  /\ F.locals <= MaxLocals
  /\ text' = [text EXCEPT ![bp] = Entered(@, symbol, value)]

(* var x T: the declared intrinsic mutability is Mutable, the one that admits
   most. *)
Var(type, indirection) ==
  /\ Take
  /\ Enter(Sym("Variable", type, Mutable, indirection, F.locals), 0)
  /\ data' = [data EXCEPT ![bp + F.locals] = 0]
  /\ UNCHANGED <<bound, phase, bp, list, info, heap, obj, native, acts, ran>>

InitializerAllowed(indirection, e) == indirection >= e.ind

(* var x T = e.  Of the types that the check admits the declaration has the one
   that allows most afterwards: a greater mutability of x would only refuse
   some of the statements that follow. *)
VarInit(e) ==
  /\ Take
  /\ Enter(Sym("Variable", e.type, Mutable, Least(InitializerAllowed, e), F.locals), e.val)
  /\ data' = [data EXCEPT ![bp + F.locals] = e.val]
  /\ obj' = Allocated(e)
  /\ UNCHANGED <<bound, phase, bp, list, info, heap, native, acts, ran>>

(* A parameter re-entered by change keeps its intrinsic mutability, so that it
   can be assigned a pointer into the heap that is open. *)
AssignAllowed(l, e) == l.im = Mutable /\ l.ind >= e.ind

Assign(l, e) ==
  /\ Take
  /\ l.type = e.type
  /\ AssignAllowed(l, e)
  /\ IF l.kind = "symbol"
       THEN /\ data' = [data EXCEPT ![bp + Find(F.scopes, l.at).off] = e.val]
            /\ text' = [text EXCEPT ![bp].values[l.at] = e.val]
            /\ obj' = Allocated(e)
       ELSE /\ obj' = [Allocated(e) EXCEPT ![l.at] = IF l.kind = "p" THEN [@ EXCEPT !.p = e.val]
                                                                    ELSE [@ EXCEPT !.h = e.val]]
            /\ UNCHANGED <<data, text>>
  /\ UNCHANGED <<bound, phase, bp, list, info, heap, native, acts, ran>>

Opened(f, scope) == [f EXCEPT !.scopes = <<scope>> \o @]

OpenBlock ==
  /\ Take
  /\ text' = [text EXCEPT ![bp] = Opened(@, [kind |-> "block", symbols |-> <<>>])]
  /\ UNCHANGED <<bound, phase, data, bp, list, info, heap, obj, native, acts, ran>>

(* A plausible bug: the duplicates of change are counted as well. *)
Popped_Duplicates == Cardinality({n \in DOMAIN InnerScope.symbols : IsVariable(InnerScope.symbols[n])})

(* The words of the variables of a scope are used again once it is closed. *)
Popped == Cardinality({n \in DOMAIN InnerScope.symbols : InnerScope.symbols[n].kind = "Variable"})

Closed(frame) == [frame EXCEPT !.scopes = Tail(@), !.locals = @ - Popped]

CloseBlock ==
  /\ Running
  /\ InnerScope.kind = "block"
  /\ text' = [text EXCEPT ![bp] = Closed(@)]
  /\ UNCHANGED <<bound, phase, data, bp, list, info, heap, obj, native, acts, ran, count>>

(* The root of the heap that the link l leads to, once e is evaluated. *)
Root(e) == IF e.val = 0 THEN 0 ELSE Allocated(e)[e.val].p

(* change (e, r) { ... }.  In a function with a return parameter the compiler
   ends in NOT_REACHED (Parameter::duplicate); through a null link, or a broken
   one, the program ends. *)
Change(e) ==
  /\ Take
  /\ e.type = "H" /\ Root(e) # 0
  /\ ~F.returns
  /\ F.locals <= MaxLocals
  /\ LET root == Sym("Variable", "T", Immutable, e.ind, F.locals)
         changing == [Opened(F, ChangeScope(F.scopes)) EXCEPT !.changes = Append(@, heap[info])]
     IN  text' = [text EXCEPT ![bp] = Entered(changing, root, Root(e))]
  /\ data' = [data EXCEPT ![bp + F.locals] = Root(e)]
  /\ heap' = [heap EXCEPT ![info] = Root(e)]
  /\ obj' = Allocated(e)
  /\ UNCHANGED <<bound, phase, bp, list, info, native, acts, ran>>

EndChange ==
  /\ Running
  /\ InnerScope.kind = "change"
  /\ heap' = [heap EXCEPT ![info] = Last(F.changes)]
  /\ text' = [text EXCEPT ![bp] = [Closed(F) EXCEPT !.changes = Front(@)]]
  /\ UNCHANGED <<bound, phase, data, bp, list, info, obj, native, acts, ran, count>>

(* The heaps that objects are allocated in, and those that the change
   statements under way will return to. *)
OpenHeaps == {heap[i] : i \in Instances} \cup UNION {ToSet(text[b].changes) : b \in DOMAIN text}

(* A plausible bug: a heap that is open is moved or merged as well. *)
Movable_Open(e) == Root(e) # 0

(* The link leads to a heap, and its change_count is 0: no change statement
   under way has opened the heap or will return to it. *)
Movable(e) == Root(e) # 0 /\ Root(e) \notin OpenHeaps

Broken(e) == [Allocated(e) EXCEPT ![e.val].p = 0]

(* var x = v, for the result of move or merge: whatever the link is, and in
   every context, the compiler takes the result for a pointer to mutable. *)
Result(type, v) ==
  /\ Enter(Sym("Variable", type, Mutable, Mutable, F.locals), v)
  /\ data' = [data EXCEPT ![bp + F.locals] = v]
  /\ UNCHANGED <<bound, phase, bp, list, info, heap, native, acts, ran>>

(* move (e): the link is broken, a new one in the current heap leads to the heap. *)
Move(e) ==
  /\ Take
  /\ e.type = "H"
  /\ IF Movable(e)
       THEN /\ obj' = Append(Broken(e), Link(heap[info], Root(e)))
            /\ Result("H", Len(Allocated(e)) + 1)
       ELSE obj' = Allocated(e) /\ Result("H", 0)

(* merge (e): the link is broken, the current heap takes over all of the heap. *)
Merge(e) ==
  /\ Take
  /\ e.type = "H"
  /\ IF Movable(e)
       THEN /\ obj' = [o \in DOMAIN Allocated(e) |->
                         IF Broken(e)[o].heap = Root(e) THEN [Broken(e)[o] EXCEPT !.heap = heap[info]]
                                                        ELSE Broken(e)[o]]
            /\ Result("T", Root(e))
       ELSE obj' = Allocated(e) /\ Result("T", 0)

(***************************************************************************)
(* Calls.  The frame is: the word of the result, the argument, a fake      *)
(* instruction pointer, the saved base pointer, the locals.                *)
(***************************************************************************)
Words(returns, argument, saved) ==
  (IF returns THEN <<0>> ELSE <<>>) \o <<argument, 0, saved>> \o Locals

PushFrame(frame, argument) ==
  LET b == Len(data) + (IF frame.returns THEN 4 ELSE 3)
  IN  /\ data' = data \o Words(frame.returns, argument, bp)
      /\ bp' = b
      /\ text' = Put(text, b, frame)
      /\ native' = Append(native, Native(b))

ArgumentAllowed(indirection, e) == indirection >= e.ind

(* MethodBase::check looks at the arguments only: the receiver of a method may
   be declared a pointer to mutable whatever it is called on. *)
ReceiverAllowed(indirection, e) == TRUE

(* A call of a function, or of a method on e. *)
Call(method, e, returns) ==
  /\ Take
  /\ LET parameter == IF method
                      THEN Sym("Receiver", e.type, Mutable, Least(ReceiverAllowed, e), 0 - 2)
                      ELSE Sym("Ordinary", e.type, Mutable, Least(ArgumentAllowed, e), 0 - 2)
     IN  PushFrame(Frame("other", <<[kind |-> "list", symbols |-> <<>>],
                                    [kind |-> "parameters", symbols |-> <<parameter>>]>>,
                         <<e.val>>, returns, 2), e.val)
  /\ obj' = Allocated(e)
  /\ UNCHANGED <<bound, phase, list, info, heap, acts, ran>>

(* A call of a pull port or a getter, in the immutable phase only. *)
CallGetter(i) ==
  /\ Take
  /\ F.context \in {"action", "reaction", "getter"} /\ ~F.mutable
  /\ LET receiver == Sym("Receiver", "C", Mutable, Immutable, 0 - 2)
     IN  PushFrame(Frame("getter", <<[kind |-> "list", symbols |-> <<>>],
                                     [kind |-> "parameters", symbols |-> <<receiver>>]>>,
                         <<i>>, TRUE, 2), i)
  /\ info' = i
  /\ UNCHANGED <<bound, phase, list, heap, obj, acts, ran>>

Drop(b) == [x \in DOMAIN text \ {b} |-> text[x]]

(* A return parameter of a getter is foreign-safe. *)
ReturnAllowed(indirection, e) ==
  indirection >= e.ind /\ (F.context = "getter" => indirection = Foreign)

(* return e, with the result kept in a new variable of the caller. *)
Return(e) ==
  LET caller == data[bp]
      g      == text[caller]
      symbol == Sym("Variable", e.type, Mutable, Least(ReturnAllowed, e), g.locals)
  IN  /\ Take
      /\ F.context \in {"other", "getter"} /\ F.returns
      /\ g.locals <= MaxLocals
      /\ data' = [SubSeq(data, 1, bp - 4) EXCEPT ![caller + g.locals] = e.val]
      /\ text' = [Drop(bp) EXCEPT ![caller] = Entered(@, symbol, e.val)]
      /\ bp' = caller
      /\ info' = Current.old
      /\ native' = Front(native)
      /\ obj' = Allocated(e)
      /\ UNCHANGED <<bound, phase, list, heap, acts, ran>>

(* The end of a function without result. *)
EndCall ==
  /\ Running
  /\ F.context = "other" /\ ~F.returns /\ InnerScope.kind = "list"
  /\ data' = SubSeq(data, 1, bp - 3)
  /\ text' = Drop(bp)
  /\ bp' = data[bp]
  /\ info' = Current.old
  /\ native' = Front(native)
  /\ UNCHANGED <<bound, phase, list, heap, obj, acts, ran, count>>

(***************************************************************************)
(* Activation.                                                             *)
(***************************************************************************)
(* A plausible bug: the body is not linked to those deferred before it. *)
SavedByActivate_Unlinked == 0

(* What Activate::execute puts in the word of the saved base pointer. *)
SavedByActivate == list

(* activate: the body is deferred, the arguments of the port call (if there is
   one) are evaluated once and left on the stack. *)
Activate(calls, e) ==
  /\ Running
  /\ F.context \in {"action", "reaction"} /\ ~F.mutable
  /\ data' = [data EXCEPT ![bp] = SavedByActivate, ![bp - 1] = 1]
               \o (IF calls THEN <<e.val>> ELSE <<>>)
  /\ list' = bp
  /\ text' = [text EXCEPT ![bp] = [Opened(@, ActivateScope(F.scopes)) EXCEPT !.mutable = TRUE]]
  /\ native' = [native EXCEPT ![Len(native)] =
                   [@ EXCEPT !.ports = TRUE,
                             !.todo = IF calls THEN bound[info] ELSE <<>>,
                             !.top = Len(data) + 1,
                             !.type = e.type]]
  /\ acts' = Append(acts, bp)
  /\ obj' = IF calls THEN Allocated(e) ELSE obj
  /\ UNCHANGED <<bound, phase, bp, info, heap, ran, count>>

InPorts == native # <<>> /\ Current.ports

(* push_port_call: the next reaction bound to the port, in a frame of its own
   on top of the stack.  Its parameters are foreign-safe, its receiver is at
   least Immutable. *)
React ==
  /\ InPorts /\ Current.todo # <<>>
  /\ LET i    == Head(Current.todo)
         arg  == data[Current.top]
         b    == Len(data) + 4
         ps   == <<Sym("Receiver", "C", Mutable, Immutable, 0 - 3),
                   Sym("Ordinary", Current.type, Mutable, Foreign, 0 - 2)>>
     IN  /\ data' = data \o <<i, arg, 0, list>> \o Locals
         /\ bp' = b
         /\ text' = Put(text, b, Frame("reaction", <<[kind |-> "list", symbols |-> <<>>],
                                                     [kind |-> "parameters", symbols |-> ps]>>,
                                       <<i, arg>>, FALSE, 3))
         /\ native' = Append([native EXCEPT ![Len(native)].todo = Tail(@)], Native(b))
         /\ info' = i
  /\ UNCHANGED <<bound, phase, list, heap, obj, acts, ran, count>>

(* Control_Return after the last reaction: it leaves the change statements
   around the activation.  The outermost call of all ends the immutable
   phase. *)
EndActivate ==
  /\ InPorts /\ Current.todo = <<>>
  /\ heap' = IF F.changes = <<>> THEN heap ELSE [heap EXCEPT ![info] = Head(F.changes)]
  /\ text' = [text EXCEPT ![bp].changes = <<>>]
  /\ info' = Current.old
  /\ native' = Front(native)
  /\ IF Len(native) = 1 THEN phase' = "mutable" /\ bp' = list
                        ELSE phase' = phase /\ bp' = native[Len(native) - 1].bp
  /\ UNCHANGED <<bound, data, list, obj, acts, ran, count>>

(* The end of a reaction that activated nothing: its frame stays where it is. *)
EndReaction ==
  /\ Running
  /\ F.context = "reaction" /\ InnerScope.kind = "list"
  /\ text' = Drop(bp)
  /\ info' = Current.old
  /\ native' = Front(native)
  /\ bp' = native[Len(native) - 1].bp
  /\ UNCHANGED <<bound, phase, data, list, heap, obj, acts, ran, count>>

(* The end of an action that activated nothing. *)
EndAction ==
  /\ Running
  /\ F.context = "action" /\ InnerScope.kind = "list"
  /\ data' = SubSeq(data, 1, bp - 3)
  /\ bp' = data[bp]
  /\ text' = Drop(bp)
  /\ info' = Current.old
  /\ native' = <<>>
  /\ phase' = "done"
  /\ UNCHANGED <<bound, list, heap, obj, acts, ran, count>>

(***************************************************************************)
(* The mutable phase of runtime::execute.                                  *)
(***************************************************************************)
ReceiverOffset == IF F.context = "reaction" THEN 0 - 3 ELSE 0 - 2

BeginBody ==
  /\ phase = "mutable" /\ native = <<>>
  /\ bp \in DOMAIN text
  /\ native' = <<Native(bp)>>
  /\ info' = data[bp + ReceiverOffset]
  /\ ran' = Append(ran, bp)
  /\ UNCHANGED <<bound, phase, data, bp, list, heap, obj, text, acts, count>>

EndBody ==
  /\ Running
  /\ InnerScope.kind = "activate"
  /\ data' = SubSeq(data, 1, bp - 1)
  /\ bp' = data[bp]
  /\ text' = Drop(bp)
  /\ info' = Current.old
  /\ native' = <<>>
  /\ UNCHANGED <<bound, phase, list, heap, obj, acts, ran, count>>

(* execute_no_check pops the instruction pointer and the instance. *)
Finish ==
  /\ phase = "mutable" /\ native = <<>> /\ bp = 0
  /\ data' = SubSeq(data, 1, Len(data) - 2)
  /\ phase' = "done"
  /\ UNCHANGED <<bound, bp, list, info, heap, obj, text, native, acts, ran, count>>

(***************************************************************************)
(* Each instance begins with an element in its heap and a heap of its own  *)
(* behind a link.  execute_no_check has pushed the instance and the fake   *)
(* instruction pointer, and the frame of the action is set up.             *)
(***************************************************************************)
N == Cardinality(Instances)

Init ==
  /\ bound \in Bindings
  /\ phase = "immutable"
  /\ data = <<1, 0, 0>> \o Locals
  /\ bp = 3
  /\ list = 0
  /\ info = 1
  /\ heap = [i \in Instances |-> i]
  /\ obj = [o \in 1 .. 4 * N |-> CASE o \in Instances -> Object(o, N + o, 2 * N + o)
                                   [] o \in N + 1 .. 2 * N -> Object(o - N, 0, 0)
                                   [] o \in 2 * N + 1 .. 3 * N -> Link(o - 2 * N, N + o)
                                   [] OTHER -> Object(o, 0, 0)]
  /\ text = [b \in {3} |->
               Frame("action", <<[kind |-> "list", symbols |-> <<>>],
                                 [kind |-> "parameters",
                                  symbols |-> <<Sym("Receiver", "C", Mutable, Immutable, 0 - 2)>>]>>,
                     <<1>>, FALSE, 2)]
  /\ native = <<[bp |-> 3, old |-> 0, ports |-> FALSE, todo |-> <<>>, top |-> 0, type |-> "T"]>>
  /\ acts = <<>> /\ ran = <<>> /\ count = 0

Statement ==
  /\ Running
  /\ LET places == Places
         values == places \cup News
     IN  \/ \E type \in {"T", "H"}, m \in Mutability : Var(type, m)
         \/ \E e \in values : VarInit(e)
         \/ \E l \in places, e \in values : Assign(l, e)
         \/ OpenBlock
         \/ \E e \in values : Change(e) \/ Move(e) \/ Merge(e)
         \/ \E e \in values, method, returns \in BOOLEAN : Call(method, e, returns)
         \/ \E i \in Pull[info] : CallGetter(i)
         \/ \E e \in values : Return(e)
         \/ Activate(FALSE, NoArgument)
         \/ bound[info] # <<>> /\ \E e \in places : e.type # "C" /\ Activate(TRUE, e)

Next ==
  \/ Statement
  \/ CloseBlock \/ EndChange \/ EndCall
  \/ React \/ EndActivate \/ EndReaction \/ EndAction
  \/ BeginBody \/ EndBody \/ Finish

Spec == Init /\ [][Next]_vars
(***************************************************************************)
(* Properties.                                                             *)
(***************************************************************************)
(* What the compiler and the generated code agree on: a symbol that can be
   named in the code of a frame finds at its offset the value last given to it.
   Words are shared by the variables of closed scopes, and the frames of
   reactions are stacked on frames and arguments that are still needed
   (MemoryModel, StackFrame in semantic.cpp). *)
SymbolsKeepTheirWords ==
  \A b \in DOMAIN text : \A n \in Visible(text[b].scopes) :
    data[b + Find(text[b].scopes, n).off] = text[b].values[n]

(* The heap a component allocates in, and those its change statements will
   return to, are never taken from under it: none of them has been merged into
   another heap, and there is one link to it, or none to the heap of a
   component, whatever is moved and merged in between, by whatever frame.
   Move::execute breaks a link before it makes another, and change_count is all
   that keeps move and merge off a heap that is open. *)
OpenHeapsStand ==
  \A h \in OpenHeaps :
    /\ obj[h].heap = h
    /\ Cardinality({l \in DOMAIN obj : obj[l].link /\ obj[l].p = h}) = IF h \in Instances THEN 0 ELSE 1

(* Two heaps share nothing but the links between them: what a field of an
   object holds is in the heap of that object.  It is what lets the collector
   free each heap by itself (Heap.tla); "Const correctness", says
   doc/pointers.txt, is there so that components do not share data.  Since the
   receiver of a method is not checked, it does not hold. *)
HeapIsolation ==
  \A i \in Instances : \A o \in ComponentState(i) :
    /\ obj[o].p # 0 /\ ~obj[o].link => obj[obj[o].p].heap = obj[o].heap
    /\ obj[o].h # 0 => obj[obj[o].h].heap = obj[o].heap

(* The body of an activation runs after every reaction of the transaction, with
   the variables of its frame as they were left: nothing that it, or a function
   it calls, can name leads into the state of another component, although the
   immutable phase of the same frame may have seen that state.  A method that
   returns its receiver refutes it. *)
BodySeesOwn ==
  phase = "mutable" =>
    \A k \in DOMAIN native : \A n \in Visible(text[native[k].bp].scopes) :
      \A i \in Instances \ {info} : text[native[k].bp].values[n] \notin ComponentState(i)

(* The list threaded through the saved base pointers holds exactly the frames
   that activated: each body runs once, the last activated first, each on top
   of the stack; in the end the stack is empty and every component is back in
   its own heap, whatever change statements an activation was nested in. *)
BodiesRunInReverse ==
  /\ phase = "mutable" /\ native = <<>> =>
       bp = IF Len(ran) = Len(acts) THEN 0 ELSE acts[Len(acts) - Len(ran)]
  /\ phase = "done" => data = <<>> /\ heap = [i \in Instances |-> i]

(* The state of a component changes only in its own bodies of the mutable
   phase: neither the immutable phase of any component nor the body of another
   one writes an object that it leads to.  move refutes it. *)
ChangesOnlyInOwnBody ==
  [][\A i \in Instances :
       (phase = "mutable" /\ info = i) \/ \A o \in ComponentState(i) : obj'[o] = obj[o]]_vars

=============================================================================
