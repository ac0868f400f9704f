--------------------------- MODULE ReceiverAccess ---------------------------
(* The pass that finds out how a transition uses its component             *)
(* (compute_receiver_access.cpp).  The locks a transaction takes are those *)
(* the pass asks for, so it must never be too low.                         *)
(*                                                                         *)
(* The visitor works in post-order: a node is annotated from its children. *)
(* The module does the same with any program: `stack' holds the annotated  *)
(* trees that still wait for their parent, and there is an action for      *)
(* every kind of node, which takes its children from the stack.  Besides   *)
(* what the visitor writes down (state, access, mutable) every tree has    *)
(* what running it may do (of, rights, ptr, beyond, does).                 *)
EXTENDS Integers, Sequences

CONSTANT MaxNodes    \* bound on the number of nodes visited

ASSUME MaxNodesAssumption == MaxNodes \in Nat

VARIABLES
  stack,   \* annotated trees without a parent
  phase,   \* the phase of the transition the next node belongs to
  nodes    \* how many nodes have been visited
vars == <<stack, phase, nodes>>

(* enum ReceiverAccess: AccessNone, AccessRead, AccessWrite, in order.     *)
None == 0
Read == 1
Write == 2
Access == None .. Write

Larger(a, b) == IF a > b THEN a ELSE b
Smaller(a, b) == IF a < b THEN a ELSE b

-----------------------------------------------------------------------------
(* What running a tree may do to the receiver's state: touch it, leave a   *)
(* pointer into it in a local variable (with these rights), touch          *)
(* something through a local variable.                                     *)
Effect == [touch : Access, leak : Access, via : Access]
Doing(t, l, v) == [touch |-> t, leak |-> l, via |-> v]
Nothing == Doing(None, None, None)
Touch(a) == Doing(a, None, None)
Leak(a) == Doing(None, a, None)
Via(a) == Doing(None, None, a)
c ++ d == Doing(Larger(c.touch, d.touch), Larger(c.leak, d.leak), Larger(c.via, d.via))

(* A pointer in a local variable is as good as the receiver, once it has   *)
(* been put there.                                                         *)
Actual(d) == Larger(d.touch, Smaller(d.leak, d.via))

(* What is done where the visitor looks, and what is done elsewhere: in    *)
(* the condition of an If or While; by leaving a mutable pointer in a      *)
(* variable with Var or Change; by invoking a method on a pointer into the *)
(* receiver, whose mark is lost, with more rights than the pointer has; by *)
(* breaking a heap link with move or merge.                                *)
Way == {"seen", "condition", "variable", "receiver", "link"}
Doings == [Way -> Effect]
In(w, x) == [v \in Way |-> IF v = w THEN x ELSE Nothing]
Idle == In("seen", Nothing)
d \oplus e == [w \in Way |-> d[w] ++ e[w]]
Total(d) == (((d.seen ++ d.condition) ++ d.variable) ++ d.receiver) ++ d.link

(* What the visitor writes into a node: eval.receiver_state,               *)
(* eval.receiver_access, and the mutable_phase_access of activations.      *)
Eval == [state : BOOLEAN, access : Access, mutable : Access]
Marked(s, a, m) == [state |-> s, access |-> a, mutable |-> m]
NoAccess == Marked(FALSE, None, None)
Accessing(a, b) == Marked(FALSE, Larger(a.access, b.access), Larger(a.mutable, b.mutable))
AtLeast(a, x) == Marked(a.state, Larger(a.access, x), a.mutable)

(* What an expression denotes: a mere value, a local variable, a place     *)
(* reached through one, or a place in (or a pointer into) the receiver;    *)
(* what may be done through it; whether its type contains a pointer;       *)
(* whether the rights were gained by a method that has more than its       *)
(* receiver gave it.                                                       *)
Denotes == {"value", "variable", "local", "receiver"}
Value == [of : Denotes, rights : Access, ptr : BOOLEAN, beyond : BOOLEAN]
Gaining(o, r, p, b) == [of |-> o, rights |-> r, ptr |-> p, beyond |-> b]
Denoting(o, r, p) == Gaining(o, r, p, FALSE)
Mere == Denoting("value", None, FALSE)

(* An annotated tree.                                                      *)
Form == {"expr", "args", "stmt", "ports"}
Tree == [form : Form, eval : Eval, value : Value, does : Doings]
Node(f, a, v, d) == [form |-> f, eval |-> a, value |-> v, does |-> d]

(* contains_pointer () and indirection_mutability == Mutable.              *)
MutablePointer(e) == e.value.ptr /\ e.value.rights = Write

(* What using a tree's value, or assigning to the place, does.             *)
WayOf(e) == IF e.value.beyond THEN "receiver" ELSE "seen"
Use(e, a) == In(WayOf(e), CASE e.value.of = "receiver" -> Touch(a)
                            [] e.value.of = "local" -> Via(a)
                            [] OTHER -> Nothing)
Reading(e) == Use(e, Read)

(* The rights to the receiver that a copy of the value carries.            *)
Carried(e) == IF e.value.of = "receiver" /\ e.value.ptr THEN e.value.rights ELSE None

(* A tree of one child and a tree of two children, that also does x.       *)
Over(f, e, x) == Node(f, Accessing(e.eval, NoAccess), Mere, e.does \oplus x)
Both(f, d, e, x) ==
  Node(f, Accessing(d.eval, e.eval), Mere, (d.does \oplus e.does) \oplus x)

(* The tree k places below the top; and visiting a node whose last k       *)
(* children are on the stack.                                              *)
Child(k) == stack[Len(stack) - k]
Forms(fs) == /\ Len(stack) >= Len(fs)
             /\ \A i \in DOMAIN fs : Child(Len(fs) - i).form = fs[i]
Visit(k, e) == /\ nodes < MaxNodes
               /\ nodes' = nodes + 1
               /\ stack' = Append(SubSeq(stack, 1, Len(stack) - k), e)
               /\ UNCHANGED phase
-----------------------------------------------------------------------------
Init == stack = <<>> /\ phase = "immutable" /\ nodes = 0

(* Identifiers and literals.  The receiver is a pointer to const in the    *)
(* immutable phase (Scope::activate duplicates it).                        *)
Leaf(f, a, v) == Node(f, a, v, Idle)
This == Visit(0, Leaf("expr", Marked(TRUE, Read, None),
                      Denoting("receiver", IF phase = "mutable" THEN Write ELSE Read, TRUE)))
Local == \E p \in BOOLEAN : Visit(0, Leaf("expr", NoAccess, Denoting("variable", Write, p)))
Literal == Visit(0, Leaf("expr", NoAccess, Mere))

(* What can be reached from an expression: itself, or, through a pointer   *)
(* in a local variable, something that may be anybody's.                   *)
Places(e) == {e.value.of} \cup
             (IF e.value.of = "variable" /\ e.value.ptr THEN {"local"} ELSE {})

(* AddressOf, Conversion, Select, Dereference: the child's annotations.    *)
Derived(e, o, r, p) == Node("expr", e.eval, Gaining(o, r, p, e.value.beyond), e.does)
Derive == /\ Forms(<<"expr">>)
          /\ \E p \in BOOLEAN, r \in {Read, Write}, o \in Places(Child(0)) :
               /\ r <= Child(0).value.rights
               /\ Visit(1, Derived(Child(0), o, r, p))

(* Index and IndexSlice.                                                   *)
Indexed(b, i, o, p) ==
  Node("expr", Marked(b.eval.state, Larger(b.eval.access, i.eval.access), b.eval.mutable),
       Gaining(o, b.value.rights, p, b.value.beyond), (b.does \oplus i.does) \oplus Reading(i))
Index == /\ Forms(<<"expr", "expr">>)
         /\ \E p \in BOOLEAN, o \in Places(Child(1)) :
              Visit(2, Indexed(Child(1), Child(0), o, p))

UnaryArithmetic == /\ Forms(<<"expr">>)
                   /\ Visit(1, Over("expr", Child(0), Reading(Child(0))))
BinaryArithmetic ==
  /\ Forms(<<"expr", "expr">>)
  /\ Visit(2, Both("expr", Child(1), Child(0), Reading(Child(1)) \oplus Reading(Child(0))))
-----------------------------------------------------------------------------
(* Calls of functions, methods, getters and pull ports.  A parameter is no *)
(* pointer, a pointer to const or a pointer to mutable.                    *)
Parameter == {"value", "const", "mutable"}
RightsOf(p) == CASE p = "value" -> None [] p = "const" -> Read [] p = "mutable" -> Write
Accepts(p, e) == p # "value" => e.value.ptr /\ RightsOf(p) <= e.value.rights

(* A plausible bug: any pointer counts as one to mutable.                  *)
GoesInAny(e, p) == e.eval.state /\ p # "value"

(* compute_receiver_access_arguments: a mutable pointer goes into the      *)
(* function.                                                               *)
GoesIn(e, p) == e.eval.state /\ p = "mutable"
AccessIn(e, p) == IF GoesIn(e, p) THEN Write ELSE None

(* More than the pointer allows, through one that is not marked.           *)
Gains(e, p) == /\ RightsOf(p) > e.value.rights
               /\ ~(e.eval.state /\ e.value.of = "receiver")

(* What the function may do with it: use it, or keep it.                   *)
Handing(e, p) ==
  IF p = "value" THEN Reading(e)
  ELSE In(IF Gains(e, p) THEN "receiver" ELSE WayOf(e),
          CASE e.value.of = "receiver" -> Doing(RightsOf(p), RightsOf(p), None)
            [] e.value.of \in {"local", "variable"} -> Via(RightsOf(p))
            [] OTHER -> Nothing)

(* The arguments.  Their state is the flag of the C++, their value any of  *)
(* the pointers that have gone in.                                         *)
NoArguments == Visit(0, Leaf("args", NoAccess, Mere))
Passed(a, e, p, v) ==
  Node("args",
       Marked(a.eval.state \/ GoesIn(e, p),
              Larger(Larger(a.eval.access, e.eval.access), AccessIn(e, p)),
              Larger(a.eval.mutable, e.eval.mutable)),
       v, (a.does \oplus e.does) \oplus Handing(e, p))
PointerIn(e, p) ==
  IF p = "value" THEN {}
  ELSE {Gaining(e.value.of, RightsOf(p), TRUE, e.value.beyond \/ Gains(e, p))}
Pass == /\ Forms(<<"args", "expr">>)
        /\ \E p \in Parameter :
             /\ Accepts(p, Child(0))
             /\ \E v \in {Child(1).value} \cup PointerIn(Child(0), p) :
                  Visit(2, Passed(Child(1), Child(0), p, v))

(* The result is nothing of interest, or a pointer derived from one that   *)
(* went in.  Only a mutable one can be marked.                             *)
Returns(v, r) == r # "value" => v.of # "value" /\ RightsOf(r) <= v.rights
Result(v, r) == IF r = "value" THEN Mere ELSE Gaining(v.of, RightsOf(r), TRUE, v.beyond)
Returned(a, v, r) ==
  Node("expr", Marked(r = "mutable" /\ a.eval.state, a.eval.access, a.eval.mutable),
       Result(v, r), a.does)
Call == /\ Forms(<<"args">>)
        /\ \E r \in Parameter :
             /\ Returns(Child(0).value, r)
             /\ Visit(1, Returned(Child(0), Child(0).value, r))

(* A plausible bug: the check is not extended to the receiver.             *)
InvokedUnchecked(b, a, p) ==
  Node("args", Marked(a.eval.state, Larger(a.eval.access, b.eval.access),
                      Larger(a.eval.mutable, b.eval.mutable)),
       a.value, (b.does \oplus a.does) \oplus Handing(b, p))

(* A marked receiver b of a method asks for as much as an argument, but    *)
(* does not count for the mark of the result.  Unlike an argument it may   *)
(* have fewer rights than the method: nothing compares its mutability with *)
(* that of the parameter (callable.cpp:117), and a place is as good as a   *)
(* pointer to it (generate_code.cpp:373).                                  *)
Invoked(b, a, p) ==
  Node("args", Marked(a.eval.state,
                      Larger(Larger(a.eval.access, b.eval.access), AccessIn(b, p)),
                      Larger(a.eval.mutable, b.eval.mutable)),
       a.value, (b.does \oplus a.does) \oplus Handing(b, p))
MethodCall ==
  /\ Forms(<<"expr", "args">>)
  /\ \E p \in Parameter, r \in Parameter :
       \E v \in {Child(0).value} \cup PointerIn(Child(1), p) :
         /\ Returns(v, r)
         /\ Visit(2, Returned(Invoked(Child(1), Child(0), p), v, r))

(* The builtins move and merge take a pointer to a heap link, whatever may *)
(* be done through it, and break the link (operation.cpp:1356, 1399).  The *)
(* heap is the caller's from then on, as a local variable is.              *)
Breaking(e) == In("link", CASE e.value.of = "receiver" -> Touch(Write)
                            [] e.value.of \in {"local", "variable"} -> Via(Write)
                            [] OTHER -> Nothing)
Unlinked(e) ==
  Node("expr", Accessing(e.eval, NoAccess), Denoting("variable", Write, TRUE),
       e.does \oplus (Reading(e) \oplus Breaking(e)))
MoveOrMerge == /\ Forms(<<"expr">>) /\ Child(0).value.ptr
               /\ Visit(1, Unlinked(Child(0)))
-----------------------------------------------------------------------------
(* Statements.                                                             *)
EmptyStatement == Visit(0, Leaf("stmt", NoAccess, Mere))

(* ExpressionStatement and Return.                                         *)
Evaluate == /\ Forms(<<"expr">>)
            /\ Visit(1, Over("stmt", Child(0), Reading(Child(0))))

(* A mutable pointer into the receiver that is put in a variable.          *)
Escapes(e) == e.eval.state /\ MutablePointer(e)

(* Var and Change do not check whether it escapes.                         *)
Binding(e) == In(IF Escapes(e) THEN "variable" ELSE WayOf(e), Leak(Carried(e)))
Declared(e) == Over("stmt", e, Reading(e) \oplus Binding(e))
Var == Forms(<<"expr">>) /\ Visit(1, Declared(Child(0)))

(* Anywhere but in a place that is known to be the receiver's, a pointer   *)
(* is a leak.                                                              *)
Assigning(l, r) ==
  (Reading(r) \oplus Use(l, Write)) \oplus
  In(WayOf(r), IF l.value.of = "receiver" /\ ~l.value.beyond THEN Nothing
               ELSE Leak(Carried(r)))
Statement(l, r, a, x) ==
  Node("stmt", AtLeast(Accessing(l.eval, r.eval), a), Mere,
       (l.does \oplus r.does) \oplus x)

(* A plausible bug: Assign forgets that a mutable pointer may escape.      *)
AssignedNoEscape(l, r) ==
  Statement(l, r, IF l.eval.state THEN Write ELSE None, Assigning(l, r))
Assigned(l, r) ==
  Statement(l, r, IF l.eval.state \/ Escapes(r) THEN Write ELSE None, Assigning(l, r))
Assign == /\ Forms(<<"expr", "expr">>)
          /\ Child(1).value.rights = Write
          /\ Visit(2, Assigned(Child(1), Child(0)))

(* AddAssign and IncrementDecrement (whose right side is the literal 1).   *)
(* Like While they occur in a mutable phase only: the composer gives up on *)
(* them elsewhere (composition.cpp:832).                                   *)
Updated(l, r) ==
  Statement(l, r, IF l.eval.state THEN Write ELSE None, Reading(r) \oplus Use(l, Write))
Update == /\ phase = "mutable" /\ Forms(<<"expr", "expr">>)
          /\ Child(1).value.rights = Write
          /\ Visit(2, Updated(Child(1), Child(0)))

(* StatementList.                                                          *)
Join == /\ Forms(<<"stmt", "stmt">>)
        /\ Visit(2, Both("stmt", Child(1), Child(0), Idle))

(* The condition c of an If or While does not count.                       *)
Unseen(c) == In("condition", Total(c.does \oplus Reading(c)))
Branched(b, c, d, e) ==
  Node("stmt", Accessing(b.eval, Accessing(d.eval, e.eval)), Mere,
       (b.does \oplus (d.does \oplus e.does)) \oplus Unseen(c))
If == /\ Forms(<<"stmt", "expr", "stmt", "stmt">>)
      /\ Visit(4, Branched(Child(3), Child(2), Child(1), Child(0)))
Looped(c, b) == Over("stmt", b, Unseen(c))
While == /\ phase = "mutable" /\ Forms(<<"expr", "stmt">>)
         /\ Visit(2, Looped(Child(1), Child(0)))

(* The root of the heap that is changed is a local variable in the body.   *)
Changed(e, b) == Both("stmt", e, b, Reading(e) \oplus Binding(e))
Change == Forms(<<"expr", "stmt">>) /\ Visit(2, Changed(Child(1), Child(0)))

(* The port calls of an activation.  An index is not counted; it is        *)
(* evaluated when the composition is elaborated (composition.cpp:893),     *)
(* where there is no receiver yet that it could read.                      *)
NoPortCalls == Visit(0, Leaf("ports", NoAccess, Mere))
PushPortCall ==
  /\ phase = "immutable" /\ Forms(<<"ports", "expr">>)
  /\ Visit(2, Both("ports", Child(1), Child(0), Reading(Child(0))))
IndexedPushPortCall ==
  /\ phase = "immutable" /\ Forms(<<"ports", "expr", "expr">>)
  /\ Child(1).value.of \in {"value", "variable"}
  /\ Child(1).does = Idle
  /\ Visit(3, Both("ports", Child(2), Child(0), Reading(Child(0))))

(* Activate: the port calls still belong to the immutable phase, the body  *)
(* is the mutable phase and has an access of its own.                      *)
EnterBody == /\ phase = "immutable" /\ Forms(<<"ports">>)
             /\ phase' = "mutable"
             /\ UNCHANGED <<stack, nodes>>
Activated(p, b) ==
  Node("stmt", Marked(FALSE, p.eval.access,
                      Larger(p.eval.mutable, Larger(b.eval.access, b.eval.mutable))), Mere,
       p.does \oplus b.does)
Activate == /\ phase = "mutable" /\ Forms(<<"ports", "stmt">>)
            /\ nodes < MaxNodes /\ nodes' = nodes + 1
            /\ phase' = "immutable"
            /\ stack' = Append(SubSeq(stack, 1, Len(stack) - 2), Activated(Child(1), Child(0)))

Next == \/ This \/ Local \/ Literal \/ Derive \/ Index
        \/ UnaryArithmetic \/ BinaryArithmetic
        \/ NoArguments \/ Pass \/ Call \/ MethodCall \/ MoveOrMerge
        \/ EmptyStatement \/ Evaluate \/ Var \/ Assign \/ Update \/ Join
        \/ If \/ While \/ Change
        \/ NoPortCalls \/ PushPortCall \/ IndexedPushPortCall \/ EnterBody \/ Activate
Spec == Init /\ [][Next]_vars
-----------------------------------------------------------------------------
(* Every annotation is one the visitor can give.                           *)
TypeOK == /\ stack \in Seq(Tree)
          /\ phase \in {"immutable", "mutable"}
          /\ nodes \in 0 .. MaxNodes

Trees == {stack[i] : i \in DOMAIN stack}

(* What the transition asks for: instance_set () inserts both accesses.    *)
Asked(e) == Larger(e.eval.access, e.eval.mutable)

(* Where the visitor looks it never reports less than what can happen: the *)
(* locks a transaction takes cover everything it does, but for the four    *)
(* ways around the visitor.                                                *)
SeenIsAsked == \A e \in Trees : Actual(e.does.seen) <= Asked(e)

(* The claim of docs/model.md:52 for each of these ways: what a condition  *)
(* does is covered too; what is done through a mutable pointer that Var or *)
(* Change put in a variable; ...                                           *)
ConditionsAreAsked == \A e \in Trees : Actual(e.does.seen ++ e.does.condition) <= Asked(e)
VariablesAreAsked == \A e \in Trees : Actual(e.does.seen ++ e.does.variable) <= Asked(e)

(* ... what is done through a pointer, however it is kept, with more than  *)
(* its rights: by a method, and by move and merge.                         *)
Beyond(d, w) == LET x == d.seen ++ d[w]
                IN Larger(Actual(x), IF x.leak = None THEN None ELSE d[w].via)
ReceiversAreAsked == \A e \in Trees : Beyond(e.does, "receiver") <= Asked(e)
LinksAreAsked == \A e \in Trees : Beyond(e.does, "link") <= Asked(e)

(* The visitor may take a value for harmless that points into the receiver *)
(* (what a method returns), but only when it has already asked for all     *)
(* that can be done through it, unless a method has given it more rights   *)
(* than its receiver had.                                                  *)
ForgottenIsAsked ==
  \A e \in Trees :
    e.value.of = "receiver" /\ ~e.eval.state /\ ~e.value.beyond
      => e.value.rights <= e.eval.access

(* A write lock is asked for only if something is written or a pointer     *)
(* that allows it is put in a variable: readers are not held up by caution *)
(* alone, nor compositions rejected for it (E137, E138).                   *)
NoNeedlessWrite ==
  \A e \in Trees : Asked(e) = Write => Write \in {e.does.seen.touch, e.does.seen.leak}
=============================================================================
