---------------------------- MODULE Composition ----------------------------
(* The composer (composition.cpp): which instances a transaction may use,  *)
(* and the checks that reject a composition.  The instances and ports have *)
(* been enumerated; from there on the module follows Composer::elaborate   *)
(* and Composer::analyze.                                                  *)
(*                                                                         *)
(* The nodes of the graph are the actions, reactions and getters of the    *)
(* instances, their push and pull ports, and the activations, <<n, k>> for *)
(* the k-th activation of n.  A body is the sequence of what the visitor   *)
(* finds in it: calls of getters and pull ports, activations, and the push *)
(* ports of the last activation.                                           *)
EXTENDS Integers, Sequences, FiniteSets, SequencesExt

CONSTANTS
  Instances,
  Actions, Reactions, Getters,  \* of the instances
  PushPorts, PullPorts,
  Home,      \* the instance each of them belongs to
  Programs   \* what the bodies contain, what they access, what is bound to what

Transitions == Actions \cup Reactions
Callables == Transitions \cup Getters
Ports == PushPorts \cup PullPorts

(* They are nodes of different classes, and none is an activation.         *)
ASSUME NodesAssumption ==
  /\ IsFiniteSet(Callables \cup Ports)
  /\ Actions \cap Reactions = {} /\ Transitions \cap Getters = {}
  /\ PushPorts \cap PullPorts = {} /\ Callables \cap Ports = {}
  /\ (Callables \cup Ports) \cap (Callables \X Nat) = {}
  /\ \A c \in Callables : Home[c] \in Instances

None == 0
Read == 1
Write == 2
Access == None .. Write

Call(n) == [what |-> "call", of |-> n]
Activate(x) == [what |-> "activate", of |-> x]
Push(p) == [what |-> "push", of |-> p]
Calling == [what : {"call"}, of : Getters \cup PullPorts]
Item == Calling \cup [what : {"activate"}, of : Access] \cup [what : {"push"}, of : PushPorts]

(* precondition and body: what the code of an action, reaction or getter   *)
(* does; precondition_access and immutable_phase_access: what              *)
(* compute_receiver_access found out; bindings: the bind statements in the *)
(* order in which they are executed.  Preconditions and getters do nothing *)
(* but call (check_types).  Any access is possible in a phase that is      *)
(* called immutable: the receiver of a method is not checked, and writes.  *)
Program == [precondition : [Actions -> Seq(Calling)],
            body : {b \in [Callables -> Seq(Item)] : \A g \in Getters : b[g] \in Seq(Calling)},
            precondition_access : [Actions -> Access],
            immutable_phase_access : [Callables -> Access],
            bindings : Seq((PushPorts \X Reactions) \cup (PullPorts \X Getters))]
ASSUME ProgramsAssumption == Programs \subseteq Program

VARIABLES
  program,             \* the program that is composed
  phase, todo,         \* the function of the composer, and what it has still to do
  nodes,               \* the outgoing nodes of every node
  precondition_nodes,  \* those of an action that are used in its precondition
  mutable_phase_access,                 \* of the activations
  instance_set, instance_set_computed,  \* the cache of each node
  state,               \* the colour of each node in tarjan ()
  linked_instances,    \* of each instance
  frames,              \* the recursion of instance_set () or tarjan ()
  verdict              \* how the composer has ended
graph == <<nodes, precondition_nodes, mutable_phase_access>>
sets == <<instance_set, instance_set_computed>>
vars == <<program, phase, todo, graph, sets, state, linked_instances, frames, verdict>>

Node == DOMAIN nodes
Nowhere == [i \in {} |-> None]
-----------------------------------------------------------------------------
(* InstanceSet: a map from instances to accesses, the largest that counts. *)

Larger(a, b) == IF a > b THEN a ELSE b
At(s, i) == IF i \in DOMAIN s THEN s[i] ELSE None

(* A plausible bug: std::map::insert keeps the access that is there.       *)
InsertedFirst(s, i, x) ==
  [j \in DOMAIN s \cup {i} |-> IF j \in DOMAIN s THEN s[j] ELSE x]
Inserted(s, i, x) == [j \in DOMAIN s \cup {i} |-> IF j = i THEN Larger(At(s, i), x) ELSE s[j]]

Union(s, t) == [i \in DOMAIN s \cup DOMAIN t |-> Larger(At(s, i), At(t, i))]

(* A plausible bug: an instance that is written must not be in the other   *)
(* set at all.                                                             *)
IsCompatibleStrict(s, t) == \A i \in DOMAIN s \cap DOMAIN t : s[i] # Write

(* is_compatible (): two pairs are equal only if their accesses are.       *)
IsCompatible(s, t) == \A i \in DOMAIN s \cap DOMAIN t : ~(s[i] = t[i] /\ s[i] = Write)

-----------------------------------------------------------------------------
(* A plausible bug: instances are linked before the ports are bound.       *)
AfterEarlyLinks(p) ==
  CASE p = "getters" -> "actions" [] p = "actions" -> "reactions"
    [] p = "reactions" -> "links" [] p = "links" -> "bindings"
    [] p = "bindings" -> "structure" [] p = "structure" -> "cycles" [] p = "cycles" -> "sets"

(* elaborate () and analyze () call one function after the other.          *)
After(p) ==
  CASE p = "getters" -> "actions" [] p = "actions" -> "reactions"
    [] p = "reactions" -> "bindings" [] p = "bindings" -> "links"
    [] p = "links" -> "structure" [] p = "structure" -> "cycles" [] p = "cycles" -> "sets"
Phases == {"getters", "actions", "reactions", "bindings", "links",
           "structure", "cycles", "sets"}

PreconditionUses ==
  {p \in Actions \X (Getters \cup PullPorts) : p[2] \in ToSet(precondition_nodes[p[1]])}

(* What a function loops over; the order of the addresses does not matter. *)
Work(p) ==
  CASE p = "getters" -> SetToSeq(Getters)
    [] p \in {"actions", "cycles", "sets"} -> SetToSeq(Actions)
    [] p = "reactions" -> SetToSeq(Reactions)
    [] p = "bindings" -> program.bindings
    [] p = "links" -> SetToSeq(PreconditionUses)
    [] p = "structure" -> <<>>

Init == /\ program \in Programs
        /\ phase = "getters" /\ todo = SetToSeq(Getters)
        /\ nodes = [n \in Callables \cup Ports |-> <<>>]
        /\ precondition_nodes = [a \in Actions |-> <<>>]
        /\ mutable_phase_access = [v \in {} |-> None]
        /\ instance_set = [n \in Callables \cup Ports |-> Nowhere]
        /\ instance_set_computed = [n \in Callables \cup Ports |-> FALSE]
        /\ state = [n \in Callables \cup Ports |-> "unmarked"]
        /\ linked_instances = [i \in Instances |-> {}]
        /\ frames = <<>> /\ verdict = "none"

Running(p) == verdict = "none" /\ phase = p
Working(p) == Running(p) /\ frames = <<>> /\ todo # <<>>
End(v) == /\ verdict' = v
          /\ UNCHANGED <<program, phase, todo, graph, sets, state, linked_instances, frames>>

(* The next function of elaborate () and analyze (); main calls one after  *)
(* the other.                                                              *)
Continue ==
  /\ verdict = "none" /\ phase \notin {"structure", "sets"} /\ frames = <<>> /\ todo = <<>>
  /\ phase' = After(phase) /\ todo' = Work(phase')
  /\ UNCHANGED <<program, graph, sets, state, linked_instances, frames, verdict>>
-----------------------------------------------------------------------------
(* ElaborationVisitor.                                                     *)

(* Activate makes a node, which the following push ports belong to; its    *)
(* body is not visited.  A call in an argument belongs to the transition.  *)
Visited(g, n, i) ==
  CASE i.what = "call" -> [g EXCEPT !.nodes[n] = Append(@, i.of)]
    [] i.what = "activate" ->
         LET v == <<n, g.count + 1>>
         IN  [nodes |-> [m \in DOMAIN g.nodes \cup {v} |->
                           IF m = v THEN <<>>
                           ELSE IF m = n THEN Append(g.nodes[n], v) ELSE g.nodes[m]],
              access |-> [w \in DOMAIN g.access \cup {v} |->
                            IF w = v THEN i.of ELSE g.access[w]],
              count |-> g.count + 1]
    [] i.what = "push" -> [g EXCEPT !.nodes[<<n, g.count>>] = Append(@, i.of)]

Elaborated(g, n, items) ==
  LET after[k \in 0 .. Len(items)] == IF k = 0 THEN g ELSE Visited(after[k - 1], n, items[k])
  IN  after[Len(items)]
Elaborate(n, items) ==
  LET g == Elaborated([nodes |-> nodes, access |-> mutable_phase_access, count |-> 0], n, items)
  IN  /\ nodes' = g.nodes
      /\ mutable_phase_access' = g.access
      /\ instance_set' = [m \in DOMAIN g.nodes |-> Nowhere]
      /\ instance_set_computed' = [m \in DOMAIN g.nodes |-> FALSE]
      /\ state' = [m \in DOMAIN g.nodes |-> "unmarked"]
      /\ todo' = Tail(todo)
      /\ UNCHANGED <<program, phase, linked_instances, frames, verdict>>

(* get_instance () does not know getters: a getter that pulls ends in      *)
(* NOT_REACHED.                                                            *)
Pulls(items) == \E k \in DOMAIN items : items[k].what = "call" /\ items[k].of \in PullPorts
ElaborateGetter ==
  /\ Working("getters")
  /\ LET g == Head(todo)
     IN  IF Pulls(program.body[g]) THEN End("aborted")
         ELSE Elaborate(g, program.body[g]) /\ UNCHANGED precondition_nodes
ElaborateReaction ==
  /\ Working("reactions")
  /\ Elaborate(Head(todo), program.body[Head(todo)])
  /\ UNCHANGED precondition_nodes
ElaborateAction ==
  /\ Working("actions")
  /\ LET a == Head(todo)
     IN  /\ Elaborate(a, program.precondition[a] \o program.body[a])
         /\ precondition_nodes' =
              [precondition_nodes EXCEPT ![a] = [k \in DOMAIN program.precondition[a] |->
                                                   program.precondition[a][k].of]]

(* elaborate_bindings (): a reaction or getter is added to a port.         *)
Bind ==
  /\ Working("bindings")
  /\ LET b == Head(todo) IN nodes' = [nodes EXCEPT ![b[1]] = Append(@, b[2])]
  /\ todo' = Tail(todo)
  /\ UNCHANGED <<program, phase, precondition_nodes, mutable_phase_access, sets, state,
                 linked_instances, frames, verdict>>
-----------------------------------------------------------------------------
(* instance_set ().  A frame is a call of it for `node' that looks at the  *)
(* outgoing node number `next'.                                            *)
Calls(n) == /\ frames' = Append(frames, [node |-> n, next |-> 1])
            /\ UNCHANGED <<program, phase, todo, graph, sets, state, linked_instances, verdict>>
Top == frames[Len(frames)]
Below == SubSeq(frames, 1, Len(frames) - 1)
Next1 == Append(Below, [Top EXCEPT !.next = @ + 1])

Recursing(ps) == verdict = "none" /\ phase \in ps /\ frames # <<>>
AtChild == Top.next <= Len(nodes[Top.node])
TheChild == nodes[Top.node][Top.next]

(* Activations and ports check what they join.                             *)
Checks == (DOMAIN mutable_phase_access) \cup Ports
ErrorOf(n) == CASE n \in PushPorts -> "E138" [] n \in PullPorts -> "E120" [] OTHER -> "E137"

(* The set of the child is there.                                          *)
JoinSet ==
  /\ Recursing({"links", "sets"}) /\ AtChild /\ instance_set_computed[TheChild]
  /\ IF Top.node \in Checks
        /\ ~IsCompatible(instance_set[Top.node], instance_set[TheChild])
     THEN End(ErrorOf(Top.node))
     ELSE /\ instance_set' = [instance_set EXCEPT ![Top.node] = Union(@, instance_set[TheChild])]
          /\ frames' = Next1
          /\ UNCHANGED <<program, phase, todo, graph, instance_set_computed, state,
                         linked_instances, verdict>>

(* It has to be computed first.  A node that is being computed already is  *)
(* computed again, and so on until the stack of the process is exhausted   *)
(* (only getters and pull ports come here before the check for recursion;  *)
(* only the pull ports check what they join, and no getter leads to one,   *)
(* so that no error comes first).                                          *)
EnterSet ==
  /\ Recursing({"links", "sets"}) /\ AtChild /\ ~instance_set_computed[TheChild]
  /\ IF \E k \in DOMAIN frames : frames[k].node = TheChild
     THEN End("overflow") ELSE Calls(TheChild)

(* What the node itself does with its instance.                            *)
Own(n) ==
  CASE n \in Actions -> Larger(program.precondition_access[n], program.immutable_phase_access[n])
    [] n \in Reactions \cup Getters -> program.immutable_phase_access[n]
    [] OTHER -> mutable_phase_access[n]
Owner(n) == IF n \in Callables THEN Home[n] ELSE Home[n[1]]

LeaveSet ==
  /\ Recursing({"links", "sets"}) /\ ~AtChild
  /\ instance_set' = IF Top.node \in Ports THEN instance_set
                     ELSE [instance_set EXCEPT ![Top.node] =
                             Inserted(@, Owner(Top.node), Own(Top.node))]
  /\ instance_set_computed' = [instance_set_computed EXCEPT ![Top.node] = TRUE]
  /\ frames' = Below
  /\ UNCHANGED <<program, phase, todo, graph, state, linked_instances, verdict>>

(* compute_dependent_instances (): the precondition of an action depends   *)
(* on the instances in the sets of what it calls.                          *)
Link ==
  /\ Working("links")
  /\ LET a == Head(todo)[1]
         n == Head(todo)[2]
     IN  IF ~instance_set_computed[n] THEN Calls(n)
         ELSE /\ linked_instances' =
                   [i \in Instances |-> linked_instances[i] \cup
                      (IF i \in DOMAIN instance_set[n] THEN {Home[a]} ELSE {})]
              /\ todo' = Tail(todo)
              /\ UNCHANGED <<program, phase, graph, sets, state, frames, verdict>>

(* compute_instance_sets ().                                               *)
ComputeSet ==
  /\ Working("sets")
  /\ IF ~instance_set_computed[Head(todo)] THEN Calls(Head(todo))
     ELSE /\ todo' = Tail(todo)
          /\ UNCHANGED <<program, phase, graph, sets, state, linked_instances, frames, verdict>>
Accept == Running("sets") /\ frames = <<>> /\ todo = <<>> /\ End("accepted")
-----------------------------------------------------------------------------
(* check_structure (): the bindings.  r->push_ports has an element for each *)
(* binding of r.                                                           *)
TimesBound(r) ==
  LET bs == SelectSeq(program.bindings, LAMBDA b : b[2] = r) IN Len(bs)
CheckStructure ==
  /\ Running("structure")
  /\ IF \E r \in Reactions : TimesBound(r) > 1 THEN End("E71")
     ELSE IF \E q \in PullPorts : nodes[q] = <<>> THEN End("E118")
     ELSE IF \E q \in PullPorts : Len(nodes[q]) > 1 THEN End("E119")
     ELSE /\ phase' = After(phase) /\ todo' = Work(phase')
          /\ UNCHANGED <<program, graph, sets, state, linked_instances, frames, verdict>>

(* A plausible bug: a node is done as soon as it has been seen.            *)
ColourDone(n) == [state EXCEPT ![n] = "marked"]
Colour(n) == [state EXCEPT ![n] = "temporary"]

(* tarjan (), from every action.                                           *)
Enter(n) == /\ state' = Colour(n)
            /\ frames' = Append(frames, [node |-> n, next |-> 1])
            /\ UNCHANGED <<program, phase, todo, graph, sets, linked_instances, verdict>>
TarjanRoot ==
  /\ Working("cycles")
  /\ IF state[Head(todo)] = "unmarked" THEN Enter(Head(todo))
     ELSE /\ todo' = Tail(todo)
          /\ UNCHANGED <<program, phase, graph, sets, state, linked_instances, frames, verdict>>
TarjanChild ==
  /\ Recursing({"cycles"}) /\ AtChild
  /\ \/ state[TheChild] = "unmarked" /\ Enter(TheChild)
     \/ state[TheChild] = "temporary" /\ End("E72")
     \/ /\ state[TheChild] = "marked"
        /\ frames' = Next1
        /\ UNCHANGED <<program, phase, todo, graph, sets, state, linked_instances, verdict>>
TarjanLeave ==
  /\ Recursing({"cycles"}) /\ ~AtChild
  /\ state' = [state EXCEPT ![Top.node] = "marked"]
  /\ frames' = Below
  /\ UNCHANGED <<program, phase, todo, graph, sets, linked_instances, verdict>>

Next == \/ ElaborateGetter \/ ElaborateAction \/ ElaborateReaction \/ Bind \/ Continue
        \/ Link \/ ComputeSet \/ EnterSet \/ JoinSet \/ LeaveSet
        \/ CheckStructure \/ TarjanRoot \/ TarjanChild \/ TarjanLeave \/ Accept
Spec == Init /\ [][Next]_vars
-----------------------------------------------------------------------------
(* The maps and vectors of the composer hold what their types say, and a   *)
(* call of instance_set () or tarjan () looks at an outgoing node.         *)
Verdicts == {"none", "accepted", "aborted", "overflow",
             "E71", "E72", "E118", "E119", "E120", "E137", "E138"}

(* What a graph leads to from a set of nodes, without recursion or cache.  *)
Outgoing(g, ns) == UNION {ToSet(g[n]) : n \in ns}
Closure(g, ns) ==
  LET grown[s \in SUBSET DOMAIN g] ==
        IF Outgoing(g, s) \subseteq s THEN s ELSE grown[s \cup Outgoing(g, s)]
  IN  grown[ns]
Reach(n) == Closure(nodes, {n})
Recursive(n) == n \in Closure(nodes, Outgoing(nodes, {n}))

(* The accesses of everything that can be reached.                         *)
Doers(n) == Reach(n) \ Ports
Uses(n) == [i \in {Owner(m) : m \in Doers(n)} |->
              CHOOSE x \in Access :
                /\ \E m \in Doers(n) : Owner(m) = i /\ Own(m) = x
                /\ \A m \in Doers(n) : Owner(m) = i => Own(m) <= x]

(* The set of an action, put together by recursion and from sets that were *)
(* cached before the checks, is what its transaction may do, neither more  *)
(* nor less: the locks the schedulers take are the right ones.             *)
SetsAreExact ==
  verdict = "accepted" =>
    \A a \in Actions : instance_set_computed[a] /\ instance_set[a] = Uses(a)

(* An instance is linked to those in which a precondition looks at it, and *)
(* to no others: only their actions are tried again when it has changed.   *)
LinkedExact ==
  verdict = "accepted" =>
    \A i, j \in Instances :
      j \in linked_instances[i] <=>
        \E a \in Actions : \E k \in DOMAIN precondition_nodes[a] :
          Home[a] = j /\ i \in DOMAIN Uses(precondition_nodes[a][k])

(* tarjan (): when the instance sets are computed there is no cycle left   *)
(* that a transaction could run into (instance_set () would not come to an *)
(* end), and E72 and the exhausted stack mean that there is one.           *)
RecursionRejected ==
  LET cycle == \E a \in Actions : \E n \in Reach(a) : Recursive(n)
  IN  /\ phase = "sets" => ~cycle
      /\ verdict \in {"E72", "overflow"} => cycle

(* Two branches of one activation or port write the same instance.         *)
Writes(n) == {i \in DOMAIN Uses(n) : Uses(n)[i] = Write}
Concurrent(n) ==
  n \in Checks /\ \E j, k \in DOMAIN nodes[n] :
                    j < k /\ Writes(nodes[n][j]) \cap Writes(nodes[n][k]) # {}

(* is_compatible (): no accepted composition has an activation or port two *)
(* branches of which write the same instance, and a composition is         *)
(* rejected as non-deterministic only for such, be it before the checks    *)
(* (E120) or after them.                                                   *)
ConcurrentUpdatesRejected ==
  LET concurrent == \E a \in Actions : \E n \in Reach(a) : Concurrent(n)
  IN  /\ verdict = "accepted" => ~concurrent
      /\ verdict \in {"E120", "E137", "E138"} => concurrent

(* Activation::instance_set () does not check its own instance, which it   *)
(* inserts after the branches. The documentation has it otherwise: in an   *)
(* accepted composition the order of the mutable phases is irrelevant,     *)
(* that of an activation and those of the branches included.               *)
OwnUpdateChecked ==
  verdict = "accepted" =>
    \A a \in Actions : \A v \in Reach(a) \cap DOMAIN mutable_phase_access :
      mutable_phase_access[v] = Write => \A c \in ToSet(nodes[v]) : Owner(v) \notin Writes(c)
=============================================================================
