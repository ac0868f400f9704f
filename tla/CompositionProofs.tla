------------------------- MODULE CompositionProofs -------------------------
(***************************************************************************)
(* That the composer (composition.cpp) is right about a composition, for   *)
(* any number of instances, transitions, getters, ports and activations,   *)
(* with bodies of any length: the instance sets, the links and the checks  *)
(* for recursion and concurrent updates are those of the graph.            *)
(*                                                                         *)
(* What a node reaches is a least fixed point (ClosureIsLeast).  The       *)
(* recursion of instance_set () follows a path in the graph (Path); what   *)
(* it has computed are the sets of what the nodes reach (Known), what it   *)
(* has begun those of what it has joined (Partial).  The sets computed for *)
(* the links, before the check for recursion, are kept: they are of        *)
(* getters and pull ports only.  The marked nodes of tarjan () are closed  *)
(* and without cycles (Colouring).                                         *)
(***************************************************************************)
EXTENDS Composition, FiniteSetTheorems, SequenceTheorems, WellFoundedInduction, TLAPS

(* What a getter or pull port can lead to, and the nodes that are          *)
(* enumerated before the visitor makes activations.                        *)
Pulled == Getters \cup PullPorts
Fixed == Callables \cup Ports
Maps == UNION {[D -> Access] : D \in SUBSET Instances}
FrameType == [node : Node, next : Nat \ {0}]
Activations == DOMAIN mutable_phase_access

(* s is the instance set of the nodes ns.                                  *)
IsUses(s, ns) ==
  /\ s \in Maps
  /\ \A m \in ns \ Ports : Owner(m) \in DOMAIN s /\ Own(m) <= s[Owner(m)]
  /\ \A i \in DOMAIN s : \E m \in ns \ Ports : Owner(m) = i /\ Own(m) = s[i]

(* What elaborate () has built: nodes that lead to nodes. Getters and pull *)
(* ports lead to nothing else, so that before the check for recursion only *)
(* they are computed.                                                      *)
GoodGraph ==
  /\ program \in Programs
  /\ Activations \subseteq Callables \X Nat /\ IsFiniteSet(Activations)
  /\ mutable_phase_access \in [Activations -> Access]
  /\ nodes \in [Fixed \cup Activations -> Seq(Fixed \cup Activations)]
  /\ \A n \in Pulled : ToSet(nodes[n]) \subseteq Pulled
  /\ precondition_nodes \in [Actions -> Seq(Pulled)]
  /\ \A a \in Actions : ToSet(precondition_nodes[a]) \subseteq ToSet(nodes[a])

(* What the loop of each function goes through.                            *)
TodoType ==
  CASE phase = "getters" -> Getters
    [] phase \in {"actions", "cycles", "sets"} -> Actions
    [] phase = "reactions" -> Reactions
    [] phase = "bindings" -> (PushPorts \X Reactions) \cup (PullPorts \X Getters)
    [] phase = "links" -> PreconditionUses
    [] phase = "structure" -> {}

Shape ==
  /\ phase \in Phases /\ verdict \in Verdicts
  /\ instance_set \in [Node -> Maps] /\ instance_set_computed \in [Node -> BOOLEAN]
  /\ state \in [Node -> {"unmarked", "temporary", "marked"}]
  /\ linked_instances \in [Instances -> SUBSET Instances]
  /\ frames \in Seq(FrameType)
  /\ todo \in Seq(TodoType)

(* Nothing is computed, coloured or called before its function runs.       *)
Early ==
  /\ phase \in {"getters", "actions", "reactions", "bindings"} =>
       /\ \A n \in Node : instance_set[n] = Nowhere /\ ~instance_set_computed[n]
       /\ \A i \in Instances : linked_instances[i] = {}
  /\ phase \notin {"cycles", "sets"} => \A n \in Node : state[n] = "unmarked"
  /\ phase \notin {"links", "cycles", "sets"} => frames = <<>>

(* The calls form a path in the graph without repetition that starts at a  *)
(* node an action reaches.                                                 *)
Path ==
  /\ \A k \in 1 .. Len(frames) : frames[k].next <= Len(nodes[frames[k].node]) + 1
  /\ \A k \in 1 .. Len(frames) - 1 :
       /\ frames[k].next <= Len(nodes[frames[k].node])
       /\ frames[k + 1].node = nodes[frames[k].node][frames[k].next]
  /\ \A j, k \in 1 .. Len(frames) : frames[j].node = frames[k].node => j = k
  /\ frames # <<>> => \E a \in Actions : frames[1].node \in Reach(a)

InSets == phase \in {"links", "sets"}

(* What instance_set () returns is the set of what n reaches, and nothing  *)
(* n reaches has concurrent updates.                                       *)
Known(n) ==
  /\ \A c \in ToSet(nodes[n]) : instance_set_computed[c]
  /\ IsUses(instance_set[n], Reach(n))
  /\ \A m \in Reach(n) : ~Concurrent(m)
ReachBefore(n, k) == UNION {Reach(nodes[n][j]) : j \in 1 .. k - 1}

(* n has joined the sets of its outgoing nodes before the one at k.        *)
Partial(n, k) ==
  /\ \A j \in 1 .. k - 1 : instance_set_computed[nodes[n][j]]
  /\ IsUses(instance_set[n], ReachBefore(n, k))
  /\ n \in Checks => \A i, j \in 1 .. k - 1 : i < j => Writes(nodes[n][i]) \cap Writes(nodes[n][j]) = {}

(* The sets that are computed are known, also those that were computed     *)
(* before the checks, and those being computed are partial.                *)
Computing ==
  /\ \A n \in Node : instance_set_computed[n] => Known(n)
  /\ InSets => \A k \in 1 .. Len(frames) : /\ ~instance_set_computed[frames[k].node]
                                           /\ Partial(frames[k].node, frames[k].next)
  /\ \A n \in Node : \/ instance_set_computed[n] \/ instance_set[n] = Nowhere
                     \/ InSets /\ \E k \in 1 .. Len(frames) : frames[k].node = n

(* What is marked is not recursive and leads only to what is marked; the   *)
(* temporary nodes are those on the path.                                  *)
Colouring ==
  /\ \A n \in Node : state[n] = "marked" =>
       ~Recursive(n) /\ \A c \in ToSet(nodes[n]) : state[c] = "marked"
  /\ \A n \in Node : state[n] = "temporary" <=>
       phase = "cycles" /\ \E k \in 1 .. Len(frames) : frames[k].node = n
  /\ phase = "cycles" => \A k \in 1 .. Len(frames) : \A j \in 1 .. frames[k].next - 1 :
       state[nodes[frames[k].node][j]] = "marked"
  /\ phase = "cycles" => \A a \in Actions : state[a] = "marked" \/ a \in ToSet(todo)
  /\ phase = "sets" => \A a \in Actions : state[a] = "marked"

(* L are the uses in preconditions that have been linked.                  *)
Linking(L) ==
  /\ \A p \in L : instance_set_computed[p[2]]
  /\ \A i, j \in Instances :
       j \in linked_instances[i] <=>
         \E p \in L : Home[p[1]] = j /\ i \in DOMAIN instance_set[p[2]]
  /\ PreconditionUses \subseteq L \cup (IF phase = "links" THEN ToSet(todo) ELSE {})
Linked ==
  phase \in {"links", "structure", "cycles", "sets"} => \E L \in SUBSET PreconditionUses : Linking(L)

(* What E72, an exhausted stack, E120, E137 and E138 are reasons for.      *)
Cycle == \E a \in Actions : \E n \in Reach(a) : Recursive(n)
Concurrency == \E a \in Actions : \E n \in Reach(a) : Concurrent(n)
Verdict ==
  /\ phase = "sets" => \A a \in Actions : instance_set_computed[a] \/ a \in ToSet(todo)
  /\ verdict = "accepted" => phase = "sets" /\ todo = <<>>
  /\ verdict \in {"E72", "overflow"} => Cycle
  /\ verdict \in {"E120", "E137", "E138"} => Concurrency

(* The inductive invariant.                                                *)
IInv == GoodGraph /\ Shape /\ Early /\ Path /\ Computing /\ Colouring /\ Linked /\ Verdict

-----------------------------------------------------------------------------
(* A non-empty set of natural numbers has a least element.                 *)
LEMMA LeastNat ==
  ASSUME NEW S \in SUBSET Nat, S # {}
  PROVE  \E m \in S : \A k \in S : m <= k
<1>1. PICK m \in S : \A k \in S : ~(<<k, m>> \in OpToRel(<, Nat))
  BY WFMin, NatLessThanWellFounded
<1>2. \A k \in S : ~(k < m)
  BY <1>1 DEF OpToRel
<1>3. QED  BY <1>2

(* The recursion of Closure ends because the set grows: what it returns is *)
(* the least set that contains ns and what it leads to.                    *)
LEMMA ClosureIsLeast ==
  ASSUME NEW N, IsFiniteSet(N), NEW g \in [N -> Seq(N)], NEW ns \in SUBSET N
  PROVE  /\ Closure(g, ns) \in SUBSET N
         /\ ns \subseteq Closure(g, ns)
         /\ Outgoing(g, Closure(g, ns)) \subseteq Closure(g, ns)
         /\ \A S \in SUBSET N : ns \subseteq S /\ Outgoing(g, S) \subseteq S => Closure(g, ns) \subseteq S
<1> DEFINE Out(s) == Outgoing(g, s)
           Above(s) == {S \in SUBSET N : s \subseteq S /\ Out(S) \subseteq S}
           Least(s) == {n \in N : \A S \in Above(s) : n \in S}
           Step(f, s) == IF Out(s) \subseteq s THEN s ELSE f[s \cup Out(s)]
           Solves(f) == f = [s \in SUBSET N |-> Step(f, s)]
           h == [s \in SUBSET N |-> Least(s)]
           f == CHOOSE x : Solves(x)
<1>1. \A s \in SUBSET N : Out(s) \in SUBSET N
  <2>1. SUFFICES ASSUME NEW s \in SUBSET N, NEW n \in s, NEW x \in ToSet(g[n])  PROVE x \in N
    BY DEF Outgoing
  <2>2. g[n] \in Seq(N)
    OBVIOUS
  <2>3. PICK i \in DOMAIN g[n] : x = g[n][i]
    BY <2>1 DEF ToSet
  <2>4. i \in 1 .. Len(g[n])
    BY <2>2, LenProperties
  <2>5. QED  BY <2>2, <2>3, <2>4, ElementOfSeq
<1>2. \A s, t \in SUBSET N : s \subseteq t => Out(s) \subseteq Out(t)
  BY DEF Outgoing
<1> HIDE DEF Out
<1>3. ASSUME NEW s \in SUBSET N
      PROVE  /\ Least(s) \in Above(s) /\ \A S \in Above(s) : Least(s) \subseteq S
             /\ Out(s) \subseteq s => Least(s) = s
             /\ Least(s \cup Out(s)) = Least(s)
  <2>1. s \subseteq Least(s) /\ \A S \in Above(s) : Least(s) \subseteq S
    OBVIOUS
  <2>2. ASSUME NEW S \in Above(s)  PROVE Out(Least(s)) \subseteq S
    BY <2>1, <1>2, Least(s) \in SUBSET N
  <2>3. Out(Least(s)) \subseteq Least(s)
    BY <2>2, <1>1, Least(s) \in SUBSET N
  <2>4. ASSUME NEW S \in Above(s)  PROVE S \in Above(s \cup Out(s))
    BY <1>2
  <2>5. ASSUME NEW S \in Above(s \cup Out(s))  PROVE S \in Above(s)
    OBVIOUS
  <2>6. QED  BY <2>1, <2>3, <2>4, <2>5
<1>4. Solves(h)
  <2>1. \A s \in SUBSET N : Step(h, s) = Least(s)
    BY <1>3, <1>1
  <2>2. QED  BY <2>1
<1>5. Solves(f)
  BY <1>4
<1> HIDE DEF f
<1>6. ASSUME NEW s \in SUBSET N  PROVE f[s] = Least(s)
  <2> DEFINE Bad == {t \in SUBSET N : f[t] # Least(t)}
             Sizes == {Cardinality(N \ t) : t \in Bad}
  <2>1. SUFFICES ASSUME s \in Bad  PROVE FALSE
    OBVIOUS
  <2>2. Sizes \in SUBSET Nat /\ Sizes # {}
    <3>1. ASSUME NEW t \in Bad  PROVE Cardinality(N \ t) \in Nat
      BY FS_Subset, FS_CardinalityType, N \ t \in SUBSET N
    <3>2. QED  BY <2>1, <3>1
  <2>3. PICK m \in Sizes : \A k \in Sizes : m <= k
    BY <2>2, LeastNat
  <2>4. PICK t \in Bad : m = Cardinality(N \ t)
    BY <2>3
  <2>5. CASE Out(t) \subseteq t
    BY <2>4, <2>5, <1>5, <1>3
  <2>6. CASE ~(Out(t) \subseteq t)
    <3> DEFINE u == t \cup Out(t)
    <3>0. t \in SUBSET N /\ Out(t) \in SUBSET N
      BY <1>1
    <3>1. /\ u \in SUBSET N /\ N \ u \in SUBSET (N \ t) /\ N \ u # N \ t
          /\ f[t] = f[u] /\ Least(u) = Least(t)
      <4>1. f[t] = f[u]
        BY <3>0, <2>6, <1>5
      <4>2. Least(u) = Least(t)
        BY <3>0, <1>3
      <4>3. PICK x \in Out(t) : x \notin t
        BY <2>6
      <4> HIDE DEF Least, Bad
      <4>4. QED  BY <3>0, <4>1, <4>2, <4>3
    <3>2. IsFiniteSet(N \ t)
      BY FS_Subset, N \ t \in SUBSET N
    <3>3. Cardinality(N \ u) <= Cardinality(N \ t) /\ Cardinality(N \ u) # Cardinality(N \ t)
      BY <3>1, <3>2, FS_Subset
    <3>4. u \in Bad
      BY <3>1, <2>4
    <3>5. Cardinality(N \ u) \in Sizes
      BY <3>4
    <3>6. m \in Nat /\ Cardinality(N \ u) \in Nat /\ m <= Cardinality(N \ u)
      BY <3>5, <2>2, <2>3
    <3> HIDE DEF Bad, Sizes, u
    <3>7. QED  BY <3>3, <3>6, <2>4
  <2>7. QED  BY <2>5, <2>6
<1>7. Closure(g, ns) = f[ns]
  BY DOMAIN g = N DEF Closure, f, Out
<1>8. Closure(g, ns) \in Above(ns) /\ \A S \in Above(ns) : Closure(g, ns) \subseteq S
  <2>1. Closure(g, ns) = Least(ns)
    BY <1>6, <1>7
  <2>2. Least(ns) \in Above(ns) /\ \A S \in Above(ns) : Least(ns) \subseteq S
    BY <1>3
  <2> HIDE DEF Least, Above
  <2>3. QED  BY <2>1, <2>2
<1>9. QED  BY <1>8 DEF Out

(* What can be reached from a node is the node and what can be reached     *)
(* from its outgoing nodes.                                                *)
LEMMA ReachParts ==
  ASSUME NEW N, IsFiniteSet(N), NEW g \in [N -> Seq(N)], NEW n \in N
  PROVE  /\ Closure(g, {n}) \in SUBSET N /\ n \in Closure(g, {n})
         /\ ToSet(g[n]) \in SUBSET N
         /\ Closure(g, {n}) = {n} \cup UNION {Closure(g, {c}) : c \in ToSet(g[n])}
         /\ \A m \in Closure(g, {n}) : Closure(g, {m}) \subseteq Closure(g, {n})
         /\ \A S \in SUBSET N : n \in S /\ (\A m \in S : ToSet(g[m]) \subseteq S) => Closure(g, {n}) \subseteq S
<1> DEFINE R(m) == Closure(g, {m})
<1>1. ASSUME NEW m \in N  PROVE ToSet(g[m]) \in SUBSET N
  <2>1. g[m] \in Seq(N) /\ DOMAIN g[m] = 1 .. Len(g[m])
    BY LenProperties
  <2>2. QED  BY <2>1, ElementOfSeq DEF ToSet
<1>2. \A S \in SUBSET N : Outgoing(g, S) \subseteq S <=> \A m \in S : ToSet(g[m]) \subseteq S
  BY DEF Outgoing
<1>3. ASSUME NEW m \in N
      PROVE  /\ R(m) \in SUBSET N /\ m \in R(m)
             /\ \A k \in R(m) : ToSet(g[k]) \subseteq R(m)
             /\ \A S \in SUBSET N : m \in S /\ (\A k \in S : ToSet(g[k]) \subseteq S) => R(m) \subseteq S
  <2>1. {m} \in SUBSET N
    OBVIOUS
  <2> DEFINE C == Closure(g, {m})
  <2>2. /\ C \in SUBSET N /\ {m} \subseteq C /\ Outgoing(g, C) \subseteq C
        /\ \A S \in SUBSET N : {m} \subseteq S /\ Outgoing(g, S) \subseteq S => C \subseteq S
    <3>1. ASSUME NEW ns \in SUBSET N
          PROVE  /\ Closure(g, ns) \in SUBSET N /\ ns \subseteq Closure(g, ns)
                 /\ Outgoing(g, Closure(g, ns)) \subseteq Closure(g, ns)
                 /\ \A S \in SUBSET N : ns \subseteq S /\ Outgoing(g, S) \subseteq S => Closure(g, ns) \subseteq S
      BY ClosureIsLeast
    <3>2. QED  BY <2>1, <3>1
  <2> HIDE DEF C
  <2>3. /\ C \in SUBSET N /\ m \in C /\ \A k \in C : ToSet(g[k]) \subseteq C
        /\ \A S \in SUBSET N : m \in S /\ (\A k \in S : ToSet(g[k]) \subseteq S) => C \subseteq S
    BY <2>2, <1>2
  <2>4. QED  BY <2>3 DEF C
<1> HIDE DEF R
<1>4. ASSUME NEW m \in R(n)  PROVE R(m) \subseteq R(n)
  BY <1>3
<1> DEFINE U == {n} \cup UNION {R(c) : c \in ToSet(g[n])}
<1>5. U \subseteq R(n)
  <2>1. \A c \in ToSet(g[n]) : c \in R(n)
    BY <1>3
  <2>2. QED  BY <2>1, <1>3, <1>4
<1>6. R(n) \subseteq U
  <2>1. U \in SUBSET N
    BY <1>1, <1>3
  <2>2. ASSUME NEW k \in U  PROVE ToSet(g[k]) \subseteq U
    <3>1. CASE k = n
      BY <3>1, <1>1, <1>3
    <3>2. CASE k # n
      <4>1. PICK c \in ToSet(g[n]) : k \in R(c)
        BY <3>2, <2>2
      <4>2. ToSet(g[k]) \subseteq R(c)
        BY <4>1, <1>1, <1>3
      <4>3. QED  BY <4>1, <4>2
    <3>3. QED  BY <3>1, <3>2
  <2>3. QED  BY <2>1, <2>2, <1>3
<1>7. R(n) = U
  BY <1>5, <1>6
<1>8. QED  BY <1>1, <1>3, <1>4, <1>7 DEF R

(* When a node is recursive.                                               *)
LEMMA RecursiveParts ==
  ASSUME NEW N, IsFiniteSet(N), NEW g \in [N -> Seq(N)], NEW n \in N
  PROVE  /\ \A c \in ToSet(g[n]) : n \in Closure(g, {c}) => n \in Closure(g, Outgoing(g, {n}))
         /\ \A S \in SUBSET N : /\ ToSet(g[n]) \subseteq S /\ n \notin S
                                /\ \A m \in S : ToSet(g[m]) \subseteq S
                                => n \notin Closure(g, Outgoing(g, {n}))
<1>1. Outgoing(g, {n}) = ToSet(g[n])
  BY DEF Outgoing
<1>2. \A m \in N : ToSet(g[m]) \in SUBSET N
  BY ReachParts
<1> DEFINE T == Closure(g, ToSet(g[n]))
<1>3. /\ T \in SUBSET N /\ ToSet(g[n]) \subseteq T /\ Outgoing(g, T) \subseteq T
      /\ \A S \in SUBSET N : ToSet(g[n]) \subseteq S /\ Outgoing(g, S) \subseteq S => T \subseteq S
  BY <1>2, ClosureIsLeast
<1>4. \A S \in SUBSET N : Outgoing(g, S) \subseteq S <=> \A m \in S : ToSet(g[m]) \subseteq S
  BY DEF Outgoing
<1>5. ASSUME NEW c \in ToSet(g[n]), n \in Closure(g, {c})  PROVE n \in T
  <2>1. T \in SUBSET N /\ c \in T /\ c \in N /\ \A m \in T : ToSet(g[m]) \subseteq T
    BY <1>2, <1>3, <1>4
  <2>2. Closure(g, {c}) \subseteq T
    <3> HIDE DEF T
    <3>1. QED  BY <2>1, ReachParts
  <2>3. QED  BY <2>2, <1>5
<1> HIDE DEF T
<1>6. QED
  <2>1. \A S \in SUBSET N : ToSet(g[n]) \subseteq S /\ (\A m \in S : ToSet(g[m]) \subseteq S) => T \subseteq S
    BY <1>3, <1>4
  <2>2. QED  BY <2>1, <1>5, <1>1 DEF T

-----------------------------------------------------------------------------
(* What the sequences of the model hold: appending adds an element.        *)
LEMMA ToSetAppend ==
  ASSUME NEW S, NEW s \in Seq(S), NEW e \in S
  PROVE  ToSet(Append(s, e)) = ToSet(s) \cup {e}
<1>1. /\ Append(s, e) \in Seq(S) /\ Len(Append(s, e)) = Len(s) + 1 /\ Len(s) \in Nat
      /\ \A k \in 1 .. Len(s) : Append(s, e)[k] = s[k]
      /\ Append(s, e)[Len(s) + 1] = e
  BY AppendProperties, LenProperties
<1>2. DOMAIN s = 1 .. Len(s) /\ DOMAIN Append(s, e) = 1 .. Len(s) + 1
  BY <1>1, LenProperties
<1>3. 1 .. Len(s) + 1 = (1 .. Len(s)) \cup {Len(s) + 1}
  BY <1>1
<1> HIDE DEF ToSet
<1>4. QED  BY <1>1, <1>2, <1>3 DEF ToSet

(* Head and tail of a sequence have its elements.                          *)
LEMMA ToSetOfSeq ==
  ASSUME NEW S, NEW s \in Seq(S)
  PROVE  /\ ToSet(s) \in SUBSET S /\ ToSet(<<>>) = {}
         /\ \A x : x \in ToSet(s) <=> \E k \in 1 .. Len(s) : s[k] = x
         /\ s # <<>> => /\ Head(s) \in S /\ Tail(s) \in Seq(S)
                        /\ ToSet(s) = {Head(s)} \cup ToSet(Tail(s))
<1>1. Len(s) \in Nat /\ DOMAIN s = 1 .. Len(s)
  BY LenProperties
<1>2. \A x : x \in ToSet(s) <=> \E k \in 1 .. Len(s) : s[k] = x
  BY <1>1 DEF ToSet
<1>3. ToSet(s) \in SUBSET S
  BY <1>2, ElementOfSeq
<1>4. ToSet(<<>>) = {}
  BY DEF ToSet
<1>5. ASSUME s # <<>>
      PROVE  /\ Head(s) \in S /\ Tail(s) \in Seq(S)
             /\ ToSet(s) = {Head(s)} \cup ToSet(Tail(s))
  <2> DEFINE t == Tail(s)
  <2>1. /\ Head(s) \in S /\ t \in Seq(S) /\ Len(t) = Len(s) - 1
        /\ \A i \in 1 .. Len(t) : t[i] = s[i + 1]
    BY <1>5, HeadTailProperties
  <2>2. Head(s) = s[1]
    BY <1>5, <1>1
  <2>3. Len(s) >= 1
    BY <1>5, EmptySeq
  <2>4. DOMAIN t = 1 .. Len(t)
    BY <2>1, LenProperties
  <2>5. \A x : x \in ToSet(t) <=> \E k \in 1 .. Len(t) : t[k] = x
    BY <2>4 DEF ToSet
  <2> HIDE DEF t
  <2>6. ASSUME NEW k \in 1 .. Len(s)  PROVE s[k] \in {Head(s)} \cup ToSet(t)
    <3>1. CASE k = 1
      BY <3>1, <2>2
    <3>2. CASE k # 1
      <4>1. k - 1 \in 1 .. Len(t) /\ t[k - 1] = s[k]
        BY <3>2, <1>1, <2>1
      <4>2. QED  BY <4>1, <2>5
    <3>3. QED  BY <3>1, <3>2
  <2>7. ASSUME NEW k \in 1 .. Len(t)  PROVE t[k] \in ToSet(s)
    <3>1. k + 1 \in 1 .. Len(s) /\ t[k] = s[k + 1]
      BY <1>1, <2>1
    <3>2. QED  BY <3>1, <1>2
  <2>8. 1 \in 1 .. Len(s)
    BY <2>3, <1>1
  <2>9. QED  BY <1>2, <2>1, <2>2, <2>5, <2>6, <2>7, <2>8 DEF t
<1>6. QED  BY <1>2, <1>3, <1>4, <1>5

(* A loop over a set goes through all of it.                               *)
LEMMA SetToSeqHasAll ==
  ASSUME NEW S, IsFiniteSet(S)
  PROVE  SetToSeq(S) \in Seq(S) /\ ToSet(SetToSeq(S)) = S
<1> DEFINE n == Cardinality(S)
           D == 1 .. n
           f == SetToSeq(S)
<1>1. n \in Nat /\ ExistsBijection(D, S)
  BY FS_CardinalityType
<1>2. \E h \in [D -> S] : IsInjective(h)
  BY <1>1 DEF ExistsBijection, Bijection, Injection
<1>3. f \in [D -> S] /\ IsInjective(f)
  BY <1>2 DEF SetToSeq
<1>4. f \in Injection(D, S)
  BY <1>3 DEF Injection
<1>5. IsFiniteSet(D) /\ Cardinality(D) = n
  BY <1>1, FS_Interval
<1>6. f \in Surjection(D, S)
  BY <1>4, <1>5, FS_Injection
<1>7. ToSet(f) = S
  BY <1>3, <1>6 DEF Surjection, ToSet
<1>8. f \in Seq(S)
  BY <1>3, <1>1, SeqDef
<1>9. QED  BY <1>7, <1>8

-----------------------------------------------------------------------------
(* ElaborationVisitor keeps the graph well-formed.                         *)
GoodElaboration(g) ==
  /\ g = [nodes |-> g.nodes, access |-> g.access, count |-> g.count]
  /\ g.count \in Nat
  /\ DOMAIN g.access \subseteq Callables \X Nat /\ IsFiniteSet(DOMAIN g.access)
  /\ g.access \in [DOMAIN g.access -> Access]
  /\ g.nodes \in [Fixed \cup DOMAIN g.access -> Seq(Fixed \cup DOMAIN g.access)]
  /\ \A m \in Pulled : ToSet(g.nodes[m]) \subseteq Pulled

(* The visitor makes a good graph out of a good graph, keeps the outgoing  *)
(* nodes that are there and adds what is called.                           *)
LEMMA VisitedGood ==
  ASSUME NEW g, GoodElaboration(g), NEW n \in Callables, NEW i \in Item,
         n \in Getters => i \in Calling
  PROVE  LET h == Visited(g, n, i)
         IN  /\ GoodElaboration(h)
             /\ \A m \in Callables : ToSet(g.nodes[m]) \subseteq ToSet(h.nodes[m])
             /\ i.what = "call" => i.of \in ToSet(h.nodes[n])
<1> DEFINE h == Visited(g, n, i)
           A == DOMAIN g.access
           N == Fixed \cup A
<1>1. n \in N /\ n \in Fixed /\ n \notin PullPorts /\ Pulled \subseteq Fixed /\ Callables \subseteq Fixed
  BY NodesAssumption DEF Fixed, Pulled, Callables, Ports
<1>2. A \cap Fixed = {} /\ \A k \in Nat : <<n, k>> \notin Fixed
  BY NodesAssumption DEF GoodElaboration, Fixed
<1>3. CASE i.what = "call"
  <2>1. i.of \in Pulled
    BY <1>3 DEF Item, Calling, Pulled
  <2>2. h = [g EXCEPT !.nodes[n] = Append(@, i.of)]
    BY <1>3 DEF Visited
  <2>3. h = [nodes |-> [g.nodes EXCEPT ![n] = Append(@, i.of)], access |-> g.access, count |-> g.count]
    BY <2>2 DEF GoodElaboration
  <2>4. h.nodes = [g.nodes EXCEPT ![n] = Append(@, i.of)] /\ h.access = g.access /\ h.count = g.count
    BY <2>3
  <2>5. g.nodes[n] \in Seq(N) /\ i.of \in N
    BY <1>1, <2>1 DEF GoodElaboration
  <2>6. Append(g.nodes[n], i.of) \in Seq(N) /\ ToSet(Append(g.nodes[n], i.of)) = ToSet(g.nodes[n]) \cup {i.of}
    BY <2>5, ToSetAppend, AppendProperties
  <2>7. h.nodes \in [N -> Seq(N)]
    BY <2>4, <2>6, <1>1 DEF GoodElaboration
  <2>8. \A m \in Pulled : ToSet(h.nodes[m]) \subseteq Pulled
    BY <2>4, <2>6, <2>1, <1>1 DEF GoodElaboration
  <2>9. GoodElaboration(h)
    BY <2>3, <2>4, <2>7, <2>8 DEF GoodElaboration
  <2>10. QED  BY <2>4, <2>6, <2>9, <1>1 DEF GoodElaboration
<1>4. CASE i.what = "activate"
  <2> DEFINE v == <<n, g.count + 1>>
             B == A \cup {v}
  <2>1. i.of \in Access /\ n \notin Pulled /\ v \in Callables \X Nat /\ v \notin Fixed
    BY <1>4, <1>1, <1>2 DEF Item, Calling, Pulled, GoodElaboration
  <2>2. h = [nodes |-> [m \in DOMAIN g.nodes \cup {v} |->
                          IF m = v THEN <<>>
                          ELSE IF m = n THEN Append(g.nodes[n], v) ELSE g.nodes[m]],
             access |-> [w \in B |-> IF w = v THEN i.of ELSE g.access[w]],
             count |-> g.count + 1]
    BY <1>4 DEF Visited
  <2>3. /\ h.nodes = [m \in N \cup {v} |-> IF m = v THEN <<>>
                          ELSE IF m = n THEN Append(g.nodes[n], v) ELSE g.nodes[m]]
        /\ h.access = [w \in B |-> IF w = v THEN i.of ELSE g.access[w]]
        /\ h.count = g.count + 1
        /\ DOMAIN h.access = B
    BY <2>2 DEF GoodElaboration
  <2>4. \A m \in N : g.nodes[m] \in Seq(N \cup {v})
    BY SeqMonotonic, N \subseteq N \cup {v} DEF GoodElaboration
  <2>5. /\ Append(g.nodes[n], v) \in Seq(N \cup {v})
        /\ ToSet(Append(g.nodes[n], v)) = ToSet(g.nodes[n]) \cup {v}
    BY <2>4, <1>1, ToSetAppend, AppendProperties
  <2>6. h.nodes \in [N \cup {v} -> Seq(N \cup {v})]
    BY <2>3, <2>4, <2>5, EmptySeq
  <2>7. IsFiniteSet(B) /\ B \subseteq Callables \X Nat
    BY <2>1, FS_AddElement DEF GoodElaboration
  <2>8. h.access \in [B -> Access]
    BY <2>3, <2>1 DEF GoodElaboration
  <2>9. \A m \in Pulled : ToSet(h.nodes[m]) \subseteq Pulled
    <3> SUFFICES ASSUME NEW m \in Pulled PROVE ToSet(h.nodes[m]) \subseteq Pulled
      OBVIOUS
    <3>1. m \in N /\ m # v /\ m # n
      BY <2>1, <1>1
    <3>2. h.nodes[m] = g.nodes[m]
      BY <2>3, <3>1
    <3>3. ToSet(g.nodes[m]) \subseteq Pulled
      BY DEF GoodElaboration
    <3>4. QED  BY <3>2, <3>3
  <2>10. h = [nodes |-> h.nodes, access |-> h.access, count |-> h.count] /\ h.count \in Nat
    BY <2>2, <2>3 DEF GoodElaboration
  <2>11. Fixed \cup B = N \cup {v}
    OBVIOUS
  <2>12. GoodElaboration(h)
    <3> HIDE DEF h, N, B, A
    <3>1. QED  BY <2>3, <2>6, <2>7, <2>8, <2>9, <2>10, <2>11 DEF GoodElaboration
  <2>13. \A m \in Callables : ToSet(g.nodes[m]) \subseteq ToSet(h.nodes[m])
    BY <2>3, <2>5, <2>1, <1>1
  <2>14. QED  BY <2>12, <2>13, <1>4
<1>5. CASE i.what = "push"
  <2> DEFINE v == <<n, g.count>>
  <2>1. i.of \in PushPorts /\ i.of \in N /\ v \notin Fixed
    BY <1>5, <1>2 DEF Item, Calling, GoodElaboration, Fixed, Ports
  <2>2. h = [g EXCEPT !.nodes[v] = Append(@, i.of)]
    BY <1>5 DEF Visited
  <2>3. h = [nodes |-> [g.nodes EXCEPT ![v] = Append(@, i.of)], access |-> g.access, count |-> g.count]
    BY <2>2 DEF GoodElaboration
  <2>4. h.nodes = [g.nodes EXCEPT ![v] = Append(@, i.of)] /\ h.access = g.access /\ h.count = g.count
    BY <2>3
  <2>5. v \in A => Append(g.nodes[v], i.of) \in Seq(N)
    BY <2>1, AppendProperties DEF GoodElaboration
  <2>6. h.nodes \in [N -> Seq(N)]
    BY <2>4, <2>5, <2>1 DEF GoodElaboration
  <2>7. \A m \in Fixed : h.nodes[m] = g.nodes[m]
    BY <2>4, <2>1 DEF GoodElaboration
  <2>8. GoodElaboration(h)
    BY <2>3, <2>4, <2>6, <2>7, <1>1 DEF GoodElaboration
  <2>9. QED  BY <2>7, <2>8, <1>1, <1>5
<1>6. i.what \in {"call", "activate", "push"}
  BY DEF Item, Calling
<1>7. QED  BY <1>3, <1>4, <1>5, <1>6

(* So does the visit of a whole body, by induction over its items.         *)
LEMMA ElaboratedGood ==
  ASSUME NEW g, GoodElaboration(g), NEW n \in Callables, NEW items \in Seq(Item),
         n \in Getters => items \in Seq(Calling)
  PROVE  LET h == Elaborated(g, n, items)
         IN  /\ GoodElaboration(h)
             /\ \A m \in Callables : ToSet(g.nodes[m]) \subseteq ToSet(h.nodes[m])
             /\ \A j \in 1 .. Len(items) : items[j].what = "call" => items[j].of \in ToSet(h.nodes[n])
<1> DEFINE Step(f, k) == IF k = 0 THEN g ELSE Visited(f[k - 1], n, items[k])
           Solves(f, k) == f = [j \in 0 .. k |-> Step(f, j)]
           NoSolution == {k \in Nat : ~\E f : Solves(f, k)}
<1>1. NoSolution = {}
  <2>1. SUFFICES ASSUME NoSolution # {}  PROVE FALSE
    OBVIOUS
  <2>2. PICK m \in NoSolution : \A k \in NoSolution : m <= k
    BY <2>1, LeastNat
  <2>3. m # 0
    <3>1. Solves([j \in 0 .. 0 |-> g], 0)
      OBVIOUS
    <3>2. QED  BY <3>1, <2>2
  <2>4. m - 1 \in Nat /\ m - 1 \notin NoSolution
    <3>1. m \in Nat
      BY <2>2
    <3> HIDE DEF NoSolution
    <3>2. QED  BY <3>1, <2>2, <2>3
  <2>5. PICK f : Solves(f, m - 1)
    BY <2>4
  <2> DEFINE h == [j \in 0 .. m |-> IF j = m THEN Visited(f[m - 1], n, items[m]) ELSE f[j]]
  <2>6. ASSUME NEW j \in 0 .. m  PROVE h[j] = Step(h, j)
    <3>1. CASE j = m
      BY <3>1, <2>3, <2>4
    <3>2. CASE j # m
      <4>1. j \in 0 .. m - 1 /\ h[j] = f[j] /\ (j # 0 => j - 1 \in 0 .. m /\ j - 1 # m)
        BY <3>2, <2>4
      <4>2. f[j] = Step(f, j)
        BY <4>1, <2>5
      <4>3. QED  BY <4>1, <4>2
    <3>3. QED  BY <3>1, <3>2
  <2>7. Solves(h, m)
    BY <2>6
  <2>8. QED  BY <2>7, <2>2
<1>2. Len(items) \in Nat
  BY LenProperties
<1> DEFINE a == CHOOSE f : Solves(f, Len(items))
<1>3. Solves(a, Len(items))
  BY <1>1, <1>2
<1>4. Elaborated(g, n, items) = a[Len(items)]
  BY DEF Elaborated
<1> HIDE DEF a
<1>5. a[0] = g /\ \A k \in 1 .. Len(items) : a[k] = Visited(a[k - 1], n, items[k])
  BY <1>2, <1>3
<1> DEFINE Holds(k) ==
             /\ GoodElaboration(a[k])
             /\ \A m \in Callables : ToSet(g.nodes[m]) \subseteq ToSet(a[k].nodes[m])
             /\ \A j \in 1 .. k : items[j].what = "call" => items[j].of \in ToSet(a[k].nodes[n])
           Fails == {k \in 0 .. Len(items) : ~Holds(k)}
<1>6. Fails = {}
  <2>1. SUFFICES ASSUME Fails # {}  PROVE FALSE
    OBVIOUS
  <2>2. PICK m \in Fails : \A k \in Fails : m <= k
    <3>1. Fails \in SUBSET Nat
      OBVIOUS
    <3> HIDE DEF Fails
    <3>2. QED  BY <2>1, <3>1, LeastNat
  <2>3. Holds(0)
    BY <1>5
  <2>4. m \in 1 .. Len(items) /\ m - 1 \in 0 .. Len(items) /\ m - 1 \notin Fails
    <3>1. m \in 0 .. Len(items) /\ ~Holds(m)
      BY <2>2
    <3>2. m # 0
      <4> HIDE DEF Holds
      <4>1. QED  BY <3>1, <2>3
    <3> HIDE DEF Fails, Holds
    <3>3. QED  BY <3>1, <3>2, <2>2, <1>2
  <2>5. Holds(m - 1)
    BY <2>4
  <2>6. a[m] = Visited(a[m - 1], n, items[m])
    BY <2>4, <1>5
  <2>7. items[m] \in Item /\ (n \in Getters => items[m] \in Calling)
    BY <2>4, ElementOfSeq
  <2>8. /\ GoodElaboration(a[m])
        /\ \A x \in Callables : ToSet(a[m - 1].nodes[x]) \subseteq ToSet(a[m].nodes[x])
        /\ items[m].what = "call" => items[m].of \in ToSet(a[m].nodes[n])
    BY <2>5, <2>6, <2>7, VisitedGood
  <2>9. \A j \in 1 .. m : j = m \/ j \in 1 .. m - 1
    BY <2>4
  <2>10. Holds(m)
    BY <2>5, <2>8, <2>9
  <2>11. QED  BY <2>2, <2>10
<1>7. Holds(Len(items))
  BY <1>6, <1>2
<1>8. QED  BY <1>7, <1>4

-----------------------------------------------------------------------------
(* Of which kinds the nodes are, and what they do with their instances.    *)
LEMMA GraphFacts ==
  ASSUME GoodGraph
  PROVE  /\ Node = Fixed \cup Activations /\ IsFiniteSet(Node)
         /\ nodes \in [Node -> Seq(Node)]
         /\ Callables \subseteq Node /\ Ports \subseteq Node /\ Pulled \subseteq Node
         /\ Actions \subseteq Node
         /\ \A n \in Node \ Ports : Owner(n) \in Instances /\ Own(n) \in Access
<1>1. Node = Fixed \cup Activations
  BY DEF GoodGraph, Node
<1>2. IsFiniteSet(Node)
  BY <1>1, NodesAssumption, FS_Union DEF GoodGraph, Fixed
<1>3. /\ Callables \subseteq Node /\ Ports \subseteq Node /\ Pulled \subseteq Node
      /\ Actions \subseteq Node
  BY <1>1 DEF Fixed, Pulled, Callables, Ports, Transitions
<1>4. program \in Program
  BY ProgramsAssumption DEF GoodGraph
<1>5. /\ \A a \in Actions : program.precondition_access[a] \in Access
      /\ \A c \in Callables : program.immutable_phase_access[c] \in Access
  BY <1>4 DEF Program
<1>6. ASSUME NEW n \in Callables
      PROVE  Owner(n) \in Instances /\ Own(n) \in Access
  <2>1. Owner(n) \in Instances
    BY NodesAssumption DEF Owner
  <2>2. CASE n \in Actions
    <3>1. n \notin Reactions \cup Getters
      BY <2>2, NodesAssumption DEF Transitions
    <3>2. Own(n) = Larger(program.precondition_access[n], program.immutable_phase_access[n])
      BY <2>2, <3>1 DEF Own
    <3>3. QED  BY <2>1, <2>2, <3>2, <1>5, <1>6 DEF Larger
  <2>3. CASE n \notin Actions
    <3>1. n \in Reactions \cup Getters
      BY <2>3, <1>6 DEF Callables, Transitions
    <3>2. Own(n) = program.immutable_phase_access[n]
      BY <2>3, <3>1 DEF Own
    <3>3. QED  BY <2>1, <3>2, <1>5, <1>6
  <2>4. QED  BY <2>1, <2>2, <2>3
<1>7. ASSUME NEW n \in Activations
      PROVE  Owner(n) \in Instances /\ Own(n) \in Access
  <2>1. n \in Callables \X Nat /\ n \notin Callables
    BY NodesAssumption DEF GoodGraph
  <2>2. n[1] \in Callables
    BY <2>1
  <2>3. Owner(n) \in Instances
    BY <2>1, <2>2, NodesAssumption DEF Owner
  <2>4. n \notin Actions /\ n \notin Reactions /\ n \notin Getters
    BY <2>1 DEF Callables, Transitions
  <2>5. Own(n) = mutable_phase_access[n]
    BY <2>4 DEF Own
  <2>6. QED  BY <2>3, <2>5 DEF GoodGraph
<1>9. \A n \in Node \ Ports : n \in Callables \/ n \in Activations
  BY <1>1 DEF Fixed
<1>11. nodes \in [Node -> Seq(Node)]
  BY <1>1 DEF GoodGraph
<1>12. QED  BY <1>1, <1>2, <1>3, <1>6, <1>7, <1>9, <1>11

(* What a node reaches: itself and what its outgoing nodes reach, the      *)
(* least set closed under outgoing nodes.                                  *)
LEMMA ReachFacts ==
  ASSUME GoodGraph, NEW n \in Node
  PROVE  /\ Reach(n) \in SUBSET Node /\ n \in Reach(n) /\ ToSet(nodes[n]) \in SUBSET Node
         /\ nodes[n] \in Seq(Node)
         /\ Reach(n) = {n} \cup UNION {Reach(c) : c \in ToSet(nodes[n])}
         /\ \A m \in Reach(n) : Reach(m) \subseteq Reach(n)
         /\ \A S \in SUBSET Node :
              n \in S /\ (\A m \in S : ToSet(nodes[m]) \subseteq S) => Reach(n) \subseteq S
         /\ \A c \in ToSet(nodes[n]) : c \in Reach(n) /\ (n \in Reach(c) => Recursive(n))
         /\ \A S \in SUBSET Node : /\ ToSet(nodes[n]) \subseteq S /\ n \notin S
                                   /\ \A m \in S : ToSet(nodes[m]) \subseteq S
                                   => ~Recursive(n)
<1>1. IsFiniteSet(Node) /\ nodes \in [Node -> Seq(Node)]
  BY GraphFacts
<1>2. \A m \in Node :
         /\ Reach(m) \in SUBSET Node /\ m \in Reach(m) /\ ToSet(nodes[m]) \in SUBSET Node
         /\ Reach(m) = {m} \cup UNION {Reach(c) : c \in ToSet(nodes[m])}
         /\ \A k \in Reach(m) : Reach(k) \subseteq Reach(m)
         /\ \A S \in SUBSET Node :
              m \in S /\ (\A k \in S : ToSet(nodes[k]) \subseteq S) => Reach(m) \subseteq S
  BY <1>1, ReachParts DEF Reach
<1>3. /\ \A c \in ToSet(nodes[n]) : n \in Reach(c) => Recursive(n)
      /\ \A S \in SUBSET Node : /\ ToSet(nodes[n]) \subseteq S /\ n \notin S
                                /\ \A m \in S : ToSet(nodes[m]) \subseteq S
                                => ~Recursive(n)
  BY <1>1, RecursiveParts DEF Reach, Recursive
<1>4. \A c \in ToSet(nodes[n]) : c \in Reach(n)
  BY <1>2
<1>5. QED  BY <1>1, <1>2, <1>3, <1>4

-----------------------------------------------------------------------------
(* Instance sets.                                                          *)
LEMMA MapsAre ==
  ASSUME NEW s
  PROVE  s \in Maps <=> /\ DOMAIN s \in SUBSET Instances
                        /\ s \in [DOMAIN s -> Access]
BY DEF Maps

(* There is only one instance set of given nodes,                          *)
LEMMA UsesUnique ==
  ASSUME NEW s, NEW t, NEW ns, IsUses(s, ns), IsUses(t, ns)
  PROVE  s = t
<1>1. /\ s \in [DOMAIN s -> Access] /\ t \in [DOMAIN t -> Access]
  BY MapsAre DEF IsUses
<1>2. DOMAIN s = DOMAIN t
  BY DEF IsUses
<1>3. ASSUME NEW i \in DOMAIN s  PROVE s[i] = t[i]
  <2>1. s[i] \in Int /\ t[i] \in Int
    BY <1>1, <1>2 DEF Access, None, Write
  <2>2. s[i] <= t[i] /\ t[i] <= s[i]
    BY <1>2 DEF IsUses
  <2>3. QED  BY <2>1, <2>2
<1>4. QED  BY <1>1, <1>2, <1>3

(* and Uses is it.                                                         *)
LEMMA UsesSpec ==
  ASSUME GoodGraph, NEW n \in Node
  PROVE  IsUses(Uses(n), Reach(n))
<1> DEFINE D == Doers(n)
           I == {Owner(m) : m \in D}
           Most(i, x) == /\ \E m \in D : Owner(m) = i /\ Own(m) = x
                         /\ \A m \in D : Owner(m) = i => Own(m) <= x
<1>1. D = Reach(n) \ Ports
  BY DEF Doers
<1>2. \A m \in D : Owner(m) \in Instances /\ Own(m) \in Access
  BY <1>1, GraphFacts, ReachFacts
<1> HIDE DEF D
<1>3. ASSUME NEW i \in I  PROVE \E x \in Access : Most(i, x)
  <2>1. Access = {0, 1, 2}
    BY DEF Access, None, Write
  <2>2. PICK m \in D : Owner(m) = i
    OBVIOUS
  <2>3. CASE \E k \in D : Owner(k) = i /\ Own(k) = 2
    <3>1. Most(i, 2)
      BY <2>3, <2>1, <1>2
    <3>2. QED  BY <3>1, <2>1
  <2>4. CASE ~(\E k \in D : Owner(k) = i /\ Own(k) = 2) /\ \E k \in D : Owner(k) = i /\ Own(k) = 1
    <3>1. Most(i, 1)
      BY <2>4, <2>1, <1>2
    <3>2. QED  BY <3>1, <2>1
  <2>5. CASE ~(\E k \in D : Owner(k) = i /\ Own(k) = 2) /\ ~\E k \in D : Owner(k) = i /\ Own(k) = 1
    <3>1. Most(i, 0)
      BY <2>2, <2>5, <2>1, <1>2
    <3>2. QED  BY <3>1, <2>1
  <2>6. QED  BY <2>3, <2>4, <2>5
<1>4. Uses(n) = [i \in I |-> CHOOSE x \in Access : Most(i, x)]
  BY DEF Uses, D
<1> DEFINE c(i) == CHOOSE x \in Access : Most(i, x)
<1>5. \A i \in I : c(i) \in Access /\ Most(i, c(i))
  <2> HIDE DEF Most, I
  <2>1. QED  BY <1>3
<1>6. Uses(n) \in Maps
  <2>1. I \in SUBSET Instances
    BY <1>2
  <2>2. Uses(n) = [i \in I |-> c(i)]
    BY <1>4
  <2> HIDE DEF c, I
  <2>3. Uses(n) \in [I -> Access]
    BY <2>2, <1>5
  <2>4. QED  BY <2>1, <2>3 DEF Maps
<1>7. \A i \in I : Uses(n)[i] = c(i)
  BY <1>4
<1>8. DOMAIN Uses(n) = I
  BY <1>4
<1> HIDE DEF c
<1>9. QED  BY <1>1, <1>5, <1>6, <1>7, <1>8 DEF IsUses

(* What a set says is written is written by one of the nodes.              *)
LEMMA WritesAre ==
  ASSUME GoodGraph, NEW s, NEW ns \in SUBSET Node, IsUses(s, ns), NEW i
  PROVE  i \in DOMAIN s /\ s[i] = Write <=> \E m \in ns \ Ports : Owner(m) = i /\ Own(m) = Write
<1>1. ASSUME NEW m \in ns \ Ports, Owner(m) = i, Own(m) = Write
      PROVE  i \in DOMAIN s /\ s[i] = Write
  <2>1. i \in DOMAIN s /\ Write <= s[i]
    BY <1>1 DEF IsUses
  <2>2. s[i] \in Access
    BY <2>1, MapsAre DEF IsUses
  <2>3. QED  BY <2>1, <2>2 DEF Access, None, Write
<1>2. QED  BY <1>1 DEF IsUses

(* The larger access.                                                      *)
LEMMA LargerIs ==
  ASSUME NEW x \in Access, NEW y \in Access
  PROVE  /\ Larger(x, y) \in Access /\ x <= Larger(x, y) /\ y <= Larger(x, y)
         /\ Larger(x, y) = x \/ Larger(x, y) = y
         /\ Larger(x, None) = x /\ Larger(None, y) = y
BY DEF Larger, Access, None, Write

(* add_union () joins the sets of nodes, insert () adds that of one more.  *)
LEMMA UnionUses ==
  ASSUME GoodGraph, NEW s, NEW t, NEW A \in SUBSET Node, NEW B \in SUBSET Node,
         IsUses(s, A), IsUses(t, B)
  PROVE  IsUses(Union(s, t), A \cup B)
<1> DEFINE u == Union(s, t)
<1>1. /\ DOMAIN s \in SUBSET Instances /\ s \in [DOMAIN s -> Access]
      /\ DOMAIN t \in SUBSET Instances /\ t \in [DOMAIN t -> Access]
  BY MapsAre DEF IsUses
<1>2. Access \in SUBSET Int /\ \A x \in Access : None <= x
  BY DEF Access, None, Write
<1>3. DOMAIN u = DOMAIN s \cup DOMAIN t
  BY DEF Union
<1>4. ASSUME NEW i \in DOMAIN u
      PROVE  /\ u[i] \in Access /\ At(s, i) <= u[i] /\ At(t, i) <= u[i]
             /\ (i \in DOMAIN s /\ u[i] = s[i]) \/ (i \in DOMAIN t /\ u[i] = t[i])
  <2>1. u[i] = Larger(At(s, i), At(t, i))
    BY <1>3 DEF Union
  <2>2. At(s, i) \in Access /\ At(t, i) \in Access
    <3>1. None \in Access
      BY DEF Access, None, Write
    <3>2. QED  BY <1>1, <3>1 DEF At
  <2>3. /\ u[i] \in Access /\ At(s, i) <= u[i] /\ At(t, i) <= u[i]
        /\ u[i] = At(s, i) \/ u[i] = At(t, i)
        /\ Larger(At(s, i), None) = At(s, i) /\ Larger(None, At(t, i)) = At(t, i)
    BY <2>1, <2>2, LargerIs
  <2>4. (i \in DOMAIN s => At(s, i) = s[i]) /\ (i \notin DOMAIN s => At(s, i) = None)
    BY DEF At
  <2>5. (i \in DOMAIN t => At(t, i) = t[i]) /\ (i \notin DOMAIN t => At(t, i) = None)
    BY DEF At
  <2>6. i \in DOMAIN s \/ i \in DOMAIN t
    BY <1>3
  <2>7. (i \in DOMAIN s /\ u[i] = s[i]) \/ (i \in DOMAIN t /\ u[i] = t[i])
    BY <2>1, <2>3, <2>4, <2>5, <2>6
  <2>8. QED  BY <2>3, <2>7
<1>5. u \in Maps
  <2>1. u = [i \in DOMAIN u |-> u[i]]
    BY DEF Union
  <2>2. DOMAIN u \in SUBSET Instances
    BY <1>1, <1>3
  <2> HIDE DEF u
  <2>3. u \in [DOMAIN u -> Access]
    BY <2>1, <1>4
  <2>4. QED  BY <2>2, <2>3, MapsAre
<1> HIDE DEF u
<1>6. ASSUME NEW m \in (A \cup B) \ Ports
      PROVE  Owner(m) \in DOMAIN u /\ Own(m) <= u[Owner(m)]
  <2>1. Own(m) \in Int
    BY GraphFacts, <1>2
  <2>2. CASE m \in A
    <3>1. Owner(m) \in DOMAIN s /\ Own(m) <= s[Owner(m)] /\ s[Owner(m)] \in Int
      BY <2>2, <1>1, <1>2 DEF IsUses
    <3>2. Owner(m) \in DOMAIN u /\ s[Owner(m)] <= u[Owner(m)] /\ u[Owner(m)] \in Int
      BY <3>1, <1>2, <1>3, <1>4 DEF At
    <3>3. QED  BY <2>1, <3>1, <3>2
  <2>3. CASE m \in B
    <3>1. Owner(m) \in DOMAIN t /\ Own(m) <= t[Owner(m)] /\ t[Owner(m)] \in Int
      BY <2>3, <1>1, <1>2 DEF IsUses
    <3>2. Owner(m) \in DOMAIN u /\ t[Owner(m)] <= u[Owner(m)] /\ u[Owner(m)] \in Int
      BY <3>1, <1>2, <1>3, <1>4 DEF At
    <3>3. QED  BY <2>1, <3>1, <3>2
  <2>4. QED  BY <2>2, <2>3
<1>7. \A i \in DOMAIN u : \E m \in (A \cup B) \ Ports : Owner(m) = i /\ Own(m) = u[i]
  <2>1. SUFFICES ASSUME NEW i \in DOMAIN u
                 PROVE \E m \in (A \cup B) \ Ports : Owner(m) = i /\ Own(m) = u[i]
    OBVIOUS
  <2>2. CASE i \in DOMAIN s /\ u[i] = s[i]
    BY <2>2 DEF IsUses
  <2>3. CASE i \in DOMAIN t /\ u[i] = t[i]
    BY <2>3 DEF IsUses
  <2>4. QED  BY <2>2, <2>3, <1>4
<1>8. QED  BY <1>5, <1>6, <1>7 DEF IsUses, u

LEMMA InsertedUses ==
  ASSUME GoodGraph, NEW s, NEW A \in SUBSET Node, IsUses(s, A), NEW n \in Node \ Ports
  PROVE  IsUses(Inserted(s, Owner(n), Own(n)), A \cup {n})
<1> DEFINE u == Inserted(s, Owner(n), Own(n))
           t == [i \in {Owner(n)} |-> Own(n)]
<1>1. Owner(n) \in Instances /\ Own(n) \in Access
  BY GraphFacts
<1>2. IsUses(t, {n})
  <2>1. t \in Maps
    <3>1. DOMAIN t = {Owner(n)} /\ t \in [{Owner(n)} -> Access] /\ {Owner(n)} \in SUBSET Instances
      BY <1>1
    <3> HIDE DEF t
    <3>2. QED  BY <3>1 DEF Maps
  <2>2. Own(n) <= Own(n)
    BY <1>1 DEF Access, None, Write
  <2>3. QED  BY <2>1, <2>2 DEF IsUses
<1>3. \A i \in DOMAIN s : s[i] \in Access
  BY MapsAre DEF IsUses
<1>4. Union(s, t) = u
  <2>1. DOMAIN s \cup DOMAIN t = DOMAIN s \cup {Owner(n)}
    OBVIOUS
  <2>2. ASSUME NEW i \in DOMAIN s \cup {Owner(n)}
        PROVE  Larger(At(s, i), At(t, i)) = IF i = Owner(n) THEN Larger(At(s, Owner(n)), Own(n)) ELSE s[i]
    <3>1. CASE i = Owner(n)
      BY <3>1 DEF At
    <3>2. CASE i # Owner(n)
      <4>1. At(s, i) = s[i] /\ At(t, i) = None /\ s[i] \in Access
        BY <3>2, <1>3 DEF At
      <4>2. QED  BY <4>1, <3>2 DEF Larger, None, Access, Write
    <3>3. QED  BY <3>1, <3>2
  <2>3. QED  BY <2>1, <2>2 DEF Union, Inserted
<1>5. {n} \in SUBSET Node
  OBVIOUS
<1> HIDE DEF u, t
<1>6. QED  BY <1>2, <1>4, <1>5, UnionUses DEF u

LEMMA NothingUses == IsUses(Nowhere, {})
<1>1. DOMAIN Nowhere = {} /\ Nowhere \in [{} -> Access]
  BY DEF Nowhere
<1>2. Nowhere \in Maps
  BY <1>1 DEF Maps
<1>3. QED  BY <1>1, <1>2 DEF IsUses

-----------------------------------------------------------------------------
(* What elaborate () has built does not change any more.                   *)
LEMMA Still ==
  ASSUME UNCHANGED <<program, graph>>
  PROVE  /\ Node' = Node /\ Activations' = Activations /\ Checks' = Checks
         /\ GoodGraph' = GoodGraph /\ PreconditionUses' = PreconditionUses
         /\ \A n : /\ Reach(n)' = Reach(n) /\ Recursive(n)' = Recursive(n)
                   /\ Own(n)' = Own(n) /\ Uses(n)' = Uses(n) /\ Writes(n)' = Writes(n)
                   /\ Concurrent(n)' = Concurrent(n)
         /\ \A s, ns : IsUses(s, ns)' = IsUses(s, ns)
         /\ Cycle' = Cycle /\ Concurrency' = Concurrency
<1>1. program' = program /\ nodes' = nodes /\ precondition_nodes' = precondition_nodes
      /\ mutable_phase_access' = mutable_phase_access
  BY DEF graph
<1>2. Node' = Node /\ Activations' = Activations /\ Checks' = Checks
  BY <1>1 DEF Node, Activations, Checks
<1>3. GoodGraph' = GoodGraph
  BY <1>1 DEF GoodGraph, Activations
<1>4. PreconditionUses' = PreconditionUses
  BY <1>1 DEF PreconditionUses
<1>5. \A n : Reach(n)' = Reach(n) /\ Recursive(n)' = Recursive(n)
  BY <1>1 DEF Reach, Recursive
<1>6. \A n : Own(n)' = Own(n)
  BY <1>1 DEF Own
<1>7. \A n : Doers(n)' = Doers(n)
  BY <1>5 DEF Doers
<1>8. \A n : Uses(n)' = Uses(n)
  BY <1>6, <1>7 DEF Uses
<1>9. \A n : Writes(n)' = Writes(n)
  BY <1>8 DEF Writes
<1>10. \A n : Concurrent(n)' = Concurrent(n)
  BY <1>1, <1>2, <1>9 DEF Concurrent
<1>11. \A s, ns : IsUses(s, ns)' = IsUses(s, ns)
  BY <1>6 DEF IsUses
<1>12. Cycle' = Cycle /\ Concurrency' = Concurrency
  BY <1>5, <1>10 DEF Cycle, Concurrency
<1>13. QED  BY <1>2, <1>3, <1>4, <1>5, <1>6, <1>8, <1>9, <1>10, <1>11, <1>12

-----------------------------------------------------------------------------
(* A set that is computed or partly computed stays so in a step that       *)
(* leaves it alone.                                                        *)
LEMMA StillKnown ==
  ASSUME UNCHANGED <<program, graph>>, NEW n, Known(n),
         instance_set'[n] = instance_set[n],
         \A c \in ToSet(nodes[n]) : instance_set_computed[c] => instance_set_computed'[c]
  PROVE  Known(n)'
<1>1. /\ nodes' = nodes /\ Reach(n)' = Reach(n) /\ \A m : Concurrent(m)' = Concurrent(m)
      /\ \A s, ns : IsUses(s, ns)' = IsUses(s, ns)
  BY Still DEF graph
<1>2. IsUses(instance_set[n], Reach(n))'
  BY <1>1 DEF Known
<1>3. \A m \in Reach(n)' : ~Concurrent(m)'
  BY <1>1 DEF Known
<1>4. QED  BY <1>1, <1>2, <1>3 DEF Known

LEMMA StillPartial ==
  ASSUME UNCHANGED <<program, graph>>, NEW n, NEW k, Partial(n, k),
         instance_set'[n] = instance_set[n],
         \A j \in 1 .. k - 1 : instance_set_computed[nodes[n][j]] => instance_set_computed'[nodes[n][j]]
  PROVE  Partial(n, k)'
<1>1. /\ nodes' = nodes /\ \A m : Reach(m)' = Reach(m) /\ Checks' = Checks
      /\ \A m : Writes(m)' = Writes(m)
      /\ \A s, ns : IsUses(s, ns)' = IsUses(s, ns)
  BY Still DEF graph
<1>2. ReachBefore(n, k)' = ReachBefore(n, k)
  BY <1>1 DEF ReachBefore
<1>3. IsUses(instance_set[n], ReachBefore(n, k))'
  BY <1>1, <1>2 DEF Partial
<1>4. \A j \in 1 .. k - 1 : instance_set_computed'[nodes'[n][j]]
  BY <1>1 DEF Partial
<1>5. n \in Checks' => \A i, j \in 1 .. k - 1 :
        i < j => Writes(nodes[n][i])' \cap Writes(nodes[n][j])' = {}
  BY <1>1 DEF Partial
<1>6. QED  BY <1>3, <1>4, <1>5 DEF Partial

(* The composer ends, for a good reason.                                   *)
LEMMA EndIInv ==
  ASSUME IInv, NEW v \in Verdicts, End(v), verdict = "none",
         v = "accepted" => phase = "sets" /\ todo = <<>>,
         v \in {"E72", "overflow"} => Cycle,
         v \in {"E120", "E137", "E138"} => Concurrency
  PROVE  IInv'
<1>1. /\ UNCHANGED <<program, graph>> /\ verdict' = v
      /\ phase' = phase /\ todo' = todo /\ nodes' = nodes /\ instance_set' = instance_set
      /\ instance_set_computed' = instance_set_computed /\ state' = state
      /\ linked_instances' = linked_instances /\ frames' = frames
  BY DEF End, graph, sets
<1>2. /\ GoodGraph' /\ Node' = Node /\ PreconditionUses' = PreconditionUses
      /\ \A n : Reach(n)' = Reach(n) /\ Recursive(n)' = Recursive(n)
      /\ Cycle' = Cycle /\ Concurrency' = Concurrency
  BY <1>1, Still DEF IInv
<1>3. Shape'
  BY <1>1, <1>2 DEF IInv, Shape, TodoType, FrameType
<1>4. Early'
  BY <1>1, <1>2 DEF IInv, Early
<1>5. Path'
  BY <1>1, <1>2 DEF IInv, Path
<1>6. Computing'
  <2>1. ASSUME NEW n \in Node, instance_set_computed[n]  PROVE Known(n)'
    BY <1>1, <2>1, StillKnown DEF IInv, Computing
  <2>2. ASSUME InSets, NEW k \in 1 .. Len(frames)  PROVE Partial(frames[k].node, frames[k].next)'
    <3>1. Partial(frames[k].node, frames[k].next)
      BY <2>2 DEF IInv, Computing
    <3> DEFINE n == frames[k].node
               j == frames[k].next
    <3>2. ASSUME NEW m, NEW l, Partial(m, l)  PROVE Partial(m, l)'
      BY <1>1, <3>2, StillPartial
    <3>3. QED  BY <3>1, <3>2, <1>1
  <2>3. QED  BY <1>1, <1>2, <2>1, <2>2 DEF IInv, Computing, InSets
<1>7. Colouring'
  BY <1>1, <1>2 DEF IInv, Colouring
<1>8. Linked'
  BY <1>1, <1>2 DEF IInv, Linked, Linking
<1>9. Verdict'
  BY <1>1, <1>2 DEF IInv, Verdict
<1>10. QED  BY <1>2, <1>3, <1>4, <1>5, <1>6, <1>7, <1>8, <1>9 DEF IInv
-----------------------------------------------------------------------------
(* Before the instance sets: the graph is built, nothing else is known.    *)
Building == {"getters", "actions", "reactions", "bindings"}
Nothing == \A n \in Node : /\ instance_set[n] = Nowhere /\ ~instance_set_computed[n]
                          /\ state[n] = "unmarked"

(* The invariant while the graph is built.                                 *)
LEMMA BuildingIInv ==
  ASSUME GoodGraph', Shape', Nothing', phase' \in Building, frames' = <<>>, verdict' = "none",
         \A i \in Instances : linked_instances'[i] = {}
  PROVE  IInv'
<1>1. Len(frames') = 0
  BY EmptySeq
<1>2. Path'
  BY <1>1 DEF Path
<1>3. Computing' /\ Early'
  BY DEF Computing, Early, Nothing, Building, InSets
<1>4. Colouring'
  BY DEF Colouring, Nothing, Building
<1>5. Linked' /\ Verdict'
  BY DEF Linked, Verdict, Building
<1>6. QED  BY <1>2, <1>3, <1>4, <1>5 DEF IInv

(* The loops are over finite sets.                                         *)
LEMMA FixedFinite ==
  /\ IsFiniteSet(Actions) /\ IsFiniteSet(Reactions) /\ IsFiniteSet(Getters)
  /\ \A S : S \subseteq Callables \cup Ports => IsFiniteSet(S)
  /\ Pulled \cap PushPorts = {} /\ Pulled \cap Transitions = {}
<1>1. \A S : S \subseteq Callables \cup Ports => IsFiniteSet(S)
  BY NodesAssumption, FS_Subset
<1>2. Actions \subseteq Callables /\ Reactions \subseteq Callables /\ Getters \subseteq Callables
  BY DEF Callables, Transitions
<1>3. Pulled \cap PushPorts = {} /\ Pulled \cap Transitions = {}
  BY NodesAssumption DEF Pulled, Callables, Ports
<1>4. QED  BY <1>1, <1>2, <1>3

LEMMA PairsFinite ==
  ASSUME GoodGraph
  PROVE  IsFiniteSet(PreconditionUses)
<1>1. IsFiniteSet(Actions) /\ IsFiniteSet(Getters \cup PullPorts)
  BY FixedFinite DEF Callables, Ports
<1>2. IsFiniteSet(Actions \X (Getters \cup PullPorts))
  BY <1>1, FS_Product
<1>3. QED  BY <1>2, FS_Subset DEF PreconditionUses

(* It holds in the beginning.                                              *)
LEMMA InitIInv == Init => IInv
<1> SUFFICES ASSUME Init  PROVE IInv
  OBVIOUS
<1>1. Activations = {}
  BY DEF Init, Activations
<1>2. Node = Fixed
  BY DEF Init, Node, Fixed
<1>3. GoodGraph
  <2>1. nodes \in [Fixed \cup Activations -> Seq(Fixed \cup Activations)]
    BY <1>1, EmptySeq DEF Init, Fixed
  <2>2. Pulled \subseteq Fixed /\ Actions \subseteq Fixed
    BY DEF Pulled, Fixed, Callables, Ports, Transitions
  <2>3. \A n \in Fixed : nodes[n] = <<>>
    BY DEF Init, Fixed
  <2>4. ToSet(<<>>) = {}
    BY DEF ToSet
  <2>5. precondition_nodes \in [Actions -> Seq(Pulled)] /\ \A a \in Actions : precondition_nodes[a] = <<>>
    BY EmptySeq DEF Init
  <2>6. mutable_phase_access \in [Activations -> Access]
    BY <1>1 DEF Init
  <2>7. Activations \subseteq Callables \X Nat /\ IsFiniteSet(Activations)
    BY <1>1, FS_EmptySet
  <2>8. program \in Programs
    BY DEF Init
  <2>9. QED  BY <2>1, <2>2, <2>3, <2>4, <2>5, <2>6, <2>7, <2>8 DEF GoodGraph
<1>4. Nothing /\ \A i \in Instances : linked_instances[i] = {}
  BY <1>2 DEF Init, Nothing, Fixed
<1>5. Shape
  <2>1. todo \in Seq(Getters)
    BY FixedFinite, SetToSeqHasAll DEF Init
  <2>2. Nowhere \in Maps
    BY NothingUses DEF IsUses
  <2>3. frames \in Seq(FrameType)
    BY EmptySeq DEF Init
  <2>4. phase \in Phases /\ verdict \in Verdicts /\ TodoType = Getters
    BY DEF Init, Phases, Verdicts, TodoType
  <2>5. /\ instance_set \in [Node -> Maps] /\ instance_set_computed \in [Node -> BOOLEAN]
        /\ state \in [Node -> {"unmarked", "temporary", "marked"}]
        /\ linked_instances \in [Instances -> SUBSET Instances]
    BY <1>2, <2>2 DEF Init, Fixed
  <2>6. QED  BY <2>1, <2>3, <2>4, <2>5 DEF Shape
<1>6. phase \in Building /\ frames = <<>> /\ verdict = "none" /\ Len(frames) = 0
  BY EmptySeq DEF Init, Building
<1>7. Path /\ Computing /\ Early
  BY <1>4, <1>6 DEF Path, Computing, Early, Nothing, Building, InSets
<1>8. Colouring /\ Linked /\ Verdict
  BY <1>4, <1>6 DEF Colouring, Nothing, Building, Linked, Verdict
<1>9. QED  BY <1>3, <1>5, <1>7, <1>8 DEF IInv

(* What is known while the graph is built.                                 *)
LEMMA InBuilding ==
  ASSUME IInv, phase \in Building
  PROVE  /\ Nothing /\ frames = <<>> /\ \A i \in Instances : linked_instances[i] = {}
BY DEF IInv, Building, Early, Nothing

(* The visit of an action, reaction or getter keeps the invariant, and     *)
(* what the precondition of an action calls is among its outgoing nodes.   *)
LEMMA ElaborateIInv ==
  ASSUME IInv, NEW n \in Callables, NEW items \in Seq(Item), n \in Getters => items \in Seq(Calling),
         phase \in {"getters", "actions", "reactions"}, verdict = "none", todo # <<>>,
         Elaborate(n, items),
         \/ UNCHANGED precondition_nodes
         \/ /\ n \in Actions
            /\ \E s \in Seq(Pulled) : precondition_nodes' = [precondition_nodes EXCEPT ![n] = s]
            /\ \A k \in 1 .. Len(precondition_nodes'[n]) :
                 \E j \in 1 .. Len(items) : items[j].what = "call" /\ items[j].of = precondition_nodes'[n][k]
  PROVE  IInv'
<1> DEFINE g == [nodes |-> nodes, access |-> mutable_phase_access, count |-> 0]
           h == Elaborated(g, n, items)
<1>1. GoodGraph /\ Shape /\ phase \in Building
  BY DEF IInv, Building
<1>2. GoodElaboration(g)
  BY <1>1 DEF GoodElaboration, GoodGraph, Activations
<1>3. /\ GoodElaboration(h)
      /\ \A m \in Callables : ToSet(g.nodes[m]) \subseteq ToSet(h.nodes[m])
      /\ \A j \in 1 .. Len(items) : items[j].what = "call" => items[j].of \in ToSet(h.nodes[n])
  BY <1>2, ElaboratedGood
<1>4. /\ nodes' = h.nodes /\ mutable_phase_access' = h.access
      /\ instance_set' = [m \in DOMAIN h.nodes |-> Nowhere]
      /\ instance_set_computed' = [m \in DOMAIN h.nodes |-> FALSE]
      /\ state' = [m \in DOMAIN h.nodes |-> "unmarked"]
      /\ todo' = Tail(todo)
      /\ UNCHANGED <<program, phase, linked_instances, frames, verdict>>
  BY DEF Elaborate
<1>5. g.nodes = nodes
  OBVIOUS
<1> HIDE DEF g, h
<1>6. Activations' = DOMAIN h.access /\ Node' = Fixed \cup DOMAIN h.access
  BY <1>3, <1>4 DEF Activations, Node, GoodElaboration
<1>7. \A a \in Actions : a \in Callables
  BY DEF Callables, Transitions
<1>8. precondition_nodes' \in [Actions -> Seq(Pulled)]
  BY <1>1 DEF GoodGraph
<1>9. ASSUME NEW a \in Actions
      PROVE  ToSet(precondition_nodes'[a]) \subseteq ToSet(nodes'[a])
  <2>1. ToSet(precondition_nodes[a]) \subseteq ToSet(nodes'[a])
    BY <1>1, <1>3, <1>4, <1>5, <1>7 DEF GoodGraph
  <2>2. CASE precondition_nodes'[a] = precondition_nodes[a]
    BY <2>1, <2>2
  <2>3. CASE precondition_nodes'[a] # precondition_nodes[a]
    <3>1. a = n
      BY <2>3, <1>1 DEF GoodGraph
    <3>2. ASSUME NEW x \in ToSet(precondition_nodes'[a])  PROVE x \in ToSet(nodes'[a])
      <4>1. PICK k \in 1 .. Len(precondition_nodes'[a]) : precondition_nodes'[a][k] = x
        BY <1>8, ToSetOfSeq
      <4>2. PICK j \in 1 .. Len(items) : items[j].what = "call" /\ items[j].of = x
        BY <4>1, <3>1, <2>3
      <4>3. QED  BY <4>2, <3>1, <1>3, <1>4
    <3>3. QED  BY <3>2
  <2>4. QED  BY <2>2, <2>3
<1>10. GoodGraph'
  BY <1>1, <1>3, <1>4, <1>6, <1>8, <1>9 DEF GoodGraph, GoodElaboration
<1>11. Nothing /\ frames = <<>> /\ \A i \in Instances : linked_instances[i] = {}
  BY InBuilding, <1>1
<1>12. Nothing' /\ instance_set' \in [Node' -> Maps] /\ instance_set_computed' \in [Node' -> BOOLEAN]
       /\ state' \in [Node' -> {"unmarked", "temporary", "marked"}]
  <2>1. DOMAIN h.nodes = Node'
    BY <1>3, <1>6 DEF GoodElaboration
  <2>2. Nowhere \in Maps
    BY NothingUses DEF IsUses
  <2>3. QED  BY <2>1, <2>2, <1>4 DEF Nothing
<1>13. Shape'
  <2>1. TodoType' = TodoType /\ todo' \in Seq(TodoType)
    BY <1>1, <1>4, ToSetOfSeq DEF Shape, TodoType
  <2>2. frames' \in Seq(FrameType')
    BY <1>4, <1>11, EmptySeq
  <2>3. QED  BY <1>1, <1>4, <1>12, <2>1, <2>2 DEF Shape
<1>14. phase' \in Building /\ frames' = <<>> /\ verdict' = "none"
       /\ \A i \in Instances : linked_instances'[i] = {}
  BY <1>1, <1>4, <1>11
<1>15. QED  BY <1>10, <1>12, <1>13, <1>14, BuildingIInv

(* What programs are made of.                                              *)
LEMMA ProgramFacts ==
  ASSUME GoodGraph
  PROVE  /\ \A c \in Callables : program.body[c] \in Seq(Item)
         /\ \A g \in Getters : program.body[g] \in Seq(Calling)
         /\ \A a \in Actions : program.precondition[a] \in Seq(Calling)
         /\ program.bindings \in Seq((PushPorts \X Reactions) \cup (PullPorts \X Getters))
<1>1. program \in Program
  BY ProgramsAssumption DEF GoodGraph
<1>2. QED  BY <1>1 DEF Program

LEMMA ElaborateGetterIInv ==
  ASSUME IInv, ElaborateGetter
  PROVE  IInv'
<1> DEFINE g == Head(todo)
<1>1. phase = "getters" /\ verdict = "none" /\ frames = <<>> /\ todo # <<>>
  BY DEF ElaborateGetter, Working, Running
<1>2. todo \in Seq(Getters)
  BY <1>1 DEF IInv, Shape, TodoType
<1>3. g \in Getters /\ g \in Callables
  BY <1>1, <1>2, ToSetOfSeq DEF Callables
<1>4. program.body[g] \in Seq(Item) /\ program.body[g] \in Seq(Calling)
  BY <1>3, ProgramFacts DEF IInv
<1>5. CASE End("aborted")
  BY <1>1, <1>5, EndIInv DEF Verdicts
<1>6. CASE Elaborate(g, program.body[g]) /\ UNCHANGED precondition_nodes
  BY <1>1, <1>3, <1>4, <1>6, ElaborateIInv
<1>7. QED  BY <1>5, <1>6 DEF ElaborateGetter

LEMMA ElaborateReactionIInv ==
  ASSUME IInv, ElaborateReaction
  PROVE  IInv'
<1> DEFINE g == Head(todo)
<1>1. phase = "reactions" /\ verdict = "none" /\ frames = <<>> /\ todo # <<>>
  BY DEF ElaborateReaction, Working, Running
<1>2. todo \in Seq(Reactions)
  BY <1>1 DEF IInv, Shape, TodoType
<1>3. g \in Reactions /\ g \in Callables /\ g \notin Getters
  BY <1>1, <1>2, ToSetOfSeq, NodesAssumption DEF Callables, Transitions
<1>4. program.body[g] \in Seq(Item)
  BY <1>3, ProgramFacts DEF IInv
<1>5. Elaborate(g, program.body[g]) /\ UNCHANGED precondition_nodes
  BY DEF ElaborateReaction
<1>6. QED  BY <1>1, <1>3, <1>4, <1>5, ElaborateIInv

LEMMA ElaborateActionIInv ==
  ASSUME IInv, ElaborateAction
  PROVE  IInv'
<1> DEFINE a == Head(todo)
           p == program.precondition[a]
           items == p \o program.body[a]
           s == [k \in DOMAIN p |-> p[k].of]
<1>1. phase = "actions" /\ verdict = "none" /\ frames = <<>> /\ todo # <<>>
  BY DEF ElaborateAction, Working, Running
<1>2. todo \in Seq(Actions)
  BY <1>1 DEF IInv, Shape, TodoType
<1>3. a \in Actions /\ a \in Callables /\ a \notin Getters
  BY <1>1, <1>2, ToSetOfSeq, NodesAssumption DEF Callables, Transitions
<1>4. p \in Seq(Calling) /\ program.body[a] \in Seq(Item)
  BY <1>3, ProgramFacts DEF IInv
<1>5. p \in Seq(Item)
  BY <1>4, SeqMonotonic DEF Item
<1>6. /\ items \in Seq(Item) /\ Len(items) = Len(p) + Len(program.body[a])
      /\ \A k \in 1 .. Len(p) + Len(program.body[a]) :
           items[k] = IF k <= Len(p) THEN p[k] ELSE program.body[a][k - Len(p)]
  BY <1>4, <1>5, ConcatProperties
<1>7. /\ Elaborate(a, items) /\ precondition_nodes' = [precondition_nodes EXCEPT ![a] = s]
  BY DEF ElaborateAction
<1>8. Len(p) \in Nat /\ DOMAIN p = 1 .. Len(p) /\ Len(program.body[a]) \in Nat
  BY <1>4, LenProperties
<1>9. \A k \in 1 .. Len(p) : p[k].what = "call" /\ p[k].of \in Pulled
  <2>1. \A k \in 1 .. Len(p) : p[k] \in Calling
    BY <1>4, ElementOfSeq
  <2>2. QED  BY <2>1 DEF Calling, Pulled
<1> HIDE DEF a, p, items
<1>10. s \in Seq(Pulled) /\ Len(s) = Len(p)
  BY <1>8, <1>9, IsASeq
<1>11. precondition_nodes'[a] = s
  BY <1>3, <1>7 DEF IInv, GoodGraph
<1>12. \A k \in 1 .. Len(p) :
         k \in 1 .. Len(items) /\ items[k].what = "call" /\ items[k].of = s[k]
  BY <1>6, <1>8, <1>9
<1> HIDE DEF s
<1>13. \A k \in 1 .. Len(precondition_nodes'[a]) :
         \E j \in 1 .. Len(items) : items[j].what = "call" /\ items[j].of = precondition_nodes'[a][k]
  BY <1>10, <1>11, <1>12
<1>14. QED  BY <1>1, <1>3, <1>6, <1>7, <1>10, <1>13, ElaborateIInv

LEMMA BindIInv ==
  ASSUME IInv, Bind
  PROVE  IInv'
<1> DEFINE b == Head(todo)
<1>1. phase = "bindings" /\ verdict = "none" /\ frames = <<>> /\ todo # <<>> /\ phase \in Building
  BY DEF Bind, Working, Running, Building
<1>2. GoodGraph /\ Shape
  BY DEF IInv
<1>3. todo \in Seq((PushPorts \X Reactions) \cup (PullPorts \X Getters))
  BY <1>1, <1>2 DEF Shape, TodoType
<1>4. b \in (PushPorts \X Reactions) \cup (PullPorts \X Getters)
      /\ Tail(todo) \in Seq((PushPorts \X Reactions) \cup (PullPorts \X Getters))
  BY <1>1, <1>3, ToSetOfSeq
<1>5. /\ nodes' = [nodes EXCEPT ![b[1]] = Append(@, b[2])] /\ todo' = Tail(todo)
      /\ UNCHANGED <<program, phase, precondition_nodes, mutable_phase_access, sets, state,
                     linked_instances, frames, verdict>>
  BY DEF Bind
<1>6. b[1] \in Ports /\ b[2] \in Callables /\ (b[1] \in Pulled => b[2] \in Pulled)
  BY <1>4, FixedFinite DEF Ports, Callables, Transitions, Pulled
<1>7. b[1] \in Node /\ b[2] \in Node
  BY <1>2, <1>6, GraphFacts
<1> HIDE DEF b
<1>8. nodes[b[1]] \in Seq(Node) /\ Append(nodes[b[1]], b[2]) \in Seq(Node)
      /\ ToSet(Append(nodes[b[1]], b[2])) = ToSet(nodes[b[1]]) \cup {b[2]}
  BY <1>2, <1>7, GraphFacts, ToSetAppend, AppendProperties
<1>9. Node = Fixed \cup Activations /\ nodes \in [Node -> Seq(Node)]
  BY <1>2, GraphFacts
<1>10. nodes' \in [Node -> Seq(Node)] /\ Activations' = Activations /\ Node' = Node
       /\ \A n \in Node : nodes'[n] = IF n = b[1] THEN Append(nodes[b[1]], b[2]) ELSE nodes[n]
  BY <1>5, <1>8, <1>9 DEF Node, Activations
<1>11. Pulled \subseteq Node /\ Actions \subseteq Node
  BY <1>2, GraphFacts
<1>12. \A a \in Actions : a # b[1]
  BY <1>6, NodesAssumption DEF Callables, Transitions
<1>13. GoodGraph'
  <2>1. \A n \in Pulled : ToSet(nodes'[n]) \subseteq Pulled
    BY <1>2, <1>6, <1>8, <1>10, <1>11 DEF GoodGraph
  <2>2. \A a \in Actions : ToSet(precondition_nodes'[a]) \subseteq ToSet(nodes'[a])
    BY <1>2, <1>5, <1>10, <1>11, <1>12 DEF GoodGraph
  <2>3. QED  BY <1>2, <1>5, <1>9, <1>10, <2>1, <2>2 DEF GoodGraph
<1>14. Nothing /\ \A i \in Instances : linked_instances[i] = {}
  BY <1>1, InBuilding
<1>15. Nothing'
  BY <1>5, <1>10, <1>14 DEF Nothing, sets
<1>16. Shape'
  <2>1. todo' \in Seq(TodoType')
    BY <1>1, <1>4, <1>5 DEF TodoType
  <2>2. frames' \in Seq(FrameType')
    BY <1>1, <1>5, EmptySeq
  <2>3. QED  BY <1>2, <1>5, <1>10, <2>1, <2>2 DEF Shape, sets
<1>17. QED  BY <1>1, <1>5, <1>13, <1>14, <1>15, <1>16, BuildingIInv

-----------------------------------------------------------------------------
(* A step that calls nothing: only the phase, what is left to do and the   *)
(* links change.                                                           *)
LEMMA PhaseIInv ==
  ASSUME IInv, verdict = "none", verdict' = "none", frames = <<>>,
         UNCHANGED <<program, graph, sets, state, frames>>,
         phase' \in Phases, todo' \in Seq(TodoType'),
         phase' \in Building => phase \in Building,
         phase' \notin {"cycles", "sets"} => phase \notin {"cycles", "sets"},
         linked_instances' \in [Instances -> SUBSET Instances],
         phase' \in Building => \A i \in Instances : linked_instances'[i] = {},
         Linked',
         phase' = "cycles" => \A a \in Actions : state[a] = "marked" \/ a \in ToSet(todo'),
         phase' = "sets" => \A a \in Actions :
           state[a] = "marked" /\ (instance_set_computed[a] \/ a \in ToSet(todo'))
  PROVE  IInv'
<1>1. /\ UNCHANGED <<program, graph>>
      /\ nodes' = nodes /\ instance_set' = instance_set
      /\ instance_set_computed' = instance_set_computed /\ state' = state /\ frames' = frames
  BY DEF graph, sets
<1>2. /\ GoodGraph' /\ Node' = Node
      /\ \A n : Reach(n)' = Reach(n) /\ Recursive(n)' = Recursive(n)
  BY <1>1, Still DEF IInv
<1>3. Len(frames) = 0
  BY EmptySeq
<1>4. Shape'
  BY <1>1, <1>2, EmptySeq DEF IInv, Shape, Verdicts
<1>5. Early'
  BY <1>1, <1>2 DEF IInv, Early, Building
<1>6. Path'
  BY <1>1, <1>3 DEF Path
<1>7. Computing'
  <2>1. ASSUME NEW n \in Node, instance_set_computed[n]  PROVE Known(n)'
    BY <1>1, <2>1, StillKnown DEF IInv, Computing
  <2>2. \A n \in Node : instance_set_computed[n] \/ instance_set[n] = Nowhere
    BY <1>3 DEF IInv, Computing
  <2>3. QED  BY <1>1, <1>2, <1>3, <2>1, <2>2 DEF Computing
<1>8. Colouring'
  BY <1>1, <1>2, <1>3 DEF IInv, Colouring
<1>9. Verdict'
  BY <1>1, <1>2 DEF Verdict
<1>10. QED  BY <1>2, <1>4, <1>5, <1>6, <1>7, <1>8, <1>9 DEF IInv

(* From function to function: what one has established the next needs.     *)
LEMMA ContinueIInv ==
  ASSUME IInv, Continue
  PROVE  IInv'
<1>1. /\ verdict = "none" /\ phase \notin {"structure", "sets"} /\ frames = <<>> /\ todo = <<>>
      /\ phase' = After(phase) /\ todo' = Work(phase')
      /\ UNCHANGED <<program, graph, sets, state, linked_instances, frames, verdict>>
  BY DEF Continue
<1>2. GoodGraph /\ Shape
  BY DEF IInv
<1>3. /\ GoodGraph' /\ PreconditionUses' = PreconditionUses
      /\ instance_set' = instance_set /\ instance_set_computed' = instance_set_computed
  BY <1>1, <1>2, Still DEF sets
<1>4. \A x : x \notin ToSet(todo)
  BY <1>1 DEF ToSet
<1>5. IsFiniteSet(Actions) /\ IsFiniteSet(Reactions) /\ IsFiniteSet(PreconditionUses)
  BY <1>2, FixedFinite, PairsFinite
<1>6. CASE phase \in {"getters", "actions", "reactions"}
  <2>1. phase' \in Building /\ phase \in Building
    BY <1>1, <1>6 DEF After, Building
  <2>2. todo' \in Seq(TodoType')
    <3>1. CASE phase = "getters"
      BY <3>1, <1>1, <1>5, SetToSeqHasAll DEF After, Work, TodoType
    <3>2. CASE phase = "actions"
      BY <3>2, <1>1, <1>5, SetToSeqHasAll DEF After, Work, TodoType
    <3>3. CASE phase = "reactions"
      BY <3>3, <1>1, <1>2, ProgramFacts DEF After, Work, TodoType
    <3>4. QED  BY <1>6, <3>1, <3>2, <3>3
  <2>3. phase' \in Phases /\ phase' \notin {"links", "structure", "cycles", "sets"}
    BY <2>1 DEF Building, Phases
  <2>4. Linked'
    BY <2>3 DEF Linked
  <2>5. \A i \in Instances : linked_instances[i] = {}
    BY <2>1, InBuilding
  <2>6. linked_instances' \in [Instances -> SUBSET Instances]
    BY <1>1, <1>2 DEF Shape
  <2>7. QED  BY <1>1, <2>1, <2>2, <2>3, <2>4, <2>5, <2>6, PhaseIInv DEF Building
<1>7. CASE phase = "bindings"
  <2>1. phase' = "links" /\ phase \in Building /\ todo' = SetToSeq(PreconditionUses)
    BY <1>1, <1>7 DEF After, Building, Work
  <2>2. todo' \in Seq(PreconditionUses) /\ ToSet(todo') = PreconditionUses
    BY <2>1, <1>5, SetToSeqHasAll
  <2>3. todo' \in Seq(TodoType')
    BY <2>1, <2>2, <1>3 DEF TodoType
  <2>4. \A i \in Instances : linked_instances'[i] = {}
    BY <2>1, <1>1, InBuilding
  <2>5. Linking({})'
    BY <2>1, <2>2, <2>4, <1>3 DEF Linking
  <2>6. Linked'
    BY <2>5 DEF Linked
  <2>7. linked_instances' \in [Instances -> SUBSET Instances]
    BY <1>1, <1>2 DEF Shape
  <2>8. QED  BY <1>1, <2>1, <2>3, <2>6, <2>7, PhaseIInv DEF Building, Phases
<1>8. CASE phase = "links"
  <2>1. phase' = "structure" /\ todo' = <<>>
    BY <1>1, <1>8 DEF After, Work
  <2>2. todo' \in Seq(TodoType')
    BY <2>1, EmptySeq
  <2>3. PICK L \in SUBSET PreconditionUses : Linking(L)
    BY <1>8 DEF IInv, Linked
  <2>4. Linking(L)'
    BY <2>1, <2>3, <1>1, <1>3, <1>4 DEF Linking
  <2>5. Linked'
    BY <2>3, <2>4, <1>3 DEF Linked
  <2>6. linked_instances' \in [Instances -> SUBSET Instances]
    BY <1>1, <1>2 DEF Shape
  <2>7. QED  BY <1>1, <1>8, <2>1, <2>2, <2>5, <2>6, PhaseIInv DEF Building, Phases
<1>9. CASE phase = "cycles"
  <2>1. phase' = "sets" /\ todo' = SetToSeq(Actions)
    BY <1>1, <1>9 DEF After, Work
  <2>2. todo' \in Seq(TodoType') /\ ToSet(todo') = Actions
    BY <2>1, <1>5, SetToSeqHasAll DEF TodoType
  <2>3. PICK L \in SUBSET PreconditionUses : Linking(L)
    BY <1>9 DEF IInv, Linked
  <2>4. Linking(L)'
    BY <2>1, <2>3, <1>1, <1>3, <1>9 DEF Linking
  <2>5. Linked'
    BY <2>3, <2>4, <1>3 DEF Linked
  <2>6. linked_instances' \in [Instances -> SUBSET Instances]
    BY <1>1, <1>2 DEF Shape
  <2>7. \A a \in Actions : state[a] = "marked"
    BY <1>4, <1>9 DEF IInv, Colouring
  <2>8. QED  BY <1>1, <1>9, <2>1, <2>2, <2>5, <2>6, <2>7, PhaseIInv DEF Building, Phases
<1>10. phase \in Phases
  BY <1>2 DEF Shape
<1>11. QED  BY <1>1, <1>6, <1>7, <1>8, <1>9, <1>10 DEF Phases

(* The checks of the bindings.                                             *)
LEMMA CheckStructureIInv ==
  ASSUME IInv, CheckStructure
  PROVE  IInv'
<1>1. verdict = "none" /\ phase = "structure" /\ frames = <<>>
  BY DEF CheckStructure, Running, IInv, Early
<1>2. CASE End("E71")
  BY <1>1, <1>2, EndIInv DEF Verdicts
<1>3. CASE End("E118")
  BY <1>1, <1>3, EndIInv DEF Verdicts
<1>4. CASE End("E119")
  BY <1>1, <1>4, EndIInv DEF Verdicts
<1>5. CASE /\ phase' = After(phase) /\ todo' = Work(phase')
           /\ UNCHANGED <<program, graph, sets, state, linked_instances, frames, verdict>>
  <2>1. phase' = "cycles" /\ todo' = SetToSeq(Actions)
    BY <1>1, <1>5 DEF After, Work
  <2>2. todo' \in Seq(TodoType') /\ ToSet(todo') = Actions
    BY <2>1, FixedFinite, SetToSeqHasAll DEF TodoType
  <2>3. PICK L \in SUBSET PreconditionUses : Linking(L)
    BY <1>1 DEF IInv, Linked
  <2>4. PreconditionUses' = PreconditionUses
        /\ instance_set' = instance_set /\ instance_set_computed' = instance_set_computed
    BY <1>5, Still DEF sets
  <2>5. Linking(L)'
    BY <2>1, <2>3, <2>4, <1>1, <1>5 DEF Linking
  <2>6. Linked'
    BY <2>3, <2>4, <2>5 DEF Linked
  <2>7. linked_instances' \in [Instances -> SUBSET Instances]
    BY <1>5 DEF IInv, Shape
  <2>8. QED  BY <1>1, <1>5, <2>1, <2>2, <2>6, <2>7, PhaseIInv DEF Building, Phases
<1>6. QED  BY <1>2, <1>3, <1>4, <1>5 DEF CheckStructure

-----------------------------------------------------------------------------
(* The recursion: frames is a path in the graph from an action.            *)
LEMMA FramesAre ==
  ASSUME IInv
  PROVE  /\ Len(frames) \in Nat /\ DOMAIN frames = 1 .. Len(frames)
         /\ \A k \in 1 .. Len(frames) :
              /\ frames[k] \in FrameType /\ frames[k].node \in Node /\ frames[k].next \in Nat \ {0}
              /\ frames[k] = [node |-> frames[k].node, next |-> frames[k].next]
              /\ nodes[frames[k].node] \in Seq(Node) /\ Len(nodes[frames[k].node]) \in Nat
         /\ frames # <<>> => /\ Len(frames) \in 1 .. Len(frames)
                             /\ Top = frames[Len(frames)]
<1>1. frames \in Seq(FrameType)
  BY DEF IInv, Shape
<1>2. Len(frames) \in Nat /\ DOMAIN frames = 1 .. Len(frames)
  BY <1>1, LenProperties
<1>3. ASSUME NEW k \in 1 .. Len(frames)
      PROVE  /\ frames[k] \in FrameType /\ frames[k].node \in Node /\ frames[k].next \in Nat \ {0}
             /\ frames[k] = [node |-> frames[k].node, next |-> frames[k].next]
             /\ nodes[frames[k].node] \in Seq(Node) /\ Len(nodes[frames[k].node]) \in Nat
  <2>1. frames[k] \in FrameType
    BY <1>1, ElementOfSeq
  <2>2. frames[k].node \in Node /\ frames[k].next \in Nat \ {0}
        /\ frames[k] = [node |-> frames[k].node, next |-> frames[k].next]
    BY <2>1 DEF FrameType
  <2>3. nodes[frames[k].node] \in Seq(Node)
    BY <2>2, GraphFacts DEF IInv
  <2>4. QED  BY <2>1, <2>2, <2>3, LenProperties
<1>4. frames # <<>> => Len(frames) \in 1 .. Len(frames)
  BY <1>1, <1>2, EmptySeq
<1>5. QED  BY <1>2, <1>3, <1>4 DEF Top

(* A call for a node is reached from every call below it.                  *)
LEMMA OnPath ==
  ASSUME IInv
  PROVE  /\ \A j, k \in 1 .. Len(frames) : j <= k => frames[k].node \in Reach(frames[j].node)
         /\ frames # <<>> => \E a \in Actions : Top.node \in Reach(a)
<1>1. Len(frames) \in Nat /\ \A k \in 1 .. Len(frames) :
         frames[k].node \in Node /\ frames[k].next \in Nat \ {0} /\ nodes[frames[k].node] \in Seq(Node)
  BY FramesAre
<1>2. ASSUME NEW j \in 1 .. Len(frames)
      PROVE  \A k \in 1 .. Len(frames) : j <= k => frames[k].node \in Reach(frames[j].node)
  <2> DEFINE Bad == {k \in 1 .. Len(frames) : j <= k /\ frames[k].node \notin Reach(frames[j].node)}
  <2>1. SUFFICES ASSUME Bad # {}  PROVE FALSE
    OBVIOUS
  <2>2. Bad \in SUBSET Nat
    OBVIOUS
  <2>3. PICK m \in Bad : \A k \in Bad : m <= k
    <3> HIDE DEF Bad
    <3>1. QED  BY <2>1, <2>2, LeastNat
  <2>4. m # j
    BY <1>1, <2>3, ReachFacts DEF IInv
  <2>5. m - 1 \in 1 .. Len(frames) - 1 /\ m - 1 \in 1 .. Len(frames) /\ j <= m - 1 /\ (m - 1) + 1 = m
    BY <1>1, <2>3, <2>4
  <2>6. frames[m - 1].node \in Reach(frames[j].node)
    <3>1. m - 1 \notin Bad
      <4>1. m \in Nat /\ ~(m <= m - 1)
        BY <2>2, <2>3
      <4> HIDE DEF Bad
      <4>2. QED  BY <4>1, <2>3
    <3>2. QED  BY <3>1, <2>5
  <2> DEFINE n == frames[m - 1].node
             x == frames[m - 1].next
  <2>7. x <= Len(nodes[n]) /\ frames[m].node = nodes[n][x]
    BY <2>5 DEF IInv, Path
  <2>8. x \in 1 .. Len(nodes[n]) /\ n \in Node /\ nodes[n] \in Seq(Node)
    BY <2>5, <2>7, <1>1, LenProperties
  <2>9. frames[m].node \in ToSet(nodes[n])
    BY <2>7, <2>8, ToSetOfSeq
  <2> HIDE DEF n, x
  <2>10. frames[m].node \in Reach(n) /\ Reach(n) \subseteq Reach(frames[j].node)
    BY <2>6, <2>8, <2>9, <1>1, ReachFacts DEF IInv, n
  <2>11. QED  BY <2>3, <2>10
<1>3. ASSUME frames # <<>>
      PROVE  \E a \in Actions : Top.node \in Reach(a)
  <2>1. 1 \in 1 .. Len(frames) /\ Len(frames) \in 1 .. Len(frames) /\ Top = frames[Len(frames)]
    BY <1>3, FramesAre
  <2>2. PICK a \in Actions : frames[1].node \in Reach(a)
    BY <1>3 DEF IInv, Path
  <2>3. a \in Node
    BY GraphFacts DEF IInv
  <2>4. Top.node \in Reach(frames[1].node)
    BY <2>1, <1>1, <1>2
  <2>5. QED  BY <2>2, <2>3, <2>4, ReachFacts DEF IInv
<1>4. QED  BY <1>2, <1>3

LEMMA ChildIs ==
  ASSUME IInv, frames # <<>>, AtChild
  PROVE  /\ Top.next \in 1 .. Len(nodes[Top.node]) /\ Top.node \in Node
         /\ TheChild \in ToSet(nodes[Top.node]) /\ TheChild \in Node
         /\ TheChild = nodes[Top.node][Top.next]
<1>1. /\ Top.node \in Node /\ Top.next \in Nat \ {0} /\ nodes[Top.node] \in Seq(Node)
      /\ Len(nodes[Top.node]) \in Nat
  BY FramesAre
<1>2. Top.next \in 1 .. Len(nodes[Top.node])
  BY <1>1 DEF AtChild
<1>3. QED  BY <1>1, <1>2, ToSetOfSeq DEF TheChild

(* A child that is being computed already closes a cycle.                  *)
LEMMA OnCycle ==
  ASSUME IInv, frames # <<>>, AtChild, NEW k \in 1 .. Len(frames), frames[k].node = TheChild
  PROVE  Cycle
<1>1. Top.node \in Reach(TheChild)
  BY OnPath, FramesAre
<1>2. TheChild \in ToSet(nodes[Top.node]) /\ Top.node \in Node
  BY ChildIs
<1>3. Recursive(Top.node)
  BY <1>1, <1>2, ReachFacts DEF IInv
<1>4. QED  BY <1>3, OnPath DEF Cycle

-----------------------------------------------------------------------------
(* The path after a call, after a return and after a child is done.        *)
LEMMA PathPush ==
  ASSUME IInv, UNCHANGED <<program, graph>>, NEW n \in Node,
         frames' = Append(frames, [node |-> n, next |-> 1]),
         \A k \in 1 .. Len(frames) : frames[k].node # n,
         frames = <<>> => \E a \in Actions : n \in Reach(a),
         frames # <<>> => AtChild /\ n = TheChild
  PROVE  /\ Path' /\ frames' \in Seq(FrameType) /\ frames' # <<>> /\ Len(frames') = Len(frames) + 1
         /\ \A k \in 1 .. Len(frames) : frames'[k] = frames[k]
         /\ frames'[Len(frames) + 1].node = n /\ frames'[Len(frames) + 1].next = 1
<1> DEFINE m == Len(frames)
           f == [node |-> n, next |-> 1]
<1>1. /\ nodes' = nodes /\ Actions' = Actions /\ \A x : Reach(x)' = Reach(x)
  BY Still DEF graph
<1>2. m \in Nat /\ frames \in Seq(FrameType) /\ f \in FrameType /\ f.node = n /\ f.next = 1
  BY FramesAre DEF IInv, Shape, FrameType
<1>3. /\ frames' \in Seq(FrameType) /\ Len(frames') = m + 1
      /\ \A k \in 1 .. m : frames'[k] = frames[k]
      /\ frames'[m + 1] = f
  BY <1>2, AppendProperties
<1>4. frames' # <<>>
  BY <1>2, <1>3, EmptySeq
<1>5. nodes[n] \in Seq(Node) /\ Len(nodes[n]) \in Nat
  BY GraphFacts, LenProperties DEF IInv
<1> HIDE DEF f
<1>6. \A k \in 1 .. m + 1 : frames'[k].next <= Len(nodes[frames'[k].node]) + 1
  <2>1. SUFFICES ASSUME NEW k \in 1 .. m + 1  PROVE frames'[k].next <= Len(nodes[frames'[k].node]) + 1
    OBVIOUS
  <2>2. CASE k \in 1 .. m
    BY <2>2, <1>3 DEF IInv, Path
  <2>3. CASE k = m + 1
    BY <2>3, <1>2, <1>3, <1>5
  <2>4. QED  BY <2>2, <2>3, <1>2
<1>7. \A k \in 1 .. m : /\ frames'[k].next <= Len(nodes[frames'[k].node])
                        /\ frames'[k + 1].node = nodes[frames'[k].node][frames'[k].next]
  <2>1. SUFFICES ASSUME NEW k \in 1 .. m
                 PROVE  /\ frames[k].next <= Len(nodes[frames[k].node])
                        /\ frames'[k + 1].node = nodes[frames[k].node][frames[k].next]
    BY <1>3
  <2>2. CASE k \in 1 .. m - 1
    <3>1. k + 1 \in 1 .. m
      BY <2>2, <1>2
    <3>2. frames'[k + 1] = frames[k + 1]
      BY <3>1, <1>3
    <3>3. QED  BY <2>2, <3>2 DEF IInv, Path
  <2>3. CASE k = m
    <3>1. frames # <<>>
      BY <2>3, <1>2, EmptySeq
    <3>2. Top = frames[m] /\ AtChild /\ n = TheChild
      BY <3>1 DEF Top
    <3>3. QED  BY <2>3, <3>2, <1>2, <1>3 DEF AtChild, TheChild
  <2>4. QED  BY <2>2, <2>3, <1>2
<1>8. \A j, k \in 1 .. m + 1 : frames'[j].node = frames'[k].node => j = k
  <2>1. SUFFICES ASSUME NEW j \in 1 .. m + 1, NEW k \in 1 .. m + 1, frames'[j].node = frames'[k].node
                 PROVE j = k
    OBVIOUS
  <2>2. CASE j \in 1 .. m /\ k \in 1 .. m
    BY <2>1, <2>2, <1>3 DEF IInv, Path
  <2>3. CASE j = m + 1 /\ k \in 1 .. m
    BY <2>1, <2>3, <1>2, <1>3
  <2>4. CASE k = m + 1 /\ j \in 1 .. m
    BY <2>1, <2>4, <1>2, <1>3
  <2>5. CASE j = m + 1 /\ k = m + 1
    BY <2>5
  <2>6. j \in 1 .. m \/ j = m + 1
    BY <1>2
  <2>7. k \in 1 .. m \/ k = m + 1
    BY <1>2
  <2>8. QED  BY <2>2, <2>3, <2>4, <2>5, <2>6, <2>7
<1>9. \E a \in Actions : frames'[1].node \in Reach(a)
  <2>1. CASE frames = <<>>
    <3>1. m = 0
      BY <2>1, EmptySeq
    <3>2. frames'[1].node = n
      BY <3>1, <1>2, <1>3
    <3>3. QED  BY <2>1, <3>2
  <2>2. CASE frames # <<>>
    <3>1. 1 \in 1 .. m
      BY <2>2, <1>2, EmptySeq
    <3>2. frames'[1] = frames[1]
      BY <3>1, <1>3
    <3>3. QED  BY <2>2, <3>2 DEF IInv, Path
  <2>3. QED  BY <2>1, <2>2
<1>10. (m + 1) - 1 = m
  BY <1>2
<1>11. Path'
  BY <1>1, <1>3, <1>6, <1>7, <1>8, <1>9, <1>10 DEF Path
<1>12. QED  BY <1>2, <1>3, <1>4, <1>11

LEMMA BelowIs ==
  ASSUME IInv, frames # <<>>
  PROVE  /\ Below \in Seq(FrameType) /\ Len(Below) = Len(frames) - 1 /\ Len(frames) \in Nat \ {0}
         /\ \A k \in 1 .. Len(frames) - 1 : Below[k] = frames[k]
<1> DEFINE m == Len(frames)
<1>1. m \in Nat \ {0} /\ frames \in Seq(FrameType) /\ m \in 1 .. m
  BY FramesAre DEF IInv, Shape
<1>2. Below = SubSeq(frames, 1, m - 1)
  BY DEF Below
<1> DEFINE e == m - 1
<1>3. e \in Int /\ 1 \in Int /\ e - 1 + 1 = e
  BY <1>1
<1>4. \A i \in 1 .. e : frames[i] \in FrameType
  BY <1>1, ElementOfSeq
<1> HIDE DEF e
<1>5. /\ SubSeq(frames, 1, e) \in Seq(FrameType)
      /\ Len(SubSeq(frames, 1, e)) = IF 1 <= e THEN e - 1 + 1 ELSE 0
      /\ \A i \in 1 .. e - 1 + 1 : SubSeq(frames, 1, e)[i] = frames[1 + i - 1]
  BY <1>3, <1>4, SubSeqProperties
<1>6. \A i \in 1 .. e : 1 + i - 1 = i
  BY <1>3
<1>7. SubSeq(frames, 1, e) = Below /\ e = m - 1
  BY <1>2 DEF e
<1>8. Len(Below) = e
  BY <1>1, <1>5, <1>7
<1>9. \A i \in 1 .. e : Below[i] = frames[i]
  BY <1>3, <1>5, <1>6, <1>7
<1>10. QED  BY <1>1, <1>5, <1>7, <1>8, <1>9

LEMMA PathPop ==
  ASSUME IInv, UNCHANGED <<program, graph>>, frames # <<>>, frames' = Below
  PROVE  /\ Path' /\ frames' \in Seq(FrameType) /\ Len(frames') = Len(frames) - 1
         /\ \A k \in 1 .. Len(frames) - 1 : frames'[k] = frames[k]
<1> DEFINE m == Len(frames)
<1>1. /\ nodes' = nodes /\ \A x : Reach(x)' = Reach(x)
  BY Still DEF graph
<1>2. /\ frames' \in Seq(FrameType) /\ Len(frames') = m - 1 /\ m \in Nat \ {0}
      /\ \A k \in 1 .. m - 1 : frames'[k] = frames[k]
  BY BelowIs
<1>3. \A k \in 1 .. m - 1 : frames'[k].next <= Len(nodes[frames'[k].node]) + 1
  <2>1. \A k \in 1 .. m - 1 : k \in 1 .. m
    BY <1>2
  <2>2. QED  BY <1>2, <2>1 DEF IInv, Path
<1>4. \A k \in 1 .. (m - 1) - 1 : /\ frames'[k].next <= Len(nodes[frames'[k].node])
                                  /\ frames'[k + 1].node = nodes[frames'[k].node][frames'[k].next]
  <2>1. SUFFICES ASSUME NEW k \in 1 .. (m - 1) - 1
                 PROVE  /\ frames'[k].next <= Len(nodes[frames'[k].node])
                        /\ frames'[k + 1].node = nodes[frames'[k].node][frames'[k].next]
    OBVIOUS
  <2>2. k \in 1 .. m - 1 /\ k + 1 \in 1 .. m - 1
    BY <1>2
  <2>3. frames'[k] = frames[k] /\ frames'[k + 1] = frames[k + 1]
    BY <2>2, <1>2
  <2>4. QED  BY <2>2, <2>3 DEF IInv, Path
<1>5. \A j, k \in 1 .. m - 1 : frames'[j].node = frames'[k].node => j = k
  <2>1. SUFFICES ASSUME NEW j \in 1 .. m - 1, NEW k \in 1 .. m - 1, frames'[j].node = frames'[k].node
                 PROVE j = k
    OBVIOUS
  <2>2. j \in 1 .. m /\ k \in 1 .. m /\ frames[j].node = frames[k].node
    BY <1>2, <2>1
  <2>3. QED  BY <2>2 DEF IInv, Path
<1>6. ASSUME frames' # <<>>  PROVE \E a \in Actions : frames'[1].node \in Reach(a)
  <2>1. m - 1 # 0
    BY <1>2, <1>6, EmptySeq
  <2>2. 1 \in 1 .. m - 1
    BY <1>2, <2>1
  <2>3. frames'[1] = frames[1]
    BY <1>2, <2>2
  <2>4. QED  BY <2>3 DEF IInv, Path
<1>7. Path'
  BY <1>1, <1>2, <1>3, <1>4, <1>5, <1>6 DEF Path
<1>8. QED  BY <1>2, <1>7

LEMMA PathNext ==
  ASSUME IInv, UNCHANGED <<program, graph>>, frames # <<>>, AtChild, frames' = Next1
  PROVE  /\ Path' /\ frames' \in Seq(FrameType) /\ frames' # <<>> /\ Len(frames') = Len(frames)
         /\ \A k \in 1 .. Len(frames) - 1 : frames'[k] = frames[k]
         /\ frames'[Len(frames)].node = Top.node /\ frames'[Len(frames)].next = Top.next + 1
<1> DEFINE m == Len(frames)
           f == [Top EXCEPT !.next = @ + 1]
<1>1. /\ nodes' = nodes /\ \A x : Reach(x)' = Reach(x)
  BY Still DEF graph
<1>2. /\ Top \in FrameType /\ Top.next \in Nat \ {0} /\ Top.node \in Node /\ Top = frames[m]
      /\ Top.next <= Len(nodes[Top.node]) /\ Len(nodes[Top.node]) \in Nat
  BY FramesAre, ChildIs
<1>3. f \in FrameType /\ f.node = Top.node /\ f.next = Top.next + 1
  BY <1>2 DEF FrameType
<1>4. /\ Below \in Seq(FrameType) /\ Len(Below) = m - 1 /\ m \in Nat \ {0}
      /\ \A k \in 1 .. m - 1 : Below[k] = frames[k]
  BY BelowIs
<1>5. frames' = Append(Below, f)
  BY DEF Next1
<1> HIDE DEF f
<1>6. /\ frames' \in Seq(FrameType) /\ Len(frames') = m
      /\ \A k \in 1 .. m - 1 : frames'[k] = frames[k]
      /\ frames'[m] = f
  <2>1. /\ frames' \in Seq(FrameType) /\ Len(frames') = (m - 1) + 1
        /\ \A k \in 1 .. m - 1 : frames'[k] = Below[k]
        /\ frames'[(m - 1) + 1] = f
    BY <1>3, <1>4, <1>5, AppendProperties
  <2>2. (m - 1) + 1 = m
    BY <1>4
  <2>3. QED  BY <2>1, <2>2, <1>4
<1>7. frames' # <<>>
  BY <1>4, <1>6, EmptySeq
<1>8. \A k \in 1 .. m : frames'[k].node = frames[k].node
  <2>1. \A k \in 1 .. m : k \in 1 .. m - 1 \/ k = m
    BY <1>4
  <2>2. QED  BY <2>1, <1>2, <1>3, <1>6
<1>9. \A k \in 1 .. m : frames'[k].next <= Len(nodes[frames'[k].node]) + 1
  <2>1. SUFFICES ASSUME NEW k \in 1 .. m  PROVE frames'[k].next <= Len(nodes[frames'[k].node]) + 1
    OBVIOUS
  <2>2. CASE k \in 1 .. m - 1
    BY <2>2, <1>6 DEF IInv, Path
  <2>3. CASE k = m
    BY <2>3, <1>2, <1>3, <1>6
  <2>4. QED  BY <2>2, <2>3, <1>4
<1>10. \A k \in 1 .. m - 1 : /\ frames'[k].next <= Len(nodes[frames'[k].node])
                             /\ frames'[k + 1].node = nodes[frames'[k].node][frames'[k].next]
  <2>1. SUFFICES ASSUME NEW k \in 1 .. m - 1
                 PROVE  /\ frames'[k].next <= Len(nodes[frames'[k].node])
                        /\ frames'[k + 1].node = nodes[frames'[k].node][frames'[k].next]
    OBVIOUS
  <2>2. frames'[k] = frames[k] /\ k + 1 \in 1 .. m
    BY <1>4, <1>6
  <2>3. frames'[k + 1].node = frames[k + 1].node
    BY <2>2, <1>8
  <2>4. QED  BY <2>2, <2>3 DEF IInv, Path
<1>11. \A j, k \in 1 .. m : frames'[j].node = frames'[k].node => j = k
  BY <1>8 DEF IInv, Path
<1>12. \E a \in Actions : frames'[1].node \in Reach(a)
  <2>1. 1 \in 1 .. m
    BY <1>4
  <2>2. QED  BY <2>1, <1>8 DEF IInv, Path
<1>13. Path'
  BY <1>1, <1>6, <1>9, <1>10, <1>11, <1>12 DEF Path
<1>14. QED  BY <1>3, <1>6, <1>7, <1>13

-----------------------------------------------------------------------------
(* A step of instance_set ().                                              *)
LEMMA SetsIInv ==
  ASSUME IInv, InSets, verdict = "none",
         UNCHANGED <<program, phase, todo, graph, state, linked_instances, verdict>>,
         Path', frames' \in Seq(FrameType),
         instance_set' \in [Node -> Maps], instance_set_computed' \in [Node -> BOOLEAN],
         \A n \in Node : instance_set_computed[n] =>
           instance_set_computed'[n] /\ instance_set'[n] = instance_set[n],
         Computing'
  PROVE  IInv'
<1>1. /\ UNCHANGED <<program, graph>> /\ nodes' = nodes /\ phase' = phase /\ todo' = todo
      /\ state' = state /\ linked_instances' = linked_instances /\ verdict' = verdict
  BY DEF graph
<1>2. /\ GoodGraph' /\ Node' = Node /\ PreconditionUses' = PreconditionUses
      /\ \A n : Reach(n)' = Reach(n) /\ Recursive(n)' = Recursive(n)
  BY <1>1, Still DEF IInv
<1>3. phase \in {"links", "sets"}
  BY DEF InSets
<1>4. FrameType' = FrameType /\ TodoType' = TodoType
  BY <1>1, <1>2 DEF FrameType, TodoType
<1>5. Shape'
  BY <1>1, <1>2, <1>4 DEF IInv, Shape
<1>6. Early'
  BY <1>1, <1>2, <1>3 DEF IInv, Early
<1>7. Colouring'
  BY <1>1, <1>2, <1>3 DEF IInv, Colouring
<1>8. Linked'
  <2>1. PICK L \in SUBSET PreconditionUses : Linking(L)
    BY <1>3 DEF IInv, Linked
  <2>2. \A p \in PreconditionUses : p[2] \in Node
    BY GraphFacts DEF IInv, PreconditionUses, Pulled
  <2>3. \A p \in L : instance_set_computed'[p[2]] /\ instance_set'[p[2]] = instance_set[p[2]]
    BY <2>1, <2>2 DEF Linking
  <2>4. Linking(L)'
    BY <1>1, <1>2, <2>1, <2>3 DEF Linking
  <2>5. QED  BY <1>2, <2>1, <2>4 DEF Linked
<1>9. Verdict'
  <2>1. \A a \in Actions : a \in Node
    BY GraphFacts DEF IInv
  <2>2. QED  BY <1>1, <2>1 DEF IInv, Verdict
<1>10. QED  BY <1>2, <1>5, <1>6, <1>7, <1>8, <1>9 DEF IInv

-----------------------------------------------------------------------------
(* instance_set () begins with an empty set.                               *)
LEMMA CallIInv ==
  ASSUME IInv, InSets, verdict = "none", NEW n \in Node, Calls(n), ~instance_set_computed[n],
         \A k \in 1 .. Len(frames) : frames[k].node # n,
         frames = <<>> => \E a \in Actions : n \in Reach(a),
         frames # <<>> => AtChild /\ n = TheChild
  PROVE  IInv'
<1> DEFINE m == Len(frames)
<1>1. /\ frames' = Append(frames, [node |-> n, next |-> 1])
      /\ UNCHANGED <<program, phase, todo, graph, state, linked_instances, verdict>>
      /\ UNCHANGED <<program, graph>>
      /\ phase' = phase /\ instance_set' = instance_set /\ instance_set_computed' = instance_set_computed
      /\ nodes' = nodes
  BY DEF Calls, graph, sets
<1>2. /\ Path' /\ frames' \in Seq(FrameType) /\ Len(frames') = m + 1 /\ m \in Nat
      /\ \A k \in 1 .. m : frames'[k] = frames[k]
      /\ frames'[m + 1].node = n /\ frames'[m + 1].next = 1
  BY <1>1, PathPush, FramesAre
<1>3. Node' = Node
  BY <1>1, Still
<1>4. \A q \in Node : instance_set_computed[q] => Known(q)'
  <2>1. SUFFICES ASSUME NEW q \in Node, instance_set_computed[q]  PROVE Known(q)'
    OBVIOUS
  <2>2. Known(q)
    BY <2>1 DEF IInv, Computing
  <2>3. QED  BY <1>1, <2>2, StillKnown
<1>5. instance_set[n] = Nowhere
  BY DEF IInv, Computing
<1>6. Partial(n, 1)'
  <2>1. ReachBefore(n, 1)' = {}
    BY DEF ReachBefore
  <2>2. IsUses(Nowhere, {})' = IsUses(Nowhere, {})
    BY <1>1, Still
  <2>3. IsUses(instance_set[n], ReachBefore(n, 1))'
    BY <1>1, <1>5, <2>1, <2>2, NothingUses
  <2>4. QED  BY <2>3 DEF Partial
<1>7. \A k \in 1 .. m + 1 : /\ ~instance_set_computed[frames'[k].node]
                           /\ Partial(frames[k].node, frames[k].next)'
  <2>1. ASSUME NEW k \in 1 .. m
        PROVE  ~instance_set_computed[frames'[k].node] /\ Partial(frames[k].node, frames[k].next)'
    <3>1. ~instance_set_computed[frames[k].node] /\ Partial(frames[k].node, frames[k].next)
      BY DEF IInv, Computing
    <3>2. QED  BY <3>1, <1>1, <1>2, StillPartial
  <2>2. ASSUME NEW k, k = m + 1
        PROVE  ~instance_set_computed[frames'[k].node] /\ Partial(frames[k].node, frames[k].next)'
    <3>1. frames'[k].node = n /\ frames'[k].next = 1
      BY <2>2, <1>2
    <3>2. QED  BY <3>1, <1>6
  <2>3. QED  BY <2>1, <2>2, <1>2
<1>8. ASSUME NEW q \in Node
      PROVE  instance_set_computed[q] \/ instance_set[q] = Nowhere \/ \E k \in 1 .. m + 1 : frames'[k].node = q
  <2>1. SUFFICES ASSUME NEW k \in 1 .. m, frames[k].node = q  PROVE \E j \in 1 .. m + 1 : frames'[j].node = q
    BY DEF IInv, Computing
  <2>2. k \in 1 .. m + 1 /\ frames'[k].node = q
    BY <2>1, <1>2
  <2>3. QED  BY <2>2
<1>9. Computing'
  BY <1>1, <1>2, <1>3, <1>4, <1>7, <1>8 DEF Computing, InSets
<1>10. instance_set' \in [Node -> Maps] /\ instance_set_computed' \in [Node -> BOOLEAN]
  BY <1>1 DEF IInv, Shape
<1>11. QED  BY <1>1, <1>2, <1>9, <1>10, SetsIInv

-----------------------------------------------------------------------------
(* It recurses, or its recursion does not end.                             *)
LEMMA EnterSetIInv ==
  ASSUME IInv, EnterSet
  PROVE  IInv'
<1>1. /\ verdict = "none" /\ phase \in {"links", "sets"} /\ frames # <<>>
      /\ AtChild /\ ~instance_set_computed[TheChild]
  BY DEF EnterSet, Recursing
<1>2. TheChild \in Node /\ DOMAIN frames = 1 .. Len(frames)
  BY <1>1, ChildIs, FramesAre
<1>3. CASE \E k \in DOMAIN frames : frames[k].node = TheChild
  <2>1. End("overflow")
    BY <1>3 DEF EnterSet
  <2>2. Cycle
    BY <1>1, <1>2, <1>3, OnCycle
  <2>3. QED  BY <1>1, <2>1, <2>2, EndIInv DEF Verdicts
<1>4. CASE ~\E k \in DOMAIN frames : frames[k].node = TheChild
  <2>1. Calls(TheChild)
    BY <1>4 DEF EnterSet
  <2> DEFINE n == TheChild
  <2>2. n \in Node /\ ~instance_set_computed[n] /\ \A k \in 1 .. Len(frames) : frames[k].node # n
    BY <1>1, <1>2, <1>4
  <2>3. QED  BY <1>1, <2>1, <2>2, CallIInv DEF InSets
<1>5. QED  BY <1>3, <1>4

(* compute_instance_sets () and compute_dependent_instances ().            *)
LEMMA ComputeSetIInv ==
  ASSUME IInv, ComputeSet
  PROVE  IInv'
<1> DEFINE a == Head(todo)
<1>1. verdict = "none" /\ phase = "sets" /\ frames = <<>> /\ todo # <<>>
  BY DEF ComputeSet, Working, Running
<1>2. GoodGraph /\ Shape /\ todo \in Seq(Actions)
  BY <1>1 DEF IInv, Shape, TodoType
<1>3. a \in Actions /\ Tail(todo) \in Seq(Actions) /\ ToSet(todo) = {a} \cup ToSet(Tail(todo))
  BY <1>1, <1>2, ToSetOfSeq
<1>4. a \in Node /\ a \in Reach(a)
  BY <1>2, <1>3, GraphFacts, ReachFacts
<1>5. CASE ~instance_set_computed[a]
  <2>1. Calls(a)
    BY <1>5 DEF ComputeSet
  <2>2. Len(frames) = 0
    BY <1>1, EmptySeq
  <2>3. QED  BY <1>1, <1>3, <1>4, <1>5, <2>1, <2>2, CallIInv DEF InSets
<1>6. CASE instance_set_computed[a]
  <2>1. /\ todo' = Tail(todo)
        /\ UNCHANGED <<program, phase, graph, sets, state, linked_instances, frames, verdict>>
    BY <1>6 DEF ComputeSet
  <2>2. todo' \in Seq(TodoType')
    BY <1>1, <1>3, <2>1 DEF TodoType
  <2>3. PICK L \in SUBSET PreconditionUses : Linking(L)
    BY <1>1 DEF IInv, Linked
  <2>4. PreconditionUses' = PreconditionUses
        /\ instance_set' = instance_set /\ instance_set_computed' = instance_set_computed
    BY <2>1, Still DEF sets
  <2>5. Linking(L)'
    BY <2>1, <2>3, <2>4, <1>1 DEF Linking
  <2>6. Linked'
    BY <2>3, <2>4, <2>5 DEF Linked
  <2>7. linked_instances' \in [Instances -> SUBSET Instances]
    BY <2>1, <1>2 DEF Shape
  <2>8. \A b \in Actions : state[b] = "marked" /\ (instance_set_computed[b] \/ b \in ToSet(todo'))
    BY <1>1, <1>3, <1>6, <2>1 DEF IInv, Colouring, Verdict
  <2>9. QED  BY <1>1, <2>1, <2>2, <2>6, <2>7, <2>8, PhaseIInv DEF Building, Phases
<1>7. QED  BY <1>5, <1>6

LEMMA LinkIInv ==
  ASSUME IInv, Link
  PROVE  IInv'
<1> DEFINE p == Head(todo)
           a == p[1]
           n == p[2]
<1>1. verdict = "none" /\ phase = "links" /\ frames = <<>> /\ todo # <<>>
  BY DEF Link, Working, Running
<1>2. GoodGraph /\ Shape /\ todo \in Seq(PreconditionUses)
  BY <1>1 DEF IInv, Shape, TodoType
<1>3. p \in PreconditionUses /\ Tail(todo) \in Seq(PreconditionUses) /\ ToSet(todo) = {p} \cup ToSet(Tail(todo))
  BY <1>1, <1>2, ToSetOfSeq
<1>4. a \in Actions /\ n \in Pulled /\ n \in ToSet(precondition_nodes[a])
  BY <1>3 DEF PreconditionUses, Pulled
<1>5. n \in ToSet(nodes[a])
  BY <1>2, <1>4 DEF GoodGraph
<1>6. a \in Node /\ n \in Node
  BY <1>2, <1>4, GraphFacts
<1>7. n \in Reach(a)
  BY <1>2, <1>5, <1>6, ReachFacts
<1>8. CASE ~instance_set_computed[n]
  <2>1. Calls(n)
    BY <1>8 DEF Link
  <2>2. Len(frames) = 0
    BY <1>1, EmptySeq
  <2> HIDE DEF n, a
  <2>3. QED  BY <1>1, <1>4, <1>6, <1>7, <1>8, <2>1, <2>2, CallIInv DEF InSets
<1>9. CASE instance_set_computed[n]
  <2>1. /\ linked_instances' = [i \in Instances |-> linked_instances[i] \cup
                                  (IF i \in DOMAIN instance_set[n] THEN {Home[a]} ELSE {})]
        /\ todo' = Tail(todo)
        /\ UNCHANGED <<program, phase, graph, sets, state, frames, verdict>>
    BY <1>9 DEF Link
  <2>2. PreconditionUses' = PreconditionUses
        /\ instance_set' = instance_set /\ instance_set_computed' = instance_set_computed
    BY <2>1, Still DEF sets
  <2>3. todo' \in Seq(TodoType')
    BY <1>1, <1>3, <2>1, <2>2 DEF TodoType
  <2>4. PICK L \in SUBSET PreconditionUses : Linking(L)
    BY <1>1 DEF IInv, Linked
  <2>5. Home[a] \in Instances
    BY <1>4, NodesAssumption DEF Callables, Transitions
  <2>6. linked_instances' \in [Instances -> SUBSET Instances]
    BY <2>1, <2>5, <1>2 DEF Shape
  <2>7. PICK K \in SUBSET PreconditionUses : K = L \cup {p}
    BY <1>3, <2>4
  <2>8. \A q \in K : instance_set_computed[q[2]]
    BY <1>9, <2>4, <2>7 DEF Linking
  <2>9. ASSUME NEW i \in Instances, NEW j \in Instances
        PROVE  j \in linked_instances'[i] <=> \E q \in K : Home[q[1]] = j /\ i \in DOMAIN instance_set[q[2]]
    <3>1. linked_instances'[i] = linked_instances[i] \cup
             (IF i \in DOMAIN instance_set[n] THEN {Home[a]} ELSE {})
      BY <2>1
    <3>2. j \in linked_instances[i] <=> \E q \in L : Home[q[1]] = j /\ i \in DOMAIN instance_set[q[2]]
      BY <2>4 DEF Linking
    <3> HIDE DEF p
    <3>3. QED  BY <3>1, <3>2, <2>7
  <2>10. PreconditionUses \subseteq K \cup ToSet(todo')
    BY <1>1, <1>3, <2>1, <2>4, <2>7 DEF Linking
  <2> HIDE DEF p
  <2>11. Linking(K)'
    BY <2>1, <2>2, <2>8, <2>9, <2>10, <1>1 DEF Linking
  <2>12. Linked'
    BY <2>2, <2>11 DEF Linked
  <2>13. QED  BY <1>1, <2>1, <2>3, <2>6, <2>12, PhaseIInv DEF Building, Phases
<1>10. QED  BY <1>8, <1>9

(* What a node writes, and what it reaches before its outgoing node x.     *)
LEMMA WritesIs ==
  ASSUME GoodGraph, NEW n \in Node, NEW i
  PROVE  i \in Writes(n) <=> \E m \in Reach(n) \ Ports : Owner(m) = i /\ Own(m) = Write
BY UsesSpec, WritesAre, ReachFacts DEF Writes

LEMMA BeforeIs ==
  ASSUME GoodGraph, NEW n \in Node, NEW x \in 1 .. Len(nodes[n])
  PROVE  /\ ReachBefore(n, x) \in SUBSET Node
         /\ \A j \in 1 .. x : j \in 1 .. Len(nodes[n]) /\ nodes[n][j] \in Node
         /\ \A m : m \in ReachBefore(n, x) <=> \E j \in 1 .. x - 1 : m \in Reach(nodes[n][j])
         /\ ReachBefore(n, x + 1) = ReachBefore(n, x) \cup Reach(nodes[n][x])
<1>1. nodes[n] \in Seq(Node) /\ Len(nodes[n]) \in Nat
  BY GraphFacts, LenProperties
<1>2. \A j \in 1 .. x : j \in 1 .. Len(nodes[n]) /\ nodes[n][j] \in Node
  BY <1>1, ElementOfSeq
<1>3. \A j \in 1 .. x : Reach(nodes[n][j]) \in SUBSET Node
  BY <1>2, ReachFacts
<1>4. 1 .. x - 1 \subseteq 1 .. x /\ 1 .. (x + 1) - 1 = (1 .. x - 1) \cup {x}
  BY <1>1
<1>5. ReachBefore(n, x) \in SUBSET Node
  BY <1>3, <1>4 DEF ReachBefore
<1>6. ReachBefore(n, x + 1) = ReachBefore(n, x) \cup Reach(nodes[n][x])
  BY <1>4 DEF ReachBefore
<1>7. \A m : m \in ReachBefore(n, x) <=> \E j \in 1 .. x - 1 : m \in Reach(nodes[n][j])
  BY DEF ReachBefore
<1>8. QED  BY <1>2, <1>5, <1>6, <1>7

(* What is_compatible () finds out about the outgoing nodes of a node.     *)
LEMMA CompatibleIs ==
  ASSUME IInv, NEW n \in Node, NEW x \in 1 .. Len(nodes[n]), Partial(n, x), instance_set_computed[nodes[n][x]]
  PROVE  IsCompatible(instance_set[n], instance_set[nodes[n][x]])
           <=> \A j \in 1 .. x - 1 : Writes(nodes[n][j]) \cap Writes(nodes[n][x]) = {}
<1> DEFINE c == nodes[n][x]
           s == instance_set[n]
           t == instance_set[c]
<1>1. GoodGraph /\ c \in Node /\ ReachBefore(n, x) \in SUBSET Node /\ Reach(c) \in SUBSET Node
  BY BeforeIs, ReachFacts, GraphFacts DEF IInv
<1>2. IsUses(s, ReachBefore(n, x)) /\ IsUses(t, Reach(c))
  BY <1>1 DEF IInv, Computing, Known, Partial
<1>3. \A i : i \in DOMAIN s /\ s[i] = Write <=>
             \E m \in ReachBefore(n, x) \ Ports : Owner(m) = i /\ Own(m) = Write
  BY <1>1, <1>2, WritesAre
<1>4. \A i : i \in DOMAIN t /\ t[i] = Write <=> i \in Writes(c)
  BY <1>1, <1>2, WritesAre, WritesIs
<1>5. \A i : i \in DOMAIN s /\ s[i] = Write <=> \E j \in 1 .. x - 1 : i \in Writes(nodes[n][j])
  <2>1. SUFFICES ASSUME NEW i
                 PROVE  (\E m \in ReachBefore(n, x) \ Ports : Owner(m) = i /\ Own(m) = Write)
                          <=> \E j \in 1 .. x - 1 : i \in Writes(nodes[n][j])
    BY <1>3
  <2>2. ASSUME NEW j \in 1 .. x - 1
        PROVE  i \in Writes(nodes[n][j]) <=>
                 \E m \in Reach(nodes[n][j]) \ Ports : Owner(m) = i /\ Own(m) = Write
    <3>1. x \in Int
      OBVIOUS
    <3>2. j \in 1 .. x
      BY <3>1
    <3>3. nodes[n][j] \in Node
      BY <1>1, <3>2, BeforeIs
    <3>4. QED  BY <1>1, <3>3, WritesIs
  <2>3. \A j \in 1 .. x - 1 : i \in Writes(nodes[n][j]) <=>
                \E m \in Reach(nodes[n][j]) \ Ports : Owner(m) = i /\ Own(m) = Write
    BY <2>2
  <2>4. \A m : m \in ReachBefore(n, x) <=> \E j \in 1 .. x - 1 : m \in Reach(nodes[n][j])
    BY <1>1, BeforeIs
  <2>5. QED  BY <2>3, <2>4
<1> HIDE DEF s, t, c
<1>6. IsCompatible(s, t) <=> \A i : ~(i \in DOMAIN s /\ s[i] = Write /\ i \in DOMAIN t /\ t[i] = Write)
  BY DEF IsCompatible
<1>7. IsCompatible(s, t) <=> \A j \in 1 .. x - 1 : Writes(nodes[n][j]) \cap Writes(c) = {}
  BY <1>4, <1>5, <1>6
<1>8. QED  BY <1>7 DEF s, t, c

-----------------------------------------------------------------------------
(* The innermost call.                                                     *)
LEMMA TopIs ==
  ASSUME IInv, InSets, frames # <<>>
  PROVE  /\ Top.node \in Node /\ Top = frames[Len(frames)] /\ Top.next \in Nat \ {0}
         /\ Len(frames) \in Nat \ {0} /\ Len(frames) \in 1 .. Len(frames)
         /\ ~instance_set_computed[Top.node] /\ Partial(Top.node, Top.next)
         /\ \A k \in 1 .. Len(frames) - 1 : /\ k \in 1 .. Len(frames) /\ frames[k].node # Top.node
                                            /\ ~instance_set_computed[frames[k].node]
                                            /\ Partial(frames[k].node, frames[k].next)
<1>1. /\ Len(frames) \in Nat \ {0} /\ Len(frames) \in 1 .. Len(frames) /\ Top = frames[Len(frames)]
      /\ Top.node \in Node /\ Top.next \in Nat \ {0}
  BY FramesAre
<1>2. \A k \in 1 .. Len(frames) : ~instance_set_computed[frames[k].node]
                                  /\ Partial(frames[k].node, frames[k].next)
  BY DEF IInv, Computing
<1>3. \A k \in 1 .. Len(frames) - 1 : k \in 1 .. Len(frames) /\ k # Len(frames)
  BY <1>1
<1>4. \A k \in 1 .. Len(frames) - 1 : frames[k].node # Top.node
  BY <1>1, <1>3 DEF IInv, Path
<1>5. QED  BY <1>1, <1>2, <1>3, <1>4

(* A set is joined: an error means concurrent updates. Otherwise the set   *)
(* is partial for one more.                                                *)
LEMMA JoinSetIInv ==
  ASSUME IInv, JoinSet
  PROVE  IInv'
<1> DEFINE m == Len(frames)
           n == Top.node
           x == Top.next
           c == TheChild
<1>1. verdict = "none" /\ InSets /\ frames # <<>> /\ AtChild /\ instance_set_computed[c]
  BY DEF JoinSet, Recursing, InSets
<1>2. /\ n \in Node /\ x \in 1 .. Len(nodes[n]) /\ c = nodes[n][x] /\ c \in Node
      /\ c \in ToSet(nodes[n]) /\ GoodGraph
  BY <1>1, ChildIs DEF IInv
<1>3. /\ ~instance_set_computed[n] /\ Partial(n, x) /\ n = frames[m].node /\ x = frames[m].next
      /\ m \in Nat \ {0} /\ m \in 1 .. m
      /\ \A k \in 1 .. m - 1 : /\ k \in 1 .. m /\ frames[k].node # n
                               /\ ~instance_set_computed[frames[k].node]
                               /\ Partial(frames[k].node, frames[k].next)
  BY <1>1, TopIs
<1>4. IsCompatible(instance_set[n], instance_set[c])
        <=> \A j \in 1 .. x - 1 : Writes(nodes[n][j]) \cap Writes(c) = {}
  BY <1>1, <1>2, <1>3, CompatibleIs, ZenonT(40)
<1>5. DOMAIN nodes[n] = 1 .. Len(nodes[n]) /\ Len(nodes[n]) \in Nat /\ x \in Nat \ {0}
  BY <1>2, GraphFacts, LenProperties
<1>6. CASE n \in Checks /\ ~IsCompatible(instance_set[n], instance_set[c])
  <2>1. End(ErrorOf(n))
    BY <1>6 DEF JoinSet
  <2>2. PICK j \in 1 .. x - 1 : Writes(nodes[n][j]) \cap Writes(c) # {}
    BY <1>4, <1>6
  <2>3. j \in DOMAIN nodes[n] /\ x \in DOMAIN nodes[n] /\ j < x
    BY <1>2, <1>5
  <2>4. Concurrent(n)
    BY <1>2, <1>6, <2>2, <2>3 DEF Concurrent
  <2>5. Concurrency
    BY <1>1, <2>4, OnPath DEF Concurrency
  <2>7. ErrorOf(n) \in {"E120", "E137", "E138"}
    BY DEF ErrorOf
  <2> HIDE DEF n
  <2>8. QED  BY <1>1, <2>1, <2>5, <2>7, EndIInv DEF Verdicts
<1>7. CASE ~(n \in Checks /\ ~IsCompatible(instance_set[n], instance_set[c]))
  <2>1. /\ instance_set' = [instance_set EXCEPT ![n] = Union(@, instance_set[c])]
        /\ frames' = Next1
        /\ UNCHANGED <<program, phase, todo, graph, instance_set_computed, state, linked_instances, verdict>>
        /\ UNCHANGED <<program, graph>>
        /\ nodes' = nodes /\ phase' = phase /\ instance_set_computed' = instance_set_computed
    BY <1>7 DEF JoinSet, graph
  <2>2. /\ Path' /\ frames' \in Seq(FrameType) /\ Len(frames') = m
        /\ \A k \in 1 .. m - 1 : frames'[k] = frames[k]
        /\ frames'[m].node = n /\ frames'[m].next = x + 1
    BY <1>1, <2>1, PathNext
  <2>3. /\ Node' = Node /\ Checks' = Checks /\ \A q : Reach(q)' = Reach(q) /\ Writes(q)' = Writes(q)
        /\ \A s, ns : IsUses(s, ns)' = IsUses(s, ns)
    BY <2>1, Still
  <2>4. instance_set \in [Node -> Maps] /\ instance_set_computed \in [Node -> BOOLEAN]
    BY DEF IInv, Shape
  <2>5. instance_set'[n] = Union(instance_set[n], instance_set[c])
        /\ \A q \in Node : q # n => instance_set'[q] = instance_set[q]
    BY <1>2, <2>1, <2>4
  <2>6. /\ IsUses(instance_set[n], ReachBefore(n, x)) /\ IsUses(instance_set[c], Reach(c))
        /\ ReachBefore(n, x) \in SUBSET Node /\ Reach(c) \in SUBSET Node
        /\ ReachBefore(n, x + 1) = ReachBefore(n, x) \cup Reach(c)
    <3>1. ReachBefore(n, x) \in SUBSET Node /\ ReachBefore(n, x + 1) = ReachBefore(n, x) \cup Reach(c)
      BY <1>2, BeforeIs
    <3>2. Known(c)
      BY <1>1, <1>2 DEF IInv, Computing
    <3>3. IsUses(instance_set[c], Reach(c)) /\ Reach(c) \in SUBSET Node
      BY <1>2, <3>2, ReachFacts DEF Known
    <3>4. IsUses(instance_set[n], ReachBefore(n, x))
      BY <1>3 DEF Partial
    <3>5. QED  BY <3>1, <3>3, <3>4
  <2>7. IsUses(instance_set'[n], ReachBefore(n, x + 1))
    BY <1>2, <2>5, <2>6, UnionUses
  <2>8. ASSUME NEW u, NEW y, u = n, y = x + 1
        PROVE  Partial(u, y)'
    <3>1. 1 .. y - 1 = (1 .. x - 1) \cup {x} /\ x \notin 1 .. x - 1
      BY <1>5, <2>8
    <3>2. \A j \in 1 .. y - 1 : instance_set_computed[nodes[u][j]]
      BY <1>1, <1>2, <1>3, <2>8, <3>1 DEF Partial
    <3>3. IsUses(instance_set'[u], ReachBefore(u, y))
      BY <2>7, <2>8
    <3>4. u \in Checks => \A i, j \in 1 .. y - 1 : i < j => Writes(nodes[u][i]) \cap Writes(nodes[u][j]) = {}
      <4>1. SUFFICES ASSUME n \in Checks, NEW i \in 1 .. y - 1, NEW j \in 1 .. y - 1, i < j
                     PROVE  Writes(nodes[n][i]) \cap Writes(nodes[n][j]) = {}
        BY <2>8
      <4>2. IsCompatible(instance_set[n], instance_set[c])
        BY <1>7, <4>1
      <4>3. i \in 1 .. x - 1
        BY <1>5, <2>8, <4>1
      <4>4. CASE j \in 1 .. x - 1
        BY <1>3, <4>1, <4>3, <4>4 DEF Partial
      <4>5. CASE j = x
        BY <1>2, <1>4, <4>2, <4>3, <4>5
      <4>6. QED  BY <3>1, <4>4, <4>5
    <3>5. ReachBefore(u, y)' = ReachBefore(u, y)
      BY <2>1, <2>3 DEF ReachBefore
    <3>6. IsUses(instance_set[u], ReachBefore(u, y))'
      BY <2>3, <3>3, <3>5
    <3>7. (u \in Checks => \A i, j \in 1 .. y - 1 : i < j => Writes(nodes[u][i]) \cap Writes(nodes[u][j]) = {})'
      BY <2>1, <2>3, <3>4
    <3>8. (\A j \in 1 .. y - 1 : instance_set_computed[nodes[u][j]])'
      BY <2>1, <3>2
    <3>9. QED  BY <3>6, <3>7, <3>8 DEF Partial
  <2>9. \A q \in Node : instance_set_computed[q] => Known(q)'
    <3>1. SUFFICES ASSUME NEW q \in Node, instance_set_computed[q]  PROVE Known(q)'
      OBVIOUS
    <3>2. Known(q) /\ q # n
      BY <1>3, <3>1 DEF IInv, Computing
    <3>3. QED  BY <2>1, <2>5, <3>1, <3>2, StillKnown
  <2>10. \A k \in 1 .. m : /\ ~instance_set_computed[frames'[k].node]
                           /\ Partial(frames[k].node, frames[k].next)'
    <3>1. ASSUME NEW k \in 1 .. m - 1
          PROVE  ~instance_set_computed[frames'[k].node] /\ Partial(frames[k].node, frames[k].next)'
      <4>1. frames[k].node \in Node
        BY <1>3, FramesAre
      <4>2. instance_set'[frames[k].node] = instance_set[frames[k].node]
        BY <4>1, <1>3, <2>5
      <4>3. QED  BY <4>2, <1>3, <2>1, <2>2, StillPartial
    <3>2. ASSUME NEW k, k = m
          PROVE  ~instance_set_computed[frames'[k].node] /\ Partial(frames[k].node, frames[k].next)'
      <4>1. frames'[k].node = n /\ frames'[k].next = x + 1
        BY <2>2, <3>2
      <4>2. QED  BY <4>1, <1>3, <2>8
    <3>3. QED  BY <3>1, <3>2, <1>3
  <2>11. ASSUME NEW q \in Node
         PROVE  instance_set_computed[q] \/ instance_set'[q] = Nowhere \/ \E k \in 1 .. m : frames'[k].node = q
    <3>1. CASE q = n
      BY <3>1, <1>3, <2>2
    <3>2. CASE q # n
      <4>1. SUFFICES ASSUME NEW k \in 1 .. m, frames[k].node = q  PROVE \E j \in 1 .. m : frames'[j].node = q
        BY <3>2, <2>5 DEF IInv, Computing
      <4>2. k \in 1 .. m - 1
        BY <1>3, <3>2, <4>1
      <4>3. frames'[k].node = q
        BY <2>2, <4>1, <4>2
      <4>4. QED  BY <4>1, <4>3
    <3>3. QED  BY <3>1, <3>2
  <2>12. Computing'
    BY <1>1, <2>1, <2>2, <2>3, <2>9, <2>10, <2>11 DEF Computing, InSets
  <2>13. Union(instance_set[n], instance_set[c]) \in Maps
    BY <2>5, <2>7 DEF IsUses
  <2>14. instance_set' \in [Node -> Maps] /\ instance_set_computed' \in [Node -> BOOLEAN]
    BY <2>1, <2>4, <2>13
  <2>15. \A q \in Node : instance_set_computed[q] => instance_set_computed'[q] /\ instance_set'[q] = instance_set[q]
    BY <1>3, <2>1, <2>5
  <2>16. QED  BY <1>1, <2>1, <2>2, <2>12, <2>14, <2>15, SetsIInv
<1>8. QED  BY <1>6, <1>7

(* The node adds its own access and its set is complete.                   *)
LEMMA LeaveSetIInv ==
  ASSUME IInv, LeaveSet
  PROVE  IInv'
<1> DEFINE m == Len(frames)
           n == Top.node
           x == Top.next
<1>1. verdict = "none" /\ InSets /\ frames # <<>> /\ ~AtChild
  BY DEF LeaveSet, Recursing, InSets
<1>2. /\ n \in Node /\ n = frames[m].node /\ x = frames[m].next /\ x \in Nat \ {0}
      /\ ~instance_set_computed[n] /\ Partial(n, x) /\ m \in Nat \ {0} /\ m \in 1 .. m
      /\ \A k \in 1 .. m - 1 : /\ k \in 1 .. m /\ frames[k].node # n
                               /\ ~instance_set_computed[frames[k].node]
                               /\ Partial(frames[k].node, frames[k].next)
  BY <1>1, TopIs
<1>3. /\ GoodGraph /\ nodes[n] \in Seq(Node)
      /\ DOMAIN nodes[n] = 1 .. Len(nodes[n]) /\ Len(nodes[n]) \in Nat
  BY <1>2, GraphFacts, LenProperties DEF IInv
<1>4. x = Len(nodes[n]) + 1
  <2>1. x <= Len(nodes[n]) + 1 /\ ~(x <= Len(nodes[n]))
    BY <1>1, <1>2 DEF IInv, Path, AtChild
  <2>2. QED  BY <1>2, <1>3, <2>1
<1>5. 1 .. x - 1 = DOMAIN nodes[n]
  BY <1>3, <1>4
<1>6. /\ UNCHANGED <<program, phase, todo, graph, state, linked_instances, verdict>>
      /\ UNCHANGED <<program, graph>> /\ nodes' = nodes /\ phase' = phase /\ frames' = Below
      /\ instance_set_computed' = [instance_set_computed EXCEPT ![n] = TRUE]
      /\ instance_set' = IF n \in Ports THEN instance_set
                         ELSE [instance_set EXCEPT ![n] = Inserted(@, Owner(n), Own(n))]
  BY DEF LeaveSet, graph
<1>7. /\ Path' /\ frames' \in Seq(FrameType) /\ Len(frames') = m - 1
      /\ \A k \in 1 .. m - 1 : frames'[k] = frames[k]
  BY <1>1, <1>6, PathPop
<1>8. /\ Node' = Node /\ \A q : Reach(q)' = Reach(q) /\ Concurrent(q)' = Concurrent(q)
      /\ \A s, ns : IsUses(s, ns)' = IsUses(s, ns)
  BY <1>6, Still
<1>9. instance_set \in [Node -> Maps] /\ instance_set_computed \in [Node -> BOOLEAN]
  BY DEF IInv, Shape
<1>10. /\ instance_set'[n] = IF n \in Ports THEN instance_set[n] ELSE Inserted(instance_set[n], Owner(n), Own(n))
       /\ instance_set_computed'[n]
       /\ \A q \in Node : q # n => /\ instance_set'[q] = instance_set[q]
                                    /\ instance_set_computed'[q] = instance_set_computed[q]
  BY <1>2, <1>6, <1>9
<1>11. \A q : q \in ToSet(nodes[n]) <=> \E j \in 1 .. x - 1 : nodes[n][j] = q
  BY <1>5 DEF ToSet
<1> DEFINE B == ReachBefore(n, x)
<1>12. /\ Reach(n) = {n} \cup B /\ B \in SUBSET Node
       /\ B = UNION {Reach(c) : c \in ToSet(nodes[n])}
  <2>1. Reach(n) = {n} \cup UNION {Reach(c) : c \in ToSet(nodes[n])} /\ Reach(n) \in SUBSET Node
    BY <1>2, <1>3, ReachFacts
  <2>2. B = UNION {Reach(c) : c \in ToSet(nodes[n])}
    BY <1>11 DEF ReachBefore
  <2> HIDE DEF B
  <2>3. QED  BY <2>1, <2>2
<1> HIDE DEF B
<1>13. IsUses(instance_set'[n], Reach(n))
  <2>1. IsUses(instance_set[n], B)
    BY <1>2 DEF Partial, B
  <2>2. CASE n \in Ports
    <3>1. Reach(n) \ Ports = B \ Ports /\ instance_set'[n] = instance_set[n]
      BY <2>2, <1>10, <1>12
    <3>2. QED  BY <2>1, <3>1 DEF IsUses
  <2>3. CASE n \notin Ports
    <3>1. IsUses(Inserted(instance_set[n], Owner(n), Own(n)), B \cup {n})
      BY <2>1, <2>3, <1>2, <1>3, <1>12, InsertedUses
    <3>2. Reach(n) = B \cup {n} /\ instance_set'[n] = Inserted(instance_set[n], Owner(n), Own(n))
      BY <2>3, <1>10, <1>12
    <3>3. QED  BY <3>1, <3>2
  <2>4. QED  BY <2>2, <2>3
<1>14. \A c \in ToSet(nodes[n]) : instance_set_computed[c] /\ c \in Node
  <2>1. \A j \in 1 .. x - 1 : instance_set_computed[nodes[n][j]]
    BY <1>2 DEF Partial
  <2>2. ToSet(nodes[n]) \in SUBSET Node
    BY <1>2, <1>3, ReachFacts
  <2>3. QED  BY <1>11, <2>1, <2>2
<1>15. ~Concurrent(n)
  <2>1. n \in Checks => \A i, j \in 1 .. x - 1 : i < j => Writes(nodes[n][i]) \cap Writes(nodes[n][j]) = {}
    BY <1>2 DEF Partial
  <2>2. QED  BY <1>5, <2>1 DEF Concurrent
<1>16. \A q \in Reach(n) : ~Concurrent(q)
  <2>1. \A c \in ToSet(nodes[n]) : \A q \in Reach(c) : ~Concurrent(q)
    BY <1>14 DEF IInv, Computing, Known
  <2>2. QED  BY <1>12, <1>15, <2>1
<1>17. \A q \in Node : instance_set_computed'[q] => Known(q)'
  <2>1. SUFFICES ASSUME NEW q \in Node, instance_set_computed'[q]  PROVE Known(q)'
    OBVIOUS
  <2>2. CASE q = n
    <3>1. \A c \in ToSet(nodes[q]) : instance_set_computed'[c]
      BY <2>2, <1>10, <1>14
    <3>2. IsUses(instance_set'[q], Reach(q)) /\ \A p \in Reach(q) : ~Concurrent(p)
      BY <2>2, <1>13, <1>16
    <3>3. (\A c \in ToSet(nodes[q]) : instance_set_computed[c])'
      BY <3>1, <1>6
    <3>4. IsUses(instance_set[q], Reach(q))' /\ (\A p \in Reach(q) : ~Concurrent(p))'
      BY <3>2, <1>8
    <3>5. QED  BY <3>3, <3>4 DEF Known
  <2>3. CASE q # n
    <3>1. Known(q) /\ instance_set'[q] = instance_set[q]
      BY <2>1, <2>3, <1>10 DEF IInv, Computing
    <3>2. \A c \in ToSet(nodes[q]) : c \in Node
      BY <1>3, ReachFacts
    <3>3. \A c \in ToSet(nodes[q]) : instance_set_computed[c] => instance_set_computed'[c]
      BY <3>2, <1>10
    <3>4. QED  BY <3>1, <3>3, <1>6, StillKnown
  <2>4. QED  BY <2>2, <2>3
<1>18. \A k \in 1 .. m - 1 : /\ ~instance_set_computed'[frames'[k].node]
                            /\ Partial(frames[k].node, frames[k].next)'
  <2>1. SUFFICES ASSUME NEW k \in 1 .. m - 1
                 PROVE  /\ ~instance_set_computed'[frames'[k].node]
                        /\ Partial(frames[k].node, frames[k].next)'
    OBVIOUS
  <2> DEFINE q == frames[k].node
             y == frames[k].next
  <2>2. /\ q \in Node /\ q # n /\ nodes[q] \in Seq(Node) /\ y \in Nat \ {0} /\ y <= Len(nodes[q])
        /\ Len(nodes[q]) \in Nat /\ frames'[k].node = q
    BY <1>2, <1>7, FramesAre DEF IInv, Path
  <2>3. \A j \in 1 .. y - 1 : nodes[q][j] \in Node
    <3>1. \A j \in 1 .. y - 1 : j \in 1 .. Len(nodes[q])
      BY <2>2
    <3>2. QED  BY <2>2, <3>1, ElementOfSeq
  <2>4. \A j \in 1 .. y - 1 : instance_set_computed[nodes[q][j]] => instance_set_computed'[nodes[q][j]]
    BY <2>3, <1>10
  <2>5. instance_set'[q] = instance_set[q] /\ ~instance_set_computed'[frames'[k].node]
    BY <2>2, <1>2, <1>10
  <2>6. Partial(frames[k].node, frames[k].next)'
    BY <2>4, <2>5, <1>2, <1>6, <1>7, StillPartial
  <2>7. QED  BY <2>5, <2>6
<1>19. ASSUME NEW q \in Node
       PROVE  instance_set_computed'[q] \/ instance_set'[q] = Nowhere \/ \E k \in 1 .. m - 1 : frames'[k].node = q
  <2>1. CASE q = n
    BY <2>1, <1>10
  <2>2. CASE q # n
    <3>1. SUFFICES ASSUME NEW k \in 1 .. m, frames[k].node = q  PROVE \E j \in 1 .. m - 1 : frames'[j].node = q
      BY <2>2, <1>10 DEF IInv, Computing
    <3>2. k \in 1 .. m - 1
      BY <1>2, <2>2, <3>1
    <3>3. frames'[k].node = q
      BY <1>7, <3>1, <3>2
    <3>4. QED  BY <3>2, <3>3
  <2>3. QED  BY <2>1, <2>2
<1>20. Computing'
  BY <1>1, <1>6, <1>7, <1>8, <1>17, <1>18, <1>19 DEF Computing, InSets
<1>21. instance_set' \in [Node -> Maps] /\ instance_set_computed' \in [Node -> BOOLEAN]
  <2>1. n \notin Ports => Inserted(instance_set[n], Owner(n), Own(n)) \in Maps
    BY <1>10, <1>13 DEF IsUses
  <2>2. QED  BY <2>1, <1>6, <1>9
<1>22. \A q \in Node : instance_set_computed[q] => instance_set_computed'[q] /\ instance_set'[q] = instance_set[q]
  BY <1>2, <1>10
<1>23. QED  BY <1>1, <1>6, <1>7, <1>20, <1>21, <1>22, SetsIInv

-----------------------------------------------------------------------------
(* A step of tarjan ().                                                    *)
LEMMA TarjanIInv ==
  ASSUME IInv, phase = "cycles", verdict = "none",
         UNCHANGED <<program, phase, todo, graph, sets, linked_instances, verdict>>,
         Path', frames' \in Seq(FrameType),
         state' \in [Node -> {"unmarked", "temporary", "marked"}],
         Colouring'
  PROVE  IInv'
<1>1. /\ UNCHANGED <<program, graph>> /\ nodes' = nodes /\ phase' = phase /\ todo' = todo
      /\ instance_set' = instance_set /\ instance_set_computed' = instance_set_computed
      /\ linked_instances' = linked_instances /\ verdict' = verdict
  BY DEF graph, sets
<1>2. GoodGraph' /\ Node' = Node /\ PreconditionUses' = PreconditionUses
  BY <1>1, Still DEF IInv
<1>3. FrameType' = FrameType /\ TodoType' = TodoType
  BY <1>1, <1>2 DEF FrameType, TodoType
<1>4. Shape'
  BY <1>1, <1>2, <1>3 DEF IInv, Shape
<1>5. Early'
  BY <1>1, <1>2 DEF IInv, Early
<1>6. Computing'
  <2>1. ASSUME NEW n \in Node, instance_set_computed[n]  PROVE Known(n)'
    BY <1>1, <2>1, StillKnown DEF IInv, Computing
  <2>2. \A n \in Node : instance_set_computed[n] \/ instance_set[n] = Nowhere
    BY DEF IInv, Computing, InSets
  <2>3. QED  BY <1>1, <1>2, <2>1, <2>2 DEF Computing, InSets
<1>7. Linked'
  <2>1. PICK L \in SUBSET PreconditionUses : Linking(L)
    BY DEF IInv, Linked
  <2>2. Linking(L)'
    BY <1>1, <1>2, <2>1 DEF Linking
  <2>3. QED  BY <1>2, <2>1, <2>2 DEF Linked
<1>8. Verdict'
  BY <1>1 DEF Verdict
<1>9. QED  BY <1>2, <1>4, <1>5, <1>6, <1>7, <1>8 DEF IInv

(* The path is what is temporary.                                          *)
LEMMA OnFrames ==
  ASSUME IInv, phase = "cycles", NEW n \in Node
  PROVE  /\ state[n] \in {"unmarked", "temporary", "marked"}
         /\ state[n] = "temporary" <=> \E k \in 1 .. Len(frames) : frames[k].node = n
BY DEF IInv, Shape, Colouring

(* tarjan () enters a node, from an action or a node before it.            *)
LEMMA EnterIInv ==
  ASSUME IInv, phase = "cycles", verdict = "none", NEW n \in Node, state[n] = "unmarked", Enter(n),
         frames = <<>> => \E a \in Actions : n \in Reach(a),
         frames # <<>> => AtChild /\ n = TheChild
  PROVE  IInv'
<1> DEFINE m == Len(frames)
<1>1. /\ state' = [state EXCEPT ![n] = "temporary"]
      /\ frames' = Append(frames, [node |-> n, next |-> 1])
      /\ UNCHANGED <<program, phase, todo, graph, sets, linked_instances, verdict>>
      /\ UNCHANGED <<program, graph>> /\ nodes' = nodes /\ phase' = phase /\ todo' = todo
  BY DEF Enter, Colour, graph
<1>2. \A k \in 1 .. m : frames[k].node # n
  BY OnFrames
<1>3. /\ Path' /\ frames' \in Seq(FrameType) /\ Len(frames') = m + 1 /\ m \in Nat
      /\ \A k \in 1 .. m : frames'[k] = frames[k]
      /\ frames'[m + 1].node = n /\ frames'[m + 1].next = 1
  BY <1>1, <1>2, PathPush, FramesAre
<1>4. Node' = Node /\ \A q : Recursive(q)' = Recursive(q)
  BY <1>1, Still
<1>5. state \in [Node -> {"unmarked", "temporary", "marked"}]
  BY DEF IInv, Shape
<1>6. state'[n] = "temporary" /\ \A q : q \in Node /\ q # n => state'[q] = state[q]
  BY <1>1, <1>5
<1>7. state' \in [Node -> {"unmarked", "temporary", "marked"}]
  BY <1>1, <1>5
<1>8. \A q \in Node : state'[q] = "marked" <=> state[q] = "marked"
  BY <1>6
<1>9. ASSUME NEW q \in Node, state'[q] = "marked"
      PROVE  ~Recursive(q) /\ \A c \in ToSet(nodes[q]) : state'[c] = "marked"
  <2>1. ~Recursive(q) /\ \A c \in ToSet(nodes[q]) : state[c] = "marked"
    BY <1>8, <1>9 DEF IInv, Colouring
  <2>2. ToSet(nodes[q]) \in SUBSET Node
    BY ReachFacts DEF IInv
  <2>3. QED  BY <2>1, <2>2, <1>8
<1>10. ASSUME NEW q \in Node
       PROVE  state'[q] = "temporary" <=> \E k \in 1 .. m + 1 : frames'[k].node = q
  <2>1. CASE q = n
    <3>1. m + 1 \in 1 .. m + 1
      BY <1>3
    <3>2. QED  BY <2>1, <3>1, <1>3, <1>6
  <2>2. CASE q # n
    <3>1. state'[q] = "temporary" <=> \E k \in 1 .. m : frames[k].node = q
      BY <2>2, <1>6, OnFrames
    <3>2. \A k : k \in 1 .. m + 1 <=> k \in 1 .. m \/ k = m + 1
      BY <1>3
    <3>3. QED  BY <2>2, <3>1, <3>2, <1>3
  <2>3. QED  BY <2>1, <2>2
<1>11. ASSUME NEW k \in 1 .. m + 1, NEW j \in 1 .. frames'[k].next - 1
       PROVE  state'[nodes[frames'[k].node][j]] = "marked"
  <2>1. k \in 1 .. m
    <3>1. k # m + 1
      BY <1>3, <1>11
    <3>2. QED  BY <3>1, <1>3
  <2>2. /\ frames'[k] = frames[k] /\ frames[k].next <= Len(nodes[frames[k].node]) + 1
        /\ frames[k].node \in Node /\ frames[k].next \in Nat /\ Len(nodes[frames[k].node]) \in Nat
        /\ nodes[frames[k].node] \in Seq(Node)
    BY <2>1, <1>3, FramesAre DEF IInv, Path
  <2>3. j \in 1 .. frames[k].next - 1
    BY <2>2, <1>11
  <2>4. j \in 1 .. Len(nodes[frames[k].node])
    BY <2>2, <2>3
  <2>5. nodes[frames[k].node][j] \in Node
    BY <2>2, <2>4, ElementOfSeq
  <2>6. state[nodes[frames[k].node][j]] = "marked"
    BY <2>1, <2>3 DEF IInv, Colouring
  <2>7. QED  BY <2>2, <2>5, <2>6, <1>8
<1>12. \A a \in Actions : state'[a] = "marked" \/ a \in ToSet(todo)
  <2>1. \A a \in Actions : a \in Node
    BY GraphFacts DEF IInv
  <2>2. QED  BY <2>1, <1>8 DEF IInv, Colouring
<1>13. Colouring'
  BY <1>1, <1>3, <1>4, <1>9, <1>10, <1>11, <1>12 DEF Colouring
<1>14. QED  BY <1>1, <1>3, <1>7, <1>13, TarjanIInv

LEMMA TarjanRootIInv ==
  ASSUME IInv, TarjanRoot
  PROVE  IInv'
<1> DEFINE a == Head(todo)
<1>1. verdict = "none" /\ phase = "cycles" /\ frames = <<>> /\ todo # <<>>
  BY DEF TarjanRoot, Working, Running
<1>2. GoodGraph /\ Shape /\ todo \in Seq(Actions)
  BY <1>1 DEF IInv, Shape, TodoType
<1>3. a \in Actions /\ Tail(todo) \in Seq(Actions) /\ ToSet(todo) = {a} \cup ToSet(Tail(todo))
  BY <1>1, <1>2, ToSetOfSeq
<1>4. a \in Node /\ a \in Reach(a)
  BY <1>2, <1>3, GraphFacts, ReachFacts
<1>5. CASE state[a] = "unmarked"
  <2>1. Enter(a)
    BY <1>5 DEF TarjanRoot
  <2> HIDE DEF a
  <2>2. QED  BY <1>1, <1>3, <1>4, <1>5, <2>1, EnterIInv
<1>6. CASE state[a] # "unmarked"
  <2>1. /\ todo' = Tail(todo)
        /\ UNCHANGED <<program, phase, graph, sets, state, linked_instances, frames, verdict>>
    BY <1>6 DEF TarjanRoot
  <2>2. Len(frames) = 0
    BY <1>1, EmptySeq
  <2>3. state[a] = "marked"
    BY <1>1, <1>4, <1>6, <2>2, OnFrames
  <2>4. todo' \in Seq(TodoType')
    BY <1>1, <1>3, <2>1 DEF TodoType
  <2>5. PICK L \in SUBSET PreconditionUses : Linking(L)
    BY <1>1 DEF IInv, Linked
  <2>6. PreconditionUses' = PreconditionUses
        /\ instance_set' = instance_set /\ instance_set_computed' = instance_set_computed
    BY <2>1, Still DEF sets
  <2>7. Linking(L)'
    BY <2>1, <2>5, <2>6, <1>1 DEF Linking
  <2>8. Linked'
    BY <2>5, <2>6, <2>7 DEF Linked
  <2>9. linked_instances' \in [Instances -> SUBSET Instances]
    BY <2>1, <1>2 DEF Shape
  <2>10. \A b \in Actions : state[b] = "marked" \/ b \in ToSet(todo')
    BY <1>1, <1>3, <2>1, <2>3 DEF IInv, Colouring
  <2>11. QED  BY <1>1, <2>1, <2>4, <2>8, <2>9, <2>10, PhaseIInv DEF Building, Phases
<1>7. QED  BY <1>5, <1>6

-----------------------------------------------------------------------------
(* A temporary child means E72 and is on a cycle.                          *)
LEMMA TarjanChildIInv ==
  ASSUME IInv, TarjanChild
  PROVE  IInv'
<1> DEFINE m == Len(frames)
           n == Top.node
           x == Top.next
           c == TheChild
<1>1. verdict = "none" /\ phase = "cycles" /\ frames # <<>> /\ AtChild
  BY DEF TarjanChild, Recursing
<1>2. /\ n \in Node /\ x \in 1 .. Len(nodes[n]) /\ c = nodes[n][x] /\ c \in Node
      /\ m \in Nat /\ m \in 1 .. m /\ n = frames[m].node /\ x = frames[m].next
  BY <1>1, ChildIs, FramesAre
<1>3. CASE state[c] = "unmarked" /\ Enter(c)
  <2> HIDE DEF c
  <2>1. c = TheChild
    BY DEF c
  <2>2. QED  BY <1>1, <1>2, <1>3, <2>1, EnterIInv
<1>4. CASE state[c] = "temporary" /\ End("E72")
  <2>1. \E k \in 1 .. m : frames[k].node = c
    BY <1>1, <1>2, <1>4, OnFrames
  <2>2. Cycle
    BY <1>1, <2>1, OnCycle
  <2>3. QED  BY <1>1, <1>4, <2>2, EndIInv DEF Verdicts
<1>5. CASE /\ state[c] = "marked" /\ frames' = Next1
           /\ UNCHANGED <<program, phase, todo, graph, sets, state, linked_instances, verdict>>
  <2>1. /\ UNCHANGED <<program, graph>> /\ nodes' = nodes /\ phase' = phase /\ todo' = todo /\ state' = state
    BY <1>5 DEF graph
  <2>2. /\ Path' /\ frames' \in Seq(FrameType) /\ Len(frames') = m
        /\ \A k \in 1 .. m - 1 : frames'[k] = frames[k]
        /\ frames'[m].node = n /\ frames'[m].next = x + 1
    BY <1>1, <1>5, <2>1, PathNext
  <2>3. Node' = Node /\ \A q : Recursive(q)' = Recursive(q)
    BY <2>1, Still
  <2>4. \A k \in 1 .. m : k \in 1 .. m - 1 \/ k = m
    BY <1>2
  <2>5. \A k \in 1 .. m : frames'[k].node = frames[k].node
    BY <1>2, <2>2, <2>4
  <2>6. ASSUME NEW k \in 1 .. m, NEW j \in 1 .. frames'[k].next - 1
        PROVE  state[nodes[frames'[k].node][j]] = "marked"
    <3>1. CASE k \in 1 .. m - 1
      <4>1. frames'[k] = frames[k]
        BY <3>1, <2>2
      <4>2. QED  BY <4>1, <2>6, <1>1 DEF IInv, Colouring
    <3>2. CASE k = m
      <4>1. j \in 1 .. x - 1 \/ j = x
        BY <3>2, <2>2, <2>6, <1>2
      <4>2. CASE j = x
        BY <4>2, <3>2, <2>2, <1>2, <1>5
      <4>3. CASE j \in 1 .. x - 1
        <5>1. state[nodes[frames[m].node][j]] = "marked"
          BY <4>3, <1>1, <1>2 DEF IInv, Colouring
        <5>2. QED  BY <5>1, <3>2, <2>2, <1>2
      <4>4. QED  BY <4>1, <4>2, <4>3
    <3>3. QED  BY <3>1, <3>2, <2>4
  <2>7. state \in [Node -> {"unmarked", "temporary", "marked"}]
    BY DEF IInv, Shape
  <2>8. Colouring'
    BY <1>1, <2>1, <2>2, <2>3, <2>5, <2>6 DEF IInv, Colouring
  <2>9. QED  BY <1>1, <1>5, <2>1, <2>2, <2>7, <2>8, TarjanIInv
<1>6. QED  BY <1>3, <1>4, <1>5 DEF TarjanChild

(* A node whose outgoing nodes are marked is not recursive: the marked     *)
(* nodes are closed and it is not one of them.                             *)
LEMMA TarjanLeaveIInv ==
  ASSUME IInv, TarjanLeave
  PROVE  IInv'
<1> DEFINE m == Len(frames)
           n == Top.node
           x == Top.next
<1>1. verdict = "none" /\ phase = "cycles" /\ frames # <<>> /\ ~AtChild
  BY DEF TarjanLeave, Recursing
<1>2. /\ n \in Node /\ n = frames[m].node /\ x = frames[m].next /\ x \in Nat \ {0}
      /\ m \in Nat \ {0} /\ m \in 1 .. m
      /\ nodes[n] \in Seq(Node) /\ Len(nodes[n]) \in Nat
  BY <1>1, FramesAre
<1>3. x = Len(nodes[n]) + 1
  <2>1. x <= Len(nodes[n]) + 1 /\ ~(x <= Len(nodes[n]))
    BY <1>1, <1>2 DEF IInv, Path, AtChild
  <2>2. QED  BY <1>2, <2>1
<1>4. /\ state' = [state EXCEPT ![n] = "marked"] /\ frames' = Below
      /\ UNCHANGED <<program, phase, todo, graph, sets, linked_instances, verdict>>
      /\ UNCHANGED <<program, graph>> /\ nodes' = nodes /\ phase' = phase /\ todo' = todo
  BY DEF TarjanLeave, graph
<1>5. /\ Path' /\ frames' \in Seq(FrameType) /\ Len(frames') = m - 1
      /\ \A k \in 1 .. m - 1 : frames'[k] = frames[k]
  BY <1>1, <1>4, PathPop
<1>6. Node' = Node /\ \A q : Recursive(q)' = Recursive(q)
  BY <1>4, Still
<1>7. state \in [Node -> {"unmarked", "temporary", "marked"}]
  BY DEF IInv, Shape
<1>8. state'[n] = "marked" /\ \A q \in Node : q # n => state'[q] = state[q]
  BY <1>2, <1>4, <1>7
<1>9. \A c \in ToSet(nodes[n]) : state[c] = "marked"
  <2>1. \A j \in 1 .. x - 1 : state[nodes[n][j]] = "marked"
    BY <1>1, <1>2 DEF IInv, Colouring
  <2>2. \A c \in ToSet(nodes[n]) : \E j \in 1 .. Len(nodes[n]) : nodes[n][j] = c
    BY <1>2, ToSetOfSeq
  <2>3. x - 1 = Len(nodes[n])
    BY <1>2, <1>3
  <2>4. QED  BY <2>1, <2>2, <2>3
<1>10. ~Recursive(n)
  <2> DEFINE S == {q \in Node : state[q] = "marked"}
  <2>1. GoodGraph
    BY DEF IInv
  <2>2. \A q \in Node : ToSet(nodes[q]) \in SUBSET Node
    BY <2>1, ReachFacts
  <2>3. ToSet(nodes[n]) \subseteq S
    BY <1>2, <1>9, <2>2
  <2>4. n \notin S
    <3>1. state[n] = "temporary"
      BY <1>1, <1>2, OnFrames
    <3>2. QED  BY <3>1
  <2>5. \A q \in S : ToSet(nodes[q]) \subseteq S
    BY <2>2 DEF IInv, Colouring
  <2>6. S \in SUBSET Node
    OBVIOUS
  <2> HIDE DEF S
  <2>7. QED  BY <1>2, <2>1, <2>3, <2>4, <2>5, <2>6, ReachFacts
<1>11. \A q \in Node : state[q] = "marked" => state'[q] = "marked"
  BY <1>8
<1>12. ASSUME NEW q \in Node, state'[q] = "marked"
       PROVE  ~Recursive(q) /\ \A c \in ToSet(nodes[q]) : state'[c] = "marked"
  <2>1. ToSet(nodes[q]) \in SUBSET Node
    BY ReachFacts DEF IInv
  <2>2. ~Recursive(q) /\ \A c \in ToSet(nodes[q]) : state[c] = "marked"
    <3>1. CASE q = n
      BY <3>1, <1>9, <1>10
    <3>2. CASE q # n
      BY <3>2, <1>8, <1>12 DEF IInv, Colouring
    <3>3. QED  BY <3>1, <3>2
  <2>3. QED  BY <2>1, <2>2, <1>11
<1>13. \A k \in 1 .. m - 1 : k \in 1 .. m /\ k # m
  BY <1>2
<1>14. \A k \in 1 .. m - 1 : frames[k].node # n
  BY <1>2, <1>13 DEF IInv, Path
<1>15. ASSUME NEW q \in Node
       PROVE  state'[q] = "temporary" <=> \E k \in 1 .. m - 1 : frames'[k].node = q
  <2>1. CASE q = n
    BY <2>1, <1>5, <1>8, <1>14
  <2>2. CASE q # n
    <3>1. state'[q] = "temporary" <=> \E k \in 1 .. m : frames[k].node = q
      BY <2>2, <1>1, <1>8, OnFrames
    <3>2. \A k \in 1 .. m : k \in 1 .. m - 1 \/ k = m
      BY <1>2
    <3>3. QED  BY <2>2, <3>1, <3>2, <1>2, <1>5, <1>13
  <2>3. QED  BY <2>1, <2>2
<1>16. ASSUME NEW k \in 1 .. m - 1, NEW j \in 1 .. frames'[k].next - 1
       PROVE  state'[nodes[frames'[k].node][j]] = "marked"
  <2>1. /\ k \in 1 .. m /\ frames'[k] = frames[k] /\ frames[k].next <= Len(nodes[frames[k].node]) + 1
        /\ frames[k].next \in Nat /\ Len(nodes[frames[k].node]) \in Nat
        /\ nodes[frames[k].node] \in Seq(Node)
    BY <1>5, <1>13, FramesAre DEF IInv, Path
  <2>2. j \in 1 .. frames[k].next - 1
    BY <2>1, <1>16
  <2>3. j \in 1 .. Len(nodes[frames[k].node])
    BY <2>1, <2>2
  <2>4. nodes[frames[k].node][j] \in Node
    BY <2>1, <2>3, ElementOfSeq
  <2>5. state[nodes[frames[k].node][j]] = "marked"
    BY <2>1, <2>2, <1>1 DEF IInv, Colouring
  <2>6. QED  BY <2>1, <2>4, <2>5, <1>11
<1>17. \A a \in Actions : state'[a] = "marked" \/ a \in ToSet(todo)
  <2>1. \A a \in Actions : a \in Node
    BY GraphFacts DEF IInv
  <2>2. QED  BY <2>1, <1>1, <1>11 DEF IInv, Colouring
<1>18. Colouring'
  BY <1>1, <1>4, <1>5, <1>6, <1>12, <1>15, <1>16, <1>17 DEF Colouring
<1>19. state' \in [Node -> {"unmarked", "temporary", "marked"}]
  BY <1>4, <1>7
<1>20. QED  BY <1>1, <1>4, <1>5, <1>18, <1>19, TarjanIInv

-----------------------------------------------------------------------------
(* The last action has its set.                                            *)
LEMMA AcceptIInv ==
  ASSUME IInv, Accept
  PROVE  IInv'
BY EndIInv DEF Accept, Running, Verdicts

(* Nothing changes.                                                        *)
LEMMA StutterIInv ==
  ASSUME IInv, UNCHANGED vars
  PROVE  IInv'
<1>1. /\ UNCHANGED <<program, graph>> /\ nodes' = nodes /\ phase' = phase /\ todo' = todo
      /\ instance_set' = instance_set /\ instance_set_computed' = instance_set_computed
      /\ linked_instances' = linked_instances /\ verdict' = verdict
      /\ frames' = frames /\ state' = state
  BY DEF vars, graph, sets
<1>2. /\ GoodGraph' /\ Node' = Node /\ PreconditionUses' = PreconditionUses
      /\ \A n : Reach(n)' = Reach(n) /\ Recursive(n)' = Recursive(n)
      /\ Cycle' = Cycle /\ Concurrency' = Concurrency
  BY <1>1, Still DEF IInv
<1>3. FrameType' = FrameType /\ TodoType' = TodoType
  BY <1>1, <1>2 DEF FrameType, TodoType
<1>4. Shape' /\ Early' /\ Path' /\ Colouring' /\ Verdict'
  BY <1>1, <1>2, <1>3 DEF IInv, Shape, Early, Path, Colouring, Verdict
<1>5. Computing'
  <2>1. ASSUME NEW n \in Node, instance_set_computed[n]  PROVE Known(n)'
    BY <1>1, <2>1, StillKnown DEF IInv, Computing
  <2>2. ASSUME NEW k \in 1 .. Len(frames), InSets
        PROVE  Partial(frames[k].node, frames[k].next)'
    BY <1>1, <2>2, StillPartial DEF IInv, Computing
  <2>3. QED  BY <1>1, <1>2, <2>1, <2>2 DEF IInv, Computing, InSets
<1>6. Linked'
  <2>1. SUFFICES ASSUME phase \in {"links", "structure", "cycles", "sets"}  PROVE Linked'
    BY <1>1 DEF Linked
  <2>2. PICK L \in SUBSET PreconditionUses : Linking(L)
    BY <2>1 DEF IInv, Linked
  <2>3. Linking(L)'
    BY <1>1, <1>2, <2>2 DEF Linking
  <2>4. QED  BY <1>2, <2>2, <2>3 DEF Linked
<1>7. QED  BY <1>2, <1>4, <1>5, <1>6 DEF IInv

(* The inductive invariant holds of the composer, whatever the instances,  *)
(* bodies and bindings are.                                                *)
THEOREM InvariantHolds == Spec => []IInv
<1>1. IInv /\ [Next]_vars => IInv'
  <2>1. SUFFICES ASSUME IInv, [Next]_vars  PROVE IInv'
    OBVIOUS
  <2>2. CASE Next
    BY <2>1, <2>2, ElaborateGetterIInv, ElaborateActionIInv, ElaborateReactionIInv, BindIInv,
       ContinueIInv, LinkIInv, ComputeSetIInv, EnterSetIInv, JoinSetIInv, LeaveSetIInv,
       CheckStructureIInv, TarjanRootIInv, TarjanChildIInv, TarjanLeaveIInv, AcceptIInv DEF Next
  <2>3. CASE UNCHANGED vars
    BY <2>1, <2>3, StutterIInv
  <2>4. QED  BY <2>1, <2>2, <2>3
<1>2. QED  BY InitIInv, <1>1, PTL DEF Spec

-----------------------------------------------------------------------------
(* What the invariant says at the end.                                     *)
LEMMA ComputedIsUses ==
  ASSUME IInv, NEW n \in Node, instance_set_computed[n]
  PROVE  instance_set[n] = Uses(n)
<1>1. IsUses(instance_set[n], Reach(n))
  BY DEF IInv, Computing, Known
<1>2. IsUses(Uses(n), Reach(n))
  BY UsesSpec DEF IInv
<1>3. QED  BY <1>1, <1>2, UsesUnique

LEMMA AcceptedIs ==
  ASSUME IInv, verdict = "accepted"
  PROVE  phase = "sets" /\ \A a \in Actions : a \in Node /\ instance_set_computed[a]
<1>1. phase = "sets" /\ todo = <<>>
  BY DEF IInv, Verdict
<1>2. \A x : x \notin ToSet(todo)
  BY <1>1 DEF ToSet
<1>3. QED  BY <1>1, <1>2, GraphFacts DEF IInv, Verdict

(* The set of every action of an accepted composition                      *)
(* (Action::instance_set), computed by recursion and joined from sets that *)
(* were cached before the checks, is the set of the instances its          *)
(* transaction reaches, each with the largest access.                      *)
THEOREM SetsExact == Spec => []SetsAreExact
<1>1. IInv => SetsAreExact
  BY AcceptedIs, ComputedIsUses DEF SetsAreExact
<1>2. QED  BY <1>1, InvariantHolds, PTL

(* tarjan () lets no cycle pass that a transaction could run into, and the *)
(* composer rejects a composition as recursive (E72), or exhausts the      *)
(* stack, only for such a cycle.                                           *)
THEOREM NoRecursion == Spec => []RecursionRejected
<1>1. ASSUME IInv, phase = "sets"  PROVE ~Cycle
  <2> DEFINE S == {n \in Node : state[n] = "marked"}
  <2>1. GoodGraph /\ \A n \in Node : ToSet(nodes[n]) \in SUBSET Node
    BY <1>1, ReachFacts DEF IInv
  <2>2. S \in SUBSET Node /\ \A n \in S : ToSet(nodes[n]) \subseteq S
    BY <1>1, <2>1 DEF IInv, Colouring
  <2>3. \A n \in S : ~Recursive(n)
    BY <1>1 DEF IInv, Colouring
  <2>4. \A a \in Actions : a \in Node /\ a \in S
    BY <1>1, <2>1, GraphFacts DEF IInv, Colouring
  <2> HIDE DEF S
  <2>5. \A a \in Actions : Reach(a) \subseteq S
    BY <2>1, <2>2, <2>4, ReachFacts
  <2>6. QED  BY <2>3, <2>5 DEF Cycle
<1>2. IInv => RecursionRejected
  BY <1>1 DEF RecursionRejected, IInv, Verdict, Cycle
<1>3. QED  BY <1>2, InvariantHolds, PTL

(* compute_dependent_instances () links an instance to exactly those whose *)
(* preconditions look at it, also through getters and pull ports of other  *)
(* instances.                                                              *)
THEOREM LinksExact == Spec => []LinkedExact
<1>1. ASSUME IInv, verdict = "accepted", NEW i \in Instances, NEW j \in Instances
      PROVE  j \in linked_instances[i] <=>
               \E a \in Actions : \E k \in DOMAIN precondition_nodes[a] :
                 Home[a] = j /\ i \in DOMAIN Uses(precondition_nodes[a][k])
  <2>1. phase = "sets" /\ GoodGraph
    BY <1>1, AcceptedIs DEF IInv
  <2>2. PICK L \in SUBSET PreconditionUses : Linking(L)
    BY <1>1, <2>1 DEF IInv, Linked
  <2>3. L = PreconditionUses
    BY <2>1, <2>2 DEF Linking
  <2>4. \A p \in PreconditionUses : instance_set_computed[p[2]] /\ instance_set[p[2]] = Uses(p[2])
    <3>1. \A p \in PreconditionUses : p[2] \in Node /\ instance_set_computed[p[2]]
      BY <2>1, <2>2, <2>3, GraphFacts DEF Linking, PreconditionUses, Pulled
    <3>2. QED  BY <1>1, <3>1, ComputedIsUses
  <2>5. j \in linked_instances[i] <=>
          \E p \in PreconditionUses : Home[p[1]] = j /\ i \in DOMAIN Uses(p[2])
    BY <2>2, <2>3, <2>4 DEF Linking
  <2>6. ASSUME NEW p \in PreconditionUses, Home[p[1]] = j, i \in DOMAIN Uses(p[2])
        PROVE  \E a \in Actions : \E k \in DOMAIN precondition_nodes[a] :
                 Home[a] = j /\ i \in DOMAIN Uses(precondition_nodes[a][k])
    <3>1. p[1] \in Actions /\ p[2] \in ToSet(precondition_nodes[p[1]])
      BY DEF PreconditionUses
    <3>2. PICK k \in DOMAIN precondition_nodes[p[1]] : precondition_nodes[p[1]][k] = p[2]
      BY <3>1 DEF ToSet
    <3>3. QED  BY <2>6, <3>1, <3>2
  <2>7. ASSUME NEW a \in Actions, NEW k \in DOMAIN precondition_nodes[a],
               Home[a] = j, i \in DOMAIN Uses(precondition_nodes[a][k])
        PROVE  \E p \in PreconditionUses : Home[p[1]] = j /\ i \in DOMAIN Uses(p[2])
    <3>1. precondition_nodes[a] \in Seq(Pulled)
      BY <2>1 DEF GoodGraph
    <3>2. DOMAIN precondition_nodes[a] = 1 .. Len(precondition_nodes[a])
      BY <3>1, LenProperties
    <3>3. precondition_nodes[a][k] \in Pulled /\ precondition_nodes[a][k] \in ToSet(precondition_nodes[a])
      BY <3>1, <3>2, ElementOfSeq DEF ToSet
    <3> DEFINE p == <<a, precondition_nodes[a][k]>>
    <3>4. p \in PreconditionUses /\ p[1] = a /\ p[2] = precondition_nodes[a][k]
      BY <3>3 DEF PreconditionUses, Pulled
    <3> HIDE DEF p
    <3>5. QED  BY <2>7, <3>4
  <2>8. QED  BY <2>5, <2>6, <2>7
<1>2. IInv => LinkedExact
  BY <1>1 DEF LinkedExact
<1>3. QED  BY <1>2, InvariantHolds, PTL

(* An accepted composition has no activation or port two branches of which *)
(* write the same instance, and E120, E137 and E138 are reported only for  *)
(* such (what is_compatible () is there for).                              *)
THEOREM NoConcurrentUpdates == Spec => []ConcurrentUpdatesRejected
<1>1. ASSUME IInv, verdict = "accepted"  PROVE ~Concurrency
  BY <1>1, AcceptedIs DEF Concurrency, IInv, Computing, Known
<1>2. IInv => ConcurrentUpdatesRejected
  BY <1>1 DEF ConcurrentUpdatesRejected, IInv, Verdict, Concurrency
<1>3. QED  BY <1>2, InvariantHolds, PTL
=============================================================================
