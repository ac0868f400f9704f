--------------------------- MODULE MCComposition ---------------------------
(* Compositions of a component (instance 1) that contains another          *)
(* (instance 2).                                                           *)
EXTENDS Composition

CONSTANTS a1, a2, r1, r2, r3, g1, g2, p1, p2, p3, q1

\* a1, a2, r1, r3, g1, p1, p3 and q1 belong to instance 1, r2, g2, p2 to 2.
HomeDef == [x \in {a1, a2, r1, r3, g1, p1, p3, q1} \cup {r2, g2, p2} |->
              IF x \in {r2, g2, p2} THEN 2 ELSE 1]

Reading == [c \in Callables |-> Read]
\* Methods called through a receiver that may not be written.
Careless == [c \in Callables |-> IF c \in {r1, r3, g2} THEN Write ELSE Read]
Little == [c \in Callables |-> IF c \in {a1, g2} THEN None ELSE Read]

Of(pre, A1, A2, R1, R2, R3, G1, G2, acc, push, pull) ==
  [precondition |-> [a \in Actions |-> IF a = a1 THEN pre ELSE <<>>],
   body |-> [c \in Callables |->
               CASE c = a1 -> A1 [] c = a2 -> A2 [] c = r1 -> R1 [] c = r2 -> R2
                 [] c = r3 -> R3 [] c = g1 -> G1 [] c = g2 -> G2],
   precondition_access |-> [a \in Actions |-> IF a = a1 /\ acc = Little THEN Read
                                             ELSE IF a = a1 /\ acc = Careless THEN Write ELSE None],
   immutable_phase_access |-> acc,
   bindings |-> push \o pull]

\* Actions, reactions and push ports.
Pushing ==
  {Of(<<>>, A1, A2, R1, R2, R3, <<>>, <<>>, acc, push, <<<<q1, g2>>>>) :
     A1 \in {<<Activate(Read), Push(p1)>>,
             <<Activate(Write), Push(p1), Push(p3)>>,
             <<Call(g1), Activate(None), Push(p1), Push(p1)>>,
             <<Activate(None), Push(p1), Activate(Write), Push(p3)>>},
     A2 \in {<<>>, <<Activate(Read), Push(p3)>>},
     R1 \in {<<>>, <<Activate(Write)>>, <<Call(q1), Activate(Read), Push(p1)>>},
     R2 \in {<<>>, <<Activate(Write)>>, <<Activate(Write), Push(p2)>>,
             <<Call(g2), Activate(Read)>>},
     R3 \in {<<>>, <<Activate(Write)>>},
     acc \in {Reading, Careless},
     push \in {<<>>, <<<<p1, r2>>>>, <<<<p1, r1>>>>,
               <<<<p1, r2>>, <<p3, r1>>>>,
               <<<<p1, r1>>, <<p1, r3>>>>,
               <<<<p1, r2>>, <<p2, r1>>>>,
               <<<<p1, r2>>, <<p1, r1>>, <<p3, r3>>>>,
               <<<<p1, r2>>, <<p3, r2>>>>}}

\* Preconditions, getters and pull ports.
Pulling ==
  {Of(pre, A1, <<>>, <<Activate(Write)>>, <<>>, <<>>, G1, G2, acc, <<<<p1, r1>>>>, pull) :
     pre \in {<<>>, <<Call(g1)>>, <<Call(g2), Call(q1)>>},
     A1 \in {<<Call(g1), Activate(Write)>>, <<Call(q1), Activate(None), Push(p1)>>},
     G1 \in {<<>>, <<Call(g2)>>, <<Call(q1)>>},
     G2 \in {<<>>, <<Call(g2)>>},
     acc \in {Reading, Little, Careless},
     pull \in {<<>>, <<<<q1, g1>>>>, <<<<q1, g2>>>>,
               <<<<q1, g1>>, <<q1, g2>>>>}}
ProgramsDef == Pushing \cup Pulling
=============================================================================
