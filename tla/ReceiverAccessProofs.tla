------------------------ MODULE ReceiverAccessProofs ------------------------
(* The pass covers what it looks at, for programs of every size.           *)
EXTENDS ReceiverAccess, TLAPS

(* What a tree denotes where the visitor looks: a pointer whose rights a   *)
(* method has gained is nobody's there.                                    *)
Plain(v) == IF v.beyond THEN "local" ELSE v.of

(* What the annotations of every tree have in common: s, a, m are what the *)
(* visitor writes down, o, r what the tree denotes, t, l what it does.  A  *)
(* value that points into the receiver has been paid for, or is marked as  *)
(* receiver state; a mark on anything else comes from a mutable pointer    *)
(* that went in.                                                           *)
Paid(f, s, a, m, o, r, t, l) ==
  /\ f # "stmt" => m = None
  /\ t <= Larger(a, m) /\ l <= Larger(a, m)
  /\ o = "value" => r = None
  /\ o = "receiver" => r >= Read
  /\ o = "receiver" /\ ~s => r <= a
  /\ s => a >= Read
  /\ f = "args" /\ s => t = Write \/ l = Write
  /\ s /\ o # "receiver" => t = Write \/ l = Write
  /\ Larger(a, m) = Write => t = Write \/ l = Write
Sound(e) == Paid(e.form, e.eval.state, e.eval.access, e.eval.mutable, Plain(e.value),
                 e.value.rights, e.does.seen.touch, e.does.seen.leak)

Good(e) == e \in Tree /\ Sound(e)

IInv == /\ stack \in Seq(Tree)
        /\ \A i \in DOMAIN stack : Good(stack[i])
        /\ phase \in {"immutable", "mutable"}
        /\ nodes \in 0 .. MaxNodes

USE DEF None, Read, Write, Access

(* The parts of effects and of a tree.                                     *)
LEMMA DoingsParts ==
  ASSUME NEW d \in Doings
  PROVE  /\ d.seen \in Effect
         /\ d.seen.touch \in Access /\ d.seen.leak \in Access /\ d.seen.via \in Access
BY DEF Doings, Way, Effect

LEMMA Parts ==
  ASSUME NEW e \in Tree
  PROVE  /\ e.form \in Form
         /\ e.eval \in Eval /\ e.value \in Value
         /\ e.eval.state \in BOOLEAN /\ e.eval.access \in Access /\ e.eval.mutable \in Access
         /\ e.value.of \in Denotes /\ Plain(e.value) \in Denotes
         /\ e.value.rights \in Access /\ e.value.ptr \in BOOLEAN /\ e.value.beyond \in BOOLEAN
         /\ e.does \in Doings
         /\ e.does.seen.touch \in Access /\ e.does.seen.leak \in Access
<1>1. /\ e.eval \in Eval /\ e.value \in Value /\ e.does \in Doings /\ e.form \in Form
  BY DEF Tree
<1>2. e.does.seen.touch \in Access /\ e.does.seen.leak \in Access
  BY <1>1, DoingsParts
<1>3. QED  BY <1>1, <1>2 DEF Eval, Value, Plain, Denotes

(* A tree put together from parts.                                         *)
LEMMA NodeInTree ==
  ASSUME NEW f \in Form, NEW a \in Eval, NEW v \in Value, NEW d \in Doings
  PROVE  /\ Node(f, a, v, d) \in Tree
         /\ Node(f, a, v, d).eval = a
         /\ Node(f, a, v, d).value = v
         /\ Node(f, a, v, d).does = d
         /\ Node(f, a, v, d).form = f
BY DEF Node, Tree

(* A node is good if its annotations are.                                  *)
LEMMA GoodNode ==
  ASSUME NEW f \in Form, NEW a \in Eval, NEW v \in Value, NEW d \in Doings,
         Paid(f, a.state, a.access, a.mutable, Plain(v), v.rights, d.seen.touch, d.seen.leak)
  PROVE  Good(Node(f, a, v, d))
BY NodeInTree DEF Good, Sound

(* Effects stay effects.                                                   *)
LEMMA EffectTotal ==
  ASSUME NEW c \in Effect, NEW d \in Effect
  PROVE  /\ c ++ d \in Effect
         /\ (c ++ d).touch = Larger(c.touch, d.touch)
         /\ (c ++ d).leak = Larger(c.leak, d.leak)
BY DEF Effect, Doing, ++, Larger

LEMMA EffectSum ==
  ASSUME NEW c \in Doings, NEW d \in Doings
  PROVE  /\ c \oplus d \in Doings
         /\ (c \oplus d).seen.touch = Larger(c.seen.touch, d.seen.touch)
         /\ (c \oplus d).seen.leak = Larger(c.seen.leak, d.seen.leak)
<1>1. /\ c \in [Way -> Effect] /\ d \in [Way -> Effect] /\ "seen" \in Way
  BY DEF Doings, Way
<1>2. \A w \in Way : c[w] ++ d[w] \in Effect
  BY <1>1, EffectTotal
<1>3. c \oplus d \in Doings /\ (c \oplus d)["seen"] = c["seen"] ++ d["seen"]
  BY <1>1, <1>2 DEF \oplus, Doings
<1>4. c["seen"] \in Effect /\ d["seen"] \in Effect
  BY <1>1
<1>5. QED  BY <1>3, <1>4, EffectTotal

LEMMA SimpleEffects ==
  /\ Nothing \in Effect /\ Nothing.touch = None /\ Nothing.leak = None
  /\ \A a \in Access :
       /\ Touch(a) \in Effect /\ Touch(a).touch = a /\ Touch(a).leak = None
       /\ Leak(a) \in Effect /\ Leak(a).touch = None /\ Leak(a).leak = a
       /\ Via(a) \in Effect /\ Via(a).touch = None /\ Via(a).leak = None
BY DEF Nothing, Touch, Leak, Via, Doing, Effect

(* What is done in one way only.                                           *)
LEMMA InOneWay ==
  ASSUME NEW w \in Way, NEW x \in Effect
  PROVE  /\ In(w, x) \in Doings
         /\ w = "seen" => In(w, x).seen.touch = x.touch /\ In(w, x).seen.leak = x.leak
         /\ w # "seen" => In(w, x).seen.touch = None /\ In(w, x).seen.leak = None
<1>1. In(w, x) \in Doings
  BY SimpleEffects DEF In, Doings
<1>2. /\ w = "seen" => In(w, x)["seen"] = x
      /\ w # "seen" => In(w, x)["seen"] = Nothing
  BY DEF In, Way
<1>3. QED  BY <1>1, <1>2, SimpleEffects

LEMMA IdleIsIdle ==
  Idle \in Doings /\ Idle.seen.touch = None /\ Idle.seen.leak = None
<1>1. "seen" \in Way /\ Nothing \in Effect /\ Nothing.touch = None /\ Nothing.leak = None
  BY SimpleEffects DEF Way
<1>2. QED  BY <1>1, InOneWay DEF Idle

LEMMA WayParts == \A e : WayOf(e) \in Way /\ (WayOf(e) = "seen" <=> ~e.value.beyond)
BY DEF WayOf, Way

(* What using a value does where the visitor looks.                        *)
LEMMA Using ==
  ASSUME NEW e, Good(e), NEW x \in Access
  PROVE  /\ Use(e, x) \in Doings
         /\ Use(e, x).seen.touch = IF Plain(e.value) = "receiver" THEN x ELSE None
         /\ Use(e, x).seen.leak = None
<1> DEFINE y == CASE e.value.of = "receiver" -> Touch(x)
                  [] e.value.of = "local" -> Via(x)
                  [] OTHER -> Nothing
<1>1. /\ y \in Effect /\ y.leak = None
      /\ y.touch = IF e.value.of = "receiver" THEN x ELSE None
  BY SimpleEffects
<1>2. Use(e, x) = In(WayOf(e), y)
  BY DEF Use
<1> HIDE DEF y
<1>3. e.value.beyond \in BOOLEAN
  BY Parts DEF Good
<1>4. CASE e.value.beyond
  BY <1>1, <1>2, <1>4, WayParts, InOneWay DEF Plain
<1>5. CASE ~e.value.beyond
  BY <1>1, <1>2, <1>5, WayParts, InOneWay DEF Plain
<1>6. QED  BY <1>3, <1>4, <1>5

(* Reading what the value denotes is paid for.                             *)
LEMMA ReadingPaid ==
  ASSUME NEW e, Good(e)
  PROVE  /\ Reading(e) \in Doings
         /\ Reading(e).seen.touch <= e.eval.access /\ Reading(e).seen.touch \in {None, Read}
         /\ Reading(e).seen.leak = None
<1>1. /\ e.eval.state \in BOOLEAN /\ e.eval.access \in Access /\ e.value.rights \in Access
      /\ Sound(e)
  BY Parts DEF Good
<1>2. CASE Plain(e.value) = "receiver"
  <2>1. Read <= e.eval.access
    BY <1>1, <1>2 DEF Sound, Paid
  <2>2. QED  BY <1>2, <2>1, Using DEF Reading
<1>3. CASE Plain(e.value) # "receiver"
  BY <1>1, <1>3, Using DEF Reading
<1>4. QED  BY <1>2, <1>3

-----------------------------------------------------------------------------
(* Expressions.                                                            *)
LEMMA LeafGood ==
  ASSUME NEW f \in Form
  PROVE  Good(Leaf(f, NoAccess, Mere))
<1>1. NoAccess \in Eval /\ Mere \in Value
  BY DEF NoAccess, Marked, Mere, Denoting, Gaining, Eval, Value, Denotes
<1>2. Paid(f, NoAccess.state, NoAccess.access, NoAccess.mutable, Plain(Mere), Mere.rights,
           Idle.seen.touch, Idle.seen.leak)
  BY IdleIsIdle DEF NoAccess, Marked, Mere, Denoting, Gaining, Plain, Paid, Larger
<1>3. QED  BY <1>1, <1>2, IdleIsIdle, GoodNode DEF Leaf

LEMMA LocalGood ==
  ASSUME NEW p \in BOOLEAN
  PROVE  Good(Leaf("expr", NoAccess, Denoting("variable", Write, p)))
<1> DEFINE v == Denoting("variable", Write, p)
<1>1. NoAccess \in Eval /\ v \in Value /\ Plain(v) = "variable" /\ v.rights = Write
  BY DEF NoAccess, Marked, Denoting, Gaining, Plain, Eval, Value, Denotes
<1> HIDE DEF v
<1>2. Paid("expr", NoAccess.state, NoAccess.access, NoAccess.mutable, Plain(v), v.rights,
           Idle.seen.touch, Idle.seen.leak)
  BY <1>1, IdleIsIdle DEF NoAccess, Marked, Paid, Larger
<1>3. Good(Node("expr", NoAccess, v, Idle))
  BY <1>1, <1>2, IdleIsIdle, GoodNode DEF Form
<1>4. QED  BY <1>3 DEF Leaf, v

LEMMA ThisGood ==
  ASSUME NEW r \in {Read, Write}
  PROVE  Good(Leaf("expr", Marked(TRUE, Read, None), Denoting("receiver", r, TRUE)))
<1> DEFINE a == Marked(TRUE, Read, None)
           v == Denoting("receiver", r, TRUE)
<1>1. /\ a \in Eval /\ a.state = TRUE /\ a.access = Read /\ a.mutable = None
      /\ v \in Value /\ Plain(v) = "receiver" /\ v.rights = r
  BY DEF Marked, Denoting, Gaining, Plain, Eval, Value, Denotes
<1> HIDE DEF a, v
<1>2. Paid("expr", a.state, a.access, a.mutable, Plain(v), v.rights, Idle.seen.touch, Idle.seen.leak)
  BY <1>1, IdleIsIdle DEF Paid, Larger
<1>3. Good(Node("expr", a, v, Idle))
  BY <1>1, <1>2, IdleIsIdle, GoodNode DEF Form
<1>4. QED  BY <1>3 DEF Leaf, a, v

LEMMA DeriveGood ==
  ASSUME NEW e, Good(e), e.form = "expr", NEW p \in BOOLEAN, NEW r \in {Read, Write}, r <= e.value.rights,
         NEW o \in Places(e)
  PROVE  Good(Derived(e, o, r, p))
<1> DEFINE v == Gaining(o, r, p, e.value.beyond)
<1>1. e \in Tree /\ Sound(e)
  BY DEF Good
<1>2. /\ e.eval \in Eval /\ e.does \in Doings
      /\ e.eval.state \in BOOLEAN /\ e.eval.access \in Access /\ e.eval.mutable \in Access
      /\ e.value.of \in Denotes /\ e.value.rights \in Access /\ e.value.beyond \in BOOLEAN
  BY <1>1, Parts
<1>3. o \in Denotes /\ (o = e.value.of \/ (o = "local" /\ e.value.of = "variable"))
  BY <1>2 DEF Places, Denotes
<1>4. v \in Value /\ v.of = o /\ v.rights = r /\ v.beyond = e.value.beyond
  BY <1>2, <1>3 DEF Gaining, Value
<1> HIDE DEF v
<1>5. Plain(v) = Plain(e.value) \/ (Plain(v) = "local" /\ Plain(e.value) = "variable")
  BY <1>2, <1>3, <1>4 DEF Plain
<1>6. Paid("expr", e.eval.state, e.eval.access, e.eval.mutable, Plain(v), r,
           e.does.seen.touch, e.does.seen.leak)
  BY <1>1, <1>2, <1>5 DEF Sound, Paid
<1>7. Good(Node("expr", e.eval, v, e.does))
  BY <1>2, <1>4, <1>6, GoodNode DEF Form
<1>8. QED  BY <1>7 DEF Derived, v

LEMMA IndexGood ==
  ASSUME NEW b, Good(b), NEW i, Good(i), b.form = "expr", i.form = "expr",
         NEW p \in BOOLEAN, NEW o \in Places(b)
  PROVE  Good(Indexed(b, i, o, p))
<1> DEFINE d == (b.does \oplus i.does) \oplus Reading(i)
           a == Marked(b.eval.state, Larger(b.eval.access, i.eval.access), b.eval.mutable)
           v == Gaining(o, b.value.rights, p, b.value.beyond)
<1>0. b \in Tree /\ i \in Tree /\ Sound(b) /\ Sound(i)
  BY DEF Good
<1>1. /\ d \in Doings
      /\ d.seen.touch = Larger(Larger(b.does.seen.touch, i.does.seen.touch), Reading(i).seen.touch)
      /\ d.seen.leak = Larger(Larger(b.does.seen.leak, i.does.seen.leak), Reading(i).seen.leak)
  BY <1>0, EffectSum, ReadingPaid, Parts
<1>2. /\ b.eval.state \in BOOLEAN /\ b.eval.access \in Access /\ b.eval.mutable \in Access
      /\ b.value.of \in Denotes /\ b.value.rights \in Access /\ b.value.beyond \in BOOLEAN
      /\ i.eval.access \in Access /\ i.eval.mutable \in Access
      /\ b.does.seen.touch \in Access /\ b.does.seen.leak \in Access
      /\ i.does.seen.touch \in Access /\ i.does.seen.leak \in Access
  BY <1>0, Parts
<1>3. o \in Denotes /\ (o = b.value.of \/ (o = "local" /\ b.value.of = "variable"))
  BY <1>2 DEF Places, Denotes
<1>4. /\ a \in Eval
      /\ a.state = b.eval.state /\ a.access = Larger(b.eval.access, i.eval.access)
      /\ a.mutable = b.eval.mutable
  BY <1>2 DEF Marked, Eval, Larger
<1>5. v \in Value /\ v.of = o /\ v.rights = b.value.rights /\ v.beyond = b.value.beyond
  BY <1>2, <1>3 DEF Gaining, Value
<1> HIDE DEF d, a, v
<1>51. Plain(v) = Plain(b.value) \/ (Plain(v) = "local" /\ Plain(b.value) = "variable")
  BY <1>2, <1>3, <1>5 DEF Plain
<1>6. Paid("expr", a.state, a.access, a.mutable, Plain(v), v.rights, d.seen.touch, d.seen.leak)
  BY <1>0, <1>1, <1>2, <1>4, <1>5, <1>51, ReadingPaid DEF Sound, Paid, Larger
<1>7. Good(Node("expr", a, v, d))
  BY <1>1, <1>4, <1>5, <1>6, GoodNode DEF Form
<1>8. QED  BY <1>7 DEF Indexed, d, a, v
(* What an activity of one child or of two children asks for.              *)
LEMMA AccessingParts ==
  ASSUME NEW a \in Eval, NEW b \in Eval
  PROVE  /\ Accessing(a, b) \in Eval
         /\ Accessing(a, b).state = FALSE
         /\ Accessing(a, b).access = Larger(a.access, b.access)
         /\ Accessing(a, b).mutable = Larger(a.mutable, b.mutable)
BY DEF Accessing, Marked, Eval, Larger

LEMMA NoAccessParts ==
  NoAccess \in Eval /\ NoAccess.access = None /\ NoAccess.mutable = None
BY DEF NoAccess, Marked, Eval

(* The parts of a good tree.                                               *)
LEMMA GoodParts ==
  ASSUME NEW e, Good(e)
  PROVE  /\ e \in Tree /\ e.form \in Form
         /\ e.eval \in Eval /\ e.value \in Value
         /\ e.eval.state \in BOOLEAN /\ e.eval.access \in Access /\ e.eval.mutable \in Access
         /\ Plain(e.value) \in Denotes /\ e.value.of \in Denotes /\ e.value.beyond \in BOOLEAN
         /\ e.value.rights \in Access /\ e.value.ptr \in BOOLEAN
         /\ e.does \in Doings
         /\ e.does.seen.touch \in Access /\ e.does.seen.leak \in Access
         /\ Paid(e.form, e.eval.state, e.eval.access, e.eval.mutable, Plain(e.value),
                 e.value.rights, e.does.seen.touch, e.does.seen.leak)
BY Parts DEF Good, Sound

(* A node without a value that does what its child does, and x.            *)
LEMMA OneGood ==
  ASSUME NEW e, Good(e), NEW f \in Form, f = "stmt" \/ e.form # "stmt", f # "args",
         NEW x \in Doings,
         x.seen.touch \in Access, x.seen.leak \in Access,
         x.seen.touch <= e.eval.access, x.seen.leak <= e.eval.access
  PROVE  Good(Node(f, Accessing(e.eval, NoAccess), Mere, e.does \oplus x))
<1> DEFINE a == Accessing(e.eval, NoAccess)
           d == e.does \oplus x
<1>1. /\ e.eval \in Eval /\ e.eval.access \in Access /\ e.eval.mutable \in Access
      /\ e.does \in Doings /\ e.does.seen.touch \in Access /\ e.does.seen.leak \in Access
      /\ Paid(e.form, e.eval.state, e.eval.access, e.eval.mutable, Plain(e.value),
              e.value.rights, e.does.seen.touch, e.does.seen.leak)
  BY GoodParts
<1>2. /\ a \in Eval /\ a.state = FALSE
      /\ a.access = e.eval.access /\ a.mutable = e.eval.mutable
  <2>1. /\ a \in Eval /\ a.state = FALSE
        /\ a.access = Larger(e.eval.access, None) /\ a.mutable = Larger(e.eval.mutable, None)
    <3>1. PICK b, c : b = e.eval /\ c = NoAccess
      OBVIOUS
    <3>2. b \in Eval /\ c \in Eval /\ c.access = None /\ c.mutable = None
      BY <1>1, <3>1, NoAccessParts
    <3>3. /\ Accessing(b, c) \in Eval /\ Accessing(b, c).state = FALSE
          /\ Accessing(b, c).access = Larger(b.access, c.access)
          /\ Accessing(b, c).mutable = Larger(b.mutable, c.mutable)
      BY <3>2, AccessingParts
    <3>4. QED  BY <3>1, <3>2, <3>3
  <2>2. QED  BY <1>1, <2>1 DEF Larger
<1>3. /\ d \in Doings
      /\ d.seen.touch = Larger(e.does.seen.touch, x.seen.touch) /\ d.seen.leak = Larger(e.does.seen.leak, x.seen.leak)
  BY <1>1, EffectSum
<1>4. Mere \in Value /\ Plain(Mere) = "value" /\ Mere.rights = None
  BY DEF Mere, Denoting, Gaining, Plain, Value, Denotes
<1> HIDE DEF a, d
<1>5. Paid(f, a.state, a.access, a.mutable, Plain(Mere), Mere.rights, d.seen.touch, d.seen.leak)
  BY <1>1, <1>2, <1>3, <1>4 DEF Paid, Larger
<1>6. QED  BY <1>2, <1>3, <1>4, <1>5, GoodNode DEF a, d

(* A node without a value that does what its children do, and x.           *)
LEMMA TwoGood ==
  ASSUME NEW b, Good(b), NEW e, Good(e), NEW f \in Form,
         f = "stmt" \/ (b.form # "stmt" /\ e.form # "stmt"), f # "args",
         NEW x \in Doings,
         x.seen.touch \in Access, x.seen.leak \in Access,
         x.seen.touch <= Larger(b.eval.access, e.eval.access),
         x.seen.leak <= Larger(b.eval.access, e.eval.access)
  PROVE  Good(Node(f, Accessing(b.eval, e.eval), Mere, (b.does \oplus e.does) \oplus x))
<1> DEFINE a == Accessing(b.eval, e.eval)
           d == (b.does \oplus e.does) \oplus x
<1>1. /\ e.eval \in Eval /\ e.eval.access \in Access /\ e.eval.mutable \in Access
      /\ e.does \in Doings /\ e.does.seen.touch \in Access /\ e.does.seen.leak \in Access
      /\ Paid(e.form, e.eval.state, e.eval.access, e.eval.mutable, Plain(e.value),
              e.value.rights, e.does.seen.touch, e.does.seen.leak)
  BY GoodParts
<1>2. /\ b.eval \in Eval /\ b.eval.access \in Access /\ b.eval.mutable \in Access
      /\ b.does \in Doings /\ b.does.seen.touch \in Access /\ b.does.seen.leak \in Access
      /\ Paid(b.form, b.eval.state, b.eval.access, b.eval.mutable, Plain(b.value),
              b.value.rights, b.does.seen.touch, b.does.seen.leak)
  BY GoodParts
<1>3. /\ a \in Eval /\ a.state = FALSE
      /\ a.access = Larger(b.eval.access, e.eval.access)
      /\ a.mutable = Larger(b.eval.mutable, e.eval.mutable)
  BY <1>1, <1>2, AccessingParts
<1>4. /\ d \in Doings
      /\ d.seen.touch = Larger(Larger(b.does.seen.touch, e.does.seen.touch), x.seen.touch)
      /\ d.seen.leak = Larger(Larger(b.does.seen.leak, e.does.seen.leak), x.seen.leak)
  BY <1>1, <1>2, EffectSum
<1>5. Mere \in Value /\ Plain(Mere) = "value" /\ Mere.rights = None
  BY DEF Mere, Denoting, Gaining, Plain, Value, Denotes
<1> HIDE DEF a, d
<1>6. Paid(f, a.state, a.access, a.mutable, Plain(Mere), Mere.rights, d.seen.touch, d.seen.leak)
  BY <1>1, <1>2, <1>3, <1>4, <1>5 DEF Paid, Larger
<1>7. QED  BY <1>3, <1>4, <1>5, <1>6, GoodNode DEF a, d

(* Reading one or two values, on top of what the children do.              *)
LEMMA OverGood ==
  ASSUME NEW e, Good(e), e.form = "expr", NEW f \in {"expr", "stmt"}
  PROVE  Good(Over(f, e, Reading(e)))
<1>1. /\ Reading(e) \in Doings /\ Reading(e).seen.touch \in Access /\ Reading(e).seen.leak \in Access
      /\ Reading(e).seen.touch <= e.eval.access /\ Reading(e).seen.leak <= e.eval.access
      /\ e.eval.access \in Access
  BY ReadingPaid, GoodParts
<1>2. QED  BY <1>1, OneGood DEF Over, Form

LEMMA BothGood ==
  ASSUME NEW b, Good(b), NEW e, Good(e), NEW f \in {"expr", "stmt", "ports"},
         f = "stmt" \/ (b.form # "stmt" /\ e.form # "stmt"),
         NEW x \in {Idle, Reading(e), Reading(b) \oplus Reading(e)}
  PROVE  Good(Both(f, b, e, x))
<1>1. /\ Reading(e) \in Doings /\ Reading(e).seen.touch \in Access /\ Reading(e).seen.leak = None
      /\ Reading(e).seen.touch <= e.eval.access /\ e.eval.access \in Access
  BY ReadingPaid, GoodParts
<1>2. /\ Reading(b) \in Doings /\ Reading(b).seen.touch \in Access /\ Reading(b).seen.leak = None
      /\ Reading(b).seen.touch <= b.eval.access /\ b.eval.access \in Access
  BY ReadingPaid, GoodParts
<1>3. /\ Reading(b) \oplus Reading(e) \in Doings
      /\ (Reading(b) \oplus Reading(e)).seen.touch = Larger(Reading(b).seen.touch, Reading(e).seen.touch)
      /\ (Reading(b) \oplus Reading(e)).seen.leak = Larger(Reading(b).seen.leak, Reading(e).seen.leak)
  BY <1>1, <1>2, EffectSum
<1>4. /\ x \in Doings /\ x.seen.touch \in Access /\ x.seen.leak \in Access
      /\ x.seen.touch <= Larger(b.eval.access, e.eval.access)
      /\ x.seen.leak <= Larger(b.eval.access, e.eval.access)
  BY <1>1, <1>2, <1>3, IdleIsIdle DEF Larger
<1>5. QED  BY <1>4, TwoGood DEF Both, Form
-----------------------------------------------------------------------------
(* Statements.                                                             *)

(* A pointer into the receiver that is put in a variable without being     *)
(* checked for is one that has been paid for.                              *)
LEMMA CarriedPaid ==
  ASSUME NEW e, Good(e)
  PROVE  /\ Carried(e) \in Access /\ Escapes(e) \in BOOLEAN
         /\ ~Escapes(e) /\ ~e.value.beyond => Carried(e) <= e.eval.access
         /\ Escapes(e) => \/ Carried(e) = Write /\ ~e.value.beyond
                          \/ e.does.seen.touch = Write \/ e.does.seen.leak = Write
<1>1. /\ e.value.of \in Denotes /\ e.value.rights \in Access /\ e.value.ptr \in BOOLEAN
      /\ e.value.beyond \in BOOLEAN /\ e.eval.state \in BOOLEAN /\ e.eval.access \in Access
      /\ Paid(e.form, e.eval.state, e.eval.access, e.eval.mutable, Plain(e.value),
              e.value.rights, e.does.seen.touch, e.does.seen.leak)
  BY GoodParts
<1>2. CASE e.value.beyond
  BY <1>1, <1>2 DEF Paid, Plain, Carried, Escapes, MutablePointer
<1>3. CASE ~e.value.beyond
  <2>1. Plain(e.value) = e.value.of
    BY <1>3 DEF Plain
  <2>2. QED  BY <1>1, <1>3, <2>1 DEF Paid, Carried, Escapes, MutablePointer
<1>4. QED  BY <1>1, <1>2, <1>3

(* A leak where the value is seen.                                         *)
LEMMA Leaking ==
  ASSUME NEW e, Good(e)
  PROVE  /\ In(WayOf(e), Leak(Carried(e))) \in Doings
         /\ In(WayOf(e), Leak(Carried(e))).seen.touch = None
         /\ In(WayOf(e), Leak(Carried(e))).seen.leak
              = IF e.value.beyond THEN None ELSE Carried(e)
<1>1. /\ Leak(Carried(e)) \in Effect
      /\ Leak(Carried(e)).touch = None /\ Leak(Carried(e)).leak = Carried(e)
  BY CarriedPaid, SimpleEffects
<1>2. e.value.beyond \in BOOLEAN
  BY GoodParts
<1>3. QED  BY <1>1, <1>2, WayParts, InOneWay

LEMMA BindingPaid ==
  ASSUME NEW e, Good(e)
  PROVE  /\ Binding(e) \in Doings
         /\ Reading(e) \oplus Binding(e) \in Doings
         /\ (Reading(e) \oplus Binding(e)).seen.touch \in Access
         /\ (Reading(e) \oplus Binding(e)).seen.leak \in Access
         /\ (Reading(e) \oplus Binding(e)).seen.touch <= e.eval.access
         /\ (Reading(e) \oplus Binding(e)).seen.leak <= e.eval.access
<1>0. e.eval.access \in Access /\ e.value.beyond \in BOOLEAN
  BY GoodParts
<1>1. /\ Binding(e) \in Doings /\ Binding(e).seen.touch = None
      /\ Binding(e).seen.leak \in Access /\ Binding(e).seen.leak <= e.eval.access
  <2>1. CASE Escapes(e)
    <3>1. Leak(Carried(e)) \in Effect /\ "variable" \in Way
      BY CarriedPaid, SimpleEffects DEF Way
    <3>2. Binding(e) = In("variable", Leak(Carried(e)))
      BY <2>1 DEF Binding
    <3>3. QED  BY <1>0, <3>1, <3>2, InOneWay
  <2>2. CASE ~Escapes(e)
    <3>1. Binding(e) = In(WayOf(e), Leak(Carried(e)))
      BY <2>2 DEF Binding
    <3>2. QED  BY <1>0, <2>2, <3>1, Leaking, CarriedPaid
  <2>3. QED  BY <2>1, <2>2
<1>2. /\ (Reading(e) \oplus Binding(e)).seen.touch = Larger(Reading(e).seen.touch, Binding(e).seen.touch)
      /\ (Reading(e) \oplus Binding(e)).seen.leak = Larger(Reading(e).seen.leak, Binding(e).seen.leak)
      /\ Reading(e) \oplus Binding(e) \in Doings
  BY <1>1, ReadingPaid, EffectSum
<1>3. QED  BY <1>0, <1>1, <1>2, ReadingPaid DEF Larger

LEMMA DeclaredGood ==
  ASSUME NEW e, Good(e), e.form = "expr"
  PROVE  Good(Declared(e))
BY BindingPaid, OneGood DEF Declared, Over, Form

LEMMA ChangedGood ==
  ASSUME NEW e, Good(e), NEW b, Good(b)
  PROVE  Good(Changed(e, b))
<1>1. /\ e.eval.access \in Access /\ b.eval.access \in Access
  BY GoodParts
<1> DEFINE x == Reading(e) \oplus Binding(e)
<1>2. /\ x \in Doings /\ x.seen.touch \in Access /\ x.seen.leak \in Access
      /\ x.seen.touch <= e.eval.access /\ x.seen.leak <= e.eval.access
  BY BindingPaid
<1> HIDE DEF x
<1>3. /\ x.seen.touch <= Larger(e.eval.access, b.eval.access)
      /\ x.seen.leak <= Larger(e.eval.access, b.eval.access)
  BY <1>1, <1>2 DEF Larger
<1>4. "stmt" \in Form  BY DEF Form
<1>5. Good(Node("stmt", Accessing(e.eval, b.eval), Mere, (e.does \oplus b.does) \oplus x))
  BY <1>2, <1>3, <1>4, TwoGood
<1>6. QED  BY <1>5 DEF Changed, Both, x

(* A statement that asks for a on top of its children, and does x.         *)
LEMMA StatementGood ==
  ASSUME NEW b, Good(b), NEW e, Good(e), NEW y \in {None, Write}, NEW x \in Doings,
         x.seen.touch \in Access, x.seen.leak \in Access,
         y = None => /\ x.seen.touch <= Larger(b.eval.access, e.eval.access)
                     /\ x.seen.leak <= Larger(b.eval.access, e.eval.access),
         y = Write => Write \in {x.seen.touch, x.seen.leak, b.does.seen.touch, b.does.seen.leak,
                                 e.does.seen.touch, e.does.seen.leak}
  PROVE  Good(Statement(b, e, y, x))
<1> DEFINE a == AtLeast(Accessing(b.eval, e.eval), y)
           d == (b.does \oplus e.does) \oplus x
<1>1. /\ e.eval \in Eval /\ e.eval.access \in Access /\ e.eval.mutable \in Access
      /\ e.does \in Doings /\ e.does.seen.touch \in Access /\ e.does.seen.leak \in Access
      /\ Paid(e.form, e.eval.state, e.eval.access, e.eval.mutable, Plain(e.value),
              e.value.rights, e.does.seen.touch, e.does.seen.leak)
  BY GoodParts
<1>2. /\ b.eval \in Eval /\ b.eval.access \in Access /\ b.eval.mutable \in Access
      /\ b.does \in Doings /\ b.does.seen.touch \in Access /\ b.does.seen.leak \in Access
      /\ Paid(b.form, b.eval.state, b.eval.access, b.eval.mutable, Plain(b.value),
              b.value.rights, b.does.seen.touch, b.does.seen.leak)
  BY GoodParts
<1>3. /\ a \in Eval /\ a.state = FALSE
      /\ a.access = Larger(Larger(b.eval.access, e.eval.access), y)
      /\ a.mutable = Larger(b.eval.mutable, e.eval.mutable)
  <2>1. /\ Accessing(b.eval, e.eval) \in Eval
        /\ Accessing(b.eval, e.eval).state = FALSE
        /\ Accessing(b.eval, e.eval).access = Larger(b.eval.access, e.eval.access)
        /\ Accessing(b.eval, e.eval).mutable = Larger(b.eval.mutable, e.eval.mutable)
    BY <1>1, <1>2, AccessingParts
  <2>2. QED  BY <1>1, <1>2, <2>1 DEF AtLeast, Marked, Eval, Larger
<1>4. /\ d \in Doings
      /\ d.seen.touch = Larger(Larger(b.does.seen.touch, e.does.seen.touch), x.seen.touch)
      /\ d.seen.leak = Larger(Larger(b.does.seen.leak, e.does.seen.leak), x.seen.leak)
  BY <1>1, <1>2, EffectSum
<1>5. "stmt" \in Form
  BY DEF Form
<1>6. Mere \in Value /\ Plain(Mere) = "value" /\ Mere.rights = None
  BY DEF Mere, Denoting, Gaining, Plain, Value, Denotes
<1> HIDE DEF a, d
<1>7. Paid("stmt", a.state, a.access, a.mutable, Plain(Mere), Mere.rights, d.seen.touch, d.seen.leak)
  BY <1>1, <1>2, <1>3, <1>4, <1>6 DEF Paid, Larger
<1>8. Good(Node("stmt", a, Mere, d))
  BY <1>3, <1>4, <1>5, <1>6, <1>7, GoodNode
<1>9. QED  BY <1>8 DEF Statement, a, d

(* Writing through the place on the left of an assignment.                 *)
LEMMA WritingPaid ==
  ASSUME NEW b, Good(b), b.value.rights = Write
  PROVE  /\ Use(b, Write) \in Doings
         /\ Use(b, Write).seen.touch \in Access /\ Use(b, Write).seen.leak = None
         /\ ~b.eval.state => Use(b, Write).seen.touch <= b.eval.access
         /\ b.eval.state => Write \in {Use(b, Write).seen.touch, b.does.seen.touch, b.does.seen.leak}
<1>1. /\ Use(b, Write) \in Doings /\ Use(b, Write).seen.leak = None
      /\ Use(b, Write).seen.touch = IF Plain(b.value) = "receiver" THEN Write ELSE None
  BY Using
<1>2. QED  BY <1>1, GoodParts DEF Paid

LEMMA UpdatedGood ==
  ASSUME NEW b, Good(b), NEW e, Good(e), b.value.rights = Write
  PROVE  Good(Updated(b, e))
<1> DEFINE x == Reading(e) \oplus Use(b, Write)
           y == IF b.eval.state THEN Write ELSE None
<1>1. /\ x \in Doings /\ x.seen.touch = Larger(Reading(e).seen.touch, Use(b, Write).seen.touch)
      /\ x.seen.leak = Larger(Reading(e).seen.leak, Use(b, Write).seen.leak)
  BY ReadingPaid, WritingPaid, EffectSum
<1>2. /\ e.eval.access \in Access /\ b.eval.access \in Access
  BY GoodParts
<1> HIDE DEF x
<1>3. x.seen.touch \in Access /\ x.seen.leak = None
  BY <1>1, <1>2, ReadingPaid, WritingPaid DEF Larger
<1>4. y = None => x.seen.touch <= Larger(b.eval.access, e.eval.access)
  BY <1>1, <1>2, ReadingPaid, WritingPaid DEF Larger
<1>5. y = Write => Write \in {x.seen.touch, b.does.seen.touch, b.does.seen.leak}
  BY <1>1, <1>2, ReadingPaid, WritingPaid DEF Larger
<1> HIDE DEF y
<1>6. y \in {None, Write}  BY DEF y
<1>7. y = None => x.seen.leak <= Larger(b.eval.access, e.eval.access)
  BY <1>2, <1>3 DEF Larger
<1>8. Good(Statement(b, e, y, x))
  BY <1>1, <1>3, <1>4, <1>5, <1>6, <1>7, StatementGood
<1>9. QED  BY <1>8 DEF Updated, x, y

LEMMA AssignedGood ==
  ASSUME NEW b, Good(b), NEW e, Good(e), b.value.rights = Write
  PROVE  Good(Assigned(b, e))
<1> DEFINE u == Reading(e) \oplus Use(b, Write)
           w == In(WayOf(e), IF b.value.of = "receiver" /\ ~b.value.beyond THEN Nothing
                             ELSE Leak(Carried(e)))
           x == u \oplus w
           y == IF b.eval.state \/ Escapes(e) THEN Write ELSE None
<1>1. /\ u \in Doings /\ u.seen.touch = Larger(Reading(e).seen.touch, Use(b, Write).seen.touch)
      /\ u.seen.leak = Larger(Reading(e).seen.leak, Use(b, Write).seen.leak)
  BY ReadingPaid, WritingPaid, EffectSum
<1>2. /\ w \in Doings /\ w.seen.touch = None
      /\ w.seen.leak = IF Plain(b.value) # "receiver" /\ ~e.value.beyond
                       THEN Carried(e) ELSE None
  <2>1. CASE b.value.of = "receiver" /\ ~b.value.beyond
    <3>1. w = In(WayOf(e), Nothing)
      BY <2>1
    <3>2. Plain(b.value) = "receiver"
      BY <2>1 DEF Plain
    <3> HIDE DEF w
    <3>3. QED  BY <3>1, <3>2, SimpleEffects, WayParts, InOneWay
  <2>2. CASE ~(b.value.of = "receiver" /\ ~b.value.beyond)
    <3>1. w = In(WayOf(e), Leak(Carried(e)))
      BY <2>2
    <3>2. Plain(b.value) # "receiver"
      BY <2>2 DEF Plain
    <3> HIDE DEF w
    <3>3. QED  BY <3>1, <3>2, Leaking
  <2>3. QED  BY <2>1, <2>2
<1>3. /\ e.eval.access \in Access /\ b.eval.access \in Access
      /\ b.value.of \in Denotes /\ b.eval.state \in BOOLEAN
      /\ b.value.beyond \in BOOLEAN /\ e.value.beyond \in BOOLEAN
  BY GoodParts
<1> HIDE DEF u, w
<1>4. /\ x \in Doings /\ x.seen.touch = Larger(u.seen.touch, w.seen.touch)
      /\ x.seen.leak = Larger(u.seen.leak, w.seen.leak)
  BY <1>1, <1>2, EffectSum
<1> HIDE DEF x
<1>5. /\ x.seen.touch = Larger(Reading(e).seen.touch, Use(b, Write).seen.touch)
      /\ x.seen.touch \in Access
      /\ x.seen.leak = w.seen.leak /\ x.seen.leak \in Access
  BY <1>1, <1>2, <1>4, ReadingPaid, WritingPaid, CarriedPaid DEF Larger
<1>6. y = None => /\ x.seen.touch <= Larger(b.eval.access, e.eval.access)
                  /\ x.seen.leak <= Larger(b.eval.access, e.eval.access)
  BY <1>2, <1>3, <1>5, ReadingPaid, WritingPaid, CarriedPaid DEF Larger
<1>7. y = Write => Write \in {x.seen.touch, x.seen.leak, b.does.seen.touch, b.does.seen.leak,
                              e.does.seen.touch, e.does.seen.leak}
  <2>1. CASE b.eval.state
    BY <1>5, <2>1, WritingPaid, ReadingPaid DEF Larger
  <2>2. CASE ~b.eval.state /\ Escapes(e)
    <3>1. CASE Plain(b.value) = "receiver"
      <4>1. Use(b, Write).seen.touch = Write
        BY <3>1, Using
      <4>2. QED  BY <1>5, <4>1, ReadingPaid DEF Larger
    <3>2. CASE Plain(b.value) # "receiver"
      BY <1>2, <1>5, <2>2, <3>2, CarriedPaid
    <3>3. QED  BY <3>1, <3>2
  <2>3. QED  BY <1>3, <2>1, <2>2, CarriedPaid
<1>8. y \in {None, Write}  OBVIOUS
<1> HIDE DEF y
<1>9. Good(Statement(b, e, y, x))
  BY <1>4, <1>5, <1>6, <1>7, <1>8, StatementGood
<1>10. QED  BY <1>9 DEF Assigned, Assigning, u, w, x, y

(* What is done in a condition is not done where the visitor looks.        *)
LEMMA UnseenEffect ==
  ASSUME NEW c, Good(c)
  PROVE  /\ Unseen(c) \in Doings
         /\ Unseen(c).seen.touch = None /\ Unseen(c).seen.leak = None
<1>1. c.does \oplus Reading(c) \in Doings
  BY GoodParts, ReadingPaid, EffectSum
<1> DEFINE d == c.does \oplus Reading(c)
<1> HIDE DEF d
<1>2. /\ d.seen \in Effect /\ d.condition \in Effect /\ d.variable \in Effect
      /\ d.receiver \in Effect /\ d.link \in Effect
  BY <1>1 DEF d, Doings, Way
<1>3. Total(d) \in Effect
  <2>1. d.seen ++ d.condition \in Effect
    BY <1>2, EffectTotal
  <2>2. (d.seen ++ d.condition) ++ d.variable \in Effect
    BY <1>2, <2>1, EffectTotal
  <2>3. ((d.seen ++ d.condition) ++ d.variable) ++ d.receiver \in Effect
    BY <1>2, <2>2, EffectTotal
  <2>4. QED  BY <1>2, <2>3, EffectTotal DEF Total
<1>4. "condition" \in Way
  BY DEF Way
<1>5. QED  BY <1>3, <1>4, InOneWay DEF Unseen, d

LEMMA LoopedGood ==
  ASSUME NEW c, Good(c), NEW b, Good(b), b.form = "stmt"
  PROVE  Good(Looped(c, b))
<1>1. b.eval.access \in Access  BY GoodParts
<1>2. QED  BY <1>1, UnseenEffect, OneGood DEF Looped, Over, Form

LEMMA BranchedGood ==
  ASSUME NEW b, Good(b), NEW c, Good(c), NEW e, Good(e), NEW g, Good(g)
  PROVE  Good(Branched(b, c, e, g))
<1> DEFINE a == Accessing(b.eval, Accessing(e.eval, g.eval))
           d == (b.does \oplus (e.does \oplus g.does)) \oplus Unseen(c)
<1>1. "stmt" \in Form
  BY DEF Form
<1>2. /\ b.eval \in Eval /\ b.eval.access \in Access /\ b.eval.mutable \in Access
      /\ b.does \in Doings /\ b.does.seen.touch \in Access /\ b.does.seen.leak \in Access
      /\ Paid(b.form, b.eval.state, b.eval.access, b.eval.mutable, Plain(b.value),
              b.value.rights, b.does.seen.touch, b.does.seen.leak)
  BY GoodParts
<1>3. /\ e.eval \in Eval /\ e.eval.access \in Access /\ e.eval.mutable \in Access
      /\ e.does \in Doings /\ e.does.seen.touch \in Access /\ e.does.seen.leak \in Access
      /\ Paid(e.form, e.eval.state, e.eval.access, e.eval.mutable, Plain(e.value),
              e.value.rights, e.does.seen.touch, e.does.seen.leak)
  BY GoodParts
<1>4. /\ g.eval \in Eval /\ g.eval.access \in Access /\ g.eval.mutable \in Access
      /\ g.does \in Doings /\ g.does.seen.touch \in Access /\ g.does.seen.leak \in Access
      /\ Paid(g.form, g.eval.state, g.eval.access, g.eval.mutable, Plain(g.value),
              g.value.rights, g.does.seen.touch, g.does.seen.leak)
  BY GoodParts
<1>5. /\ a \in Eval /\ a.state = FALSE
      /\ a.access = Larger(b.eval.access, Larger(e.eval.access, g.eval.access))
      /\ a.mutable = Larger(b.eval.mutable, Larger(e.eval.mutable, g.eval.mutable))
  <2> DEFINE z == Accessing(e.eval, g.eval)
  <2>1. /\ z \in Eval
        /\ z.access = Larger(e.eval.access, g.eval.access)
        /\ z.mutable = Larger(e.eval.mutable, g.eval.mutable)
    BY <1>3, <1>4, AccessingParts
  <2> HIDE DEF z
  <2>2. /\ Accessing(b.eval, z) \in Eval /\ Accessing(b.eval, z).state = FALSE
        /\ Accessing(b.eval, z).access = Larger(b.eval.access, z.access)
        /\ Accessing(b.eval, z).mutable = Larger(b.eval.mutable, z.mutable)
    BY <1>2, <2>1, AccessingParts
  <2>3. QED  BY <2>1, <2>2 DEF z
<1>6. /\ d \in Doings
      /\ d.seen.touch = Larger(b.does.seen.touch, Larger(e.does.seen.touch, g.does.seen.touch))
      /\ d.seen.leak = Larger(b.does.seen.leak, Larger(e.does.seen.leak, g.does.seen.leak))
  <2>1. /\ e.does \oplus g.does \in Doings
        /\ (e.does \oplus g.does).seen.touch = Larger(e.does.seen.touch, g.does.seen.touch)
        /\ (e.does \oplus g.does).seen.leak = Larger(e.does.seen.leak, g.does.seen.leak)
    BY <1>3, <1>4, EffectSum
  <2> DEFINE z == b.does \oplus (e.does \oplus g.does)
  <2>2. /\ z \in Doings
        /\ z.seen.touch = Larger(b.does.seen.touch, Larger(e.does.seen.touch, g.does.seen.touch))
        /\ z.seen.leak = Larger(b.does.seen.leak, Larger(e.does.seen.leak, g.does.seen.leak))
    BY <1>2, <2>1, EffectSum
  <2> HIDE DEF z
  <2>3. /\ z \oplus Unseen(c) \in Doings
        /\ (z \oplus Unseen(c)).seen.touch = Larger(z.seen.touch, None)
        /\ (z \oplus Unseen(c)).seen.leak = Larger(z.seen.leak, None)
    BY <2>2, UnseenEffect, EffectSum
  <2>4. Larger(z.seen.touch, None) = z.seen.touch /\ Larger(z.seen.leak, None) = z.seen.leak
    BY <2>2, DoingsParts DEF Larger
  <2>5. QED  BY <2>2, <2>3, <2>4 DEF z
<1>7. Mere \in Value /\ Plain(Mere) = "value" /\ Mere.rights = None
  BY DEF Mere, Denoting, Gaining, Plain, Value, Denotes
<1> HIDE DEF a, d
<1>8. Paid("stmt", a.state, a.access, a.mutable, Plain(Mere), Mere.rights, d.seen.touch, d.seen.leak)
  BY <1>2, <1>3, <1>4, <1>5, <1>6, <1>7 DEF Paid, Larger
<1>9. Good(Node("stmt", a, Mere, d))
  BY <1>1, <1>5, <1>6, <1>7, <1>8, GoodNode
<1>10. QED  BY <1>9 DEF Branched, a, d

LEMMA ActivatedGood ==
  ASSUME NEW b, Good(b), NEW e, Good(e)
  PROVE  Good(Activated(b, e))
<1> DEFINE a == Marked(FALSE, b.eval.access,
                       Larger(b.eval.mutable, Larger(e.eval.access, e.eval.mutable)))
           d == b.does \oplus e.does
<1>1. /\ b.eval \in Eval /\ b.eval.access \in Access /\ b.eval.mutable \in Access
      /\ b.does \in Doings /\ b.does.seen.touch \in Access /\ b.does.seen.leak \in Access
      /\ Paid(b.form, b.eval.state, b.eval.access, b.eval.mutable, Plain(b.value),
              b.value.rights, b.does.seen.touch, b.does.seen.leak)
  BY GoodParts
<1>2. /\ e.eval \in Eval /\ e.eval.access \in Access /\ e.eval.mutable \in Access
      /\ e.does \in Doings /\ e.does.seen.touch \in Access /\ e.does.seen.leak \in Access
      /\ Paid(e.form, e.eval.state, e.eval.access, e.eval.mutable, Plain(e.value),
              e.value.rights, e.does.seen.touch, e.does.seen.leak)
  BY GoodParts
<1>3. /\ a \in Eval /\ a.state = FALSE /\ a.access = b.eval.access
      /\ a.mutable = Larger(b.eval.mutable, Larger(e.eval.access, e.eval.mutable))
  BY <1>1, <1>2 DEF Marked, Eval, Larger
<1>4. /\ d \in Doings
      /\ d.seen.touch = Larger(b.does.seen.touch, e.does.seen.touch)
      /\ d.seen.leak = Larger(b.does.seen.leak, e.does.seen.leak)
      /\ "stmt" \in Form
  BY <1>1, <1>2, EffectSum DEF Form
<1>5. Mere \in Value /\ Plain(Mere) = "value" /\ Mere.rights = None
  BY DEF Mere, Denoting, Gaining, Plain, Value, Denotes
<1> HIDE DEF a, d
<1>6. Paid("stmt", a.state, a.access, a.mutable, Plain(Mere), Mere.rights, d.seen.touch, d.seen.leak)
  BY <1>1, <1>2, <1>3, <1>4, <1>5 DEF Paid, Larger
<1>7. Good(Node("stmt", a, Mere, d))
  BY <1>3, <1>4, <1>5, <1>6, GoodNode
<1>8. QED  BY <1>7 DEF Activated, a, d
-----------------------------------------------------------------------------
(* Calls.                                                                  *)

(* What a function may do with an argument is paid for by the argument's   *)
(* annotations and the check of the parameter.                             *)
LEMMA HandingPaid ==
  ASSUME NEW e, Good(e), NEW p \in Parameter
  PROVE  /\ Handing(e, p) \in Doings
         /\ Handing(e, p).seen.touch \in Access /\ Handing(e, p).seen.leak \in Access
         /\ GoesIn(e, p) \in BOOLEAN /\ AccessIn(e, p) \in {None, Write}
         /\ AccessIn(e, p) = Write <=> GoesIn(e, p)
         /\ ~GoesIn(e, p) => /\ Handing(e, p).seen.touch <= e.eval.access
                             /\ Handing(e, p).seen.leak <= e.eval.access
         /\ GoesIn(e, p) => Write \in {Handing(e, p).seen.touch, e.does.seen.touch,
                                       e.does.seen.leak}
<1> DEFINE x == Handing(e, p)
           y == CASE e.value.of = "receiver" -> Doing(RightsOf(p), RightsOf(p), None)
                  [] e.value.of \in {"local", "variable"} -> Via(RightsOf(p))
                  [] OTHER -> Nothing
           w == IF Gains(e, p) THEN "receiver" ELSE WayOf(e)
<1>1. /\ e.eval.state \in BOOLEAN /\ e.eval.access \in Access
      /\ e.value.of \in Denotes /\ e.value.rights \in Access /\ e.value.beyond \in BOOLEAN
      /\ e.does.seen.touch \in Access /\ e.does.seen.leak \in Access
      /\ Paid(e.form, e.eval.state, e.eval.access, e.eval.mutable, Plain(e.value),
              e.value.rights, e.does.seen.touch, e.does.seen.leak)
  BY GoodParts
<1>2. /\ RightsOf(p) \in Access /\ (p = "value" \/ p = "const" \/ p = "mutable")
      /\ p = "const" => RightsOf(p) = Read
      /\ p = "mutable" => RightsOf(p) = Write
  BY DEF Parameter, RightsOf
<1>3. GoesIn(e, p) \in BOOLEAN /\ (GoesIn(e, p) <=> e.eval.state /\ p = "mutable")
  BY <1>1 DEF GoesIn
<1>4. CASE p = "value"
  <2>1. x = Reading(e)
    BY <1>4 DEF Handing
  <2>2. ~GoesIn(e, p) /\ AccessIn(e, p) = None
    BY <1>3, <1>4 DEF AccessIn
  <2> HIDE DEF x
  <2>3. /\ x \in Doings /\ x.seen.touch \in Access /\ x.seen.leak \in Access
        /\ x.seen.touch <= e.eval.access /\ x.seen.leak <= e.eval.access
    BY <1>1, <2>1, ReadingPaid
  <2>4. QED  BY <1>3, <2>2, <2>3 DEF x
<1>5. ASSUME p # "value"
      PROVE  /\ x = In(w, y) /\ w \in Way /\ (w = "seen" <=> ~Gains(e, p) /\ ~e.value.beyond)
             /\ y \in Effect /\ y.touch = y.leak
             /\ y.touch = IF e.value.of = "receiver" THEN RightsOf(p) ELSE None
  <2>1. x = In(w, y)
    BY <1>5 DEF Handing
  <2>2. w \in Way /\ (w = "seen" <=> ~Gains(e, p) /\ ~e.value.beyond)
    BY WayParts DEF Way
  <2>3. CASE e.value.of = "receiver"
    <3>1. y = Doing(RightsOf(p), RightsOf(p), None)
      BY <2>3
    <3> HIDE DEF y
    <3>2. y \in Effect /\ y.touch = RightsOf(p) /\ y.leak = RightsOf(p)
      BY <1>2, <3>1 DEF Doing, Effect
    <3>3. QED  BY <2>1, <2>2, <2>3, <3>2 DEF y
  <2>4. CASE e.value.of # "receiver"
    <3>1. y \in {Via(RightsOf(p)), Nothing}
      BY <2>4
    <3> HIDE DEF y
    <3>2. y \in Effect /\ y.touch = None /\ y.leak = None
      BY <1>2, <3>1, SimpleEffects
    <3>3. QED  BY <2>1, <2>2, <2>4, <3>2 DEF y
  <2>5. QED  BY <2>3, <2>4
<1> HIDE DEF y, w
<1>6. CASE p # "value" /\ Plain(e.value) = "receiver" /\ ~Gains(e, p)
  <2>1. e.value.of = "receiver" /\ ~e.value.beyond
    BY <1>6 DEF Plain
  <2>2. /\ x \in Doings /\ x.seen.touch = RightsOf(p) /\ x.seen.leak = RightsOf(p)
    <3>1. w = "seen" /\ w \in Way /\ y \in Effect /\ y.touch = RightsOf(p) /\ y.leak = RightsOf(p)
      BY <1>5, <1>6, <2>1
    <3>2. QED  BY <1>5, <1>6, <3>1, InOneWay
  <2> HIDE DEF x
  <2>3. e.eval.state \/ RightsOf(p) <= e.value.rights
    BY <1>1, <1>2, <1>6, <2>1 DEF Gains
  <2>4. ~GoesIn(e, p) => RightsOf(p) <= e.eval.access
    BY <1>1, <1>2, <1>3, <1>6, <2>3 DEF Paid
  <2>5. GoesIn(e, p) => x.seen.touch = Write
    BY <1>2, <1>3, <2>2
  <2>6. QED  BY <1>2, <1>3, <2>2, <2>4, <2>5 DEF x, AccessIn
<1>7. CASE p # "value" /\ (Plain(e.value) # "receiver" \/ Gains(e, p))
  <2>1. x \in Doings /\ x.seen.touch = None /\ x.seen.leak = None
    <3>1. CASE w = "seen"
      <4>1. e.value.of # "receiver"
        BY <1>5, <1>7, <3>1 DEF Plain
      <4>2. y \in Effect /\ y.touch = None /\ y.leak = None /\ w \in Way /\ x = In(w, y)
        BY <1>5, <1>7, <4>1
      <4> HIDE DEF x
      <4>3. QED  BY <3>1, <4>2, InOneWay
    <3>2. CASE w # "seen"
      <4>1. y \in Effect /\ w \in Way /\ x = In(w, y)
        BY <1>5, <1>7
      <4> HIDE DEF x
      <4>2. QED  BY <3>2, <4>1, InOneWay
    <3>3. QED  BY <3>1, <3>2
  <2> HIDE DEF x
  <2>2. GoesIn(e, p) => Plain(e.value) # "receiver"
    BY <1>1, <1>3, <1>7 DEF Gains, Plain
  <2>3. GoesIn(e, p) => Write \in {e.does.seen.touch, e.does.seen.leak}
    BY <1>1, <1>3, <2>2 DEF Paid
  <2>4. QED  BY <1>1, <1>3, <2>1, <2>3 DEF x, AccessIn
<1>8. QED  BY <1>4, <1>6, <1>7

(* The value of an argument that is a pointer is one more the function may *)
(* give back.                                                              *)
LEMMA PointerInPaid ==
  ASSUME NEW e, Good(e), NEW p \in Parameter, NEW v \in PointerIn(e, p)
  PROVE  /\ v \in Value /\ v.rights \in {Read, Write} /\ Plain(v) \in Denotes
         /\ Plain(v) # "value"
         /\ Plain(v) = "receiver" /\ ~GoesIn(e, p) => v.rights <= e.eval.access
<1>1. /\ e.eval.state \in BOOLEAN /\ e.eval.access \in Access
      /\ e.value.of \in Denotes /\ e.value.rights \in Access /\ e.value.beyond \in BOOLEAN
      /\ Paid(e.form, e.eval.state, e.eval.access, e.eval.mutable, Plain(e.value),
              e.value.rights, e.does.seen.touch, e.does.seen.leak)
  BY GoodParts
<1>2. p # "value" /\ v = Gaining(e.value.of, RightsOf(p), TRUE, e.value.beyond \/ Gains(e, p))
  BY DEF PointerIn
<1>3. RightsOf(p) \in {Read, Write} /\ (RightsOf(p) = Read \/ p = "mutable")
  BY <1>2 DEF RightsOf, Parameter
<1>4. Gains(e, p) \in BOOLEAN
  BY DEF Gains
<1>5. /\ v \in Value /\ v.of = e.value.of /\ v.rights = RightsOf(p)
      /\ v.beyond = (e.value.beyond \/ Gains(e, p))
  BY <1>1, <1>2, <1>3, <1>4 DEF Gaining, Value
<1>6. CASE v.beyond
  BY <1>3, <1>5, <1>6 DEF Plain, Denotes
<1>7. CASE ~v.beyond
  <2>1. Plain(v) = e.value.of /\ Plain(e.value) = e.value.of /\ ~Gains(e, p)
    BY <1>5, <1>7 DEF Plain
  <2>2. RightsOf(p) <= e.value.rights \/ (e.eval.state /\ e.value.of = "receiver")
    BY <1>1, <1>3, <2>1 DEF Gains
  <2>3. Plain(v) # "value"
    BY <1>1, <1>3, <2>1, <2>2 DEF Paid
  <2>4. Plain(v) = "receiver" /\ ~GoesIn(e, p) => v.rights <= e.eval.access
    BY <1>1, <1>3, <1>5, <2>1, <2>2 DEF Paid, GoesIn
  <2>5. QED  BY <1>1, <1>3, <1>5, <2>1, <2>3, <2>4
<1>8. QED  BY <1>5, <1>6, <1>7 DEF Value

(* Arguments: what goes in with the next one is added.                     *)
LEMMA ArgsGood ==
  ASSUME NEW b, Good(b), b.form = "args", NEW e, Good(e), e.form = "expr",
         NEW p \in Parameter,
         NEW s \in BOOLEAN, s = (b.eval.state \/ GoesIn(e, p)) \/ s = b.eval.state,
         NEW v \in Value, NEW d \in Doings,
         v = b.value \/ (v \in PointerIn(e, p) /\ s = (b.eval.state \/ GoesIn(e, p))),
         d.seen.touch = Larger(Larger(b.does.seen.touch, e.does.seen.touch), Handing(e, p).seen.touch),
         d.seen.leak = Larger(Larger(b.does.seen.leak, e.does.seen.leak), Handing(e, p).seen.leak)
  PROVE  Good(Node("args",
                   Marked(s, Larger(Larger(b.eval.access, e.eval.access), AccessIn(e, p)),
                          Larger(b.eval.mutable, e.eval.mutable)),
                   v, d))
<1> DEFINE a == Marked(s, Larger(Larger(b.eval.access, e.eval.access), AccessIn(e, p)),
                       Larger(b.eval.mutable, e.eval.mutable))
<1>1. /\ b.eval.state \in BOOLEAN /\ b.eval.access \in Access /\ b.eval.mutable \in Access
      /\ Plain(b.value) \in Denotes /\ b.value.rights \in Access
      /\ b.does.seen.touch \in Access /\ b.does.seen.leak \in Access
      /\ Paid("args", b.eval.state, b.eval.access, b.eval.mutable, Plain(b.value),
              b.value.rights, b.does.seen.touch, b.does.seen.leak)
  BY GoodParts
<1>2. /\ e.eval.state \in BOOLEAN /\ e.eval.access \in Access /\ e.eval.mutable \in Access
      /\ e.does.seen.touch \in Access /\ e.does.seen.leak \in Access
      /\ Paid("expr", e.eval.state, e.eval.access, e.eval.mutable, Plain(e.value),
              e.value.rights, e.does.seen.touch, e.does.seen.leak)
  BY GoodParts
<1>3. AccessIn(e, p) \in {None, Write}
  BY HandingPaid
<1>4. /\ a \in Eval /\ a.state = s
      /\ a.access = Larger(Larger(b.eval.access, e.eval.access), AccessIn(e, p))
      /\ a.mutable = Larger(b.eval.mutable, e.eval.mutable)
  BY <1>1, <1>2, <1>3 DEF Marked, Eval, Larger
<1>5. "args" \in Form
  BY DEF Form
<1> HIDE DEF a
<1>6. v.rights \in Access /\ Plain(v) \in Denotes
  BY DEF Value, Plain, Denotes
<1>7. a.mutable = None /\ a.access \in Access
  BY <1>1, <1>2, <1>3, <1>4 DEF Paid, Larger
<1>8. d.seen.touch <= a.access /\ d.seen.leak <= a.access
  BY <1>1, <1>2, <1>3, <1>4, HandingPaid DEF Paid, Larger
<1>9. a.access = Write \/ s => d.seen.touch = Write \/ d.seen.leak = Write
  BY <1>1, <1>2, <1>3, <1>4, HandingPaid DEF Paid, Larger
<1>10. s => a.access >= Read
  <2>1. s => b.eval.state \/ GoesIn(e, p)
    OBVIOUS
  <2>2. b.eval.state => b.eval.access >= Read
    BY <1>1 DEF Paid
  <2>3. GoesIn(e, p) => AccessIn(e, p) = Write
    BY HandingPaid
  <2>4. QED  BY <1>1, <1>2, <1>3, <1>4, <2>1, <2>2, <2>3 DEF Larger
<1>11. Plain(v) = "value" => v.rights = None
  BY <1>1, PointerInPaid DEF Paid
<1>12. Plain(v) = "receiver" => v.rights >= Read
  BY <1>1, PointerInPaid DEF Paid
<1>13. Plain(v) = "receiver" /\ ~s => v.rights <= a.access
  BY <1>1, <1>2, <1>3, <1>4, PointerInPaid DEF Paid, Larger
<1>14. Paid("args", a.state, a.access, a.mutable, Plain(v), v.rights, d.seen.touch, d.seen.leak)
  BY <1>4, <1>7, <1>8, <1>9, <1>10, <1>11, <1>12, <1>13 DEF Paid, Larger
<1>15. Good(Node("args", a, v, d))
  BY <1>4, <1>5, <1>14, GoodNode
<1>16. QED  BY <1>15 DEF a

LEMMA PassedGood ==
  ASSUME NEW b, Good(b), b.form = "args", NEW e, Good(e), e.form = "expr",
         NEW p \in Parameter, NEW v \in {b.value} \cup PointerIn(e, p)
  PROVE  Good(Passed(b, e, p, v))
<1> DEFINE d == (b.does \oplus e.does) \oplus Handing(e, p)
           s == b.eval.state \/ GoesIn(e, p)
<1>1. v \in Value  BY GoodParts, PointerInPaid
<1>2. /\ d \in Doings
      /\ d.seen.touch = Larger(Larger(b.does.seen.touch, e.does.seen.touch), Handing(e, p).seen.touch)
      /\ d.seen.leak = Larger(Larger(b.does.seen.leak, e.does.seen.leak), Handing(e, p).seen.leak)
  BY GoodParts, HandingPaid, EffectSum
<1>3. s \in BOOLEAN
  BY GoodParts, HandingPaid
<1> HIDE DEF d
<1>4. Good(Node("args",
                Marked(s, Larger(Larger(b.eval.access, e.eval.access), AccessIn(e, p)),
                       Larger(b.eval.mutable, e.eval.mutable)),
                v, d))
  BY <1>1, <1>2, <1>3, ArgsGood
<1>5. QED  BY <1>4 DEF Passed, d, s

(* The result of a call: everything that has gone in is paid for or marks  *)
(* the arguments, or has been paid for by the check of the receiver.       *)
LEMMA ReturnedGood ==
  ASSUME NEW b, Good(b), b.form = "args", NEW r \in Parameter,
         NEW v \in Value, Returns(v, r),
         Plain(v) = "receiver" => v.rights >= Read,
         Plain(v) = "receiver" /\ ~b.eval.state => v.rights <= b.eval.access
  PROVE  Good(Returned(b, v, r))
<1> DEFINE a == Marked(r = "mutable" /\ b.eval.state, b.eval.access, b.eval.mutable)
           w == Result(v, r)
<1>1. /\ b.eval.state \in BOOLEAN /\ b.eval.access \in Access /\ b.eval.mutable \in Access
      /\ b.does \in Doings /\ b.does.seen.touch \in Access /\ b.does.seen.leak \in Access
      /\ Paid("args", b.eval.state, b.eval.access, b.eval.mutable, Plain(b.value),
              b.value.rights, b.does.seen.touch, b.does.seen.leak)
  BY GoodParts
<1>2. v.rights \in Access /\ v.of \in Denotes /\ v.beyond \in BOOLEAN /\ Plain(v) \in Denotes
  BY DEF Value, Plain, Denotes
<1>3. /\ a \in Eval /\ a.state = (r = "mutable" /\ b.eval.state)
      /\ a.access = b.eval.access /\ a.mutable = b.eval.mutable
  BY <1>1 DEF Marked, Eval
<1>4. /\ RightsOf(r) \in Access
      /\ r = "const" => RightsOf(r) = Read
      /\ r = "mutable" => RightsOf(r) = Write
      /\ r \in {"value", "const", "mutable"}
  BY DEF RightsOf, Parameter
<1>5. r # "value" => Plain(v) # "value" /\ RightsOf(r) <= v.rights
  BY DEF Returns, Plain
<1>6. /\ w \in Value
      /\ r = "value" => Plain(w) = "value" /\ w.rights = None
      /\ r # "value" => Plain(w) = Plain(v) /\ w.rights = RightsOf(r)
  BY <1>2, <1>4 DEF Result, Mere, Denoting, Gaining, Plain, Value, Denotes
<1>7. "expr" \in Form  BY DEF Form
<1> HIDE DEF a, w
<1>8. Plain(w) = "receiver" /\ ~a.state => w.rights <= a.access
  <2> SUFFICES ASSUME Plain(w) = "receiver", ~a.state  PROVE w.rights <= a.access
    OBVIOUS
  <2>1. r # "value" /\ Plain(v) = "receiver" /\ w.rights = RightsOf(r) /\ RightsOf(r) <= v.rights
    BY <1>5, <1>6
  <2>2. CASE ~b.eval.state
    BY <1>1, <1>2, <1>3, <1>4, <2>1, <2>2
  <2>3. CASE b.eval.state
    BY <1>1, <1>3, <1>4, <2>1, <2>3 DEF Paid
  <2>4. QED  BY <2>2, <2>3
<1>9. a.state => b.eval.state
  BY <1>3
<1>10. Plain(w) = "receiver" => w.rights >= Read
  BY <1>4, <1>6
<1>11. Plain(w) = "value" => w.rights = None
  BY <1>4, <1>5, <1>6
<1>12. Paid("expr", a.state, a.access, a.mutable, Plain(w), w.rights, b.does.seen.touch, b.does.seen.leak)
  BY <1>1, <1>3, <1>8, <1>9, <1>10, <1>11 DEF Paid, Larger
<1>13. Good(Node("expr", a, w, b.does))
  BY <1>1, <1>3, <1>6, <1>7, <1>12, GoodNode
<1>14. QED  BY <1>13 DEF Returned, a, w

(* The receiver of a method is an argument that does not mark the result.  *)
LEMMA InvokedGood ==
  ASSUME NEW b, Good(b), b.form = "args", NEW e, Good(e), e.form = "expr",
         NEW p \in Parameter
  PROVE  /\ Good(Invoked(e, b, p))
         /\ Invoked(e, b, p).form = "args"
         /\ Invoked(e, b, p).eval.state = b.eval.state
         /\ Invoked(e, b, p).eval.access
              = Larger(Larger(b.eval.access, e.eval.access), AccessIn(e, p))
<1> DEFINE d == (e.does \oplus b.does) \oplus Handing(e, p)
           s == b.eval.state
           a == Marked(s, Larger(Larger(b.eval.access, e.eval.access), AccessIn(e, p)),
                       Larger(b.eval.mutable, e.eval.mutable))
<1>1. /\ b.value \in Value /\ b.eval.state \in BOOLEAN
      /\ b.does.seen.touch \in Access /\ b.does.seen.leak \in Access
      /\ e.does.seen.touch \in Access /\ e.does.seen.leak \in Access
  BY GoodParts
<1>2. /\ d \in Doings
      /\ d.seen.touch = Larger(Larger(e.does.seen.touch, b.does.seen.touch), Handing(e, p).seen.touch)
      /\ d.seen.leak = Larger(Larger(e.does.seen.leak, b.does.seen.leak), Handing(e, p).seen.leak)
  BY GoodParts, HandingPaid, EffectSum
<1>3. /\ Larger(e.does.seen.touch, b.does.seen.touch) = Larger(b.does.seen.touch, e.does.seen.touch)
      /\ Larger(e.does.seen.leak, b.does.seen.leak) = Larger(b.does.seen.leak, e.does.seen.leak)
  BY <1>1 DEF Larger
<1> HIDE DEF d
<1>5. Good(Node("args", a, b.value, d))
  BY <1>1, <1>2, <1>3, ArgsGood
<1>6. /\ a.state = s
      /\ a.access = Larger(Larger(b.eval.access, e.eval.access), AccessIn(e, p))
  BY DEF Marked
<1>7. Invoked(e, b, p) = Node("args", a, b.value, d)
  BY DEF Invoked, d
<1> HIDE DEF a
<1>8. /\ Node("args", a, b.value, d).form = "args"
      /\ Node("args", a, b.value, d).eval = a
  BY DEF Node
<1>9. QED  BY <1>5, <1>6, <1>7, <1>8

LEMMA MethodCallGood ==
  ASSUME NEW b, Good(b), b.form = "args", NEW e, Good(e), e.form = "expr",
         NEW p \in Parameter, NEW r \in Parameter,
         NEW v \in {b.value} \cup PointerIn(e, p), Returns(v, r)
  PROVE  Good(Returned(Invoked(e, b, p), v, r))
<1> DEFINE i == Invoked(e, b, p)
<1>1. /\ Good(i) /\ i.form = "args" /\ i.eval.state = b.eval.state
      /\ i.eval.access = Larger(Larger(b.eval.access, e.eval.access), AccessIn(e, p))
  BY InvokedGood
<1>2. /\ b.eval.state \in BOOLEAN /\ b.eval.access \in Access /\ e.eval.access \in Access
      /\ b.value \in Value /\ b.value.rights \in Access /\ Plain(b.value) \in Denotes
      /\ Paid(b.form, b.eval.state, b.eval.access, b.eval.mutable, Plain(b.value),
              b.value.rights, b.does.seen.touch, b.does.seen.leak)
  BY GoodParts
<1>3. v \in Value  BY <1>2, PointerInPaid
<1>4. Plain(v) = "receiver" => v.rights >= Read
  BY <1>2, PointerInPaid DEF Paid
<1> HIDE DEF i
<1>5. Plain(v) = "receiver" /\ ~i.eval.state => v.rights <= i.eval.access
  <2>1. CASE v = b.value
    BY <1>1, <1>2, <2>1, HandingPaid DEF Paid, Larger
  <2>2. CASE v \in PointerIn(e, p)
    BY <1>1, <1>2, <2>2, PointerInPaid, HandingPaid DEF Larger
  <2>3. QED  BY <2>1, <2>2
<1>6. QED  BY <1>1, <1>3, <1>4, <1>5, ReturnedGood DEF i

(* Breaking a link is not seen; what is left is the read of the pointer.   *)
LEMMA UnlinkedGood ==
  ASSUME NEW e, Good(e), e.form = "expr"
  PROVE  Good(Unlinked(e))
<1> DEFINE y == CASE e.value.of = "receiver" -> Touch(Write)
                  [] e.value.of \in {"local", "variable"} -> Via(Write)
                  [] OTHER -> Nothing
           x == Reading(e) \oplus Breaking(e)
           v == Denoting("variable", Write, TRUE)
           a == Accessing(e.eval, NoAccess)
           d == e.does \oplus x
<1>1. y \in Effect
  BY SimpleEffects
<1>2. Breaking(e) = In("link", y) /\ "link" \in Way
  BY DEF Breaking, Way
<1> HIDE DEF y
<1>3. /\ Breaking(e) \in Doings
      /\ Breaking(e).seen.touch = None /\ Breaking(e).seen.leak = None
  BY <1>1, <1>2, InOneWay
<1>4. /\ x \in Doings /\ x.seen.touch = Larger(Reading(e).seen.touch, None)
      /\ x.seen.leak = Larger(None, None)
  BY <1>3, ReadingPaid, EffectSum
<1>5. /\ e.eval \in Eval /\ e.eval.access \in Access /\ e.eval.mutable \in Access
      /\ e.does \in Doings /\ e.does.seen.touch \in Access /\ e.does.seen.leak \in Access
      /\ Paid(e.form, e.eval.state, e.eval.access, e.eval.mutable, Plain(e.value),
              e.value.rights, e.does.seen.touch, e.does.seen.leak)
  BY GoodParts
<1>6. /\ d \in Doings
      /\ d.seen.touch = Larger(e.does.seen.touch, x.seen.touch)
      /\ d.seen.leak = Larger(e.does.seen.leak, x.seen.leak)
  BY <1>4, <1>5, EffectSum
<1>7. /\ a \in Eval /\ a.state = FALSE
      /\ a.access = Larger(e.eval.access, None) /\ a.mutable = Larger(e.eval.mutable, None)
  <2>1. PICK b, c : b = e.eval /\ c = NoAccess
    OBVIOUS
  <2>2. b \in Eval /\ c \in Eval /\ c.access = None /\ c.mutable = None
    BY <1>5, <2>1, NoAccessParts
  <2>3. /\ Accessing(b, c) \in Eval /\ Accessing(b, c).state = FALSE
        /\ Accessing(b, c).access = Larger(b.access, c.access)
        /\ Accessing(b, c).mutable = Larger(b.mutable, c.mutable)
    BY <2>2, AccessingParts
  <2>4. QED  BY <2>1, <2>2, <2>3
<1>8. v \in Value /\ Plain(v) = "variable" /\ v.rights = Write
  BY DEF Denoting, Gaining, Plain, Value, Denotes
<1> HIDE DEF x, v, a, d
<1>9. Paid("expr", a.state, a.access, a.mutable, Plain(v), v.rights, d.seen.touch, d.seen.leak)
  BY <1>4, <1>5, <1>6, <1>7, <1>8, ReadingPaid DEF Paid, Larger
<1>10. Good(Node("expr", a, v, d))
  BY <1>6, <1>7, <1>8, <1>9, GoodNode DEF Form
<1>11. QED  BY <1>10 DEF Unlinked, a, v, d, x
-----------------------------------------------------------------------------
(* The stack.                                                              *)

(* A good tree that replaces the top of the stack keeps the stack good.    *)
LEMMA GoodStack ==
  ASSUME NEW q \in Seq(Tree), \A i \in DOMAIN q : Good(q[i]),
         NEW k \in 0 .. Len(q), NEW e, Good(e)
  PROVE  /\ Append(SubSeq(q, 1, Len(q) - k), e) \in Seq(Tree)
         /\ \A i \in DOMAIN Append(SubSeq(q, 1, Len(q) - k), e) :
              Good(Append(SubSeq(q, 1, Len(q) - k), e)[i])
<1> DEFINE u == SubSeq(q, 1, Len(q) - k)
           n == Len(q) - k
<1>1. n \in Nat /\ n <= Len(q)
  OBVIOUS
<1> HIDE DEF n
<1>2. /\ SubSeq(q, 1, n) \in Seq(Tree) /\ Len(SubSeq(q, 1, n)) = n
      /\ \A i \in 1 .. n : SubSeq(q, 1, n)[i] = q[i]
  BY <1>1
<1>3. u \in Seq(Tree) /\ Len(u) = n /\ \A i \in 1 .. n : u[i] = q[i]
  BY <1>2 DEF n
<1> HIDE DEF u
<1>4. e \in Tree  BY DEF Good
<1>5. /\ Append(u, e) \in Seq(Tree) /\ Len(Append(u, e)) = n + 1
      /\ DOMAIN Append(u, e) = 1 .. n + 1
      /\ \A i \in 1 .. n : Append(u, e)[i] = u[i]
      /\ Append(u, e)[n + 1] = e
  BY <1>1, <1>3, <1>4
<1>6. ASSUME NEW i \in 1 .. n + 1
      PROVE  Good(Append(u, e)[i])
  <2>1. CASE i = n + 1
    BY <1>5, <2>1
  <2>2. CASE i \in 1 .. n
    <3>1. Append(u, e)[i] = q[i] /\ i \in DOMAIN q
      BY <1>1, <1>3, <1>5, <2>2
    <3>2. QED  BY <3>1
  <2>3. i = n + 1 \/ i \in 1 .. n
    BY <1>1
  <2>4. QED  BY <2>1, <2>2, <2>3
<1>7. QED  BY <1>5, <1>6 DEF u

LEMMA VisitGood ==
  ASSUME IInv, MaxNodesAssumption, NEW k \in 0 .. Len(stack), NEW e, Good(e), Visit(k, e)
  PROVE  IInv'
<1>1. stack' \in Seq(Tree) /\ \A i \in DOMAIN stack' : Good(stack'[i])
  BY GoodStack DEF IInv, Visit
<1>2. QED  BY <1>1 DEF IInv, Visit, MaxNodesAssumption

(* The children of a node are the good trees on top of the stack.          *)
LEMMA ChildrenGood ==
  ASSUME IInv, NEW fs \in Seq(Form), Forms(fs)
  PROVE  /\ Len(fs) \in 0 .. Len(stack)
         /\ \A k \in 0 .. Len(fs) - 1 : Good(Child(k)) /\ Child(k).form = fs[Len(fs) - k]
<1>1. Len(fs) \in 0 .. Len(stack) /\ stack \in Seq(Tree)
  BY DEF Forms, IInv
<1>2. ASSUME NEW k \in 0 .. Len(fs) - 1
      PROVE  Good(Child(k)) /\ Child(k).form = fs[Len(fs) - k]
  <2>1. Len(stack) - k \in DOMAIN stack
    BY <1>1
  <2>2. Good(Child(k))
    BY <2>1 DEF IInv, Child
  <2>3. Len(fs) - k \in DOMAIN fs /\ Len(fs) - (Len(fs) - k) = k
    BY <1>1
  <2>4. QED  BY <2>2, <2>3 DEF Forms
<1>3. QED  BY <1>1, <1>2

LEMMA One ==
  ASSUME IInv, NEW f \in Form, Forms(<<f>>)
  PROVE  1 \in 0 .. Len(stack) /\ Good(Child(0)) /\ Child(0).form = f
<1> DEFINE fs == <<f>>
<1>1. fs \in Seq(Form) /\ Len(fs) = 1 /\ fs[1] = f
  OBVIOUS
<1> HIDE DEF fs
<1>2. Forms(fs)  BY DEF fs
<1>3. /\ Len(fs) \in 0 .. Len(stack)
      /\ \A k \in 0 .. Len(fs) - 1 : Good(Child(k)) /\ Child(k).form = fs[Len(fs) - k]
  BY <1>1, <1>2, ChildrenGood
<1>4. QED  BY <1>1, <1>3

LEMMA Two ==
  ASSUME IInv, NEW f \in Form, NEW g \in Form, Forms(<<f, g>>)
  PROVE  /\ 2 \in 0 .. Len(stack)
         /\ Good(Child(1)) /\ Child(1).form = f
         /\ Good(Child(0)) /\ Child(0).form = g
<1> DEFINE fs == <<f, g>>
<1>1. fs \in Seq(Form) /\ Len(fs) = 2 /\ fs[1] = f /\ fs[2] = g
  OBVIOUS
<1> HIDE DEF fs
<1>2. Forms(fs)  BY DEF fs
<1>3. /\ Len(fs) \in 0 .. Len(stack)
      /\ \A k \in 0 .. Len(fs) - 1 : Good(Child(k)) /\ Child(k).form = fs[Len(fs) - k]
  BY <1>1, <1>2, ChildrenGood
<1>4. QED  BY <1>1, <1>3

LEMMA Three ==
  ASSUME IInv, NEW f \in Form, NEW g \in Form, NEW h \in Form, Forms(<<f, g, h>>)
  PROVE  /\ 3 \in 0 .. Len(stack)
         /\ Good(Child(2)) /\ Child(2).form = f
         /\ Good(Child(0)) /\ Child(0).form = h
<1> DEFINE fs == <<f, g, h>>
<1>1. fs \in Seq(Form) /\ Len(fs) = 3 /\ fs[1] = f /\ fs[2] = g /\ fs[3] = h
  OBVIOUS
<1> HIDE DEF fs
<1>2. Forms(fs)  BY DEF fs
<1>3. /\ Len(fs) \in 0 .. Len(stack)
      /\ \A k \in 0 .. Len(fs) - 1 : Good(Child(k)) /\ Child(k).form = fs[Len(fs) - k]
  BY <1>1, <1>2, ChildrenGood
<1>4. QED  BY <1>1, <1>3

LEMMA Four ==
  ASSUME IInv, Forms(<<"stmt", "expr", "stmt", "stmt">>)
  PROVE  /\ 4 \in 0 .. Len(stack)
         /\ Good(Child(3)) /\ Good(Child(2)) /\ Good(Child(1)) /\ Good(Child(0))
<1> DEFINE fs == <<"stmt", "expr", "stmt", "stmt">>
<1>1. fs \in Seq(Form) /\ Len(fs) = 4
  BY DEF Form
<1> HIDE DEF fs
<1>2. Forms(fs)  BY DEF fs
<1>3. /\ Len(fs) \in 0 .. Len(stack)
      /\ \A k \in 0 .. Len(fs) - 1 : Good(Child(k))
  BY <1>1, <1>2, ChildrenGood
<1>4. QED  BY <1>1, <1>3
-----------------------------------------------------------------------------
(* The invariant.                                                          *)
LEMMA InitIInv == Init /\ MaxNodesAssumption => IInv
BY DEF Init, IInv, MaxNodesAssumption

LEMMA NextIInv ==
  ASSUME IInv, MaxNodesAssumption, [Next]_vars
  PROVE  IInv'
<1> USE MaxNodesAssumption
<1>0. stack \in Seq(Tree) /\ 0 \in 0 .. Len(stack) /\ phase \in {"immutable", "mutable"}
  BY DEF IInv
<1>00. "expr" \in Form /\ "args" \in Form /\ "stmt" \in Form /\ "ports" \in Form
  BY DEF Form
<1>1. CASE This
  <2>1. PICK r \in {Read, Write} :
          Visit(0, Leaf("expr", Marked(TRUE, Read, None), Denoting("receiver", r, TRUE)))
    BY <1>1 DEF This
  <2>2. QED  BY <1>0, <2>1, ThisGood, VisitGood
<1>2. CASE Local
  BY <1>0, <1>2, LocalGood, VisitGood DEF Local
<1>3. CASE Literal
  BY <1>0, <1>00, <1>3, LeafGood, VisitGood DEF Literal
<1>4. CASE Derive
  <2>1. 1 \in 0 .. Len(stack) /\ Good(Child(0)) /\ Child(0).form = "expr"
    BY <1>00, <1>4, One DEF Derive
  <2>2. PICK p \in BOOLEAN, r \in {Read, Write}, o \in Places(Child(0)) :
          r <= Child(0).value.rights /\ Visit(1, Derived(Child(0), o, r, p))
    BY <1>4 DEF Derive
  <2>3. QED  BY <2>1, <2>2, DeriveGood, VisitGood
<1>5. CASE Index
  <2>1. /\ 2 \in 0 .. Len(stack) /\ Good(Child(1)) /\ Child(1).form = "expr"
        /\ Good(Child(0)) /\ Child(0).form = "expr"
    BY <1>00, <1>5, Two DEF Index
  <2>2. PICK p \in BOOLEAN, o \in Places(Child(1)) : Visit(2, Indexed(Child(1), Child(0), o, p))
    BY <1>5 DEF Index
  <2>3. QED  BY <2>1, <2>2, IndexGood, VisitGood
<1>6. CASE UnaryArithmetic
  <2>1. 1 \in 0 .. Len(stack) /\ Good(Child(0)) /\ Child(0).form = "expr"
    BY <1>00, <1>6, One DEF UnaryArithmetic
  <2>2. Visit(1, Over("expr", Child(0), Reading(Child(0))))
    BY <1>6 DEF UnaryArithmetic
  <2>3. QED  BY <2>1, <2>2, OverGood, VisitGood
<1>7. CASE BinaryArithmetic
  <2>1. /\ 2 \in 0 .. Len(stack) /\ Good(Child(1)) /\ Child(1).form = "expr"
        /\ Good(Child(0)) /\ Child(0).form = "expr"
    BY <1>00, <1>7, Two DEF BinaryArithmetic
  <2>2. Visit(2, Both("expr", Child(1), Child(0), Reading(Child(1)) \oplus Reading(Child(0))))
    BY <1>7 DEF BinaryArithmetic
  <2>3. QED  BY <2>1, <2>2, BothGood, VisitGood
<1>8. CASE NoArguments
  BY <1>0, <1>00, <1>8, LeafGood, VisitGood DEF NoArguments
<1>9. CASE Pass
  <2>1. /\ 2 \in 0 .. Len(stack) /\ Good(Child(1)) /\ Child(1).form = "args"
        /\ Good(Child(0)) /\ Child(0).form = "expr"
    BY <1>00, <1>9, Two DEF Pass
  <2>2. PICK p \in Parameter :
          /\ Accepts(p, Child(0))
          /\ \E v \in {Child(1).value} \cup PointerIn(Child(0), p) :
               Visit(2, Passed(Child(1), Child(0), p, v))
    BY <1>9 DEF Pass
  <2>3. QED  BY <2>1, <2>2, PassedGood, VisitGood
<1>10. CASE Call
  <2>1. 1 \in 0 .. Len(stack) /\ Good(Child(0)) /\ Child(0).form = "args"
    BY <1>00, <1>10, One DEF Call
  <2>2. PICK r \in Parameter :
          /\ Returns(Child(0).value, r)
          /\ Visit(1, Returned(Child(0), Child(0).value, r))
    BY <1>10 DEF Call
  <2> DEFINE v == Child(0).value
  <2>3. /\ v \in Value
        /\ Plain(v) = "receiver" => v.rights >= Read
        /\ Plain(v) = "receiver" /\ ~Child(0).eval.state => v.rights <= Child(0).eval.access
    BY <2>1, GoodParts DEF Paid
  <2>4. Good(Returned(Child(0), v, r))
    BY <2>1, <2>2, <2>3, ReturnedGood
  <2>5. QED  BY <2>1, <2>2, <2>4, VisitGood
<1>11. CASE MethodCall
  <2>1. /\ 2 \in 0 .. Len(stack) /\ Good(Child(1)) /\ Child(1).form = "expr"
        /\ Good(Child(0)) /\ Child(0).form = "args"
    BY <1>00, <1>11, Two DEF MethodCall
  <2>2. PICK p \in Parameter, r \in Parameter :
          \E v \in {Child(0).value} \cup PointerIn(Child(1), p) :
            /\ Returns(v, r)
            /\ Visit(2, Returned(Invoked(Child(1), Child(0), p), v, r))
    BY <1>11 DEF MethodCall
  <2>3. QED  BY <2>1, <2>2, MethodCallGood, VisitGood
<1>12. CASE EmptyStatement
  BY <1>0, <1>00, <1>12, LeafGood, VisitGood DEF EmptyStatement
<1>13. CASE Evaluate
  <2>1. 1 \in 0 .. Len(stack) /\ Good(Child(0)) /\ Child(0).form = "expr"
    BY <1>00, <1>13, One DEF Evaluate
  <2>2. Visit(1, Over("stmt", Child(0), Reading(Child(0))))
    BY <1>13 DEF Evaluate
  <2>3. QED  BY <2>1, <2>2, OverGood, VisitGood
<1>14. CASE Var
  <2>1. 1 \in 0 .. Len(stack) /\ Good(Child(0)) /\ Child(0).form = "expr"
    BY <1>00, <1>14, One DEF Var
  <2>2. Visit(1, Declared(Child(0)))
    BY <1>14 DEF Var
  <2>3. QED  BY <2>1, <2>2, DeclaredGood, VisitGood
<1>15. CASE Assign
  <2>1. 2 \in 0 .. Len(stack) /\ Good(Child(1)) /\ Good(Child(0))
    BY <1>00, <1>15, Two DEF Assign
  <2>2. Child(1).value.rights = Write /\ Visit(2, Assigned(Child(1), Child(0)))
    BY <1>15 DEF Assign
  <2>3. QED  BY <2>1, <2>2, AssignedGood, VisitGood
<1>16. CASE Update
  <2>1. 2 \in 0 .. Len(stack) /\ Good(Child(1)) /\ Good(Child(0))
    BY <1>00, <1>16, Two DEF Update
  <2>2. Child(1).value.rights = Write /\ Visit(2, Updated(Child(1), Child(0)))
    BY <1>16 DEF Update
  <2>3. QED  BY <2>1, <2>2, UpdatedGood, VisitGood
<1>17. CASE Join
  <2>1. 2 \in 0 .. Len(stack) /\ Good(Child(1)) /\ Good(Child(0))
    BY <1>00, <1>17, Two DEF Join
  <2>2. Visit(2, Both("stmt", Child(1), Child(0), Idle))
    BY <1>17 DEF Join
  <2>3. QED  BY <2>1, <2>2, BothGood, VisitGood
<1>18. CASE If
  <2>1. /\ 4 \in 0 .. Len(stack)
        /\ Good(Child(3)) /\ Good(Child(2)) /\ Good(Child(1)) /\ Good(Child(0))
    BY <1>18, Four DEF If
  <2>2. Visit(4, Branched(Child(3), Child(2), Child(1), Child(0)))
    BY <1>18 DEF If
  <2>3. QED  BY <2>1, <2>2, BranchedGood, VisitGood
<1>19. CASE While
  <2>1. 2 \in 0 .. Len(stack) /\ Good(Child(1)) /\ Good(Child(0)) /\ Child(0).form = "stmt"
    BY <1>00, <1>19, Two DEF While
  <2>2. Visit(2, Looped(Child(1), Child(0)))
    BY <1>19 DEF While
  <2>3. QED  BY <2>1, <2>2, LoopedGood, VisitGood
<1>20. CASE Change
  <2>1. 2 \in 0 .. Len(stack) /\ Good(Child(1)) /\ Good(Child(0))
    BY <1>00, <1>20, Two DEF Change
  <2>2. Visit(2, Changed(Child(1), Child(0)))
    BY <1>20 DEF Change
  <2>3. QED  BY <2>1, <2>2, ChangedGood, VisitGood
<1>21. CASE NoPortCalls
  BY <1>0, <1>00, <1>21, LeafGood, VisitGood DEF NoPortCalls
<1>22. CASE PushPortCall
  <2>1. /\ 2 \in 0 .. Len(stack) /\ Good(Child(1)) /\ Child(1).form = "ports"
        /\ Good(Child(0)) /\ Child(0).form = "expr"
    BY <1>00, <1>22, Two DEF PushPortCall
  <2>2. Visit(2, Both("ports", Child(1), Child(0), Reading(Child(0))))
    BY <1>22 DEF PushPortCall
  <2>3. QED  BY <2>1, <2>2, BothGood, VisitGood
<1>23. CASE IndexedPushPortCall
  <2>1. /\ 3 \in 0 .. Len(stack) /\ Good(Child(2)) /\ Child(2).form = "ports"
        /\ Good(Child(0)) /\ Child(0).form = "expr"
    BY <1>00, <1>23, Three DEF IndexedPushPortCall
  <2>2. Visit(3, Both("ports", Child(2), Child(0), Reading(Child(0))))
    BY <1>23 DEF IndexedPushPortCall
  <2>3. QED  BY <2>1, <2>2, BothGood, VisitGood
<1>24. CASE EnterBody
  BY <1>24 DEF EnterBody, IInv
<1>25. CASE Activate
  <2>1. 2 \in 0 .. Len(stack) /\ Good(Child(1)) /\ Good(Child(0))
    BY <1>00, <1>25, Two DEF Activate
  <2>2. Good(Activated(Child(1), Child(0)))
    BY <2>1, ActivatedGood
  <2>3. stack' \in Seq(Tree) /\ \A i \in DOMAIN stack' : Good(stack'[i])
    BY <1>25, <2>1, <2>2, GoodStack DEF Activate, IInv
  <2>4. QED  BY <1>25, <2>3 DEF Activate, IInv, MaxNodesAssumption
<1>26. CASE MoveOrMerge
  <2>1. 1 \in 0 .. Len(stack) /\ Good(Child(0)) /\ Child(0).form = "expr"
    BY <1>00, <1>26, One DEF MoveOrMerge
  <2>2. Visit(1, Unlinked(Child(0)))
    BY <1>26 DEF MoveOrMerge
  <2>3. QED  BY <2>1, <2>2, UnlinkedGood, VisitGood
<1>27. CASE UNCHANGED vars
  BY <1>27 DEF vars, IInv
<1>28. QED
  BY <1>1, <1>2, <1>3, <1>4, <1>5, <1>6, <1>7, <1>8, <1>9, <1>10, <1>11, <1>12, <1>13,
     <1>14, <1>15, <1>16, <1>17, <1>18, <1>19, <1>20, <1>21, <1>22, <1>23, <1>24, <1>25,
     <1>26, <1>27 DEF Next

(* The invariant implies what is claimed of the trees.                     *)
LEMMA Consequences ==
  ASSUME IInv
  PROVE  TypeOK /\ SeenIsAsked /\ ForgottenIsAsked /\ NoNeedlessWrite
<1>1. TypeOK  BY DEF IInv, TypeOK
<1>2. ASSUME NEW e \in Trees
      PROVE  /\ Actual(e.does.seen) <= Asked(e)
             /\ e.value.of = "receiver" /\ ~e.eval.state /\ ~e.value.beyond
                  => e.value.rights <= e.eval.access
             /\ Asked(e) = Write => Write \in {e.does.seen.touch, e.does.seen.leak}
  <2>1. Good(e)
    BY DEF Trees, IInv
  <2>2. /\ e.does \in Doings /\ e.eval.access \in Access /\ e.eval.mutable \in Access
        /\ Paid(e.form, e.eval.state, e.eval.access, e.eval.mutable, Plain(e.value),
                e.value.rights, e.does.seen.touch, e.does.seen.leak)
    BY <2>1, GoodParts
  <2>3. /\ e.does.seen.touch \in Access /\ e.does.seen.leak \in Access
        /\ e.does.seen.via \in Access
    BY <2>2, DoingsParts
  <2>4. Actual(e.does.seen) <= Asked(e)
    BY <2>2, <2>3 DEF Paid, Actual, Asked, Larger, Smaller
  <2>5. QED  BY <2>2, <2>3, <2>4 DEF Paid, Plain, Asked
<1>3. QED  BY <1>1, <1>2 DEF SeenIsAsked, ForgottenIsAsked, NoNeedlessWrite

(* Every annotation is one the visitor can give, and every tree is sound.  *)
THEOREM Invariance == Spec => []IInv
<1>1. Init => IInv
  BY InitIInv, MaxNodesAssumption
<1>2. IInv /\ [Next]_vars => IInv'
  BY NextIInv, MaxNodesAssumption
<1>3. QED  BY <1>1, <1>2, PTL DEF Spec

(* TypeOK: the annotations of compute_receiver_access.cpp are well-formed  *)
(* for programs of every size.                                             *)
THEOREM TypeCorrect == Spec => []TypeOK
BY Invariance, Consequences, PTL

(* SeenIsAsked: the accesses that instance_set () will insert for a        *)
(* transition cover everything it does in the places where the visitor     *)
(* looks: the condition of an If or While, the pointer in a Var or Change, *)
(* the rights of a forgotten pointer that a method is invoked on and the   *)
(* links that move and merge break are all that it misses.                 *)
THEOREM Covering == Spec => []SeenIsAsked
BY Invariance, Consequences, PTL

(* ForgottenIsAsked: a pointer into the receiver that the visitor does not *)
(* mark, as what a method returns, has no more rights than have been asked *)
(* for, unless a method gave it rights that it did not get.                *)
THEOREM Forgetting == Spec => []ForgottenIsAsked
BY Invariance, Consequences, PTL

(* NoNeedlessWrite: compute_receiver_access.cpp asks for a write only when *)
(* something is written or a pointer that allows it is put in a variable.  *)
THEOREM Economy == Spec => []NoNeedlessWrite
BY Invariance, Consequences, PTL
=============================================================================
