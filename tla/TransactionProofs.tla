-------------------------- MODULE TransactionProofs --------------------------
(***************************************************************************)
(* That the code the compiler generates and the layout it is generated     *)
(* for agree in every transaction, and that the bodies deferred to the     *)
(* mutable phase run in reverse order, on a stack and in heaps that are    *)
(* restored.  The invariant IInv has a part for each structure: the scopes *)
(* of a frame and its words (Frames, GoodText), the place of the frames on *)
(* the stack (Layout), the native calls (Calls), the list of deferred      *)
(* bodies (Deferred), the arguments of port calls (Arguments), the heaps   *)
(* saved by change statements (Quiet, Heaps) and the phases (Phases).      *)
(*                                                                         *)
(* First the operators: entering, opening, closing and assigning keep a    *)
(* frame well-formed.  Then the steps, by what they do to the stack: a     *)
(* statement stays in its frame (Stays), a call pushes one (Pushes), a     *)
(* return pops one (Pops), an activation defers one (Activates).           *)
(***************************************************************************)
EXTENDS Transaction, FiniteSetTheorems, SequenceTheorems, TLAPS

(* The types of the state.                                                 *)
Kind == {"Receiver", "Receiver_Duplicate", "Ordinary", "Ordinary_Duplicate",
         "Variable", "Variable_Duplicate", "Hidden"}
Symbol == [kind : Kind, type : {"C", "T", "H"}, im : Mutability, ind : Mutability, off : Int]
Table == UNION {[S -> Symbol] : S \in SUBSET Nat}
Scope == [kind : {"list", "parameters", "block", "change", "activate"}, symbols : Table]
ObjectType == [heap : Nat, p : Nat, h : Nat, link : BOOLEAN]
ValueTable == UNION {[S -> Nat] : S \in SUBSET Nat}
FrameType ==
  [context : {"action", "reaction", "getter", "other"}, scopes : Seq(Scope), values : ValueTable,
   returns : BOOLEAN, next : Nat, locals : Nat, mutable : BOOLEAN, changes : Seq(Nat)]
NativeType ==
  [bp : Nat, old : Nat, ports : BOOLEAN, todo : Seq(Instances), top : Nat, type : {"T", "H"}]

(* The words of a frame below its base pointer: the fake instruction       *)
(* pointer is not among them, the result and the parameters are.           *)
Below(f) == IF f.returns \/ f.context = "reaction" THEN 3 ELSE 2

(* The variables that a scope reserves words for.                          *)
VariablesOf(s) == {n \in DOMAIN s.symbols : s.symbols[n].kind = "Variable"}

(* The scopes of a frame, innermost first; names are numbered in the       *)
(* order in which they are entered.                                        *)
Nested(f) ==
  /\ Len(f.scopes) >= 2
  /\ \A k \in DOMAIN f.scopes :
       /\ f.scopes[k].kind = "parameters" <=> k = Len(f.scopes)
       /\ f.scopes[k].kind = "list" <=> k = Len(f.scopes) - 1
       /\ DOMAIN f.scopes[k].symbols \subseteq 1 .. f.next - 1
  /\ f.next >= 2
  /\ f.values \in [1 .. f.next - 1 -> Nat]
  /\ f.mutable <=> \E k \in DOMAIN f.scopes : f.scopes[k].kind = "activate"

(* What the kind of the code says of its frame.                            *)
Contexts(f) ==
  /\ f.context = "getter" => f.returns
  /\ f.context \in {"action", "reaction"} =>
       /\ ~f.returns
       /\ 1 \in DOMAIN f.scopes[Len(f.scopes)].symbols
       /\ f.scopes[Len(f.scopes)].symbols[1].type = "C"
       /\ f.scopes[Len(f.scopes)].symbols[1].off = 0 - Below(f)
  /\ f.returns => f.changes = <<>>

(* Every declaration of a name leads to one word, and no two names share   *)
(* one.                                                                    *)
Agree(f) ==
  \A j, k \in DOMAIN f.scopes :
    \A n \in DOMAIN f.scopes[j].symbols, m \in DOMAIN f.scopes[k].symbols :
      IF n = m THEN /\ f.scopes[j].symbols[n].off = f.scopes[k].symbols[m].off
                    /\ f.scopes[j].symbols[n].type = f.scopes[k].symbols[m].type
               ELSE f.scopes[j].symbols[n].off # f.scopes[k].symbols[m].off

(* A word is used by one variable at a time: mark[k] is the first word     *)
(* that was free when scope k - 1 was opened.                              *)
Marks(f, mark) ==
  /\ mark \in [1 .. Len(f.scopes) + 1 -> 1 .. MaxLocals + 1]
  /\ mark[1] = f.locals
  /\ \A j, k \in 1 .. Len(f.scopes) + 1 : j <= k => mark[k] <= mark[j]
  /\ \A k \in DOMAIN f.scopes :
       /\ mark[k] - mark[k + 1] = Cardinality(VariablesOf(f.scopes[k]))
       /\ \A n \in DOMAIN f.scopes[k].symbols :
            \/ f.scopes[k].symbols[n].off \in 1 .. mark[k] - 1
            \/ f.scopes[k].symbols[n].off \in (0 - Below(f)) .. (0 - 2)

(* The change statements a scope is nested in, up to the activation        *)
(* around it: as many heaps are saved.                                     *)
Depths(f, depth) ==
  /\ depth \in [1 .. Len(f.scopes) -> Nat]
  /\ \A k \in DOMAIN f.scopes :
       /\ f.scopes[k].kind = "block" => depth[k] = depth[k + 1]
       /\ f.scopes[k].kind = "change" => depth[k] = depth[k + 1] + 1
       /\ f.scopes[k].kind \notin {"block", "change"} => depth[k] = 0
  /\ f.scopes[1].kind # "activate" => depth[1] = Len(f.changes)

(* The frame is well-formed.                                               *)
GoodText(f) ==
  /\ f \in FrameType
  /\ Nested(f) /\ Contexts(f) /\ Agree(f)
  /\ \E mark : Marks(f, mark)
  /\ \E depth : Depths(f, depth)

(* Frame f at b on the stack d, where there are m objects. *)
InStack(f, b, d, m) ==
  \A k \in DOMAIN f.scopes : \A n \in DOMAIN f.scopes[k].symbols :
    /\ d[b + f.scopes[k].symbols[n].off] = f.values[n]
    /\ IF f.scopes[k].symbols[n].type = "C" THEN f.values[n] \in Instances ELSE f.values[n] <= m

-----------------------------------------------------------------------------
(* A function over the first m numbers is a sequence.                      *)
LEMMA FunctionIsSeq ==
  ASSUME NEW S, NEW m \in Nat, NEW a \in [1 .. m -> S]
  PROVE  a \in Seq(S)
BY SeqDef, Zenon

(* What the assumption says of the constants, in the form the proofs use.  *)
LEMMA Constants ==
  /\ MaxLocals \in Nat
  /\ IsFiniteSet(Instances) /\ N \in Nat /\ Instances = 1 .. N /\ 1 \in Instances
  /\ \A b \in Bindings : b \in [Instances -> Seq(Instances)]
  /\ \A i \in Instances : Pull[i] \subseteq Instances
BY TransactionAssumption, FS_CardinalityType DEF N, TransactionAssumption

(* A table of symbols is a function from some set of names to symbols.     *)
LEMMA TableFact ==
  ASSUME NEW t
  PROVE  t \in Table <=> DOMAIN t \subseteq Nat /\ t \in [DOMAIN t -> Symbol]
<1>1. ASSUME t \in Table PROVE DOMAIN t \subseteq Nat /\ t \in [DOMAIN t -> Symbol]
  <2>1. PICK S \in SUBSET Nat : t \in [S -> Symbol]
    BY <1>1 DEF Table
  <2>2. DOMAIN t = S
    BY <2>1
  <2>3. QED
    BY <2>1, <2>2
<1>2. ASSUME DOMAIN t \subseteq Nat, t \in [DOMAIN t -> Symbol] PROVE t \in Table
  <2>1. DOMAIN t \in SUBSET Nat
    BY <1>2
  <2>2. QED
    BY <1>2, <2>1, Zenon DEF Table
<1>3. QED
  BY <1>1, <1>2

(* The values of the first n names are a table of values.                  *)
LEMMA ValueTableFact ==
  ASSUME NEW n \in Nat, NEW v, v \in [1 .. n -> Nat]
  PROVE  v \in ValueTable
<1>1. 1 .. n \in SUBSET Nat
  OBVIOUS
<1>2. QED
  BY <1>1, Zenon DEF ValueTable

(* Entering a symbol gives a table of symbols (Scope::enter_symbol).       *)
LEMMA SymbolAdded ==
  ASSUME NEW t \in Table, NEW n \in Nat, NEW s \in Symbol
  PROVE  Put(t, n, s) \in Table
<1> DEFINE u == Put(t, n, s)
<1>1. DOMAIN t \subseteq Nat /\ t \in [DOMAIN t -> Symbol]
  BY TableFact
<1>2. u = [m \in DOMAIN t \cup {n} |-> IF m = n THEN s ELSE t[m]]
  BY DEF Put
<1>3. DOMAIN u \subseteq Nat /\ u \in [DOMAIN u -> Symbol]
  BY <1>1, <1>2
<1>4. QED
  BY <1>3, TableFact

(* A duplicate and a hidden symbol keep the offset and the type of the     *)
(* symbol they stand for; neither is a variable that a scope reserves a    *)
(* word for.                                                               *)
LEMMA DuplicateType ==
  ASSUME NEW s \in Symbol, NEW m \in Mutability
  PROVE  /\ Duplicate(s, m) \in Symbol
         /\ Duplicate(s, m).off = s.off /\ Duplicate(s, m).type = s.type
         /\ Duplicate(s, m).kind # "Variable"
         /\ Hidden(s) \in Symbol
         /\ Hidden(s).off = s.off /\ Hidden(s).type = s.type
         /\ Hidden(s).kind # "Variable"
BY DEF Duplicate, Hidden, Symbol, Kind

(* What a table holds is a symbol.                                         *)
LEMMA SymbolOf ==
  ASSUME NEW t \in Table, NEW n \in DOMAIN t
  PROVE  t[n] \in Symbol /\ n \in Nat
BY TableFact

(* The scopes of a frame, and the symbols they hold, have their types.     *)
LEMMA ScopeOf ==
  ASSUME NEW f \in FrameType, NEW k \in DOMAIN f.scopes
  PROVE  /\ f.scopes \in Seq(Scope) /\ f.scopes[k] \in Scope /\ f.scopes[k].symbols \in Table
         /\ k \in 1 .. Len(f.scopes)
         /\ \A n \in DOMAIN f.scopes[k].symbols : /\ f.scopes[k].symbols[n] \in Symbol /\ n \in Nat
                                                  /\ f.scopes[k].symbols[n].off \in Int
<1>1. f.scopes \in Seq(Scope)
  BY DEF FrameType
<1>2. k \in 1 .. Len(f.scopes) /\ f.scopes[k] \in Scope
  BY <1>1
<1>3. f.scopes[k].symbols \in Table
  BY <1>2 DEF Scope
<1>4. QED
  BY <1>1, <1>2, <1>3, SymbolOf DEF Symbol

(* The variables a scope reserves words for can be counted.                *)
LEMMA VariablesFinite ==
  ASSUME NEW f \in FrameType, Nested(f), NEW k \in DOMAIN f.scopes
  PROVE  IsFiniteSet(VariablesOf(f.scopes[k])) /\ Cardinality(VariablesOf(f.scopes[k])) \in Nat
<1>1. VariablesOf(f.scopes[k]) \subseteq 1 .. f.next - 1
  BY DEF VariablesOf, Nested
<1>2. f.next \in Nat
  BY DEF FrameType
<1>3. IsFiniteSet(1 .. f.next - 1)
  BY <1>2, FS_Interval
<1>4. QED
  BY <1>1, <1>3, FS_Subset, FS_CardinalityType

(* A set of naturals has a least element.                                  *)
LEMMA LeastNat ==
  ASSUME NEW S \in SUBSET Nat, S # {}
  PROVE  \E m \in S : \A k \in S : m <= k
<1>1. PICK m \in S : \A k \in S : ~(<<k, m>> \in OpToRel(<, Nat))
  BY WFMin, NatLessThanWellFounded
<1>2. \A k \in S : ~(k < m)
  BY <1>1 DEF OpToRel
<1>3. QED
  BY <1>2

(* A name is found in one of the scopes that declare it                    *)
(* (Scope::find_global_symbol).                                            *)
LEMMA FindIn ==
  ASSUME NEW scopes \in Seq(Scope), NEW n \in Names(scopes)
  PROVE  \E k \in DOMAIN scopes : n \in DOMAIN scopes[k].symbols /\ Find(scopes, n) = scopes[k].symbols[n]
<1> DEFINE S == {k \in 1 .. Len(scopes) : n \in DOMAIN scopes[k].symbols}
           P(k) == n \in DOMAIN scopes[k].symbols /\ \A m \in 1 .. k - 1 : n \notin DOMAIN scopes[m].symbols
<1>1. DOMAIN scopes = 1 .. Len(scopes) /\ Len(scopes) \in Nat
  OBVIOUS
<1>2. S # {} /\ S \in SUBSET Nat
  BY <1>1 DEF Names
<1>3. PICK k \in S : \A j \in S : k <= j
  BY <1>2, LeastNat
<1>4. k \in DOMAIN scopes /\ P(k)
  BY <1>1, <1>3
<1> DEFINE i == CHOOSE j \in DOMAIN scopes : P(j)
<1>5. i \in DOMAIN scopes /\ P(i)
  BY <1>4
<1>6. Find(scopes, n) = scopes[i].symbols[n]
  BY DEF Find
<1>7. QED
  BY <1>5, <1>6

(* A name that can be used is declared, and is not hidden.                 *)
LEMMA VisibleNames ==
  ASSUME NEW scopes
  PROVE  Visible(scopes) \subseteq Names(scopes) /\ \A n \in Visible(scopes) : Find(scopes, n).kind # "Hidden"
BY DEF Visible

(* The types of the fields of a well-formed frame.                         *)
LEMMA Basics ==
  ASSUME NEW f, GoodText(f)
  PROVE  /\ f \in FrameType /\ Nested(f)
         /\ f.next \in Nat /\ f.locals \in Nat /\ f.scopes \in Seq(Scope) /\ f.changes \in Seq(Nat)
         /\ Len(f.scopes) \in Nat /\ Len(f.scopes) >= 2
         /\ DOMAIN f.scopes = 1 .. Len(f.scopes) /\ f.next >= 2
         /\ f.locals >= 1 /\ f.locals <= MaxLocals + 1 /\ MaxLocals \in Nat
         /\ f.values \in [1 .. f.next - 1 -> Nat]
<1>1. f \in FrameType /\ Nested(f)
  BY DEF GoodText
<1>2. f.next \in Nat /\ f.locals \in Nat /\ f.scopes \in Seq(Scope) /\ f.changes \in Seq(Nat)
  BY <1>1 DEF FrameType
<1>3. Len(f.scopes) \in Nat /\ Len(f.scopes) >= 2 /\ DOMAIN f.scopes = 1 .. Len(f.scopes) /\ f.next >= 2
      /\ f.values \in [1 .. f.next - 1 -> Nat]
  BY <1>1, <1>2 DEF Nested
<1>4. PICK mark : mark \in [1 .. Len(f.scopes) + 1 -> 1 .. MaxLocals + 1] /\ mark[1] = f.locals
  BY DEF GoodText, Marks
<1>5. f.locals \in 1 .. MaxLocals + 1 /\ MaxLocals \in Nat
  BY <1>3, <1>4, Constants
<1>6. QED
  BY <1>1, <1>2, <1>3, <1>5

(* Whatever scope a name is found in, its offset and its type are those    *)
(* of its first declaration.                                               *)
LEMMA NamedOnce ==
  ASSUME NEW f, GoodText(f), NEW n \in Names(f.scopes)
  PROVE  /\ Find(f.scopes, n) \in Symbol
         /\ n \in 1 .. f.next - 1
         /\ Find(f.scopes, n).off \in 1 .. f.locals - 1 \/ Find(f.scopes, n).off \in (0 - Below(f)) .. (0 - 2)
         /\ \A k \in DOMAIN f.scopes : n \in DOMAIN f.scopes[k].symbols =>
              /\ f.scopes[k].symbols[n].off = Find(f.scopes, n).off
              /\ f.scopes[k].symbols[n].type = Find(f.scopes, n).type
         /\ \A k \in DOMAIN f.scopes : \A m \in DOMAIN f.scopes[k].symbols :
              m # n => f.scopes[k].symbols[m].off # Find(f.scopes, n).off
<1> USE DEF GoodText
<1>1. f.scopes \in Seq(Scope)
  BY DEF FrameType
<1>2. PICK k \in DOMAIN f.scopes : n \in DOMAIN f.scopes[k].symbols /\ Find(f.scopes, n) = f.scopes[k].symbols[n]
  BY <1>1, FindIn
<1>3. Find(f.scopes, n) \in Symbol
  BY <1>2, ScopeOf
<1>4. n \in 1 .. f.next - 1
  BY <1>2 DEF Nested
<1>5. PICK mark : Marks(f, mark)
  OBVIOUS
<1>6. mark[k] <= f.locals
  BY <1>5, <1>1 DEF Marks
<1>7. Find(f.scopes, n).off \in 1 .. f.locals - 1 \/ Find(f.scopes, n).off \in (0 - Below(f)) .. (0 - 2)
  <2>1. mark[k] \in Int /\ f.locals \in Int
    BY <1>5, <1>1 DEF Marks, FrameType
  <2>2. QED
    BY <1>2, <1>5, <1>6, <2>1 DEF Marks
<1>8. PICK s : s = Find(f.scopes, n)
  OBVIOUS
<1>9. \A i, j \in DOMAIN f.scopes :
        \A a \in DOMAIN f.scopes[i].symbols, b \in DOMAIN f.scopes[j].symbols :
          /\ a = b => /\ f.scopes[i].symbols[a].off = f.scopes[j].symbols[b].off
                      /\ f.scopes[i].symbols[a].type = f.scopes[j].symbols[b].type
          /\ a # b => f.scopes[i].symbols[a].off # f.scopes[j].symbols[b].off
  BY DEF Agree
<1>10. \A j \in DOMAIN f.scopes : n \in DOMAIN f.scopes[j].symbols =>
         f.scopes[j].symbols[n].off = s.off /\ f.scopes[j].symbols[n].type = s.type
  BY <1>2, <1>8, <1>9
<1>11. \A j \in DOMAIN f.scopes : \A m \in DOMAIN f.scopes[j].symbols :
         m # n => f.scopes[j].symbols[m].off # s.off
  BY <1>2, <1>8, <1>9
<1>12. QED
  BY <1>3, <1>4, <1>7, <1>8, <1>10, <1>11

(* The symbol found for a name has the type of a symbol.                   *)
LEMMA NamedType ==
  ASSUME NEW f, GoodText(f), NEW n \in Names(f.scopes)
  PROVE  Find(f.scopes, n) \in Symbol /\ n \in 1 .. f.next - 1 /\ n \in Nat
<1>1. Find(f.scopes, n) \in Symbol /\ n \in 1 .. f.next - 1
  BY NamedOnce
<1>2. f.next \in Nat
  BY Basics
<1>3. QED
  BY <1>1, <1>2

-----------------------------------------------------------------------------
(* What entering a variable changes in a frame, field by field.            *)
LEMMA EnteredFields ==
  ASSUME NEW f \in FrameType, Nested(f), NEW s \in Symbol, NEW v \in Nat
  PROVE  LET g == Entered(f, s, v)
             t == Put(f.scopes[1].symbols, f.next, s)
         IN  /\ g \in FrameType
             /\ g.context = f.context /\ g.returns = f.returns /\ g.mutable = f.mutable
             /\ g.changes = f.changes
             /\ g.next = f.next + 1 /\ g.locals = f.locals + 1
             /\ g.values = Put(f.values, f.next, v) /\ g.values \in [1 .. f.next -> Nat]
             /\ Len(g.scopes) = Len(f.scopes)
             /\ g.scopes[1].kind = f.scopes[1].kind /\ g.scopes[1].symbols = t
             /\ \A k \in 2 .. Len(f.scopes) : g.scopes[k] = f.scopes[k]
<1> DEFINE t == Put(f.scopes[1].symbols, f.next, s)
           top == [f.scopes[1] EXCEPT !.symbols = t]
           scopes == [f.scopes EXCEPT ![1] = top]
           values == Put(f.values, f.next, v)
<1>1. f.next \in Nat /\ f.locals \in Nat /\ f.scopes \in Seq(Scope) /\ Len(f.scopes) >= 2 /\ 1 \in DOMAIN f.scopes
  BY DEF FrameType, Nested
<1>2. f.scopes[1] \in Scope /\ f.scopes[1].symbols \in Table
  BY <1>1, ScopeOf
<1>3. t \in Table
  BY <1>1, <1>2, SymbolAdded
<1>4. top \in Scope /\ top.kind = f.scopes[1].kind /\ top.symbols = t
  BY <1>2, <1>3 DEF Scope
<1>5. scopes \in Seq(Scope) /\ Len(scopes) = Len(f.scopes) /\ scopes[1] = top
      /\ \A k \in 2 .. Len(f.scopes) : scopes[k] = f.scopes[k]
  BY <1>1, <1>4, ExceptSeq
<1>6. values \in [1 .. f.next -> Nat]
  BY <1>1 DEF Nested, Put
<1>7. values \in ValueTable
  BY <1>1, <1>6, ValueTableFact
<1>8. Entered(f, s, v) = [f EXCEPT !.scopes = scopes, !.values = values, !.next = f.next + 1, !.locals = f.locals + 1]
  BY DEF Entered, FrameType
<1> HIDE DEF scopes, values, top, t
<1>9. Entered(f, s, v) \in FrameType
  <2> DEFINE g == Entered(f, s, v)
  <2>1. g = [context |-> f.context, scopes |-> scopes, values |-> values, returns |-> f.returns,
             next |-> f.next + 1, locals |-> f.locals + 1, mutable |-> f.mutable, changes |-> f.changes]
    BY <1>8 DEF FrameType
  <2>2. f.context \in {"action", "reaction", "getter", "other"} /\ f.changes \in Seq(Nat)
    BY DEF FrameType
  <2>3. f.returns \in BOOLEAN /\ f.mutable \in BOOLEAN
    BY DEF FrameType
  <2>4. QED
    BY <1>1, <1>5, <1>7, <2>1, <2>2, <2>3 DEF FrameType
<1>10. /\ Entered(f, s, v).scopes = scopes /\ Entered(f, s, v).values = values
       /\ Entered(f, s, v).next = f.next + 1 /\ Entered(f, s, v).locals = f.locals + 1
       /\ Entered(f, s, v).context = f.context /\ Entered(f, s, v).returns = f.returns
       /\ Entered(f, s, v).mutable = f.mutable /\ Entered(f, s, v).changes = f.changes
  BY <1>8 DEF FrameType
<1>11. values = Put(f.values, f.next, v) /\ t = Put(f.scopes[1].symbols, f.next, s)
  BY DEF values, t
<1>12. QED
  BY <1>4, <1>5, <1>6, <1>9, <1>10, <1>11

(* A frame stays well-formed when a variable is entered at the next word   *)
(* of its locals.                                                          *)
LEMMA EnteredGood ==
  ASSUME NEW f, GoodText(f), NEW s \in Symbol, NEW v \in Nat,
         s.kind = "Variable", s.off = f.locals, f.locals <= MaxLocals
  PROVE  GoodText(Entered(f, s, v))
<1> DEFINE g == Entered(f, s, v)
           t == Put(f.scopes[1].symbols, f.next, s)
<1>1. f \in FrameType /\ Nested(f) /\ Contexts(f) /\ Agree(f)
  BY DEF GoodText
<1>2. f.next \in Nat /\ f.locals \in Nat /\ f.scopes \in Seq(Scope) /\ Len(f.scopes) \in Nat /\ Len(f.scopes) >= 2
      /\ DOMAIN f.scopes = 1 .. Len(f.scopes) /\ f.next >= 2
  BY <1>1 DEF FrameType, Nested
<1>3. /\ g \in FrameType
      /\ g.context = f.context /\ g.returns = f.returns /\ g.mutable = f.mutable
      /\ g.changes = f.changes
      /\ g.next = f.next + 1 /\ g.locals = f.locals + 1
      /\ g.values \in [1 .. f.next -> Nat]
      /\ Len(g.scopes) = Len(f.scopes)
      /\ g.scopes[1].kind = f.scopes[1].kind /\ g.scopes[1].symbols = t
      /\ \A k \in 2 .. Len(f.scopes) : g.scopes[k] = f.scopes[k]
  BY <1>1, EnteredFields
<1> HIDE DEF g
<1>4. DOMAIN g.scopes = 1 .. Len(f.scopes)
  BY <1>3 DEF FrameType
<1>5. /\ DOMAIN t = DOMAIN f.scopes[1].symbols \cup {f.next} /\ t[f.next] = s
      /\ \A n \in DOMAIN f.scopes[1].symbols : n # f.next /\ t[n] = f.scopes[1].symbols[n]
  BY <1>1, <1>2 DEF Put, Nested
<1>6. \A k \in 1 .. Len(f.scopes) : /\ g.scopes[k].kind = f.scopes[k].kind
                                    /\ k # 1 => g.scopes[k].symbols = f.scopes[k].symbols
                                    /\ DOMAIN f.scopes[k].symbols \subseteq 1 .. f.next - 1
                                    /\ f.next \notin DOMAIN f.scopes[k].symbols
  <2> SUFFICES ASSUME NEW k \in 1 .. Len(f.scopes)
               PROVE  /\ g.scopes[k].kind = f.scopes[k].kind
                      /\ k # 1 => g.scopes[k].symbols = f.scopes[k].symbols
                      /\ DOMAIN f.scopes[k].symbols \subseteq 1 .. f.next - 1
                      /\ f.next \notin DOMAIN f.scopes[k].symbols
    OBVIOUS
  <2>1. DOMAIN f.scopes[k].symbols \subseteq 1 .. f.next - 1
    BY <1>1, <1>2 DEF Nested
  <2>2. k = 1 \/ k \in 2 .. Len(f.scopes)
    BY <1>2
  <2>3. f.next \notin DOMAIN f.scopes[k].symbols
    BY <1>2, <2>1
  <2>4. QED
    BY <1>3, <2>1, <2>2, <2>3
<1> HIDE DEF t
<1>7. Nested(g)
  <2>1. \A k \in 1 .. Len(f.scopes) : DOMAIN g.scopes[k].symbols \subseteq 1 .. g.next - 1
    <3> SUFFICES ASSUME NEW k \in 1 .. Len(f.scopes) PROVE DOMAIN g.scopes[k].symbols \subseteq 1 .. g.next - 1
      OBVIOUS
    <3>1. DOMAIN f.scopes[k].symbols \subseteq 1 .. g.next - 1 /\ f.next \in 1 .. g.next - 1
      BY <1>2, <1>3, <1>6
    <3>2. CASE k = 1
      <4>1. g.scopes[k].symbols = t /\ DOMAIN t = DOMAIN f.scopes[k].symbols \cup {f.next}
        BY <1>3, <1>5, <3>2
      <4>2. QED
        BY <3>1, <4>1
    <3>3. CASE k # 1
      BY <1>6, <3>1, <3>3
    <3>4. QED
      BY <3>2, <3>3
  <2>2. \A k \in 1 .. Len(g.scopes) : /\ g.scopes[k].kind = "parameters" <=> k = Len(g.scopes)
                                      /\ g.scopes[k].kind = "list" <=> k = Len(g.scopes) - 1
    <3> SUFFICES ASSUME NEW k \in 1 .. Len(f.scopes)
                 PROVE  /\ g.scopes[k].kind = "parameters" <=> k = Len(f.scopes)
                        /\ g.scopes[k].kind = "list" <=> k = Len(f.scopes) - 1
      BY <1>3
    <3>1. k \in DOMAIN f.scopes /\ g.scopes[k].kind = f.scopes[k].kind
      BY <1>2, <1>6
    <3>2. QED
      BY <1>1, <3>1 DEF Nested
  <2>3. g.mutable <=> \E k \in 1 .. Len(g.scopes) : g.scopes[k].kind = "activate"
    BY <1>1, <1>2, <1>3, <1>6 DEF Nested
  <2>4. Len(g.scopes) >= 2 /\ g.next >= 2 /\ g.values \in [1 .. g.next - 1 -> Nat]
    BY <1>1, <1>2, <1>3 DEF Nested
  <2>5. QED
    BY <1>3, <1>4, <2>1, <2>2, <2>3, <2>4 DEF Nested
<1>8. Contexts(g)
  BY <1>1, <1>2, <1>3, <1>4, <1>6 DEF Contexts, Below
<1>9. \A k \in 1 .. Len(f.scopes) : \A n \in DOMAIN g.scopes[k].symbols :
         \/ n \in DOMAIN f.scopes[k].symbols /\ g.scopes[k].symbols[n] = f.scopes[k].symbols[n] /\ n # f.next
         \/ n = f.next /\ k = 1 /\ g.scopes[k].symbols[n] = s
  BY <1>2, <1>3, <1>5, <1>6
<1>10. PICK mark : Marks(f, mark)
  BY DEF GoodText
<1>11. \A k \in 1 .. Len(f.scopes) : \A n \in DOMAIN f.scopes[k].symbols :
          f.scopes[k].symbols[n].off \in Int /\ f.scopes[k].symbols[n].off < f.locals
  <2> SUFFICES ASSUME NEW k \in 1 .. Len(f.scopes), NEW n \in DOMAIN f.scopes[k].symbols
               PROVE  f.scopes[k].symbols[n].off \in Int /\ f.scopes[k].symbols[n].off < f.locals
    OBVIOUS
  <2>1. n \in Names(f.scopes)
    BY <1>2 DEF Names
  <2>2. f.scopes[k].symbols[n].off = Find(f.scopes, n).off
    BY <1>2, <2>1, NamedOnce
  <2>3. f.scopes[k].symbols[n].off \in Int
    BY <1>1, <1>2, ScopeOf
  <2>4. f.locals \in 1 .. MaxLocals + 1
    BY <1>2, <1>10, SMTT(30) DEF Marks
  <2>5. Below(f) \in {2, 3}
    BY DEF Below
  <2>6. QED
    <3>1. Find(f.scopes, n).off \in 1 .. f.locals - 1 \/ Find(f.scopes, n).off \in (0 - Below(f)) .. (0 - 2)
      BY <2>1, NamedOnce
    <3>2. QED
      BY <1>2, <2>2, <2>3, <2>4, <2>5, <3>1
<1>12. Agree(g)
  <2> SUFFICES ASSUME NEW j \in 1 .. Len(f.scopes), NEW k \in 1 .. Len(f.scopes),
                      NEW n \in DOMAIN g.scopes[j].symbols, NEW m \in DOMAIN g.scopes[k].symbols
               PROVE  IF n = m THEN /\ g.scopes[j].symbols[n].off = g.scopes[k].symbols[m].off
                                    /\ g.scopes[j].symbols[n].type = g.scopes[k].symbols[m].type
                               ELSE g.scopes[j].symbols[n].off # g.scopes[k].symbols[m].off
    BY <1>4 DEF Agree
  <2>1. CASE n = f.next /\ m = f.next
    BY <1>9, <2>1
  <2>2. CASE n = f.next /\ m # f.next
    <3>1. g.scopes[j].symbols[n].off = f.locals
      BY <1>9, <2>2
    <3>2. m \in DOMAIN f.scopes[k].symbols /\ g.scopes[k].symbols[m] = f.scopes[k].symbols[m]
      BY <1>9, <2>2
    <3>3. QED
      BY <1>2, <1>11, <3>1, <3>2, <2>2
  <2>3. CASE n # f.next /\ m = f.next
    <3>1. g.scopes[k].symbols[m].off = f.locals
      BY <1>9, <2>3
    <3>2. n \in DOMAIN f.scopes[j].symbols /\ g.scopes[j].symbols[n] = f.scopes[j].symbols[n]
      BY <1>9, <2>3
    <3>3. QED
      BY <1>2, <1>11, <3>1, <3>2, <2>3
  <2>4. CASE n # f.next /\ m # f.next
    <3>1. n \in DOMAIN f.scopes[j].symbols /\ g.scopes[j].symbols[n] = f.scopes[j].symbols[n]
      BY <1>9, <2>4
    <3>2. m \in DOMAIN f.scopes[k].symbols /\ g.scopes[k].symbols[m] = f.scopes[k].symbols[m]
      BY <1>9, <2>4
    <3>3. QED
      BY <1>1, <1>2, <3>1, <3>2 DEF Agree
  <2>5. QED
    BY <2>1, <2>2, <2>3, <2>4
<1>13. \E mm : Marks(g, mm)
  <2> DEFINE mm == [mark EXCEPT ![1] = mark[1] + 1]
  <2>1. /\ mark \in [1 .. Len(f.scopes) + 1 -> 1 .. MaxLocals + 1] /\ mark[1] = f.locals
        /\ \A j, k \in 1 .. Len(f.scopes) + 1 : j <= k => mark[k] <= mark[j]
    BY <1>10 DEF Marks
  <2>2. mm \in [1 .. Len(g.scopes) + 1 -> 1 .. MaxLocals + 1] /\ mm[1] = g.locals
    BY <1>2, <1>3, <2>1, Constants
  <2>3. \A k \in 2 .. Len(f.scopes) + 1 : mm[k] = mark[k]
    BY <2>1
  <2> HIDE DEF mm
  <2>4. \A j, k \in 1 .. Len(g.scopes) + 1 : j <= k => mm[k] <= mm[j]
    <3> SUFFICES ASSUME NEW j \in 1 .. Len(f.scopes) + 1, NEW k \in 1 .. Len(f.scopes) + 1, j <= k
                 PROVE  mm[k] <= mm[j]
      BY <1>3
    <3>1. mark[k] <= mark[j] /\ mark[k] <= mark[1] /\ mark[k] \in Int /\ mark[j] \in Int /\ mark[1] \in Int
      BY <1>2, <2>1
    <3>2. mm[1] = mark[1] + 1
      BY <1>2, <1>3, <2>1, <2>2
    <3>3. CASE j = 1
      BY <1>2, <2>3, <3>1, <3>2, <3>3
    <3>4. CASE j # 1
      BY <1>2, <2>3, <3>1, <3>4
    <3>5. QED
      BY <3>3, <3>4
  <2>5. \A k \in 2 .. Len(f.scopes) : VariablesOf(g.scopes[k]) = VariablesOf(f.scopes[k])
    BY <1>3
  <2>6. VariablesOf(g.scopes[1]) = VariablesOf(f.scopes[1]) \cup {f.next} /\ f.next \notin VariablesOf(f.scopes[1])
    BY <1>3, <1>5 DEF VariablesOf
  <2>7. IsFiniteSet(VariablesOf(f.scopes[1])) /\ Cardinality(VariablesOf(f.scopes[1])) \in Nat
    BY <1>1, <1>2, VariablesFinite
  <2>8. Cardinality(VariablesOf(g.scopes[1])) = Cardinality(VariablesOf(f.scopes[1])) + 1
    BY <2>6, <2>7, FS_AddElement
  <2>9. \A k \in 1 .. Len(f.scopes) : mm[k] - mm[k + 1] = Cardinality(VariablesOf(g.scopes[k]))
    <3> SUFFICES ASSUME NEW k \in 1 .. Len(f.scopes)
                 PROVE  mm[k] - mm[k + 1] = Cardinality(VariablesOf(g.scopes[k]))
      OBVIOUS
    <3>1. mark[k] - mark[k + 1] = Cardinality(VariablesOf(f.scopes[k]))
      BY <1>2, <1>10 DEF Marks
    <3>2. mm[k + 1] = mark[k + 1] /\ mark[k] \in Int /\ mark[k + 1] \in Int
      <4>1. k + 1 \in 2 .. Len(f.scopes) + 1 /\ k \in 1 .. Len(f.scopes) + 1 /\ k + 1 \in 1 .. Len(f.scopes) + 1
        BY <1>2
      <4>2. mm[k + 1] = mark[k + 1]
        BY <2>3, <4>1
      <4>3. mark[k] \in Int /\ mark[k + 1] \in Int
        BY <2>1, <4>1
      <4>4. QED
        BY <4>2, <4>3
    <3>3. QED
      <4>1. CASE k = 1
        BY <1>2, <1>3, <2>1, <2>2, <2>7, <2>8, <3>1, <3>2, <4>1
      <4>2. CASE k # 1
        BY <1>2, <2>3, <2>5, <3>1, <4>2
      <4>3. QED
        BY <4>1, <4>2
  <2>10. \A k \in 1 .. Len(f.scopes) : \A n \in DOMAIN g.scopes[k].symbols :
            \/ g.scopes[k].symbols[n].off \in 1 .. mm[k] - 1
            \/ g.scopes[k].symbols[n].off \in (0 - Below(g)) .. (0 - 2)
    <3> SUFFICES ASSUME NEW k \in 1 .. Len(f.scopes), NEW n \in DOMAIN g.scopes[k].symbols
                 PROVE  \/ g.scopes[k].symbols[n].off \in 1 .. mm[k] - 1
                        \/ g.scopes[k].symbols[n].off \in (0 - Below(g)) .. (0 - 2)
      OBVIOUS
    <3>0. Below(g) = Below(f)
      BY <1>3 DEF Below
    <3>1. mark[k] \in Int /\ mm[k] \in Int /\ mark[k] <= mm[k] /\ mm[1] = f.locals + 1
      <4>0. k \in 1 .. Len(f.scopes) + 1
        BY <1>2
      <4>1. mark[k] \in 1 .. MaxLocals + 1 /\ MaxLocals \in Nat
        BY <4>0, <2>1, Constants
      <4>2. k = 1 \/ mm[k] = mark[k]
        BY <1>2, <2>3
      <4>3. QED
        BY <1>2, <1>3, <2>1, <2>2, <4>1, <4>2
    <3>2. CASE n = f.next
      <4>1. k = 1 /\ g.scopes[k].symbols[n].off = f.locals
        BY <1>9, <3>2
      <4>2. f.locals \in 1 .. MaxLocals + 1
        BY <2>1, <1>2
      <4>3. QED
        BY <4>1, <4>2, <3>1, <1>2
    <3>3. CASE n # f.next
      <4>1. n \in DOMAIN f.scopes[k].symbols /\ g.scopes[k].symbols[n] = f.scopes[k].symbols[n]
        BY <1>9, <3>3
      <4>2. \/ f.scopes[k].symbols[n].off \in 1 .. mark[k] - 1
            \/ f.scopes[k].symbols[n].off \in (0 - Below(f)) .. (0 - 2)
        BY <1>2, <1>10, <4>1 DEF Marks
      <4>3. QED
        BY <4>1, <4>2, <3>0, <3>1
    <3>4. QED
      BY <3>2, <3>3
  <2>11. Marks(g, mm)
    BY <1>3, <1>4, <2>2, <2>4, <2>9, <2>10 DEF Marks
  <2>12. QED
    BY <2>11
<1>14. \E depth : Depths(g, depth)
  <2>1. PICK depth : Depths(f, depth)
    BY DEF GoodText
  <2>2. Depths(g, depth)
    BY <1>2, <1>3, <1>4, <1>6, <2>1 DEF Depths
  <2>3. QED
    BY <2>2
<1>15. QED
  BY <1>3, <1>7, <1>8, <1>12, <1>13, <1>14 DEF GoodText, g

(* The variable entered finds its value once that word holds it; every     *)
(* other symbol still finds its own.                                       *)
LEMMA EnteredWords ==
  ASSUME NEW f, GoodText(f), NEW s \in Symbol, NEW v \in Nat,
         s.kind = "Variable", s.off = f.locals, f.locals <= MaxLocals,
         NEW b \in Nat, NEW d \in Seq(Nat), NEW m \in Nat, NEW mm \in Nat,
         InStack(f, b, d, m), m <= mm, b > Below(f), b + MaxLocals <= Len(d),
         IF s.type = "C" THEN v \in Instances ELSE v <= mm
  PROVE  InStack(Entered(f, s, v), b, [d EXCEPT ![b + f.locals] = v], mm)
<1> DEFINE g == Entered(f, s, v)
           t == Put(f.scopes[1].symbols, f.next, s)
           e == [d EXCEPT ![b + f.locals] = v]
<1>1. f \in FrameType /\ Nested(f)
  BY DEF GoodText
<1>2. f.next \in Nat /\ f.locals \in Nat /\ f.scopes \in Seq(Scope) /\ Len(f.scopes) \in Nat /\ Len(f.scopes) >= 2
      /\ DOMAIN f.scopes = 1 .. Len(f.scopes) /\ f.next >= 2
  BY <1>1 DEF FrameType, Nested
<1>3. /\ g \in FrameType
      /\ g.values = Put(f.values, f.next, v)
      /\ Len(g.scopes) = Len(f.scopes)
      /\ g.scopes[1].symbols = t
      /\ \A k \in 2 .. Len(f.scopes) : g.scopes[k] = f.scopes[k]
  BY <1>1, EnteredFields
<1> HIDE DEF g
<1> SUFFICES ASSUME NEW k \in 1 .. Len(f.scopes), NEW n \in DOMAIN g.scopes[k].symbols
             PROVE  /\ e[b + g.scopes[k].symbols[n].off] = g.values[n]
                    /\ IF g.scopes[k].symbols[n].type = "C" THEN g.values[n] \in Instances ELSE g.values[n] <= mm
  <2>1. DOMAIN g.scopes = 1 .. Len(f.scopes)
    BY <1>3 DEF FrameType
  <2>2. QED
    BY <2>1 DEF InStack, g
<1>5. f.locals \in 1 .. MaxLocals /\ MaxLocals \in Nat
  BY Basics
<1>6. b + f.locals \in DOMAIN d
  BY <1>5
<1>7. g.values[f.next] = v /\ \A x \in 1 .. f.next - 1 : g.values[x] = f.values[x]
  BY <1>1, <1>2, <1>3 DEF Put, Nested
<1>8. /\ DOMAIN t = DOMAIN f.scopes[1].symbols \cup {f.next} /\ t[f.next] = s
      /\ \A x \in DOMAIN f.scopes[1].symbols : x # f.next => t[x] = f.scopes[1].symbols[x]
  BY DEF Put
<1>9. DOMAIN f.scopes[k].symbols \subseteq 1 .. f.next - 1
  BY <1>1, <1>2 DEF Nested
<1> HIDE DEF t
<1>10. CASE n = f.next
  <2>1. n \notin DOMAIN f.scopes[k].symbols
    BY <1>2, <1>9, <1>10
  <2>2. k = 1
    BY <1>2, <1>3, <2>1
  <2>3. g.scopes[k].symbols[n] = s
    BY <1>3, <1>8, <1>10, <2>2
  <2>4. e[b + f.locals] = v
    BY <1>6
  <2>5. QED
    BY <1>7, <1>10, <2>3, <2>4
<1>11. CASE n # f.next
  <2>1. n \in DOMAIN f.scopes[k].symbols /\ g.scopes[k].symbols[n] = f.scopes[k].symbols[n]
    <3>1. CASE k = 1
      BY <1>3, <1>8, <1>11, <3>1
    <3>2. CASE k # 1
      BY <1>2, <1>3, <3>2
    <3>3. QED
      BY <3>1, <3>2
  <2>2. n \in Names(f.scopes) /\ f.scopes[k].symbols[n].off = Find(f.scopes, n).off
    <3>1. n \in Names(f.scopes)
      BY <1>2, <2>1 DEF Names
    <3>2. QED
      BY <1>2, <2>1, <3>1, NamedOnce
  <2>3. Find(f.scopes, n).off \in 1 .. f.locals - 1 \/ Find(f.scopes, n).off \in (0 - Below(f)) .. (0 - 2)
    BY <2>2, NamedOnce
  <2>4. b + f.scopes[k].symbols[n].off # b + f.locals
    BY <1>5, <2>2, <2>3, SMTT(30)
  <2>5. e[b + f.scopes[k].symbols[n].off] = d[b + f.scopes[k].symbols[n].off]
    BY <1>6, <2>4
  <2>6. d[b + f.scopes[k].symbols[n].off] = f.values[n]
        /\ IF f.scopes[k].symbols[n].type = "C" THEN f.values[n] \in Instances ELSE f.values[n] <= m
    BY <1>2, <2>1 DEF InStack
  <2>7. n \in 1 .. f.next - 1 /\ g.values[n] = f.values[n] /\ f.values[n] \in Nat
    BY <1>1, <1>7, <1>9, <2>1 DEF Nested
  <2>8. QED
    BY <2>1, <2>5, <2>6, <2>7
<1>12. QED
  BY <1>10, <1>11

-----------------------------------------------------------------------------
(* The scopes that a statement opens name what is named already, under other
   conditions. *)
Renames(f, s) ==
  \A n \in DOMAIN s.symbols : /\ n \in Names(f.scopes)
                              /\ s.symbols[n].off = Find(f.scopes, n).off
                              /\ s.symbols[n].type = Find(f.scopes, n).type
                              /\ s.symbols[n].kind # "Variable"

(* The scope of an activation renames symbols of the frame: no new name,   *)
(* offset or type (Activate, check_types).                                 *)
LEMMA ActivateRenames ==
  ASSUME NEW f, GoodText(f)
  PROVE  /\ ActivateScope(f.scopes) \in Scope /\ ActivateScope(f.scopes).kind = "activate"
         /\ Renames(f, ActivateScope(f.scopes))
<1> DEFINE s == ActivateScope(f.scopes)
<1>1. s.kind = "activate" /\ DOMAIN s.symbols \subseteq Names(f.scopes)
      /\ \A n \in DOMAIN s.symbols : \/ s.symbols[n] = Hidden(Find(f.scopes, n))
                                     \/ s.symbols[n] = Duplicate(Find(f.scopes, n), Mutable)
  BY VisibleNames DEF ActivateScope
<1>2. s = [kind |-> s.kind, symbols |-> s.symbols] /\ s.symbols = [n \in DOMAIN s.symbols |-> s.symbols[n]]
  BY DEF ActivateScope
<1> HIDE DEF s
<1>3. \A n \in Names(f.scopes) : Find(f.scopes, n) \in Symbol /\ n \in Nat
  BY NamedType
<1>4. Mutable \in Mutability
  BY DEF Mutability
<1>5. \A n \in DOMAIN s.symbols : /\ n \in Names(f.scopes) /\ s.symbols[n] \in Symbol
                                  /\ s.symbols[n].off = Find(f.scopes, n).off
                                  /\ s.symbols[n].type = Find(f.scopes, n).type
                                  /\ s.symbols[n].kind # "Variable"
  BY <1>1, <1>3, <1>4, DuplicateType
<1>6. DOMAIN s.symbols \subseteq Nat /\ s.symbols \in [DOMAIN s.symbols -> Symbol]
  BY <1>1, <1>2, <1>3, <1>5
<1>7. s.symbols \in Table
  BY <1>6, TableFact
<1>8. s \in Scope
  BY <1>1, <1>2, <1>7 DEF Scope
<1>9. QED
  BY <1>1, <1>5, <1>8 DEF s, Renames

(* So does the scope of a change statement.                                *)
LEMMA ChangeRenames ==
  ASSUME NEW f, GoodText(f)
  PROVE  /\ ChangeScope(f.scopes) \in Scope /\ ChangeScope(f.scopes).kind = "change"
         /\ Renames(f, ChangeScope(f.scopes))
<1> DEFINE s == ChangeScope(f.scopes)
           D(n) == Duplicate(Find(f.scopes, n), Foreign)
<1>1. s.kind = "change" /\ DOMAIN s.symbols \subseteq Names(f.scopes)
      /\ \A n \in DOMAIN s.symbols : \/ s.symbols[n] = D(n)
                                     \/ s.symbols[n] = [D(n) EXCEPT !.im = Foreign]
  BY VisibleNames DEF ChangeScope
<1>2. s = [kind |-> s.kind, symbols |-> s.symbols] /\ s.symbols = [n \in DOMAIN s.symbols |-> s.symbols[n]]
  BY DEF ChangeScope
<1> HIDE DEF s
<1>3. \A n \in Names(f.scopes) : Find(f.scopes, n) \in Symbol /\ n \in Nat
  BY NamedType
<1>4. Foreign \in Mutability
  BY DEF Mutability
<1>5. \A n \in DOMAIN s.symbols : /\ n \in Names(f.scopes) /\ D(n) \in Symbol
                                  /\ D(n).off = Find(f.scopes, n).off
                                  /\ D(n).type = Find(f.scopes, n).type
                                  /\ D(n).kind # "Variable"
  BY <1>1, <1>3, <1>4, DuplicateType
<1> HIDE DEF D
<1> DEFINE E(x) == [x EXCEPT !.im = Foreign]
<1>6. \A x \in Symbol : E(x) \in Symbol /\ E(x).off = x.off /\ E(x).type = x.type /\ E(x).kind = x.kind
  BY <1>4 DEF Symbol
<1>12. \A n \in DOMAIN s.symbols : s.symbols[n] = D(n) \/ s.symbols[n] = E(D(n))
  BY <1>1
<1> HIDE DEF E
<1>7. \A n \in DOMAIN s.symbols : /\ s.symbols[n] \in Symbol
                                  /\ s.symbols[n].off = Find(f.scopes, n).off
                                  /\ s.symbols[n].type = Find(f.scopes, n).type
                                  /\ s.symbols[n].kind # "Variable"
  BY <1>12, <1>5, <1>6
<1>8. DOMAIN s.symbols \subseteq Nat /\ s.symbols \in [DOMAIN s.symbols -> Symbol]
  BY <1>1, <1>2, <1>3, <1>7
<1>9. s.symbols \in Table
  BY <1>8, TableFact
<1>10. s \in Scope
  BY <1>1, <1>2, <1>9 DEF Scope
<1>11. QED
  BY <1>1, <1>7, <1>10 DEF s, Renames

(* A block declares nothing at first.                                      *)
LEMMA BlockRenames ==
  ASSUME NEW f
  PROVE  LET s == [kind |-> "block", symbols |-> <<>>]
         IN  s \in Scope /\ Renames(f, s)
<1>1. <<>> \in Table
  <2>1. <<>> \in Seq(Symbol) /\ Len(<<>>) = 0
    OBVIOUS
  <2>2. DOMAIN <<>> = {} /\ <<>> \in [{} -> Symbol]
    BY <2>1, LenProperties
  <2>3. QED
    BY <2>2, TableFact
<1>2. QED
  BY <1>1 DEF Scope, Renames

(* The frame f with the scope s opened and the saved heaps c. *)
Wider(f, s, c) ==
  [f EXCEPT !.scopes = <<s>> \o f.scopes, !.changes = c,
            !.mutable = IF s.kind = "activate" THEN TRUE ELSE f.mutable]

(* Whatever the words of f, they are those of g, and more objects do no harm. *)
Inherits(f, g) ==
  \A b, d, m, mm : m \in Nat /\ mm \in Nat /\ m <= mm /\ InStack(f, b, d, m) => InStack(g, b, d, mm)

(* What opening a scope changes in a frame.                                *)
OpenedFields(f, s, c, g) ==
  /\ g.scopes[1] = s /\ g.context = f.context /\ g.returns = f.returns
  /\ g.locals = f.locals /\ g.next = f.next /\ g.changes = c
  /\ g.mutable = IF s.kind = "activate" THEN TRUE ELSE f.mutable

(* A frame stays well-formed when a scope that only renames is opened.     *)
LEMMA OpenedGood ==
  ASSUME NEW f, GoodText(f), NEW s \in Scope, Renames(f, s), s.kind \in {"block", "change", "activate"},
         NEW c \in Seq(Nat), f.returns => c = <<>>,
         s.kind # "activate" => /\ f.scopes[1].kind = "activate" => f.changes = <<>>
                                /\ Len(c) = Len(f.changes) + (IF s.kind = "change" THEN 1 ELSE 0),
         NEW g, g = Wider(f, s, c)
  PROVE  /\ GoodText(g)
         /\ OpenedFields(f, s, c, g) /\ Inherits(f, g)
<1> DEFINE scopes == <<s>> \o f.scopes
           mutable == IF s.kind = "activate" THEN TRUE ELSE f.mutable
<1>1. /\ f \in FrameType /\ Nested(f) /\ f.next \in Nat /\ f.locals \in Nat /\ f.scopes \in Seq(Scope)
      /\ Len(f.scopes) \in Nat /\ Len(f.scopes) >= 2 /\ DOMAIN f.scopes = 1 .. Len(f.scopes) /\ f.next >= 2
      /\ f.values \in [1 .. f.next - 1 -> Nat]
  BY Basics
<1>2. Contexts(f) /\ Agree(f)
  BY DEF GoodText
<1>3. <<s>> \in Seq(Scope) /\ Len(<<s>>) = 1 /\ <<s>>[1] = s
  OBVIOUS
<1>4. scopes \in Seq(Scope) /\ Len(scopes) = Len(f.scopes) + 1 /\ scopes[1] = s
      /\ \A k \in 2 .. Len(f.scopes) + 1 : scopes[k] = f.scopes[k - 1]
  BY <1>1, <1>3, ConcatProperties
<1>5. f.context \in {"action", "reaction", "getter", "other"} /\ f.values \in ValueTable
      /\ f.returns \in BOOLEAN /\ f.mutable \in BOOLEAN
  BY <1>1 DEF FrameType
<1>0. mutable \in BOOLEAN
  BY <1>5
<1> HIDE DEF scopes, mutable
<1>6. g = [context |-> f.context, scopes |-> scopes, values |-> f.values, returns |-> f.returns,
           next |-> f.next, locals |-> f.locals,
           mutable |-> mutable, changes |-> c]
  BY <1>1 DEF FrameType, scopes, Wider, mutable
<1>7. g \in FrameType
  BY <1>0, <1>1, <1>4, <1>5, <1>6 DEF FrameType
<1>8. /\ g.scopes = scopes /\ g.context = f.context /\ g.returns = f.returns /\ g.values = f.values
      /\ g.locals = f.locals /\ g.next = f.next /\ g.changes = c
      /\ g.mutable = IF s.kind = "activate" THEN TRUE ELSE f.mutable
  BY <1>6 DEF mutable
<1>9. DOMAIN scopes = 1 .. Len(f.scopes) + 1
  BY <1>1, <1>4
<1>10. \A k \in DOMAIN scopes : k = 1 \/ (k - 1 \in DOMAIN f.scopes /\ k - 1 \in 1 .. Len(f.scopes) /\ scopes[k] = f.scopes[k - 1])
  BY <1>1, <1>4, <1>9
<1>11. \A n \in DOMAIN s.symbols : \A k \in DOMAIN f.scopes : \A m \in DOMAIN f.scopes[k].symbols :
         IF n = m THEN /\ s.symbols[n].off = f.scopes[k].symbols[m].off
                       /\ s.symbols[n].type = f.scopes[k].symbols[m].type
                  ELSE s.symbols[n].off # f.scopes[k].symbols[m].off
  <2> SUFFICES ASSUME NEW n \in DOMAIN s.symbols, NEW k \in DOMAIN f.scopes, NEW m \in DOMAIN f.scopes[k].symbols
               PROVE  IF n = m THEN /\ s.symbols[n].off = f.scopes[k].symbols[m].off
                                    /\ s.symbols[n].type = f.scopes[k].symbols[m].type
                               ELSE s.symbols[n].off # f.scopes[k].symbols[m].off
    OBVIOUS
  <2>1. n \in Names(f.scopes) /\ s.symbols[n].off = Find(f.scopes, n).off /\ s.symbols[n].type = Find(f.scopes, n).type
    BY DEF Renames
  <2>2. QED
    BY <2>1, NamedOnce
<1>12. \A n \in DOMAIN s.symbols : \E k \in DOMAIN f.scopes : /\ n \in DOMAIN f.scopes[k].symbols
                                       /\ s.symbols[n].off = f.scopes[k].symbols[n].off
                                       /\ s.symbols[n].type = f.scopes[k].symbols[n].type
  BY <1>1, FindIn DEF Renames
<1>13. DOMAIN s.symbols \subseteq 1 .. f.next - 1
  BY NamedOnce DEF Renames
<1>14. Nested(g)
  <2>1. \A k \in DOMAIN scopes : /\ scopes[k].kind = "parameters" <=> k = Len(scopes)
                                 /\ scopes[k].kind = "list" <=> k = Len(scopes) - 1
                                 /\ DOMAIN scopes[k].symbols \subseteq 1 .. f.next - 1
    <3> SUFFICES ASSUME NEW k \in DOMAIN scopes
                 PROVE  /\ scopes[k].kind = "parameters" <=> k = Len(scopes)
                        /\ scopes[k].kind = "list" <=> k = Len(scopes) - 1
                        /\ DOMAIN scopes[k].symbols \subseteq 1 .. f.next - 1
      OBVIOUS
    <3>1. CASE k = 1
      <4>1. scopes[k] = s /\ k # Len(scopes) /\ k # Len(scopes) - 1
        BY <1>1, <1>4, <3>1, SMTT(30)
      <4>2. QED
        BY <1>13, <4>1
    <3>2. CASE k # 1
      <4>1. PICK j \in DOMAIN f.scopes : j = k - 1 /\ scopes[k] = f.scopes[j] /\ j \in 1 .. Len(f.scopes)
        BY <1>10, <3>2
      <4>2. /\ f.scopes[j].kind = "parameters" <=> j = Len(f.scopes)
            /\ f.scopes[j].kind = "list" <=> j = Len(f.scopes) - 1
            /\ DOMAIN f.scopes[j].symbols \subseteq 1 .. f.next - 1
        BY <1>1 DEF Nested
      <4>3. k \in Int /\ (k = Len(scopes) <=> j = Len(f.scopes)) /\ (k = Len(scopes) - 1 <=> j = Len(f.scopes) - 1)
        BY <1>1, <1>4, <1>9, <4>1
      <4>4. QED
        BY <4>1, <4>2, <4>3
    <3>3. QED
      BY <3>1, <3>2
  <2>2. g.mutable <=> \E k \in DOMAIN scopes : scopes[k].kind = "activate"
    <3>1. 1 \in DOMAIN scopes /\ \A j \in DOMAIN f.scopes : j + 1 \in DOMAIN scopes /\ scopes[j + 1] = f.scopes[j]
      BY <1>1, <1>4, <1>9
    <3>2. f.mutable <=> \E k \in DOMAIN f.scopes : f.scopes[k].kind = "activate"
      BY <1>1 DEF Nested
    <3>3. CASE s.kind = "activate"
      BY <1>4, <1>8, <3>1, <3>3
    <3>4. CASE s.kind # "activate"
      BY <1>4, <1>8, <1>10, <3>1, <3>2, <3>4
    <3>5. QED
      BY <3>3, <3>4
  <2>3. QED
    BY <1>1, <1>4, <1>8, <2>1, <2>2, SMTT(30) DEF Nested
<1>15. Contexts(g)
  <2>1. g.scopes[Len(g.scopes)] = f.scopes[Len(f.scopes)] /\ Below(g) = Below(f)
    BY <1>1, <1>4, <1>8, SMTT(30) DEF Below
  <2>2. QED
    BY <1>2, <1>8, <2>1 DEF Contexts
<1>16. Agree(g)
  <2> SUFFICES ASSUME NEW j \in DOMAIN scopes, NEW k \in DOMAIN scopes,
                      NEW n \in DOMAIN scopes[j].symbols, NEW m \in DOMAIN scopes[k].symbols
               PROVE  IF n = m THEN /\ scopes[j].symbols[n].off = scopes[k].symbols[m].off
                                    /\ scopes[j].symbols[n].type = scopes[k].symbols[m].type
                               ELSE scopes[j].symbols[n].off # scopes[k].symbols[m].off
    BY <1>8 DEF Agree
  <2>1. CASE j = 1 /\ k = 1
    <3>1. n \in DOMAIN s.symbols /\ m \in DOMAIN s.symbols
      BY <1>4, <2>1
    <3>2. PICK l \in DOMAIN f.scopes : m \in DOMAIN f.scopes[l].symbols /\ s.symbols[m].off = f.scopes[l].symbols[m].off
      BY <1>12, <3>1
    <3>3. n # m => s.symbols[n].off # s.symbols[m].off
      BY <1>11, <3>1, <3>2
    <3>4. QED
      BY <1>4, <2>1, <3>3
  <2>2. CASE j = 1 /\ k # 1
    BY <1>4, <1>10, <1>11, <2>2
  <2>3. CASE j # 1 /\ k = 1
    BY <1>4, <1>10, <1>11, <2>3
  <2>4. CASE j # 1 /\ k # 1
    BY <1>2, <1>10, <2>4 DEF Agree
  <2>5. QED
    BY <2>1, <2>2, <2>3, <2>4
<1>17. \E mark : Marks(g, mark)
  <2>1. PICK mark : Marks(f, mark)
    BY DEF GoodText
  <2>2. /\ mark \in [1 .. Len(f.scopes) + 1 -> 1 .. MaxLocals + 1] /\ mark[1] = f.locals
        /\ \A j, k \in 1 .. Len(f.scopes) + 1 : j <= k => mark[k] <= mark[j]
    BY <2>1 DEF Marks
  <2> DEFINE mm == [k \in 1 .. Len(f.scopes) + 2 |-> IF k = 1 THEN f.locals ELSE mark[k - 1]]
  <2>3. mm \in [1 .. Len(f.scopes) + 2 -> 1 .. MaxLocals + 1] /\ mm[1] = f.locals /\ mm[2] = f.locals
        /\ \A k \in 2 .. Len(f.scopes) + 2 : mm[k] = mark[k - 1]
    BY <1>1, <2>2, SMTT(30)
  <2> HIDE DEF mm
  <2>4. \A j, k \in 1 .. Len(f.scopes) + 2 : j <= k => mm[k] <= mm[j]
    <3> SUFFICES ASSUME NEW j \in 1 .. Len(f.scopes) + 2, NEW k \in 1 .. Len(f.scopes) + 2, j <= k
                 PROVE  mm[k] <= mm[j]
      OBVIOUS
    <3>1. mm[k] \in Int /\ mm[j] \in Int
      BY <2>3, Constants
    <3>2. CASE k = 1
      BY <1>1, <2>3, <3>1, <3>2
    <3>3. CASE k # 1 /\ j = 1
      <4>0. k - 1 \in 1 .. Len(f.scopes) + 1 /\ 1 \in 1 .. Len(f.scopes) + 1 /\ 1 <= k - 1
        BY <1>1, <3>3
      <4>1. mark[k - 1] <= mark[1]
        BY <2>2, <4>0
      <4>2. QED
        BY <1>1, <2>2, <2>3, <3>3, <4>1
    <3>4. CASE k # 1 /\ j # 1
      <4>0. k - 1 \in 1 .. Len(f.scopes) + 1 /\ j - 1 \in 1 .. Len(f.scopes) + 1 /\ j - 1 <= k - 1
        BY <1>1, <3>4
      <4>1. mark[k - 1] <= mark[j - 1]
        BY <2>2, <4>0
      <4>2. QED
        BY <1>1, <2>3, <3>4, <4>1
    <3>5. QED
      BY <3>2, <3>3, <3>4
  <2>5. \A k \in DOMAIN scopes : mm[k] - mm[k + 1] = Cardinality(VariablesOf(scopes[k]))
    <3> SUFFICES ASSUME NEW k \in DOMAIN scopes
                 PROVE  mm[k] - mm[k + 1] = Cardinality(VariablesOf(scopes[k]))
      OBVIOUS
    <3>1. CASE k = 1
      <4>1. VariablesOf(scopes[k]) = {}
        BY <1>4, <3>1 DEF VariablesOf, Renames
      <4>2. QED
        BY <1>1, <2>3, <3>1, <4>1, FS_EmptySet
    <3>2. CASE k # 1
      <4>1. PICK j \in DOMAIN f.scopes : j = k - 1 /\ scopes[k] = f.scopes[j] /\ j \in 1 .. Len(f.scopes)
        BY <1>10, <3>2
      <4>2. mark[j] - mark[j + 1] = Cardinality(VariablesOf(f.scopes[j]))
        BY <2>1 DEF Marks
      <4>3. mm[k] = mark[j] /\ mm[k + 1] = mark[j + 1]
        <5>1. k \in 2 .. Len(f.scopes) + 2 /\ k + 1 \in 2 .. Len(f.scopes) + 2 /\ (k + 1) - 1 = j + 1
          BY <1>1, <1>9, <3>2, <4>1, SMTT(30)
        <5>2. QED
          BY <2>3, <4>1, <5>1
      <4>4. QED
        BY <4>1, <4>2, <4>3
    <3>3. QED
      BY <3>1, <3>2
  <2>6. \A k \in DOMAIN scopes : \A n \in DOMAIN scopes[k].symbols :
            \/ scopes[k].symbols[n].off \in 1 .. mm[k] - 1
            \/ scopes[k].symbols[n].off \in (0 - Below(f)) .. (0 - 2)
    <3> SUFFICES ASSUME NEW k \in DOMAIN scopes, NEW n \in DOMAIN scopes[k].symbols
                 PROVE  \/ scopes[k].symbols[n].off \in 1 .. mm[k] - 1
                        \/ scopes[k].symbols[n].off \in (0 - Below(f)) .. (0 - 2)
      OBVIOUS
    <3>1. CASE k = 1
      BY <1>4, <2>3, <3>1, NamedOnce DEF Renames
    <3>2. CASE k # 1
      <4>1. PICK j \in DOMAIN f.scopes : j = k - 1 /\ scopes[k] = f.scopes[j] /\ j \in 1 .. Len(f.scopes)
        BY <1>10, <3>2
      <4>2. \/ f.scopes[j].symbols[n].off \in 1 .. mark[j] - 1
            \/ f.scopes[j].symbols[n].off \in (0 - Below(f)) .. (0 - 2)
        BY <2>1, <4>1 DEF Marks
      <4>3. mm[k] = mark[j]
        <5>1. k \in 2 .. Len(f.scopes) + 2
          BY <1>1, <1>9, <3>2, <4>1
        <5>2. QED
          BY <2>3, <4>1, <5>1
      <4>4. QED
        BY <4>1, <4>2, <4>3
    <3>3. QED
      BY <3>1, <3>2
  <2>7. Marks(g, mm)
    <3>1. Below(g) = Below(f) /\ Len(g.scopes) + 1 = Len(f.scopes) + 2
      BY <1>1, <1>4, <1>8 DEF Below
    <3>2. QED
      BY <1>8, <2>3, <2>4, <2>5, <2>6, <3>1 DEF Marks
  <2>8. QED
    BY <2>7
<1>18. \E depth : Depths(g, depth)
  <2>1. PICK depth : Depths(f, depth)
    BY DEF GoodText
  <2> DEFINE first == IF s.kind = "activate" THEN 0 ELSE IF s.kind = "change" THEN depth[1] + 1 ELSE depth[1]
             dd == [k \in 1 .. Len(f.scopes) + 1 |-> IF k = 1 THEN first ELSE depth[k - 1]]
  <2>2. depth \in [1 .. Len(f.scopes) -> Nat]
    BY <2>1 DEF Depths
  <2>3. dd \in [1 .. Len(f.scopes) + 1 -> Nat] /\ dd[1] = first /\ dd[2] = depth[1]
        /\ \A k \in 2 .. Len(f.scopes) + 1 : dd[k] = depth[k - 1]
    BY <1>1, <2>2
  <2> HIDE DEF dd
  <2>4. \A k \in DOMAIN scopes :
           /\ scopes[k].kind = "block" => dd[k] = dd[k + 1]
           /\ scopes[k].kind = "change" => dd[k] = dd[k + 1] + 1
           /\ scopes[k].kind \notin {"block", "change"} => dd[k] = 0
    <3> SUFFICES ASSUME NEW k \in DOMAIN scopes
                 PROVE  /\ scopes[k].kind = "block" => dd[k] = dd[k + 1]
                        /\ scopes[k].kind = "change" => dd[k] = dd[k + 1] + 1
                        /\ scopes[k].kind \notin {"block", "change"} => dd[k] = 0
      OBVIOUS
    <3>1. CASE k = 1
      BY <1>4, <2>3, <3>1
    <3>2. CASE k # 1
      <4>1. PICK j \in DOMAIN f.scopes : j = k - 1 /\ scopes[k] = f.scopes[j] /\ j \in 1 .. Len(f.scopes)
        BY <1>10, <3>2
      <4>2. /\ f.scopes[j].kind = "block" => depth[j] = depth[j + 1]
            /\ f.scopes[j].kind = "change" => depth[j] = depth[j + 1] + 1
            /\ f.scopes[j].kind \notin {"block", "change"} => depth[j] = 0
        BY <2>1 DEF Depths
      <4>3. dd[k] = depth[j]
        BY <1>1, <1>9, <2>3, <3>2, <4>1
      <4>4. f.scopes[j].kind \in {"block", "change"} => j + 1 \in 1 .. Len(f.scopes)
        BY <1>1, <4>1, SMTT(30) DEF Nested
      <4>5. f.scopes[j].kind \in {"block", "change"} => dd[k + 1] = depth[j + 1]
        BY <1>1, <1>9, <2>3, <3>2, <4>1, <4>4, SMTT(30)
      <4>6. QED
        BY <4>1, <4>2, <4>3, <4>5
    <3>3. QED
      BY <3>1, <3>2
  <2>5. s.kind # "activate" => dd[1] = Len(c)
    <3> SUFFICES ASSUME s.kind # "activate" PROVE dd[1] = Len(c)
      OBVIOUS
    <3>1. depth[1] = Len(f.changes)
      <4>1. CASE f.scopes[1].kind = "activate"
        <5>1. depth[1] = 0
          BY <1>1, <2>1, <4>1, SMTT(30) DEF Depths
        <5>2. QED
          BY <4>1, <5>1
      <4>2. CASE f.scopes[1].kind # "activate"
        BY <2>1, <4>2 DEF Depths
      <4>3. QED
        BY <4>1, <4>2
    <3>2. s.kind \in {"block", "change"} /\ depth[1] \in Nat
      BY <1>1, <2>2, SMTT(30)
    <3>3. Len(c) = Len(f.changes) + (IF s.kind = "change" THEN 1 ELSE 0)
      OBVIOUS
    <3>4. Len(f.changes) \in Nat
      BY Basics
    <3>5. CASE s.kind = "change"
      BY <2>3, <3>1, <3>3, <3>5
    <3>6. CASE s.kind = "block"
      BY <2>3, <3>1, <3>3, <3>4, <3>6
    <3>7. QED
      BY <3>2, <3>5, <3>6
  <2>6. Depths(g, dd)
    BY <1>4, <1>8, <2>3, <2>4, <2>5 DEF Depths
  <2>7. QED
    BY <2>6
<1>19. GoodText(g)
  BY <1>7, <1>14, <1>15, <1>16, <1>17, <1>18 DEF GoodText
<1>20. ASSUME NEW b, NEW d, NEW m \in Nat, NEW mm \in Nat, m <= mm, InStack(f, b, d, m)
       PROVE  InStack(g, b, d, mm)
  <2>1. \A k \in DOMAIN f.scopes : \A n \in DOMAIN f.scopes[k].symbols :
          /\ d[b + f.scopes[k].symbols[n].off] = f.values[n]
          /\ IF f.scopes[k].symbols[n].type = "C" THEN f.values[n] \in Instances ELSE f.values[n] <= mm
    <3> SUFFICES ASSUME NEW k \in DOMAIN f.scopes, NEW n \in DOMAIN f.scopes[k].symbols
                 PROVE  /\ d[b + f.scopes[k].symbols[n].off] = f.values[n]
                        /\ IF f.scopes[k].symbols[n].type = "C" THEN f.values[n] \in Instances ELSE f.values[n] <= mm
      OBVIOUS
    <3>1. n \in 1 .. f.next - 1
      BY <1>1 DEF Nested
    <3>2. f.values[n] \in Nat
      BY <1>1, <3>1
    <3>3. QED
      BY <1>20, <3>2 DEF InStack
  <2> SUFFICES ASSUME NEW k \in DOMAIN scopes, NEW n \in DOMAIN scopes[k].symbols
               PROVE  /\ d[b + scopes[k].symbols[n].off] = f.values[n]
                      /\ IF scopes[k].symbols[n].type = "C" THEN f.values[n] \in Instances ELSE f.values[n] <= mm
    BY <1>8 DEF InStack
  <2>2. CASE k = 1
    BY <1>4, <1>12, <2>1, <2>2, ZenonT(40)
  <2>3. CASE k # 1
    BY <1>10, <2>1, <2>3
  <2>4. QED
    BY <2>2, <2>3
<1>21. Inherits(f, g)
  BY <1>20 DEF Inherits
<1>22. OpenedFields(f, s, c, g)
  BY <1>4, <1>8 DEF OpenedFields
<1>23. QED
  BY <1>19, <1>21, <1>22

-----------------------------------------------------------------------------
(* The frame f with its innermost scope closed and the saved heaps c.      *)
Narrower(f, c) ==
  [f EXCEPT !.scopes = Tail(f.scopes), !.changes = c,
            !.locals = f.locals - Cardinality(VariablesOf(f.scopes[1]))]

(* Under a block or a change statement there are at least the scopes of    *)
(* the parameters and of the body.                                         *)
LEMMA InnerScopes ==
  ASSUME NEW f, GoodText(f), f.scopes[1].kind \in {"block", "change"}
  PROVE  Len(f.scopes) >= 3
<1>1. Len(f.scopes) \in Nat /\ Len(f.scopes) >= 2 /\ 1 \in DOMAIN f.scopes /\ Nested(f)
  BY Basics
<1>2. f.scopes[1].kind = "list" <=> 1 = Len(f.scopes) - 1
  BY <1>1 DEF Nested
<1>3. f.scopes[1].kind # "list"
  OBVIOUS
<1>4. PICK n \in Nat : n = Len(f.scopes)
  BY <1>1
<1>5. n >= 2 /\ n # 2
  BY <1>1, <1>2, <1>3, <1>4
<1>6. n >= 3
  BY <1>5
<1>7. QED
  BY <1>4, <1>6

(* A frame stays well-formed when a block or a change statement is closed  *)
(* and the words of its variables are given up.                            *)
LEMMA ClosedGood ==
  ASSUME NEW f, GoodText(f), f.scopes[1].kind \in {"block", "change"},
         NEW c \in Seq(Nat), f.returns => c = <<>>,
         Len(f.changes) = Len(c) + (IF f.scopes[1].kind = "change" THEN 1 ELSE 0),
         NEW g, g = Narrower(f, c)
  PROVE  /\ GoodText(g)
         /\ g.context = f.context /\ g.returns = f.returns /\ g.next = f.next /\ g.changes = c
         /\ g.mutable = f.mutable
         /\ g.scopes[1].kind = "activate" => g.changes = <<>>
         /\ \A b, d, m : InStack(f, b, d, m) => InStack(g, b, d, m)
<1> DEFINE scopes == Tail(f.scopes)
           locals == f.locals - Cardinality(VariablesOf(f.scopes[1]))
<1>1. /\ f \in FrameType /\ Nested(f) /\ f.next \in Nat /\ f.locals \in Nat /\ f.scopes \in Seq(Scope)
      /\ Len(f.scopes) \in Nat /\ Len(f.scopes) >= 2 /\ DOMAIN f.scopes = 1 .. Len(f.scopes) /\ f.next >= 2
      /\ f.values \in [1 .. f.next - 1 -> Nat]
  BY Basics
<1>2. Contexts(f) /\ Agree(f)
  BY DEF GoodText
<1>3. Len(f.scopes) >= 3
  BY InnerScopes
<1>4. scopes \in Seq(Scope) /\ Len(scopes) = Len(f.scopes) - 1
      /\ \A k \in 1 .. Len(f.scopes) - 1 : scopes[k] = f.scopes[k + 1]
  <2>1. f.scopes # <<>>
    BY <1>1
  <2>2. QED
    BY <1>1, <2>1, HeadTailProperties
<1>5. PICK mark : Marks(f, mark)
  BY DEF GoodText
<1>6. /\ mark \in [1 .. Len(f.scopes) + 1 -> 1 .. MaxLocals + 1] /\ mark[1] = f.locals
      /\ \A j, k \in 1 .. Len(f.scopes) + 1 : j <= k => mark[k] <= mark[j]
  BY <1>5 DEF Marks
<1>7. locals = mark[2] /\ mark[2] \in Nat
  <2>1. 1 \in DOMAIN f.scopes /\ Cardinality(VariablesOf(f.scopes[1])) \in Nat
    BY <1>1, VariablesFinite
  <2>2. mark[1] - mark[1 + 1] = Cardinality(VariablesOf(f.scopes[1]))
    BY <1>5, <2>1 DEF Marks
  <2>3. 2 \in 1 .. Len(f.scopes) + 1
    BY <1>1
  <2>4. mark[2] \in 1 .. MaxLocals + 1 /\ MaxLocals \in Nat
    BY <1>6, <2>3, Constants
  <2>5. QED
    BY <1>1, <1>6, <2>1, <2>2, <2>4, SMTT(30)
<1>8. f.context \in {"action", "reaction", "getter", "other"} /\ f.values \in ValueTable
      /\ f.returns \in BOOLEAN /\ f.mutable \in BOOLEAN
  BY <1>1 DEF FrameType
<1> HIDE DEF scopes, locals
<1>9. g = [context |-> f.context, scopes |-> scopes, values |-> f.values, returns |-> f.returns,
           next |-> f.next, locals |-> locals, mutable |-> f.mutable, changes |-> c]
  BY <1>1 DEF FrameType, scopes, locals, Narrower
<1>10. g \in FrameType
  BY <1>1, <1>4, <1>7, <1>8, <1>9 DEF FrameType
<1>11. /\ g.scopes = scopes /\ g.context = f.context /\ g.returns = f.returns /\ g.values = f.values
       /\ g.locals = mark[2] /\ g.next = f.next /\ g.changes = c /\ g.mutable = f.mutable
  BY <1>7, <1>9
<1>12. DOMAIN scopes = 1 .. Len(f.scopes) - 1
  BY <1>1, <1>4
<1>13. \A k \in DOMAIN scopes : /\ k + 1 \in DOMAIN f.scopes /\ k + 1 \in 1 .. Len(f.scopes)
                                /\ scopes[k] = f.scopes[k + 1] /\ k \in Nat
  BY <1>1, <1>4, <1>12, SMTT(30)
<1>14. Nested(g)
  <2>1. \A k \in DOMAIN scopes : /\ scopes[k].kind = "parameters" <=> k = Len(scopes)
                                 /\ scopes[k].kind = "list" <=> k = Len(scopes) - 1
                                 /\ DOMAIN scopes[k].symbols \subseteq 1 .. f.next - 1
    <3> SUFFICES ASSUME NEW k \in DOMAIN scopes
                 PROVE  /\ scopes[k].kind = "parameters" <=> k = Len(scopes)
                        /\ scopes[k].kind = "list" <=> k = Len(scopes) - 1
                        /\ DOMAIN scopes[k].symbols \subseteq 1 .. f.next - 1
      OBVIOUS
    <3>1. PICK j \in DOMAIN f.scopes : j = k + 1 /\ scopes[k] = f.scopes[j]
      BY <1>13
    <3>2. /\ f.scopes[j].kind = "parameters" <=> j = Len(f.scopes)
          /\ f.scopes[j].kind = "list" <=> j = Len(f.scopes) - 1
          /\ DOMAIN f.scopes[j].symbols \subseteq 1 .. f.next - 1
      BY <1>1 DEF Nested
    <3>3. (k = Len(scopes) <=> j = Len(f.scopes)) /\ (k = Len(scopes) - 1 <=> j = Len(f.scopes) - 1)
      BY <1>1, <1>4, <1>13, <3>1, SMTT(30)
    <3>4. QED
      BY <3>1, <3>2, <3>3
  <2>2. g.mutable <=> \E k \in DOMAIN scopes : scopes[k].kind = "activate"
    <3>1. f.mutable <=> \E k \in DOMAIN f.scopes : f.scopes[k].kind = "activate"
      BY <1>1 DEF Nested
    <3>2. \A j \in DOMAIN f.scopes : j = 1 \/ (j - 1 \in DOMAIN scopes /\ f.scopes[j] = scopes[j - 1])
      BY <1>1, <1>4, <1>12, SMTT(30)
    <3>3. QED
      BY <1>11, <1>13, <3>1, <3>2
  <2>3. Len(scopes) >= 2
    BY <1>1, <1>3, <1>4
  <2>4. QED
    BY <1>1, <1>11, <2>1, <2>2, <2>3, SMTT(30) DEF Nested
<1>15. Contexts(g)
  <2>1. g.scopes[Len(g.scopes)] = f.scopes[Len(f.scopes)] /\ Below(g) = Below(f)
    BY <1>1, <1>3, <1>4, <1>11, SMTT(30) DEF Below
  <2>2. QED
    BY <1>2, <1>11, <2>1 DEF Contexts
<1>16. Agree(g)
  BY <1>2, <1>11, <1>13 DEF Agree
<1>17. \E mm : Marks(g, mm)
  <2> DEFINE mm == [k \in 1 .. Len(f.scopes) |-> mark[k + 1]]
  <2>1. mm \in [1 .. Len(f.scopes) -> 1 .. MaxLocals + 1] /\ mm[1] = mark[2]
        /\ \A k \in 1 .. Len(f.scopes) : mm[k] = mark[k + 1]
    BY <1>1, <1>6
  <2> HIDE DEF mm
  <2>2. \A j, k \in 1 .. Len(f.scopes) : j <= k => mm[k] <= mm[j]
    <3> SUFFICES ASSUME NEW j \in 1 .. Len(f.scopes), NEW k \in 1 .. Len(f.scopes), j <= k
                 PROVE  mm[k] <= mm[j]
      OBVIOUS
    <3>1. j + 1 \in 1 .. Len(f.scopes) + 1 /\ k + 1 \in 1 .. Len(f.scopes) + 1 /\ j + 1 <= k + 1
      BY <1>1
    <3>2. QED
      BY <1>6, <2>1, <3>1
  <2>3. \A k \in DOMAIN scopes : /\ mm[k] - mm[k + 1] = Cardinality(VariablesOf(scopes[k]))
                                 /\ \A n \in DOMAIN scopes[k].symbols :
                                      \/ scopes[k].symbols[n].off \in 1 .. mm[k] - 1
                                      \/ scopes[k].symbols[n].off \in (0 - Below(f)) .. (0 - 2)
    <3> SUFFICES ASSUME NEW k \in DOMAIN scopes
                 PROVE  /\ mm[k] - mm[k + 1] = Cardinality(VariablesOf(scopes[k]))
                        /\ \A n \in DOMAIN scopes[k].symbols :
                             \/ scopes[k].symbols[n].off \in 1 .. mm[k] - 1
                             \/ scopes[k].symbols[n].off \in (0 - Below(f)) .. (0 - 2)
      OBVIOUS
    <3>1. PICK j \in DOMAIN f.scopes : j = k + 1 /\ scopes[k] = f.scopes[j]
      BY <1>13
    <3>2. /\ mark[j] - mark[j + 1] = Cardinality(VariablesOf(f.scopes[j]))
          /\ \A n \in DOMAIN f.scopes[j].symbols :
               \/ f.scopes[j].symbols[n].off \in 1 .. mark[j] - 1
               \/ f.scopes[j].symbols[n].off \in (0 - Below(f)) .. (0 - 2)
      BY <1>5 DEF Marks
    <3>3. k \in 1 .. Len(f.scopes) /\ k + 1 \in 1 .. Len(f.scopes)
      BY <1>1, <1>12, SMTT(30)
    <3>4. mm[k] = mark[j] /\ mm[k + 1] = mark[j + 1]
      BY <2>1, <3>1, <3>3
    <3>5. QED
      BY <3>1, <3>2, <3>4
  <2>4. Below(g) = Below(f) /\ Len(g.scopes) + 1 = Len(f.scopes)
    BY <1>1, <1>4, <1>11 DEF Below
  <2>5. Marks(g, mm)
    BY <1>11, <2>1, <2>2, <2>3, <2>4 DEF Marks
  <2>6. QED
    BY <2>5
<1>18. PICK depth : Depths(f, depth)
  BY DEF GoodText
<1>19. depth \in [1 .. Len(f.scopes) -> Nat] /\ depth[1] = Len(f.changes) /\ Len(f.changes) \in Nat
  <2>1. Len(f.changes) \in Nat
    BY Basics
  <2>2. QED
    BY <1>18, <2>1 DEF Depths
<1>20. depth[2] = Len(c)
  <2>1. 1 \in DOMAIN f.scopes /\ depth[2] \in Nat /\ depth[1] \in Nat
    <3>1. 1 \in 1 .. Len(f.scopes) /\ 2 \in 1 .. Len(f.scopes)
      BY <1>1
    <3>2. QED
      BY <1>1, <1>19, <3>1
  <2>2. /\ f.scopes[1].kind = "block" => depth[1] = depth[1 + 1]
        /\ f.scopes[1].kind = "change" => depth[1] = depth[1 + 1] + 1
    BY <1>18, <2>1 DEF Depths
  <2>3. QED
    BY <1>19, <2>1, <2>2
<1>21. \E dd : Depths(g, dd)
  <2> DEFINE dd == [k \in 1 .. Len(f.scopes) - 1 |-> depth[k + 1]]
  <2>1. dd \in [1 .. Len(f.scopes) - 1 -> Nat] /\ dd[1] = depth[2]
        /\ \A k \in 1 .. Len(f.scopes) - 1 : dd[k] = depth[k + 1]
    <3>1. PICK l \in Nat : l = Len(f.scopes) /\ l >= 2
      BY <1>1
    <3>2. \A k \in 1 .. l - 1 : k + 1 \in 1 .. l
      OBVIOUS
    <3>3. \A k \in 1 .. l - 1 : depth[k + 1] \in Nat
      BY <1>19, <3>1, <3>2
    <3>4. dd = [k \in 1 .. l - 1 |-> depth[k + 1]]
      BY <3>1
    <3>5. 1 \in 1 .. l - 1 /\ 1 + 1 = 2
      BY <3>1
    <3> HIDE DEF dd
    <3>6. \A k \in 1 .. l - 1 : dd[k] = depth[k + 1]
      BY <3>4
    <3>7. dd \in [1 .. l - 1 -> Nat]
      BY <3>3, <3>4
    <3>8. dd[1] = depth[2]
      BY <3>5, <3>6
    <3>9. QED
      BY <3>1, <3>6, <3>7, <3>8
  <2> HIDE DEF dd
  <2>2. \A k \in DOMAIN scopes :
           /\ scopes[k].kind = "block" => dd[k] = dd[k + 1]
           /\ scopes[k].kind = "change" => dd[k] = dd[k + 1] + 1
           /\ scopes[k].kind \notin {"block", "change"} => dd[k] = 0
    <3> SUFFICES ASSUME NEW k \in DOMAIN scopes
                 PROVE  /\ scopes[k].kind = "block" => dd[k] = dd[k + 1]
                        /\ scopes[k].kind = "change" => dd[k] = dd[k + 1] + 1
                        /\ scopes[k].kind \notin {"block", "change"} => dd[k] = 0
      OBVIOUS
    <3>1. PICK j \in DOMAIN f.scopes : j = k + 1 /\ scopes[k] = f.scopes[j]
      BY <1>13
    <3>2. /\ f.scopes[j].kind = "block" => depth[j] = depth[j + 1]
          /\ f.scopes[j].kind = "change" => depth[j] = depth[j + 1] + 1
          /\ f.scopes[j].kind \notin {"block", "change"} => depth[j] = 0
      BY <1>18 DEF Depths
    <3>3. k \in 1 .. Len(f.scopes) - 1
      BY <1>1, <1>12
    <3>4. dd[k] = depth[j]
      BY <2>1, <3>1, <3>3
    <3>5. f.scopes[j].kind \in {"block", "change"} => k + 1 \in 1 .. Len(f.scopes) - 1
      BY <1>1, <3>1, <3>3 DEF Nested
    <3>6. f.scopes[j].kind \in {"block", "change"} => dd[k + 1] = depth[j + 1]
      BY <2>1, <3>1, <3>5
    <3>7. QED
      BY <3>1, <3>2, <3>4, <3>6
  <2>3. Depths(g, dd)
    BY <1>4, <1>11, <1>20, <2>1, <2>2 DEF Depths
  <2>4. QED
    BY <2>3
<1>22. g.scopes[1].kind = "activate" => g.changes = <<>>
  <2>1. 2 \in DOMAIN f.scopes /\ g.scopes[1] = f.scopes[2]
    BY <1>1, <1>4, <1>11
  <2>2. f.scopes[2].kind = "activate" => depth[2] = 0
    BY <1>18, <2>1 DEF Depths
  <2>3. QED
    BY <1>11, <1>20, <2>1, <2>2
<1>23. \A b, d, m : InStack(f, b, d, m) => InStack(g, b, d, m)
  BY <1>11, <1>13 DEF InStack
<1>24. GoodText(g)
  BY <1>10, <1>14, <1>15, <1>16, <1>17, <1>21 DEF GoodText
<1>25. QED
  BY <1>11, <1>22, <1>23, <1>24

(* The frame f with the value v given to the name n.                       *)
Assigned(f, n, v) == [f EXCEPT !.values = [f.values EXCEPT ![n] = v]]

(* A frame stays well-formed when a name is given another value.           *)
LEMMA AssignedGood ==
  ASSUME NEW f, GoodText(f), NEW n \in Names(f.scopes), NEW v \in Nat
  PROVE  LET g == Assigned(f, n, v)
         IN  /\ GoodText(g)
             /\ g.scopes = f.scopes /\ g.context = f.context /\ g.returns = f.returns
             /\ g.mutable = f.mutable /\ g.changes = f.changes
             /\ g.values = [f.values EXCEPT ![n] = v]
<1> DEFINE values == [f.values EXCEPT ![n] = v]
           g == Assigned(f, n, v)
<1>1. f \in FrameType /\ Nested(f) /\ f.next \in Nat /\ f.next >= 2 /\ f.values \in [1 .. f.next - 1 -> Nat]
  BY Basics
<1>2. values \in [1 .. f.next - 1 -> Nat]
  BY <1>1
<1>3. f.next - 1 \in Nat
  BY <1>1
<1>4. values \in ValueTable
  BY <1>2, <1>3, ValueTableFact
<1>41. g = [f EXCEPT !.values = values]
  BY DEF Assigned
<1> HIDE DEF values, g
<1>5. g = [context |-> f.context, scopes |-> f.scopes, values |-> values, returns |-> f.returns,
           next |-> f.next, locals |-> f.locals, mutable |-> f.mutable, changes |-> f.changes]
  BY <1>1, <1>41 DEF FrameType
<1>6. g \in FrameType
  BY <1>1, <1>4, <1>5 DEF FrameType
<1>7. /\ g.scopes = f.scopes /\ g.context = f.context /\ g.returns = f.returns /\ g.next = f.next
      /\ g.locals = f.locals /\ g.mutable = f.mutable /\ g.changes = f.changes /\ g.values = values
  BY <1>5
<1>8. Below(g) = Below(f)
  BY <1>7 DEF Below
<1>9. Nested(g)
  BY <1>1, <1>2, <1>7 DEF Nested
<1>10. Contexts(g) /\ Agree(g)
  BY <1>7, <1>8 DEF Contexts, Agree, GoodText
<1>11. (\E mark : Marks(g, mark)) /\ (\E depth : Depths(g, depth))
  <2>1. PICK mark : Marks(f, mark)
    BY DEF GoodText
  <2>2. PICK depth : Depths(f, depth)
    BY DEF GoodText
  <2>3. Marks(g, mark)
    BY <1>7, <1>8, <2>1 DEF Marks
  <2>4. Depths(g, depth)
    BY <1>7, <2>2 DEF Depths
  <2>5. QED
    BY <2>3, <2>4
<1>12. GoodText(g)
  BY <1>6, <1>9, <1>10, <1>11 DEF GoodText
<1>13. QED
  BY <1>7, <1>12 DEF values, g

(* The offset of a symbol leads to a word of the stack.                    *)
LEMMA Offsets ==
  ASSUME NEW o, NEW l \in Nat, l <= MaxLocals + 1, NEW w \in {2, 3},
         o \in 1 .. l - 1 \/ o \in (0 - w) .. (0 - 2),
         NEW b \in Nat, b > w, NEW d \in Seq(Nat), b + MaxLocals <= Len(d)
  PROVE  o \in Int /\ b + o \in 1 .. Len(d) /\ b + o \in DOMAIN d
BY Constants

(* When the word of a name is assigned, that name finds the new value and  *)
(* no other name is disturbed, since no two names share a word.            *)
LEMMA AssignedInStack ==
  ASSUME NEW f, GoodText(f), NEW n \in Names(f.scopes), NEW v \in Nat,
         NEW b \in Nat, NEW d \in Seq(Nat), NEW m \in Nat, NEW mm \in Nat,
         InStack(f, b, d, m), m <= mm, b > Below(f), b + MaxLocals <= Len(d),
         IF Find(f.scopes, n).type = "C" THEN v \in Instances ELSE v <= mm
  PROVE  InStack(Assigned(f, n, v), b, [d EXCEPT ![b + Find(f.scopes, n).off] = v], mm)
<1> DEFINE g == Assigned(f, n, v)
           o == Find(f.scopes, n).off
           dd == [d EXCEPT ![b + o] = v]
<1>1. /\ f \in FrameType /\ Nested(f) /\ f.next \in Nat /\ f.values \in [1 .. f.next - 1 -> Nat]
      /\ f.locals \in Nat /\ f.locals <= MaxLocals + 1 /\ MaxLocals \in Nat
  BY Basics
<1>2. g.scopes = f.scopes /\ g.values = [f.values EXCEPT ![n] = v]
  BY AssignedGood
<1>3. n \in 1 .. f.next - 1 /\ Find(f.scopes, n) \in Symbol
      /\ (o \in 1 .. f.locals - 1 \/ o \in (0 - Below(f)) .. (0 - 2))
  BY NamedOnce
<1>4. /\ \A k \in DOMAIN f.scopes : n \in DOMAIN f.scopes[k].symbols =>
            f.scopes[k].symbols[n].off = o /\ f.scopes[k].symbols[n].type = Find(f.scopes, n).type
      /\ \A k \in DOMAIN f.scopes : \A j \in DOMAIN f.scopes[k].symbols :
            j # n => f.scopes[k].symbols[j].off # o
  BY NamedOnce
<1>5. o \in Int /\ b + o \in DOMAIN d
  <2>1. Below(f) \in {2, 3}
    BY DEF Below
  <2>2. QED
    BY <1>1, <1>3, <2>1, Offsets
<1> HIDE DEF g, o
<1> SUFFICES ASSUME NEW k \in DOMAIN f.scopes, NEW j \in DOMAIN f.scopes[k].symbols
             PROVE  /\ dd[b + f.scopes[k].symbols[j].off] = g.values[j]
                    /\ IF f.scopes[k].symbols[j].type = "C" THEN g.values[j] \in Instances ELSE g.values[j] <= mm
  BY <1>2 DEF InStack, g, o
<1>6. /\ d[b + f.scopes[k].symbols[j].off] = f.values[j]
      /\ IF f.scopes[k].symbols[j].type = "C" THEN f.values[j] \in Instances ELSE f.values[j] <= m
  BY DEF InStack
<1>7. j \in 1 .. f.next - 1 /\ f.values[j] \in Nat
  BY <1>1 DEF Nested
<1>8. f.scopes[k].symbols[j].off \in Int
  BY <1>1, ScopeOf
<1>9. CASE j = n
  BY <1>1, <1>2, <1>3, <1>4, <1>5, <1>9 DEF o
<1>10. CASE j # n
  <2>1. f.scopes[k].symbols[j].off # o
    BY <1>4, <1>10
  <2>2. dd[b + f.scopes[k].symbols[j].off] = d[b + f.scopes[k].symbols[j].off]
    BY <1>5, <1>8, <2>1
  <2>3. g.values[j] = f.values[j]
    BY <1>1, <1>2, <1>7, <1>10
  <2>4. QED
    BY <1>6, <1>7, <2>2, <2>3
<1>11. QED
  BY <1>9, <1>10

-----------------------------------------------------------------------------
(* The parameters a frame is entered with. *)
Parameters(context, returns, ps, vs) ==
  /\ Len(ps) >= 1 /\ Len(vs) = Len(ps)
  /\ context = "getter" => returns
  /\ context \in {"action", "reaction"} =>
       ~returns /\ ps[1].type = "C" /\ ps[1].off = IF context = "reaction" THEN 0 - 3 ELSE 0 - 2
  /\ \A n \in 1 .. Len(ps) : /\ ps[n].kind # "Variable"
                             /\ \/ ps[n].off = 0 - 2
                                \/ ps[n].off = 0 - 3 /\ (returns \/ context = "reaction")
  /\ \A n, m \in 1 .. Len(ps) : n # m => ps[n].off # ps[m].off

(* A record of the fields of a frame is a frame.                           *)
LEMMA FrameTypeOf ==
  ASSUME NEW context \in {"action", "reaction", "getter", "other"}, NEW scopes \in Seq(Scope),
         NEW values \in ValueTable, NEW returns \in BOOLEAN, NEW next \in Nat, NEW locals \in Nat,
         NEW mutable \in BOOLEAN, NEW changes \in Seq(Nat)
  PROVE  [context |-> context, scopes |-> scopes, values |-> values, returns |-> returns,
          next |-> next, locals |-> locals, mutable |-> mutable, changes |-> changes] \in FrameType
BY DEF FrameType

(* A frame as a call sets it up, with its parameters only, is well-        *)
(* formed.                                                                 *)
LEMMA FreshGood ==
  ASSUME NEW context \in {"action", "reaction", "getter", "other"}, NEW returns \in BOOLEAN,
         NEW ps \in Seq(Symbol), NEW vs \in Seq(Nat), Parameters(context, returns, ps, vs),
         NEW next \in Nat, next = Len(ps) + 1
  PROVE  LET f == Frame(context, <<[kind |-> "list", symbols |-> <<>>], [kind |-> "parameters", symbols |-> ps]>>,
                        vs, returns, next)
         IN  /\ GoodText(f)
             /\ f.context = context /\ f.returns = returns /\ ~f.mutable /\ f.changes = <<>>
             /\ f.values = vs /\ f.scopes[1].kind = "list"
             /\ f.scopes = <<[kind |-> "list", symbols |-> <<>>], [kind |-> "parameters", symbols |-> ps]>>
<1> DEFINE none == [kind |-> "list", symbols |-> <<>>]
           some == [kind |-> "parameters", symbols |-> ps]
           scopes == <<none, some>>
           f == Frame(context, scopes, vs, returns, next)
<1>1. ps \in Table /\ <<>> \in Table
  <2>1. DOMAIN ps \subseteq Nat /\ ps \in [DOMAIN ps -> Symbol]
    OBVIOUS
  <2>2. DOMAIN <<>> \subseteq Nat /\ <<>> \in [DOMAIN <<>> -> Symbol]
    OBVIOUS
  <2>3. QED
    BY <2>1, <2>2, TableFact
<1>2. none \in Scope /\ some \in Scope
  BY <1>1 DEF Scope
<1>3. scopes \in Seq(Scope) /\ Len(scopes) = 2 /\ DOMAIN scopes = {1, 2} /\ scopes[1] = none /\ scopes[2] = some
  BY <1>2
<1>4. vs \in [1 .. next - 1 -> Nat] /\ Len(ps) = next - 1 /\ Len(vs) = Len(ps) /\ Len(ps) >= 1 /\ next >= 2
  BY DEF Parameters
<1>5. vs \in ValueTable
  <2>1. Len(vs) \in Nat /\ vs \in [1 .. Len(vs) -> Nat]
    OBVIOUS
  <2>2. QED
    BY <2>1, ValueTableFact
<1>6. none.kind = "list" /\ none.symbols = <<>> /\ DOMAIN none.symbols = {}
      /\ some.kind = "parameters" /\ some.symbols = ps /\ DOMAIN some.symbols = 1 .. next - 1
  BY <1>4
<1> HIDE DEF none, some, scopes
<1>7. f = [context |-> context, scopes |-> scopes, values |-> vs, returns |-> returns,
           next |-> next, locals |-> 1, mutable |-> FALSE, changes |-> <<>>]
  BY DEF Frame
<1>8. /\ f.context = context /\ f.returns = returns /\ f.mutable = FALSE /\ f.changes = <<>>
      /\ f.values = vs /\ f.scopes = scopes /\ f.next = next /\ f.locals = 1
  BY <1>7
<1>81. f.scopes = scopes /\ f.locals = 1
  BY <1>7
<1>82. /\ f.scopes = scopes /\ f.locals = 1 /\ Len(f.scopes) = 2 /\ DOMAIN scopes = {1, 2}
       /\ scopes[1].kind = "list" /\ scopes[2].kind = "parameters"
  BY <1>3, <1>6, <1>81
<1>83. /\ DOMAIN scopes[1].symbols = {} /\ scopes[2].symbols = ps
  BY <1>3, <1>6
<1>9. f \in FrameType
  <2>1. <<>> \in Seq(Nat)
    BY EmptySeq, Zenon
  <2>2. 1 \in Nat /\ FALSE \in BOOLEAN /\ scopes \in Seq(Scope)
    BY <1>3
  <2>3. [context |-> context, scopes |-> scopes, values |-> vs, returns |-> returns,
         next |-> next, locals |-> 1, mutable |-> FALSE, changes |-> <<>>] \in FrameType
    BY <1>5, <2>1, <2>2, FrameTypeOf
  <2>4. QED
    BY <1>7, <2>3, Zenon
<1> HIDE DEF f
<1>10. Nested(f)
  <2>1. \A k \in DOMAIN scopes : /\ scopes[k].kind = "parameters" <=> k = Len(scopes)
                                 /\ scopes[k].kind = "list" <=> k = Len(scopes) - 1
                                 /\ DOMAIN scopes[k].symbols \subseteq 1 .. next - 1
                                 /\ scopes[k].kind # "activate"
    BY <1>3, <1>6
  <2>2. f.next = next /\ f.values = vs /\ f.mutable = FALSE
    BY <1>7
  <2>3. QED
    BY <1>4, <1>82, <2>1, <2>2 DEF Nested
<1>11. Contexts(f)
  <2>1. f.scopes[Len(f.scopes)].symbols = ps
    BY <1>3, <1>6, <1>8
  <2>2. 1 \in DOMAIN ps
    BY <1>4
  <2>3. QED
    BY <1>8, <2>1, <2>2 DEF Contexts, Below, Parameters
<1>12. Agree(f)
  <2>1. \A k \in DOMAIN scopes : \A n \in DOMAIN scopes[k].symbols : k = 2 /\ scopes[k].symbols = ps /\ n \in 1 .. Len(ps)
    BY <1>3, <1>6
  <2>2. QED
    BY <1>8, <2>1 DEF Agree, Parameters
<1>13. \E mark : Marks(f, mark)
  <2> DEFINE mark == [k \in 1 .. 3 |-> 1]
  <2>1. mark \in [1 .. Len(f.scopes) + 1 -> 1 .. MaxLocals + 1] /\ mark[1] = f.locals
    BY <1>82, Constants
  <2>2. \A k \in DOMAIN scopes : VariablesOf(scopes[k]) = {}
    <3>1. \A n \in 1 .. Len(ps) : ps[n].kind # "Variable"
      BY DEF Parameters
    <3>2. VariablesOf(scopes[1]) = {} /\ VariablesOf(scopes[2]) = {}
      BY <1>83, <3>1 DEF VariablesOf
    <3>3. QED
      BY <1>82, <3>2
  <2>3. \A k \in DOMAIN scopes : Cardinality(VariablesOf(scopes[k])) = 0
    BY <2>2, FS_EmptySet
  <2>4. \A k \in DOMAIN scopes : \A n \in DOMAIN scopes[k].symbols :
           scopes[k].symbols[n].off \in (0 - Below(f)) .. (0 - 2)
    <3>1. \A n \in 1 .. Len(ps) : ps[n].off \in (0 - Below(f)) .. (0 - 2)
      BY <1>8 DEF Below, Parameters
    <3>2. QED
      BY <1>3, <1>4, <1>6, <3>1
  <2>5. \A k \in DOMAIN scopes : mark[k] = 1 /\ mark[k + 1] = 1
    BY <1>3
  <2>6. \A j, k \in 1 .. Len(f.scopes) + 1 : j <= k => mark[k] <= mark[j]
    BY <1>82
  <2> HIDE DEF mark
  <2>7. Marks(f, mark)
    BY <1>8, <2>1, <2>3, <2>4, <2>5, <2>6 DEF Marks
  <2>8. QED
    BY <2>7
<1>14. \E depth : Depths(f, depth)
  <2> DEFINE depth == [k \in 1 .. 2 |-> 0]
  <2>1. Len(f.changes) = 0
    BY <1>8
  <2>2. Depths(f, depth)
    BY <1>82, <2>1 DEF Depths
  <2>3. QED
    BY <2>2
<1>15. GoodText(f)
  BY <1>9, <1>10, <1>11, <1>12, <1>13, <1>14 DEF GoodText
<1>16. QED
  BY <1>3, <1>6, <1>8, <1>15 DEF f, none, some, scopes

(* The objects, and the two fields of each. *)
ObjectsOK(o) ==
  /\ o \in Seq(ObjectType) /\ N <= Len(o)
  /\ \A i \in DOMAIN o : o[i].p <= Len(o) /\ o[i].h <= Len(o)

(* The types of the variables.                                             *)
Types ==
  /\ bound \in [Instances -> Seq(Instances)]
  /\ phase \in {"immutable", "mutable", "done"}
  /\ data \in Seq(Nat) /\ bp \in Nat /\ list \in Nat /\ info \in Nat
  /\ heap \in [Instances -> Nat]
  /\ ObjectsOK(obj)
  /\ DOMAIN text \subseteq Nat /\ text \in [DOMAIN text -> FrameType]
  /\ native \in Seq(NativeType)
  /\ acts \in Seq(Nat) /\ ran \in Seq(Nat) /\ count \in Nat

(* Every frame is well-formed, and on the stack each of its symbols finds  *)
(* its value.                                                              *)
Frames == \A b \in DOMAIN text : GoodText(text[b]) /\ InStack(text[b], b, data, Len(obj))

(* The frames lie on the stack one above the other.                        *)
Layout ==
  /\ \A b \in DOMAIN text : b > Below(text[b]) /\ b + MaxLocals <= Len(data)
  /\ \A b, c \in DOMAIN text : b < c => b + MaxLocals < c - Below(text[c])

(* The native calls, each in its frame; what is called returns to the      *)
(* frame below.                                                            *)
Calls ==
  /\ native # <<>> => bp = native[Len(native)].bp /\ info \in Instances
  /\ \A k \in DOMAIN native : native[k].bp \in DOMAIN text
  /\ \A j, k \in DOMAIN native : j < k => native[j].bp < native[k].bp
  /\ \A j, k \in DOMAIN native : j < k /\ native[k].ports => native[j].ports
  /\ \A k \in DOMAIN native : k > 1 =>
       /\ native[k].old \in Instances
       /\ \/ /\ text[native[k].bp].context \in {"other", "getter"}
             /\ ~native[k - 1].ports /\ data[native[k].bp] = native[k - 1].bp
          \/ text[native[k].bp].context = "reaction" /\ native[k - 1].ports
  /\ \A k \in DOMAIN native : ~native[k].ports =>
       \A c \in DOMAIN text : c > native[k].bp => \E j \in DOMAIN native : j > k /\ c = native[j].bp

(* Only a frame of a native call may have saved heaps.                     *)
Quiet ==
  /\ \A k \in DOMAIN native : text[native[k].bp].scopes[1].kind = "activate" =>
       native[k].ports \/ text[native[k].bp].changes = <<>>
  /\ \A k \in DOMAIN native : native[k].ports => text[native[k].bp].scopes[1].kind = "activate"
  /\ \A b \in DOMAIN text : (\A k \in DOMAIN native : native[k].bp # b) => text[b].changes = <<>>

(* How many of the frames that activated are still there. *)
Left == IF phase = "mutable" /\ native # <<>> THEN Len(acts) - Len(ran) + 1 ELSE Len(acts) - Len(ran)

(* The frames are those of the native calls and those that activated; the  *)
(* latter are linked through their saved base pointers, in the order in    *)
(* which they activated.                                                   *)
Deferred ==
  /\ Left \in 0 .. Len(acts)
  /\ DOMAIN text = {native[k].bp : k \in DOMAIN native} \cup {acts[k] : k \in 1 .. Left}
  /\ \A b \in DOMAIN text : text[b].mutable <=> \E k \in 1 .. Left : acts[k] = b
  /\ \A j, k \in DOMAIN acts : j < k => acts[j] < acts[k]
  /\ \A k \in 1 .. Left : /\ data[acts[k]] = (IF k = 1 THEN 0 ELSE acts[k - 1])
                          /\ text[acts[k]].context \in {"action", "reaction"}
  /\ list = IF acts = <<>> THEN 0 ELSE acts[Len(acts)]
  /\ acts # <<>> => acts[1] = 3

(* What each phase of runtime::execute leaves on the stack.                *)
Phases ==
  /\ phase = "immutable" =>
       /\ ran = <<>> /\ native # <<>> /\ native[1].bp = 3 /\ (native[1].ports <=> acts # <<>>)
       /\ text[3].context = "action"
       /\ \A k \in DOMAIN native : text[native[k].bp].mutable => native[k].ports
  /\ phase = "mutable" =>
       /\ \A k \in DOMAIN native : ~native[k].ports
       /\ native # <<>> => Left >= 1 /\ native[1].bp = acts[Left]
       /\ native = <<>> => bp = IF Left = 0 THEN 0 ELSE acts[Left]
       /\ native = <<>> /\ Left = 0 => Len(data) = 2
  /\ phase = "done" => data = <<>> /\ native = <<>> /\ DOMAIN text = {}

(* The argument left on the stack for the reactions still to be called. *)
Arguments ==
  \A k \in DOMAIN native : native[k].ports /\ native[k].todo # <<>> =>
    /\ native[k].top \in 1 .. Len(data) /\ data[native[k].top] <= Len(obj)
    /\ native[k].bp + MaxLocals < native[k].top
    /\ \A j \in DOMAIN native : j > k => native[k].top < native[j].bp - Below(text[native[j].bp])

(* The instance a native call is about, and the heaps it left. *)
Inst(k) == IF k = Len(native) THEN info ELSE native[k + 1].old
Saved(k) == text[native[k].bp].changes

(* A component that is not in its own heap finds it first among the heaps  *)
(* saved by the outermost call about it that saved any.                    *)
Heaps ==
  \A i \in Instances :
    \/ heap[i] = i /\ \A k \in DOMAIN native : Inst(k) = i => Saved(k) = <<>>
    \/ \E k \in DOMAIN native : /\ Inst(k) = i /\ Saved(k) # <<>> /\ Head(Saved(k)) = i
                                /\ \A j \in DOMAIN native : j < k /\ Inst(j) = i => Saved(j) = <<>>

(* The shape of the stack, and the invariant.                              *)
Shape == Types /\ Frames /\ Layout /\ Calls /\ Quiet /\ Deferred /\ Phases /\ Arguments
IInv == Shape /\ Heaps

-----------------------------------------------------------------------------
(* The mutability that a declaration is given is a mutability.             *)
LEMMA LeastType ==
  ASSUME NEW e, e.ind \in Mutability
  PROVE  /\ Least(InitializerAllowed, e) \in Mutability
         /\ Least(ArgumentAllowed, e) \in Mutability
         /\ Least(ReceiverAllowed, e) \in Mutability
         /\ Least(ReturnAllowed, e) \in Mutability
<1>1. Least(InitializerAllowed, e) \in Mutability
  <2> DEFINE P(m) == InitializerAllowed(m, e)
  <2>1. P(2)
    BY DEF InitializerAllowed, Mutability, Mutable, Immutable, Foreign
  <2> HIDE DEF P
  <2>2. \E m \in Mutability : P(m) /\ \A k \in Mutability : P(k) => m <= k
    BY <2>1 DEF Mutability, Mutable, Immutable, Foreign
  <2>3. QED
    BY <2>2 DEF Least, P
<1>2. Least(ArgumentAllowed, e) \in Mutability
  <2> DEFINE P(m) == ArgumentAllowed(m, e)
  <2>1. P(2)
    BY DEF ArgumentAllowed, Mutability, Mutable, Immutable, Foreign
  <2> HIDE DEF P
  <2>2. \E m \in Mutability : P(m) /\ \A k \in Mutability : P(k) => m <= k
    BY <2>1 DEF Mutability, Mutable, Immutable, Foreign
  <2>3. QED
    BY <2>2 DEF Least, P
<1>3. Least(ReturnAllowed, e) \in Mutability
  <2> DEFINE P(m) == ReturnAllowed(m, e)
  <2>1. P(2)
    BY DEF ReturnAllowed, Mutability, Mutable, Immutable, Foreign
  <2> HIDE DEF P
  <2>2. \E m \in Mutability : P(m) /\ \A k \in Mutability : P(k) => m <= k
    BY <2>1 DEF Mutability, Mutable, Immutable, Foreign
  <2>3. QED
    BY <2>2 DEF Least, P
<1>4. Least(ReceiverAllowed, e) \in Mutability
  <2> DEFINE P(m) == ReceiverAllowed(m, e)
  <2>1. P(2)
    BY DEF ReceiverAllowed
  <2> HIDE DEF P
  <2>2. \E m \in Mutability : P(m) /\ \A k \in Mutability : P(k) => m <= k
    BY <2>1 DEF Mutability, Mutable, Immutable, Foreign
  <2>3. QED
    BY <2>2 DEF Least, P
<1>5. QED
  BY <1>1, <1>2, <1>3, <1>4

(* The frame that runs. *)
LEMMA Here ==
  ASSUME Shape, Running
  PROVE  /\ native # <<>> /\ Len(native) \in Nat /\ Len(native) >= 1 /\ Len(native) \in DOMAIN native
         /\ Current = native[Len(native)] /\ Current.ports = FALSE
         /\ bp = native[Len(native)].bp /\ bp \in DOMAIN text /\ bp \in Nat /\ F = text[bp]
         /\ GoodText(F) /\ InStack(F, bp, data, Len(obj))
         /\ bp > Below(F) /\ bp + MaxLocals <= Len(data)
         /\ info \in Instances /\ Below(F) \in {2, 3} /\ phase # "done"
<1>1. native \in Seq(NativeType) /\ native # <<>> /\ DOMAIN text \subseteq Nat
  BY DEF Shape, Types, Running
<1>2. Len(native) \in Nat /\ Len(native) >= 1 /\ Len(native) \in DOMAIN native /\ DOMAIN native = 1 .. Len(native)
  BY <1>1
<1>3. Current = native[Len(native)]
  BY <1>1 DEF Current, Last
<1>4. Current.ports = FALSE
  <2>1. native[Len(native)] \in NativeType
    BY <1>1, <1>2
  <2>2. QED
    BY <1>3, <2>1 DEF Running, NativeType
<1>5. bp = native[Len(native)].bp /\ info \in Instances
  BY <1>1 DEF Shape, Calls
<1>6. bp \in DOMAIN text
  BY <1>2, <1>5 DEF Shape, Calls
<1>7. GoodText(F) /\ InStack(F, bp, data, Len(obj)) /\ bp > Below(F) /\ bp + MaxLocals <= Len(data)
  BY <1>6 DEF Shape, Frames, Layout, F
<1>8. phase # "done"
  BY <1>1 DEF Shape, Phases
<1>9. QED
  BY <1>1, <1>2, <1>3, <1>4, <1>5, <1>6, <1>7, <1>8 DEF F, Below

(* An expression with its type, its mutability and its value.              *)
GoodPlace(e) ==
  /\ e.type \in {"C", "T", "H"} /\ e.ind \in Mutability /\ e.val \in Nat
  /\ e.kind \in {"symbol", "p", "h", "new"}
  /\ e.kind = "symbol" => e.at \in Visible(F.scopes) /\ e.type = Find(F.scopes, e.at).type
  /\ e.kind \in {"p", "h"} => e.at \in DOMAIN obj /\ e.type # "C"
  /\ IF e.type = "C" THEN e.val \in Instances ELSE e.val <= Len(Allocated(e))

(* Objects more, whose fields lead to what there is then, keep the table   *)
(* of objects in order.                                                    *)
LEMMA ObjectsAdded ==
  ASSUME NEW o, ObjectsOK(o), NEW r \in Seq(ObjectType), Len(o) <= Len(r),
         \A i \in 1 .. Len(o) : r[i] = o[i],
         \A i \in Len(o) + 1 .. Len(r) : r[i].p <= Len(r) /\ r[i].h <= Len(r)
  PROVE  ObjectsOK(r)
<1>1. o \in Seq(ObjectType) /\ N <= Len(o) /\ N \in Nat /\ Len(o) \in Nat
      /\ \A i \in DOMAIN o : o[i].p <= Len(o) /\ o[i].h <= Len(o)
  BY Constants DEF ObjectsOK
<1>2. ASSUME NEW i \in DOMAIN r
      PROVE  r[i].p <= Len(r) /\ r[i].h <= Len(r)
  <2>1. i \in 1 .. Len(r) /\ Len(r) \in Nat
    OBVIOUS
  <2>2. CASE i \in 1 .. Len(o)
    <3>1. o[i] \in ObjectType /\ o[i].p <= Len(o) /\ o[i].h <= Len(o)
      BY <1>1, <2>2
    <3>2. o[i].p \in Nat /\ o[i].h \in Nat
      BY <3>1 DEF ObjectType
    <3>3. QED
      BY <1>1, <2>1, <2>2, <3>1, <3>2
  <2>3. CASE i \notin 1 .. Len(o)
    <3>1. i \in Len(o) + 1 .. Len(r)
      BY <1>1, <2>1, <2>3
    <3>2. QED
      BY <3>1
  <2>4. QED
    BY <2>2, <2>3
<1>3. N <= Len(r)
  BY <1>1
<1>4. QED
  BY <1>2, <1>3 DEF ObjectsOK

(* NewOp keeps the table of objects in order.                              *)
LEMMA Allocation ==
  ASSUME Shape, NEW e, info \in Instances
  PROVE  /\ ObjectsOK(Allocated(e)) /\ Len(Allocated(e)) \in Nat /\ Len(obj) \in Nat
         /\ Len(Allocated(e)) = IF e.kind # "new" THEN Len(obj) ELSE IF e.type = "T" THEN Len(obj) + 1 ELSE Len(obj) + 2
         /\ Len(obj) <= Len(Allocated(e))
<1>1. obj \in Seq(ObjectType) /\ N <= Len(obj) /\ N \in Nat /\ Len(obj) \in Nat
      /\ \A i \in DOMAIN obj : obj[i].p <= Len(obj) /\ obj[i].h <= Len(obj)
  BY Constants DEF Shape, Types, ObjectsOK
<1>2. CASE e.kind # "new"
  <2>1. Allocated(e) = obj
    BY <1>2 DEF Allocated
  <2>2. QED
    BY <1>1, <1>2, <2>1 DEF ObjectsOK
<1>3. CASE e.kind = "new"
  <2>1. heap[info] \in Nat /\ ObjectsOK(obj)
    BY DEF Shape, Types
  <2>2. PICK x : x = Object(heap[info], 0, 0)
    OBVIOUS
  <2>3. PICK y : y = Link(heap[info], Len(obj) + 2)
    OBVIOUS
  <2>4. PICK z : z = Object(Len(obj) + 2, 0, 0)
    OBVIOUS
  <2>5. /\ x \in ObjectType /\ x.p = 0 /\ x.h = 0
        /\ y \in ObjectType /\ y.p = Len(obj) + 2 /\ y.h = 0
        /\ z \in ObjectType /\ z.p = 0 /\ z.h = 0
    BY <1>1, <2>1, <2>2, <2>3, <2>4 DEF ObjectType, Object, Link
  <2>6. CASE e.type = "T"
    <3>1. Allocated(e) = Append(obj, x)
      BY <1>3, <2>2, <2>6 DEF Allocated
    <3>2. PICK r : r = Append(obj, x)
      OBVIOUS
    <3>3. /\ r \in Seq(ObjectType) /\ Len(r) = Len(obj) + 1 /\ r[Len(obj) + 1] = x
          /\ \A i \in 1 .. Len(obj) : r[i] = obj[i]
      BY <1>1, <2>5, <3>2
    <3>4. \A i \in Len(obj) + 1 .. Len(r) : r[i].p <= Len(r) /\ r[i].h <= Len(r)
      BY <1>1, <2>5, <3>3
    <3>5. ObjectsOK(r)
      BY <1>1, <2>1, <3>3, <3>4, ObjectsAdded
    <3>6. QED
      BY <1>1, <1>3, <2>6, <3>1, <3>2, <3>3, <3>5
  <2>7. CASE e.type # "T"
    <3>1. Allocated(e) = obj \o <<y, z>>
      BY <1>3, <2>3, <2>4, <2>7 DEF Allocated
    <3>2. PICK r : r = obj \o <<y, z>>
      OBVIOUS
    <3>3. /\ r \in Seq(ObjectType) /\ Len(r) = Len(obj) + 2
          /\ \A i \in 1 .. Len(obj) : r[i] = obj[i]
      BY <1>1, <2>5, <3>2
    <3>4. r[Len(obj) + 1] = y /\ r[Len(obj) + 2] = z
      <4>1. PICK s : s = <<y, z>>
        OBVIOUS
      <4>2. s \in Seq(ObjectType) /\ Len(s) = 2 /\ s[1] = y /\ s[2] = z
        BY <2>5, <4>1
      <4>3. r = obj \o s
        BY <3>2, <4>1
      <4>4. r[Len(obj) + 1] = s[1] /\ r[Len(obj) + 2] = s[2]
        <5>1. \A i \in 1 .. Len(obj) + Len(s) : r[i] = IF i <= Len(obj) THEN obj[i] ELSE s[i - Len(obj)]
          BY <1>1, <4>2, <4>3, ConcatProperties
        <5>2. PICK n \in Nat : n = Len(obj)
          BY <1>1
        <5>3. r[n + 1] = s[n + 1 - n] /\ r[n + 2] = s[n + 2 - n]
          BY <4>2, <5>1, <5>2
        <5>4. n + 1 - n = 1 /\ n + 2 - n = 2
          BY <5>2
        <5>5. QED
          BY <5>2, <5>3, <5>4
      <4>5. QED
        BY <4>2, <4>4
    <3>5. \A i \in Len(obj) + 1 .. Len(r) : r[i].p <= Len(r) /\ r[i].h <= Len(r)
      BY <1>1, <2>5, <3>3, <3>4
    <3>6. ObjectsOK(r)
      BY <1>1, <2>1, <3>3, <3>5, ObjectsAdded
    <3>7. Allocated(e) = r
      BY <3>1, <3>2, Zenon
    <3>8. QED
      BY <1>1, <1>3, <2>7, <3>3, <3>6, <3>7
  <2>8. QED
    BY <2>6, <2>7
<1>4. QED
  BY <1>2, <1>3

(* In a frame laid out on the stack every declared name finds its value,   *)
(* which is an instance for the receiver and an object otherwise.          *)
LEMMA NamedValue ==
  ASSUME NEW f, GoodText(f), NEW n \in Names(f.scopes), NEW b, NEW d, NEW m, InStack(f, b, d, m)
  PROVE  /\ d[b + Find(f.scopes, n).off] = f.values[n] /\ f.values[n] \in Nat
         /\ IF Find(f.scopes, n).type = "C" THEN f.values[n] \in Instances ELSE f.values[n] <= m
<1>1. f.scopes \in Seq(Scope) /\ f.next \in Nat /\ f.values \in [1 .. f.next - 1 -> Nat]
  BY Basics
<1>2. PICK k \in DOMAIN f.scopes : n \in DOMAIN f.scopes[k].symbols /\ Find(f.scopes, n) = f.scopes[k].symbols[n]
  BY <1>1, FindIn
<1>3. n \in 1 .. f.next - 1
  BY NamedOnce
<1>4. QED
  BY <1>1, <1>2, <1>3 DEF InStack

(* An identifier of the running frame is a place with a value.             *)
LEMMA IdentifierFacts ==
  ASSUME Shape, Running, NEW e \in Identifiers
  PROVE  /\ e.type \in {"C", "T", "H"} /\ e.ind \in Mutability /\ e.val \in Nat /\ e.kind = "symbol"
         /\ e.at \in Visible(F.scopes) /\ e.at \in Names(F.scopes) /\ e.type = Find(F.scopes, e.at).type
         /\ IF e.type = "C" THEN e.val \in Instances ELSE e.val <= Len(obj)
<1>1. PICK n \in Visible(F.scopes) :
         e = Place(Find(F.scopes, n).type, Find(F.scopes, n).im, Find(F.scopes, n).ind,
                   data[bp + Find(F.scopes, n).off], "symbol", n)
  BY DEF Identifiers
<1>2. n \in Names(F.scopes)
  BY <1>1, VisibleNames
<1>3. GoodText(F) /\ InStack(F, bp, data, Len(obj))
  BY Here
<1>4. Find(F.scopes, n) \in Symbol
  BY <1>2, <1>3, NamedOnce
<1>5. PICK s \in Symbol : s = Find(F.scopes, n)
  BY <1>4
<1>6. PICK v : v = data[bp + Find(F.scopes, n).off]
  OBVIOUS
<1>7. v \in Nat /\ IF s.type = "C" THEN v \in Instances ELSE v <= Len(obj)
  <2>1. /\ v = F.values[n] /\ F.values[n] \in Nat
        /\ IF Find(F.scopes, n).type = "C" THEN F.values[n] \in Instances ELSE F.values[n] <= Len(obj)
    BY <1>2, <1>3, <1>6, NamedValue
  <2>2. QED
    BY <1>5, <2>1
<1>8. e = Place(s.type, s.im, s.ind, v, "symbol", n)
  BY <1>1, <1>5, <1>6
<1>9. s.type \in {"C", "T", "H"} /\ s.ind \in Mutability
  BY DEF Symbol
<1>10. e.type = s.type /\ e.ind = s.ind /\ e.val = v /\ e.kind = "symbol" /\ e.at = n
  BY <1>8 DEF Place
<1>11. QED
  BY <1>1, <1>2, <1>5, <1>7, <1>9, <1>10

(* So is every expression a statement may contain.                         *)
LEMMA PlacesGood ==
  ASSUME Shape, Running, NEW e \in Places \cup News
  PROVE  GoodPlace(e)
<1> USE DEF GoodPlace
<1>1. info \in Instances
  BY Here
<1>2. /\ Len(obj) \in Nat /\ Len(Allocated(e)) \in Nat /\ Len(obj) <= Len(Allocated(e))
      /\ e.kind = "new" => Len(obj) + 1 <= Len(Allocated(e))
  BY <1>1, Allocation
<1>3. CASE e \in Identifiers
  BY <1>2, <1>3, IdentifierFacts
<1>4. CASE e \in Selections
  <2>1. PICK b \in Identifiers : /\ b.type \in {"C", "T"} /\ b.val # 0
                                 /\ \/ e = Place("T", b.ind, b.ind, obj[b.val].p, "p", b.val)
                                    \/ e = Place("H", b.ind, b.ind, obj[b.val].h, "h", b.val)
    BY <1>4 DEF Selections
  <2>2. b.ind \in Mutability /\ b.val \in Nat /\ IF b.type = "C" THEN b.val \in Instances ELSE b.val <= Len(obj)
    BY IdentifierFacts
  <2>3. obj \in Seq(ObjectType) /\ N <= Len(obj) /\ \A i \in DOMAIN obj : obj[i].p <= Len(obj) /\ obj[i].h <= Len(obj)
    BY DEF Shape, Types, ObjectsOK
  <2>4. b.val \in 1 .. Len(obj) /\ b.val \in DOMAIN obj
    BY <1>2, <2>1, <2>2, <2>3, Constants
  <2>5. obj[b.val] \in ObjectType
    BY <2>3, <2>4
  <2>6. PICK x \in Nat, y \in Nat : x = obj[b.val].p /\ y = obj[b.val].h /\ x <= Len(obj) /\ y <= Len(obj)
    BY <2>3, <2>4, <2>5 DEF ObjectType
  <2>7. e.type \in {"T", "H"} /\ e.ind = b.ind /\ e.val \in Nat /\ e.val <= Len(obj) /\ e.kind \in {"p", "h"} /\ e.at = b.val
    BY <2>1, <2>6 DEF Place
  <2>8. QED
    BY <1>2, <2>2, <2>4, <2>7
<1>5. CASE e \in News
  <2>1. PICK t \in {"T", "H"} : e = Place(t, Immutable, Mutable, Len(obj) + 1, "new", 0)
    BY <1>5 DEF News
  <2>2. e.type \in {"T", "H"} /\ e.ind = 0 /\ e.val = Len(obj) + 1 /\ e.kind = "new"
    BY <2>1 DEF Place, Mutable
  <2>3. QED
    BY <1>2, <2>2 DEF Mutability, Mutable
<1>6. QED
  BY <1>3, <1>4, <1>5 DEF Places

(* So is the argument of an activation that calls no port.                 *)
LEMMA NoArgumentGood ==
  ASSUME Shape, Running
  PROVE  GoodPlace(NoArgument)
<1>1. info \in Instances
  BY Here
<1>2. Len(Allocated(NoArgument)) \in Nat
  BY <1>1, Allocation
<1>3. /\ NoArgument.type = "T" /\ NoArgument.ind = 0 /\ NoArgument.val = 0 /\ NoArgument.kind = "new"
  BY DEF NoArgument, Place, Mutable
<1>4. QED
  BY <1>2, <1>3 DEF GoodPlace, Mutability, Mutable

-----------------------------------------------------------------------------
(* The words of the frame at b, with w words below it, that symbols name. *)
Untouched(d, dd, b, w) == \A x \in b - w .. b + MaxLocals : x \notin {b - 1, b} => dd[x] = d[x]

(* The word of a symbol lies within the frame and is neither the saved     *)
(* base pointer nor the instruction pointer.                               *)
LEMMA WordOf ==
  ASSUME NEW b \in Nat, NEW w \in {2, 3}, NEW q \in Int, q <= MaxLocals + 1, NEW o \in Int,
         o \in 1 .. q - 1 \/ o \in (0 - w) .. (0 - 2)
  PROVE  b + o \in b - w .. b + MaxLocals /\ b + o \notin {b - 1, b}
BY Constants

(* A frame stays laid out when none of the words its symbols name is       *)
(* written.                                                                *)
LEMMA InStackSame ==
  ASSUME NEW f, GoodText(f), NEW b \in Nat, b > Below(f),
         NEW d \in Seq(Nat), NEW dd \in Seq(Nat), b + MaxLocals <= Len(d),
         Untouched(d, dd, b, Below(f)),
         NEW m \in Nat, NEW mm \in Nat, m <= mm, InStack(f, b, d, m)
  PROVE  InStack(f, b, dd, mm)
<1>1. /\ f \in FrameType /\ Nested(f) /\ f.next \in Nat /\ f.values \in [1 .. f.next - 1 -> Nat]
      /\ f.locals \in Nat /\ f.locals <= MaxLocals + 1 /\ MaxLocals \in Nat /\ DOMAIN f.scopes = 1 .. Len(f.scopes)
      /\ Len(f.scopes) \in Nat
  BY Basics
<1>2. PICK mark : Marks(f, mark)
  BY DEF GoodText
<1>3. Below(f) \in {2, 3}
  BY DEF Below
<1> SUFFICES ASSUME NEW k \in DOMAIN f.scopes, NEW n \in DOMAIN f.scopes[k].symbols
             PROVE  /\ dd[b + f.scopes[k].symbols[n].off] = f.values[n]
                    /\ IF f.scopes[k].symbols[n].type = "C" THEN f.values[n] \in Instances ELSE f.values[n] <= mm
  BY DEF InStack
<1>4. /\ d[b + f.scopes[k].symbols[n].off] = f.values[n]
      /\ IF f.scopes[k].symbols[n].type = "C" THEN f.values[n] \in Instances ELSE f.values[n] <= m
  BY DEF InStack
<1>5. f.values[n] \in Nat
  BY <1>1 DEF Nested
<1>6. PICK o \in Int : o = f.scopes[k].symbols[n].off
  BY <1>1, ScopeOf
<1>7. o \in 1 .. mark[k] - 1 \/ o \in (0 - Below(f)) .. (0 - 2)
  BY <1>2, <1>6 DEF Marks
<1>8. mark[k] \in 1 .. MaxLocals + 1
  BY <1>1, <1>2 DEF Marks
<1>9. b + o \in b - Below(f) .. b + MaxLocals /\ b + o \notin {b - 1, b}
  <2>1. PICK q \in Int : q = mark[k] /\ q <= MaxLocals + 1
    BY <1>1, <1>8
  <2>2. PICK w \in {2, 3} : w = Below(f)
    BY <1>3
  <2>3. o \in 1 .. q - 1 \/ o \in (0 - w) .. (0 - 2)
    BY <1>7, <2>1, <2>2
  <2>4. b + o \in b - w .. b + MaxLocals /\ b + o \notin {b - 1, b}
    BY <2>1, <2>3, WordOf
  <2>5. QED
    BY <2>2, <2>4
<1>10. dd[b + o] = d[b + o]
  BY <1>9 DEF Untouched
<1>11. QED
  BY <1>4, <1>5, <1>6, <1>10

(* At most the words of the frame at b change. *)
KeptAround(d, dd, b, w) ==
  /\ dd \in Seq(Nat) /\ Len(dd) = Len(d)
  /\ \A x \in 1 .. Len(d) : dd[x] = d[x] \/ x \in b - w .. b - 2 \/ x \in b + 1 .. b + MaxLocals

(* Writing the word of a symbol of a frame writes within that frame.       *)
LEMMA OneWord ==
  ASSUME NEW d \in Seq(Nat), NEW b \in Nat, NEW w \in {2, 3}, b > w, b + MaxLocals <= Len(d),
         NEW o \in Int, o \in 1 .. MaxLocals \/ o \in (0 - w) .. (0 - 2), NEW v \in Nat
  PROVE  KeptAround(d, [d EXCEPT ![b + o] = v], b, w)
<1> DEFINE dd == [d EXCEPT ![b + o] = v]
<1>0. b + o \in 1 .. Len(d)
  BY Constants
<1>1. dd \in Seq(Nat) /\ Len(dd) = Len(d) /\ \A x \in 1 .. Len(d) : x # b + o => dd[x] = d[x]
  BY <1>0, ExceptSeq
<1> HIDE DEF dd
<1>3. b + o \in b - w .. b - 2 \/ b + o \in b + 1 .. b + MaxLocals
  BY Constants
<1>4. \A x \in 1 .. Len(d) : dd[x] = d[x] \/ x \in b - w .. b - 2 \/ x \in b + 1 .. b + MaxLocals
  <2> SUFFICES ASSUME NEW x \in 1 .. Len(d)
               PROVE  dd[x] = d[x] \/ x \in b - w .. b - 2 \/ x \in b + 1 .. b + MaxLocals
    OBVIOUS
  <2>1. CASE x = b + o
    BY <1>3, <2>1
  <2>2. CASE x # b + o
    BY <1>1, <2>2
  <2>3. QED
    BY <2>1, <2>2
<1>5. KeptAround(d, dd, b, w)
  BY <1>1, <1>4 DEF KeptAround
<1>6. QED
  BY <1>5 DEF dd

(* Writing nothing writes within any frame.                                *)
LEMMA NoWord ==
  ASSUME NEW d \in Seq(Nat), NEW b, NEW w
  PROVE  KeptAround(d, d, b, w)
BY DEF KeptAround

(* The words of two frames do not overlap.                                 *)
LEMMA Disjoint ==
  ASSUME NEW b \in Nat, NEW c \in Nat, b # c, NEW v \in {2, 3}, NEW w \in {2, 3}, NEW l \in Nat, NEW n \in Nat,
         b > v, b + l <= n, b < c => b + l < c - w, c < b => c + l < b - v,
         NEW x \in b - v .. b + l
  PROVE  x \in 1 .. n /\ ~(x \in c - w .. c - 2 \/ x \in c + 1 .. c + l)
OBVIOUS

(* Two frames, of which one changes. *)
LEMMA Apart ==
  ASSUME Shape, NEW b \in DOMAIN text, NEW c \in DOMAIN text, b # c,
         NEW dd, KeptAround(data, dd, c, Below(text[c]))
  PROVE  Untouched(data, dd, b, Below(text[b])) /\ dd[b] = data[b] /\ dd[b - 1] = data[b - 1]
<1>1. b \in Nat /\ c \in Nat /\ MaxLocals \in Nat /\ data \in Seq(Nat) /\ Len(data) \in Nat
  BY Constants DEF Shape, Types
<1>2. PICK v \in {2, 3} : v = Below(text[b])
  BY DEF Below
<1>3. PICK w \in {2, 3} : w = Below(text[c])
  BY DEF Below
<1>4. b > v /\ b + MaxLocals <= Len(data) /\ (b < c => b + MaxLocals < c - w) /\ (c < b => c + MaxLocals < b - v)
  BY <1>2, <1>3 DEF Shape, Layout
<1>5. \A x \in 1 .. Len(data) : dd[x] = data[x] \/ x \in c - w .. c - 2 \/ x \in c + 1 .. c + MaxLocals
  BY <1>3 DEF KeptAround
<1>6. \A x \in b - v .. b + MaxLocals : x \in 1 .. Len(data) /\ ~(x \in c - w .. c - 2 \/ x \in c + 1 .. c + MaxLocals)
  <2> SUFFICES ASSUME NEW x \in b - v .. b + MaxLocals
               PROVE  x \in 1 .. Len(data) /\ ~(x \in c - w .. c - 2 \/ x \in c + 1 .. c + MaxLocals)
    OBVIOUS
  <2>1. b > v /\ b + MaxLocals <= Len(data)
    BY <1>4
  <2>2. b < c => b + MaxLocals < c - w
    BY <1>4
  <2>3. c < b => c + MaxLocals < b - v
    BY <1>4
  <2>4. b \in Nat /\ c \in Nat /\ MaxLocals \in Nat /\ Len(data) \in Nat
    BY <1>1
  <2>5. QED
    <3> HIDE DEF KeptAround
    <3>1. b # c /\ v \in {2, 3} /\ w \in {2, 3}
      OBVIOUS
    <3>2. QED
      BY <2>1, <2>2, <2>3, <2>4, <3>1, Disjoint, SMTT(30)
<1>7. \A x \in b - v .. b + MaxLocals : dd[x] = data[x]
  BY <1>5, <1>6
<1>8. b \in b - v .. b + MaxLocals /\ b - 1 \in b - v .. b + MaxLocals
  BY <1>1
<1>9. QED
  BY <1>2, <1>7, <1>8 DEF Untouched

(* A write within one frame leaves every saved base pointer alone.         *)
LEMMA Anchors ==
  ASSUME Shape, NEW c \in DOMAIN text, NEW dd, KeptAround(data, dd, c, Below(text[c])), NEW b \in DOMAIN text
  PROVE  dd[b] = data[b]
<1>1. CASE b # c
  BY <1>1, Apart
<1>2. CASE b = c
  <2>1. c \in Nat /\ MaxLocals \in Nat /\ data \in Seq(Nat) /\ Len(data) \in Nat
    BY Constants DEF Shape, Types
  <2>2. c > Below(text[c]) /\ c + MaxLocals <= Len(data)
    BY DEF Shape, Layout
  <2>3. PICK w \in {2, 3} : w = Below(text[c])
    BY DEF Below
  <2>4. c \in 1 .. Len(data) /\ ~(c \in c - w .. c - 2 \/ c \in c + 1 .. c + MaxLocals)
    BY <2>1, <2>2, <2>3
  <2>5. QED
    BY <1>2, <2>3, <2>4 DEF KeptAround
<1>3. QED
  BY <1>1, <1>2

-----------------------------------------------------------------------------
(* The types of the fields of a native call.                               *)
LEMMA NativeTypes ==
  ASSUME NEW s \in Seq(NativeType), NEW k \in DOMAIN s
  PROVE  /\ k \in 1 .. Len(s) /\ Len(s) \in Nat /\ k \in Nat
         /\ s[k] \in NativeType /\ s[k].bp \in Nat /\ s[k].old \in Nat /\ s[k].ports \in BOOLEAN
         /\ s[k].todo \in Seq(Instances) /\ s[k].top \in Nat /\ s[k].type \in {"T", "H"}
<1>1. k \in 1 .. Len(s) /\ Len(s) \in Nat /\ k \in Nat
  OBVIOUS
<1>2. s[k] \in NativeType
  BY <1>1
<1>3. QED
  BY <1>1, <1>2 DEF NativeType

(* A statement of the running frame, which becomes g. *)
Stays(g) ==
  /\ text' = [text EXCEPT ![bp] = g]
  /\ GoodText(g) /\ InStack(g, bp, data', Len(obj'))
  /\ g.context = F.context /\ g.returns = F.returns /\ g.mutable = F.mutable
  /\ g.scopes[1].kind = "activate" => g.changes = <<>>
  /\ KeptAround(data, data', bp, Below(F))
  /\ ObjectsOK(obj') /\ Len(obj) <= Len(obj')
  /\ heap' \in [Instances -> Nat] /\ count' \in Nat
  /\ UNCHANGED <<bound, phase, bp, list, info, native, acts, ran>>

(* A statement that changes only the running frame, its words and the      *)
(* objects keeps the shape of the stack.                                   *)
LEMMA StaysShape ==
  ASSUME Shape, Running, NEW g, Stays(g)
  PROVE  Shape'
<1>1. /\ native # <<>> /\ Len(native) \in DOMAIN native /\ ~native[Len(native)].ports
      /\ bp = native[Len(native)].bp /\ bp \in DOMAIN text /\ bp \in Nat /\ F = text[bp]
      /\ bp > Below(F) /\ bp + MaxLocals <= Len(data) /\ phase # "done" /\ info \in Instances
  BY Here
<1>2. /\ bound' = bound /\ phase' = phase /\ bp' = bp /\ list' = list /\ info' = info /\ native' = native
      /\ acts' = acts /\ ran' = ran
  BY DEF Stays
<1>3. /\ DOMAIN text' = DOMAIN text /\ text'[bp] = g
      /\ \A b \in DOMAIN text : b # bp => text'[b] = text[b]
  BY <1>1 DEF Stays
<1>4. \A b \in DOMAIN text : /\ text'[b].context = text[b].context /\ text'[b].returns = text[b].returns
                             /\ text'[b].mutable = text[b].mutable /\ Below(text'[b]) = Below(text[b])
  BY <1>1, <1>3 DEF Stays, Below
<1>5. data' \in Seq(Nat) /\ Len(data') = Len(data) /\ Len(obj) <= Len(obj')
      /\ KeptAround(data, data', bp, Below(text[bp]))
  BY <1>1 DEF Stays, KeptAround
<1>6. \A b \in DOMAIN text : data'[b] = data[b]
  BY <1>1, <1>5, Anchors
<1>7. data \in Seq(Nat) /\ Len(data) \in Nat /\ Len(obj) \in Nat /\ Len(obj') \in Nat /\ DOMAIN text \subseteq Nat
  <2>1. data \in Seq(Nat) /\ obj \in Seq(ObjectType) /\ obj' \in Seq(ObjectType) /\ DOMAIN text \subseteq Nat
    BY DEF Stays, Shape, Types, ObjectsOK
  <2>2. QED
    BY <2>1
<1>8. Types'
  <2>1. ObjectsOK(obj')
    BY DEF Stays
  <2>2. ObjectsOK(obj)'
    BY <2>1 DEF ObjectsOK, N
  <2>3. text' \in [DOMAIN text' -> FrameType]
    <3>1. text \in [DOMAIN text -> FrameType] /\ g \in FrameType
      BY DEF Shape, Types, Stays, GoodText
    <3>2. QED
      BY <1>1, <3>1 DEF Stays
  <2>4. QED
    BY <1>2, <1>3, <1>5, <2>2, <2>3 DEF Shape, Types, Stays
<1>9. Frames'
  <2> SUFFICES ASSUME NEW b \in DOMAIN text
               PROVE  GoodText(text'[b]) /\ InStack(text'[b], b, data', Len(obj'))
    BY <1>3 DEF Frames, GoodText, InStack
  <2>1. CASE b = bp
    BY <1>3, <2>1 DEF Stays
  <2>2. CASE b # bp
    <3>1. text'[b] = text[b]
      BY <1>3, <2>2
    <3>2. Untouched(data, data', b, Below(text[b]))
      BY <1>1, <1>5, <2>2, Apart
    <3>3. GoodText(text[b]) /\ InStack(text[b], b, data, Len(obj)) /\ b > Below(text[b]) /\ b + MaxLocals <= Len(data)
      BY DEF Shape, Frames, Layout
    <3>4. InStack(text[b], b, data', Len(obj'))
      BY <1>5, <1>7, <3>2, <3>3, InStackSame
    <3>5. QED
      BY <3>1, <3>3, <3>4
  <2>3. QED
    BY <2>1, <2>2
<1>10. Layout'
  BY <1>3, <1>4, <1>5 DEF Shape, Layout
<1>11. Calls'
  <2>1. Calls
    BY DEF Shape
  <2>2. \A k \in DOMAIN native : native[k].bp \in DOMAIN text
    BY <2>1 DEF Calls
  <2>3. \A k \in DOMAIN native : data'[native[k].bp] = data[native[k].bp]
                              /\ text'[native[k].bp].context = text[native[k].bp].context
    BY <1>4, <1>6, <2>2
  <2>4. QED
    BY <1>2, <1>3, <2>1, <2>3 DEF Calls
<1>12. Quiet'
  <2>1. \A k \in DOMAIN native : native[k].bp = bp => k = Len(native)
    <3>1. \A j, k \in DOMAIN native : j < k => native[j].bp < native[k].bp
      BY DEF Shape, Calls
    <3>2. native \in Seq(NativeType)
      BY DEF Shape, Types
    <3>3. \A k \in DOMAIN native : k \in 1 .. Len(native) /\ native[k].bp \in Nat
      BY <3>2, NativeTypes
    <3>4. QED
      BY <1>1, <3>1, <3>3
  <2>2. \A k \in DOMAIN native : native[k].bp \in DOMAIN text
    BY DEF Shape, Calls
  <2>3. Quiet
    BY DEF Shape
  <2>4. ASSUME NEW k \in DOMAIN native
        PROVE  /\ text'[native[k].bp].scopes[1].kind = "activate" =>
                    native[k].ports \/ text'[native[k].bp].changes = <<>>
               /\ native[k].ports => text'[native[k].bp].scopes[1].kind = "activate"
    <3>1. CASE native[k].bp = bp
      BY <1>1, <1>3, <2>1, <3>1 DEF Stays
    <3>2. CASE native[k].bp # bp
      <4>1. text'[native[k].bp] = text[native[k].bp]
        BY <1>3, <2>2, <3>2
      <4>2. QED
        BY <2>3, <4>1 DEF Quiet
    <3>3. QED
      BY <3>1, <3>2
  <2>5. ASSUME NEW b \in DOMAIN text, \A k \in DOMAIN native : native[k].bp # b
        PROVE  text'[b].changes = <<>>
    <3>1. b # bp
      BY <1>1, <2>5
    <3>2. QED
      BY <1>3, <2>3, <2>5, <3>1 DEF Quiet
  <2>6. QED
    BY <1>2, <1>3, <2>4, <2>5 DEF Quiet
<1>13. Deferred'
  <2>1. Left' = Left
    BY <1>2 DEF Left
  <2>2. Deferred
    BY DEF Shape
  <2>3. \A k \in 1 .. Left : acts[k] \in DOMAIN text
    BY <2>2 DEF Deferred
  <2>4. \A k \in 1 .. Left : data'[acts[k]] = data[acts[k]] /\ text'[acts[k]].context = text[acts[k]].context
    BY <1>4, <1>6, <2>3
  <2>5. \A b \in DOMAIN text : text'[b].mutable <=> \E k \in 1 .. Left : acts[k] = b
    BY <1>4, <2>2 DEF Deferred
  <2>6. \A k \in 1 .. Left : /\ data'[acts[k]] = (IF k = 1 THEN 0 ELSE acts[k - 1])
                             /\ text'[acts[k]].context \in {"action", "reaction"}
    BY <2>2, <2>4 DEF Deferred
  <2>7. DOMAIN text' = {native'[k].bp : k \in DOMAIN native'} \cup {acts'[k] : k \in 1 .. Left'}
    BY <1>2, <1>3, <2>1, <2>2 DEF Deferred
  <2>8. QED
    BY <1>2, <1>3, <2>1, <2>2, <2>5, <2>6, <2>7 DEF Deferred
<1>14. Phases'
  <2>1. Left' = Left
    BY <1>2 DEF Left
  <2>2. Phases /\ \A k \in DOMAIN native : native[k].bp \in DOMAIN text
    BY DEF Shape, Calls
  <2>3. phase = "immutable" => text'[3].context = text[3].context
    <3>1. native \in Seq(NativeType)
      BY DEF Shape, Types
    <3>2. 1 \in DOMAIN native
      BY <1>1, <3>1
    <3>3. QED
      BY <1>4, <2>2, <3>2 DEF Phases
  <2>4. \A k \in DOMAIN native : text'[native[k].bp].mutable = text[native[k].bp].mutable
    BY <1>4, <2>2
  <2>5. phase = "immutable" => /\ text'[3].context = "action"
                               /\ \A k \in DOMAIN native : text'[native[k].bp].mutable => native[k].ports
    BY <2>2, <2>3, <2>4 DEF Phases
  <2>6. QED
    BY <1>1, <1>2, <2>1, <2>2, <2>5 DEF Phases
<1>15. Arguments'
  <2> SUFFICES ASSUME NEW k \in DOMAIN native, native[k].ports, native[k].todo # <<>>
               PROVE  /\ native[k].top \in 1 .. Len(data') /\ data'[native[k].top] <= Len(obj')
                      /\ native[k].bp + MaxLocals < native[k].top
                      /\ \A j \in DOMAIN native : j > k =>
                           native[k].top < native[j].bp - Below(text'[native[j].bp])
    BY <1>2 DEF Arguments
  <2>1. /\ native[k].top \in 1 .. Len(data) /\ data[native[k].top] <= Len(obj)
        /\ native[k].bp + MaxLocals < native[k].top
        /\ \A j \in DOMAIN native : j > k => native[k].top < native[j].bp - Below(text[native[j].bp])
    BY DEF Shape, Arguments
  <2>2. Len(native) > k
    <3>1. native \in Seq(NativeType)
      BY DEF Shape, Types
    <3>2. k \in 1 .. Len(native) /\ Len(native) \in Nat
      BY <3>1
    <3>3. QED
      BY <1>1, <3>2
  <2>3. native[k].top < bp - Below(text[bp])
    BY <1>1, <2>1, <2>2
  <2>4. data'[native[k].top] = data[native[k].top]
    <3>1. PICK w \in {2, 3} : w = Below(text[bp])
      BY DEF Below
    <3>2. PICK t \in 1 .. Len(data) : t = native[k].top /\ t < bp - w
      BY <2>1, <2>3, <3>1
    <3>3. data'[t] = data[t] \/ t \in bp - w .. bp - 2 \/ t \in bp + 1 .. bp + MaxLocals
      BY <1>5, <3>1 DEF KeptAround
    <3>4. QED
      BY <1>1, <3>2, <3>3, Constants
  <2>5. \A j \in DOMAIN native : Below(text'[native[j].bp]) = Below(text[native[j].bp])
    BY <1>4 DEF Shape, Calls
  <2>6. data[native[k].top] \in Nat
    BY <1>7, <2>1
  <2>7. QED
    BY <1>5, <1>7, <2>1, <2>4, <2>5, <2>6
<1>16. QED
  BY <1>8, <1>9, <1>10, <1>11, <1>12, <1>13, <1>14, <1>15 DEF Shape

(* Appending to a sequence keeps its head; the head of a sequence of one   *)
(* is its element.                                                         *)
LEMMA AppendHead ==
  ASSUME NEW c \in Seq(Nat), NEW x \in Nat
  PROVE  /\ Append(c, x) # <<>> /\ Append(c, x) \in Seq(Nat) /\ Len(Append(c, x)) = Len(c) + 1
         /\ c = <<>> => Head(Append(c, x)) = x
         /\ c # <<>> => Head(Append(c, x)) = Head(c)
<1> DEFINE s == Append(c, x)
<1>1. s \in Seq(Nat) /\ Len(s) = Len(c) + 1 /\ Len(c) \in Nat
  OBVIOUS
<1>2. s[Len(c) + 1] = x /\ \A i \in 1 .. Len(c) : s[i] = c[i]
  OBVIOUS
<1>3. s # <<>>
  <2>1. Len(s) # 0
    BY <1>1
  <2>2. QED
    BY <1>1, <2>1, EmptySeq
<1>4. c = <<>> => Len(c) = 0
  OBVIOUS
<1>5. c # <<>> => 1 \in 1 .. Len(c)
  OBVIOUS
<1> HIDE DEF s
<1>6. Head(s) = s[1] /\ Head(c) = c[1]
  BY <1>3
<1>7. (c = <<>> => Head(s) = x) /\ (c # <<>> => Head(s) = Head(c))
  BY <1>2, <1>4, <1>5, <1>6
<1>8. QED
  BY <1>1, <1>3, <1>7 DEF s

(* The first n elements of a sequence.                                     *)
LEMMA PrefixFacts ==
  ASSUME NEW S, NEW s \in Seq(S), NEW n \in Int, 0 <= n, n <= Len(s)
  PROVE  /\ SubSeq(s, 1, n) \in Seq(S) /\ Len(SubSeq(s, 1, n)) = n
         /\ \A i \in 1 .. n : SubSeq(s, 1, n)[i] = s[i]
<1>1. Len(s) \in Nat /\ \A i \in 1 .. n : s[i] \in S
  OBVIOUS
<1> DEFINE r == SubSeq(s, 1, n)
<1>2. /\ r \in Seq(S) /\ Len(r) = (IF 1 <= n THEN n - 1 + 1 ELSE 0)
      /\ \A i \in 1 .. n - 1 + 1 : r[i] = s[1 + i - 1]
  BY <1>1, SubSeqProperties
<1> HIDE DEF r
<1>3. Len(r) = n /\ \A i \in 1 .. n : r[i] = s[i]
  BY <1>2
<1>4. QED
  BY <1>2, <1>3 DEF r

(* Removing the last of several elements keeps the head.                   *)
LEMMA FrontHead ==
  ASSUME NEW c \in Seq(Nat), c # <<>>
  PROVE  /\ Front(c) \in Seq(Nat) /\ Len(c) \in Nat /\ Len(c) >= 1 /\ Len(Front(c)) = Len(c) - 1
         /\ \A i \in 1 .. Len(c) - 1 : Front(c)[i] = c[i]
         /\ Last(c) \in Nat
         /\ Front(c) = <<>> => Last(c) = Head(c)
         /\ Front(c) # <<>> => Head(Front(c)) = Head(c)
<1> DEFINE s == Front(c)
<1>1. Len(c) \in Nat /\ Len(c) >= 1
  OBVIOUS
<1>2. s \in Seq(Nat) /\ Len(s) = Len(c) - 1 /\ \A i \in 1 .. Len(c) - 1 : s[i] = c[i]
  <2>1. Len(c) - 1 \in Int /\ 0 <= Len(c) - 1 /\ Len(c) - 1 <= Len(c)
    BY <1>1
  <2>2. s = SubSeq(c, 1, Len(c) - 1)
    BY DEF Front
  <2>3. QED
    BY <2>1, <2>2, PrefixFacts, ZenonT(30)
<1> HIDE DEF s
<1>3. s = <<>> => Len(c) = 1
  BY <1>1, <1>2, EmptySeq
<1>4. s # <<>> => 1 \in 1 .. Len(c) - 1
  <2>1. s # <<>> => Len(s) # 0
    BY <1>2, EmptySeq
  <2>2. QED
    BY <1>1, <1>2, <2>1
<1>5. Head(s) = s[1] /\ Head(c) = c[1] /\ Last(c) = c[Len(c)]
  BY DEF Last
<1>6. Last(c) \in Nat
  BY <1>1, <1>5
<1>7. QED
  BY <1>1, <1>2, <1>3, <1>4, <1>5, <1>6 DEF s

(* A statement changes the saved heaps of the running frame only.          *)
LEMMA SavedThere ==
  ASSUME Shape, Running, NEW g, Stays(g), NEW k \in DOMAIN native
  PROVE  /\ native' = native /\ Inst(k)' = Inst(k) /\ (k # Len(native) => Saved(k)' = Saved(k))
         /\ Saved(Len(native))' = g.changes /\ Saved(Len(native)) = F.changes /\ Inst(Len(native)) = info
<1>1. /\ Len(native) \in DOMAIN native /\ bp = native[Len(native)].bp /\ bp \in DOMAIN text /\ F = text[bp]
  BY Here
<1>2. /\ DOMAIN text' = DOMAIN text /\ text'[bp] = g
      /\ \A b \in DOMAIN text : b # bp => text'[b] = text[b]
  BY <1>1 DEF Stays
<1>3. native' = native /\ info' = info
  BY DEF Stays
<1>4. k # Len(native) => native[k].bp # bp /\ native[k].bp \in DOMAIN text
  <2>1. native \in Seq(NativeType)
    BY DEF Shape, Types
  <2>2. \A j, i \in DOMAIN native : j < i => native[j].bp < native[i].bp
    BY DEF Shape, Calls
  <2>3. k \in 1 .. Len(native) /\ native[k].bp \in Nat /\ Len(native) \in Nat
    BY <2>1, NativeTypes
  <2>4. native[k].bp \in DOMAIN text
    BY DEF Shape, Calls
  <2>5. QED
    BY <1>1, <2>2, <2>3, <2>4
<1>5. QED
  BY <1>1, <1>2, <1>3, <1>4 DEF Inst, Saved

(* A statement that neither opens nor closes a change statement keeps the  *)
(* heaps restorable.                                                       *)
LEMMA HeapsSame ==
  ASSUME IInv, Running, NEW g, Stays(g), heap' = heap, g.changes = F.changes
  PROVE  Heaps'
<1>1. Shape /\ Heaps
  BY DEF IInv
<1>2. native' = native
  BY DEF Stays
<1>3. \A k \in DOMAIN native : Inst(k)' = Inst(k) /\ Saved(k)' = Saved(k)
  BY <1>1, SavedThere
<1>4. QED
  BY <1>1, <1>2, <1>3 DEF Heaps

(* Change pushes the heap it replaces: the component's own heap stays the  *)
(* oldest one saved.                                                       *)
LEMMA HeapsChange ==
  ASSUME IInv, Running, NEW g, Stays(g), NEW v \in Nat, heap' = [heap EXCEPT ![info] = v],
         g.changes = Append(F.changes, heap[info])
  PROVE  Heaps'
<1>1. Shape /\ Heaps /\ heap \in [Instances -> Nat]
  BY DEF IInv, Shape, Types
<1>2. native' = native
  BY DEF Stays
<1>20. PICK t : t = Len(native)
  OBVIOUS
<1>3. t \in DOMAIN native /\ info \in Instances /\ F.changes \in Seq(Nat) /\ DOMAIN native = 1 .. t /\ t \in Nat
  <2>1. t \in DOMAIN native /\ info \in Instances /\ GoodText(F) /\ t \in Nat
    BY <1>1, <1>20, Here
  <2>2. native \in Seq(NativeType)
    BY <1>1 DEF Shape, Types
  <2>3. QED
    BY <1>20, <2>1, <2>2, Basics
<1>4. \A k \in DOMAIN native : Inst(k)' = Inst(k) /\ (k # t => Saved(k)' = Saved(k))
  BY <1>1, <1>20, SavedThere
<1>5. Saved(t)' = Append(F.changes, heap[info]) /\ Saved(t) = F.changes /\ Inst(t) = info
  BY <1>1, <1>2, <1>3, <1>20, SavedThere
<1>6. Saved(t)' # <<>> /\ (F.changes = <<>> => Head(Saved(t)') = heap[info])
      /\ (F.changes # <<>> => Head(Saved(t)') = Head(F.changes))
  <2>1. heap[info] \in Nat
    BY <1>1, <1>3
  <2>2. PICK c \in Seq(Nat), x \in Nat : c = F.changes /\ x = heap[info]
    BY <1>3, <2>1
  <2>3. Append(c, x) # <<>> /\ (c = <<>> => Head(Append(c, x)) = x) /\ (c # <<>> => Head(Append(c, x)) = Head(c))
    BY AppendHead
  <2>4. QED
    BY <1>5, <2>2, <2>3
<1> SUFFICES ASSUME NEW i \in Instances
             PROVE  \/ heap'[i] = i /\ \A k \in DOMAIN native : Inst(k)' = i => Saved(k)' = <<>>
                    \/ \E k \in DOMAIN native :
                         /\ Inst(k)' = i /\ Saved(k)' # <<>> /\ Head(Saved(k)') = i
                         /\ \A j \in DOMAIN native : j < k /\ Inst(j)' = i => Saved(j)' = <<>>
  BY <1>2 DEF Heaps
<1>7. \/ heap[i] = i /\ \A k \in DOMAIN native : Inst(k) = i => Saved(k) = <<>>
      \/ \E k \in DOMAIN native : /\ Inst(k) = i /\ Saved(k) # <<>> /\ Head(Saved(k)) = i
                                  /\ \A j \in DOMAIN native : j < k /\ Inst(j) = i => Saved(j) = <<>>
  BY <1>1 DEF Heaps
<1>8. CASE heap[i] = i /\ \A k \in DOMAIN native : Inst(k) = i => Saved(k) = <<>>
  <2>1. CASE i = info
    <3>1. Saved(t) = <<>>
      BY <1>3, <1>5, <1>8, <2>1
    <3>2. Inst(t)' = i /\ Saved(t)' # <<>> /\ Head(Saved(t)') = i
      BY <1>3, <1>4, <1>5, <1>6, <1>8, <2>1, <3>1
    <3>3. \A j \in DOMAIN native : j < t /\ Inst(j)' = i => Saved(j)' = <<>>
      BY <1>3, <1>4, <1>8
    <3>4. QED
      BY <1>3, <3>2, <3>3
  <2>2. CASE i # info
    <3>1. heap'[i] = i
      BY <1>1, <1>8, <2>2
    <3>2. \A k \in DOMAIN native : Inst(k)' = i => Saved(k)' = <<>>
      BY <1>4, <1>5, <1>8, <2>2
    <3>3. QED
      BY <3>1, <3>2
  <2>3. QED
    BY <2>1, <2>2
<1>9. ASSUME NEW k \in DOMAIN native, Inst(k) = i, Saved(k) # <<>>, Head(Saved(k)) = i,
             \A j \in DOMAIN native : j < k /\ Inst(j) = i => Saved(j) = <<>>
      PROVE  \E n \in DOMAIN native :
               /\ Inst(n)' = i /\ Saved(n)' # <<>> /\ Head(Saved(n)') = i
               /\ \A j \in DOMAIN native : j < n /\ Inst(j)' = i => Saved(j)' = <<>>
  <2>1. Inst(k)' = i /\ Saved(k)' # <<>> /\ Head(Saved(k)') = i
    BY <1>4, <1>5, <1>6, <1>9
  <2>2. \A j \in DOMAIN native : j < k /\ Inst(j)' = i => Saved(j)' = <<>>
    <3> SUFFICES ASSUME NEW j \in DOMAIN native, j < k, Inst(j)' = i
                 PROVE  Saved(j)' = <<>>
      OBVIOUS
    <3>1. j # t
      BY <1>3
    <3>2. QED
      BY <1>4, <1>9, <3>1
  <2>3. QED
    BY <2>1, <2>2
<1>10. QED
  BY <1>7, <1>8, <1>9

(* The end of a change statement restores the heap saved last.             *)
LEMMA HeapsEndChange ==
  ASSUME IInv, Running, NEW g, Stays(g), F.changes # <<>>,
         heap' = [heap EXCEPT ![info] = Last(F.changes)], g.changes = Front(F.changes)
  PROVE  Heaps'
<1>1. Shape /\ Heaps /\ heap \in [Instances -> Nat]
  BY DEF IInv, Shape, Types
<1>2. native' = native
  BY DEF Stays
<1>20. PICK t : t = Len(native)
  OBVIOUS
<1>3. t \in DOMAIN native /\ info \in Instances /\ F.changes \in Seq(Nat) /\ DOMAIN native = 1 .. t /\ t \in Nat
  <2>1. t \in DOMAIN native /\ info \in Instances /\ GoodText(F) /\ t \in Nat
    BY <1>1, <1>20, Here
  <2>2. native \in Seq(NativeType)
    BY <1>1 DEF Shape, Types
  <2>3. QED
    BY <1>20, <2>1, <2>2, Basics
<1>4. \A k \in DOMAIN native : Inst(k)' = Inst(k) /\ (k # t => Saved(k)' = Saved(k))
  BY <1>1, <1>20, SavedThere
<1>5. Saved(t)' = Front(F.changes) /\ Saved(t) = F.changes /\ Inst(t) = info
  BY <1>1, <1>2, <1>3, <1>20, SavedThere
<1>6. /\ Front(F.changes) = <<>> => Last(F.changes) = Head(F.changes)
      /\ Front(F.changes) # <<>> => Head(Front(F.changes)) = Head(F.changes)
  <2>1. PICK c \in Seq(Nat) : c = F.changes /\ c # <<>>
    BY <1>3
  <2>2. /\ Front(c) = <<>> => Last(c) = Head(c)
        /\ Front(c) # <<>> => Head(Front(c)) = Head(c)
    BY <2>1, FrontHead
  <2>3. QED
    BY <2>1, <2>2
<1> SUFFICES ASSUME NEW i \in Instances
             PROVE  \/ heap'[i] = i /\ \A k \in DOMAIN native : Inst(k)' = i => Saved(k)' = <<>>
                    \/ \E k \in DOMAIN native :
                         /\ Inst(k)' = i /\ Saved(k)' # <<>> /\ Head(Saved(k)') = i
                         /\ \A j \in DOMAIN native : j < k /\ Inst(j)' = i => Saved(j)' = <<>>
  BY <1>2 DEF Heaps
<1>7. \/ heap[i] = i /\ \A k \in DOMAIN native : Inst(k) = i => Saved(k) = <<>>
      \/ \E k \in DOMAIN native : /\ Inst(k) = i /\ Saved(k) # <<>> /\ Head(Saved(k)) = i
                                  /\ \A j \in DOMAIN native : j < k /\ Inst(j) = i => Saved(j) = <<>>
  BY <1>1 DEF Heaps
<1>8. CASE heap[i] = i /\ \A k \in DOMAIN native : Inst(k) = i => Saved(k) = <<>>
  <2>1. i # info
    BY <1>3, <1>5, <1>8
  <2>2. heap'[i] = i
    BY <1>1, <1>8, <2>1
  <2>3. \A k \in DOMAIN native : Inst(k)' = i => Saved(k)' = <<>>
    BY <1>4, <1>5, <1>8, <2>1
  <2>4. QED
    BY <2>2, <2>3
<1>9. ASSUME NEW k \in DOMAIN native, Inst(k) = i, Saved(k) # <<>>, Head(Saved(k)) = i,
             \A j \in DOMAIN native : j < k /\ Inst(j) = i => Saved(j) = <<>>
      PROVE  \/ heap'[i] = i /\ \A n \in DOMAIN native : Inst(n)' = i => Saved(n)' = <<>>
             \/ \E n \in DOMAIN native :
               /\ Inst(n)' = i /\ Saved(n)' # <<>> /\ Head(Saved(n)') = i
               /\ \A j \in DOMAIN native : j < n /\ Inst(j)' = i => Saved(j)' = <<>>
  <2>1. \A j \in DOMAIN native : j < k /\ Inst(j)' = i => Saved(j)' = <<>>
    <3> SUFFICES ASSUME NEW j \in DOMAIN native, j < k, Inst(j)' = i
                 PROVE  Saved(j)' = <<>>
      OBVIOUS
    <3>1. j # t
      BY <1>3
    <3>2. QED
      BY <1>4, <1>9, <3>1
  <2>2. CASE k # t
    <3>1. Inst(k)' = i /\ Saved(k)' # <<>> /\ Head(Saved(k)') = i
      BY <1>4, <1>9, <2>2
    <3>2. QED
      BY <2>1, <3>1
  <2>3. CASE k = t /\ Front(F.changes) # <<>>
    <3>1. Inst(k)' = i /\ Saved(k)' # <<>> /\ Head(Saved(k)') = i
      BY <1>4, <1>5, <1>6, <1>9, <2>3
    <3>2. QED
      BY <2>1, <3>1
  <2>4. CASE k = t /\ Front(F.changes) = <<>>
    <3>1. heap'[i] = i
      BY <1>1, <1>5, <1>6, <1>9, <2>4
    <3>2. \A n \in DOMAIN native : n = t \/ n < t
      BY <1>3
    <3>3. \A n \in DOMAIN native : Inst(n)' = i => Saved(n)' = <<>>
      BY <1>5, <2>1, <2>4, <3>2
    <3>4. QED
      BY <3>1, <3>3
  <2>5. QED
    BY <2>2, <2>3, <2>4
<1>10. QED
  BY <1>7, <1>8, <1>9

(* A statement that neither opens nor closes a change statement keeps the  *)
(* invariant if its frame stays well-formed and laid out.                  *)
LEMMA Stay ==
  ASSUME IInv, Running, NEW g, Stays(g), heap' = heap, g.changes = F.changes
  PROVE  IInv'
BY StaysShape, HeapsSame DEF IInv

(* In the frame that runs, an activation saved no heaps. *)
LEMMA QuietHere ==
  ASSUME Shape, Running
  PROVE  F.scopes[1].kind = "activate" => F.changes = <<>>
<1>1. /\ Len(native) \in DOMAIN native /\ ~native[Len(native)].ports
      /\ bp = native[Len(native)].bp /\ F = text[bp]
  BY Here
<1>2. Quiet
  BY DEF Shape
<1>3. QED
  BY <1>1, <1>2 DEF Quiet

(* The running frame, or what becomes of it, with a new variable. *)
Enters(h, s, v) ==
  /\ GoodText(h) /\ InStack(h, bp, data, Len(obj))
  /\ h.context = F.context /\ h.returns = F.returns /\ h.mutable = F.mutable /\ h.locals = F.locals
  /\ h.scopes[1].kind = "activate" => h.changes = <<>>
  /\ s \in Symbol /\ s.kind = "Variable" /\ s.off = F.locals /\ F.locals <= MaxLocals
  /\ v \in Nat /\ IF s.type = "C" THEN v \in Instances ELSE v <= Len(obj')
  /\ ObjectsOK(obj') /\ Len(obj) <= Len(obj')
  /\ heap' \in [Instances -> Nat] /\ count' \in Nat
  /\ text' = [text EXCEPT ![bp] = Entered(h, s, v)]
  /\ data' = [data EXCEPT ![bp + F.locals] = v]
  /\ UNCHANGED <<bound, phase, bp, list, info, native, acts, ran>>

(* A statement that enters a variable keeps the invariant.                 *)
LEMMA EnterStep ==
  ASSUME Shape, Running, NEW h, NEW s, NEW v, Enters(h, s, v)
  PROVE  Stays(Entered(h, s, v)) /\ Entered(h, s, v).changes = h.changes
<1> USE DEF Enters
<1>1. /\ bp \in Nat /\ bp > Below(F) /\ bp + MaxLocals <= Len(data) /\ GoodText(F) /\ Below(F) \in {2, 3}
  BY Here
<1>2. F.locals \in Nat /\ F.locals >= 1 /\ MaxLocals \in Nat
  BY <1>1, Basics
<1>3. data \in Seq(Nat) /\ Len(obj) \in Nat /\ Len(obj') \in Nat
  <2>1. data \in Seq(Nat) /\ obj \in Seq(ObjectType) /\ obj' \in Seq(ObjectType)
    BY DEF Shape, Types, ObjectsOK
  <2>2. QED
    BY <2>1
<1>4. s \in Symbol /\ v \in Nat /\ h \in FrameType /\ Nested(h)
  BY Basics
<1> DEFINE g == Entered(h, s, v)
<1>5. /\ g.context = h.context /\ g.returns = h.returns /\ g.mutable = h.mutable
      /\ g.changes = h.changes /\ g.scopes[1].kind = h.scopes[1].kind
  BY <1>4, EnteredFields
<1>6. GoodText(g)
  BY <1>4, EnteredGood
<1>7. Below(h) = Below(F)
  BY DEF Below
<1>8. InStack(g, bp, data', Len(obj'))
  <2>1. InStack(g, bp, [data EXCEPT ![bp + h.locals] = v], Len(obj'))
    BY <1>1, <1>3, <1>4, <1>7, EnteredWords
  <2>2. QED
    BY <2>1
<1>9. KeptAround(data, data', bp, Below(F))
  <2>1. F.locals \in Int /\ F.locals \in 1 .. MaxLocals
    BY <1>2
  <2>2. KeptAround(data, [data EXCEPT ![bp + F.locals] = v], bp, Below(F))
    BY <1>1, <1>3, <1>4, <2>1, OneWord
  <2>3. QED
    BY <2>2
<1> HIDE DEF g
<1>10. text' = [text EXCEPT ![bp] = g]
  BY DEF g
<1>11. Stays(g)
  BY <1>5, <1>6, <1>8, <1>9, <1>10 DEF Stays
<1>12. QED
  BY <1>5, <1>11 DEF g

(* The running frame is well-formed and laid out.                          *)
LEMMA HereToo ==
  ASSUME Shape, Running
  PROVE  /\ GoodText(F) /\ InStack(F, bp, data, Len(obj)) /\ F = text[bp] /\ bp \in DOMAIN text
         /\ F.scopes[1].kind = "activate" => F.changes = <<>>
         /\ F.locals \in Nat /\ Len(obj) \in Nat /\ ObjectsOK(obj) /\ data \in Seq(Nat)
         /\ heap \in [Instances -> Nat] /\ count \in Nat /\ info \in Instances
<1>1. GoodText(F) /\ InStack(F, bp, data, Len(obj)) /\ F = text[bp] /\ info \in Instances /\ bp \in DOMAIN text
  BY Here
<1>2. ObjectsOK(obj) /\ data \in Seq(Nat) /\ heap \in [Instances -> Nat] /\ count \in Nat
  BY DEF Shape, Types
<1>3. Len(obj) \in Nat
  <2>1. obj \in Seq(ObjectType)
    BY <1>2 DEF ObjectsOK
  <2>2. QED
    BY <2>1
<1>4. QED
  BY <1>1, <1>2, <1>3, QuietHere, Basics

(* A declaration makes a symbol.                                           *)
LEMMA NewSymbol ==
  ASSUME NEW t \in {"C", "T", "H"}, NEW m \in Mutability, NEW k \in Mutability, NEW o \in Int
  PROVE  LET s == Sym("Variable", t, k, m, o)
         IN  s \in Symbol /\ s.kind = "Variable" /\ s.off = o /\ s.type = t
BY DEF Sym, Symbol, Kind

(* var x T keeps the invariant.                                            *)
LEMMA VarStep ==
  ASSUME IInv, Running, NEW type \in {"T", "H"}, NEW indirection \in Mutability, Var(type, indirection)
  PROVE  IInv'
<1> USE DEF IInv
<1> DEFINE s == Sym("Variable", type, Mutable, indirection, F.locals)
<1>1. /\ GoodText(F) /\ InStack(F, bp, data, Len(obj)) /\ F = text[bp] /\ bp \in DOMAIN text
      /\ F.scopes[1].kind = "activate" => F.changes = <<>>
      /\ F.locals \in Nat /\ Len(obj) \in Nat /\ ObjectsOK(obj)
      /\ heap \in [Instances -> Nat] /\ count \in Nat
  BY HereToo
<1>2. s \in Symbol /\ s.kind = "Variable" /\ s.off = F.locals /\ s.type = type
  <2>1. F.locals \in Int /\ Mutable \in Mutability
    BY <1>1 DEF Mutability
  <2>2. QED
    BY <2>1, NewSymbol
<1> HIDE DEF s
<1>3. F.locals <= MaxLocals /\ text' = [text EXCEPT ![bp] = Entered(F, s, 0)]
  BY <1>1 DEF Var, Enter, s
<1>4. /\ data' = [data EXCEPT ![bp + F.locals] = 0] /\ count' = count + 1 /\ obj' = obj /\ heap' = heap
      /\ UNCHANGED <<bound, phase, bp, list, info, native, acts, ran>>
  BY DEF Var, Take
<1>5. Enters(F, s, 0)
  BY <1>1, <1>2, <1>3, <1>4 DEF Enters
<1>6. Stays(Entered(F, s, 0)) /\ Entered(F, s, 0).changes = F.changes
  BY <1>5, EnterStep
<1>7. QED
  BY <1>4, <1>6, Stay

(* var x T = e keeps the invariant.                                        *)
LEMMA VarInitStep ==
  ASSUME IInv, Running, NEW e, GoodPlace(e), VarInit(e)
  PROVE  IInv'
<1> USE DEF IInv
<1> DEFINE s == Sym("Variable", e.type, Mutable, Least(InitializerAllowed, e), F.locals)
<1>1. /\ GoodText(F) /\ InStack(F, bp, data, Len(obj)) /\ F = text[bp] /\ bp \in DOMAIN text
      /\ F.scopes[1].kind = "activate" => F.changes = <<>>
      /\ F.locals \in Nat /\ Len(obj) \in Nat /\ ObjectsOK(obj)
      /\ heap \in [Instances -> Nat] /\ count \in Nat /\ info \in Instances
  BY HereToo
<1>2. s \in Symbol /\ s.kind = "Variable" /\ s.off = F.locals /\ s.type = e.type
  <2>1. F.locals \in Int /\ Mutable \in Mutability /\ e.ind \in Mutability /\ e.type \in {"C", "T", "H"}
    BY <1>1 DEF Mutability, GoodPlace
  <2>2. Least(InitializerAllowed, e) \in Mutability
    BY <2>1, LeastType
  <2>3. QED
    BY <2>1, <2>2, NewSymbol
<1> HIDE DEF s
<1>3. F.locals <= MaxLocals /\ text' = [text EXCEPT ![bp] = Entered(F, s, e.val)]
  BY <1>1 DEF VarInit, Enter, s
<1>4. /\ data' = [data EXCEPT ![bp + F.locals] = e.val] /\ count' = count + 1 /\ obj' = Allocated(e) /\ heap' = heap
      /\ UNCHANGED <<bound, phase, bp, list, info, native, acts, ran>>
  BY DEF VarInit, Take
<1>5. ObjectsOK(obj') /\ Len(obj) <= Len(obj')
  BY <1>1, <1>4, Allocation
<1>6. e.val \in Nat /\ IF s.type = "C" THEN e.val \in Instances ELSE e.val <= Len(obj')
  BY <1>2, <1>4 DEF GoodPlace
<1>7. Enters(F, s, e.val)
  BY <1>1, <1>2, <1>3, <1>4, <1>5, <1>6 DEF Enters
<1>8. Stays(Entered(F, s, e.val)) /\ Entered(F, s, e.val).changes = F.changes
  BY <1>7, EnterStep
<1>9. QED
  BY <1>4, <1>8, Stay

(* A link leads to an object, if to any.                                   *)
LEMMA RootGood ==
  ASSUME Shape, Running, NEW e, GoodPlace(e), e.type = "H"
  PROVE  /\ Root(e) \in Nat /\ Root(e) <= Len(Allocated(e))
         /\ Root(e) # 0 => e.val \in DOMAIN Allocated(e)
<1>1. info \in Instances
  BY Here
<1>2. ObjectsOK(Allocated(e)) /\ Len(Allocated(e)) \in Nat
  BY <1>1, Allocation
<1>3. PICK o, v : o = Allocated(e) /\ v = e.val
  OBVIOUS
<1>4. o \in Seq(ObjectType) /\ (\A i \in DOMAIN o : o[i].p <= Len(o)) /\ Len(o) \in Nat
  BY <1>2, <1>3 DEF ObjectsOK
<1>5. v \in Nat /\ v <= Len(o)
  BY <1>3 DEF GoodPlace
<1>6. Root(e) = IF v = 0 THEN 0 ELSE o[v].p
  BY <1>3 DEF Root
<1>7. CASE v = 0
  BY <1>3, <1>4, <1>6, <1>7
<1>8. CASE v # 0
  <2>1. v \in DOMAIN o
    BY <1>4, <1>5, <1>8
  <2>2. o[v] \in ObjectType /\ o[v].p <= Len(o)
    BY <1>4, <2>1
  <2>3. o[v].p \in Nat
    BY <2>2 DEF ObjectType
  <2>4. QED
    BY <1>3, <1>6, <1>8, <2>1, <2>2, <2>3
<1>9. QED
  BY <1>7, <1>8

(* The result of move or merge in a new variable keeps the invariant.      *)
LEMMA ResultStep ==
  ASSUME IInv, Running, NEW type \in {"T", "H"}, NEW v \in Nat, v <= Len(obj'), ObjectsOK(obj'),
         Len(obj) <= Len(obj'), count' \in Nat, Result(type, v)
  PROVE  IInv'
<1> USE DEF IInv
<1> DEFINE s == Sym("Variable", type, Mutable, Mutable, F.locals)
<1>1. /\ GoodText(F) /\ InStack(F, bp, data, Len(obj)) /\ F = text[bp] /\ bp \in DOMAIN text
      /\ F.scopes[1].kind = "activate" => F.changes = <<>>
      /\ F.locals \in Nat /\ heap \in [Instances -> Nat]
  BY HereToo
<1>2. s \in Symbol /\ s.kind = "Variable" /\ s.off = F.locals /\ s.type = type
  <2>1. F.locals \in Int /\ Mutable \in Mutability
    BY <1>1 DEF Mutability
  <2>2. QED
    BY <2>1, NewSymbol
<1> HIDE DEF s
<1>3. F.locals <= MaxLocals /\ text' = [text EXCEPT ![bp] = Entered(F, s, v)]
  BY <1>1 DEF Result, Enter, s
<1>4. /\ data' = [data EXCEPT ![bp + F.locals] = v] /\ heap' = heap
      /\ UNCHANGED <<bound, phase, bp, list, info, native, acts, ran>>
  BY DEF Result
<1>5. Enters(F, s, v)
  BY <1>1, <1>2, <1>3, <1>4 DEF Enters
<1>6. Stays(Entered(F, s, v)) /\ Entered(F, s, v).changes = F.changes
  BY <1>5, EnterStep
<1>7. QED
  BY <1>4, <1>6, Stay

(* A place is a symbol or a field of an object.                            *)
LEMMA PlaceKind ==
  ASSUME Shape, Running, NEW l \in Places
  PROVE  GoodPlace(l) /\ l.kind \in {"symbol", "p", "h"}
<1>1. GoodPlace(l)
  BY PlacesGood
<1>2. CASE l \in Identifiers
  BY <1>1, <1>2, IdentifierFacts
<1>3. CASE l \in Selections
  BY <1>1, <1>3 DEF Selections, Place
<1>4. QED
  BY <1>2, <1>3 DEF Places

(* Assigning a field keeps the table of objects in order.                  *)
LEMMA FieldSet ==
  ASSUME NEW o, ObjectsOK(o), NEW i \in DOMAIN o, NEW v \in Nat, v <= Len(o)
  PROVE  /\ ObjectsOK([o EXCEPT ![i] = [@ EXCEPT !.p = v]]) /\ Len([o EXCEPT ![i] = [@ EXCEPT !.p = v]]) = Len(o)
         /\ ObjectsOK([o EXCEPT ![i] = [@ EXCEPT !.h = v]]) /\ Len([o EXCEPT ![i] = [@ EXCEPT !.h = v]]) = Len(o)
<1>1. o \in Seq(ObjectType) /\ N <= Len(o) /\ Len(o) \in Nat
      /\ \A j \in DOMAIN o : o[j].p <= Len(o) /\ o[j].h <= Len(o)
  BY DEF ObjectsOK
<1>2. i \in 1 .. Len(o) /\ o[i] \in ObjectType /\ DOMAIN o = 1 .. Len(o)
  BY <1>1
<1>3. ASSUME NEW x \in ObjectType, x.p <= Len(o), x.h <= Len(o)
      PROVE  ObjectsOK([o EXCEPT ![i] = x]) /\ Len([o EXCEPT ![i] = x]) = Len(o)
  <2> DEFINE r == [o EXCEPT ![i] = x]
  <2>1. r \in Seq(ObjectType) /\ Len(r) = Len(o) /\ \A j \in 1 .. Len(o) : r[j] = IF j = i THEN x ELSE o[j]
    BY <1>1, <1>2, ExceptSeq
  <2> HIDE DEF r
  <2>2. DOMAIN r = 1 .. Len(o)
    BY <2>1
  <2>3. \A j \in DOMAIN r : r[j].p <= Len(r) /\ r[j].h <= Len(r)
    BY <1>1, <1>2, <1>3, <2>1, <2>2
  <2>4. ObjectsOK(r)
    BY <1>1, <2>1, <2>3 DEF ObjectsOK
  <2>5. QED
    BY <2>1, <2>4 DEF r
<1>4. /\ [o[i] EXCEPT !.p = v] \in ObjectType
      /\ [o[i] EXCEPT !.p = v].p = v /\ [o[i] EXCEPT !.p = v].h = o[i].h
      /\ [o[i] EXCEPT !.h = v] \in ObjectType
      /\ [o[i] EXCEPT !.h = v].h = v /\ [o[i] EXCEPT !.h = v].p = o[i].p
  BY <1>2 DEF ObjectType
<1>5. o[i].p <= Len(o) /\ o[i].h <= Len(o)
  BY <1>1
<1>6. QED
  BY <1>3, <1>4, <1>5

(* A broken link, or a heap taken over, keeps the table in order.          *)
LEMMA BrokenGood ==
  ASSUME IInv, Running, NEW e, GoodPlace(e), e.type = "H", Movable(e)
  PROVE  /\ ObjectsOK(Broken(e)) /\ Len(Broken(e)) = Len(Allocated(e))
         /\ Len(Allocated(e)) \in Nat /\ Len(obj) <= Len(Allocated(e)) /\ info \in Instances /\ heap[info] \in Nat
<1>1. info \in Instances /\ heap[info] \in Nat
  BY HereToo DEF IInv
<1>2. ObjectsOK(Allocated(e)) /\ Len(Allocated(e)) \in Nat /\ Len(obj) <= Len(Allocated(e))
  BY <1>1, Allocation DEF IInv
<1>3. e.val \in DOMAIN Allocated(e)
  BY RootGood DEF IInv, Movable
<1>4. PICK o, i, z : o = Allocated(e) /\ i = e.val /\ z = 0
  OBVIOUS
<1>5. ObjectsOK(o) /\ i \in DOMAIN o /\ z \in Nat /\ z <= Len(o)
  BY <1>2, <1>3, <1>4
<1>6. /\ ObjectsOK([o EXCEPT ![i] = [@ EXCEPT !.p = z]])
      /\ Len([o EXCEPT ![i] = [@ EXCEPT !.p = z]]) = Len(o)
  BY <1>5, FieldSet
<1>7. Broken(e) = [o EXCEPT ![i] = [@ EXCEPT !.p = z]]
  BY <1>4 DEF Broken
<1>8. QED
  BY <1>1, <1>2, <1>4, <1>6, <1>7

(* move keeps the invariant.                                               *)
LEMMA MoveStep ==
  ASSUME IInv, Running, NEW e, GoodPlace(e), Move(e)
  PROVE  IInv'
<1>1. e.type = "H" /\ count' = count + 1 /\ count \in Nat /\ info \in Instances
  BY HereToo DEF Move, Take, IInv
<1>2. count' \in Nat
  BY <1>1
<1>3. CASE ~Movable(e)
  <2>1. obj' = Allocated(e) /\ Result("H", 0)
    BY <1>3 DEF Move
  <2>2. ObjectsOK(obj') /\ Len(obj) <= Len(obj') /\ Len(obj') \in Nat
    BY <1>1, <2>1, Allocation DEF IInv
  <2>3. "H" \in {"T", "H"} /\ 0 \in Nat /\ 0 <= Len(obj')
    BY <2>2
  <2>4. QED
    BY <1>2, <2>1, <2>2, <2>3, ResultStep
<1>4. CASE Movable(e)
  <2>1. PICK o, x, v : o = Broken(e) /\ x = Link(heap[info], Root(e)) /\ v = Len(Allocated(e)) + 1
    OBVIOUS
  <2>2. obj' = Append(o, x) /\ Result("H", v)
    BY <1>4, <2>1 DEF Move
  <2>3. /\ ObjectsOK(o) /\ Len(o) = Len(Allocated(e)) /\ Len(Allocated(e)) \in Nat
        /\ Len(obj) <= Len(Allocated(e)) /\ heap[info] \in Nat
    BY <1>1, <1>4, <2>1, BrokenGood
  <2>4. Root(e) \in Nat /\ Root(e) <= Len(o)
    BY <1>1, <2>3, RootGood DEF IInv
  <2>5. x \in ObjectType /\ x.p <= Len(o) /\ x.h = 0 /\ x.p \in Nat
    BY <2>1, <2>3, <2>4 DEF Link, ObjectType
  <2>6. o \in Seq(ObjectType)
    BY <2>3 DEF ObjectsOK
  <2>7. PICK r : r = Append(o, x)
    OBVIOUS
  <2>8. /\ r \in Seq(ObjectType) /\ Len(r) = Len(o) + 1 /\ r[Len(o) + 1] = x
        /\ \A i \in 1 .. Len(o) : r[i] = o[i]
    BY <2>5, <2>6, <2>7
  <2>9. \A i \in Len(o) + 1 .. Len(r) : r[i].p <= Len(r) /\ r[i].h <= Len(r)
    BY <2>3, <2>5, <2>8
  <2>10. ObjectsOK(r)
    BY <2>3, <2>8, <2>9, ObjectsAdded
  <2>11. ObjectsOK(obj') /\ Len(obj') = Len(o) + 1
    BY <2>2, <2>7, <2>8, <2>10
  <2>12. obj \in Seq(ObjectType) /\ Len(obj) \in Nat
    BY DEF IInv, Shape, Types, ObjectsOK
  <2>13. "H" \in {"T", "H"} /\ v \in Nat /\ v <= Len(obj') /\ Len(obj) <= Len(obj')
    BY <2>1, <2>3, <2>11, <2>12
  <2>14. QED
    BY <1>2, <2>2, <2>11, <2>13, ResultStep
<1>5. QED
  BY <1>3, <1>4

(* merge keeps the invariant.                                              *)
LEMMA MergeStep ==
  ASSUME IInv, Running, NEW e, GoodPlace(e), Merge(e)
  PROVE  IInv'
<1>1. e.type = "H" /\ count' = count + 1 /\ count \in Nat /\ info \in Instances
  BY HereToo DEF Merge, Take, IInv
<1>2. count' \in Nat
  BY <1>1
<1>3. CASE ~Movable(e)
  <2>1. obj' = Allocated(e) /\ Result("T", 0)
    BY <1>3 DEF Merge
  <2>2. ObjectsOK(obj') /\ Len(obj) <= Len(obj') /\ Len(obj') \in Nat
    BY <1>1, <2>1, Allocation DEF IInv
  <2>3. "T" \in {"T", "H"} /\ 0 \in Nat /\ 0 <= Len(obj')
    BY <2>2
  <2>4. QED
    BY <1>2, <2>1, <2>2, <2>3, ResultStep
<1>4. CASE Movable(e)
  <2>1. PICK o, x, v : o = Broken(e) /\ x = heap[info] /\ v = Root(e)
    OBVIOUS
  <2>3. /\ ObjectsOK(o) /\ Len(o) = Len(Allocated(e)) /\ Len(Allocated(e)) \in Nat
        /\ Len(obj) <= Len(Allocated(e)) /\ x \in Nat
    BY <1>1, <1>4, <2>1, BrokenGood
  <2>4. v \in Nat /\ v <= Len(o)
    BY <1>1, <2>1, <2>3, RootGood DEF IInv
  <2>5. o \in Seq(ObjectType) /\ N <= Len(o) /\ \A i \in DOMAIN o : o[i].p <= Len(o) /\ o[i].h <= Len(o)
    BY <2>3 DEF ObjectsOK
  <2>6. PICK m \in Nat : m = Len(o) /\ DOMAIN o = 1 .. m
    BY <2>5
  <2>7. DOMAIN Allocated(e) = 1 .. m
    <3>1. Allocated(e) \in Seq(ObjectType)
      BY <1>1, Allocation DEF IInv, ObjectsOK
    <3>2. QED
      BY <2>3, <2>6, <3>1
  <2>8. PICK r : r = [i \in 1 .. m |-> IF o[i].heap = v THEN [o[i] EXCEPT !.heap = x] ELSE o[i]]
    OBVIOUS
  <2>9. obj' = r /\ Result("T", v)
    <3>1. /\ obj' = [i \in DOMAIN Allocated(e) |->
                       IF Broken(e)[i].heap = Root(e) THEN [Broken(e)[i] EXCEPT !.heap = heap[info]] ELSE Broken(e)[i]]
          /\ Result("T", Root(e))
      BY <1>4 DEF Merge
    <3>2. obj' = [i \in 1 .. m |-> IF o[i].heap = v THEN [o[i] EXCEPT !.heap = x] ELSE o[i]]
      BY <2>1, <2>7, <3>1
    <3>3. QED
      BY <2>1, <2>8, <3>1, <3>2
  <2>10. ASSUME NEW i \in 1 .. m
         PROVE  r[i] \in ObjectType /\ r[i].p <= m /\ r[i].h <= m
    <3>1. o[i] \in ObjectType /\ o[i].p <= m /\ o[i].h <= m
      BY <2>5, <2>6
    <3>2. /\ [o[i] EXCEPT !.heap = x] \in ObjectType
          /\ [o[i] EXCEPT !.heap = x].p = o[i].p /\ [o[i] EXCEPT !.heap = x].h = o[i].h
      BY <2>3, <3>1 DEF ObjectType
    <3>3. r[i] = o[i] \/ r[i] = [o[i] EXCEPT !.heap = x]
      BY <2>8
    <3>4. QED
      BY <3>1, <3>2, <3>3
  <2>11. r \in Seq(ObjectType)
    <3>1. r = [i \in 1 .. m |-> r[i]]
      BY <2>8
    <3>2. r \in [1 .. m -> ObjectType]
      BY <2>10, <3>1
    <3>3. QED
      BY <3>2, FunctionIsSeq
  <2>12. Len(r) = m /\ DOMAIN r = 1 .. m
    <3>1. DOMAIN r = 1 .. m
      BY <2>8
    <3>2. PICK k \in Nat : k = Len(r) /\ DOMAIN r = 1 .. k
      BY <2>11, LenProperties, Zenon
    <3>3. 1 .. k = 1 .. m
      BY <3>1, <3>2
    <3>4. k = m
      BY <3>3
    <3>5. QED
      BY <3>1, <3>2, <3>4
  <2>13. ObjectsOK(r)
    BY <2>5, <2>6, <2>10, <2>11, <2>12 DEF ObjectsOK
  <2>14. "T" \in {"T", "H"} /\ v <= Len(obj') /\ Len(obj) <= Len(obj') /\ ObjectsOK(obj')
    BY <2>3, <2>4, <2>6, <2>9, <2>12, <2>13
  <2>15. QED
    BY <1>2, <2>4, <2>9, <2>14, ResultStep
<1>5. QED
  BY <1>3, <1>4

(* A statement that writes objects only keeps the invariant.               *)
LEMMA StayPut ==
  ASSUME IInv, Running, text' = text, data' = data, heap' = heap, ObjectsOK(obj'), Len(obj) <= Len(obj'), count' \in Nat,
         UNCHANGED <<bound, phase, bp, list, info, native, acts, ran>>
  PROVE  IInv'
<1>1. /\ GoodText(F) /\ InStack(F, bp, data, Len(obj)) /\ F = text[bp] /\ bp \in DOMAIN text
      /\ F.scopes[1].kind = "activate" => F.changes = <<>>
      /\ Len(obj) \in Nat /\ data \in Seq(Nat) /\ heap \in [Instances -> Nat]
  BY HereToo DEF IInv
<1>2. Len(obj') \in Nat
  BY DEF ObjectsOK
<1>3. bp \in Nat /\ bp > Below(F) /\ bp + MaxLocals <= Len(data)
  BY Here DEF IInv
<1>4. InStack(F, bp, data, Len(obj'))
  <2>1. Untouched(data, data, bp, Below(F))
    BY DEF Untouched
  <2>2. QED
    BY <1>1, <1>2, <1>3, <2>1, InStackSame
<1>5. text' = [text EXCEPT ![bp] = F]
  <2>1. \A b \in DOMAIN text : text[b] = [text EXCEPT ![bp] = F][b]
    BY <1>1
  <2>2. text = [b \in DOMAIN text |-> text[b]]
    BY DEF IInv, Shape, Types
  <2>3. QED
    BY <1>1, <2>2
<1>6. KeptAround(data, data, bp, Below(F))
  BY <1>1, NoWord
<1>7. Stays(F)
  BY <1>1, <1>4, <1>5, <1>6 DEF Stays
<1>8. QED
  BY <1>7, Stay

(* An assignment keeps the invariant.                                      *)
LEMMA AssignStep ==
  ASSUME IInv, Running, NEW l \in Places, NEW e, GoodPlace(e), Assign(l, e)
  PROVE  IInv'
<1> USE DEF IInv
<1>1. /\ GoodText(F) /\ InStack(F, bp, data, Len(obj)) /\ F = text[bp] /\ bp \in DOMAIN text
      /\ F.scopes[1].kind = "activate" => F.changes = <<>>
      /\ Len(obj) \in Nat /\ data \in Seq(Nat)
      /\ heap \in [Instances -> Nat] /\ count \in Nat /\ info \in Instances
  BY HereToo
<1>2. GoodPlace(l) /\ l.kind \in {"symbol", "p", "h"}
  BY PlaceKind
<1>3. /\ l.type = e.type /\ count' = count + 1 /\ heap' = heap
      /\ UNCHANGED <<bound, phase, bp, list, info, native, acts, ran>>
  BY DEF Assign, Take
<1>4. ObjectsOK(Allocated(e)) /\ Len(obj) <= Len(Allocated(e)) /\ Len(Allocated(e)) \in Nat
  BY <1>1, Allocation
<1>5. e.val \in Nat /\ IF e.type = "C" THEN e.val \in Instances ELSE e.val <= Len(Allocated(e))
  BY DEF GoodPlace
<1>51. e.val \in Nat
  BY DEF GoodPlace
<1>6. CASE l.kind = "symbol"
  <2> DEFINE n == l.at
             g == Assigned(F, n, e.val)
             o == Find(F.scopes, n).off
  <2>1. n \in Names(F.scopes) /\ Find(F.scopes, n).type = e.type
    BY <1>2, <1>3, <1>6, VisibleNames DEF GoodPlace
  <2>2. data' = [data EXCEPT ![bp + o] = e.val] /\ obj' = Allocated(e)
    BY <1>6 DEF Assign
  <2>3. text' = [text EXCEPT ![bp] = g]
    BY <1>1, <1>6 DEF Assign, Assigned
  <2>4. /\ GoodText(g) /\ g.scopes = F.scopes /\ g.context = F.context /\ g.returns = F.returns
        /\ g.mutable = F.mutable /\ g.changes = F.changes
    <3>1. GoodText(F)
      BY <1>1
    <3>2. QED
      BY <1>51, <2>1, <3>1, AssignedGood, ZenonT(30)
  <2>5. bp \in Nat /\ bp > Below(F) /\ bp + MaxLocals <= Len(data) /\ Below(F) \in {2, 3}
    BY Here
  <2>6. InStack(g, bp, data', Len(obj'))
    <3>1. IF Find(F.scopes, n).type = "C" THEN e.val \in Instances ELSE e.val <= Len(Allocated(e))
      BY <1>5, <2>1
    <3>2. InStack(g, bp, [data EXCEPT ![bp + o] = e.val], Len(Allocated(e)))
      BY <1>1, <1>4, <1>5, <2>1, <2>5, <3>1, AssignedInStack
    <3>3. QED
      BY <2>2, <3>2
  <2>7. KeptAround(data, data', bp, Below(F))
    <3>1. o \in 1 .. F.locals - 1 \/ o \in (0 - Below(F)) .. (0 - 2)
      BY <1>1, <2>1, NamedOnce
    <3>2. Find(F.scopes, n) \in Symbol
      BY <1>1, <2>1, NamedOnce
    <3>3. o \in Int
      BY <3>2 DEF Symbol
    <3>4. F.locals \in Nat /\ F.locals <= MaxLocals + 1 /\ MaxLocals \in Nat
      BY <1>1, Basics
    <3>5. o \in 1 .. MaxLocals \/ o \in (0 - Below(F)) .. (0 - 2)
      BY <3>1, <3>3, <3>4
    <3>6. KeptAround(data, [data EXCEPT ![bp + o] = e.val], bp, Below(F))
      BY <1>1, <1>5, <2>5, <3>3, <3>5, OneWord
    <3>7. QED
      BY <2>2, <3>6
  <2> HIDE DEF g
  <2>8. Stays(g)
    BY <1>1, <1>3, <1>4, <2>2, <2>3, <2>4, <2>6, <2>7 DEF Stays
  <2>9. QED
    BY <1>3, <2>4, <2>8, Stay
<1>7. CASE l.kind # "symbol"
  <2>1. l.at \in DOMAIN obj /\ l.type # "C"
    BY <1>2, <1>7 DEF GoodPlace
  <2>2. l.at \in DOMAIN Allocated(e) /\ e.val <= Len(Allocated(e))
    <3>1. obj \in Seq(ObjectType) /\ Allocated(e) \in Seq(ObjectType)
      BY <1>4 DEF Shape, Types, ObjectsOK
    <3>2. l.at \in 1 .. Len(obj)
      BY <2>1, <3>1
    <3>3. l.at \in 1 .. Len(Allocated(e))
      BY <1>1, <1>4, <3>2
    <3>4. QED
      BY <1>3, <1>5, <2>1, <3>1, <3>3
  <2>3. /\ \/ obj' = [Allocated(e) EXCEPT ![l.at] = [@ EXCEPT !.p = e.val]]
           \/ obj' = [Allocated(e) EXCEPT ![l.at] = [@ EXCEPT !.h = e.val]]
        /\ data' = data /\ text' = text
    BY <1>7 DEF Assign
  <2>4. ObjectsOK(obj') /\ Len(obj') = Len(Allocated(e))
    <3>1. PICK o, i, v : o = Allocated(e) /\ i = l.at /\ v = e.val
      OBVIOUS
    <3>2. ObjectsOK(o) /\ i \in DOMAIN o /\ v \in Nat /\ v <= Len(o)
      BY <1>4, <1>51, <2>2, <3>1
    <3>3. obj' = [o EXCEPT ![i] = [@ EXCEPT !.p = v]] \/ obj' = [o EXCEPT ![i] = [@ EXCEPT !.h = v]]
      BY <2>3, <3>1
    <3>6. /\ ObjectsOK([o EXCEPT ![i] = [@ EXCEPT !.p = v]]) /\ Len([o EXCEPT ![i] = [@ EXCEPT !.p = v]]) = Len(o)
          /\ ObjectsOK([o EXCEPT ![i] = [@ EXCEPT !.h = v]]) /\ Len([o EXCEPT ![i] = [@ EXCEPT !.h = v]]) = Len(o)
      BY <3>2, FieldSet
    <3>4. ObjectsOK(obj') /\ Len(obj') = Len(o)
      BY <3>3, <3>6
    <3>5. QED
      BY <3>1, <3>4
  <2>5. QED
    BY <1>1, <1>3, <1>4, <2>3, <2>4, StayPut
<1>8. QED
  BY <1>6, <1>7

(* The beginning of a block keeps the invariant.                           *)
LEMMA OpenBlockStep ==
  ASSUME IInv, Running, OpenBlock
  PROVE  IInv'
<1> USE DEF IInv
<1> DEFINE s == [kind |-> "block", symbols |-> <<>>]
           g == Wider(F, s, F.changes)
<1>1. /\ GoodText(F) /\ InStack(F, bp, data, Len(obj)) /\ F = text[bp] /\ bp \in DOMAIN text
      /\ F.scopes[1].kind = "activate" => F.changes = <<>>
      /\ Len(obj) \in Nat /\ ObjectsOK(obj) /\ data \in Seq(Nat)
      /\ heap \in [Instances -> Nat] /\ count \in Nat /\ info \in Instances
  BY HereToo
<1>2. /\ count' = count + 1 /\ heap' = heap /\ data' = data /\ obj' = obj
      /\ UNCHANGED <<bound, phase, bp, list, info, native, acts, ran>>
  BY DEF OpenBlock, Take
<1>3. s \in Scope /\ Renames(F, s) /\ s.kind = "block"
  BY BlockRenames
<1> HIDE DEF s
<1>4. F \in FrameType /\ F.changes \in Seq(Nat) /\ Len(F.changes) \in Nat
  BY <1>1, Basics
<1>5. Opened(F, s) = g
  BY <1>3, <1>4 DEF Opened, Wider, FrameType
<1>6. text' = [text EXCEPT ![bp] = g]
  BY <1>1, <1>5 DEF OpenBlock, s
<1>7. F.returns => F.changes = <<>>
  BY <1>1 DEF GoodText, Contexts
<1>8. /\ GoodText(g) /\ g.scopes[1] = s /\ g.context = F.context /\ g.returns = F.returns
      /\ g.changes = F.changes /\ g.mutable = F.mutable
      /\ Inherits(F, g)
  <2>1. Len(F.changes) = Len(F.changes) + (IF s.kind = "change" THEN 1 ELSE 0)
    BY <1>3, <1>4
  <2>2. PICK c : c = F.changes
    OBVIOUS
  <2>3. GoodText(F) /\ c \in Seq(Nat) /\ (F.returns => c = <<>>)
    BY <1>1, <1>4, <1>7, <2>2
  <2>4. s.kind # "activate" => /\ F.scopes[1].kind = "activate" => F.changes = <<>>
                               /\ Len(c) = Len(F.changes) + (IF s.kind = "change" THEN 1 ELSE 0)
    BY <1>1, <2>1, <2>2
  <2>5. s.kind \in {"block", "change", "activate"}
    BY <1>3
  <2>6. g = Wider(F, s, c)
    BY <2>2
  <2> HIDE DEF g
  <2>7. GoodText(g) /\ OpenedFields(F, s, c, g) /\ Inherits(F, g)
    BY <1>3, <2>3, <2>4, <2>5, <2>6, OpenedGood
  <2>8. QED
    BY <1>3, <2>2, <2>7 DEF OpenedFields
<1>9. InStack(g, bp, data', Len(obj'))
  <2>1. Len(obj) <= Len(obj)
    BY <1>1
  <2>2. InStack(g, bp, data, Len(obj))
    BY <1>1, <1>8, <2>1 DEF Inherits
  <2>3. QED
    BY <1>2, <2>2
<1>10. KeptAround(data, data', bp, Below(F))
  BY <1>1, <1>2, NoWord
<1> HIDE DEF g
<1>11. Stays(g)
  BY <1>1, <1>2, <1>3, <1>6, <1>8, <1>9, <1>10 DEF Stays
<1>12. QED
  BY <1>2, <1>8, <1>11, Stay

(* What closing a scope makes of the running frame.                        *)
LEMMA ClosedIsNarrower ==
  ASSUME Shape, Running, GoodText(F)
  PROVE  /\ Closed(F) = Narrower(F, F.changes)
         /\ [Closed(F) EXCEPT !.changes = Front(F.changes)] = Narrower(F, Front(F.changes))
         /\ Closed(F).changes = F.changes /\ InnerScope = F.scopes[1]
<1>1. F \in FrameType
  BY DEF GoodText
<1>2. InnerScope = F.scopes[1]
  BY DEF InnerScope
<1>3. Popped = Cardinality(VariablesOf(F.scopes[1]))
  BY <1>2 DEF Popped, VariablesOf
<1>4. QED
  BY <1>1, <1>2, <1>3 DEF Closed, Narrower, FrameType

(* The end of a block keeps the invariant.                                 *)
LEMMA CloseBlockStep ==
  ASSUME IInv, CloseBlock
  PROVE  IInv'
<1> USE DEF IInv
<1> DEFINE g == Narrower(F, F.changes)
<1>0. Running
  BY DEF CloseBlock
<1>1. /\ GoodText(F) /\ InStack(F, bp, data, Len(obj)) /\ F = text[bp] /\ bp \in DOMAIN text
      /\ Len(obj) \in Nat /\ ObjectsOK(obj) /\ data \in Seq(Nat)
      /\ heap \in [Instances -> Nat] /\ count \in Nat /\ info \in Instances
  BY <1>0, HereToo
<1>2. /\ count' = count /\ heap' = heap /\ data' = data /\ obj' = obj
      /\ UNCHANGED <<bound, phase, bp, list, info, native, acts, ran>>
  BY DEF CloseBlock
<1>3. F.scopes[1].kind = "block" /\ text' = [text EXCEPT ![bp] = g]
  BY <1>0, <1>1, ClosedIsNarrower DEF CloseBlock
<1>4. F.changes \in Seq(Nat) /\ Len(F.changes) \in Nat
  BY <1>1, Basics
<1>5. F.returns => F.changes = <<>>
  BY <1>1 DEF GoodText, Contexts
<1>6. /\ GoodText(g) /\ g.context = F.context /\ g.returns = F.returns
      /\ g.changes = F.changes /\ g.mutable = F.mutable
      /\ g.scopes[1].kind = "activate" => g.changes = <<>>
      /\ \A b, d, m : InStack(F, b, d, m) => InStack(g, b, d, m)
  <2>1. Len(F.changes) = Len(F.changes) + (IF F.scopes[1].kind = "change" THEN 1 ELSE 0)
    BY <1>3, <1>4
  <2>2. F.scopes[1].kind \in {"block", "change"}
    BY <1>3
  <2>3. PICK c : c = F.changes
    OBVIOUS
  <2>4. GoodText(F) /\ c \in Seq(Nat) /\ (F.returns => c = <<>>)
        /\ Len(F.changes) = Len(c) + (IF F.scopes[1].kind = "change" THEN 1 ELSE 0)
    BY <1>1, <1>4, <1>5, <2>1, <2>3
  <2>5. g = Narrower(F, c)
    BY <2>3
  <2> HIDE DEF g
  <2>6. /\ GoodText(g) /\ g.context = F.context /\ g.returns = F.returns
        /\ g.changes = c /\ g.mutable = F.mutable
        /\ g.scopes[1].kind = "activate" => g.changes = <<>>
        /\ \A b, d, m : InStack(F, b, d, m) => InStack(g, b, d, m)
    BY <2>2, <2>4, <2>5, ClosedGood
  <2>7. QED
    BY <2>3, <2>6
<1>7. InStack(g, bp, data', Len(obj'))
  BY <1>1, <1>2, <1>6
<1>8. KeptAround(data, data', bp, Below(F))
  BY <1>1, <1>2, NoWord
<1> HIDE DEF g
<1>9. Stays(g)
  BY <1>1, <1>2, <1>3, <1>6, <1>7, <1>8 DEF Stays
<1>10. QED
  BY <1>0, <1>2, <1>6, <1>9, Stay

(* Within a change statement a heap is saved.                              *)
LEMMA ChangeSaved ==
  ASSUME NEW f, GoodText(f), f.scopes[1].kind = "change"
  PROVE  f.changes # <<>> /\ ~f.returns
<1>1. f.changes \in Seq(Nat) /\ 1 \in DOMAIN f.scopes /\ 2 \in 1 .. Len(f.scopes)
  BY Basics
<1>2. PICK depth : Depths(f, depth)
  BY DEF GoodText
<1>3. depth[1] = depth[1 + 1] + 1 /\ depth[1] = Len(f.changes) /\ depth[2] \in Nat
  BY <1>1, <1>2 DEF Depths
<1>4. Len(f.changes) # 0
  BY <1>3
<1>5. f.changes # <<>>
  BY <1>4
<1>6. f.returns => f.changes = <<>>
  BY DEF GoodText, Contexts
<1>7. f.returns \in BOOLEAN
  BY DEF GoodText, FrameType
<1>8. QED
  BY <1>5, <1>6, <1>7

(* The end of a change statement keeps the invariant.                      *)
LEMMA EndChangeStep ==
  ASSUME IInv, EndChange
  PROVE  IInv'
<1> USE DEF IInv
<1> DEFINE g == Narrower(F, Front(F.changes))
<1>0. Running
  BY DEF EndChange
<1>1. /\ GoodText(F) /\ InStack(F, bp, data, Len(obj)) /\ F = text[bp] /\ bp \in DOMAIN text
      /\ Len(obj) \in Nat /\ ObjectsOK(obj) /\ data \in Seq(Nat)
      /\ heap \in [Instances -> Nat] /\ count \in Nat /\ info \in Instances
  BY <1>0, HereToo
<1>2. /\ count' = count /\ heap' = [heap EXCEPT ![info] = Last(F.changes)] /\ data' = data /\ obj' = obj
      /\ UNCHANGED <<bound, phase, bp, list, info, native, acts, ran>>
  BY DEF EndChange
<1>3. F.scopes[1].kind = "change"
  BY <1>0, <1>1, ClosedIsNarrower DEF EndChange
<1>31. text' = [text EXCEPT ![bp] = g]
  <2>1. text' = [text EXCEPT ![bp] = [Closed(F) EXCEPT !.changes = Front(Closed(F).changes)]]
    BY DEF EndChange
  <2>2. [Closed(F) EXCEPT !.changes = Front(Closed(F).changes)] = g
    BY <1>0, <1>1, ClosedIsNarrower
  <2>3. QED
    BY <2>1, <2>2, Zenon
<1>4. F.changes \in Seq(Nat) /\ Len(F.changes) \in Nat /\ F.changes # <<>> /\ ~F.returns
  BY <1>1, <1>3, Basics, ChangeSaved
<1>5. /\ Front(F.changes) \in Seq(Nat) /\ Len(Front(F.changes)) = Len(F.changes) - 1 /\ Last(F.changes) \in Nat
  BY <1>4, FrontHead
<1>6. /\ GoodText(g) /\ g.context = F.context /\ g.returns = F.returns
      /\ g.changes = Front(F.changes) /\ g.mutable = F.mutable
      /\ g.scopes[1].kind = "activate" => g.changes = <<>>
      /\ \A b, d, m : InStack(F, b, d, m) => InStack(g, b, d, m)
  <2>1. Len(F.changes) = Len(Front(F.changes)) + (IF F.scopes[1].kind = "change" THEN 1 ELSE 0)
    BY <1>3, <1>4, <1>5
  <2>2. F.scopes[1].kind \in {"block", "change"}
    BY <1>3
  <2>3. GoodText(F) /\ Front(F.changes) \in Seq(Nat) /\ (F.returns => Front(F.changes) = <<>>)
    BY <1>1, <1>4, <1>5
  <2>4. g = Narrower(F, Front(F.changes))
    OBVIOUS
  <2> HIDE DEF g
  <2>5. QED
    BY <2>1, <2>2, <2>3, <2>4, ClosedGood
<1>7. InStack(g, bp, data', Len(obj'))
  BY <1>1, <1>2, <1>6
<1>8. KeptAround(data, data', bp, Below(F))
  BY <1>1, <1>2, NoWord
<1> HIDE DEF g
<1>9. heap' \in [Instances -> Nat]
  BY <1>1, <1>2, <1>5
<1>10. Stays(g)
  BY <1>1, <1>2, <1>31, <1>6, <1>7, <1>8, <1>9 DEF Stays
<1>11. QED
  BY <1>0, <1>2, <1>4, <1>6, <1>10, StaysShape, HeapsEndChange

(* The beginning of a change statement keeps the invariant.                *)
LEMMA ChangeStep ==
  ASSUME IInv, Running, NEW e, GoodPlace(e), Change(e)
  PROVE  IInv'
<1> USE DEF IInv
<1>0. PICK v : v = Root(e)
  OBVIOUS
<1> DEFINE s == Sym("Variable", "T", Immutable, e.ind, F.locals)
           scope == ChangeScope(F.scopes)
           h == Wider(F, scope, Append(F.changes, heap[info]))
<1>1. /\ GoodText(F) /\ InStack(F, bp, data, Len(obj)) /\ F = text[bp] /\ bp \in DOMAIN text
      /\ F.scopes[1].kind = "activate" => F.changes = <<>>
      /\ F.locals \in Nat /\ Len(obj) \in Nat /\ ObjectsOK(obj)
      /\ heap \in [Instances -> Nat] /\ count \in Nat /\ info \in Instances
  BY HereToo
<1>2. s \in Symbol /\ s.kind = "Variable" /\ s.off = F.locals /\ s.type = "T"
  <2>1. F.locals \in Int /\ Immutable \in Mutability /\ e.ind \in Mutability
    BY <1>1 DEF Mutability, GoodPlace
  <2>2. QED
    BY <2>1, NewSymbol
<1>3. e.type = "H" /\ ~F.returns /\ F.locals <= MaxLocals
  BY DEF Change
<1>4. /\ data' = [data EXCEPT ![bp + F.locals] = v] /\ count' = count + 1 /\ obj' = Allocated(e)
      /\ heap' = [heap EXCEPT ![info] = v]
      /\ UNCHANGED <<bound, phase, bp, list, info, native, acts, ran>>
  BY <1>0 DEF Change, Take
<1>5. ObjectsOK(obj') /\ Len(obj) <= Len(obj')
  BY <1>1, <1>4, Allocation
<1>6. v \in Nat /\ v <= Len(obj')
  BY <1>0, <1>3, <1>4, RootGood
<1>7. scope \in Scope /\ scope.kind = "change" /\ Renames(F, scope)
  BY <1>1, ChangeRenames
<1>8. F \in FrameType /\ F.changes \in Seq(Nat) /\ Len(F.changes) \in Nat
  BY <1>1, Basics
<1>9. heap[info] \in Nat
  BY <1>1
<1> HIDE DEF s, scope
<1>10. Opened(F, scope) \in FrameType /\ [Opened(F, scope) EXCEPT !.changes = Append(F.changes, heap[info])] = h
       /\ Opened(F, scope).changes = F.changes
  <2>1. <<scope>> \o F.scopes \in Seq(Scope)
    BY <1>7, <1>8 DEF FrameType
  <2>2. QED
    BY <1>7, <1>8, <2>1 DEF Opened, Wider, FrameType
<1>11. text' = [text EXCEPT ![bp] = Entered(h, s, v)]
  <2>1. text' = [text EXCEPT ![bp] = Entered([Opened(F, scope) EXCEPT !.changes = Append(Opened(F, scope).changes, heap[info])], s, v)]
    BY <1>0 DEF Change, s, scope
  <2>2. [Opened(F, scope) EXCEPT !.changes = Append(Opened(F, scope).changes, heap[info])] = h
    BY <1>10
  <2>3. QED
    BY <2>1, <2>2, Zenon
<1>12. /\ GoodText(h) /\ OpenedFields(F, scope, Append(F.changes, heap[info]), h) /\ Inherits(F, h)
  <2>1. PICK c : c = Append(F.changes, heap[info])
    OBVIOUS
  <2>2. c \in Seq(Nat) /\ Len(c) = Len(F.changes) + (IF scope.kind = "change" THEN 1 ELSE 0)
    BY <1>7, <1>8, <1>9, <2>1, AppendHead
  <2>3. F.returns => c = <<>>
    BY <1>3
  <2>4. h = Wider(F, scope, c)
    BY <2>1
  <2> HIDE DEF h
  <2>5. scope.kind # "activate" => /\ F.scopes[1].kind = "activate" => F.changes = <<>>
                                   /\ Len(c) = Len(F.changes) + (IF scope.kind = "change" THEN 1 ELSE 0)
    BY <1>1, <2>2
  <2>51. scope.kind \in {"block", "change", "activate"} /\ c \in Seq(Nat)
    BY <1>7, <2>2
  <2>6. GoodText(h) /\ OpenedFields(F, scope, c, h) /\ Inherits(F, h)
    BY <1>1, <1>7, <2>3, <2>4, <2>5, <2>51, OpenedGood
  <2>7. QED
    BY <2>1, <2>6
<1> HIDE DEF h
<1>13. /\ h.scopes[1].kind = "change" /\ h.context = F.context /\ h.returns = F.returns /\ h.mutable = F.mutable
       /\ h.locals = F.locals /\ h.changes = Append(F.changes, heap[info])
  BY <1>7, <1>12 DEF OpenedFields
<1>14. InStack(h, bp, data, Len(obj))
  <2>1. Len(obj) <= Len(obj)
    BY <1>1
  <2>2. QED
    BY <1>1, <1>12, <2>1 DEF Inherits
<1>15. heap' \in [Instances -> Nat] /\ count' \in Nat
  BY <1>1, <1>4, <1>6
<1>16. Enters(h, s, v)
  <2>1. IF s.type = "C" THEN v \in Instances ELSE v <= Len(obj')
    BY <1>2, <1>6
  <2>2. QED
    BY <1>2, <1>3, <1>4, <1>5, <1>6, <1>11, <1>12, <1>13, <1>14, <1>15, <2>1 DEF Enters
<1>17. Stays(Entered(h, s, v)) /\ Entered(h, s, v).changes = Append(F.changes, heap[info])
  BY <1>13, <1>16, EnterStep
<1>18. PICK g : g = Entered(h, s, v)
  OBVIOUS
<1>19. Stays(g) /\ g.changes = Append(F.changes, heap[info])
  BY <1>17, <1>18
<1>20. QED
  BY <1>4, <1>6, <1>19, StaysShape, HeapsChange

(* Whatever runs, a statement or the calls of a port. *)
LEMMA Under ==
  ASSUME Shape, native # <<>>
  PROVE  /\ native \in Seq(NativeType) /\ Len(native) \in Nat /\ Len(native) >= 1 /\ Len(native) \in DOMAIN native
         /\ DOMAIN native = 1 .. Len(native) /\ Current = native[Len(native)]
         /\ bp = native[Len(native)].bp /\ bp \in DOMAIN text /\ bp \in Nat /\ F = text[bp]
         /\ GoodText(F) /\ info \in Instances /\ phase # "done"
         /\ data \in Seq(Nat) /\ Len(data) \in Nat /\ DOMAIN text \subseteq Nat
<1>1. native \in Seq(NativeType) /\ DOMAIN text \subseteq Nat /\ data \in Seq(Nat)
  BY DEF Shape, Types
<1>2. Len(native) \in Nat /\ Len(native) >= 1 /\ Len(native) \in DOMAIN native /\ DOMAIN native = 1 .. Len(native)
      /\ Len(data) \in Nat
  BY <1>1
<1>3. Current = native[Len(native)]
  BY <1>1 DEF Current, Last
<1>5. bp = native[Len(native)].bp /\ info \in Instances
  BY <1>1 DEF Shape, Calls
<1>6. bp \in DOMAIN text
  BY <1>2, <1>5 DEF Shape, Calls
<1>7. GoodText(F)
  BY <1>6 DEF Shape, Frames, F
<1>8. phase # "done"
  BY <1>1 DEF Shape, Phases
<1>9. QED
  BY <1>1, <1>2, <1>3, <1>5, <1>6, <1>7, <1>8 DEF F

(* The native calls s differ from those there are at most in what is left to
   call. *)
SameCalls(s) ==
  /\ s \in Seq(NativeType) /\ Len(s) = Len(native)
  /\ \A k \in DOMAIN native : /\ s[k].bp = native[k].bp /\ s[k].old = native[k].old
                              /\ s[k].ports = native[k].ports /\ s[k].top = native[k].top
                              /\ s[k].todo # <<>> => native[k].todo # <<>>

(* A frame f is set up at b on top of the stack, and called. *)
Pushes(f, b, s) ==
  /\ native # <<>> /\ SameCalls(s)
  /\ b = Len(data) + 1 + Below(f)
  /\ data' \in Seq(Nat) /\ Len(data') = b + MaxLocals
  /\ \A x \in 1 .. Len(data) : data'[x] = data[x]
  /\ text' = Put(text, b, f)
  /\ GoodText(f) /\ InStack(f, b, data', Len(obj'))
  /\ ~f.mutable /\ f.changes = <<>> /\ f.scopes[1].kind = "list"
  /\ \/ f.context \in {"other", "getter"} /\ ~Current.ports /\ data'[b] = bp
     \/ f.context = "reaction" /\ Current.ports
  /\ bp' = b /\ native' = Append(s, Native(b)) /\ info' \in Instances
  /\ ObjectsOK(obj') /\ Len(obj) <= Len(obj') /\ count' \in Nat
  /\ UNCHANGED <<bound, phase, list, heap, acts, ran>>

(* What pushing a frame changes, part by part.                             *)
LEMMA Pushed ==
  ASSUME Shape, NEW f, NEW b, NEW s, Pushes(f, b, s)
  PROVE  /\ b \in Nat /\ b \notin DOMAIN text /\ (\A c \in DOMAIN text : c < b /\ c + MaxLocals < b - Below(f))
         /\ DOMAIN text' = DOMAIN text \cup {b} /\ text'[b] = f /\ \A c \in DOMAIN text : text'[c] = text[c]
         /\ native' \in Seq(NativeType) /\ Len(native') = Len(native) + 1
         /\ DOMAIN native' = 1 .. Len(native) + 1
         /\ \A k \in DOMAIN native : native'[k] = s[k]
         /\ native'[Len(native) + 1] = Native(b)
<1>1. /\ native # <<>> /\ b = Len(data) + 1 + Below(f) /\ text' = Put(text, b, f) /\ native' = Append(s, Native(b))
      /\ SameCalls(s)
  BY DEF Pushes
<1>2. /\ native \in Seq(NativeType) /\ Len(native) \in Nat /\ DOMAIN native = 1 .. Len(native)
      /\ info \in Instances /\ Len(data) \in Nat /\ DOMAIN text \subseteq Nat
  BY <1>1, Under
<1>3. Below(f) \in {2, 3} /\ MaxLocals \in Nat
  BY Constants DEF Below
<1>4. b \in Nat
  BY <1>1, <1>2, <1>3
<1>5. \A c \in DOMAIN text : c < b /\ c + MaxLocals < b - Below(f)
  <2>1. \A c \in DOMAIN text : c + MaxLocals <= Len(data) /\ c \in Nat
    BY <1>2 DEF Shape, Layout
  <2>2. QED
    BY <1>1, <1>2, <1>3, <2>1
<1>6. b \notin DOMAIN text
  BY <1>2, <1>4, <1>5
<1>7. DOMAIN text' = DOMAIN text \cup {b} /\ text'[b] = f /\ \A c \in DOMAIN text : text'[c] = text[c]
  BY <1>1, <1>6 DEF Put
<1>8. Native(b) \in NativeType
  <2>1. <<>> \in Seq(Instances)
    BY EmptySeq, Zenon
  <2>2. info \in Nat
    BY <1>2, Constants
  <2>3. QED
    BY <1>4, <2>1, <2>2 DEF Native, NativeType
<1>9. s \in Seq(NativeType) /\ Len(s) = Len(native)
  BY <1>1 DEF SameCalls
<1>10. native' \in Seq(NativeType) /\ Len(native') = Len(native) + 1 /\ DOMAIN native' = 1 .. Len(native) + 1
       /\ (\A k \in DOMAIN native : native'[k] = s[k]) /\ native'[Len(native) + 1] = Native(b)
  BY <1>1, <1>2, <1>8, <1>9
<1>11. QED
  BY <1>4, <1>5, <1>6, <1>7, <1>10

(* Pushing a frame on top of the stack keeps its shape: the new frame      *)
(* lies above every frame and every argument still needed.                 *)
LEMMA PushShape ==
  ASSUME Shape, NEW f, NEW b, NEW s, Pushes(f, b, s)
  PROVE  Shape'
<1>1. /\ native # <<>> /\ b = Len(data) + 1 + Below(f)
      /\ bp' = b /\ bound' = bound /\ phase' = phase /\ list' = list /\ heap' = heap /\ acts' = acts /\ ran' = ran
      /\ data' \in Seq(Nat) /\ Len(data') = b + MaxLocals /\ (\A x \in 1 .. Len(data) : data'[x] = data[x])
      /\ info' \in Instances /\ Len(obj) <= Len(obj') /\ ObjectsOK(obj') /\ count' \in Nat
  BY DEF Pushes
<1>2. /\ b \in Nat /\ b \notin DOMAIN text /\ (\A c \in DOMAIN text : c < b /\ c + MaxLocals < b - Below(f))
      /\ DOMAIN text' = DOMAIN text \cup {b} /\ text'[b] = f /\ (\A c \in DOMAIN text : text'[c] = text[c])
      /\ native' \in Seq(NativeType) /\ Len(native') = Len(native) + 1
      /\ DOMAIN native' = 1 .. Len(native) + 1
      /\ (\A k \in DOMAIN native : native'[k] = s[k])
      /\ native'[Len(native) + 1] = Native(b)
  BY Pushed
<1>20. PICK t : t = Len(native)
  OBVIOUS
<1>3. /\ native \in Seq(NativeType) /\ t \in Nat /\ t >= 1 /\ t \in DOMAIN native /\ DOMAIN native = 1 .. t
      /\ Current = native[t] /\ bp = native[t].bp /\ bp \in DOMAIN text
      /\ info \in Instances /\ phase # "done"
      /\ data \in Seq(Nat) /\ Len(data) \in Nat /\ DOMAIN text \subseteq Nat
  BY <1>1, <1>20, Under
<1>4. /\ GoodText(f) /\ InStack(f, b, data', Len(obj')) /\ ~f.mutable /\ f.changes = <<>> /\ f.scopes[1].kind = "list"
      /\ \/ f.context \in {"other", "getter"} /\ ~Current.ports /\ data'[b] = bp
         \/ f.context = "reaction" /\ Current.ports
  BY DEF Pushes
<1>5. Below(f) \in {2, 3} /\ MaxLocals \in Nat
  BY Constants DEF Below
<1>51. Len(data) < b /\ Len(data) <= Len(data') /\ Len(data) < b - Below(f) /\ b > Below(f) /\ Len(data') \in Nat
  <2>1. PICK w \in {2, 3} : w = Below(f)
    BY <1>5
  <2>2. b = Len(data) + 1 + w /\ Len(data') = b + MaxLocals /\ Len(data) \in Nat
    BY <1>1, <1>3, <2>1
  <2>3. Len(data) < b /\ Len(data) <= Len(data') /\ Len(data) < b - w /\ b > w /\ Len(data') \in Nat
    BY <1>5, <2>2
  <2>4. QED
    BY <2>1, <2>3
<1>6. /\ DOMAIN native' = DOMAIN native \cup {t + 1} /\ t + 1 \notin DOMAIN native
      /\ native'[t + 1].bp = b /\ native'[t + 1].ports = FALSE /\ native'[t + 1].old = info /\ native'[t + 1].todo = <<>>
      /\ \A k \in DOMAIN native : k \in 1 .. t /\ k < t + 1
  BY <1>2, <1>3, <1>20 DEF Native
<1>7. \A k \in DOMAIN native : /\ native'[k].bp = native[k].bp /\ native'[k].old = native[k].old
                               /\ native'[k].ports = native[k].ports /\ native'[k].top = native[k].top
                               /\ native'[k].todo # <<>> => native[k].todo # <<>>
  BY <1>2 DEF Pushes, SameCalls
<1>8. \A c \in DOMAIN text : /\ c \in Nat /\ c > Below(text[c]) /\ c + MaxLocals <= Len(data) /\ c \in 1 .. Len(data)
                             /\ data'[c] = data[c]
  <2>1. \A c \in DOMAIN text : c \in Nat /\ c > Below(text[c]) /\ c + MaxLocals <= Len(data) /\ Below(text[c]) \in {2, 3}
    BY <1>3 DEF Shape, Layout, Below
  <2> SUFFICES ASSUME NEW c \in DOMAIN text
               PROVE  /\ c \in Nat /\ c > Below(text[c]) /\ c + MaxLocals <= Len(data) /\ c \in 1 .. Len(data)
                      /\ data'[c] = data[c]
    OBVIOUS
  <2>2. PICK w \in {2, 3} : w = Below(text[c])
    BY DEF Below
  <2>3. c \in Nat /\ c > w /\ c + MaxLocals <= Len(data)
    BY <2>1, <2>2
  <2>4. c \in 1 .. Len(data)
    BY <1>3, <1>5, <2>3
  <2>5. QED
    BY <1>1, <2>1, <2>4
<1>9. Types'
  <2>1. ObjectsOK(obj)'
    BY <1>1 DEF ObjectsOK, N
  <2>2. text' \in [DOMAIN text' -> FrameType]
    <3>1. text \in [DOMAIN text -> FrameType] /\ f \in FrameType
      BY <1>4 DEF Shape, Types, GoodText
    <3>2. text' = Put(text, b, f)
      BY DEF Pushes
    <3>3. QED
      BY <1>2, <3>1, <3>2 DEF Put
  <2>3. DOMAIN text' \subseteq Nat /\ info' \in Nat
    <3>1. DOMAIN text' \subseteq Nat
      BY <1>2, <1>3
    <3>2. QED
      BY <1>1, <3>1, Constants
  <2>4. QED
    BY <1>1, <1>2, <2>1, <2>2, <2>3 DEF Shape, Types
<1>10. Frames'
  <2> SUFFICES ASSUME NEW c \in DOMAIN text'
               PROVE  GoodText(text'[c]) /\ InStack(text'[c], c, data', Len(obj'))
    BY DEF Frames, GoodText, InStack
  <2>1. CASE c = b
    BY <1>2, <1>4, <2>1
  <2>2. CASE c # b
    <3>1. c \in DOMAIN text /\ text'[c] = text[c]
      BY <1>2, <2>2
    <3>2. PICK w \in {2, 3} : w = Below(text[c])
      BY DEF Below
    <3>3. c \in Nat /\ c > w /\ c + MaxLocals <= Len(data)
      BY <1>8, <3>1, <3>2
    <3>4. \A x \in c - w .. c + MaxLocals : x \in 1 .. Len(data)
      BY <1>3, <1>5, <3>3, SMTT(30)
    <3>5. Untouched(data, data', c, Below(text[c]))
      BY <1>1, <3>2, <3>4 DEF Untouched
    <3>6. GoodText(text[c]) /\ InStack(text[c], c, data, Len(obj))
      BY <3>1 DEF Shape, Frames
    <3>7. Len(obj) \in Nat /\ Len(obj') \in Nat
      BY <1>1 DEF Shape, Types, ObjectsOK
    <3>8. InStack(text[c], c, data', Len(obj'))
      BY <1>1, <1>3, <1>8, <3>1, <3>5, <3>6, <3>7, InStackSame
    <3>9. QED
      BY <3>1, <3>6, <3>8
  <2>3. QED
    BY <2>1, <2>2
<1>11. Layout'
  <2>1. \A c \in DOMAIN text' : c > Below(text'[c]) /\ c + MaxLocals <= Len(data')
    <3> SUFFICES ASSUME NEW c \in DOMAIN text' PROVE c > Below(text'[c]) /\ c + MaxLocals <= Len(data')
      OBVIOUS
    <3>1. CASE c = b
      BY <1>1, <1>2, <1>5, <1>51, <3>1
    <3>2. CASE c # b
      <4>1. c \in DOMAIN text /\ text'[c] = text[c]
        BY <1>2, <3>2
      <4>2. c > Below(text[c]) /\ c + MaxLocals <= Len(data) /\ c \in Nat
        BY <1>8, <4>1
      <4>3. QED
        BY <1>3, <1>5, <1>51, <4>1, <4>2
    <3>3. QED
      BY <3>1, <3>2
  <2>2. \A c, e \in DOMAIN text' : c < e => c + MaxLocals < e - Below(text'[e])
    <3> SUFFICES ASSUME NEW c \in DOMAIN text', NEW e \in DOMAIN text', c < e
                 PROVE  c + MaxLocals < e - Below(text'[e])
      OBVIOUS
    <3>1. CASE e = b
      <4>1. c \in DOMAIN text
        BY <1>2, <3>1
      <4>2. QED
        BY <1>2, <3>1, <4>1
    <3>2. CASE e # b
      <4>1. e \in DOMAIN text /\ text'[e] = text[e] /\ e < b /\ e \in Nat
        BY <1>2, <1>8, <3>2
      <4>2. c # b
        BY <1>2, <4>1
      <4>3. c \in DOMAIN text
        BY <1>2, <4>2
      <4>4. QED
        BY <4>1, <4>3 DEF Shape, Layout
    <3>3. QED
      BY <3>1, <3>2
  <2>3. QED
    BY <2>1, <2>2 DEF Layout, Below
<1>12. Calls'
  <2>0. Calls
    BY DEF Shape
  <2>1. bp' = native'[t + 1].bp /\ info' \in Instances /\ Len(native') = t + 1
    BY <1>1, <1>2, <1>6, <1>20
  <2>2. \A k \in DOMAIN native' : native'[k].bp \in DOMAIN text'
    BY <1>2, <1>6, <1>7, <2>0 DEF Calls
  <2>3. \A j, k \in DOMAIN native' : j < k => native'[j].bp < native'[k].bp
    <3> SUFFICES ASSUME NEW j \in DOMAIN native', NEW k \in DOMAIN native', j < k
                 PROVE  native'[j].bp < native'[k].bp
      OBVIOUS
    <3>1. j \in DOMAIN native
      BY <1>2, <1>3, <1>6
    <3>2. CASE k = t + 1
      <4>1. native[j].bp \in DOMAIN text
        BY <2>0, <3>1 DEF Calls
      <4>2. QED
        BY <1>2, <1>6, <1>7, <3>1, <3>2, <4>1
    <3>3. CASE k # t + 1
      BY <1>6, <1>7, <2>0, <3>1, <3>3 DEF Calls
    <3>4. QED
      BY <3>2, <3>3
  <2>4. \A j, k \in DOMAIN native' : j < k /\ native'[k].ports => native'[j].ports
    <3> SUFFICES ASSUME NEW j \in DOMAIN native', NEW k \in DOMAIN native', j < k, native'[k].ports
                 PROVE  native'[j].ports
      OBVIOUS
    <3>1. j \in DOMAIN native /\ k \in DOMAIN native
      BY <1>2, <1>3, <1>6
    <3>2. QED
      BY <1>7, <2>0, <3>1 DEF Calls
  <2>5. \A k \in DOMAIN native' : k > 1 =>
       /\ native'[k].old \in Instances
       /\ \/ /\ text'[native'[k].bp].context \in {"other", "getter"}
             /\ ~native'[k - 1].ports /\ data'[native'[k].bp] = native'[k - 1].bp
          \/ text'[native'[k].bp].context = "reaction" /\ native'[k - 1].ports
    <3> SUFFICES ASSUME NEW k \in DOMAIN native', k > 1
                 PROVE  /\ native'[k].old \in Instances
                        /\ \/ /\ text'[native'[k].bp].context \in {"other", "getter"}
                              /\ ~native'[k - 1].ports /\ data'[native'[k].bp] = native'[k - 1].bp
                           \/ text'[native'[k].bp].context = "reaction" /\ native'[k - 1].ports
      OBVIOUS
    <3>1. CASE k = t + 1
      <4>1. k - 1 = t
        BY <1>3, <3>1
      <4>2. native'[t].ports = Current.ports /\ native'[t].bp = bp
        BY <1>3, <1>7
      <4>3. QED
        BY <1>2, <1>3, <1>4, <1>6, <3>1, <4>1, <4>2
    <3>2. CASE k # t + 1
      <4>1. k \in DOMAIN native /\ k - 1 \in DOMAIN native
        BY <1>3, <1>6, <3>2
      <4>2. native[k].bp \in DOMAIN text
        BY <2>0, <4>1 DEF Calls
      <4>3. text'[native[k].bp] = text[native[k].bp] /\ data'[native[k].bp] = data[native[k].bp]
        BY <1>2, <1>8, <4>2
      <4>4. /\ native[k].old \in Instances
            /\ \/ /\ text[native[k].bp].context \in {"other", "getter"}
                  /\ ~native[k - 1].ports /\ data[native[k].bp] = native[k - 1].bp
               \/ text[native[k].bp].context = "reaction" /\ native[k - 1].ports
        BY <2>0, <4>1 DEF Calls
      <4>5. QED
        BY <1>7, <4>1, <4>3, <4>4
    <3>3. QED
      BY <3>1, <3>2
  <2>6. \A k \in DOMAIN native' : ~native'[k].ports =>
       \A c \in DOMAIN text' : c > native'[k].bp => \E j \in DOMAIN native' : j > k /\ c = native'[j].bp
    <3> SUFFICES ASSUME NEW k \in DOMAIN native', ~native'[k].ports, NEW c \in DOMAIN text', c > native'[k].bp
                 PROVE  \E j \in DOMAIN native' : j > k /\ c = native'[j].bp
      OBVIOUS
    <3>1. k # t + 1
      <4>1. CASE c = b
        BY <1>2, <1>6, <4>1
      <4>2. CASE c # b
        <5>1. c < b /\ c \in Nat
          BY <1>2, <1>8, <4>2
        <5>2. QED
          BY <1>2, <1>6, <5>1
      <4>3. QED
        BY <4>1, <4>2
    <3>2. k \in DOMAIN native
      BY <1>6, <3>1
    <3>3. CASE c = b
      BY <1>6, <3>2, <3>3
    <3>4. CASE c # b
      <4>1. c \in DOMAIN text
        BY <1>2, <3>4
      <4>2. \E j \in DOMAIN native : j > k /\ c = native[j].bp
        BY <1>7, <2>0, <3>2, <4>1 DEF Calls
      <4>3. QED
        BY <1>6, <1>7, <4>2
    <3>5. QED
      BY <3>3, <3>4
  <2>7. QED
    BY <2>1, <2>2, <2>3, <2>4, <2>5, <2>6 DEF Calls
<1>13. Quiet'
  <2>0. Quiet
    BY DEF Shape
  <2>1. \A k \in DOMAIN native : native[k].bp \in DOMAIN text
    BY DEF Shape, Calls
  <2>2. \A k \in DOMAIN native' : text'[native'[k].bp].scopes[1].kind = "activate" =>
           native'[k].ports \/ text'[native'[k].bp].changes = <<>>
    <3> SUFFICES ASSUME NEW k \in DOMAIN native', text'[native'[k].bp].scopes[1].kind = "activate"
                 PROVE  native'[k].ports \/ text'[native'[k].bp].changes = <<>>
      OBVIOUS
    <3>1. k # t + 1
      BY <1>2, <1>4, <1>6
    <3>2. k \in DOMAIN native /\ native'[k].bp = native[k].bp /\ text'[native'[k].bp] = text[native[k].bp]
          /\ native'[k].ports = native[k].ports
      BY <1>2, <1>6, <1>7, <2>1, <3>1
    <3>3. QED
      BY <2>0, <3>2 DEF Quiet
  <2>3. \A k \in DOMAIN native' : native'[k].ports => text'[native'[k].bp].scopes[1].kind = "activate"
    <3> SUFFICES ASSUME NEW k \in DOMAIN native', native'[k].ports
                 PROVE  text'[native'[k].bp].scopes[1].kind = "activate"
      OBVIOUS
    <3>1. k # t + 1
      BY <1>6
    <3>2. k \in DOMAIN native /\ native'[k].bp = native[k].bp /\ text'[native'[k].bp] = text[native[k].bp]
          /\ native'[k].ports = native[k].ports
      BY <1>2, <1>6, <1>7, <2>1, <3>1
    <3>3. QED
      BY <2>0, <3>2 DEF Quiet
  <2>4. \A c \in DOMAIN text' : (\A k \in DOMAIN native' : native'[k].bp # c) => text'[c].changes = <<>>
    <3> SUFFICES ASSUME NEW c \in DOMAIN text', \A k \in DOMAIN native' : native'[k].bp # c
                 PROVE  text'[c].changes = <<>>
      OBVIOUS
    <3>1. c # b
      BY <1>6
    <3>2. c \in DOMAIN text /\ text'[c] = text[c]
      BY <1>2, <3>1
    <3>3. \A k \in DOMAIN native : native[k].bp # c
      BY <1>6, <1>7
    <3>4. QED
      BY <2>0, <3>2, <3>3 DEF Quiet
  <2>5. QED
    BY <2>2, <2>3, <2>4 DEF Quiet
<1>14. Left' = Left
  <2>1. native' # <<>>
    BY <1>2, <1>3, <1>20
  <2>2. QED
    BY <1>1, <2>1 DEF Left
<1>15. Deferred'
  <2>0. Deferred
    BY DEF Shape
  <2>1. \A k \in 1 .. Left : acts[k] \in DOMAIN text
    BY <2>0 DEF Deferred
  <2>2. DOMAIN text' = {native'[k].bp : k \in DOMAIN native'} \cup {acts'[k] : k \in 1 .. Left'}
    <3>1. {native'[k].bp : k \in DOMAIN native'} = {native[k].bp : k \in DOMAIN native} \cup {b}
      BY <1>6, <1>7
    <3>2. DOMAIN text = {native[k].bp : k \in DOMAIN native} \cup {acts[k] : k \in 1 .. Left}
      BY <2>0 DEF Deferred
    <3>3. {acts'[k] : k \in 1 .. Left'} = {acts[k] : k \in 1 .. Left}
      BY <1>1, <1>14
    <3>4. QED
      BY <1>2, <3>1, <3>2, <3>3
  <2>3. \A c \in DOMAIN text' : text'[c].mutable <=> \E k \in 1 .. Left : acts[k] = c
    <3> SUFFICES ASSUME NEW c \in DOMAIN text' PROVE text'[c].mutable <=> \E k \in 1 .. Left : acts[k] = c
      OBVIOUS
    <3>1. CASE c = b
      BY <1>2, <1>4, <2>1, <3>1
    <3>2. CASE c # b
      BY <1>2, <2>0, <3>2 DEF Deferred
    <3>3. QED
      BY <3>1, <3>2
  <2>4. \A k \in 1 .. Left : /\ data'[acts[k]] = (IF k = 1 THEN 0 ELSE acts[k - 1])
                             /\ text'[acts[k]].context \in {"action", "reaction"}
    BY <1>2, <1>8, <2>0, <2>1, ZenonT(30) DEF Deferred
  <2>5. QED
    BY <1>1, <1>14, <2>0, <2>2, <2>3, <2>4 DEF Deferred
<1>16. Phases'
  <2>0. Phases
    BY DEF Shape
  <2>1. native' # <<>> /\ 1 \in DOMAIN native
    BY <1>2, <1>3, <1>20
  <2>2. native'[1].bp = native[1].bp /\ native'[1].ports = native[1].ports
    BY <1>7, <2>1
  <2>3. phase = "mutable" => \A k \in DOMAIN native' : ~native'[k].ports
    BY <1>6, <1>7, <2>0 DEF Phases
  <2>4. \A k \in DOMAIN native : native[k].bp \in DOMAIN text
    BY DEF Shape, Calls
  <2>5. phase = "immutable" => text'[3].context = "action"
    BY <1>2, <2>0, <2>1, <2>4 DEF Phases
  <2>6. phase = "immutable" => \A k \in DOMAIN native' : text'[native'[k].bp].mutable => native'[k].ports
    <3> SUFFICES ASSUME phase = "immutable", NEW k \in DOMAIN native', text'[native'[k].bp].mutable
                 PROVE  native'[k].ports
      OBVIOUS
    <3>1. k # t + 1
      BY <1>2, <1>4, <1>6
    <3>2. k \in DOMAIN native /\ native'[k].bp = native[k].bp /\ text'[native'[k].bp] = text[native[k].bp]
          /\ native'[k].ports = native[k].ports
      BY <1>2, <1>6, <1>7, <2>4, <3>1
    <3>3. QED
      BY <2>0, <3>2 DEF Phases
  <2>7. QED
    BY <1>1, <1>3, <1>14, <2>0, <2>1, <2>2, <2>3, <2>5, <2>6 DEF Phases
<1>17. Arguments'
  <2> SUFFICES ASSUME NEW k \in DOMAIN native', native'[k].ports, native'[k].todo # <<>>
               PROVE  /\ native'[k].top \in 1 .. Len(data') /\ data'[native'[k].top] <= Len(obj')
                      /\ native'[k].bp + MaxLocals < native'[k].top
                      /\ \A j \in DOMAIN native' : j > k =>
                           native'[k].top < native'[j].bp - Below(text'[native'[j].bp])
    BY DEF Arguments, Below
  <2>1. k \in DOMAIN native
    BY <1>6
  <2>2. PICK x : x = native[k].top
    OBVIOUS
  <2>3. /\ x \in 1 .. Len(data) /\ data[x] <= Len(obj) /\ native[k].bp + MaxLocals < x
        /\ \A j \in DOMAIN native : j > k => x < native[j].bp - Below(text[native[j].bp])
    BY <1>7, <2>1, <2>2 DEF Shape, Arguments
  <2>4. native'[k].top = x /\ native'[k].bp = native[k].bp
    BY <1>7, <2>1, <2>2
  <2>5. x \in 1 .. Len(data') /\ data'[x] = data[x]
    BY <1>1, <1>3, <1>51, <2>3
  <2>6. data[x] \in Nat /\ Len(obj) \in Nat /\ Len(obj') \in Nat
    <3>1. data[x] \in Nat
      BY <1>3, <2>3
    <3>2. Len(obj) \in Nat
      BY DEF Shape, Types, ObjectsOK
    <3>3. Len(obj') \in Nat
      BY <1>1 DEF ObjectsOK
    <3>4. QED
      BY <3>1, <3>2, <3>3
  <2>7. data[x] <= Len(obj')
    BY <1>1, <2>3, <2>6
  <2>8. ASSUME NEW j \in DOMAIN native', j > k PROVE x < native'[j].bp - Below(text'[native'[j].bp])
    <3>1. CASE j = t + 1
      <4>1. x <= Len(data) /\ x \in Nat /\ Len(data) < b - Below(f) /\ native'[j].bp = b /\ text'[b] = f
        BY <1>2, <1>3, <1>51, <1>6, <2>3, <3>1
      <4>2. QED
        BY <1>2, <1>3, <1>5, <4>1
    <3>2. CASE j # t + 1
      <4>1. j \in DOMAIN native /\ native[j].bp \in DOMAIN text
        BY <1>6, <3>2 DEF Shape, Calls
      <4>2. QED
        BY <1>2, <1>7, <2>3, <2>8, <4>1
    <3>3. QED
      BY <3>1, <3>2
  <2>9. QED
    BY <2>3, <2>4, <2>5, <2>7, <2>8
<1>18. QED
  BY <1>9, <1>10, <1>11, <1>12, <1>13, <1>15, <1>16, <1>17 DEF Shape

(* A call leaves the saved heaps alone.                                    *)
LEMMA PushHeaps ==
  ASSUME IInv, NEW f, NEW b, NEW s, Pushes(f, b, s)
  PROVE  Heaps'
<1>1. Shape /\ Heaps
  BY DEF IInv
<1>2. native # <<>> /\ heap' = heap /\ info' \in Instances /\ f.changes = <<>>
  BY DEF Pushes
<1>3. PICK t : t = Len(native)
  OBVIOUS
<1>4. /\ native \in Seq(NativeType) /\ t \in Nat /\ t >= 1 /\ t \in DOMAIN native /\ DOMAIN native = 1 .. t
  BY <1>1, <1>2, <1>3, Under
<1>5. /\ b \notin DOMAIN text /\ text'[b] = f /\ (\A c \in DOMAIN text : text'[c] = text[c])
      /\ Len(native') = t + 1 /\ DOMAIN native' = 1 .. t + 1
      /\ (\A k \in DOMAIN native : native'[k] = s[k]) /\ native'[t + 1] = Native(b)
  <2>1. /\ b \in Nat /\ b \notin DOMAIN text /\ (\A c \in DOMAIN text : c < b /\ c + MaxLocals < b - Below(f))
        /\ DOMAIN text' = DOMAIN text \cup {b} /\ text'[b] = f /\ \A c \in DOMAIN text : text'[c] = text[c]
        /\ native' \in Seq(NativeType) /\ Len(native') = Len(native) + 1
        /\ DOMAIN native' = 1 .. Len(native) + 1
        /\ \A k \in DOMAIN native : native'[k] = s[k]
        /\ native'[Len(native) + 1] = Native(b)
    BY <1>1, Pushed
  <2>2. QED
    BY <1>3, <2>1
<1>6. \A k \in DOMAIN native : /\ native'[k].bp = native[k].bp /\ native'[k].old = native[k].old
                               /\ native[k].bp \in DOMAIN text
  BY <1>1, <1>5 DEF Pushes, SameCalls, Shape, Calls
<1>7. native'[t + 1].bp = b /\ native'[t + 1].old = info
  BY <1>5 DEF Native
<1>8. DOMAIN native' = DOMAIN native \cup {t + 1}
  BY <1>4, <1>5
<1>9. \A k \in DOMAIN native : Saved(k)' = Saved(k)
  BY <1>5, <1>6 DEF Saved
<1>10. Saved(t + 1)' = <<>>
  BY <1>2, <1>5, <1>7 DEF Saved
<1>11. \A k \in DOMAIN native : Inst(k)' = Inst(k)
  <2> SUFFICES ASSUME NEW k \in DOMAIN native PROVE Inst(k)' = Inst(k)
    OBVIOUS
  <2>1. k # t + 1 /\ k \in 1 .. t
    BY <1>4
  <2>2. Inst(k)' = native'[k + 1].old
    BY <1>5, <2>1 DEF Inst
  <2>3. CASE k = t
    BY <1>3, <1>7, <2>2, <2>3 DEF Inst
  <2>4. CASE k # t
    <3>1. k + 1 \in DOMAIN native
      BY <1>4, <2>1, <2>4
    <3>2. QED
      BY <1>3, <1>6, <2>2, <2>4, <3>1 DEF Inst
  <2>5. QED
    BY <2>3, <2>4
<1>12. ASSUME NEW i \in Instances
       PROVE  \/ heap[i] = i /\ \A k \in DOMAIN native' : Inst(k)' = i => Saved(k)' = <<>>
              \/ \E k \in DOMAIN native' : /\ Inst(k)' = i /\ Saved(k)' # <<>> /\ Head(Saved(k)') = i
                                          /\ \A j \in DOMAIN native' : j < k /\ Inst(j)' = i => Saved(j)' = <<>>
  <2>1. CASE heap[i] = i /\ \A k \in DOMAIN native : Inst(k) = i => Saved(k) = <<>>
    <3>1. \A k \in DOMAIN native' : Inst(k)' = i => Saved(k)' = <<>>
      BY <1>8, <1>9, <1>10, <1>11, <2>1
    <3>2. QED
      BY <2>1, <3>1
  <2>2. CASE \E k \in DOMAIN native : /\ Inst(k) = i /\ Saved(k) # <<>> /\ Head(Saved(k)) = i
                                      /\ \A j \in DOMAIN native : j < k /\ Inst(j) = i => Saved(j) = <<>>
    <3>1. PICK k \in DOMAIN native : /\ Inst(k) = i /\ Saved(k) # <<>> /\ Head(Saved(k)) = i
                                     /\ \A j \in DOMAIN native : j < k /\ Inst(j) = i => Saved(j) = <<>>
      BY <2>2
    <3>2. \A j \in DOMAIN native' : j < k /\ Inst(j)' = i => Saved(j)' = <<>>
      BY <1>8, <1>9, <1>10, <1>11, <3>1
    <3>3. k \in DOMAIN native' /\ Inst(k)' = i /\ Saved(k)' # <<>> /\ Head(Saved(k)') = i
      BY <1>8, <1>9, <1>11, <3>1
    <3>4. QED
      BY <3>2, <3>3
  <2>3. QED
    BY <1>1, <2>1, <2>2 DEF Heaps
<1>13. QED
  BY <1>2, <1>12 DEF Heaps

(* A call of a function, a method, a getter or a reaction keeps the        *)
(* invariant if its frame is well-formed and laid out.                     *)
LEMMA PushStep ==
  ASSUME IInv, NEW f, NEW b, NEW s, Pushes(f, b, s)
  PROVE  IInv'
BY PushShape, PushHeaps DEF IInv

(* Pushing words one group after the other pushes the concatenation.       *)
LEMMA Associated ==
  ASSUME NEW d \in Seq(Nat), NEW u \in Seq(Nat), NEW l \in Seq(Nat)
  PROVE  (d \o u) \o l = d \o (u \o l)
OBVIOUS

(* The words of a frame that is set up: those below it, the three that the call
   pushes, and the locals. *)
LEMMA Stacked ==
  ASSUME NEW d \in Seq(Nat), NEW u \in Seq(Nat)
  PROVE  LET dd == d \o u \o Locals
         IN  /\ dd \in Seq(Nat) /\ Len(dd) = Len(d) + Len(u) + MaxLocals
             /\ \A x \in 1 .. Len(d) : dd[x] = d[x]
             /\ \A x \in 1 .. Len(u) : dd[Len(d) + x] = u[x]
             /\ d \o (u \o Locals) = dd
<1>1. MaxLocals \in Nat
  BY Constants
<1>2. Locals \in Seq(Nat) /\ Len(Locals) = MaxLocals
  BY <1>1 DEF Locals
<1>20. PICK l, e, a : l = Locals /\ e = d \o u /\ a = e \o l
  OBVIOUS
<1>3. l \in Seq(Nat) /\ Len(l) = MaxLocals
  BY <1>2, <1>20
<1>4. e \in Seq(Nat) /\ Len(e) = Len(d) + Len(u) /\ Len(d) \in Nat /\ Len(u) \in Nat
      /\ (\A x \in 1 .. Len(d) : e[x] = d[x]) /\ \A x \in 1 .. Len(u) : e[Len(d) + x] = u[x]
  BY <1>20
<1>6. a \in Seq(Nat) /\ Len(a) = Len(e) + MaxLocals /\ \A x \in 1 .. Len(e) : a[x] = e[x]
  <2>1. a = e \o l /\ Len(e) \in Nat /\ e \in Seq(Nat)
    BY <1>4, <1>20
  <2>2. \A x \in 1 .. Len(e) : x \in 1 .. Len(e) + Len(l) /\ x <= Len(e)
    BY <1>1, <1>3, <2>1
  <2>3. e \o l \in Seq(Nat) /\ Len(e \o l) = Len(e) + Len(l)
        /\ \A x \in 1 .. Len(e) + Len(l) : (e \o l)[x] = IF x <= Len(e) THEN e[x] ELSE l[x - Len(e)]
    BY <1>3, <2>1, ConcatProperties, Zenon
  <2>4. QED
    BY <1>3, <2>1, <2>2, <2>3
<1>7. /\ Len(a) = Len(d) + Len(u) + MaxLocals
      /\ \A x \in 1 .. Len(d) : a[x] = d[x]
      /\ \A x \in 1 .. Len(u) : a[Len(d) + x] = u[x]
  <2>1. \A x \in 1 .. Len(d) : x \in 1 .. Len(e)
    BY <1>4
  <2>2. \A x \in 1 .. Len(u) : Len(d) + x \in 1 .. Len(e)
    BY <1>4
  <2>3. QED
    BY <1>1, <1>4, <1>6, <2>1, <2>2
<1>8. d \o (u \o l) = (d \o u) \o l
  <2>1. (d \o u) \o l = d \o (u \o l)
    BY <1>3, Associated, Zenon
  <2>2. QED
    BY <2>1, Zenon
<1>9. QED
  BY <1>20, <1>6, <1>7, <1>8

(* A frame as it is entered, with the parameters ps. *)
Entry(context, ps, vs, returns, next) ==
  Frame(context, <<[kind |-> "list", symbols |-> <<>>], [kind |-> "parameters", symbols |-> ps]>>, vs, returns, next)

(* The frame f is laid out wherever its parameters are. *)
Fits(f, ps, vs) ==
  \A b, d, m : (\A n \in 1 .. Len(ps) : /\ d[b + ps[n].off] = vs[n]
                                       /\ IF ps[n].type = "C" THEN vs[n] \in Instances ELSE vs[n] <= m)
              => InStack(f, b, d, m)

EntryAllowed(context, ps, vs, returns, next) ==
  /\ context \in {"action", "reaction", "getter", "other"} /\ returns \in BOOLEAN
  /\ ps \in Seq(Symbol) /\ vs \in Seq(Nat) /\ Parameters(context, returns, ps, vs)
  /\ next \in Nat /\ next = Len(ps) + 1

EntryFacts(f, context, ps, vs, returns) ==
  /\ GoodText(f)
  /\ f.context = context /\ f.returns = returns /\ ~f.mutable /\ f.changes = <<>>
  /\ f.scopes[1].kind = "list" /\ Below(f) = IF returns \/ context = "reaction" THEN 3 ELSE 2
  /\ Fits(f, ps, vs)

(* The frame of a call is well-formed, and laid out wherever its           *)
(* parameters are.                                                         *)
LEMMA EntryGood ==
  ASSUME NEW context, NEW returns, NEW ps, NEW vs, NEW next,
         EntryAllowed(context, ps, vs, returns, next),
         NEW f, f = Entry(context, ps, vs, returns, next)
  PROVE  EntryFacts(f, context, ps, vs, returns)
<1>0. /\ context \in {"action", "reaction", "getter", "other"} /\ returns \in BOOLEAN
      /\ ps \in Seq(Symbol) /\ vs \in Seq(Nat) /\ Parameters(context, returns, ps, vs)
      /\ next \in Nat /\ next = Len(ps) + 1
  BY DEF EntryAllowed
<1> DEFINE scopes == <<[kind |-> "list", symbols |-> <<>>], [kind |-> "parameters", symbols |-> ps]>>
<1>1. /\ GoodText(f)
      /\ f.context = context /\ f.returns = returns /\ ~f.mutable /\ f.changes = <<>>
      /\ f.values = vs /\ f.scopes[1].kind = "list" /\ f.scopes = scopes
  BY <1>0, FreshGood, SMTT(30) DEF Entry
<1>2. Below(f) = IF returns \/ context = "reaction" THEN 3 ELSE 2
  BY <1>1 DEF Below
<1>3. DOMAIN scopes = {1, 2} /\ DOMAIN scopes[1].symbols = {} /\ scopes[2].symbols = ps /\ DOMAIN ps = 1 .. Len(ps)
  BY <1>0
<1> HIDE DEF scopes
<1>4. \A k \in DOMAIN f.scopes : \A n \in DOMAIN f.scopes[k].symbols : n \in 1 .. Len(ps) /\ f.scopes[k].symbols = ps
  BY <1>1, <1>3
<1>5. ASSUME NEW b, NEW d, NEW m,
             \A n \in 1 .. Len(ps) : /\ d[b + ps[n].off] = vs[n]
                                     /\ IF ps[n].type = "C" THEN vs[n] \in Instances ELSE vs[n] <= m
      PROVE  InStack(f, b, d, m)
  BY <1>1, <1>4, <1>5 DEF InStack
<1>6. QED
  BY <1>1, <1>2, <1>5 DEF Fits, EntryFacts

(* A call that pushes its frame on the one that runs. *)
Calling(context, p, v, returns) ==
  /\ context \in {"other", "getter"} /\ returns \in BOOLEAN /\ (context = "getter" => returns)
  /\ p \in Symbol /\ p.kind # "Variable" /\ p.off = 0 - 2
  /\ v \in Nat /\ IF p.type = "C" THEN v \in Instances ELSE v <= Len(obj')
  /\ PushFrame(Entry(context, <<p>>, <<v>>, returns, 2), v)
  /\ info' \in Instances /\ ObjectsOK(obj') /\ Len(obj) <= Len(obj') /\ count' \in Nat
  /\ UNCHANGED <<bound, phase, list, heap, acts, ran>>

(* A call from the code of the running frame keeps the invariant.          *)
LEMMA CallingStep ==
  ASSUME IInv, Running, NEW context, NEW p, NEW v, NEW returns, Calling(context, p, v, returns)
  PROVE  IInv'
<1> USE DEF IInv
<1> DEFINE ps == <<p>>
           vs == <<v>>
           f == Entry(context, ps, vs, returns, 2)
           w == IF returns THEN 4 ELSE 3
           b == Len(data) + w
           u == (IF returns THEN <<0>> ELSE <<>>) \o <<v, 0, bp>>
<1>1. /\ context \in {"other", "getter"} /\ returns \in BOOLEAN /\ (context = "getter" => returns)
      /\ p \in Symbol /\ p.kind # "Variable" /\ p.off = 0 - 2 /\ v \in Nat
  BY DEF Calling
<1>2. /\ native # <<>> /\ native \in Seq(NativeType) /\ Current.ports = FALSE /\ bp \in Nat /\ data \in Seq(Nat)
      /\ Len(data) \in Nat
  BY Here, Under
<1>3. /\ ps \in Seq(Symbol) /\ vs \in Seq(Nat) /\ Len(ps) = 1 /\ Len(vs) = 1 /\ ps[1] = p /\ vs[1] = v
  BY <1>1
<1> HIDE DEF ps, vs
<1>4. Parameters(context, returns, ps, vs)
  <2>1. \A n \in 1 .. Len(ps) : n = 1
    BY <1>3
  <2>2. QED
    BY <1>1, <1>3, <2>1 DEF Parameters
<1> HIDE DEF f
<1>5. /\ GoodText(f)
      /\ f.context = context /\ f.returns = returns /\ ~f.mutable /\ f.changes = <<>>
      /\ f.scopes[1].kind = "list" /\ Below(f) = IF returns \/ context = "reaction" THEN 3 ELSE 2
      /\ Fits(f, ps, vs)
  <2>0. PICK n \in Nat : n = 2
    OBVIOUS
  <2>1. EntryAllowed(context, ps, vs, returns, n)
    BY <1>1, <1>3, <1>4, <2>0 DEF EntryAllowed
  <2>2. f = Entry(context, ps, vs, returns, n)
    BY <2>0 DEF f
  <2>3. EntryFacts(f, context, ps, vs, returns)
    BY <2>1, <2>2, EntryGood, Zenon
  <2>4. QED
    BY <2>3 DEF EntryFacts
<1>6. u \in Seq(Nat) /\ Len(u) = w /\ u[w - 2] = v /\ u[w] = bp /\ w \in {3, 4}
  BY <1>1, <1>2
<1>7. b = Len(data) + 1 + Below(f)
  BY <1>1, <1>2, <1>5
<1>8. /\ data' = data \o (u \o Locals) /\ bp' = b /\ text' = Put(text, b, f) /\ native' = Append(native, Native(b))
  BY <1>1, <1>5 DEF Calling, PushFrame, Words, f, ps, vs
<1> HIDE DEF u, w
<1>9. /\ data' \in Seq(Nat) /\ Len(data') = b + MaxLocals
      /\ (\A x \in 1 .. Len(data) : data'[x] = data[x])
      /\ data'[b - 2] = v /\ data'[b] = bp /\ b \in Nat
  <2>1. PICK dd : dd = data \o u \o Locals
    OBVIOUS
  <2>2. /\ dd \in Seq(Nat) /\ Len(dd) = Len(data) + Len(u) + MaxLocals
        /\ (\A x \in 1 .. Len(data) : dd[x] = data[x])
        /\ (\A x \in 1 .. Len(u) : dd[Len(data) + x] = u[x])
        /\ data \o (u \o Locals) = dd
    BY <1>2, <1>6, <2>1, Stacked
  <2>3. data' = dd
    BY <1>8, <2>2
  <2>4. w - 2 \in 1 .. Len(u) /\ w \in 1 .. Len(u) /\ Len(data) + (w - 2) = b - 2 /\ b \in Nat
    BY <1>2, <1>6
  <2>5. dd[b - 2] = v /\ dd[b] = bp
    BY <1>6, <2>2, <2>4
  <2>6. QED
    BY <1>6, <2>2, <2>3, <2>4, <2>5
<1>10. InStack(f, b, data', Len(obj'))
  <2>1. b + (0 - 2) = b - 2
    BY <1>9
  <2>2. \A n \in 1 .. Len(ps) : n = 1
    BY <1>3
  <2>3. IF p.type = "C" THEN v \in Instances ELSE v <= Len(obj')
    BY DEF Calling
  <2>4. \A n \in 1 .. Len(ps) : /\ data'[b + ps[n].off] = vs[n]
                                /\ IF ps[n].type = "C" THEN vs[n] \in Instances ELSE vs[n] <= Len(obj')
    BY <1>1, <1>3, <1>9, <2>1, <2>2, <2>3
  <2>5. QED
    BY <1>5, <2>4 DEF Fits
<1>11. SameCalls(native)
  BY <1>2 DEF SameCalls
<1>12. info' \in Instances /\ ObjectsOK(obj') /\ Len(obj) <= Len(obj') /\ count' \in Nat
       /\ UNCHANGED <<bound, phase, list, heap, acts, ran>>
  BY DEF Calling
<1> HIDE DEF b
<1>13. Pushes(f, b, native)
  BY <1>1, <1>2, <1>5, <1>7, <1>8, <1>9, <1>10, <1>11, <1>12 DEF Pushes
<1>14. QED
  BY <1>13, PushStep

(* A call of a function or a method keeps the invariant.                   *)
LEMMA CallStep ==
  ASSUME IInv, Running, NEW method \in BOOLEAN, NEW e, GoodPlace(e), NEW returns \in BOOLEAN,
         Call(method, e, returns)
  PROVE  IInv'
<1> DEFINE p == IF method THEN Sym("Receiver", e.type, Mutable, Least(ReceiverAllowed, e), 0 - 2)
                ELSE Sym("Ordinary", e.type, Mutable, Least(ArgumentAllowed, e), 0 - 2)
<1>1. info \in Instances /\ count \in Nat /\ ObjectsOK(obj)
  BY HereToo DEF IInv
<1>2. e.type \in {"C", "T", "H"} /\ e.ind \in Mutability /\ e.val \in Nat
  BY DEF GoodPlace
<1>3. p \in Symbol /\ p.kind # "Variable" /\ p.off = 0 - 2 /\ p.type = e.type
  <2>1. /\ Least(ArgumentAllowed, e) \in Mutability /\ Least(ReceiverAllowed, e) \in Mutability
        /\ Mutable \in Mutability
    BY <1>2, LeastType DEF Mutability
  <2>2. QED
    BY <1>2, <2>1 DEF Sym, Symbol, Kind
<1>4. /\ PushFrame(Entry("other", <<p>>, <<e.val>>, returns, 2), e.val) /\ obj' = Allocated(e) /\ count' = count + 1
      /\ UNCHANGED <<bound, phase, list, info, heap, acts, ran>>
  BY DEF Call, Take, Entry
<1>5. ObjectsOK(obj') /\ Len(obj) <= Len(obj')
  BY <1>1, <1>4, Allocation DEF IInv
<1>6. IF p.type = "C" THEN e.val \in Instances ELSE e.val <= Len(obj')
  BY <1>3, <1>4 DEF GoodPlace
<1> HIDE DEF p
<1>7. Calling("other", p, e.val, returns)
  BY <1>1, <1>2, <1>3, <1>4, <1>5, <1>6 DEF Calling
<1>8. QED
  BY <1>7, CallingStep

(* A call of a pull port or a getter keeps the invariant.                  *)
LEMMA CallGetterStep ==
  ASSUME IInv, Running, NEW i \in Instances, CallGetter(i)
  PROVE  IInv'
<1> DEFINE p == Sym("Receiver", "C", Mutable, Immutable, 0 - 2)
<1>1. count \in Nat /\ ObjectsOK(obj) /\ Len(obj) \in Nat
  BY HereToo DEF IInv
<1>2. i \in Nat
  BY Constants
<1>3. p \in Symbol /\ p.kind # "Variable" /\ p.off = 0 - 2 /\ p.type = "C"
  BY DEF Sym, Symbol, Kind, Mutability, Mutable, Immutable
<1>4. /\ PushFrame(Entry("getter", <<p>>, <<i>>, TRUE, 2), i) /\ obj' = obj /\ count' = count + 1 /\ info' = i
      /\ UNCHANGED <<bound, phase, list, heap, acts, ran>>
  BY DEF CallGetter, Take, Entry
<1> HIDE DEF p
<1>5. Len(obj) <= Len(obj') /\ ObjectsOK(obj')
  BY <1>1, <1>4
<1>6. "getter" \in {"other", "getter"} /\ TRUE \in BOOLEAN /\ ("getter" = "getter" => TRUE)
  OBVIOUS
<1>61. (IF p.type = "C" THEN i \in Instances ELSE i <= Len(obj')) /\ info' \in Instances /\ count' \in Nat
  BY <1>1, <1>3, <1>4
<1>7. Calling("getter", p, i, TRUE)
  BY <1>2, <1>3, <1>4, <1>5, <1>6, <1>61, Zenon DEF Calling
<1>8. QED
  BY <1>7, CallingStep

(* A reaction that push_port_call runs keeps the invariant.                *)
LEMMA ReactStep ==
  ASSUME IInv, React
  PROVE  IInv'
<1> USE DEF IInv
<1> DEFINE i == Head(Current.todo)
           arg == data[Current.top]
           ps == <<Sym("Receiver", "C", Mutable, Immutable, 0 - 3), Sym("Ordinary", Current.type, Mutable, Foreign, 0 - 2)>>
           vs == <<i, arg>>
           f == Entry("reaction", ps, vs, FALSE, 3)
           b == Len(data) + 4
           u == <<i, arg, 0, list>>
           s == [native EXCEPT ![Len(native)].todo = Tail(@)]
<1>1. native # <<>> /\ Current.ports /\ Current.todo # <<>>
  BY DEF React, InPorts
<1>20. PICK t : t = Len(native)
  OBVIOUS
<1>2. /\ native \in Seq(NativeType) /\ t \in Nat /\ t >= 1 /\ t \in DOMAIN native
      /\ DOMAIN native = 1 .. t /\ Current = native[t]
      /\ bp \in Nat /\ data \in Seq(Nat) /\ Len(data) \in Nat
  BY <1>1, <1>20, Under
<1>3. /\ native[t] \in NativeType /\ native[t].ports \in BOOLEAN
      /\ native[t].todo \in Seq(Instances) /\ native[t].top \in Nat /\ native[t].type \in {"T", "H"}
  BY <1>2, NativeTypes
<1>4. i \in Instances /\ i \in Nat /\ Tail(native[t].todo) \in Seq(Instances)
  <2>1. PICK q : q = native[t].todo
    OBVIOUS
  <2>2. q \in Seq(Instances) /\ q # <<>> /\ Current.todo = q
    BY <1>1, <1>2, <1>3, <2>1
  <2>3. Head(q) \in Instances /\ Tail(q) \in Seq(Instances)
    BY <2>2
  <2>4. Head(q) \in Nat
    BY <2>3, Constants
  <2>5. QED
    BY <2>1, <2>2, <2>3, <2>4
<1>5. arg \in Nat /\ arg <= Len(obj)
  <2>1. native[t].top \in 1 .. Len(data) /\ data[native[t].top] <= Len(obj)
    BY <1>1, <1>2 DEF Shape, Arguments
  <2>2. QED
    BY <1>2, <2>1
<1>6. list \in Nat /\ count \in Nat /\ ObjectsOK(obj) /\ Len(obj) \in Nat
  <2>1. list \in Nat /\ count \in Nat /\ ObjectsOK(obj)
    BY DEF Shape, Types
  <2>2. QED
    BY <2>1 DEF ObjectsOK
<1>7. /\ ps \in Seq(Symbol) /\ Len(ps) = 2 /\ ps[1].kind # "Variable" /\ ps[2].kind # "Variable"
      /\ ps[1].off = 0 - 3 /\ ps[2].off = 0 - 2 /\ ps[1].type = "C" /\ ps[2].type # "C"
  <2>1. /\ Sym("Receiver", "C", Mutable, Immutable, 0 - 3) \in Symbol
        /\ Sym("Ordinary", Current.type, Mutable, Foreign, 0 - 2) \in Symbol
    BY <1>2, <1>3 DEF Sym, Symbol, Kind, Mutability, Mutable, Immutable, Foreign
  <2>2. Current.type # "C"
    BY <1>2, <1>3
  <2>3. QED
    BY <2>1, <2>2 DEF Sym
<1>8. vs \in Seq(Nat) /\ Len(vs) = 2 /\ vs[1] = i /\ vs[2] = arg
  BY <1>4, <1>5
<1>9. u \in Seq(Nat) /\ Len(u) = 4 /\ u[1] = i /\ u[2] = arg
  BY <1>4, <1>5, <1>6
<1>10. SameCalls(s) /\ s \in Seq(NativeType)
  <2>1. [native[t] EXCEPT !.todo = Tail(native[t].todo)] \in NativeType
    BY <1>3, <1>4 DEF NativeType
  <2>2. s = [native EXCEPT ![t] = [native[t] EXCEPT !.todo = Tail(native[t].todo)]]
    BY <1>20
  <2>3. PICK x : x = [native[t] EXCEPT !.todo = Tail(native[t].todo)]
    OBVIOUS
  <2>4. /\ x.bp = native[t].bp /\ x.old = native[t].old /\ x.ports = native[t].ports /\ x.top = native[t].top
    BY <1>3, <2>3 DEF NativeType
  <2>5. s = [native EXCEPT ![t] = x] /\ x \in NativeType
    BY <2>1, <2>2, <2>3
  <2> HIDE DEF s
  <2>6. s \in Seq(NativeType) /\ Len(s) = Len(native) /\ \A k \in 1 .. Len(native) : s[k] = IF k = t THEN x ELSE native[k]
    BY <1>2, <1>20, <2>5, ExceptSeq
  <2>7. native[t].todo # <<>>
    BY <1>1, <1>2
  <2>8. QED
    BY <1>2, <1>20, <2>4, <2>6, <2>7 DEF SameCalls
<1>11. /\ data' = data \o u \o Locals /\ bp' = b /\ text' = Put(text, b, f) /\ native' = Append(s, Native(b))
       /\ info' = i /\ obj' = obj
       /\ UNCHANGED <<bound, phase, list, heap, acts, ran, count>>
  BY DEF React, Entry
<1> HIDE DEF u, ps, vs, f, s, i, arg
<1>12. EntryFacts(f, "reaction", ps, vs, FALSE)
  <2>0. PICK n \in Nat : n = 3
    OBVIOUS
  <2>1. Parameters("reaction", FALSE, ps, vs)
    <3>1. \A n0 \in 1 .. Len(ps) : n0 = 1 \/ n0 = 2
      BY <1>7
    <3>2. QED
      BY <1>7, <1>8, <3>1 DEF Parameters
  <2>2. EntryAllowed("reaction", ps, vs, FALSE, n)
    <3>1. "reaction" \in {"action", "reaction", "getter", "other"} /\ FALSE \in BOOLEAN
      OBVIOUS
    <3>2. ps \in Seq(Symbol) /\ vs \in Seq(Nat) /\ n = Len(ps) + 1
      BY <1>7, <1>8, <2>0
    <3>3. QED
      BY <2>0, <2>1, <3>1, <3>2, Zenon DEF EntryAllowed
  <2>3. f = Entry("reaction", ps, vs, FALSE, n)
    BY <2>0 DEF f
  <2>4. QED
    BY <2>2, <2>3, EntryGood, Zenon
<1>13. /\ data' \in Seq(Nat) /\ Len(data') = b + MaxLocals
       /\ (\A x \in 1 .. Len(data) : data'[x] = data[x])
       /\ data'[b - 3] = i /\ data'[b - 2] = arg /\ b \in Nat
  <2>1. PICK dd : dd = data \o u \o Locals
    OBVIOUS
  <2>2. /\ dd \in Seq(Nat) /\ Len(dd) = Len(data) + Len(u) + MaxLocals
        /\ (\A x \in 1 .. Len(data) : dd[x] = data[x])
        /\ (\A x \in 1 .. Len(u) : dd[Len(data) + x] = u[x])
    BY <1>2, <1>9, <2>1, Stacked
  <2>3. data' = dd
    BY <1>11, <2>1
  <2>4. 1 \in 1 .. Len(u) /\ 2 \in 1 .. Len(u) /\ Len(data) + 1 = b - 3 /\ Len(data) + 2 = b - 2 /\ b \in Nat
    BY <1>2, <1>9
  <2>5. dd[b - 3] = i /\ dd[b - 2] = arg
    BY <1>9, <2>2, <2>4
  <2>6. QED
    BY <1>9, <2>2, <2>3, <2>4, <2>5
<1>14. b = Len(data) + 1 + Below(f)
  BY <1>2, <1>12 DEF EntryFacts
<1> HIDE DEF b
<1>15. InStack(f, b, data', Len(obj'))
  <2>1. b + (0 - 2) = b - 2 /\ b + (0 - 3) = b - 3
    BY <1>13
  <2>2. \A n \in 1 .. Len(ps) : n = 1 \/ n = 2
    BY <1>7
  <2>4. \A n \in 1 .. Len(ps) : /\ data'[b + ps[n].off] = vs[n]
                                /\ IF ps[n].type = "C" THEN vs[n] \in Instances ELSE vs[n] <= Len(obj')
    BY <1>4, <1>5, <1>7, <1>8, <1>11, <1>13, <2>1, <2>2
  <2>5. QED
    BY <1>12, <2>4 DEF Fits, EntryFacts
<1>16. ObjectsOK(obj') /\ Len(obj) <= Len(obj') /\ info' \in Instances /\ count' \in Nat
  BY <1>4, <1>6, <1>11
<1>17. Pushes(f, b, s)
  BY <1>1, <1>10, <1>11, <1>12, <1>13, <1>14, <1>15, <1>16 DEF Pushes, EntryFacts
<1>18. QED
  BY <1>17, PushStep

(* At the end of its body a frame neither has activated nor is inside a    *)
(* change statement.                                                       *)
LEMMA AtList ==
  ASSUME NEW f, GoodText(f), f.scopes[1].kind = "list"
  PROVE  f.mutable = FALSE /\ f.changes = <<>>
<1>1. /\ f \in FrameType /\ Nested(f) /\ f.changes \in Seq(Nat) /\ Len(f.scopes) \in Nat /\ Len(f.scopes) >= 2
      /\ DOMAIN f.scopes = 1 .. Len(f.scopes)
  BY Basics
<1>2. PICK n \in Nat : n = Len(f.scopes)
  BY <1>1
<1>3. n = 2
  <2>1. 1 \in DOMAIN f.scopes
    BY <1>1
  <2>2. f.scopes[1].kind = "list" <=> 1 = Len(f.scopes) - 1
    BY <1>1, <2>1 DEF Nested
  <2>3. QED
    BY <1>2, <2>2
<1>4. \A k \in DOMAIN f.scopes : f.scopes[k].kind # "activate"
  <2>1. \A k \in DOMAIN f.scopes : k = 1 \/ k = n
    BY <1>1, <1>2, <1>3
  <2>2. f.scopes[n].kind = "parameters"
    BY <1>1, <1>2, <1>3 DEF Nested
  <2>3. QED
    BY <2>1, <2>2
<1>5. f.mutable \in BOOLEAN
  BY <1>1 DEF FrameType
<1>6. ~f.mutable
  BY <1>1, <1>4 DEF Nested
<1>7. PICK depth : Depths(f, depth)
  BY DEF GoodText
<1>8. Len(f.changes) = 0
  <2>1. 1 \in DOMAIN f.scopes
    BY <1>1
  <2>2. QED
    BY <1>7, <2>1 DEF Depths
<1>9. QED
  BY <1>1, <1>5, <1>6, <1>8, EmptySeq

(* Where the frame that runs comes from. *)
LEMMA Nature ==
  ASSUME Shape, Running
  PROVE  /\ \A c \in DOMAIN text : c <= bp
         /\ F.mutable => F.context \in {"action", "reaction"}
         /\ F.context \in {"other", "getter"} =>
              /\ Len(native) > 1 /\ ~native[Len(native) - 1].ports
              /\ data[bp] = native[Len(native) - 1].bp /\ ~F.mutable
         /\ F.context = "reaction" /\ ~F.mutable => Len(native) > 1
         /\ F.context = "reaction" /\ Len(native) > 1 => native[Len(native) - 1].ports
         /\ F.context = "action" => Len(native) = 1
         /\ phase = "mutable" => (F.mutable <=> Len(native) = 1)
         /\ phase = "immutable" => ~F.mutable
<1>1. PICK t : t = Len(native)
  OBVIOUS
<1>2. /\ native # <<>> /\ native \in Seq(NativeType) /\ t \in Nat /\ t >= 1 /\ t \in DOMAIN native
      /\ DOMAIN native = 1 .. t /\ bp = native[t].bp /\ bp \in DOMAIN text /\ bp \in Nat /\ F = text[bp]
      /\ ~native[t].ports /\ DOMAIN text \subseteq Nat /\ phase # "done"
  BY <1>1, Here, Under
<1>3. Calls /\ Deferred /\ Phases
  BY DEF Shape
<1>4. \A c \in DOMAIN text : c <= bp
  <2>1. \A c \in DOMAIN text : ~(c > bp)
    BY <1>2, <1>3 DEF Calls
  <2>2. QED
    BY <1>2, <2>1
<1>5. F.mutable => F.context \in {"action", "reaction"}
  BY <1>2, <1>3 DEF Deferred
<1>6. t > 1 => \/ F.context \in {"other", "getter"} /\ ~native[t - 1].ports /\ data[bp] = native[t - 1].bp
               \/ F.context = "reaction" /\ native[t - 1].ports
  BY <1>2, <1>3 DEF Calls
<1>7. phase \in {"immutable", "mutable"}
  BY <1>2 DEF Shape, Types
<1>8. t = 1 => F.context \in {"action", "reaction"}
  <2>1. CASE phase = "immutable"
    BY <1>2, <1>3, <2>1 DEF Phases
  <2>2. CASE phase = "mutable"
    <3>1. t = 1 => bp = acts[Left] /\ Left >= 1
      BY <1>2, <1>3, <2>2 DEF Phases
    <3>2. Left \in Nat
      BY <1>3 DEF Deferred, Shape, Types
    <3>3. t = 1 => Left \in 1 .. Left
      BY <3>1, <3>2
    <3>4. QED
      BY <1>2, <1>3, <3>1, <3>3 DEF Deferred
  <2>3. QED
    BY <1>7, <2>1, <2>2
<1>9. phase = "immutable" => ~F.mutable
  BY <1>2, <1>3 DEF Phases
<1>10. phase = "mutable" => (F.mutable <=> t = 1)
  <2> SUFFICES ASSUME phase = "mutable" PROVE F.mutable <=> t = 1
    OBVIOUS
  <2>1. ASSUME t = 1 PROVE F.mutable
    <3>1. bp = acts[Left] /\ Left >= 1
      BY <1>2, <1>3, <2>1 DEF Phases
    <3>2. Left \in Nat
      BY <1>3 DEF Deferred, Shape, Types
    <3>3. Left \in 1 .. Left
      BY <3>1, <3>2
    <3>4. QED
      BY <1>2, <1>3, <3>1, <3>3 DEF Deferred
  <2>2. ASSUME F.mutable, t > 1 PROVE FALSE
    <3>1. F.context = "reaction" /\ native[t - 1].ports
      BY <1>5, <1>6, <2>2
    <3>2. t - 1 \in DOMAIN native
      BY <1>2, <2>2
    <3>3. QED
      BY <1>3, <3>1, <3>2 DEF Phases
  <2>3. QED
    BY <1>2, <2>1, <2>2
<1>11. F.context = "reaction" /\ ~F.mutable => t > 1
  <2> SUFFICES ASSUME F.context = "reaction", ~F.mutable, t = 1 PROVE FALSE
    BY <1>2
  <2>1. phase = "immutable"
    BY <1>7, <1>10
  <2>2. QED
    BY <1>2, <1>3, <2>1 DEF Phases
<1>12. QED
  BY <1>1, <1>2, <1>4, <1>5, <1>6, <1>8, <1>9, <1>10, <1>11

-----------------------------------------------------------------------------
(* The frame of the native call below.                                     *)
Caller == native[Len(native) - 1].bp

(* A frame returns to the native call below: its words may go, and the frame of
   its caller, if it is called from the code there, becomes g. *)
Pops(g) ==
  /\ Len(native) > 1 /\ ~F.mutable /\ F.changes = <<>>
  /\ bp' = Caller /\ native' = Front(native) /\ info' = Current.old
  /\ text' = [x \in DOMAIN text \ {bp} |-> IF x = Caller THEN g ELSE text[x]]
  /\ GoodText(g) /\ InStack(g, Caller, data', Len(obj'))
  /\ g.context = text[Caller].context /\ g.returns = text[Caller].returns /\ g.mutable = text[Caller].mutable
  /\ g.changes = text[Caller].changes /\ g.scopes[1].kind = text[Caller].scopes[1].kind
  /\ data' \in Seq(Nat) /\ bp - Below(F) - 1 <= Len(data') /\ Len(data') <= Len(data)
  /\ \A x \in 1 .. Len(data') :
       \/ data'[x] = data[x]
       \/ /\ ~native[Len(native) - 1].ports
          /\ x \in Caller - Below(text[Caller]) .. Caller - 2 \/ x \in Caller + 1 .. Caller + MaxLocals
  /\ ObjectsOK(obj') /\ Len(obj) <= Len(obj') /\ count' \in Nat
  /\ UNCHANGED <<bound, phase, list, heap, acts, ran>>

(* What popping a frame changes, part by part.                             *)
LEMMA Popped0 ==
  ASSUME Shape, Running, NEW g, Pops(g), NEW t, t = Len(native)
  PROVE  /\ native \in Seq(NativeType) /\ t \in Nat /\ t > 1 /\ DOMAIN native = 1 .. t
         /\ bp = native[t].bp /\ bp \in DOMAIN text /\ bp \in Nat /\ F = text[bp] /\ bp > Below(F)
         /\ native' \in Seq(NativeType) /\ Len(native') = t - 1 /\ DOMAIN native' = 1 .. t - 1
         /\ \A k \in 1 .. t - 1 : native'[k] = native[k] /\ native[k].bp \in DOMAIN text' /\ native[k].bp < bp
         /\ Caller = native[t - 1].bp /\ Caller \in DOMAIN text /\ Caller # bp /\ Caller \in Nat
         /\ DOMAIN text' = DOMAIN text \ {bp} /\ text'[Caller] = g
         /\ \A c \in DOMAIN text' : /\ c \in DOMAIN text /\ (c # Caller => text'[c] = text[c])
                                    /\ text'[c].context = text[c].context /\ text'[c].mutable = text[c].mutable
                                    /\ text'[c].changes = text[c].changes
                                    /\ text'[c].scopes[1].kind = text[c].scopes[1].kind
                                    /\ Below(text'[c]) = Below(text[c])
                                    /\ c \in Nat /\ c < bp /\ c + MaxLocals < bp - Below(F)
<1>1. /\ native # <<>> /\ native \in Seq(NativeType) /\ t \in Nat /\ DOMAIN native = 1 .. t
      /\ bp = native[t].bp /\ bp \in DOMAIN text /\ bp \in Nat /\ F = text[bp] /\ bp > Below(F)
      /\ DOMAIN text \subseteq Nat
  BY Here, Under
<1>2. t > 1 /\ native' = Front(native) /\ text' = [x \in DOMAIN text \ {bp} |-> IF x = Caller THEN g ELSE text[x]]
  BY DEF Pops
<1>3. native' \in Seq(NativeType) /\ Len(native') = t - 1 /\ \A k \in 1 .. t - 1 : native'[k] = native[k]
  <2>1. Front(native) = SubSeq(native, 1, t - 1)
    BY DEF Front
  <2>2. t - 1 \in Int /\ 0 <= t - 1 /\ t - 1 <= Len(native)
    BY <1>1, <1>2
  <2>3. QED
    BY <1>1, <1>2, <2>1, <2>2, PrefixFacts
<1>4. DOMAIN native' = 1 .. t - 1
  BY <1>3
<1>5. \A k \in 1 .. t - 1 : native[k].bp \in DOMAIN text /\ native[k].bp < bp
  BY <1>1, <1>2 DEF Shape, Calls
<1>6. Caller = native[t - 1].bp /\ t - 1 \in 1 .. t - 1
  BY <1>1, <1>2 DEF Caller
<1>7. Caller \in DOMAIN text /\ Caller # bp /\ Caller \in Nat
  BY <1>1, <1>5, <1>6
<1>8. DOMAIN text' = DOMAIN text \ {bp} /\ text'[Caller] = g /\ \A c \in DOMAIN text' : c # Caller => text'[c] = text[c]
  BY <1>2, <1>7
<1>9. ASSUME NEW c \in DOMAIN text'
      PROVE  /\ c \in DOMAIN text
             /\ text'[c].context = text[c].context /\ text'[c].mutable = text[c].mutable
             /\ text'[c].changes = text[c].changes
             /\ text'[c].scopes[1].kind = text[c].scopes[1].kind
             /\ text'[c].returns = text[c].returns
  BY <1>8 DEF Pops
<1>10. \A c \in DOMAIN text' : Below(text'[c]) = Below(text[c])
  BY <1>9 DEF Below
<1>11. \A c \in DOMAIN text' : c \in Nat /\ c < bp
  BY <1>1, <1>8, <1>9, Nature
<1>12. \A c \in DOMAIN text' : c + MaxLocals < bp - Below(F)
  BY <1>1, <1>9, <1>11 DEF Shape, Layout
<1>13. \A k \in 1 .. t - 1 : native[k].bp \in DOMAIN text'
  BY <1>1, <1>5, <1>8
<1>14. QED
  BY <1>1, <1>2, <1>3, <1>4, <1>5, <1>6, <1>7, <1>8, <1>9, <1>10, <1>11, <1>12, <1>13, ZenonT(60)

(* The words of the frames that stay. *)
LEMMA PoppedWords ==
  ASSUME Shape, Running, NEW g, Pops(g), NEW b \in DOMAIN text'
  PROVE  /\ b + MaxLocals <= Len(data') /\ data'[b] = data[b]
         /\ b # Caller => Untouched(data, data', b, Below(text[b]))
<1>1. PICK t : t = Len(native)
  OBVIOUS
<1>2. /\ bp \in Nat /\ Caller \in Nat /\ Caller \in DOMAIN text
      /\ b \in DOMAIN text /\ b \in Nat /\ b < bp /\ b + MaxLocals < bp - Below(F)
  BY <1>1, Popped0
<1>3. PICK v \in {2, 3} : v = Below(text[b])
  BY DEF Below
<1>4. PICK w \in {2, 3} : w = Below(text[Caller])
  BY DEF Below
<1>5. PICK z \in {2, 3} : z = Below(F)
  BY DEF Below
<1>6. PICK m \in Nat : m = MaxLocals
  BY Constants
<1>7. data' \in Seq(Nat) /\ bp - z - 1 <= Len(data')
      /\ \A x \in 1 .. Len(data') : \/ data'[x] = data[x]
                                    \/ x \in Caller - w .. Caller - 2 \/ x \in Caller + 1 .. Caller + m
  BY <1>4, <1>5, <1>6 DEF Pops
<1>8. PICK n \in Nat : n = Len(data')
  BY <1>7
<1>9. b + m <= n
  BY <1>2, <1>5, <1>6, <1>7, <1>8
<1>10. b > v
  BY <1>2, <1>3 DEF Shape, Layout
<1>11. b \in 1 .. n
  BY <1>2, <1>9, <1>10
<1>12. CASE b = Caller
  <2>1. ~(b \in Caller - w .. Caller - 2 \/ b \in Caller + 1 .. Caller + m)
    BY <1>2, <1>12
  <2>2. data'[b] = data[b]
    BY <1>7, <1>8, <1>11, <2>1
  <2>3. QED
    BY <1>6, <1>8, <1>9, <1>12, <2>2
<1>13. CASE b # Caller
  <2>1. (b < Caller => b + m < Caller - w) /\ (Caller < b => Caller + m < b - v)
    BY <1>2, <1>3, <1>4, <1>6 DEF Shape, Layout
  <2>2. \A x \in b - v .. b + m : x \in 1 .. n /\ ~(x \in Caller - w .. Caller - 2 \/ x \in Caller + 1 .. Caller + m)
    BY <1>2, <1>9, <1>10, <1>13, <2>1, Disjoint, SMTT(30)
  <2>3. \A x \in b - v .. b + m : data'[x] = data[x]
    BY <1>7, <1>8, <2>2
  <2>4. b \in b - v .. b + m
    BY <1>2
  <2>5. QED
    BY <1>3, <1>6, <1>8, <1>9, <2>3, <2>4 DEF Untouched
<1>14. QED
  BY <1>12, <1>13

(* Popping the frame on top of the stack keeps its shape.                  *)
LEMMA PopShape ==
  ASSUME Shape, Running, NEW g, Pops(g)
  PROVE  Shape'
<1>1. PICK t : t = Len(native)
  OBVIOUS
<1>2. /\ native \in Seq(NativeType) /\ t \in Nat /\ t > 1 /\ DOMAIN native = 1 .. t
      /\ bp = native[t].bp /\ bp \in DOMAIN text /\ bp \in Nat /\ F = text[bp] /\ bp > Below(F)
      /\ native' \in Seq(NativeType) /\ Len(native') = t - 1 /\ DOMAIN native' = 1 .. t - 1
      /\ \A k \in 1 .. t - 1 : native'[k] = native[k] /\ native[k].bp \in DOMAIN text' /\ native[k].bp < bp
      /\ Caller = native[t - 1].bp /\ Caller \in DOMAIN text /\ Caller # bp /\ Caller \in Nat
      /\ DOMAIN text' = DOMAIN text \ {bp} /\ text'[Caller] = g
      /\ \A c \in DOMAIN text' : /\ c \in DOMAIN text /\ (c # Caller => text'[c] = text[c])
                                 /\ text'[c].context = text[c].context /\ text'[c].mutable = text[c].mutable
                                 /\ text'[c].changes = text[c].changes
                                 /\ text'[c].scopes[1].kind = text[c].scopes[1].kind
                                 /\ Below(text'[c]) = Below(text[c])
                                 /\ c \in Nat /\ c < bp /\ c + MaxLocals < bp - Below(F)
  BY <1>1, Popped0
<1>3. /\ bp' = Caller /\ ~F.mutable
      /\ bound' = bound /\ phase' = phase /\ list' = list /\ heap' = heap /\ acts' = acts /\ ran' = ran
      /\ data' \in Seq(Nat) /\ GoodText(g) /\ InStack(g, Caller, data', Len(obj'))
      /\ ObjectsOK(obj') /\ Len(obj) <= Len(obj') /\ count' \in Nat
  BY DEF Pops
<1>4. info' = native[t].old /\ info' \in Instances
  <2>1. info' = Current.old /\ Current = native[t]
    BY <1>1, Under, Here DEF Pops
  <2>2. native[t].old \in Instances
    BY <1>2 DEF Shape, Calls
  <2>3. QED
    BY <2>1, <2>2
<1>5. \A b \in DOMAIN text' : /\ b + MaxLocals <= Len(data') /\ data'[b] = data[b]
                              /\ b # Caller => Untouched(data, data', b, Below(text[b]))
  BY PoppedWords
<1>6. data \in Seq(Nat) /\ Len(data) \in Nat /\ Len(obj) \in Nat /\ Len(obj') \in Nat /\ DOMAIN text \subseteq Nat
  <2>1. data \in Seq(Nat) /\ obj \in Seq(ObjectType) /\ obj' \in Seq(ObjectType) /\ DOMAIN text \subseteq Nat
    BY <1>3 DEF Shape, Types, ObjectsOK
  <2>2. QED
    BY <2>1
<1>7. Types'
  <2>1. ObjectsOK(obj)'
    BY <1>3 DEF ObjectsOK, N
  <2>2. text' \in [DOMAIN text' -> FrameType]
    <3>1. text \in [DOMAIN text -> FrameType] /\ g \in FrameType
      BY <1>3 DEF Shape, Types, GoodText
    <3>2. \A c \in DOMAIN text' : text'[c] \in FrameType
      BY <1>2, <3>1
    <3>3. text' = [c \in DOMAIN text' |-> text'[c]]
      BY <1>2 DEF Pops
    <3>4. QED
      BY <3>2, <3>3
  <2>3. DOMAIN text' \subseteq Nat /\ info' \in Nat /\ bp' \in Nat
    <3>1. DOMAIN text' \subseteq Nat
      BY <1>2, <1>6
    <3>2. info' \in Nat
      BY <1>4, Constants
    <3>3. QED
      BY <1>2, <1>3, <3>1, <3>2
  <2>4. QED
    BY <1>2, <1>3, <2>1, <2>2, <2>3 DEF Shape, Types
<1>8. Frames'
  <2> SUFFICES ASSUME NEW b \in DOMAIN text'
               PROVE  GoodText(text'[b]) /\ InStack(text'[b], b, data', Len(obj'))
    BY DEF Frames, GoodText, InStack
  <2>1. CASE b = Caller
    BY <1>2, <1>3, <2>1
  <2>2. CASE b # Caller
    <3>1. text'[b] = text[b] /\ b \in DOMAIN text /\ b \in Nat
      BY <1>2, <2>2
    <3>2. Untouched(data, data', b, Below(text[b]))
      BY <1>5, <2>2
    <3>3. GoodText(text[b]) /\ InStack(text[b], b, data, Len(obj)) /\ b > Below(text[b]) /\ b + MaxLocals <= Len(data)
      BY <3>1 DEF Shape, Frames, Layout
    <3>4. InStack(text[b], b, data', Len(obj'))
      BY <1>3, <1>6, <3>1, <3>2, <3>3, InStackSame
    <3>5. QED
      BY <3>1, <3>3, <3>4
  <2>3. QED
    BY <2>1, <2>2
<1>9. Layout'
  <2>1. \A b \in DOMAIN text' : b > Below(text'[b]) /\ b + MaxLocals <= Len(data')
    BY <1>2, <1>5 DEF Shape, Layout
  <2>2. \A b, c \in DOMAIN text' : b < c => b + MaxLocals < c - Below(text'[c])
    BY <1>2 DEF Shape, Layout
  <2>3. QED
    BY <2>1, <2>2 DEF Layout, Below
<1>10. t - 1 \in 1 .. t - 1 /\ (\A k \in 1 .. t - 1 : k \in DOMAIN native /\ k # t) /\ native' # <<>>
       /\ \A k \in DOMAIN native : k \in 1 .. t - 1 \/ k = t
  BY <1>2
<1>18. ASSUME NEW k \in 1 .. t - 1
       PROVE  /\ k \in DOMAIN native /\ k < t /\ native'[k] = native[k] /\ native[k].bp \in DOMAIN text'
              /\ native[k].bp \in DOMAIN text
              /\ text'[native[k].bp].context = text[native[k].bp].context
              /\ text'[native[k].bp].mutable = text[native[k].bp].mutable
              /\ text'[native[k].bp].changes = text[native[k].bp].changes
              /\ text'[native[k].bp].scopes[1].kind = text[native[k].bp].scopes[1].kind
              /\ Below(text'[native[k].bp]) = Below(text[native[k].bp])
              /\ data'[native[k].bp] = data[native[k].bp]
  <2>1. k \in DOMAIN native /\ k < t /\ native'[k] = native[k] /\ native[k].bp \in DOMAIN text'
    BY <1>2, <1>10
  <2>2. PICK c \in DOMAIN text' : c = native[k].bp
    BY <2>1
  <2>3. /\ c \in DOMAIN text
        /\ text'[c].context = text[c].context /\ text'[c].mutable = text[c].mutable
        /\ text'[c].changes = text[c].changes
        /\ text'[c].scopes[1].kind = text[c].scopes[1].kind
        /\ Below(text'[c]) = Below(text[c])
    BY <1>2
  <2>4. data'[c] = data[c]
    BY <1>5
  <2>5. QED
    BY <2>1, <2>2, <2>3, <2>4
<1>11. Calls'
  <2>0. Calls
    BY DEF Shape
  <2>1. bp' = native'[Len(native')].bp /\ info' \in Instances
    BY <1>2, <1>3, <1>4, <1>10
  <2>2. \A k \in DOMAIN native' : native'[k].bp \in DOMAIN text'
    BY <1>2
  <2>3. \A j, k \in DOMAIN native' : j < k => native'[j].bp < native'[k].bp
    BY <1>2, <1>10, <2>0 DEF Calls
  <2>4. \A j, k \in DOMAIN native' : j < k /\ native'[k].ports => native'[j].ports
    BY <1>2, <1>10, <2>0 DEF Calls
  <2>5. \A k \in DOMAIN native' : k > 1 =>
       /\ native'[k].old \in Instances
       /\ \/ /\ text'[native'[k].bp].context \in {"other", "getter"}
             /\ ~native'[k - 1].ports /\ data'[native'[k].bp] = native'[k - 1].bp
          \/ text'[native'[k].bp].context = "reaction" /\ native'[k - 1].ports
    <3> SUFFICES ASSUME NEW k \in 1 .. t - 1, k > 1
                 PROVE  /\ native[k].old \in Instances
                        /\ \/ /\ text'[native[k].bp].context \in {"other", "getter"}
                              /\ ~native'[k - 1].ports /\ data'[native[k].bp] = native'[k - 1].bp
                           \/ text'[native[k].bp].context = "reaction" /\ native'[k - 1].ports
      BY <1>2
    <3>1. k - 1 \in 1 .. t - 1
      BY <1>2
    <3>2. native'[k - 1] = native[k - 1] /\ native[k].bp \in DOMAIN text' /\ k \in DOMAIN native
      BY <1>2, <1>10, <3>1
    <3>3. text'[native[k].bp].context = text[native[k].bp].context /\ data'[native[k].bp] = data[native[k].bp]
      BY <1>2, <1>5, <3>2
    <3>4. QED
      BY <2>0, <3>2, <3>3 DEF Calls
  <2>6. \A k \in DOMAIN native' : ~native'[k].ports =>
       \A c \in DOMAIN text' : c > native'[k].bp => \E j \in DOMAIN native' : j > k /\ c = native'[j].bp
    <3> SUFFICES ASSUME NEW k \in 1 .. t - 1, ~native[k].ports, NEW c \in DOMAIN text', c > native[k].bp
                 PROVE  \E j \in DOMAIN native' : j > k /\ c = native'[j].bp
      BY <1>2, SMTT(30)
    <3>0. c \in DOMAIN text /\ k \in DOMAIN native /\ ~native[k].ports /\ c # bp
      BY <1>2, <1>18
    <3>1. PICK j \in DOMAIN native : j > k /\ c = native[j].bp
      BY <2>0, <3>0 DEF Calls
    <3>2. j # t
      BY <1>2, <3>1
    <3>3. QED
      BY <1>2, <1>10, <3>1, <3>2
  <2>7. QED
    BY <2>1, <2>2, <2>3, <2>4, <2>5, <2>6 DEF Calls
<1>12. Quiet'
  <2>0. Quiet
    BY DEF Shape
  <2>1. \A k \in DOMAIN native' : text'[native'[k].bp].scopes[1].kind = "activate" =>
           native'[k].ports \/ text'[native'[k].bp].changes = <<>>
    <3>1. \A k \in DOMAIN native : text[native[k].bp].scopes[1].kind = "activate" =>
             native[k].ports \/ text[native[k].bp].changes = <<>>
      BY <2>0 DEF Quiet
    <3>2. \A k \in 1 .. t - 1 : text'[native'[k].bp].scopes[1].kind = "activate" =>
             native'[k].ports \/ text'[native'[k].bp].changes = <<>>
      BY <1>18, <3>1
    <3>3. QED
      BY <1>2, <3>2
  <2>2. \A k \in DOMAIN native' : native'[k].ports => text'[native'[k].bp].scopes[1].kind = "activate"
    <3>1. \A k \in DOMAIN native : native[k].ports => text[native[k].bp].scopes[1].kind = "activate"
      BY <2>0 DEF Quiet
    <3>2. \A k \in 1 .. t - 1 : native'[k].ports => text'[native'[k].bp].scopes[1].kind = "activate"
      BY <1>18, <3>1
    <3>3. QED
      BY <1>2, <3>2
  <2>3. \A c \in DOMAIN text' : (\A k \in DOMAIN native' : native'[k].bp # c) => text'[c].changes = <<>>
    <3> SUFFICES ASSUME NEW c \in DOMAIN text', \A k \in 1 .. t - 1 : native'[k].bp # c
                 PROVE  text'[c].changes = <<>>
      BY <1>2
    <3>1. c \in DOMAIN text /\ c # bp /\ text'[c].changes = text[c].changes
      BY <1>2
    <3>2. \A k \in DOMAIN native : native[k].bp # c
      BY <1>2, <1>10, <3>1
    <3>3. QED
      BY <2>0, <3>1, <3>2 DEF Quiet
  <2>4. QED
    BY <2>1, <2>2, <2>3 DEF Quiet
<1>13. Left' = Left
  <2>1. native # <<>>
    BY <1>2
  <2>2. QED
    BY <1>3, <1>10, <2>1 DEF Left
<1>14. Deferred'
  <2>0. Deferred
    BY DEF Shape
  <2>1. \A k \in 1 .. Left : acts[k] \in DOMAIN text /\ acts[k] # bp
    BY <1>2, <1>3, <2>0, ZenonT(30) DEF Deferred
  <2>2. DOMAIN text' = {native'[k].bp : k \in DOMAIN native'} \cup {acts'[k] : k \in 1 .. Left'}
    <3>1. DOMAIN text = {native[k].bp : k \in DOMAIN native} \cup {acts[k] : k \in 1 .. Left}
      BY <2>0 DEF Deferred
    <3>2. {native[k].bp : k \in DOMAIN native} = {native'[k].bp : k \in DOMAIN native'} \cup {bp}
      <4>1. DOMAIN native = DOMAIN native' \cup {t} /\ native[t].bp = bp
        BY <1>2, <1>10
      <4>2. \A k \in DOMAIN native' : native'[k].bp = native[k].bp
        BY <1>2
      <4>3. QED
        BY <4>1, <4>2
    <3>3. bp \notin {native'[k].bp : k \in DOMAIN native'}
      BY <1>2
    <3>4. {acts'[k] : k \in 1 .. Left'} = {acts[k] : k \in 1 .. Left}
      BY <1>3, <1>13
    <3>5. bp \notin {acts[k] : k \in 1 .. Left}
      BY <2>1
    <3>6. DOMAIN text' = DOMAIN text \ {bp}
      BY <1>2
    <3>7. QED
      BY <3>1, <3>2, <3>3, <3>4, <3>5, <3>6
  <2>3. \A k \in 1 .. Left : acts[k] \in DOMAIN text'
    BY <1>2, <2>1
  <2>4. \A c \in DOMAIN text' : text'[c].mutable <=> \E k \in 1 .. Left : acts[k] = c
    BY <1>2, <2>0 DEF Deferred
  <2>5. \A k \in 1 .. Left : /\ data'[acts[k]] = (IF k = 1 THEN 0 ELSE acts[k - 1])
                             /\ text'[acts[k]].context \in {"action", "reaction"}
    <3> SUFFICES ASSUME NEW k \in 1 .. Left
                 PROVE  /\ data'[acts[k]] = (IF k = 1 THEN 0 ELSE acts[k - 1])
                        /\ text'[acts[k]].context \in {"action", "reaction"}
      OBVIOUS
    <3>1. acts[k] \in DOMAIN text'
      BY <2>3
    <3>2. data'[acts[k]] = data[acts[k]]
      BY <1>5, <3>1
    <3>3. text'[acts[k]].context = text[acts[k]].context
      BY <1>2, <3>1
    <3>4. data[acts[k]] = (IF k = 1 THEN 0 ELSE acts[k - 1]) /\ text[acts[k]].context \in {"action", "reaction"}
      BY <2>0 DEF Deferred
    <3>5. QED
      BY <3>2, <3>3, <3>4
  <2>6. QED
    BY <1>3, <1>13, <2>0, <2>2, <2>4, <2>5 DEF Deferred
<1>15. Phases'
  <2>0. Phases
    BY DEF Shape
  <2>1. native # <<>> /\ 1 \in 1 .. t - 1 /\ native'[1] = native[1]
    BY <1>2
  <2>2. phase # "done"
    BY <2>0, <2>1 DEF Phases
  <2>3. phase = "mutable" => \A k \in DOMAIN native' : ~native'[k].ports
    BY <1>2, <1>10, <2>0 DEF Phases
  <2>4. phase = "immutable" => /\ text'[3].context = "action"
                               /\ \A k \in DOMAIN native' : text'[native'[k].bp].mutable => native'[k].ports
    <3> SUFFICES ASSUME phase = "immutable"
                 PROVE  /\ text'[3].context = "action"
                        /\ \A k \in 1 .. t - 1 : text'[native'[k].bp].mutable => native'[k].ports
      BY <1>2
    <3>1. native[1].bp = 3 /\ text[3].context = "action"
      BY <2>0 DEF Phases
    <3>2. text'[3].context = "action"
      BY <1>2, <2>1, <3>1
    <3>3. \A k \in 1 .. t - 1 : text'[native[k].bp].mutable = text[native[k].bp].mutable
      BY <1>2
    <3>4. QED
      BY <1>2, <1>10, <2>0, <3>2, <3>3 DEF Phases
  <2>5. QED
    BY <1>3, <1>10, <1>13, <2>0, <2>1, <2>2, <2>3, <2>4 DEF Phases
<1>16. Arguments'
  <2> SUFFICES ASSUME NEW k \in 1 .. t - 1, native[k].ports, native[k].todo # <<>>
               PROVE  /\ native[k].top \in 1 .. Len(data') /\ data'[native[k].top] <= Len(obj')
                      /\ native[k].bp + MaxLocals < native[k].top
                      /\ \A j \in DOMAIN native' : j > k =>
                           native[k].top < native'[j].bp - Below(text'[native'[j].bp])
    BY <1>2 DEF Arguments, Below
  <2>1. PICK x : x = native[k].top
    OBVIOUS
  <2>2. /\ x \in 1 .. Len(data) /\ data[x] <= Len(obj) /\ native[k].bp + MaxLocals < x
        /\ \A j \in DOMAIN native : j > k => x < native[j].bp - Below(text[native[j].bp])
    BY <1>10, <2>1 DEF Shape, Arguments
  <2>3. t \in DOMAIN native /\ t > k
    BY <1>2
  <2>4. x < bp - Below(F)
    BY <1>2, <2>2, <2>3
  <2>5. x \in 1 .. Len(data')
    <3>1. PICK z \in {2, 3} : z = Below(F)
      BY DEF Below
    <3>2. bp - z - 1 <= Len(data') /\ Len(data') \in Nat
      BY <1>3, <3>1 DEF Pops
    <3>3. x \in Nat /\ 1 <= x /\ x < bp - z
      BY <1>6, <2>2, <2>4, <3>1
    <3>4. QED
      BY <1>2, <3>2, <3>3
  <2>6. data'[x] = data[x]
    <3>1. \/ data'[x] = data[x]
          \/ /\ ~native[t - 1].ports
             /\ x \in Caller - Below(text[Caller]) .. Caller - 2 \/ x \in Caller + 1 .. Caller + MaxLocals
      BY <1>1, <2>5 DEF Pops
    <3>2. CASE k = t - 1
      BY <3>1, <3>2
    <3>3. CASE k # t - 1
      <4>1. t - 1 > k /\ t - 1 \in DOMAIN native
        BY <1>2, <1>10, <3>3
      <4>2. x < Caller - Below(text[Caller])
        BY <1>2, <2>2, <4>1
      <4>3. PICK w \in {2, 3} : w = Below(text[Caller])
        BY DEF Below
      <4>4. ~(x \in Caller - w .. Caller - 2 \/ x \in Caller + 1 .. Caller + MaxLocals)
        BY <1>2, <2>2, <4>2, <4>3
      <4>5. QED
        BY <3>1, <4>3, <4>4
    <3>4. QED
      BY <3>2, <3>3
  <2>7. data[x] \in Nat
    BY <1>6, <2>2
  <2>8. data'[x] <= Len(obj')
    BY <1>3, <1>6, <2>2, <2>6, <2>7
  <2>9. \A j \in 1 .. t - 1 : j > k => x < native'[j].bp - Below(text'[native'[j].bp])
    <3> SUFFICES ASSUME NEW j \in 1 .. t - 1, j > k
                 PROVE  x < native'[j].bp - Below(text'[native'[j].bp])
      OBVIOUS
    <3>1. j \in DOMAIN native /\ native'[j] = native[j] /\ Below(text'[native[j].bp]) = Below(text[native[j].bp])
      BY <1>18
    <3>2. QED
      BY <2>2, <3>1
  <2>10. QED
    BY <1>2, <2>1, <2>2, <2>5, <2>8, <2>9
<1>17. QED
  BY <1>7, <1>8, <1>9, <1>11, <1>12, <1>14, <1>15, <1>16 DEF Shape

(* A return leaves the saved heaps alone: the frame that goes has none.    *)
LEMMA PopHeaps ==
  ASSUME IInv, Running, NEW g, Pops(g)
  PROVE  Heaps'
<1>0. Shape /\ Heaps
  BY DEF IInv
<1>1. PICK t : t = Len(native)
  OBVIOUS
<1>2. /\ native \in Seq(NativeType) /\ t \in Nat /\ t > 1 /\ DOMAIN native = 1 .. t
      /\ bp = native[t].bp /\ bp \in DOMAIN text /\ bp \in Nat /\ F = text[bp] /\ bp > Below(F)
      /\ native' \in Seq(NativeType) /\ Len(native') = t - 1 /\ DOMAIN native' = 1 .. t - 1
      /\ \A k \in 1 .. t - 1 : native'[k] = native[k] /\ native[k].bp \in DOMAIN text' /\ native[k].bp < bp
      /\ Caller = native[t - 1].bp /\ Caller \in DOMAIN text /\ Caller # bp /\ Caller \in Nat
      /\ DOMAIN text' = DOMAIN text \ {bp} /\ text'[Caller] = g
      /\ \A c \in DOMAIN text' : /\ c \in DOMAIN text /\ (c # Caller => text'[c] = text[c])
                                 /\ text'[c].context = text[c].context /\ text'[c].mutable = text[c].mutable
                                 /\ text'[c].changes = text[c].changes
                                 /\ text'[c].scopes[1].kind = text[c].scopes[1].kind
                                 /\ Below(text'[c]) = Below(text[c])
                                 /\ c \in Nat /\ c < bp /\ c + MaxLocals < bp - Below(F)
  BY <1>0, <1>1, Popped0
<1>3. heap' = heap /\ info' = native[t].old /\ F.changes = <<>>
  <2>1. Current = native[t] /\ native # <<>>
    BY <1>0, <1>1, Under, Here
  <2>2. QED
    BY <2>1 DEF Pops
<1>4. \A k \in 1 .. t - 1 : Saved(k)' = Saved(k)
  BY <1>2 DEF Saved
<1>5. Saved(t) = <<>>
  BY <1>2, <1>3 DEF Saved
<1>6. \A k \in 1 .. t - 1 : Inst(k)' = Inst(k)
  <2> SUFFICES ASSUME NEW k \in 1 .. t - 1 PROVE Inst(k)' = Inst(k)
    OBVIOUS
  <2>1. Inst(k) = native[k + 1].old
    BY <1>1, <1>2 DEF Inst
  <2>2. CASE k = t - 1
    BY <1>2, <1>3, <2>1, <2>2 DEF Inst
  <2>3. CASE k # t - 1
    <3>1. k + 1 \in 1 .. t - 1
      BY <1>2, <2>3
    <3>2. QED
      BY <1>2, <2>1, <2>3, <3>1 DEF Inst
  <2>4. QED
    BY <2>2, <2>3
<1>7. DOMAIN native = DOMAIN native' \cup {t} /\ \A k \in DOMAIN native' : k \in 1 .. t - 1
  BY <1>2
<1>8. ASSUME NEW i \in Instances
      PROVE  \/ heap[i] = i /\ \A k \in DOMAIN native' : Inst(k)' = i => Saved(k)' = <<>>
             \/ \E k \in DOMAIN native' : /\ Inst(k)' = i /\ Saved(k)' # <<>> /\ Head(Saved(k)') = i
                                         /\ \A j \in DOMAIN native' : j < k /\ Inst(j)' = i => Saved(j)' = <<>>
  <2>1. CASE heap[i] = i /\ \A k \in DOMAIN native : Inst(k) = i => Saved(k) = <<>>
    <3>1. \A k \in DOMAIN native' : Inst(k)' = i => Saved(k)' = <<>>
      BY <1>4, <1>6, <1>7, <2>1
    <3>2. QED
      BY <2>1, <3>1
  <2>2. CASE \E k \in DOMAIN native : /\ Inst(k) = i /\ Saved(k) # <<>> /\ Head(Saved(k)) = i
                                      /\ \A j \in DOMAIN native : j < k /\ Inst(j) = i => Saved(j) = <<>>
    <3>1. PICK k \in DOMAIN native : /\ Inst(k) = i /\ Saved(k) # <<>> /\ Head(Saved(k)) = i
                                     /\ \A j \in DOMAIN native : j < k /\ Inst(j) = i => Saved(j) = <<>>
      BY <2>2
    <3>2. k \in DOMAIN native'
      BY <1>5, <1>7, <3>1
    <3>3. \A j \in DOMAIN native' : j < k /\ Inst(j)' = i => Saved(j)' = <<>>
      BY <1>4, <1>6, <1>7, <3>1
    <3>4. Inst(k)' = i /\ Saved(k)' # <<>> /\ Head(Saved(k)') = i
      BY <1>4, <1>6, <1>7, <3>1, <3>2
    <3>5. QED
      BY <3>2, <3>3, <3>4
  <2>3. QED
    BY <1>0, <2>1, <2>2 DEF Heaps
<1>9. QED
  BY <1>3, <1>8 DEF Heaps

(* A return keeps the invariant if the frame of the caller stays well-     *)
(* formed and laid out.                                                    *)
LEMMA PopStep ==
  ASSUME IInv, Running, NEW g, Pops(g)
  PROVE  IInv'
BY PopShape, PopHeaps DEF IInv

-----------------------------------------------------------------------------
(* The end of a function without result. *)
LEMMA EndCallStep ==
  ASSUME IInv, EndCall
  PROVE  IInv'
<1> USE DEF IInv
<1>0. Running /\ F.context = "other" /\ ~F.returns /\ F.scopes[1].kind = "list"
  <2>1. Running /\ F.context = "other" /\ ~F.returns /\ InnerScope.kind = "list"
    BY DEF EndCall
  <2>2. F.scopes \in Seq(Scope) /\ Len(F.scopes) >= 2
    BY <2>1, Here, Basics
  <2>3. QED
    BY <2>1, <2>2 DEF InnerScope
<1>1. PICK t : t = Len(native)
  OBVIOUS
<1>2. /\ native # <<>> /\ native \in Seq(NativeType) /\ t \in Nat /\ DOMAIN native = 1 .. t
      /\ bp = native[t].bp /\ bp \in DOMAIN text /\ bp \in Nat /\ F = text[bp] /\ GoodText(F)
      /\ bp > Below(F) /\ bp + MaxLocals <= Len(data) /\ data \in Seq(Nat) /\ Len(data) \in Nat
      /\ DOMAIN text \subseteq Nat
  BY <1>0, <1>1, Here, Under
<1>3. /\ t > 1 /\ ~native[t - 1].ports /\ data[bp] = native[t - 1].bp /\ ~F.mutable
      /\ \A c \in DOMAIN text : c <= bp
  BY <1>0, <1>1, Nature
<1>4. F.changes = <<>>
  BY <1>0, <1>2, AtList
<1>5. Below(F) = 2
  BY <1>0 DEF Below
<1>6. Caller = native[t - 1].bp /\ Caller \in DOMAIN text /\ Caller < bp /\ Caller \in Nat
  <2>1. t - 1 \in DOMAIN native /\ t \in DOMAIN native
    BY <1>2, <1>3
  <2>2. native[t - 1].bp < native[t].bp /\ native[t - 1].bp \in DOMAIN text
    BY <1>3, <2>1 DEF Shape, Calls
  <2>3. QED
    BY <1>1, <1>2, <2>2 DEF Caller
<1>7. /\ data' = SubSeq(data, 1, bp - 3) /\ text' = Drop(bp) /\ bp' = Caller /\ info' = Current.old
      /\ native' = Front(native)
      /\ UNCHANGED <<bound, phase, list, heap, obj, acts, ran, count>>
  BY <1>3, <1>6 DEF EndCall
<1>8. PICK m \in Nat : m = MaxLocals
  BY Constants
<1>9. data' \in Seq(Nat) /\ Len(data') = bp - 3 /\ \A x \in 1 .. Len(data') : data'[x] = data[x]
  <2>1. bp - 3 \in Int /\ 0 <= bp - 3 /\ bp - 3 <= Len(data)
    BY <1>2, <1>5, <1>8
  <2>2. QED
    BY <1>2, <1>7, <2>1, PrefixFacts, SMTT(30)
<1>10. PICK g : g = text[Caller]
  OBVIOUS
<1>11. GoodText(g) /\ InStack(g, Caller, data, Len(obj)) /\ Caller > Below(g) /\ Caller + MaxLocals <= Len(data)
  BY <1>6, <1>10 DEF Shape, Frames, Layout
<1>12. Caller + MaxLocals < bp - 2
  BY <1>2, <1>5, <1>6 DEF Shape, Layout
<1>13. Untouched(data, data', Caller, Below(g))
  <2>1. PICK w \in {2, 3} : w = Below(g)
    BY DEF Below
  <2>4. PICK c : c = Caller
    OBVIOUS
  <2>5. c \in Nat /\ bp \in Nat /\ c > w /\ c + m < bp - 2
    BY <1>2, <1>6, <1>8, <1>11, <1>12, <2>1, <2>4
  <2>6. \A x \in c - w .. c + m : x \in 1 .. bp - 3
    BY <2>5
  <2>2. \A x \in Caller - w .. Caller + m : x \in 1 .. bp - 3
    BY <2>4, <2>6
  <2>3. QED
    BY <1>8, <1>9, <2>1, <2>2 DEF Untouched
<1>14. Len(obj) \in Nat /\ ObjectsOK(obj) /\ count \in Nat
  BY <1>0, HereToo DEF Shape, Types
<1>15. InStack(g, Caller, data', Len(obj))
  BY <1>2, <1>6, <1>9, <1>11, <1>13, <1>14, InStackSame
<1>16. text' = [x \in DOMAIN text \ {bp} |-> IF x = Caller THEN g ELSE text[x]]
  BY <1>7, <1>10 DEF Drop
<1>17. /\ bp - Below(F) - 1 <= Len(data') /\ Len(data') <= Len(data)
  <2>1. bp \in Nat /\ bp + m <= Len(data) /\ Len(data) \in Nat
    BY <1>2, <1>8
  <2>2. bp - 2 - 1 = bp - 3 /\ bp - 3 <= Len(data)
    BY <2>1
  <2>3. QED
    BY <1>5, <1>9, <2>2
<1>18. Pops(g)
  BY <1>1, <1>3, <1>4, <1>7, <1>9, <1>10, <1>11, <1>14, <1>15, <1>16, <1>17 DEF Pops
<1>19. QED
  BY <1>0, <1>18, PopStep

(* The end of a reaction that activated nothing. *)
LEMMA EndReactionStep ==
  ASSUME IInv, EndReaction
  PROVE  IInv'
<1> USE DEF IInv
<1>0. Running /\ F.context = "reaction" /\ F.scopes[1].kind = "list"
  <2>1. Running /\ F.context = "reaction" /\ InnerScope.kind = "list"
    BY DEF EndReaction
  <2>2. F.scopes \in Seq(Scope) /\ Len(F.scopes) >= 2
    BY <2>1, Here, Basics
  <2>3. QED
    BY <2>1, <2>2 DEF InnerScope
<1>1. PICK t : t = Len(native)
  OBVIOUS
<1>2. /\ native # <<>> /\ native \in Seq(NativeType) /\ t \in Nat /\ DOMAIN native = 1 .. t
      /\ bp = native[t].bp /\ bp \in DOMAIN text /\ bp \in Nat /\ F = text[bp] /\ GoodText(F)
      /\ bp > Below(F) /\ bp + MaxLocals <= Len(data) /\ data \in Seq(Nat) /\ Len(data) \in Nat
      /\ DOMAIN text \subseteq Nat
  BY <1>0, <1>1, Here, Under
<1>4. F.changes = <<>> /\ F.mutable = FALSE
  BY <1>0, <1>2, AtList
<1>3. t > 1
  BY <1>0, <1>1, <1>4, Nature
<1>6. Caller = native[t - 1].bp /\ Caller \in DOMAIN text
  <2>1. t - 1 \in DOMAIN native
    BY <1>2, <1>3
  <2>2. native[t - 1].bp \in DOMAIN text
    BY <1>3, <2>1 DEF Shape, Calls
  <2>3. QED
    BY <1>1, <2>2 DEF Caller
<1>7. /\ data' = data /\ text' = Drop(bp) /\ bp' = Caller /\ info' = Current.old
      /\ native' = Front(native)
      /\ UNCHANGED <<bound, phase, list, heap, obj, acts, ran, count>>
  BY DEF EndReaction, Caller
<1>10. PICK g : g = text[Caller]
  OBVIOUS
<1>11. GoodText(g) /\ InStack(g, Caller, data, Len(obj))
  BY <1>6, <1>10 DEF Shape, Frames
<1>14. Len(obj) \in Nat /\ ObjectsOK(obj) /\ count \in Nat
  BY <1>0, HereToo DEF Shape, Types
<1>16. text' = [x \in DOMAIN text \ {bp} |-> IF x = Caller THEN g ELSE text[x]]
  BY <1>7, <1>10 DEF Drop
<1>17. bp - Below(F) - 1 <= Len(data)
  <2>1. PICK w \in {2, 3} : w = Below(F)
    BY DEF Below
  <2>2. QED
    BY <1>2, <2>1, Constants
<1>18. Pops(g)
  BY <1>1, <1>2, <1>3, <1>4, <1>7, <1>10, <1>11, <1>14, <1>16, <1>17 DEF Pops
<1>19. QED
  BY <1>0, <1>18, PopStep

(* return e keeps the invariant: the word of the result is not yet used    *)
(* when the frame is gone.                                                 *)
LEMMA ReturnStep ==
  ASSUME IInv, Running, NEW e, GoodPlace(e), Return(e)
  PROVE  IInv'
<1> USE DEF IInv
<1>0. PICK c : c = data[bp]
  OBVIOUS
<1>1. PICK f : f = text[c]
  OBVIOUS
<1> DEFINE s == Sym("Variable", e.type, Mutable, Least(ReturnAllowed, e), f.locals)
           d == SubSeq(data, 1, bp - 4)
           g == Entered(f, s, e.val)
<1>2. /\ F.context \in {"other", "getter"} /\ F.returns /\ f.locals <= MaxLocals
      /\ data' = [d EXCEPT ![c + f.locals] = e.val]
      /\ text' = [Drop(bp) EXCEPT ![c] = Entered(Drop(bp)[c], s, e.val)]
      /\ bp' = c /\ info' = Current.old /\ native' = Front(native) /\ obj' = Allocated(e) /\ count' = count + 1
      /\ UNCHANGED <<bound, phase, list, heap, acts, ran>>
  <2>1. /\ F.context \in {"other", "getter"} /\ F.returns /\ text[c].locals <= MaxLocals
        /\ data' = [d EXCEPT ![c + text[c].locals] = e.val]
        /\ bp' = c /\ info' = Current.old /\ native' = Front(native) /\ obj' = Allocated(e) /\ count' = count + 1
        /\ UNCHANGED <<bound, phase, list, heap, acts, ran>>
    BY <1>0 DEF Return, Take
  <2>2. text' = [Drop(bp) EXCEPT ![c] =
                   Entered(@, Sym("Variable", e.type, Mutable, Least(ReturnAllowed, e), text[c].locals), e.val)]
    BY <1>0 DEF Return
  <2>3. QED
    BY <1>1, <2>1, <2>2
<1>3. PICK t : t = Len(native)
  OBVIOUS
<1>4. /\ native # <<>> /\ native \in Seq(NativeType) /\ t \in Nat /\ DOMAIN native = 1 .. t
      /\ bp = native[t].bp /\ bp \in DOMAIN text /\ bp \in Nat /\ F = text[bp] /\ GoodText(F)
      /\ bp > Below(F) /\ bp + MaxLocals <= Len(data) /\ data \in Seq(Nat) /\ Len(data) \in Nat
      /\ DOMAIN text \subseteq Nat
  BY <1>3, Here, Under
<1>5. t > 1 /\ ~native[t - 1].ports /\ c = native[t - 1].bp /\ ~F.mutable
  BY <1>0, <1>2, <1>3, Nature
<1>6. F.changes = <<>>
  BY <1>2, <1>4 DEF GoodText, Contexts
<1>7. Below(F) = 3
  BY <1>2 DEF Below
<1>8. Caller = c /\ c \in DOMAIN text /\ c < bp /\ c \in Nat
  <2>1. t - 1 \in DOMAIN native /\ t \in DOMAIN native
    BY <1>4, <1>5
  <2>2. native[t - 1].bp < native[t].bp /\ native[t - 1].bp \in DOMAIN text
    BY <1>5, <2>1 DEF Shape, Calls
  <2>3. QED
    BY <1>3, <1>4, <1>5, <2>2 DEF Caller
<1>9. PICK m \in Nat : m = MaxLocals
  BY Constants
<1>10. d \in Seq(Nat) /\ Len(d) = bp - 4 /\ \A x \in 1 .. Len(d) : d[x] = data[x]
  <2>1. bp - 4 \in Int /\ 0 <= bp - 4 /\ bp - 4 <= Len(data)
    BY <1>4, <1>7, <1>9
  <2>2. QED
    BY <1>4, <2>1, PrefixFacts
<1>11. GoodText(f) /\ InStack(f, c, data, Len(obj)) /\ c > Below(f) /\ c + MaxLocals <= Len(data)
  BY <1>1, <1>8 DEF Shape, Frames, Layout
<1>12. c + m < bp - 3
  BY <1>4, <1>7, <1>8, <1>9 DEF Shape, Layout
<1> HIDE DEF d
<1>13. PICK w \in {2, 3} : w = Below(f)
  BY DEF Below
<1>14. \A x \in c - w .. c + m : x \in 1 .. bp - 4
  <2>1. c > w
    BY <1>11, <1>13
  <2>2. QED
    BY <1>4, <1>8, <1>12, <2>1
<1>15. Untouched(data, d, c, Below(f))
  BY <1>9, <1>10, <1>13, <1>14 DEF Untouched
<1>16. Len(obj) \in Nat /\ ObjectsOK(obj) /\ count \in Nat /\ info \in Instances
  BY HereToo DEF Shape, Types
<1>17. InStack(f, c, d, Len(obj))
  <2>1. Len(obj) <= Len(obj)
    BY <1>16
  <2>2. QED
    BY <1>4, <1>8, <1>10, <1>11, <1>15, <1>16, <2>1, InStackSame
<1>18. f.locals \in Nat /\ f.locals >= 1 /\ f \in FrameType /\ Nested(f)
  BY <1>11, Basics
<1>19. s \in Symbol /\ s.kind = "Variable" /\ s.off = f.locals /\ s.type = e.type
  <2>1. e.type \in {"C", "T", "H"} /\ Mutable \in Mutability /\ f.locals \in Int
    BY <1>18 DEF GoodPlace, Mutability
  <2>2. Least(ReturnAllowed, e) \in Mutability
    BY LeastType DEF GoodPlace
  <2>3. QED
    BY <2>1, <2>2, NewSymbol
<1>20. ObjectsOK(obj') /\ Len(obj) <= Len(obj') /\ Len(obj') \in Nat
  BY <1>2, <1>16, Allocation
<1>21. e.val \in Nat /\ IF s.type = "C" THEN e.val \in Instances ELSE e.val <= Len(obj')
  BY <1>2, <1>19 DEF GoodPlace
<1> HIDE DEF s
<1>22. GoodText(g)
  BY <1>2, <1>11, <1>19, <1>21, EnteredGood
<1>23. c + MaxLocals <= Len(d)
  BY <1>4, <1>8, <1>9, <1>10, <1>12
<1>24. InStack(g, c, data', Len(obj'))
  <2>1. InStack(g, c, [d EXCEPT ![c + f.locals] = e.val], Len(obj'))
    BY <1>2, <1>8, <1>10, <1>11, <1>16, <1>17, <1>19, <1>20, <1>21, <1>23, EnteredWords
  <2>2. QED
    BY <1>2, <2>1
<1>25. /\ g.context = f.context /\ g.returns = f.returns /\ g.mutable = f.mutable
       /\ g.changes = f.changes /\ g.scopes[1].kind = f.scopes[1].kind
  BY <1>18, <1>19, <1>21, EnteredFields
<1>26. text' = [x \in DOMAIN text \ {bp} |-> IF x = Caller THEN g ELSE text[x]]
  BY <1>1, <1>2, <1>4, <1>8 DEF Drop
<1>27. KeptAround(d, data', c, Below(f))
  <2>1. f.locals \in Int /\ f.locals \in 1 .. MaxLocals
    BY <1>2, <1>9, <1>18
  <2>2. c > w
    BY <1>11, <1>13
  <2>3. KeptAround(d, [d EXCEPT ![c + f.locals] = e.val], c, w)
    BY <1>8, <1>10, <1>21, <1>23, <2>1, <2>2, OneWord
  <2>4. QED
    BY <1>2, <1>13, <2>3
<1>28. /\ data' \in Seq(Nat) /\ Len(data') = bp - 4
       /\ \A x \in 1 .. Len(data') :
            data'[x] = data[x] \/ x \in Caller - Below(text[Caller]) .. Caller - 2 \/ x \in Caller + 1 .. Caller + MaxLocals
  BY <1>1, <1>8, <1>10, <1>27 DEF KeptAround
<1>29. bp - Below(F) - 1 <= Len(data') /\ Len(data') <= Len(data)
  <2>1. bp \in Nat /\ bp + m <= Len(data) /\ Len(data) \in Nat
    BY <1>4, <1>9
  <2>2. bp - 3 - 1 = bp - 4 /\ bp - 4 <= Len(data)
    BY <2>1
  <2>3. QED
    BY <1>7, <1>28, <2>2
<1> HIDE DEF g
<1>30. ~native[Len(native) - 1].ports /\ Len(native) > 1 /\ count' \in Nat
  BY <1>2, <1>3, <1>5, <1>16
<1>31. Pops(g)
  BY <1>1, <1>2, <1>5, <1>6, <1>8, <1>20, <1>22, <1>24, <1>25, <1>26, <1>28, <1>29, <1>30 DEF Pops
<1>32. QED
  BY <1>31, PopStep

(* After an activation the frame has no saved heap left, and is still      *)
(* well-formed.                                                            *)
LEMMA EmptiedGood ==
  ASSUME NEW f, GoodText(f), f.scopes[1].kind = "activate", NEW g, g = [f EXCEPT !.changes = <<>>]
  PROVE  /\ GoodText(g)
         /\ g.context = f.context /\ g.returns = f.returns /\ g.mutable = f.mutable /\ g.changes = <<>>
         /\ g.scopes = f.scopes /\ Below(g) = Below(f)
         /\ \A b, d, m : InStack(f, b, d, m) => InStack(g, b, d, m)
<1>1. f \in FrameType /\ Nested(f) /\ Contexts(f) /\ Agree(f)
  BY DEF GoodText
<1>2. <<>> \in Seq(Nat)
  BY EmptySeq, Zenon
<1>3. g = [context |-> f.context, scopes |-> f.scopes, values |-> f.values, returns |-> f.returns,
           next |-> f.next, locals |-> f.locals, mutable |-> f.mutable, changes |-> <<>>]
  BY <1>1 DEF FrameType
<1>4. /\ f.context \in {"action", "reaction", "getter", "other"} /\ f.scopes \in Seq(Scope)
      /\ f.values \in ValueTable /\ f.next \in Nat /\ f.locals \in Nat
  BY <1>1 DEF FrameType
<1>5. f.returns \in BOOLEAN /\ f.mutable \in BOOLEAN
  BY <1>1 DEF FrameType
<1>6. g \in FrameType
  <2>1. PICK c : c = <<>> /\ c \in Seq(Nat)
    BY <1>2, Zenon
  <2>2. g = [context |-> f.context, scopes |-> f.scopes, values |-> f.values, returns |-> f.returns,
             next |-> f.next, locals |-> f.locals, mutable |-> f.mutable, changes |-> c]
    BY <1>3, <2>1, Zenon
  <2>3. c \in Seq(Nat)
    BY <2>1
  <2>4. [context |-> f.context, scopes |-> f.scopes, values |-> f.values, returns |-> f.returns,
         next |-> f.next, locals |-> f.locals, mutable |-> f.mutable, changes |-> c] \in FrameType
    BY <1>4, <1>5, <2>3 DEF FrameType
  <2>5. QED
    BY <2>2, <2>4, Zenon
<1>7. /\ g.scopes = f.scopes /\ g.context = f.context /\ g.returns = f.returns /\ g.next = f.next
      /\ g.locals = f.locals /\ g.values = f.values
  BY <1>3
<1>8. g.mutable = f.mutable
  BY <1>3
<1>9. g.changes = <<>>
  BY <1>3
<1>10. Below(g) = Below(f)
  BY <1>7 DEF Below
<1>11. Nested(g)
  BY <1>1, <1>7, <1>8 DEF Nested
<1>12. Contexts(g) /\ Agree(g)
  BY <1>1, <1>7, <1>9, <1>10 DEF Contexts, Agree
<1>13. \E mark : Marks(g, mark)
  <2>1. PICK mark : Marks(f, mark)
    BY DEF GoodText
  <2>2. Marks(g, mark)
    BY <1>7, <1>10, <2>1 DEF Marks
  <2>3. QED
    BY <2>2
<1>14. \E depth : Depths(g, depth)
  <2>1. PICK depth : Depths(f, depth)
    BY DEF GoodText
  <2>2. Depths(g, depth)
    BY <1>7, <2>1 DEF Depths
  <2>3. QED
    BY <2>2
<1>15. GoodText(g)
  BY <1>6, <1>11, <1>12, <1>13, <1>14 DEF GoodText
<1>16. \A b, d, m : InStack(f, b, d, m) => InStack(g, b, d, m)
  BY <1>7 DEF InStack
<1>17. QED
  BY <1>7, <1>8, <1>9, <1>10, <1>15, <1>16

(* A native call that runs the calls of a port. *)
LEMMA InPortsFacts ==
  ASSUME Shape, InPorts, NEW t, t = Len(native)
  PROVE  /\ native # <<>> /\ native \in Seq(NativeType) /\ t \in Nat /\ t >= 1 /\ t \in DOMAIN native
         /\ DOMAIN native = 1 .. t /\ Current = native[t] /\ bp = native[t].bp /\ bp \in DOMAIN text /\ bp \in Nat
         /\ F = text[bp] /\ GoodText(F) /\ info \in Instances /\ DOMAIN text \subseteq Nat
         /\ phase = "immutable" /\ (\A k \in DOMAIN native : native[k].ports) /\ acts # <<>>
         /\ F.scopes[1].kind = "activate" /\ F.mutable
         /\ Left = Len(acts)
<1>1. /\ native # <<>> /\ native \in Seq(NativeType) /\ t \in Nat /\ t >= 1 /\ t \in DOMAIN native
      /\ DOMAIN native = 1 .. t /\ Current = native[t] /\ bp = native[t].bp /\ bp \in DOMAIN text /\ bp \in Nat
      /\ F = text[bp] /\ GoodText(F) /\ info \in Instances /\ DOMAIN text \subseteq Nat /\ phase # "done"
  BY Under DEF InPorts
<1>2. native[t].ports
  BY <1>1 DEF InPorts
<1>3. \A k \in DOMAIN native : native[k].ports
  <2> SUFFICES ASSUME NEW k \in DOMAIN native PROVE native[k].ports
    OBVIOUS
  <2>1. k = t \/ k < t
    BY <1>1
  <2>2. QED
    BY <1>1, <1>2, <2>1 DEF Shape, Calls
<1>4. phase = "immutable"
  <2>1. phase # "mutable"
    BY <1>1, <1>2 DEF Shape, Phases
  <2>2. QED
    BY <1>1, <2>1 DEF Shape, Types
<1>5. ran = <<>> /\ acts # <<>>
  <2>1. 1 \in DOMAIN native
    BY <1>1
  <2>2. QED
    BY <1>3, <1>4, <2>1 DEF Shape, Phases
<1>6. F.scopes[1].kind = "activate"
  BY <1>1, <1>2 DEF Shape, Quiet
<1>7. F.mutable
  <2>1. 1 \in DOMAIN F.scopes
    BY <1>1, Basics
  <2>2. Nested(F)
    BY <1>1, Basics
  <2>3. QED
    BY <1>6, <2>1, <2>2 DEF Nested
<1>8. Left = Len(acts)
  <2>1. acts \in Seq(Nat) /\ Len(acts) \in Nat /\ Len(ran) = 0
    BY <1>5 DEF Shape, Types
  <2>2. QED
    BY <1>4, <2>1 DEF Left
<1>9. QED
  BY <1>1, <1>3, <1>4, <1>5, <1>6, <1>7, <1>8

(* What EndActivate does. *)
LEMMA EndActivateFacts ==
  ASSUME Shape, EndActivate, NEW t, t = Len(native), NEW g, g = [F EXCEPT !.changes = <<>>]
  PROVE  /\ native' = Front(native) /\ native' \in Seq(NativeType) /\ Len(native') = t - 1 /\ DOMAIN native' = 1 .. t - 1
         /\ \A k \in 1 .. t - 1 : native'[k] = native[k] /\ k \in DOMAIN native /\ native[k].bp # bp
         /\ DOMAIN text' = DOMAIN text /\ text'[bp] = g /\ (\A c \in DOMAIN text : c # bp => text'[c] = text[c])
         /\ \A c \in DOMAIN text : /\ text'[c].context = text[c].context /\ text'[c].mutable = text[c].mutable
                                   /\ text'[c].scopes = text[c].scopes
                                   /\ Below(text'[c]) = Below(text[c])
         /\ text' = [text EXCEPT ![bp] = g]
         /\ GoodText(g) /\ g.changes = <<>> /\ \A b, d, m : InStack(F, b, d, m) => InStack(g, b, d, m)
         /\ info' = native[t].old
         /\ (t > 1 => native[t].old \in Instances /\ phase' = phase /\ bp' = native[t - 1].bp)
         /\ (t = 1 => phase' = "mutable" /\ bp' = list /\ native' = <<>>)
         /\ UNCHANGED <<bound, data, list, obj, acts, ran, count>>
<1>0. InPorts
  BY DEF EndActivate
<1>1. /\ native # <<>> /\ native \in Seq(NativeType) /\ t \in Nat /\ t >= 1 /\ t \in DOMAIN native
      /\ DOMAIN native = 1 .. t /\ Current = native[t] /\ bp = native[t].bp /\ bp \in DOMAIN text /\ bp \in Nat
      /\ F = text[bp] /\ GoodText(F) /\ info \in Instances /\ DOMAIN text \subseteq Nat
      /\ F.scopes[1].kind = "activate"
  BY <1>0, InPortsFacts
<1>2. native' = Front(native) /\ info' = native[t].old /\ UNCHANGED <<bound, data, list, obj, acts, ran, count>>
  BY <1>1 DEF EndActivate
<1>3. /\ GoodText(g)
      /\ g.context = F.context /\ g.returns = F.returns /\ g.mutable = F.mutable /\ g.changes = <<>>
      /\ g.scopes = F.scopes /\ Below(g) = Below(F)
      /\ \A b, d, m : InStack(F, b, d, m) => InStack(g, b, d, m)
  BY <1>1, EmptiedGood
<1>4. text' = [text EXCEPT ![bp] = g]
  BY <1>1 DEF EndActivate
<1>5. DOMAIN text' = DOMAIN text /\ text'[bp] = g /\ (\A c \in DOMAIN text : c # bp => text'[c] = text[c])
  BY <1>1, <1>4
<1>6. \A c \in DOMAIN text : /\ text'[c].context = text[c].context /\ text'[c].mutable = text[c].mutable
                             /\ text'[c].scopes = text[c].scopes
                             /\ Below(text'[c]) = Below(text[c])
  BY <1>1, <1>3, <1>5
<1>7. native' \in Seq(NativeType) /\ Len(native') = t - 1 /\ \A k \in 1 .. t - 1 : native'[k] = native[k]
  <2>1. Front(native) = SubSeq(native, 1, t - 1)
    BY DEF Front
  <2>2. t - 1 \in Int /\ 0 <= t - 1 /\ t - 1 <= Len(native)
    BY <1>1
  <2>3. QED
    BY <1>1, <1>2, <2>1, <2>2, PrefixFacts
<1>8. DOMAIN native' = 1 .. t - 1
  BY <1>7
<1>9. \A k \in 1 .. t - 1 : k \in DOMAIN native /\ native[k].bp # bp
  <2> SUFFICES ASSUME NEW k \in 1 .. t - 1 PROVE k \in DOMAIN native /\ native[k].bp # bp
    OBVIOUS
  <2>1. k \in DOMAIN native /\ t \in DOMAIN native /\ k < t
    BY <1>1
  <2>2. native[k].bp < native[t].bp /\ native[k].bp \in DOMAIN text
    BY <2>1 DEF Shape, Calls
  <2>3. QED
    BY <1>1, <2>1, <2>2
<1>10. t > 1 => native[t].old \in Instances /\ phase' = phase /\ bp' = native[t - 1].bp
  <2>1. t > 1 => native[t].old \in Instances
    BY <1>1 DEF Shape, Calls
  <2>2. QED
    BY <2>1 DEF EndActivate
<1>11. t = 1 => phase' = "mutable" /\ bp' = list
  BY DEF EndActivate
<1>12. t = 1 => native' = <<>>
  BY <1>7, EmptySeq
<1>13. QED
  BY <1>2, <1>3, <1>4, <1>5, <1>6, <1>7, <1>8, <1>9, <1>10, <1>11, <1>12

(* The end of the port calls keeps the shape of the stack, in the middle   *)
(* of the immutable phase and at its end.                                  *)
LEMMA EndActivateShape ==
  ASSUME Shape, EndActivate
  PROVE  Shape'
<1>0. InPorts
  BY DEF EndActivate
<1>1. PICK t : t = Len(native)
  OBVIOUS
<1>2. PICK g : g = [F EXCEPT !.changes = <<>>]
  OBVIOUS
<1>3. /\ native # <<>> /\ native \in Seq(NativeType) /\ t \in Nat /\ t >= 1 /\ t \in DOMAIN native
      /\ DOMAIN native = 1 .. t /\ Current = native[t] /\ bp = native[t].bp /\ bp \in DOMAIN text /\ bp \in Nat
      /\ F = text[bp] /\ GoodText(F) /\ info \in Instances /\ DOMAIN text \subseteq Nat
      /\ phase = "immutable" /\ (\A k \in DOMAIN native : native[k].ports) /\ acts # <<>>
      /\ F.scopes[1].kind = "activate" /\ F.mutable
      /\ Left = Len(acts)
  BY <1>0, <1>1, InPortsFacts
<1>4. /\ native' = Front(native) /\ native' \in Seq(NativeType) /\ Len(native') = t - 1 /\ DOMAIN native' = 1 .. t - 1
      /\ \A k \in 1 .. t - 1 : native'[k] = native[k] /\ k \in DOMAIN native /\ native[k].bp # bp
      /\ DOMAIN text' = DOMAIN text /\ text'[bp] = g /\ (\A c \in DOMAIN text : c # bp => text'[c] = text[c])
      /\ \A c \in DOMAIN text : /\ text'[c].context = text[c].context /\ text'[c].mutable = text[c].mutable
                                /\ text'[c].scopes = text[c].scopes
                                /\ Below(text'[c]) = Below(text[c])
      /\ text' = [text EXCEPT ![bp] = g]
      /\ GoodText(g) /\ g.changes = <<>> /\ \A b, d, m : InStack(F, b, d, m) => InStack(g, b, d, m)
      /\ info' = native[t].old
      /\ (t > 1 => native[t].old \in Instances /\ phase' = phase /\ bp' = native[t - 1].bp)
      /\ (t = 1 => phase' = "mutable" /\ bp' = list /\ native' = <<>>)
      /\ UNCHANGED <<bound, data, list, obj, acts, ran, count>>
  BY <1>1, <1>2, EndActivateFacts
<1>5. t = 1 \/ t > 1
  BY <1>3
<1>6. ASSUME NEW k \in 1 .. t - 1
      PROVE  /\ k \in DOMAIN native /\ native'[k] = native[k] /\ native[k].bp \in DOMAIN text /\ native[k].ports
             /\ text'[native[k].bp] = text[native[k].bp]
  <2>1. k \in DOMAIN native /\ native'[k] = native[k] /\ native[k].ports /\ native[k].bp # bp
    BY <1>3, <1>4
  <2>2. native[k].bp \in DOMAIN text
    BY <2>1 DEF Shape, Calls
  <2>3. QED
    BY <1>4, <2>1, <2>2
<1>7. Types'
  <2>1. /\ bound \in [Instances -> Seq(Instances)] /\ data \in Seq(Nat) /\ list \in Nat
        /\ heap \in [Instances -> Nat] /\ text \in [DOMAIN text -> FrameType]
        /\ acts \in Seq(Nat) /\ ran \in Seq(Nat) /\ count \in Nat
    BY DEF Shape, Types
  <2>2. ObjectsOK(obj)'
    BY <1>4 DEF Shape, Types, ObjectsOK, N
  <2>3. text' \in [DOMAIN text' -> FrameType]
    <3>1. g \in FrameType
      BY <1>4 DEF GoodText
    <3>2. QED
      BY <1>3, <1>4, <2>1, <3>1
  <2>4. phase' \in {"immutable", "mutable", "done"}
    BY <1>3, <1>4, <1>5
  <2>5. bp' \in Nat
    <3>1. t > 1 => native[t - 1].bp \in Nat
      <4>1. t > 1 => t - 1 \in 1 .. t - 1
        BY <1>3
      <4>2. QED
        BY <1>3, <1>6, <4>1
    <3>2. QED
      BY <1>4, <1>5, <2>1, <3>1
  <2>6. info' \in Nat
    BY <1>3, <1>4, NativeTypes
  <2>7. heap' \in [Instances -> Nat]
    <3>1. F.changes \in Seq(Nat)
      BY <1>3, Basics
    <3>2. CASE F.changes = <<>>
      <4>1. heap' = heap
        BY <3>2 DEF EndActivate
      <4>2. QED
        BY <2>1, <4>1
    <3>3. CASE F.changes # <<>>
      <4>1. Head(F.changes) \in Nat
        BY <3>1, <3>3
      <4>2. heap' = [heap EXCEPT ![info] = Head(F.changes)]
        BY <3>3 DEF EndActivate
      <4>3. QED
        BY <1>3, <2>1, <4>1, <4>2
    <3>4. QED
      BY <3>2, <3>3
  <2>8. DOMAIN text' \subseteq Nat
    BY <1>3, <1>4
  <2>9. QED
    BY <1>4, <2>1, <2>2, <2>3, <2>4, <2>5, <2>6, <2>7, <2>8 DEF Types
<1>8. Frames'
  <2> SUFFICES ASSUME NEW b \in DOMAIN text
               PROVE  GoodText(text'[b]) /\ InStack(text'[b], b, data, Len(obj))
    BY <1>4 DEF Frames, GoodText, InStack
  <2>1. GoodText(text[b]) /\ InStack(text[b], b, data, Len(obj))
    BY DEF Shape, Frames
  <2>2. CASE b = bp
    BY <1>3, <1>4, <2>1, <2>2
  <2>3. CASE b # bp
    BY <1>4, <2>1, <2>3
  <2>4. QED
    BY <2>2, <2>3
<1>9. Layout'
  BY <1>4 DEF Shape, Layout, Below
<1>10. Calls'
  <2>0. Calls
    BY DEF Shape
  <2>1. native' # <<>> => bp' = native'[Len(native')].bp /\ info' \in Instances
    <3>1. CASE t = 1
      BY <1>4, <3>1
    <3>2. CASE t > 1
      <4>1. t - 1 \in 1 .. t - 1
        BY <1>3, <3>2
      <4>2. QED
        BY <1>4, <3>2, <4>1
    <3>3. QED
      BY <1>5, <3>1, <3>2
  <2>2. \A k \in DOMAIN native' : native'[k].bp \in DOMAIN text'
    BY <1>4, <1>6
  <2>3. \A j, k \in DOMAIN native' : j < k => native'[j].bp < native'[k].bp
    BY <1>4, <1>6, <2>0 DEF Calls
  <2>4. \A k \in DOMAIN native' : native'[k].ports
    BY <1>4, <1>6
  <2>5. \A k \in DOMAIN native' : k > 1 =>
       /\ native'[k].old \in Instances
       /\ \/ /\ text'[native'[k].bp].context \in {"other", "getter"}
             /\ ~native'[k - 1].ports /\ data'[native'[k].bp] = native'[k - 1].bp
          \/ text'[native'[k].bp].context = "reaction" /\ native'[k - 1].ports
    <3> SUFFICES ASSUME NEW k \in 1 .. t - 1, k > 1
                 PROVE  native[k].old \in Instances /\ text[native[k].bp].context = "reaction" /\ native[k - 1].ports
      <4>1. \A j \in 1 .. t - 1 : j > 1 => j - 1 \in 1 .. t - 1
        BY <1>3
      <4>2. QED
        BY <1>4, <1>6, <4>1
    <3>1. k - 1 \in DOMAIN native /\ k \in DOMAIN native
      BY <1>3
    <3>2. QED
      BY <1>3, <2>0, <3>1 DEF Calls
  <2>6. QED
    BY <2>1, <2>2, <2>3, <2>4, <2>5 DEF Calls
<1>11. Quiet'
  <2>0. Quiet
    BY DEF Shape
  <2>1. \A k \in DOMAIN native' : native'[k].ports /\ text'[native'[k].bp].scopes[1].kind = "activate"
    <3>1. \A k \in DOMAIN native : native[k].ports => text[native[k].bp].scopes[1].kind = "activate"
      BY <2>0 DEF Quiet
    <3>2. \A k \in 1 .. t - 1 : native'[k].ports /\ text'[native'[k].bp].scopes[1].kind = "activate"
      BY <1>6, <3>1
    <3>3. QED
      BY <1>4, <3>2
  <2>2. \A c \in DOMAIN text' : (\A k \in DOMAIN native' : native'[k].bp # c) => text'[c].changes = <<>>
    <3> SUFFICES ASSUME NEW c \in DOMAIN text', \A k \in 1 .. t - 1 : native'[k].bp # c
                 PROVE  text'[c].changes = <<>>
      BY <1>4
    <3>1. CASE c = bp
      BY <1>4, <3>1
    <3>2. CASE c # bp
      <4>1. c \in DOMAIN text /\ text'[c] = text[c]
        BY <1>4, <3>2
      <4>2. ASSUME NEW k \in DOMAIN native PROVE native[k].bp # c
        <5>1. k = t \/ k \in 1 .. t - 1
          BY <1>3
        <5>2. CASE k = t
          BY <1>3, <3>2, <5>2
        <5>3. CASE k \in 1 .. t - 1
          BY <1>6, <5>3
        <5>4. QED
          BY <5>1, <5>2, <5>3
      <4>3. QED
        BY <2>0, <4>1, <4>2 DEF Quiet
    <3>3. QED
      BY <3>1, <3>2
  <2>3. QED
    BY <2>1, <2>2 DEF Quiet
<1>12. Left' = Len(acts)
  <2>1. acts \in Seq(Nat) /\ Len(acts) \in Nat /\ ran = <<>> /\ Len(ran) = 0
    <3>1. acts \in Seq(Nat) /\ ran = <<>>
      BY <1>3 DEF Shape, Types, Phases
    <3>2. QED
      BY <3>1
  <2>2. ~(phase' = "mutable" /\ native' # <<>>)
    BY <1>3, <1>4, <1>5
  <2>3. QED
    BY <1>4, <2>1, <2>2 DEF Left
<1>13. Deferred'
  <2>0. Deferred
    BY DEF Shape
  <2>1. DOMAIN text' = {native'[k].bp : k \in DOMAIN native'} \cup {acts'[k] : k \in 1 .. Left'}
    <3>1. DOMAIN text = {native[k].bp : k \in DOMAIN native} \cup {acts[k] : k \in 1 .. Left}
      BY <2>0 DEF Deferred
    <3>2. {native[k].bp : k \in DOMAIN native} = {native'[k].bp : k \in DOMAIN native'} \cup {bp}
      <4>1. DOMAIN native = DOMAIN native' \cup {t} /\ native[t].bp = bp
        BY <1>3, <1>4
      <4>2. \A k \in DOMAIN native' : native'[k].bp = native[k].bp
        BY <1>4
      <4>3. QED
        BY <4>1, <4>2
    <3>3. {acts'[k] : k \in 1 .. Left'} = {acts[k] : k \in 1 .. Left}
      BY <1>3, <1>4, <1>12
    <3>4. bp \in {acts[k] : k \in 1 .. Left}
      BY <1>3, <2>0 DEF Deferred
    <3>5. DOMAIN text' = DOMAIN text
      BY <1>4
    <3>6. QED
      BY <3>1, <3>2, <3>3, <3>4, <3>5
  <2>2. \A k \in 1 .. Left : acts[k] \in DOMAIN text
    BY <2>0 DEF Deferred
  <2>3. \A c \in DOMAIN text' : text'[c].mutable <=> \E k \in 1 .. Left : acts[k] = c
    BY <1>4, <2>0 DEF Deferred
  <2>4. \A k \in 1 .. Left : /\ data'[acts[k]] = (IF k = 1 THEN 0 ELSE acts[k - 1])
                             /\ text'[acts[k]].context \in {"action", "reaction"}
    BY <1>4, <2>0, <2>2 DEF Deferred
  <2>5. Left' = Left /\ acts' = acts /\ list' = list
    BY <1>3, <1>4, <1>12
  <2>6. QED
    BY <2>0, <2>1, <2>3, <2>4, <2>5 DEF Deferred
<1>14. Phases'
  <2>0. Phases
    BY DEF Shape
  <2>1. CASE t = 1
    <3>1. Len(acts) # 0 /\ Len(acts) \in Nat
      <4>1. acts \in Seq(Nat)
        BY DEF Shape, Types
      <4>2. QED
        BY <1>3, <4>1, EmptySeq
    <3>2. list = acts[Len(acts)]
      BY <1>3 DEF Shape, Deferred
    <3>3. bp' = acts'[Left'] /\ Left' # 0
      BY <1>4, <1>12, <2>1, <3>1, <3>2
    <3>4. phase' = "mutable" /\ native' = <<>> /\ DOMAIN native' = {}
      BY <1>4, <2>1
    <3>5. QED
      BY <3>3, <3>4 DEF Phases
  <2>2. CASE t > 1
    <3>1. phase' = "immutable" /\ 1 \in 1 .. t - 1 /\ native' # <<>>
      BY <1>3, <1>4, <2>2
    <3>2. ran' = <<>> /\ native'[1].bp = 3 /\ (native'[1].ports <=> acts' # <<>>)
      BY <1>3, <1>4, <2>0, <3>1 DEF Phases
    <3>3. text'[3].context = "action"
      <4>1. native[1].bp = 3 /\ text[3].context = "action"
        BY <1>3, <2>0 DEF Phases
      <4>2. text'[native[1].bp] = text[native[1].bp]
        BY <1>6, <3>1
      <4>3. QED
        BY <4>1, <4>2
    <3>4. \A k \in DOMAIN native' : native'[k].ports
      BY <1>4, <1>6
    <3>5. QED
      BY <3>1, <3>2, <3>3, <3>4 DEF Phases
  <2>3. QED
    BY <1>5, <2>1, <2>2
<1>15. Arguments'
  <2> SUFFICES ASSUME NEW k \in 1 .. t - 1, native[k].ports, native[k].todo # <<>>
               PROVE  /\ native[k].top \in 1 .. Len(data) /\ data[native[k].top] <= Len(obj)
                      /\ native[k].bp + MaxLocals < native[k].top
                      /\ \A j \in 1 .. t - 1 : j > k =>
                           native[k].top < native'[j].bp - Below(text'[native'[j].bp])
    BY <1>4 DEF Arguments, Below
  <2>1. k \in DOMAIN native
    BY <1>6
  <2>2. /\ native[k].top \in 1 .. Len(data) /\ data[native[k].top] <= Len(obj)
        /\ native[k].bp + MaxLocals < native[k].top
        /\ \A j \in DOMAIN native : j > k => native[k].top < native[j].bp - Below(text[native[j].bp])
    BY <2>1 DEF Shape, Arguments
  <2>3. \A j \in 1 .. t - 1 : j > k => native[k].top < native'[j].bp - Below(text'[native'[j].bp])
    BY <1>6, <2>2
  <2>4. QED
    BY <2>2, <2>3
<1>16. QED
  BY <1>7, <1>8, <1>9, <1>10, <1>11, <1>13, <1>14, <1>15 DEF Shape

(* Control_Return restores the oldest heap saved in the frame, which is    *)
(* the component's own.                                                    *)
LEMMA EndActivateHeaps ==
  ASSUME IInv, EndActivate
  PROVE  Heaps'
<1>0. InPorts /\ Shape /\ Heaps
  BY DEF EndActivate, IInv
<1>1. PICK t : t = Len(native)
  OBVIOUS
<1>2. PICK g : g = [F EXCEPT !.changes = <<>>]
  OBVIOUS
<1>3. /\ native # <<>> /\ native \in Seq(NativeType) /\ t \in Nat /\ t >= 1 /\ t \in DOMAIN native
      /\ DOMAIN native = 1 .. t /\ bp = native[t].bp /\ bp \in DOMAIN text
      /\ F = text[bp] /\ info \in Instances
  BY <1>0, <1>1, InPortsFacts
<1>4. /\ Len(native') = t - 1 /\ DOMAIN native' = 1 .. t - 1
      /\ \A k \in 1 .. t - 1 : native'[k] = native[k] /\ k \in DOMAIN native /\ native[k].bp # bp
      /\ (\A c \in DOMAIN text : c # bp => text'[c] = text[c])
      /\ info' = native[t].old
  BY <1>0, <1>1, <1>2, EndActivateFacts
<1>5. PICK q : q = F.changes
  OBVIOUS
<1>6. heap' = IF q = <<>> THEN heap ELSE [heap EXCEPT ![info] = Head(q)]
  BY <1>5 DEF EndActivate
<1>7. heap \in [Instances -> Nat]
  BY <1>0 DEF Shape, Types
<1>8. Saved(t) = q /\ Inst(t) = info
  BY <1>1, <1>3, <1>5 DEF Saved, Inst
<1>9. \A k \in 1 .. t - 1 : Saved(k)' = Saved(k)
  <2>1. \A k \in 1 .. t - 1 : native[k].bp \in DOMAIN text
    BY <1>0, <1>4 DEF Shape, Calls
  <2>2. QED
    BY <1>4, <2>1 DEF Saved
<1>10. \A k \in 1 .. t - 1 : Inst(k)' = Inst(k)
  <2> SUFFICES ASSUME NEW k \in 1 .. t - 1 PROVE Inst(k)' = Inst(k)
    OBVIOUS
  <2>1. Inst(k) = native[k + 1].old
    BY <1>1, <1>3 DEF Inst
  <2>2. CASE k = t - 1
    BY <1>3, <1>4, <2>1, <2>2 DEF Inst
  <2>3. CASE k # t - 1
    <3>1. k + 1 \in 1 .. t - 1
      BY <1>3, <2>3
    <3>2. QED
      BY <1>4, <2>1, <2>3, <3>1 DEF Inst
  <2>4. QED
    BY <2>2, <2>3
<1>11. DOMAIN native = DOMAIN native' \cup {t} /\ \A k \in DOMAIN native' : k \in 1 .. t - 1 /\ k < t
  BY <1>3, <1>4
<1>12. ASSUME NEW i \in Instances
       PROVE  \/ heap'[i] = i /\ \A k \in DOMAIN native' : Inst(k)' = i => Saved(k)' = <<>>
              \/ \E k \in DOMAIN native' : /\ Inst(k)' = i /\ Saved(k)' # <<>> /\ Head(Saved(k)') = i
                                          /\ \A j \in DOMAIN native' : j < k /\ Inst(j)' = i => Saved(j)' = <<>>
  <2>1. CASE heap[i] = i /\ \A k \in DOMAIN native : Inst(k) = i => Saved(k) = <<>>
    <3>1. heap'[i] = i
      <4>1. i = info => q = <<>>
        BY <1>3, <1>8, <2>1
      <4>2. QED
        BY <1>6, <1>7, <2>1, <4>1
    <3>2. \A k \in DOMAIN native' : Inst(k)' = i => Saved(k)' = <<>>
      BY <1>9, <1>10, <1>11, <2>1
    <3>3. QED
      BY <3>1, <3>2
  <2>2. CASE \E k \in DOMAIN native : /\ Inst(k) = i /\ Saved(k) # <<>> /\ Head(Saved(k)) = i
                                      /\ \A j \in DOMAIN native : j < k /\ Inst(j) = i => Saved(j) = <<>>
    <3>1. PICK k \in DOMAIN native : /\ Inst(k) = i /\ Saved(k) # <<>> /\ Head(Saved(k)) = i
                                     /\ \A j \in DOMAIN native : j < k /\ Inst(j) = i => Saved(j) = <<>>
      BY <2>2
    <3>2. CASE k = t
      <4>1. i = info /\ q # <<>> /\ Head(q) = i
        BY <1>8, <3>1, <3>2
      <4>2. heap'[i] = i
        BY <1>6, <1>7, <4>1
      <4>3. \A j \in DOMAIN native' : Inst(j)' = i => Saved(j)' = <<>>
        BY <1>9, <1>10, <1>11, <3>1, <3>2
      <4>4. QED
        BY <4>2, <4>3
    <3>3. CASE k # t
      <4>1. k \in DOMAIN native'
        BY <1>11, <3>1, <3>3
      <4>2. \A j \in DOMAIN native' : j < k /\ Inst(j)' = i => Saved(j)' = <<>>
        BY <1>9, <1>10, <1>11, <3>1
      <4>3. Inst(k)' = i /\ Saved(k)' # <<>> /\ Head(Saved(k)') = i
        BY <1>9, <1>10, <1>11, <3>1, <4>1
      <4>4. QED
        BY <4>1, <4>2, <4>3
    <3>4. QED
      BY <3>2, <3>3
  <2>3. QED
    BY <1>0, <2>1, <2>2 DEF Heaps
<1>13. QED
  BY <1>12 DEF Heaps

(* The end of the port calls keeps the invariant.                          *)
LEMMA EndActivateStep ==
  ASSUME IInv, EndActivate
  PROVE  IInv'
BY EndActivateShape, EndActivateHeaps DEF IInv

-----------------------------------------------------------------------------
(* The end of an action that activated nothing. *)
LEMMA EndActionStep ==
  ASSUME IInv, EndAction
  PROVE  IInv'
<1> USE DEF IInv
<1>0. Running /\ F.context = "action" /\ F.scopes[1].kind = "list"
  <2>1. Running /\ F.context = "action" /\ InnerScope.kind = "list"
    BY DEF EndAction
  <2>2. F.scopes \in Seq(Scope) /\ Len(F.scopes) >= 2
    BY <2>1, Here, Basics
  <2>3. QED
    BY <2>1, <2>2 DEF InnerScope
<1>1. /\ native # <<>> /\ native \in Seq(NativeType) /\ Len(native) \in Nat /\ DOMAIN native = 1 .. Len(native)
      /\ bp = native[Len(native)].bp /\ bp \in DOMAIN text /\ bp \in Nat /\ F = text[bp] /\ GoodText(F)
      /\ bp > Below(F) /\ bp + MaxLocals <= Len(data) /\ data \in Seq(Nat) /\ Len(data) \in Nat
      /\ DOMAIN text \subseteq Nat /\ Current = native[Len(native)] /\ ~Current.ports
      /\ phase # "done"
  BY <1>0, Here, Under
<1>2. Len(native) = 1 /\ (phase = "mutable" => (F.mutable <=> Len(native) = 1))
  BY <1>0, Nature
<1>3. F.changes = <<>> /\ F.mutable = FALSE
  BY <1>0, <1>1, AtList
<1>4. phase = "immutable"
  BY <1>1, <1>2, <1>3 DEF Shape, Types
<1>5. bp = 3 /\ acts = <<>> /\ ran = <<>>
  BY <1>1, <1>2, <1>4 DEF Shape, Phases
<1>6. Left = 0
  BY <1>4, <1>5 DEF Left
<1>7. DOMAIN text = {3}
  <2>1. DOMAIN text = {native[k].bp : k \in DOMAIN native} \cup {acts[k] : k \in 1 .. Left}
    BY DEF Shape, Deferred
  <2>2. {acts[k] : k \in 1 .. Left} = {}
    BY <1>6
  <2>3. {native[k].bp : k \in DOMAIN native} = {bp}
    BY <1>1, <1>2
  <2>4. QED
    BY <1>5, <2>1, <2>2, <2>3
<1>8. /\ native' = <<>> /\ phase' = "done" /\ info' = native[1].old
      /\ UNCHANGED <<bound, list, heap, obj, acts, ran, count>>
  BY <1>1, <1>2 DEF EndAction
<1>9. data' = <<>>
  <2>1. data' = SubSeq(data, 1, 0)
    BY <1>5 DEF EndAction
  <2>2. SubSeq(data, 1, 0) \in Seq(Nat) /\ Len(SubSeq(data, 1, 0)) = 0
    BY <1>1, PrefixFacts
  <2>3. QED
    BY <2>1, <2>2
<1>10. text' = [x \in {} |-> text[x]] /\ DOMAIN text' = {}
  BY <1>5, <1>7 DEF EndAction, Drop
<1>11. bp' \in Nat /\ info' \in Nat
  <2>1. 3 \in 1 .. Len(data)
    BY <1>1, <1>5, Constants
  <2>2. data[3] \in Nat
    BY <1>1, <2>1
  <2>3. 1 \in DOMAIN native
    BY <1>1, <1>2
  <2>4. native[1].old \in Nat
    BY <1>1, <2>3, NativeTypes
  <2>5. QED
    BY <1>5, <1>8, <2>2, <2>4 DEF EndAction
<1>12. native' \in Seq(NativeType) /\ data' \in Seq(Nat) /\ DOMAIN native' = {}
  <2>1. <<>> \in Seq(NativeType) /\ <<>> \in Seq(Nat)
    BY EmptySeq, Zenon
  <2>2. DOMAIN <<>> = {}
    OBVIOUS
  <2>3. QED
    BY <1>8, <1>9, <2>1, <2>2, Zenon
<1>13. Types'
  <2>1. ObjectsOK(obj)'
    BY <1>8 DEF Shape, Types, ObjectsOK, N
  <2>2. text' \in [DOMAIN text' -> FrameType] /\ DOMAIN text' \subseteq Nat
    BY <1>10
  <2>3. QED
    BY <1>8, <1>11, <1>12, <2>1, <2>2 DEF Shape, Types
<1>14. Frames' /\ Layout' /\ Calls' /\ Quiet' /\ Arguments'
  <2>1. Frames' /\ Layout'
    BY <1>10 DEF Frames, Layout
  <2>2. Calls' /\ Quiet' /\ Arguments'
    BY <1>8, <1>10, <1>12 DEF Calls, Quiet, Arguments
  <2>3. QED
    BY <2>1, <2>2
<1>15. Deferred'
  <2>1. Left' = 0
    BY <1>5, <1>8 DEF Left
  <2>2. acts' = <<>> /\ Len(acts') = 0 /\ list' = list
    BY <1>5, <1>8
  <2>3. DOMAIN text' = {native'[k].bp : k \in DOMAIN native'} \cup {acts'[k] : k \in 1 .. Left'}
    BY <1>10, <1>12, <2>1
  <2>4. list' = 0
    BY <1>5, <2>2 DEF Shape, Deferred
  <2>5. DOMAIN acts' = {} /\ \A k \in 1 .. Left' : FALSE
    BY <2>1, <2>2
  <2>6. \A b \in DOMAIN text' : FALSE
    BY <1>10
  <2>7. Left' \in 0 .. Len(acts')
    BY <2>1, <2>2
  <2>8. QED
    BY <2>2, <2>3, <2>4, <2>5, <2>6, <2>7 DEF Deferred
<1>16. Phases'
  BY <1>8, <1>9, <1>10 DEF Phases
<1>17. Heaps'
  <2> SUFFICES ASSUME NEW i \in Instances PROVE heap[i] = i
    BY <1>8, <1>12 DEF Heaps
  <2>1. \A k \in DOMAIN native : Saved(k) = <<>>
    BY <1>1, <1>2, <1>3 DEF Saved
  <2>2. QED
    BY <2>1 DEF Heaps
<1>18. QED
  BY <1>13, <1>14, <1>15, <1>16, <1>17 DEF Shape

(* The words that Activate writes. *)
WordsActivated(d, b, l, calls, v) == [d EXCEPT ![b] = l, ![b - 1] = 1] \o (IF calls THEN <<v>> ELSE <<>>)

(* What becomes of the stack then.                                         *)
WordsKept(d, b, l, calls, v, dd) ==
  /\ dd \in Seq(Nat) /\ Len(d) \in Nat /\ Len(dd) \in Nat /\ Len(d) <= Len(dd)
  /\ dd[b] = l /\ (\A x \in 1 .. Len(d) : x \notin {b - 1, b} => dd[x] = d[x])
  /\ (calls => Len(dd) = Len(d) + 1 /\ dd[Len(d) + 1] = v)

(* What Activate::execute writes: the saved base pointer, the instruction  *)
(* pointer and the argument.                                               *)
LEMMA ActivatedWords ==
  ASSUME NEW d \in Seq(Nat), NEW b \in Nat, b > 2, b <= Len(d), NEW l \in Nat, NEW calls \in BOOLEAN, NEW v \in Nat,
         NEW dd, dd = WordsActivated(d, b, l, calls, v)
  PROVE  WordsKept(d, b, l, calls, v, dd)
<1>1. PICK e : e = [d EXCEPT ![b] = l, ![b - 1] = 1]
  OBVIOUS
<1>2. e \in Seq(Nat) /\ Len(e) = Len(d) /\ e[b] = l /\ (\A x \in 1 .. Len(d) : x \notin {b - 1, b} => e[x] = d[x])
      /\ Len(d) \in Nat
  BY <1>1
<1>3. PICK u : u = IF calls THEN <<v>> ELSE <<>>
  OBVIOUS
<1>4. u \in Seq(Nat) /\ (calls => Len(u) = 1 /\ u[1] = v) /\ Len(u) \in Nat
  BY <1>3
<1>5. dd = e \o u
  BY <1>1, <1>3 DEF WordsActivated
<1>6. e \o u \in Seq(Nat) /\ Len(e \o u) = Len(e) + Len(u)
      /\ \A x \in 1 .. Len(e) + Len(u) : (e \o u)[x] = IF x <= Len(e) THEN e[x] ELSE u[x - Len(e)]
  <2>1. e \in Seq(Nat) /\ u \in Seq(Nat)
    BY <1>2, <1>4
  <2>2. QED
    BY <2>1, ConcatProperties, Zenon
<1>7. dd \in Seq(Nat) /\ Len(dd) = Len(d) + Len(u)
      /\ \A x \in 1 .. Len(d) + Len(u) : dd[x] = IF x <= Len(d) THEN e[x] ELSE u[x - Len(d)]
  BY <1>2, <1>5, <1>6
<1>8. \A x \in 1 .. Len(d) : dd[x] = e[x]
  <2>1. Len(d) \in Nat /\ Len(u) \in Nat
    BY <1>2, <1>4
  <2>2. \A x \in 1 .. Len(d) : x \in 1 .. Len(d) + Len(u) /\ x <= Len(d)
    BY <2>1
  <2>3. QED
    BY <1>7, <2>2
<1>9. ASSUME calls PROVE Len(dd) = Len(d) + 1 /\ dd[Len(d) + 1] = v
  <2>1. PICK n \in Nat : n = Len(d)
    BY <1>2
  <2>2. Len(u) = 1 /\ u[1] = v
    BY <1>4, <1>9
  <2>3. n + 1 \in 1 .. n + 1 /\ ~(n + 1 <= n) /\ (n + 1) - n = 1
    BY <2>1
  <2>4. QED
    BY <1>7, <2>1, <2>2, <2>3
<1>10. b \in 1 .. Len(d)
  BY <1>2
<1>11. Len(dd) \in Nat /\ Len(d) <= Len(dd)
  <2>1. Len(d) \in Nat /\ Len(u) \in Nat /\ Len(dd) = Len(d) + Len(u)
    BY <1>2, <1>4, <1>7
  <2>2. QED
    BY <2>1
<1>12. dd[b] = l /\ \A x \in 1 .. Len(d) : x \notin {b - 1, b} => dd[x] = d[x]
  BY <1>2, <1>8, <1>10
<1>13. QED
  BY <1>2, <1>7, <1>9, <1>11, <1>12 DEF WordsKept

(* The frame that activates, in the immutable phase: all the native calls below
   it run ports. *)
LEMMA ActivatingFrame ==
  ASSUME Shape, Running, F.context \in {"action", "reaction"}, ~F.mutable, NEW t, t = Len(native)
  PROVE  /\ phase = "immutable" /\ (\A k \in DOMAIN native : k < t => native[k].ports)
         /\ Left = Len(acts) /\ acts \in Seq(Nat) /\ Len(acts) \in Nat /\ ran = <<>>
         /\ \A k \in 1 .. Len(acts) : /\ acts[k] \in DOMAIN text /\ acts[k] \in Nat /\ acts[k] < bp
                                      /\ acts[k] + MaxLocals < bp - Below(F)
         /\ acts = <<>> => t = 1 /\ bp = 3
<1>1. /\ native # <<>> /\ native \in Seq(NativeType) /\ t \in Nat /\ t >= 1 /\ t \in DOMAIN native
      /\ DOMAIN native = 1 .. t /\ bp = native[t].bp /\ bp \in DOMAIN text /\ bp \in Nat
      /\ F = text[bp] /\ DOMAIN text \subseteq Nat /\ phase # "done"
  BY Here, Under
<1>2. /\ \A c \in DOMAIN text : c <= bp
      /\ F.context = "reaction" => t > 1 /\ native[t - 1].ports
      /\ F.context = "action" => t = 1
      /\ phase = "mutable" => (F.mutable <=> t = 1)
  BY Nature
<1>3. phase = "immutable"
  <2>1. SUFFICES ASSUME phase = "mutable" PROVE FALSE
    BY <1>1 DEF Shape, Types
  <2>2. t # 1
    BY <1>2, <2>1
  <2>3. native[t - 1].ports /\ t - 1 \in DOMAIN native
    BY <1>1, <1>2, <2>2
  <2>4. QED
    BY <2>1, <2>3 DEF Shape, Phases
<1>4. \A k \in DOMAIN native : k < t => native[k].ports
  <2> SUFFICES ASSUME NEW k \in DOMAIN native, k < t PROVE native[k].ports
    OBVIOUS
  <2>1. native[t - 1].ports /\ t - 1 \in DOMAIN native
    BY <1>1, <1>2
  <2>2. k = t - 1 \/ k < t - 1
    BY <1>1
  <2>3. QED
    BY <2>1, <2>2 DEF Shape, Calls
<1>5. ran = <<>> /\ acts \in Seq(Nat) /\ native[1].bp = 3 /\ (native[1].ports <=> acts # <<>>)
  BY <1>1, <1>3 DEF Shape, Phases, Types
<1>6. Len(acts) \in Nat /\ Len(ran) = 0
  BY <1>5
<1>7. Left = Len(acts)
  BY <1>3, <1>6 DEF Left
<1>8. ASSUME NEW k \in 1 .. Len(acts)
      PROVE  /\ acts[k] \in DOMAIN text /\ acts[k] \in Nat /\ acts[k] < bp
             /\ acts[k] + MaxLocals < bp - Below(F)
  <2>1. acts[k] \in DOMAIN text /\ text[acts[k]].mutable
    BY <1>7 DEF Shape, Deferred
  <2>2. acts[k] # bp /\ acts[k] <= bp /\ acts[k] \in Nat
    BY <1>1, <1>2, <2>1
  <2>3. acts[k] < bp
    BY <1>1, <2>2
  <2>4. acts[k] + MaxLocals < bp - Below(F)
    BY <1>1, <2>1, <2>3 DEF Shape, Layout
  <2>5. QED
    BY <2>1, <2>2, <2>3, <2>4
<1>9. acts = <<>> => t = 1 /\ bp = 3
  <2> SUFFICES ASSUME acts = <<>> PROVE t = 1 /\ bp = 3
    OBVIOUS
  <2>1. ~native[1].ports /\ 1 \in DOMAIN native
    BY <1>1, <1>5
  <2>2. ~(1 < t)
    BY <1>4, <2>1
  <2>3. QED
    BY <1>1, <1>5, <2>2
<1>10. QED
  BY <1>3, <1>4, <1>5, <1>6, <1>7, <1>8, <1>9

(* The frame g and the native call c of an activation. *)
Activates(g, c, calls, e) ==
  /\ Running /\ F.context \in {"action", "reaction"} /\ ~F.mutable
  /\ GoodText(g) /\ Inherits(F, g)
  /\ g.context = F.context /\ g.returns = F.returns /\ g.changes = F.changes /\ g.scopes[1].kind = "activate" /\ g.mutable
  /\ text' = [text EXCEPT ![bp] = g]
  /\ c \in NativeType /\ c.bp = bp /\ c.old = Current.old /\ c.ports /\ c.top = Len(data) + 1
  /\ (c.todo # <<>> => calls)
  /\ native' = [native EXCEPT ![Len(native)] = c]
  /\ calls \in BOOLEAN /\ e.val \in Nat /\ (calls => e.val <= Len(obj'))
  /\ data' = [data EXCEPT ![bp] = list, ![bp - 1] = 1] \o (IF calls THEN <<e.val>> ELSE <<>>)
  /\ list' = bp /\ acts' = Append(acts, bp)
  /\ ObjectsOK(obj') /\ Len(obj) <= Len(obj')
  /\ UNCHANGED <<bound, phase, bp, info, heap, ran, count>>

(* The frame and the native call of an activation are well-formed.         *)
LEMMA ActivateGives ==
  ASSUME Shape, Running, NEW calls \in BOOLEAN, NEW e, GoodPlace(e), e.type # "C", Activate(calls, e)
  PROVE  \E g, c : Activates(g, c, calls, e)
<1> DEFINE s == ActivateScope(F.scopes)
           g == Wider(F, s, F.changes)
           c == [Current EXCEPT !.ports = TRUE, !.todo = IF calls THEN bound[info] ELSE <<>>,
                                !.top = Len(data) + 1, !.type = e.type]
<1>1. /\ GoodText(F) /\ InStack(F, bp, data, Len(obj)) /\ F = text[bp] /\ bp \in DOMAIN text
      /\ Len(obj) \in Nat /\ ObjectsOK(obj) /\ data \in Seq(Nat)
      /\ info \in Instances
  BY HereToo
<1>2. /\ F.context \in {"action", "reaction"} /\ ~F.mutable
      /\ data' = [data EXCEPT ![bp] = list, ![bp - 1] = 1] \o (IF calls THEN <<e.val>> ELSE <<>>)
      /\ list' = bp /\ acts' = Append(acts, bp)
      /\ obj' = IF calls THEN Allocated(e) ELSE obj
      /\ UNCHANGED <<bound, phase, bp, info, heap, ran, count>>
  BY DEF Activate, SavedByActivate
<1>3. /\ native # <<>> /\ native \in Seq(NativeType) /\ Len(native) \in DOMAIN native /\ Current = native[Len(native)]
      /\ bp = native[Len(native)].bp /\ Len(data) \in Nat
  BY Here, Under
<1>4. s \in Scope /\ s.kind = "activate" /\ Renames(F, s)
  BY <1>1, ActivateRenames
<1> HIDE DEF s
<1>5. F \in FrameType /\ F.changes \in Seq(Nat)
  BY <1>1, Basics
<1>6. ~F.returns
  BY <1>1, <1>2 DEF GoodText, Contexts
<1>7. GoodText(g) /\ OpenedFields(F, s, F.changes, g) /\ Inherits(F, g)
  <2>1. PICK q : q = F.changes
    OBVIOUS
  <2>2. q \in Seq(Nat) /\ (F.returns => q = <<>>) /\ g = Wider(F, s, q) /\ s.kind \in {"block", "change", "activate"}
    BY <1>4, <1>5, <1>6, <2>1
  <2>3. s.kind # "activate" => /\ F.scopes[1].kind = "activate" => F.changes = <<>>
                               /\ Len(q) = Len(F.changes) + (IF s.kind = "change" THEN 1 ELSE 0)
    BY <1>4
  <2> HIDE DEF g
  <2>4. GoodText(g) /\ OpenedFields(F, s, q, g) /\ Inherits(F, g)
    BY <1>1, <1>4, <2>2, <2>3, OpenedGood
  <2>5. QED
    BY <2>1, <2>4
<1>8. [Opened(F, s) EXCEPT !.mutable = TRUE] = g
  <2>1. <<s>> \o F.scopes \in Seq(Scope)
    BY <1>4, <1>5 DEF FrameType
  <2>2. QED
    BY <1>4, <1>5, <2>1 DEF Opened, Wider, FrameType
<1>9. text' = [text EXCEPT ![bp] = g]
  BY <1>1, <1>8 DEF Activate, s
<1>10. g.context = F.context /\ g.returns = F.returns /\ g.changes = F.changes /\ g.scopes[1].kind = "activate" /\ g.mutable
  <2> HIDE DEF g
  <2>1. QED
    BY <1>4, <1>7 DEF OpenedFields
<1> HIDE DEF g
<1>11. native' = [native EXCEPT ![Len(native)] = c]
  BY <1>3 DEF Activate
<1>12. /\ Current \in NativeType /\ Current.bp \in Nat /\ Current.old \in Nat /\ Current.ports \in BOOLEAN
       /\ Current.todo \in Seq(Instances) /\ Current.top \in Nat /\ Current.type \in {"T", "H"}
  BY <1>3, NativeTypes
<1>13. c \in NativeType /\ c.bp = bp /\ c.old = Current.old /\ c.ports /\ c.top = Len(data) + 1
       /\ (c.todo # <<>> => calls)
  <2>1. <<>> \in Seq(Instances)
    BY EmptySeq, Zenon
  <2>2. bound[info] \in Seq(Instances)
    BY <1>1 DEF Shape, Types
  <2>3. PICK q \in Seq(Instances) : q = IF calls THEN bound[info] ELSE <<>>
    BY <2>1, <2>2
  <2>4. e.type \in {"T", "H"}
    BY DEF GoodPlace
  <2>5. c = [bp |-> Current.bp, old |-> Current.old, ports |-> TRUE, todo |-> q,
             top |-> Len(data) + 1, type |-> e.type]
    <3>1. c = [Current EXCEPT !.ports = TRUE, !.todo = q, !.top = Len(data) + 1, !.type = e.type]
      BY <2>3, Zenon
    <3>2. Current \in NativeType
      BY <1>12
    <3> HIDE DEF c
    <3>3. QED
      BY <3>1, <3>2 DEF NativeType
  <2> HIDE DEF c
  <2>6. c.bp = bp /\ c.old = Current.old /\ c.ports /\ c.top = Len(data) + 1 /\ c.todo = q
    BY <1>3, <2>5
  <2>7. c \in NativeType
    BY <1>3, <1>12, <2>4, <2>5 DEF NativeType
  <2>8. q # <<>> => calls
    BY <2>3
  <2>9. QED
    BY <2>6, <2>7, <2>8
<1> HIDE DEF c
<1>14. e.val \in Nat /\ (calls => e.val <= Len(obj'))
  BY <1>2 DEF GoodPlace
<1>15. ObjectsOK(obj') /\ Len(obj) <= Len(obj')
  <2>1. ObjectsOK(Allocated(e)) /\ Len(obj) <= Len(Allocated(e))
    BY <1>1, Allocation
  <2>2. QED
    BY <1>1, <1>2, <2>1
<1>16. Activates(g, c, calls, e)
  BY <1>2, <1>7, <1>9, <1>10, <1>11, <1>13, <1>14, <1>15 DEF Activates
<1>17. QED
  BY <1>16

(* What an activation changes, part by part.                               *)
LEMMA ActivateFacts ==
  ASSUME Shape, NEW g, NEW c, NEW calls, NEW e, Activates(g, c, calls, e), NEW t, t = Len(native)
  PROVE  /\ native \in Seq(NativeType) /\ t \in Nat /\ t >= 1 /\ t \in DOMAIN native
         /\ DOMAIN native = 1 .. t /\ bp = native[t].bp /\ bp \in DOMAIN text /\ bp \in Nat
         /\ F = text[bp] /\ DOMAIN text \subseteq Nat
         /\ native' \in Seq(NativeType) /\ Len(native') = t /\ DOMAIN native' = 1 .. t /\ native'[t] = c /\ native' # <<>>
         /\ \A k \in DOMAIN native : /\ (k # t => native'[k] = native[k]) /\ native'[k].bp = native[k].bp
                                     /\ native'[k].old = native[k].old /\ native'[k].ports
         /\ DOMAIN text' = DOMAIN text /\ text'[bp] = g
         /\ \A b \in DOMAIN text : /\ b \in Nat /\ (b # bp => text'[b] = text[b] /\ b + MaxLocals < bp - Below(F))
                                   /\ text'[b].context = text[b].context /\ text'[b].changes = text[b].changes
                                   /\ Below(text'[b]) = Below(text[b])
         /\ data' \in Seq(Nat) /\ Len(data) \in Nat /\ Len(data') \in Nat /\ Len(data) <= Len(data')
         /\ data'[bp] = list /\ (\A x \in 1 .. Len(data) : x \notin {bp - 1, bp} => data'[x] = data[x])
         /\ (calls => Len(data') = Len(data) + 1 /\ data'[Len(data) + 1] = e.val)
<1>0. Running
  BY DEF Activates
<1>1. /\ native # <<>> /\ native \in Seq(NativeType) /\ t \in Nat /\ t >= 1 /\ t \in DOMAIN native
      /\ DOMAIN native = 1 .. t /\ Current = native[t] /\ bp = native[t].bp /\ bp \in DOMAIN text /\ bp \in Nat
      /\ F = text[bp] /\ DOMAIN text \subseteq Nat /\ data \in Seq(Nat) /\ Len(data) \in Nat
      /\ bp > Below(F) /\ bp + MaxLocals <= Len(data)
  BY <1>0, Here, Under
<1>2. \A b \in DOMAIN text : b <= bp
  BY <1>0, Nature
<1>3. \A k \in DOMAIN native : k < t => native[k].ports
  BY ActivatingFrame DEF Activates
<1>4. /\ c \in NativeType /\ c.bp = bp /\ c.old = Current.old /\ c.ports
      /\ native' = [native EXCEPT ![t] = c] /\ text' = [text EXCEPT ![bp] = g]
      /\ g.context = F.context /\ g.returns = F.returns /\ g.changes = F.changes
  BY DEF Activates
<1>5. native' \in Seq(NativeType) /\ Len(native') = t /\ \A k \in 1 .. t : native'[k] = IF k = t THEN c ELSE native[k]
  BY <1>1, <1>4, ExceptSeq
<1>6. DOMAIN native' = 1 .. t /\ native'[t] = c /\ native' # <<>>
  BY <1>1, <1>5
<1>7. \A k \in DOMAIN native : /\ (k # t => native'[k] = native[k]) /\ native'[k].bp = native[k].bp
                               /\ native'[k].old = native[k].old /\ native'[k].ports
  <2> SUFFICES ASSUME NEW k \in DOMAIN native
               PROVE  /\ (k # t => native'[k] = native[k]) /\ native'[k].bp = native[k].bp
                      /\ native'[k].old = native[k].old /\ native'[k].ports
    OBVIOUS
  <2>1. k \in 1 .. t /\ (k # t => k < t)
    BY <1>1
  <2>2. QED
    BY <1>1, <1>3, <1>4, <1>5, <2>1
<1>8. DOMAIN text' = DOMAIN text /\ text'[bp] = g /\ \A b \in DOMAIN text : b # bp => text'[b] = text[b]
  BY <1>1, <1>4
<1>9. \A b \in DOMAIN text : /\ text'[b].context = text[b].context /\ text'[b].changes = text[b].changes
                             /\ text'[b].returns = text[b].returns
  BY <1>1, <1>4, <1>8
<1>10. \A b \in DOMAIN text : Below(text'[b]) = Below(text[b])
  BY <1>9 DEF Below
<1>11. \A b \in DOMAIN text : b \in Nat /\ (b # bp => b + MaxLocals < bp - Below(F))
  BY <1>1, <1>2 DEF Shape, Layout
<1>12. /\ data' \in Seq(Nat) /\ Len(data') \in Nat /\ Len(data) <= Len(data')
       /\ data'[bp] = list /\ (\A x \in 1 .. Len(data) : x \notin {bp - 1, bp} => data'[x] = data[x])
       /\ (calls => Len(data') = Len(data) + 1 /\ data'[Len(data) + 1] = e.val)
  <2>1. bp > 2 /\ bp <= Len(data)
    <3>1. PICK w \in {2, 3} : w = Below(F)
      BY DEF Below
    <3>2. QED
      BY <1>1, <3>1, Constants
  <2>2. list \in Nat
    BY DEF Shape, Types
  <2>3. calls \in BOOLEAN /\ e.val \in Nat
        /\ data' = [data EXCEPT ![bp] = list, ![bp - 1] = 1] \o (IF calls THEN <<e.val>> ELSE <<>>)
    BY DEF Activates
  <2>4. PICK v : v = e.val
    OBVIOUS
  <2>5. PICK dd : dd = data'
    OBVIOUS
  <2>6. v \in Nat /\ calls \in BOOLEAN
    BY <2>3, <2>4
  <2>7. dd = WordsActivated(data, bp, list, calls, v)
    BY <2>3, <2>4, <2>5, Zenon DEF WordsActivated
  <2>8. WordsKept(data, bp, list, calls, v, dd)
    <3>1. data \in Seq(Nat) /\ bp \in Nat
      BY <1>1
    <3>2. QED
      BY <2>1, <2>2, <2>6, <2>7, <3>1, ActivatedWords, Zenon
  <2>9. QED
    BY <2>4, <2>5, <2>8 DEF WordsKept
<1>13. QED
  BY <1>1, <1>5, <1>6, <1>7, <1>8, <1>9, <1>10, <1>11, <1>12

(* An activation keeps the shape of the stack: the frame becomes the head  *)
(* of the list of deferred bodies.                                         *)
LEMMA ActivateShape ==
  ASSUME Shape, NEW g, NEW n, NEW calls, NEW e, Activates(g, n, calls, e)
  PROVE  Shape'
<1>1. PICK t : t = Len(native)
  OBVIOUS
<1>2. /\ native \in Seq(NativeType) /\ t \in Nat /\ t >= 1 /\ t \in DOMAIN native
      /\ DOMAIN native = 1 .. t /\ bp = native[t].bp /\ bp \in DOMAIN text /\ bp \in Nat
      /\ F = text[bp] /\ DOMAIN text \subseteq Nat
      /\ native' \in Seq(NativeType) /\ Len(native') = t /\ DOMAIN native' = 1 .. t /\ native'[t] = n /\ native' # <<>>
      /\ \A k \in DOMAIN native : /\ (k # t => native'[k] = native[k]) /\ native'[k].bp = native[k].bp
                                  /\ native'[k].old = native[k].old /\ native'[k].ports
      /\ DOMAIN text' = DOMAIN text /\ text'[bp] = g
      /\ \A b \in DOMAIN text : /\ b \in Nat /\ (b # bp => text'[b] = text[b] /\ b + MaxLocals < bp - Below(F))
                                /\ text'[b].context = text[b].context /\ text'[b].changes = text[b].changes
                                /\ Below(text'[b]) = Below(text[b])
      /\ data' \in Seq(Nat) /\ Len(data) \in Nat /\ Len(data') \in Nat /\ Len(data) <= Len(data')
      /\ data'[bp] = list /\ (\A x \in 1 .. Len(data) : x \notin {bp - 1, bp} => data'[x] = data[x])
      /\ (calls => Len(data') = Len(data) + 1 /\ data'[Len(data) + 1] = e.val)
  BY <1>1, ActivateFacts
<1>3. /\ GoodText(g) /\ Inherits(F, g) /\ g.mutable /\ g.scopes[1].kind = "activate"
      /\ (calls => e.val <= Len(obj')) /\ n.top = Len(data) + 1 /\ (n.todo # <<>> => calls) /\ n.ports
      /\ list' = bp /\ acts' = Append(acts, bp)
      /\ ObjectsOK(obj') /\ Len(obj) <= Len(obj')
      /\ bound' = bound /\ phase' = phase /\ bp' = bp /\ info' = info /\ heap' = heap /\ ran' = ran /\ count' = count
      /\ Running /\ F.context \in {"action", "reaction"} /\ ~F.mutable
      /\ text' = [text EXCEPT ![bp] = g]
  BY DEF Activates
<1>4. /\ phase = "immutable" /\ (\A k \in DOMAIN native : k < t => native[k].ports)
      /\ Left = Len(acts) /\ acts \in Seq(Nat) /\ Len(acts) \in Nat /\ ran = <<>>
      /\ \A k \in 1 .. Len(acts) : /\ acts[k] \in DOMAIN text /\ acts[k] \in Nat /\ acts[k] < bp
                                   /\ acts[k] + MaxLocals < bp - Below(F)
      /\ (acts = <<>> => t = 1 /\ bp = 3)
  BY <1>1, <1>3, ActivatingFrame
<1>5. PICK m \in Nat : m = MaxLocals
  BY Constants
<1>6. Len(obj) \in Nat /\ Len(obj') \in Nat /\ data \in Seq(Nat)
  BY <1>3 DEF Shape, Types, ObjectsOK
<1>7. ASSUME NEW b \in DOMAIN text
      PROVE  /\ b > Below(text[b]) /\ b + m <= Len(data) /\ b \in Nat
             /\ Untouched(data, data', b, Below(text[b])) /\ (b # bp => data'[b] = data[b])
  <2>1. PICK w \in {2, 3} : w = Below(text[b])
    BY DEF Below
  <2>2. PICK z \in {2, 3} : z = Below(F)
    BY DEF Below
  <2>3. b \in Nat /\ b > w /\ b + m <= Len(data)
    BY <1>2, <1>5, <2>1 DEF Shape, Layout
  <2>4. b # bp => b + m < bp - z
    BY <1>2, <1>5, <2>2
  <2>9. PICK l \in Nat : l = Len(data)
    BY <1>2
  <2>10. PICK q \in Nat : q = bp
    BY <1>2
  <2>11. b \in Nat /\ b > w /\ b + m <= l /\ (b # q => b + m < q - z)
    BY <2>3, <2>4, <2>9, <2>10
  <2>12. b # q => b < q - 2 /\ b + m < q - 1
    BY <2>11
  <2>13. \A x \in b - w .. b + m : x \in 1 .. l
    BY <2>11
  <2>14. b # q => \A x \in b - w .. b + m : x < q - 1
    BY <2>11, <2>12
  <2>15. \A x \in b - w .. b + m : x \in 1 .. l /\ (x \notin {b - 1, b} => x \notin {q - 1, q})
    BY <2>11, <2>13, <2>14
  <2>5. \A x \in b - w .. b + m : x \in 1 .. Len(data) /\ (x \notin {b - 1, b} => x \notin {bp - 1, bp})
    BY <2>9, <2>10, <2>15
  <2>6. Untouched(data, data', b, Below(text[b]))
    BY <1>2, <1>5, <2>1, <2>5 DEF Untouched
  <2>16. b # q => b \in 1 .. l /\ b \notin {q - 1, q}
    BY <2>11, <2>12
  <2>7. b # bp => b \in 1 .. Len(data) /\ b \notin {bp - 1, bp}
    BY <2>9, <2>10, <2>16
  <2>8. QED
    BY <1>2, <2>1, <2>3, <2>6, <2>7
<1>8. Types'
  <2>1. ObjectsOK(obj)'
    BY <1>3 DEF ObjectsOK, N
  <2>2. text' \in [DOMAIN text' -> FrameType]
    <3>1. g \in FrameType /\ text \in [DOMAIN text -> FrameType]
      BY <1>3 DEF GoodText, Shape, Types
    <3>2. QED
      BY <1>2, <1>3, <3>1
  <2>3. acts' \in Seq(Nat)
    BY <1>2, <1>3, <1>4
  <2>4. QED
    BY <1>2, <1>3, <2>1, <2>2, <2>3 DEF Shape, Types
<1>9. Frames'
  <2> SUFFICES ASSUME NEW b \in DOMAIN text
               PROVE  GoodText(text'[b]) /\ InStack(text'[b], b, data', Len(obj'))
    BY <1>2 DEF Frames, GoodText, InStack
  <2>1. GoodText(text[b]) /\ InStack(text[b], b, data, Len(obj))
    BY DEF Shape, Frames
  <2>2. InStack(text[b], b, data', Len(obj'))
    <3>1. b + MaxLocals <= Len(data) /\ b > Below(text[b]) /\ b \in Nat
      BY <1>5, <1>7
    <3>2. Untouched(data, data', b, Below(text[b])) /\ Len(obj) <= Len(obj')
      BY <1>3, <1>7
    <3>3. data \in Seq(Nat) /\ data' \in Seq(Nat)
      BY <1>2, <1>6
    <3>4. QED
      BY <1>6, <2>1, <3>1, <3>2, <3>3, InStackSame
  <2>3. CASE b = bp
    <3>1. Len(obj') <= Len(obj')
      BY <1>6
    <3>2. QED
      BY <1>2, <1>3, <1>6, <2>2, <2>3, <3>1 DEF Inherits
  <2>4. CASE b # bp
    BY <1>2, <2>1, <2>2, <2>4
  <2>5. QED
    BY <2>3, <2>4
<1>10. Layout'
  <2>1. \A b \in DOMAIN text' : b > Below(text'[b]) /\ b + MaxLocals <= Len(data')
    <3> SUFFICES ASSUME NEW b \in DOMAIN text PROVE b > Below(text'[b]) /\ b + MaxLocals <= Len(data')
      BY <1>2
    <3>1. b > Below(text[b]) /\ b + m <= Len(data) /\ b \in Nat
      BY <1>7
    <3>2. b + m <= Len(data')
      BY <1>2, <3>1
    <3>3. QED
      BY <1>2, <1>5, <3>1, <3>2
  <2>2. \A b, c \in DOMAIN text' : b < c => b + MaxLocals < c - Below(text'[c])
    BY <1>2 DEF Shape, Layout
  <2>3. QED
    BY <2>1, <2>2 DEF Layout, Below
<1>11. Calls'
  <2>0. Calls
    BY DEF Shape
  <2>1. bp' = native'[Len(native')].bp /\ info' \in Instances
    <3>1. info \in Instances
      BY <1>3, Here
    <3>2. QED
      BY <1>2, <1>3, <3>1
  <2>2. \A k \in DOMAIN native' : native'[k].bp \in DOMAIN text'
    BY <1>2, <2>0 DEF Calls
  <2>3. \A j, k \in DOMAIN native' : j < k => native'[j].bp < native'[k].bp
    BY <1>2, <2>0 DEF Calls
  <2>4. \A k \in DOMAIN native' : native'[k].ports
    BY <1>2
  <2>5. \A k \in DOMAIN native' : k > 1 =>
       /\ native'[k].old \in Instances
       /\ \/ /\ text'[native'[k].bp].context \in {"other", "getter"}
             /\ ~native'[k - 1].ports /\ data'[native'[k].bp] = native'[k - 1].bp
          \/ text'[native'[k].bp].context = "reaction" /\ native'[k - 1].ports
    <3> SUFFICES ASSUME NEW k \in DOMAIN native, k > 1
                 PROVE  native[k].old \in Instances /\ text'[native[k].bp].context = "reaction" /\ native'[k - 1].ports
      <4>1. \A k \in DOMAIN native : native'[k].old = native[k].old /\ native'[k].bp = native[k].bp
        BY <1>2
      <4>2. DOMAIN native' = DOMAIN native
        BY <1>2
      <4>3. QED
        BY <4>1, <4>2
    <3>1. k - 1 \in DOMAIN native /\ k - 1 < t
      BY <1>2
    <3>2. native[k - 1].ports /\ native'[k - 1].ports
      BY <1>2, <1>4, <3>1
    <3>3. native[k].old \in Instances /\ text[native[k].bp].context = "reaction"
      BY <2>0, <3>2 DEF Calls
    <3>4. native[k].bp \in DOMAIN text
      BY <2>0 DEF Calls
    <3>5. QED
      BY <1>2, <3>2, <3>3, <3>4
  <2>6. QED
    BY <2>1, <2>2, <2>3, <2>4, <2>5 DEF Calls
<1>12. Quiet'
  <2>0. Quiet
    BY DEF Shape
  <2>1. \A k \in DOMAIN native' : text'[native'[k].bp].scopes[1].kind = "activate" =>
           native'[k].ports \/ text'[native'[k].bp].changes = <<>>
    BY <1>2
  <2>2. \A k \in DOMAIN native' : native'[k].ports => text'[native'[k].bp].scopes[1].kind = "activate"
    <3> SUFFICES ASSUME NEW k \in DOMAIN native PROVE text'[native[k].bp].scopes[1].kind = "activate"
      BY <1>2, ZenonT(30)
    <3>1. CASE k = t
      BY <1>2, <1>3, <3>1
    <3>2. CASE k # t
      <4>1. k < t
        BY <1>2, <3>2
      <4>2. text[native[k].bp].scopes[1].kind = "activate"
        BY <1>4, <2>0, <4>1 DEF Quiet
      <4>3. native[k].bp < native[t].bp /\ native[k].bp \in DOMAIN text
        BY <1>2, <4>1 DEF Shape, Calls
      <4>4. native[k].bp # bp
        BY <1>2, <4>3
      <4>5. QED
        BY <1>2, <4>2, <4>3, <4>4
    <3>3. QED
      BY <3>1, <3>2
  <2>3. \A c \in DOMAIN text' : (\A k \in DOMAIN native' : native'[k].bp # c) => text'[c].changes = <<>>
    BY <1>2, <2>0, SMTT(30) DEF Quiet
  <2>4. QED
    BY <2>1, <2>2, <2>3 DEF Quiet
<1>13. /\ acts' \in Seq(Nat) /\ Len(acts') = Len(acts) + 1 /\ acts' # <<>> /\ acts'[Len(acts) + 1] = bp
       /\ \A k \in 1 .. Len(acts) : acts'[k] = acts[k]
  <2>1. acts \in Seq(Nat) /\ bp \in Nat /\ acts' = Append(acts, bp)
    BY <1>2, <1>3, <1>4
  <2>2. QED
    BY <2>1
<1>14. Left' = Len(acts) + 1
  <2>1. Len(ran') = 0
    BY <1>3, <1>4
  <2>2. QED
    BY <1>3, <1>4, <1>13, <2>1 DEF Left
<1>15. Deferred'
  <2>0. Deferred
    BY DEF Shape
  <2>1. PICK a : a = Len(acts)
    OBVIOUS
  <2>2. a \in Nat /\ Left = a /\ Left' = a + 1 /\ Len(acts') = a + 1
    BY <1>4, <1>13, <1>14, <2>1
  <2>3. \A k \in 1 .. a + 1 : (k \in 1 .. a /\ k # a + 1 /\ acts'[k] = acts[k]) \/ (k = a + 1 /\ k \notin 1 .. a /\ acts'[k] = bp)
    BY <1>13, <2>1, <2>2
  <2>4. DOMAIN text' = {native'[k].bp : k \in DOMAIN native'} \cup {acts'[k] : k \in 1 .. Left'}
    <3>1. DOMAIN text = {native[k].bp : k \in DOMAIN native} \cup {acts[k] : k \in 1 .. Left}
      BY <2>0 DEF Deferred
    <3>2. {native'[k].bp : k \in DOMAIN native'} = {native[k].bp : k \in DOMAIN native}
      <4>1. DOMAIN native' = DOMAIN native /\ \A k \in DOMAIN native : native'[k].bp = native[k].bp
        BY <1>2
      <4>2. QED
        BY <4>1
    <3>3. {acts'[k] : k \in 1 .. Left'} = {acts[k] : k \in 1 .. Left} \cup {bp}
      <4>1. 1 .. Left' = 1 .. a \cup {a + 1}
        BY <2>2
      <4>2. (\A k \in 1 .. a : acts'[k] = acts[k]) /\ acts'[a + 1] = bp
        BY <1>13, <2>1
      <4>3. QED
        BY <2>2, <4>1, <4>2
    <3>4. bp \in {native[k].bp : k \in DOMAIN native}
      BY <1>2
    <3>5. QED
      BY <1>2, <3>1, <3>2, <3>3, <3>4
  <2>5. \A b \in DOMAIN text' : text'[b].mutable <=> \E k \in 1 .. Left' : acts'[k] = b
    <3> SUFFICES ASSUME NEW b \in DOMAIN text PROVE text'[b].mutable <=> \E k \in 1 .. a + 1 : acts'[k] = b
      BY <1>2, <2>2
    <3>1. CASE b = bp
      <4>1. a + 1 \in 1 .. a + 1 /\ acts'[a + 1] = bp
        BY <1>13, <2>1, <2>2
      <4>2. QED
        BY <1>2, <1>3, <3>1, <4>1
    <3>2. CASE b # bp
      <4>1. text'[b] = text[b] /\ (text[b].mutable <=> \E k \in 1 .. a : acts[k] = b)
        BY <1>2, <2>0, <2>2, <3>2 DEF Deferred
      <4>2. (\E k \in 1 .. a + 1 : acts'[k] = b) <=> \E k \in 1 .. a : acts[k] = b
        <5>1. ASSUME NEW k \in 1 .. a + 1, acts'[k] = b PROVE \E j \in 1 .. a : acts[j] = b
          BY <2>3, <3>2, <5>1
        <5>2. ASSUME NEW k \in 1 .. a, acts[k] = b PROVE \E j \in 1 .. a + 1 : acts'[j] = b
          <6>1. k \in 1 .. a + 1 /\ acts'[k] = acts[k]
            BY <1>13, <2>1, <2>2
          <6>2. QED
            BY <5>2, <6>1
        <5>3. QED
          BY <5>1, <5>2
      <4>3. QED
        BY <4>1, <4>2
    <3>3. QED
      BY <3>1, <3>2
  <2>6. \A j, k \in DOMAIN acts' : j < k => acts'[j] < acts'[k]
    <3> SUFFICES ASSUME NEW j \in 1 .. a + 1, NEW k \in 1 .. a + 1, j < k PROVE acts'[j] < acts'[k]
      BY <1>13, <2>2
    <3>1. j \in 1 .. a /\ acts'[j] = acts[j]
      BY <1>13, <2>1, <2>2
    <3>2. CASE k = a + 1
      BY <1>4, <1>13, <2>1, <3>1, <3>2
    <3>3. CASE k # a + 1
      <4>1. k \in 1 .. a /\ acts'[k] = acts[k]
        BY <1>13, <2>1, <2>2, <3>3
      <4>2. j \in DOMAIN acts /\ k \in DOMAIN acts
        BY <1>4, <2>1, <3>1, <4>1
      <4>3. QED
        BY <2>0, <3>1, <4>1, <4>2 DEF Deferred
    <3>4. QED
      BY <3>2, <3>3
  <2>7. \A k \in 1 .. Left' : /\ data'[acts'[k]] = (IF k = 1 THEN 0 ELSE acts'[k - 1])
                              /\ text'[acts'[k]].context \in {"action", "reaction"}
    <3> SUFFICES ASSUME NEW k \in 1 .. a + 1
                 PROVE  /\ data'[acts'[k]] = (IF k = 1 THEN 0 ELSE acts'[k - 1])
                        /\ text'[acts'[k]].context \in {"action", "reaction"}
      BY <2>2
    <3>1. CASE k = a + 1
      <4>1. acts'[k] = bp
        BY <1>13, <2>1, <3>1
      <4>2. text'[bp].context \in {"action", "reaction"}
        BY <1>2, <1>3
      <4>3. list = IF acts = <<>> THEN 0 ELSE acts[a]
        BY <2>0, <2>1 DEF Deferred
      <4>4. acts = <<>> <=> a = 0
        BY <1>4, <2>1
      <4>5. k # 1 => k - 1 = a /\ a \in 1 .. a /\ acts'[a] = acts[a]
        BY <1>13, <2>1, <2>2, <3>1
      <4>6. k = 1 <=> a = 0
        BY <2>2, <3>1
      <4>7. QED
        BY <1>2, <4>1, <4>2, <4>3, <4>4, <4>5, <4>6
    <3>2. CASE k # a + 1
      <4>1. k \in 1 .. a /\ acts'[k] = acts[k]
        BY <1>13, <2>1, <2>2, <3>2
      <4>2. acts[k] \in DOMAIN text /\ acts[k] # bp
        <5>1. acts[k] \in DOMAIN text /\ acts[k] \in Nat /\ acts[k] < bp
          BY <1>4, <2>1, <4>1
        <5>2. bp \in Nat
          BY <1>2
        <5>3. QED
          BY <5>1, <5>2
      <4>3. data'[acts[k]] = data[acts[k]] /\ text'[acts[k]] = text[acts[k]]
        BY <1>2, <1>7, <4>2
      <4>4. data[acts[k]] = (IF k = 1 THEN 0 ELSE acts[k - 1]) /\ text[acts[k]].context \in {"action", "reaction"}
        BY <2>0, <2>2, <4>1 DEF Deferred
      <4>5. k # 1 => acts'[k - 1] = acts[k - 1]
        <5>1. k # 1 => k - 1 \in 1 .. Len(acts)
          BY <2>1, <2>2, <4>1
        <5>2. QED
          BY <1>13, <5>1
      <4>6. QED
        BY <4>1, <4>3, <4>4, <4>5
    <3>3. QED
      BY <3>1, <3>2
  <2>8. list' = acts'[Len(acts')] /\ acts' # <<>>
    BY <1>3, <1>13
  <2>9. acts'[1] = 3
    <3>1. CASE acts = <<>>
      <4>1. a = 0
        BY <2>1, <3>1
      <4>2. QED
        BY <1>4, <1>13, <2>1, <3>1, <4>1
    <3>2. CASE acts # <<>>
      <4>1. 1 \in 1 .. Len(acts)
        BY <1>4, <3>2
      <4>2. QED
        BY <1>13, <2>0, <3>2, <4>1 DEF Deferred
    <3>3. QED
      BY <3>1, <3>2
  <2>10. Left' \in 0 .. Len(acts')
    BY <2>2
  <2>11. QED
    BY <2>4, <2>5, <2>6, <2>7, <2>8, <2>9, <2>10 DEF Deferred
<1>16. Phases'
  <2>0. Phases
    BY DEF Shape
  <2>1. 1 \in DOMAIN native
    BY <1>2
  <2>2. native'[1].bp = 3 /\ native'[1].ports /\ acts' # <<>>
    BY <1>2, <1>4, <1>13, <2>0, <2>1 DEF Phases
  <2>3. text'[3].context = "action"
    <3>1. text[3].context = "action" /\ native[1].bp = 3
      BY <1>4, <2>0 DEF Phases
    <3>2. 3 \in DOMAIN text
      BY <2>1, <3>1 DEF Shape, Calls
    <3>3. QED
      BY <1>2, <3>1, <3>2
  <2>4. \A k \in DOMAIN native' : native'[k].ports
    BY <1>2
  <2>5. phase' = "immutable" /\ ran' = <<>> /\ native' # <<>>
    BY <1>2, <1>3, <1>4
  <2>6. QED
    BY <2>2, <2>3, <2>4, <2>5 DEF Phases
<1>17. Arguments'
  <2> SUFFICES ASSUME NEW k \in 1 .. t, native'[k].ports, native'[k].todo # <<>>
               PROVE  /\ native'[k].top \in 1 .. Len(data') /\ data'[native'[k].top] <= Len(obj')
                      /\ native'[k].bp + MaxLocals < native'[k].top
                      /\ \A j \in 1 .. t : j > k =>
                           native'[k].top < native'[j].bp - Below(text'[native'[j].bp])
    BY <1>2 DEF Arguments, Below
  <2>1. CASE k = t
    <3>1. calls /\ native'[k].top = Len(data) + 1 /\ native'[k].bp = bp
      BY <1>2, <1>3, <2>1
    <3>2. bp + m <= Len(data)
      BY <1>2, <1>7
    <3>3. ~\E j \in 1 .. t : j > k
      BY <1>2, <2>1
    <3>4. Len(data) + 1 \in 1 .. Len(data')
      BY <1>2, <3>1
    <3>5. bp + m < Len(data) + 1
      BY <1>2, <3>2
    <3>6. QED
      BY <1>2, <1>3, <1>5, <3>1, <3>3, <3>4, <3>5
  <2>2. CASE k # t
    <3>1. k \in DOMAIN native /\ native'[k] = native[k] /\ k < t /\ native[k].ports /\ native[k].todo # <<>>
      <4>1. k \in DOMAIN native /\ native'[k] = native[k]
        BY <1>2, <2>2
      <4>2. t \in Nat
        BY <1>2
      <4>3. k < t
        BY <2>2, <4>2
      <4>4. QED
        BY <4>1, <4>3
    <3>2. PICK x : x = native[k].top
      OBVIOUS
    <3>3. /\ x \in 1 .. Len(data) /\ data[x] <= Len(obj) /\ native[k].bp + MaxLocals < x
          /\ \A j \in DOMAIN native : j > k => x < native[j].bp - Below(text[native[j].bp])
      BY <3>1, <3>2 DEF Shape, Arguments
    <3>4. x < bp - Below(F)
      BY <1>2, <3>1, <3>3
    <3>5. PICK z \in {2, 3} : z = Below(F)
      BY DEF Below
    <3>6. x \notin {bp - 1, bp} /\ x \in 1 .. Len(data')
      BY <1>2, <3>3, <3>4, <3>5, SMTT(30)
    <3>7. data'[x] = data[x] /\ data[x] \in Nat
      <4>1. \A y \in 1 .. Len(data) : y \notin {bp - 1, bp} => data'[y] = data[y]
        BY <1>2
      <4>2. x \in 1 .. Len(data) /\ data \in Seq(Nat)
        BY <1>6, <3>3
      <4>3. QED
        BY <3>6, <4>1, <4>2
    <3>8. data'[x] <= Len(obj')
      BY <1>3, <1>6, <3>3, <3>7
    <3>9. ASSUME NEW j \in 1 .. t, j > k PROVE x < native'[j].bp - Below(text'[native'[j].bp])
      <4>1. j \in DOMAIN native /\ native'[j].bp = native[j].bp
        BY <1>2
      <4>2. native[j].bp \in DOMAIN text
        BY <4>1 DEF Shape, Calls
      <4>3. Below(text'[native[j].bp]) = Below(text[native[j].bp])
        BY <1>2, <4>2
      <4>4. QED
        BY <3>3, <3>9, <4>1, <4>3
    <3>10. QED
      BY <3>1, <3>2, <3>3, <3>6, <3>8, <3>9
  <2>3. QED
    BY <2>1, <2>2
<1>18. QED
  BY <1>8, <1>9, <1>10, <1>11, <1>12, <1>15, <1>16, <1>17 DEF Shape

(* An activation keeps the invariant.                                      *)
LEMMA ActivateStep ==
  ASSUME IInv, Running, NEW calls \in BOOLEAN, NEW e, GoodPlace(e), e.type # "C", Activate(calls, e)
  PROVE  IInv'
<1>0. Shape /\ Heaps
  BY DEF IInv
<1>1. PICK g, c : Activates(g, c, calls, e)
  BY <1>0, ActivateGives
<1>2. Shape'
  BY <1>0, <1>1, ActivateShape
<1>3. PICK t : t = Len(native)
  OBVIOUS
<1>4. /\ DOMAIN native = 1 .. t /\ t \in Nat /\ Len(native') = t /\ DOMAIN native' = 1 .. t
      /\ (\A k \in DOMAIN native : native'[k].bp = native[k].bp /\ native'[k].old = native[k].old)
      /\ \A b \in DOMAIN text : text'[b].changes = text[b].changes
  BY <1>0, <1>1, <1>3, ActivateFacts
<1>5. heap' = heap /\ info' = info
  BY <1>1 DEF Activates
<1>6. \A k \in DOMAIN native : Saved(k)' = Saved(k)
  <2>1. \A k \in DOMAIN native : native[k].bp \in DOMAIN text
    BY <1>0 DEF Shape, Calls
  <2>2. QED
    BY <1>4, <2>1 DEF Saved
<1>7. \A k \in DOMAIN native : Inst(k)' = Inst(k)
  <2> SUFFICES ASSUME NEW k \in 1 .. t PROVE Inst(k)' = Inst(k)
    BY <1>4
  <2>1. k # t => k + 1 \in DOMAIN native
    BY <1>4
  <2>2. QED
    BY <1>3, <1>4, <1>5, <2>1 DEF Inst
<1>8. Heaps'
  BY <1>0, <1>4, <1>5, <1>6, <1>7 DEF Heaps
<1>9. QED
  BY <1>2, <1>8 DEF IInv

(* Between two bodies of the mutable phase. *)
LEMMA Between ==
  ASSUME Shape, phase = "mutable", native = <<>>
  PROVE  /\ Left = Len(acts) - Len(ran) /\ Left \in Nat /\ Left <= Len(acts)
         /\ acts \in Seq(Nat) /\ ran \in Seq(Nat) /\ Len(acts) \in Nat /\ Len(ran) \in Nat
         /\ DOMAIN text = {acts[k] : k \in 1 .. Left}
         /\ bp = IF Left = 0 THEN 0 ELSE acts[Left]
         /\ \A k \in 1 .. Left : /\ acts[k] \in DOMAIN text /\ acts[k] \in Nat /\ k \in DOMAIN acts
                                 /\ (k # Left => acts[k] < acts[Left])
         /\ \A b \in DOMAIN text : b \in Nat /\ b > 2
<1>1. Types /\ Deferred /\ Phases /\ Layout
  BY DEF Shape
<1>2. acts \in Seq(Nat) /\ ran \in Seq(Nat) /\ Len(acts) \in Nat /\ Len(ran) \in Nat /\ DOMAIN text \subseteq Nat
  BY <1>1 DEF Types
<1>3. Left = Len(acts) - Len(ran) /\ Left \in Nat /\ Left <= Len(acts)
  <2>1. Left = Len(acts) - Len(ran)
    BY DEF Left
  <2>2. Left \in 0 .. Len(acts)
    BY <1>1 DEF Deferred
  <2>3. QED
    BY <1>2, <2>1, <2>2
<1>4. DOMAIN text = {acts[k] : k \in 1 .. Left}
  <2>1. {native[k].bp : k \in DOMAIN native} = {}
    OBVIOUS
  <2>2. QED
    BY <1>1, <2>1 DEF Deferred
<1>5. bp = IF Left = 0 THEN 0 ELSE acts[Left]
  BY <1>1 DEF Phases
<1>6. ASSUME NEW k \in 1 .. Left
      PROVE  /\ acts[k] \in DOMAIN text /\ acts[k] \in Nat /\ k \in DOMAIN acts
             /\ (k # Left => acts[k] < acts[Left])
  <2>1. k \in DOMAIN acts /\ Left \in DOMAIN acts /\ (k # Left => k < Left)
    <3>1. PICK l \in Nat : l = Left
      BY <1>3
    <3>2. PICK a \in Nat : a = Len(acts)
      BY <1>2
    <3>3. k \in 1 .. l /\ l <= a
      BY <1>3, <3>1, <3>2
    <3>4. k \in 1 .. a /\ l \in 1 .. a /\ (k # l => k < l)
      BY <3>3
    <3>5. DOMAIN acts = 1 .. a
      BY <1>2, <3>2
    <3>6. QED
      BY <3>1, <3>4, <3>5
  <2>2. k # Left => acts[k] < acts[Left]
    BY <1>1, <2>1 DEF Deferred
  <2>3. QED
    BY <1>2, <1>4, <2>1, <2>2
<1>7. ASSUME NEW b \in DOMAIN text PROVE b \in Nat /\ b > 2
  <2>1. b > Below(text[b]) /\ b \in Nat
    BY <1>1, <1>2 DEF Layout
  <2>2. PICK w \in {2, 3} : w = Below(text[b])
    BY DEF Below
  <2>3. QED
    BY <2>1, <2>2
<1>8. QED
  BY <1>2, <1>3, <1>4, <1>5, <1>6, <1>7

(* The mutable phase begins a body in its own frame, which is on top of    *)
(* the stack, and finds its receiver there.                                *)
LEMMA BeginBodyStep ==
  ASSUME IInv, BeginBody
  PROVE  IInv'
<1>0. Shape /\ Heaps /\ Types /\ Frames /\ Layout /\ Calls /\ Quiet /\ Deferred /\ Phases
  BY DEF IInv, Shape
<1>1. /\ phase = "mutable" /\ native = <<>> /\ bp \in DOMAIN text
      /\ native' = <<Native(bp)>> /\ info' = data[bp + ReceiverOffset] /\ ran' = Append(ran, bp)
      /\ bound' = bound /\ phase' = phase /\ data' = data /\ bp' = bp /\ list' = list /\ heap' = heap
      /\ obj' = obj /\ text' = text /\ acts' = acts /\ count' = count
  BY DEF BeginBody
<1>2. /\ Left = Len(acts) - Len(ran) /\ Left \in Nat /\ Left <= Len(acts)
      /\ acts \in Seq(Nat) /\ ran \in Seq(Nat) /\ Len(acts) \in Nat /\ Len(ran) \in Nat
      /\ DOMAIN text = {acts[k] : k \in 1 .. Left}
      /\ bp = (IF Left = 0 THEN 0 ELSE acts[Left])
      /\ \A k \in 1 .. Left : /\ acts[k] \in DOMAIN text /\ acts[k] \in Nat /\ k \in DOMAIN acts
                              /\ (k # Left => acts[k] < acts[Left])
      /\ \A b \in DOMAIN text : b \in Nat /\ b > 2
  BY <1>0, <1>1, Between
<1>3. bp \in Nat /\ bp > 2
  BY <1>1, <1>2
<1>4. Left >= 1 /\ bp = acts[Left] /\ Left \in 1 .. Left
  <2>1. Left # 0
    BY <1>2, <1>3
  <2>2. QED
    BY <1>2, <2>1
<1>5. ran' \in Seq(Nat) /\ Len(ran') = Len(ran) + 1
  BY <1>1, <1>2, <1>3
<1>6. PICK c : c = Native(bp)
  OBVIOUS
<1>7. c.bp = bp /\ c.ports = FALSE /\ c.todo = <<>> /\ c \in NativeType
  <2>1. <<>> \in Seq(Instances)
    BY EmptySeq, Zenon
  <2>2. PICK q \in Seq(Instances) : q = <<>>
    BY <2>1
  <2>3. c = [bp |-> bp, old |-> info, ports |-> FALSE, todo |-> q, top |-> 0, type |-> "T"]
    BY <1>6, <2>2 DEF Native
  <2>4. info \in Nat
    BY <1>0 DEF Types
  <2>5. c \in NativeType
    BY <1>3, <2>3, <2>4 DEF NativeType
  <2>6. QED
    BY <2>2, <2>3, <2>5
<1>8. native' = <<c>> /\ native' \in Seq(NativeType) /\ Len(native') = 1 /\ DOMAIN native' = {1} /\ native'[1] = c
      /\ native' # <<>>
  <2>1. native' = <<c>>
    BY <1>1, <1>6
  <2>2. QED
    BY <1>7, <2>1
<1>9. GoodText(text[bp]) /\ InStack(text[bp], bp, data, Len(obj)) /\ text[bp].context \in {"action", "reaction"}
      /\ text[bp].changes = <<>>
  <2>1. text[bp].context \in {"action", "reaction"}
    BY <1>0, <1>4 DEF Deferred
  <2>2. text[bp].changes = <<>>
    BY <1>0, <1>1 DEF Quiet
  <2>3. QED
    BY <1>0, <1>1, <2>1, <2>2 DEF Frames
<1>10. info' \in Instances
  <2>1. PICK f : f = text[bp]
    OBVIOUS
  <2>2. GoodText(f) /\ InStack(f, bp, data, Len(obj)) /\ f.context \in {"action", "reaction"}
    BY <1>9, <2>1
  <2>3. ~f.returns /\ Len(f.scopes) \in DOMAIN f.scopes
        /\ 1 \in DOMAIN f.scopes[Len(f.scopes)].symbols
        /\ f.scopes[Len(f.scopes)].symbols[1].type = "C"
        /\ f.scopes[Len(f.scopes)].symbols[1].off = 0 - Below(f)
    <3>1. Len(f.scopes) \in Nat /\ Len(f.scopes) >= 2 /\ DOMAIN f.scopes = 1 .. Len(f.scopes)
      BY <2>2, Basics
    <3>2. Len(f.scopes) \in DOMAIN f.scopes
      BY <3>1
    <3>3. QED
      BY <2>2, <3>2 DEF GoodText, Contexts
  <2>4. ReceiverOffset = 0 - Below(f)
    BY <2>1, <2>2, <2>3 DEF ReceiverOffset, Below, F
  <2>5. PICK k \in DOMAIN f.scopes : k = Len(f.scopes)
    BY <2>3
  <2>6. data[bp + f.scopes[k].symbols[1].off] = f.values[1] /\ f.values[1] \in Instances
    BY <2>2, <2>3, <2>5 DEF InStack
  <2>7. QED
    BY <1>1, <2>3, <2>4, <2>5, <2>6
<1>11. Left' = Left
  <2>1. Left' = Len(acts) - Len(ran') + 1
    BY <1>1, <1>8 DEF Left
  <2>2. QED
    BY <1>2, <1>5, <2>1
<1>12. Types'
  <2>1. info' \in Nat
    BY <1>10, Constants
  <2>2. ObjectsOK(obj)'
    BY <1>0, <1>1 DEF Types, ObjectsOK, N
  <2>3. QED
    BY <1>0, <1>1, <1>5, <1>8, <2>1, <2>2 DEF Types
<1>13. Frames'
  BY <1>0, <1>1 DEF Frames, GoodText, InStack
<1>14. Layout'
  BY <1>0, <1>1 DEF Layout, Below
<1>15. Calls'
  <2>1. \A b \in DOMAIN text : ~(b > bp)
    <3> SUFFICES ASSUME NEW k \in 1 .. Left PROVE ~(acts[k] > bp)
      BY <1>2
    <3>1. acts[k] \in Nat /\ (k # Left => acts[k] < acts[Left])
      BY <1>2
    <3>2. QED
      BY <1>3, <1>4, <3>1
  <2>2. bp' = native'[Len(native')].bp
    BY <1>1, <1>7, <1>8
  <2>3. \A k \in DOMAIN native' : k = 1 /\ native'[k] = c
    BY <1>8
  <2>4. native'[1].bp = bp /\ bp \in DOMAIN text' /\ text' = text
    BY <1>1, <1>7, <1>8
  <2>5. \A j, k \in DOMAIN native' : ~(j < k)
    BY <2>3
  <2>6. \A k \in DOMAIN native' : ~(k > 1)
    BY <2>3
  <2>7. \A k \in DOMAIN native' : native'[k].bp \in DOMAIN text'
    BY <2>3, <2>4
  <2>8. \A k \in DOMAIN native' : \A b \in DOMAIN text' : ~(b > native'[k].bp)
    BY <2>1, <2>3, <2>4
  <2>9. QED
    BY <1>10, <2>2, <2>5, <2>6, <2>7, <2>8 DEF Calls
<1>16. Quiet'
  <2>1. \A k \in DOMAIN native' : native'[k] = c
    BY <1>8
  <2>2. \A b \in DOMAIN text : text[b].changes = <<>>
    BY <1>0, <1>1 DEF Quiet
  <2>3. QED
    BY <1>1, <1>7, <1>9, <2>1, <2>2 DEF Quiet
<1>17. Deferred'
  <2>1. DOMAIN text' = {native'[k].bp : k \in DOMAIN native'} \cup {acts'[k] : k \in 1 .. Left'}
    <3>1. {native'[k].bp : k \in DOMAIN native'} = {bp}
      BY <1>7, <1>8
    <3>2. {acts'[k] : k \in 1 .. Left'} = DOMAIN text
      BY <1>1, <1>2, <1>11
    <3>3. QED
      BY <1>1, <3>1, <3>2
  <2>2. Left' \in 0 .. Len(acts')
    BY <1>1, <1>2, <1>11
  <2>3. QED
    BY <1>0, <1>1, <1>11, <2>1, <2>2 DEF Deferred
<1>18. Phases'
  <2>1. \A k \in DOMAIN native' : ~native'[k].ports
    BY <1>7, <1>8
  <2>2. Left' >= 1 /\ native'[1].bp = acts'[Left']
    BY <1>1, <1>4, <1>7, <1>8, <1>11
  <2>3. QED
    BY <1>1, <1>8, <2>1, <2>2 DEF Phases
<1>19. Arguments'
  <2>1. \A k \in DOMAIN native' : ~native'[k].ports
    BY <1>7, <1>8
  <2>2. QED
    BY <2>1 DEF Arguments
<1>20. Heaps'
  <2>1. \A i \in Instances : heap[i] = i
    BY <1>0, <1>1 DEF Heaps
  <2>2. \A k \in DOMAIN native' : Saved(k)' = <<>>
    BY <1>1, <1>7, <1>8, <1>9 DEF Saved
  <2>3. QED
    BY <1>1, <2>1, <2>2 DEF Heaps
<1>21. QED
  BY <1>12, <1>13, <1>14, <1>15, <1>16, <1>17, <1>18, <1>19, <1>20 DEF IInv, Shape

(* When no body is left the stack is empty but for the two words that      *)
(* execute_no_check pops.                                                  *)
LEMMA FinishStep ==
  ASSUME IInv, Finish
  PROVE  IInv'
<1>0. Shape /\ Heaps /\ Types /\ Frames /\ Layout /\ Calls /\ Quiet /\ Deferred /\ Phases
  BY DEF IInv, Shape
<1>1. /\ phase = "mutable" /\ native = <<>> /\ bp = 0 /\ data' = SubSeq(data, 1, Len(data) - 2) /\ phase' = "done"
      /\ bound' = bound /\ bp' = bp /\ list' = list /\ info' = info /\ heap' = heap /\ native' = native
      /\ obj' = obj /\ text' = text /\ acts' = acts /\ count' = count /\ ran' = ran
  BY DEF Finish
<1>2. /\ Left = Len(acts) - Len(ran) /\ Left \in Nat /\ Left <= Len(acts)
      /\ DOMAIN text = {acts[k] : k \in 1 .. Left}
      /\ bp = (IF Left = 0 THEN 0 ELSE acts[Left])
      /\ \A k \in 1 .. Left : acts[k] \in DOMAIN text
      /\ \A b \in DOMAIN text : b \in Nat /\ b > 2
  BY <1>0, <1>1, Between
<1>3. Left = 0
  <2>1. ASSUME Left # 0 PROVE FALSE
    <3>1. Left \in 1 .. Left /\ acts[Left] = 0
      <4>1. PICK l \in Nat : l = Left
        BY <1>2
      <4>2. l \in 1 .. l
        BY <2>1, <4>1
      <4>3. QED
        BY <1>1, <1>2, <2>1, <4>1, <4>2
    <3>2. acts[Left] \in DOMAIN text
      BY <1>2, <3>1
    <3>3. ASSUME NEW b \in DOMAIN text PROVE b # 0
      <4>1. b \in Nat /\ b > 2
        BY <1>2, Zenon
      <4>2. QED
        BY <4>1
    <3>4. QED
      BY <3>1, <3>2, <3>3
  <2>2. QED
    BY <2>1
<1>4. DOMAIN text = {}
  BY <1>2, <1>3
<1>5. data' = <<>> /\ data' \in Seq(Nat)
  <2>1. Len(data) = 2 /\ data \in Seq(Nat)
    <3>1. Len(data) = 2
      BY <1>0, <1>1, <1>3 DEF Phases
    <3>2. data \in Seq(Nat)
      BY <1>0 DEF Types
    <3>3. QED
      BY <3>1, <3>2
  <2>2. data' = SubSeq(data, 1, 0)
    BY <1>1, <2>1
  <2>3. SubSeq(data, 1, 0) \in Seq(Nat) /\ Len(SubSeq(data, 1, 0)) = 0
    BY <2>1, PrefixFacts
  <2>4. QED
    BY <2>2, <2>3
<1>6. Left' = 0
  BY <1>1, <1>2, <1>3 DEF Left
<1>7. Types'
  <2>1. ObjectsOK(obj)'
    BY <1>0, <1>1 DEF Types, ObjectsOK, N
  <2>2. QED
    BY <1>0, <1>1, <1>5, <2>1 DEF Types
<1>8. Frames' /\ Layout' /\ Calls' /\ Quiet' /\ Arguments'
  <2>1. Frames' /\ Layout'
    BY <1>1, <1>4 DEF Frames, Layout
  <2>2. Calls'
    BY <1>0, <1>1 DEF Calls
  <2>3. Quiet' /\ Arguments'
    BY <1>1, <1>4 DEF Quiet, Arguments
  <2>4. QED
    BY <2>1, <2>2, <2>3
<1>9. Deferred'
  <2>1. DOMAIN text' = {native'[k].bp : k \in DOMAIN native'} \cup {acts'[k] : k \in 1 .. Left'}
    <3>1. DOMAIN native' = {} /\ 1 .. Left' = {}
      BY <1>1, <1>6
    <3>2. QED
      BY <1>1, <1>4, <3>1
  <2>2. Left' \in 0 .. Len(acts')
    BY <1>1, <1>2, <1>3, <1>6
  <2>3. \A k \in 1 .. Left' : FALSE
    BY <1>6
  <2>4. QED
    BY <1>0, <1>1, <1>4, <2>1, <2>2, <2>3 DEF Deferred
<1>10. Phases'
  BY <1>1, <1>4, <1>5 DEF Phases
<1>11. Heaps'
  BY <1>0, <1>1 DEF Heaps
<1>12. QED
  BY <1>7, <1>8, <1>9, <1>10, <1>11 DEF IInv, Shape

(* Where a body ends. *)
LEMMA EndBodyFacts ==
  ASSUME Shape, EndBody, NEW l, l = Left
  PROVE  /\ phase = "mutable" /\ Len(native) = 1 /\ DOMAIN native = {1} /\ bp = native[1].bp /\ Current = native[1]
         /\ native[1].old \in Nat
         /\ l \in Nat /\ l >= 1 /\ l <= Len(acts) /\ Len(acts) \in Nat /\ l = Len(acts) - Len(ran) + 1
         /\ Len(ran) \in Nat /\ bp = acts[l] /\ acts \in Seq(Nat)
         /\ bp \in DOMAIN text /\ bp \in Nat /\ bp > 2 /\ bp <= Len(data) /\ data \in Seq(Nat) /\ Len(data) \in Nat
         /\ data[bp] = (IF l = 1 THEN 0 ELSE acts[l - 1]) /\ text[bp].changes = <<>>
         /\ DOMAIN text = {acts[k] : k \in 1 .. l}
         /\ \A k \in 1 .. l - 1 : k \in 1 .. l /\ acts[k] \in DOMAIN text /\ acts[k] # bp
         /\ \A b \in DOMAIN text : b \in Nat /\ (b # bp => b + MaxLocals < bp - 2)
<1>0. Types /\ Layout /\ Calls /\ Quiet /\ Deferred /\ Phases
  BY DEF Shape
<1>1. Running /\ InnerScope.kind = "activate"
  BY DEF EndBody
<1>2. /\ native # <<>> /\ native \in Seq(NativeType) /\ Len(native) \in Nat /\ DOMAIN native = 1 .. Len(native)
      /\ bp = native[Len(native)].bp /\ bp \in DOMAIN text /\ bp \in Nat /\ F = text[bp] /\ GoodText(F)
      /\ bp > Below(F) /\ bp + MaxLocals <= Len(data) /\ data \in Seq(Nat) /\ Len(data) \in Nat
      /\ DOMAIN text \subseteq Nat /\ Current = native[Len(native)] /\ Current.ports = FALSE
      /\ phase # "done"
  BY <1>1, Here, Under
<1>3. F.scopes[1].kind = "activate"
  <2>1. F.scopes \in Seq(Scope) /\ Len(F.scopes) >= 2
    BY <1>2, Basics
  <2>2. QED
    BY <1>1, <2>1 DEF InnerScope
<1>4. F.mutable
  <2>1. Nested(F) /\ Len(F.scopes) >= 2 /\ Len(F.scopes) \in Nat /\ DOMAIN F.scopes = 1 .. Len(F.scopes)
    BY <1>2, Basics
  <2>2. 1 \in DOMAIN F.scopes
    BY <2>1
  <2>3. QED
    BY <1>3, <2>1, <2>2 DEF Nested
<1>5. phase = "mutable" /\ Len(native) = 1
  <2>1. (phase = "mutable" => (F.mutable <=> Len(native) = 1)) /\ (phase = "immutable" => ~F.mutable)
    BY <1>1, Nature
  <2>2. phase \in {"immutable", "mutable", "done"}
    BY <1>0 DEF Types
  <2>3. QED
    BY <1>2, <1>4, <2>1, <2>2
<1>6. DOMAIN native = {1} /\ bp = native[1].bp /\ Current = native[1]
  BY <1>2, <1>5
<1>7. native[1].old \in Nat
  BY <1>2, <1>6, NativeTypes
<1>8. acts \in Seq(Nat) /\ Len(acts) \in Nat /\ Len(ran) \in Nat
  BY <1>0 DEF Types
<1>9. l = Len(acts) - Len(ran) + 1 /\ l \in Nat /\ l <= Len(acts) /\ l >= 1 /\ bp = acts[l]
  <2>1. l = Len(acts) - Len(ran) + 1
    BY <1>2, <1>5 DEF Left
  <2>2. l \in 0 .. Len(acts)
    BY <1>0 DEF Deferred
  <2>3. l >= 1 /\ bp = acts[l]
    BY <1>0, <1>2, <1>5, <1>6 DEF Phases
  <2>4. QED
    BY <1>8, <2>1, <2>2, <2>3
<1>10. l \in 1 .. l /\ \A k \in 1 .. l - 1 : k \in 1 .. l /\ k \in DOMAIN acts /\ l \in DOMAIN acts /\ k < l
  <2>1. PICK a \in Nat : a = Len(acts)
    BY <1>8
  <2>2. DOMAIN acts = 1 .. a /\ l \in Nat /\ l >= 1 /\ l <= a
    BY <1>8, <1>9, <2>1
  <2>3. QED
    BY <2>2
<1>11. data[bp] = (IF l = 1 THEN 0 ELSE acts[l - 1])
  BY <1>0, <1>9, <1>10 DEF Deferred
<1>12. text[bp].changes = <<>>
  <2>1. 1 \in DOMAIN native /\ native[1].ports = FALSE
    BY <1>2, <1>6
  <2>2. QED
    BY <1>0, <1>2, <1>3, <1>6, <2>1 DEF Quiet
<1>13. DOMAIN text = {acts[k] : k \in 1 .. l}
  <2>1. DOMAIN text = {native[k].bp : k \in DOMAIN native} \cup {acts[k] : k \in 1 .. l}
    BY <1>0 DEF Deferred
  <2>2. {native[k].bp : k \in DOMAIN native} = {bp}
    BY <1>6
  <2>3. bp \in {acts[k] : k \in 1 .. l}
    BY <1>9, <1>10
  <2>4. QED
    BY <2>1, <2>2, <2>3
<1>14. ASSUME NEW k \in 1 .. l - 1 PROVE k \in 1 .. l /\ acts[k] \in DOMAIN text /\ acts[k] # bp
  <2>1. k \in 1 .. l /\ k \in DOMAIN acts /\ l \in DOMAIN acts /\ k < l
    BY <1>10
  <2>2. acts[k] < acts[l]
    BY <1>0, <2>1 DEF Deferred
  <2>3. acts[k] \in DOMAIN text
    BY <1>13, <2>1
  <2>4. acts[k] \in Nat
    BY <1>2, <2>3
  <2>5. acts[k] # bp
    BY <1>2, <1>9, <2>2, <2>4
  <2>6. QED
    BY <2>1, <2>3, <2>5
<1>15. PICK w \in {2, 3} : w = Below(F)
  BY DEF Below
<1>16. PICK m \in Nat : m = MaxLocals
  BY Constants
<1>17. ASSUME NEW b \in DOMAIN text PROVE b \in Nat /\ (b # bp => b + MaxLocals < bp - 2)
  <2>1. b \in Nat /\ b <= bp
    BY <1>1, <1>2, Nature
  <2>2. b < bp => b + m < bp - w
    BY <1>0, <1>2, <1>15, <1>16 DEF Layout
  <2>3. b \in Nat /\ (b # bp => b + m < bp - 2)
    BY <1>2, <2>1, <2>2
  <2>4. QED
    BY <1>16, <2>3
<1>18. bp > 2 /\ bp <= Len(data)
  BY <1>2, <1>15, <1>16
<1>19. QED
  BY <1>2, <1>5, <1>6, <1>7, <1>8, <1>9, <1>11, <1>12, <1>13, <1>14, <1>17, <1>18

(* The end of a body removes its frame and whatever reactions left above   *)
(* it, and moves to the body deferred before it.                           *)
LEMMA EndBodyStep ==
  ASSUME IInv, EndBody
  PROVE  IInv'
<1>0. Shape /\ Heaps /\ Types /\ Frames /\ Layout /\ Quiet /\ Deferred
  BY DEF IInv, Shape
<1>1. PICK l : l = Left
  OBVIOUS
<1>2. /\ phase = "mutable" /\ Len(native) = 1 /\ DOMAIN native = {1} /\ bp = native[1].bp /\ Current = native[1]
      /\ native[1].old \in Nat
      /\ l \in Nat /\ l >= 1 /\ l <= Len(acts) /\ Len(acts) \in Nat /\ l = Len(acts) - Len(ran) + 1
      /\ Len(ran) \in Nat /\ bp = acts[l] /\ acts \in Seq(Nat)
      /\ bp \in DOMAIN text /\ bp \in Nat /\ bp > 2 /\ bp <= Len(data) /\ data \in Seq(Nat) /\ Len(data) \in Nat
      /\ data[bp] = (IF l = 1 THEN 0 ELSE acts[l - 1]) /\ text[bp].changes = <<>>
      /\ DOMAIN text = {acts[k] : k \in 1 .. l}
      /\ \A k \in 1 .. l - 1 : k \in 1 .. l /\ acts[k] \in DOMAIN text /\ acts[k] # bp
      /\ \A b \in DOMAIN text : b \in Nat /\ (b # bp => b + MaxLocals < bp - 2)
  BY <1>0, <1>1, EndBodyFacts
<1>3. /\ data' = SubSeq(data, 1, bp - 1) /\ bp' = data[bp] /\ text' = [x \in DOMAIN text \ {bp} |-> text[x]]
      /\ info' = native[1].old /\ native' = <<>>
      /\ bound' = bound /\ phase' = phase /\ list' = list /\ heap' = heap /\ obj' = obj
      /\ acts' = acts /\ ran' = ran /\ count' = count
  BY <1>2 DEF EndBody, Drop
<1>4. data' \in Seq(Nat) /\ Len(data') = bp - 1 /\ \A x \in 1 .. bp - 1 : data'[x] = data[x]
  <2>3. bp \in Nat /\ bp > 2 /\ bp <= Len(data) /\ Len(data) \in Nat
    BY <1>2
  <2>1. bp - 1 \in Int /\ 0 <= bp - 1 /\ bp - 1 <= Len(data)
    BY <2>3
  <2>4. data \in Seq(Nat)
    BY <1>2
  <2>2. QED
    BY <1>3, <2>1, <2>4, PrefixFacts
<1>5. DOMAIN text' = DOMAIN text \ {bp} /\ \A b \in DOMAIN text' : b \in DOMAIN text /\ b # bp /\ text'[b] = text[b]
  BY <1>3
<1>6. Left' = l - 1
  <2>1. Left' = Len(acts) - Len(ran)
    BY <1>3 DEF Left
  <2>2. l = Len(acts) - Len(ran) + 1 /\ Len(acts) \in Nat /\ Len(ran) \in Nat
    BY <1>2
  <2>3. QED
    BY <2>1, <2>2
<1>7. bp' = (IF l = 1 THEN 0 ELSE acts[l - 1]) /\ bp' \in Nat
  <2>1. bp \in 1 .. Len(data) /\ data \in Seq(Nat)
    BY <1>2
  <2>2. data[bp] \in Nat
    BY <2>1
  <2>3. QED
    BY <1>2, <1>3, <2>2
<1>8. PICK m \in Nat : m = MaxLocals
  BY Constants
<1>9. PICK q \in Nat : q = bp
  BY <1>2
<1>10. ASSUME NEW b \in DOMAIN text'
       PROVE  /\ b \in Nat /\ b + m < q - 2 /\ b > Below(text[b]) /\ b \in DOMAIN text /\ text'[b] = text[b]
              /\ data'[b] = data[b]
              /\ InStack(text[b], b, data', Len(obj)) /\ GoodText(text[b])
  <2>1. b \in DOMAIN text /\ b # bp /\ text'[b] = text[b]
    BY <1>5
  <2>2. b \in Nat /\ b + m < q - 2
    BY <1>2, <1>8, <1>9, <2>1
  <2>3. b > Below(text[b]) /\ GoodText(text[b]) /\ InStack(text[b], b, data, Len(obj))
    BY <1>0, <2>1 DEF Layout, Frames
  <2>4. PICK w \in {2, 3} : w = Below(text[b])
    BY DEF Below
  <2>5. b > w
    BY <2>3, <2>4
  <2>6. b \in 1 .. q - 1 /\ \A x \in b - w .. b + m : x \in 1 .. q - 1
    BY <2>2, <2>5
  <2>7. \A x \in 1 .. q - 1 : data'[x] = data[x]
    BY <1>4, <1>9
  <2>8. Untouched(data, data', b, Below(text[b]))
    BY <1>8, <2>4, <2>6, <2>7 DEF Untouched
  <2>9. b + MaxLocals <= Len(data) /\ data \in Seq(Nat) /\ data' \in Seq(Nat)
    <3>1. Len(data) \in Nat /\ q <= Len(data)
      BY <1>2, <1>9
    <3>2. b + m <= Len(data)
      BY <2>2, <3>1
    <3>3. QED
      BY <1>2, <1>4, <1>8, <3>2
  <2>10. Len(obj) \in Nat /\ Len(obj) <= Len(obj)
    BY <1>0 DEF Types, ObjectsOK
  <2>11. InStack(text[b], b, data', Len(obj))
    BY <2>2, <2>3, <2>8, <2>9, <2>10, InStackSame
  <2>12. QED
    BY <2>1, <2>2, <2>3, <2>6, <2>7, <2>11
<1>11. Types'
  <2>1. ObjectsOK(obj)'
    BY <1>0, <1>3 DEF Types, ObjectsOK, N
  <2>2. text' \in [DOMAIN text' -> FrameType] /\ DOMAIN text' \subseteq Nat
    BY <1>0, <1>3, <1>5 DEF Types
  <2>3. <<>> \in Seq(NativeType)
    BY EmptySeq, Zenon
  <2>4. native' \in Seq(NativeType)
    BY <1>3, <2>3
  <2>5. info' \in Nat
    BY <1>2, <1>3
  <2>6. QED
    BY <1>0, <1>3, <1>4, <1>7, <2>1, <2>2, <2>4, <2>5 DEF Types
<1>12. Frames'
  <2>1. \A b \in DOMAIN text' : GoodText(text'[b]) /\ InStack(text'[b], b, data', Len(obj'))
    BY <1>3, <1>10
  <2>2. QED
    BY <2>1 DEF Frames, GoodText, InStack
<1>13. Layout'
  <2>1. \A b \in DOMAIN text' : b > Below(text'[b]) /\ b + MaxLocals <= Len(data')
    <3> SUFFICES ASSUME NEW b \in DOMAIN text' PROVE b > Below(text'[b]) /\ b + MaxLocals <= Len(data')
      OBVIOUS
    <3>1. b \in Nat /\ b + m < q - 2 /\ b > Below(text[b]) /\ text'[b] = text[b]
      BY <1>10
    <3>2. b + m <= q - 1
      BY <3>1
    <3>3. QED
      BY <1>4, <1>8, <1>9, <3>1, <3>2
  <2>2. \A b, c \in DOMAIN text' : b < c => b + MaxLocals < c - Below(text'[c])
    BY <1>0, <1>10 DEF Layout
  <2>3. QED
    BY <2>1, <2>2 DEF Layout, Below
<1>14. Calls' /\ Arguments'
  BY <1>3 DEF Calls, Arguments
<1>15. Quiet'
  <2>1. \A b \in DOMAIN text' : text'[b].changes = <<>>
    <3> SUFFICES ASSUME NEW b \in DOMAIN text' PROVE text[b].changes = <<>>
      BY <1>5
    <3>1. b \in DOMAIN text /\ b # bp
      BY <1>5
    <3>2. \A k \in DOMAIN native : native[k].bp # b
      BY <1>2, <3>1
    <3>3. QED
      BY <1>0, <3>1, <3>2 DEF Quiet
  <2>2. QED
    BY <1>3, <2>1 DEF Quiet
<1>16. Deferred'
  <2>1. Left' \in 0 .. Len(acts')
    BY <1>2, <1>3, <1>6
  <2>2. \A k \in 1 .. l - 1 : k \in 1 .. l /\ acts[k] \in DOMAIN text'
    BY <1>2, <1>5
  <2>3. DOMAIN text' = {native'[k].bp : k \in DOMAIN native'} \cup {acts'[k] : k \in 1 .. Left'}
    <3>1. {native'[k].bp : k \in DOMAIN native'} = {}
      BY <1>3
    <3>0. l \in Nat
      BY <1>2
    <3>2. \A k \in 1 .. l : k # l => k \in 1 .. l - 1
      BY <3>0
    <3>3. DOMAIN text' \subseteq {acts[k] : k \in 1 .. l - 1}
      BY <1>2, <1>5, <3>2
    <3>4. {acts[k] : k \in 1 .. l - 1} \subseteq DOMAIN text'
      BY <2>2
    <3>5. QED
      BY <1>3, <1>6, <3>1, <3>3, <3>4
  <2>4. \A b \in DOMAIN text' : text'[b].mutable <=> \E k \in 1 .. l - 1 : acts[k] = b
    <3> SUFFICES ASSUME NEW b \in DOMAIN text' PROVE text[b].mutable <=> \E k \in 1 .. l - 1 : acts[k] = b
      BY <1>5
    <3>1. b \in DOMAIN text /\ b # bp
      BY <1>5
    <3>2. text[b].mutable <=> \E k \in 1 .. l : acts[k] = b
      BY <1>0, <1>1, <3>1 DEF Deferred
    <3>3. \A k \in 1 .. l : acts[k] = b => k \in 1 .. l - 1
      <4>0. l \in Nat
        BY <1>2
      <4>1. \A k \in 1 .. l : k = l \/ k \in 1 .. l - 1
        BY <4>0
      <4>2. acts[l] # b
        BY <1>2, <3>1
      <4>3. QED
        BY <4>1, <4>2
    <3>4. QED
      BY <2>2, <3>2, <3>3
  <2>5. \A k \in 1 .. l - 1 : /\ data'[acts[k]] = (IF k = 1 THEN 0 ELSE acts[k - 1])
                              /\ text'[acts[k]].context \in {"action", "reaction"}
    <3> SUFFICES ASSUME NEW k \in 1 .. l - 1
                 PROVE  /\ data'[acts[k]] = (IF k = 1 THEN 0 ELSE acts[k - 1])
                        /\ text'[acts[k]].context \in {"action", "reaction"}
      OBVIOUS
    <3>1. acts[k] \in DOMAIN text' /\ k \in 1 .. l
      BY <2>2
    <3>2. data'[acts[k]] = data[acts[k]] /\ text'[acts[k]] = text[acts[k]]
      BY <1>10, <3>1
    <3>3. data[acts[k]] = (IF k = 1 THEN 0 ELSE acts[k - 1]) /\ text[acts[k]].context \in {"action", "reaction"}
      BY <1>0, <1>1, <3>1 DEF Deferred
    <3>4. QED
      BY <3>2, <3>3
  <2>6. \A j, k \in DOMAIN acts : j < k => acts[j] < acts[k]
    BY <1>0 DEF Deferred
  <2>7. (list = IF acts = <<>> THEN 0 ELSE acts[Len(acts)]) /\ (acts # <<>> => acts[1] = 3)
    BY <1>0 DEF Deferred
  <2>8. QED
    BY <1>3, <1>6, <2>1, <2>3, <2>4, <2>5, <2>6, <2>7, ZenonT(30) DEF Deferred
<1>17. Phases'
  <2>1. l = 1 => Len(data') = 2
    <3>1. ASSUME l = 1 PROVE bp = 3
      <4>1. acts # <<>>
        BY <1>2
      <4>2. QED
        BY <1>0, <1>2, <3>1, <4>1 DEF Deferred
    <3>2. QED
      BY <1>4, <3>1
  <2>2. Left' = 0 <=> l = 1
    BY <1>2, <1>6
  <2>3. bp' = IF Left' = 0 THEN 0 ELSE acts'[Left']
    BY <1>3, <1>6, <1>7, <2>2
  <2>4. native' = <<>> /\ DOMAIN native' = {} /\ phase' = "mutable"
    BY <1>2, <1>3
  <2>5. Left' = 0 => Len(data') = 2
    BY <2>1, <2>2
  <2>6. QED
    BY <2>3, <2>4, <2>5 DEF Phases
<1>18. Heaps'
  <2>1. \A i \in Instances : heap[i] = i
    <3>1. \A k \in DOMAIN native : Saved(k) = <<>>
      BY <1>2 DEF Saved
    <3>2. QED
      BY <1>0, <3>1 DEF Heaps
  <2>2. QED
    BY <1>3, <2>1 DEF Heaps
<1>19. QED
  BY <1>11, <1>12, <1>13, <1>14, <1>15, <1>16, <1>17, <1>18 DEF IInv, Shape

(* A new object, or link, is one, with the fields it is given.             *)
LEMMA ObjectGood ==
  ASSUME NEW h \in Nat, NEW p \in Nat, NEW l \in Nat
  PROVE  Object(h, p, l) \in ObjectType /\ Object(h, p, l).p = p /\ Object(h, p, l).h = l
<1>1. Object(h, p, l) = [heap |-> h, p |-> p, h |-> l, link |-> FALSE]
  BY DEF Object
<1>2. FALSE \in BOOLEAN
  OBVIOUS
<1>3. Object(h, p, l) \in [heap : Nat, p : Nat, h : Nat, link : BOOLEAN]
  BY <1>1, <1>2
<1>4. Object(h, p, l).p = p /\ Object(h, p, l).h = l
  BY <1>1
<1>5. QED
  BY <1>3, <1>4 DEF ObjectType

LEMMA LinkGood ==
  ASSUME NEW h \in Nat, NEW root \in Nat
  PROVE  Link(h, root) \in ObjectType /\ Link(h, root).p = root /\ Link(h, root).h = 0
<1>1. Link(h, root) = [heap |-> h, p |-> root, h |-> 0, link |-> TRUE]
  BY DEF Link
<1>2. TRUE \in BOOLEAN /\ 0 \in Nat
  OBVIOUS
<1>3. Link(h, root) \in [heap : Nat, p : Nat, h : Nat, link : BOOLEAN]
  BY <1>1, <1>2
<1>4. Link(h, root).p = root /\ Link(h, root).h = 0
  BY <1>1
<1>5. QED
  BY <1>3, <1>4 DEF ObjectType

(* The objects there are at first are in order.                            *)
LEMMA ObjectsAtFirst ==
  ASSUME NEW o, o = [i \in 1 .. 4 * N |-> CASE i \in Instances -> Object(i, N + i, 2 * N + i)
                                            [] i \in N + 1 .. 2 * N -> Object(i - N, 0, 0)
                                            [] i \in 2 * N + 1 .. 3 * N -> Link(i - 2 * N, N + i)
                                            [] OTHER -> Object(i, 0, 0)]
  PROVE  ObjectsOK(o)
<1>1. PICK n \in Nat : n = N
  BY Constants
<1>2. Instances = 1 .. n
  BY <1>1, Constants
<1>3. o = [i \in 1 .. 4 * n |-> CASE i \in 1 .. n -> Object(i, n + i, 2 * n + i)
                                  [] i \in n + 1 .. 2 * n -> Object(i - n, 0, 0)
                                  [] i \in 2 * n + 1 .. 3 * n -> Link(i - 2 * n, n + i)
                                  [] OTHER -> Object(i, 0, 0)]
  BY <1>1, <1>2
<1>4. ASSUME NEW i \in 1 .. 4 * n
      PROVE  o[i] \in ObjectType /\ o[i].p <= 4 * n /\ o[i].h <= 4 * n
  <2>1. CASE i \in 1 .. n
    <3>0. i \notin n + 1 .. 2 * n /\ i \notin 2 * n + 1 .. 3 * n
      BY <2>1
    <3>1. o[i] = Object(i, n + i, 2 * n + i)
      BY <1>3, <2>1, <3>0
    <3>2. i \in Nat /\ n + i \in Nat /\ 2 * n + i \in Nat /\ n + i <= 4 * n /\ 2 * n + i <= 4 * n
      BY <2>1
    <3>3. QED
      BY <3>1, <3>2, ObjectGood
  <2>2. CASE i \in n + 1 .. 2 * n
    <3>1. i \notin 1 .. n /\ i \notin 2 * n + 1 .. 3 * n
      BY <2>2
    <3>2. o[i] = Object(i - n, 0, 0)
      BY <1>3, <2>2, <3>1
    <3>3. i - n \in Nat /\ 0 \in Nat /\ 0 <= 4 * n
      BY <2>2
    <3>4. o[i] \in ObjectType /\ o[i].p = 0 /\ o[i].h = 0
      <4>1. PICK d \in Nat : d = i - n
        BY <3>3
      <4>2. Object(d, 0, 0) \in ObjectType /\ Object(d, 0, 0).p = 0 /\ Object(d, 0, 0).h = 0
        BY <3>3, ObjectGood
      <4>3. o[i] = Object(d, 0, 0)
        BY <3>2, <4>1
      <4>4. QED
        BY <4>2, <4>3, Zenon
    <3>5. QED
      BY <3>3, <3>4
  <2>3. CASE i \in 2 * n + 1 .. 3 * n
    <3>1. i \notin 1 .. n /\ i \notin n + 1 .. 2 * n
      BY <2>3
    <3>2. o[i] = Link(i - 2 * n, n + i)
      BY <1>3, <2>3, <3>1
    <3>3. i - 2 * n \in Nat /\ 0 <= 4 * n /\ n + i \in Nat /\ n + i <= 4 * n
      BY <2>3
    <3>4. QED
      BY <3>2, <3>3, LinkGood
  <2>4. CASE i \notin 1 .. n /\ i \notin n + 1 .. 2 * n /\ i \notin 2 * n + 1 .. 3 * n
    <3>1. o[i] = Object(i, 0, 0)
      BY <1>3, <2>4
    <3>2. i \in Nat /\ 0 <= 4 * n
      OBVIOUS
    <3>3. QED
      BY <3>1, <3>2, ObjectGood
  <2>5. QED
    BY <2>1, <2>2, <2>3, <2>4
<1>5. 4 * n \in Nat /\ n <= 4 * n
  OBVIOUS
<1>6. DOMAIN o = 1 .. 4 * n
  BY <1>3
<1>7. o \in [1 .. 4 * n -> ObjectType]
  <2>1. o = [i \in 1 .. 4 * n |-> o[i]]
    BY <1>3
  <2>2. QED
    BY <1>4, <2>1
<1>8. o \in Seq(ObjectType) /\ Len(o) = 4 * n
  <2>1. PICK m \in Nat : m = 4 * n
    BY <1>5
  <2>2. o \in [1 .. m -> ObjectType]
    BY <1>7, <2>1
  <2>5. o \in Seq(ObjectType)
    BY <2>1, <2>2, FunctionIsSeq
  <2>6. DOMAIN o = 1 .. m
    BY <2>2, Zenon
  <2>3. o \in Seq(ObjectType) /\ Len(o) = m
    <3>1. PICK k \in Nat : k = Len(o) /\ DOMAIN o = 1 .. k
      BY <2>5, LenProperties, Zenon
    <3>2. 1 .. k = 1 .. m /\ k \in Nat /\ m \in Nat
      BY <2>1, <2>6, <3>1
    <3>3. k = m
      BY <3>2
    <3>4. QED
      BY <2>5, <3>1, <3>3
  <2>4. QED
    BY <2>1, <2>3
<1>9. QED
  BY <1>1, <1>4, <1>5, <1>6, <1>8 DEF ObjectsOK

(* So is the stack.                                                        *)
LEMMA WordsAtFirst ==
  ASSUME NEW d, d = <<1, 0, 0>> \o Locals
  PROVE  d \in Seq(Nat) /\ Len(d) = 3 + MaxLocals /\ d[1] = 1
<1>1. MaxLocals \in Nat
  BY Constants
<1>2. PICK l : l = Locals
  OBVIOUS
<1>3. l \in Seq(Nat) /\ Len(l) = MaxLocals
  BY <1>1, <1>2 DEF Locals
<1>4. PICK e : e = <<1, 0, 0>>
  OBVIOUS
<1>5. e \in Seq(Nat) /\ Len(e) = 3 /\ e[1] = 1
  BY <1>4
<1>6. e \o l \in Seq(Nat) /\ Len(e \o l) = Len(e) + Len(l)
      /\ \A x \in 1 .. Len(e) + Len(l) : (e \o l)[x] = IF x <= Len(e) THEN e[x] ELSE l[x - Len(e)]
  BY <1>3, <1>5, ConcatProperties, Zenon
<1>7. 1 \in 1 .. Len(e) + Len(l) /\ 1 <= Len(e)
  BY <1>1, <1>3, <1>5
<1>8. d = e \o l
  BY <1>2, <1>4
<1>9. QED
  BY <1>3, <1>5, <1>6, <1>7, <1>8

(* The action begins in a state that satisfies the invariant.              *)
LEMMA InitInv ==
  ASSUME Init
  PROVE  IInv
<1>1. PICK r : r = Sym("Receiver", "C", Mutable, Immutable, 0 - 2)
  OBVIOUS
<1>2. r \in Symbol /\ r.type = "C" /\ r.off = 0 - 2 /\ r.kind = "Receiver"
  BY <1>1 DEF Sym, Symbol, Kind, Mutability, Mutable, Immutable
<1>3. PICK f : f = Entry("action", <<r>>, <<1>>, FALSE, 2)
  OBVIOUS
<1>4. EntryFacts(f, "action", <<r>>, <<1>>, FALSE)
  <2>1. EntryAllowed("action", <<r>>, <<1>>, FALSE, 2)
    BY <1>2 DEF EntryAllowed, Parameters
  <2>2. QED
    BY <1>3, <2>1, EntryGood
<1>5. text = [b \in {3} |-> f]
  BY <1>1, <1>3 DEF Init, Entry
<1>6. /\ GoodText(f) /\ f.context = "action" /\ f.returns = FALSE /\ ~f.mutable /\ f.changes = <<>>
      /\ f.scopes[1].kind = "list" /\ Below(f) = 2
  BY <1>4 DEF EntryFacts
<1>7. DOMAIN text = {3} /\ text[3] = f
  BY <1>5
<1>8. /\ bound \in Bindings /\ phase = "immutable" /\ bp = 3 /\ list = 0 /\ info = 1
      /\ heap = [i \in Instances |-> i] /\ acts = <<>> /\ ran = <<>> /\ count = 0
      /\ data = <<1, 0, 0>> \o Locals
  BY DEF Init
<1>9. data \in Seq(Nat) /\ Len(data) = 3 + MaxLocals /\ data[1] = 1
  BY <1>8, WordsAtFirst
<1>10. ObjectsOK(obj)
  BY ObjectsAtFirst DEF Init
<1>11. 1 \in Instances /\ MaxLocals \in Nat /\ N \in Nat /\ Instances = 1 .. N
  BY Constants
<1>12. PICK c : c = [bp |-> 3, old |-> 0, ports |-> FALSE, todo |-> <<>>, top |-> 0, type |-> "T"]
  OBVIOUS
<1>13. c \in NativeType /\ c.bp = 3 /\ c.ports = FALSE /\ c.old = 0
  <2>1. <<>> \in Seq(Instances)
    BY EmptySeq, Zenon
  <2>2. PICK q \in Seq(Instances) : q = <<>>
    BY <2>1
  <2>3. c = [bp |-> 3, old |-> 0, ports |-> FALSE, todo |-> q, top |-> 0, type |-> "T"]
    BY <1>12, <2>2
  <2>4. c \in NativeType
    BY <2>3 DEF NativeType
  <2>5. QED
    BY <2>3, <2>4
<1>14. native = <<c>> /\ native \in Seq(NativeType) /\ Len(native) = 1 /\ DOMAIN native = {1} /\ native[1] = c
       /\ native # <<>>
  <2>1. native = <<c>>
    BY <1>12 DEF Init
  <2>2. QED
    BY <1>13, <2>1
<1>15. Left = 0
  BY <1>8 DEF Left
<1>16. Types
  <2>1. heap \in [Instances -> Nat]
    BY <1>8, <1>11
  <2>2. text \in [DOMAIN text -> FrameType] /\ DOMAIN text \subseteq Nat
    BY <1>5, <1>6, <1>7 DEF GoodText
  <2>3. bound \in [Instances -> Seq(Instances)]
    BY <1>8, Constants
  <2>4. acts \in Seq(Nat) /\ ran \in Seq(Nat)
    <3>1. <<>> \in Seq(Nat)
      BY EmptySeq, Zenon
    <3>2. QED
      BY <1>8, <3>1
  <2>5. bp \in Nat /\ list \in Nat /\ info \in Nat /\ count \in Nat
    BY <1>8
  <2>6. phase \in {"immutable", "mutable", "done"}
    BY <1>8
  <2>7. QED
    BY <1>9, <1>10, <1>14, <2>1, <2>2, <2>3, <2>4, <2>5, <2>6 DEF Types
<1>17. Frames
  <2>1. InStack(f, 3, data, Len(obj))
    <3>1. PICK ps, vs : ps = <<r>> /\ vs = <<1>>
      OBVIOUS
    <3>2. Fits(f, ps, vs)
      BY <1>4, <3>1 DEF EntryFacts
    <3>3. \A n \in 1 .. Len(ps) : n = 1 /\ ps[n] = r /\ vs[n] = 1
      BY <3>1
    <3>4. 3 + r.off = 1
      BY <1>2
    <3>5. \A n \in 1 .. Len(ps) : /\ data[3 + ps[n].off] = vs[n]
                                  /\ IF ps[n].type = "C" THEN vs[n] \in Instances ELSE vs[n] <= Len(obj)
      BY <1>2, <1>9, <1>11, <3>3, <3>4
    <3>6. QED
      BY <3>2, <3>5 DEF Fits
  <2>2. QED
    BY <1>6, <1>7, <2>1 DEF Frames
<1>18. Layout
  <2>1. 3 > Below(f) /\ 3 + MaxLocals <= Len(data)
    BY <1>6, <1>9, <1>11
  <2>2. \A b, d \in DOMAIN text : ~(b < d)
    BY <1>7
  <2>3. QED
    BY <1>7, <2>1, <2>2 DEF Layout
<1>19. Calls
  <2>1. \A k \in DOMAIN native : k = 1 /\ native[k] = c
    BY <1>14
  <2>2. \A b \in DOMAIN text : ~(b > 3)
    BY <1>7
  <2>3. native # <<>> => bp = native[Len(native)].bp /\ info \in Instances
    BY <1>8, <1>11, <1>13, <1>14
  <2>4. \A j, k \in DOMAIN native : ~(j < k)
    BY <2>1
  <2>5. \A k \in DOMAIN native : ~(k > 1) /\ native[k].bp \in DOMAIN text /\ \A b \in DOMAIN text : ~(b > native[k].bp)
    BY <1>7, <1>13, <2>1, <2>2
  <2>6. QED
    BY <2>3, <2>4, <2>5 DEF Calls
<1>20. Quiet
  <2>1. \A k \in DOMAIN native : native[k] = c
    BY <1>14
  <2>2. \A b \in DOMAIN text : text[b] = f
    BY <1>7
  <2>3. QED
    BY <1>6, <1>7, <1>13, <2>1, <2>2 DEF Quiet
<1>21. Deferred
  <2>1. DOMAIN acts = {} /\ Len(acts) = 0 /\ 1 .. Left = {} /\ Left \in 0 .. Len(acts)
    BY <1>8, <1>15
  <2>2. {native[k].bp : k \in DOMAIN native} = {3}
    BY <1>13, <1>14
  <2>3. DOMAIN text = {native[k].bp : k \in DOMAIN native} \cup {acts[k] : k \in 1 .. Left}
    BY <1>7, <2>1, <2>2
  <2>4. \A b \in DOMAIN text : ~text[b].mutable
    BY <1>6, <1>7
  <2>5. QED
    BY <1>8, <2>1, <2>3, <2>4 DEF Deferred
<1>22. Phases
  <2>1. native[1].bp = 3 /\ (native[1].ports <=> acts # <<>>)
    BY <1>8, <1>13, <1>14
  <2>2. \A k \in DOMAIN native : ~text[native[k].bp].mutable
    BY <1>6, <1>7, <1>13, <1>14
  <2>3. text[3].context = "action"
    BY <1>6, <1>7
  <2>4. QED
    BY <1>8, <1>14, <2>1, <2>2, <2>3 DEF Phases
<1>23. Arguments
  <2>1. \A k \in DOMAIN native : ~native[k].ports
    BY <1>13, <1>14
  <2>2. QED
    BY <2>1 DEF Arguments
<1>24. Heaps
  <2>1. \A k \in DOMAIN native : Saved(k) = <<>>
    BY <1>6, <1>7, <1>13, <1>14 DEF Saved
  <2>2. QED
    BY <1>8, <2>1 DEF Heaps
<1>25. QED
  BY <1>16, <1>17, <1>18, <1>19, <1>20, <1>21, <1>22, <1>23, <1>24 DEF IInv, Shape

(* Every statement keeps the invariant.                                    *)
LEMMA StatementStep ==
  ASSUME IInv, Statement
  PROVE  IInv'
<1>1. Running
  BY DEF Statement
<1>2. Shape
  BY DEF IInv
<1>3. \A e \in Places \cup News : GoodPlace(e)
  BY <1>1, <1>2, PlacesGood
<1>4. CASE \E type \in {"T", "H"}, m \in Mutability : Var(type, m)
  BY <1>1, <1>4, VarStep
<1>5. CASE \E e \in Places \cup News : VarInit(e)
  BY <1>1, <1>3, <1>5, VarInitStep
<1>6. CASE \E l \in Places, e \in Places \cup News : Assign(l, e)
  BY <1>1, <1>3, <1>6, AssignStep
<1>7. CASE OpenBlock
  BY <1>1, <1>7, OpenBlockStep
<1>8. CASE \E e \in Places \cup News : Change(e) \/ Move(e) \/ Merge(e)
  BY <1>1, <1>3, <1>8, ChangeStep, MoveStep, MergeStep
<1>9. CASE \E e \in Places \cup News, method, returns \in BOOLEAN : Call(method, e, returns)
  BY <1>1, <1>3, <1>9, CallStep
<1>10. CASE \E i \in Pull[info] : CallGetter(i)
  <2>1. PICK i \in Pull[info] : CallGetter(i)
    BY <1>10
  <2>2. i \in Instances
    BY <1>1, <1>2, <2>1, Here, Constants
  <2>3. QED
    BY <1>1, <2>1, <2>2, CallGetterStep
<1>11. CASE \E e \in Places \cup News : Return(e)
  BY <1>1, <1>3, <1>11, ReturnStep
<1>12. CASE Activate(FALSE, NoArgument)
  <2>1. GoodPlace(NoArgument) /\ NoArgument.type # "C"
    BY <1>1, <1>2, NoArgumentGood DEF NoArgument, Place
  <2>2. QED
    BY <1>1, <1>12, <2>1, ActivateStep
<1>13. CASE \E e \in Places : e.type # "C" /\ Activate(TRUE, e)
  BY <1>1, <1>3, <1>13, ActivateStep
<1>14. QED
  BY <1>4, <1>5, <1>6, <1>7, <1>8, <1>9, <1>10, <1>11, <1>12, <1>13 DEF Statement

(* A step that changes nothing keeps it.                                   *)
LEMMA NothingStep ==
  ASSUME IInv, UNCHANGED vars
  PROVE  IInv'
<1>1. /\ bound' = bound /\ phase' = phase /\ data' = data /\ bp' = bp /\ list' = list /\ info' = info
      /\ heap' = heap /\ obj' = obj /\ text' = text /\ native' = native /\ acts' = acts /\ ran' = ran /\ count' = count
  BY DEF vars
<1>2. Types'
  BY <1>1 DEF IInv, Shape, Types, ObjectsOK, N
<1>3. Frames' /\ Layout'
  BY <1>1 DEF IInv, Shape, Frames, Layout, GoodText, InStack, Below
<1>4. Calls' /\ Quiet' /\ Arguments'
  BY <1>1 DEF IInv, Shape, Calls, Quiet, Arguments, Below
<1>5. Deferred' /\ Phases'
  <2>1. Left' = Left
    BY <1>1 DEF Left
  <2>2. Deferred'
    BY <1>1, <2>1 DEF IInv, Shape, Deferred
  <2>3. Phases'
    BY <1>1, <2>1 DEF IInv, Shape, Phases
  <2>4. QED
    BY <2>2, <2>3
<1>6. Heaps'
  BY <1>1 DEF IInv, Heaps, Inst, Saved
<1>7. QED
  BY <1>2, <1>3, <1>4, <1>5, <1>6 DEF IInv, Shape

(* Every step keeps it.                                                    *)
LEMMA NextInv ==
  ASSUME IInv, [Next]_vars
  PROVE  IInv'
<1>1. CASE Statement
  BY <1>1, StatementStep
<1>2. CASE CloseBlock
  BY <1>2, CloseBlockStep
<1>3. CASE EndChange
  BY <1>3, EndChangeStep
<1>4. CASE EndCall
  BY <1>4, EndCallStep
<1>5. CASE React
  BY <1>5, ReactStep
<1>6. CASE EndActivate
  BY <1>6, EndActivateStep
<1>7. CASE EndReaction
  BY <1>7, EndReactionStep
<1>8. CASE EndAction
  BY <1>8, EndActionStep
<1>9. CASE BeginBody
  BY <1>9, BeginBodyStep
<1>10. CASE EndBody
  BY <1>10, EndBodyStep
<1>11. CASE Finish
  BY <1>11, FinishStep
<1>12. CASE UNCHANGED vars
  BY <1>12, NothingStep
<1>13. QED
  BY <1>1, <1>2, <1>3, <1>4, <1>5, <1>6, <1>7, <1>8, <1>9, <1>10, <1>11, <1>12 DEF Next

(* The inductive invariant of a transaction: the layout of every frame     *)
(* that setup_frame, push_port_call and Activate leave on the stack, the   *)
(* native calls below, the list of deferred bodies and the heaps saved by  *)
(* change statements.                                                      *)
THEOREM Invariant == Spec => []IInv
<1>1. Init => IInv
  BY InitInv
<1>2. IInv /\ [Next]_vars => IInv'
  BY NextInv
<1>3. QED
  BY <1>1, <1>2, PTL DEF Spec

(* The stack, the registers of the executor, the objects and what the      *)
(* compiler knows of each frame keep their types in every transaction.     *)
THEOREM TypeCorrect == Spec => []Types
<1>1. IInv => Types
  BY DEF IInv, Shape
<1>2. QED
  BY <1>1, Invariant, PTL

(* A symbol that the code of a frame can name finds, at the offset         *)
(* semantic.cpp assigned to it, the value last given to it: blocks that    *)
(* share words, frames stacked on the arguments of port calls and bodies   *)
(* deferred across reactions never overwrite one another.                  *)
THEOREM SymbolsInPlace == Spec => []SymbolsKeepTheirWords
<1>1. IInv => SymbolsKeepTheirWords
  <2> SUFFICES ASSUME IInv, NEW b \in DOMAIN text, NEW n \in Visible(text[b].scopes)
               PROVE  data[b + Find(text[b].scopes, n).off] = text[b].values[n]
    BY DEF SymbolsKeepTheirWords
  <2>1. GoodText(text[b]) /\ InStack(text[b], b, data, Len(obj))
    BY DEF IInv, Shape, Frames
  <2>2. n \in Names(text[b].scopes)
    BY VisibleNames
  <2>3. QED
    BY <2>1, <2>2, NamedValue
<1>2. QED
  BY <1>1, Invariant, PTL

(* The mutable phase of runtime::execute visits exactly the frames that    *)
(* Activate::execute linked, the last one first; in the end the            *)
(* evaluation stack is empty and every component is back in its own heap,  *)
(* whatever change statements an activation was nested in.                 *)
THEOREM ReverseOrder == Spec => []BodiesRunInReverse
<1>1. IInv => BodiesRunInReverse
  <2> SUFFICES ASSUME IInv PROVE BodiesRunInReverse
    OBVIOUS
  <2>0. Shape /\ Heaps
    BY DEF IInv
  <2>1. ASSUME phase = "mutable", native = <<>>
        PROVE  bp = IF Len(ran) = Len(acts) THEN 0 ELSE acts[Len(acts) - Len(ran)]
    <3>1. Left = Len(acts) - Len(ran) /\ bp = (IF Left = 0 THEN 0 ELSE acts[Left])
          /\ Len(acts) \in Nat /\ Len(ran) \in Nat
      BY <2>0, <2>1, Between
    <3>2. Left = 0 <=> Len(ran) = Len(acts)
      BY <3>1
    <3>3. QED
      BY <3>1, <3>2
  <2>2. ASSUME phase = "done" PROVE data = <<>> /\ heap = [i \in Instances |-> i]
    <3>1. data = <<>> /\ native = <<>>
      BY <2>0, <2>2 DEF Shape, Phases
    <3>2. heap \in [Instances -> Nat]
      BY <2>0 DEF Shape, Types
    <3>3. \A i \in Instances : heap[i] = i
      BY <2>0, <3>1 DEF Heaps
    <3>4. heap = [i \in Instances |-> heap[i]]
      BY <3>2
    <3>5. QED
      BY <3>1, <3>3, <3>4
  <2>3. QED
    BY <2>1, <2>2 DEF BodiesRunInReverse
<1>2. QED
  BY <1>1, Invariant, PTL
=============================================================================
