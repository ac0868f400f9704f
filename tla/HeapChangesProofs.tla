-------------------------- MODULE HeapChangesProofs --------------------------
(***************************************************************************)
(* The Changes of an instance whose transactions take its lock for         *)
(* writing, for any number of transactions and any depth of Changes: no    *)
(* link is moved or merged under the Change that uses it, and when the     *)
(* last Change is over the instance allocates in its own heap again and    *)
(* every link is free.  Heap implements ControlSpec, so this holds of it.  *)
(***************************************************************************)
EXTENDS HeapChanges, SequenceTheorems, FiniteSetTheorems, TLAPS

Use == [link : Slot, old : Int]

(* How often a link is used by the Changes in s.                           *)
Uses(s, l) == {k \in DOMAIN s : s[k].link = l}

(* The heap the body of the Change at k allocates in.                      *)
Inner(s, c, k) == IF k = Len(s) THEN c ELSE s[k + 1].old

Shape ==
  /\ current \in Int /\ \A l \in Slot : mem[l] \in Int
  /\ changes \in [Slot -> Int]
  /\ saved \in [Transaction -> Seq(Use)]
  /\ access \in [Transaction -> {"None", "Read", "Write"}]

(* One transaction at a time has the lock, and only it is in a Change.     *)
Alone ==
  /\ \A t, u \in Transaction : access[t] # "None" /\ access[u] # "None" => t = u
  /\ \A t \in Transaction : saved[t] # <<>> => access[t] # "None"

(* The Changes of a transaction form a chain from the heap of the          *)
(* component to the current heap, and account for every count.             *)
Nested(t) ==
  /\ saved[t][1].old = Component
  /\ \A k \in DOMAIN saved[t] : mem[saved[t][k].link] = Inner(saved[t], current, k)
  /\ \A l \in Slot : changes[l] = Cardinality(Uses(saved[t], l))

CInv ==
  /\ Shape /\ Alone /\ HeapRestored
  /\ \A t \in Transaction : saved[t] # <<>> => Nested(t)

-----------------------------------------------------------------------------
(* Entering a Change adds one use of its link, leaving takes it away.      *)
LEMMA UsesOfAppend ==
  ASSUME NEW s \in Seq(Use), NEW e \in Use, NEW l \in Slot
  PROVE  /\ IsFiniteSet(Uses(s, l)) /\ Cardinality(Uses(s, l)) \in Nat
         /\ Cardinality(Uses(Append(s, e), l)) =
              IF e.link = l THEN Cardinality(Uses(s, l)) + 1 ELSE Cardinality(Uses(s, l))
<1> DEFINE a == Append(s, e)
<1>0. /\ Len(s) \in Nat /\ DOMAIN s = 1 .. Len(s)
      /\ DOMAIN a = 1 .. Len(s) + 1 /\ a[Len(s) + 1] = e /\ \A k \in 1 .. Len(s) : a[k] = s[k]
  BY AppendProperties, LenProperties
<1>1. IsFiniteSet(1 .. Len(s)) /\ Uses(s, l) \subseteq 1 .. Len(s)
  BY <1>0, FS_Interval DEF Uses
<1>2. IsFiniteSet(Uses(s, l)) /\ Cardinality(Uses(s, l)) \in Nat
  BY <1>1, FS_Subset, FS_CardinalityType
<1> HIDE DEF a
<1>3. Uses(a, l) = IF e.link = l THEN Uses(s, l) \cup {Len(s) + 1} ELSE Uses(s, l)
  BY <1>0 DEF Uses
<1>4. Len(s) + 1 \notin Uses(s, l)
  BY <1>0, <1>1
<1>5. QED  BY <1>2, <1>3, <1>4, FS_AddElement DEF a

LEMMA Front ==
  ASSUME NEW s \in Seq(Use), s # <<>>, NEW f, f = SubSeq(s, 1, Len(s) - 1)
  PROVE  /\ Len(s) \in Nat \ {0} /\ s[Len(s)] \in Use
         /\ f \in Seq(Use) /\ Len(f) = Len(s) - 1
         /\ \A k \in 1 .. Len(s) - 1 : f[k] = s[k]
         /\ s = Append(f, s[Len(s)])
<1>1. Len(s) \in Nat \ {0}
  BY EmptySeq
<1>2. \A k \in 1 .. Len(s) : s[k] \in Use
  BY ElementOfSeq
<1>3. f \in Seq(Use) /\ Len(f) = Len(s) - 1
  <2>1. 1 \in Int /\ Len(s) - 1 \in Int /\ \A k \in 1 .. Len(s) - 1 : s[k] \in Use
    BY <1>1, <1>2
  <2>2. f \in Seq(Use)
    BY <2>1, SubSeqProperties
  <2>3. Len(f) = IF 1 <= Len(s) - 1 THEN Len(s) - 1 - 1 + 1 ELSE 0
    BY <2>1, SubSeqProperties
  <2>4. ASSUME NEW m \in Nat \ {0}
        PROVE  (IF 1 <= m - 1 THEN m - 1 - 1 + 1 ELSE 0) = m - 1
    OBVIOUS
  <2>5. Len(f) = Len(s) - 1
    BY <1>1, <2>3, <2>4, Zenon
  <2>6. QED  BY <2>2, <2>5
<1>4. \A k \in 1 .. Len(s) - 1 : f[k] = s[k]
  <2>1. \A k \in 1 .. (Len(s) - 1) - 1 + 1 : f[k] = s[1 + k - 1]
    BY <1>1, <1>2, SubSeqProperties
  <2>2. QED  BY <1>1, <2>1
<1> DEFINE g == Append(f, s[Len(s)])
<1>5. g \in Seq(Use) /\ Len(g) = Len(s) /\ g[Len(s)] = s[Len(s)]
  BY <1>1, <1>2, <1>3, AppendProperties
<1>6. \A k \in 1 .. Len(s) - 1 : g[k] = s[k]
  BY <1>1, <1>2, <1>3, <1>4, AppendProperties
<1>7. \A k \in 1 .. Len(s) : g[k] = s[k]
  BY <1>1, <1>5, <1>6
<1> HIDE DEF g
<1>8. s = g
  BY <1>5, <1>7, SeqEqual
<1>9. QED  BY <1>1, <1>2, <1>3, <1>4, <1>8 DEF g

LEMMA UsesOfFront ==
  ASSUME NEW s \in Seq(Use), s # <<>>, NEW f, f = SubSeq(s, 1, Len(s) - 1), NEW l \in Slot
  PROVE  Cardinality(Uses(f, l)) =
           IF s[Len(s)].link = l THEN Cardinality(Uses(s, l)) - 1 ELSE Cardinality(Uses(s, l))
<1> DEFINE e == s[Len(s)]
<1>1. f \in Seq(Use) /\ e \in Use /\ s = Append(f, e)
  BY Front
<1> HIDE DEF e
<1>2. /\ Cardinality(Uses(f, l)) \in Nat
      /\ Cardinality(Uses(Append(f, e), l)) =
           IF e.link = l THEN Cardinality(Uses(f, l)) + 1 ELSE Cardinality(Uses(f, l))
  BY <1>1, UsesOfAppend
<1>3. Cardinality(Uses(s, l)) =
        IF e.link = l THEN Cardinality(Uses(f, l)) + 1 ELSE Cardinality(Uses(f, l))
  BY <1>1, <1>2
<1>4. Cardinality(Uses(f, l)) =
        IF e.link = l THEN Cardinality(Uses(s, l)) - 1 ELSE Cardinality(Uses(s, l))
  BY <1>2, <1>3
<1>5. QED  BY <1>4 DEF e

-----------------------------------------------------------------------------
LEMMA CInvInit == ControlInit => CInv
<1> SUFFICES ASSUME ControlInit PROVE CInv
  OBVIOUS
<1>1. Shape
  BY EmptySeq, ChangesAssumption DEF ControlInit, Shape, Component, Null
<1>2. QED  BY <1>1 DEF ControlInit, CInv, Alone, HeapRestored

LEMMA CInvStep ==
  ASSUME Locks \subseteq {"Write"}, CInv, [ControlNext]_<<mem, control>>
  PROVE  CInv'
<1> USE DEF CInv
<1>1. CASE UNCHANGED <<mem, control>>
  BY <1>1 DEF control, Shape, Alone, HeapRestored, Nested
<1>2. CASE Crash
  BY <1>2 DEF Crash, control, Shape, Alone, HeapRestored, Nested
<1>3. CASE StoreWords
  <2>1. Shape' /\ Alone' /\ HeapRestored'
    BY <1>3 DEF StoreWords, control, Shape, Alone, HeapRestored
  <2>2. ASSUME NEW t \in Transaction, saved[t] # <<>> PROVE Nested(t)'
    <3>1. saved[t] \in Seq(Use) /\ Nested(t)
      BY <2>2 DEF Shape
    <3>2. ASSUME NEW k \in DOMAIN saved[t]
          PROVE  mem'[saved[t][k].link] = mem[saved[t][k].link]
      <4>0. DOMAIN saved[t] = 1 .. Len(saved[t])
        BY <3>1, LenProperties
      <4>1. saved[t][k] \in Use /\ saved[t][k].link \in Slot
        <5>1. saved[t][k] \in Use
          BY <3>1, <4>0, ElementOfSeq
        <5>2. QED  BY <5>1 DEF Use
      <4>2. k \in Uses(saved[t], saved[t][k].link)
        BY DEF Uses
      <4>3. changes[saved[t][k].link] # 0
        <5>1. IsFiniteSet(Uses(saved[t], saved[t][k].link))
          BY <4>1, <3>1, UsesOfAppend
        <5>2. Cardinality(Uses(saved[t], saved[t][k].link)) # 0
          BY <5>1, <4>2, FS_EmptySet
        <5>3. QED  BY <5>2, <4>1, <3>1 DEF Nested
      <4>4. QED  BY <4>1, <4>3, <1>3 DEF StoreWords, Unused
    <3>3. QED  BY <3>1, <3>2, <1>3 DEF StoreWords, control, Nested
  <2>3. QED  BY <2>1, <2>2, <1>3 DEF StoreWords, control
<1>4. ASSUME NEW t \in Transaction, NEW a \in Locks, Lock(t, a) PROVE CInv'
  <2>1. a = "Write" /\ \A u \in Transaction : access[u] = "None"
    BY <1>4 DEF Lock
  <2>2. Shape'
    BY <1>4, <2>1 DEF Lock, Shape
  <2>3. Alone'
    BY <1>4, <2>1 DEF Lock, Alone, Shape
  <2>4. HeapRestored' /\ \A u \in Transaction : saved'[u] # <<>> => Nested(u)'
    BY <1>4 DEF Lock, HeapRestored, Nested
  <2>5. QED  BY <2>2, <2>3, <2>4
<1>5. ASSUME NEW t \in Transaction, Unlock(t) PROVE CInv'
  <2>1. Shape' /\ Alone'
    BY <1>5 DEF Unlock, Shape, Alone
  <2>2. HeapRestored' /\ \A u \in Transaction : saved'[u] # <<>> => Nested(u)'
    BY <1>5 DEF Unlock, HeapRestored, Nested
  <2>3. QED  BY <2>1, <2>2
<1>6. ASSUME NEW t \in Transaction, NEW l \in Slot, Enter(t, l) PROVE CInv'
  <2> DEFINE s == saved[t]
             e == [link |-> l, old |-> current]
  <2>1. s \in Seq(Use) /\ e \in Use /\ access[t] # "None"
    BY <1>6 DEF Enter, Shape, Use
  <2>2. \A u \in Transaction \ {t} : saved[u] = <<>>
    BY <2>1 DEF Alone
  <2>3. s = <<>> => current = Component /\ \A m \in Slot : changes[m] = 0
    BY <2>2 DEF HeapRestored
  <2>4. saved' = [saved EXCEPT ![t] = Append(s, e)]
    BY <1>6 DEF Enter
  <2>5. /\ Append(s, e) \in Seq(Use) /\ Len(Append(s, e)) = Len(s) + 1 /\ Len(s) \in Nat
        /\ \A k \in 1 .. Len(s) : Append(s, e)[k] = s[k]
        /\ Append(s, e)[Len(s) + 1] = e
    BY <2>1, AppendProperties, LenProperties
  <2>6. saved'[t] = Append(s, e) /\ \A u \in Transaction \ {t} : saved'[u] = <<>>
    BY <2>2, <2>4 DEF Shape
  <2>7. Append(s, e) # <<>>
    BY <2>5, EmptySeq, LenProperties
  <2>8. Shape'
    BY <1>6, <2>4, <2>5 DEF Enter, Shape
  <2>9. Alone'
    BY <1>6, <2>1, <2>6 DEF Enter, Alone
  <2>10. HeapRestored'
    BY <2>6, <2>7 DEF HeapRestored
  <2>11. Nested(t)'
    <3>1. saved'[t][1].old = Component
      <4>1. CASE s = <<>>
        BY <4>1, <2>3, <2>5, <2>6, EmptySeq
      <4>2. CASE s # <<>>
        BY <4>2, <2>1, <2>5, <2>6, EmptySeq, LenProperties DEF Nested
      <4>3. QED  BY <4>1, <4>2
    <3>2. ASSUME NEW k \in DOMAIN saved'[t]
          PROVE  mem'[saved'[t][k].link] = Inner(saved'[t], current', k)
      <4>1. k \in 1 .. Len(s) + 1
        BY <2>5, <2>6, LenProperties
      <4>2. CASE k = Len(s) + 1
        BY <4>2, <1>6, <2>5, <2>6 DEF Enter, Inner
      <4>3. CASE k = Len(s) /\ s # <<>>
        <5>1. mem[s[k].link] = current
          BY <4>3, <2>1, LenProperties DEF Nested, Inner
        <5>2. Append(s, e)[k + 1].old = current
          BY <4>3, <2>5
        <5>3. Append(s, e)[k] = s[k]
          BY <4>1, <4>3, <2>5
        <5>4. QED  BY <5>1, <5>2, <5>3, <4>3, <1>6, <2>5, <2>6 DEF Enter, Inner
      <4>4. CASE k \in 1 .. Len(s) /\ k # Len(s)
        <5>1. s # <<>> /\ k \in DOMAIN s
          BY <4>4, <2>1, <2>5, EmptySeq, LenProperties
        <5>2. mem[s[k].link] = s[k + 1].old
          BY <5>1, <4>4 DEF Nested, Inner
        <5>3. Append(s, e)[k] = s[k] /\ Append(s, e)[k + 1] = s[k + 1]
          BY <4>4, <2>5
        <5>4. QED  BY <5>2, <5>3, <4>4, <1>6, <2>5, <2>6 DEF Enter, Inner
      <4>5. s = <<>> => Len(s) = 0
        BY EmptySeq
      <4>6. QED  BY <4>1, <4>2, <4>3, <4>4, <4>5, <2>5
    <3>3. ASSUME NEW m \in Slot PROVE changes'[m] = Cardinality(Uses(saved'[t], m))
      <4>1. changes'[m] = IF l = m THEN changes[m] + 1 ELSE changes[m]
        BY <1>6 DEF Enter, Shape
      <4>2. changes[m] = Cardinality(Uses(s, m))
        <5>1. CASE s = <<>>
          <6>1. Uses(s, m) = {}
            BY <5>1, EmptySeq DEF Uses
          <6>2. QED  BY <6>1, <5>1, <2>3, FS_EmptySet
        <5>2. CASE s # <<>>
          BY <5>2 DEF Nested
        <5>3. QED  BY <5>1, <5>2
      <4>3. QED  BY <4>1, <4>2, <2>1, <2>6, UsesOfAppend
    <3>4. QED  BY <3>1, <3>2, <3>3 DEF Nested
  <2>12. QED  BY <2>6, <2>8, <2>9, <2>10, <2>11
<1>7. ASSUME NEW t \in Transaction, Leave(t) PROVE CInv'
  <2> DEFINE s == saved[t]
             n == Len(s)
             f == SubSeq(s, 1, n - 1)
  <2>1. s \in Seq(Use) /\ s # <<>> /\ access[t] # "None" /\ Nested(t)
    BY <1>7 DEF Leave, Shape, Alone
  <2>2. \A u \in Transaction \ {t} : saved[u] = <<>>
    BY <2>1 DEF Alone
  <2>3. n \in Nat \ {0} /\ s[n] \in Use
    BY <2>1, Front
  <2>4. f \in Seq(Use) /\ Len(f) = n - 1 /\ \A k \in 1 .. n - 1 : f[k] = s[k]
    BY <2>1, Front
  <2>5. saved' = [saved EXCEPT ![t] = f]
    BY <1>7 DEF Leave
  <2>6. saved'[t] = f /\ \A u \in Transaction \ {t} : saved'[u] = <<>>
    BY <2>2, <2>5 DEF Shape
  <2>7. current' = s[n].old /\ changes' = [changes EXCEPT ![s[n].link] = @ - 1]
    BY <1>7 DEF Leave
  <2>8. Shape'
    BY <1>7, <2>3, <2>4, <2>5, <2>7 DEF Leave, Shape, Use
  <2>9. Alone'
    BY <1>7, <2>1, <2>6 DEF Leave, Alone
  <2> HIDE DEF f
  <2>10. ASSUME NEW m \in Slot PROVE changes'[m] = Cardinality(Uses(f, m))
    <3>1. changes'[m] = IF s[n].link = m THEN changes[m] - 1 ELSE changes[m]
      BY <2>3, <2>7 DEF Shape, Use
    <3>2. changes[m] = Cardinality(Uses(s, m))
      BY <2>1 DEF Nested
    <3>3. Cardinality(Uses(f, m)) = IF s[n].link = m THEN Cardinality(Uses(s, m)) - 1 ELSE Cardinality(Uses(s, m))
      <4>1. PICK r, g : r = s /\ g = f
        OBVIOUS
      <4>2. r \in Seq(Use) /\ r # <<>> /\ g = SubSeq(r, 1, Len(r) - 1)
        BY <2>1, <4>1 DEF f
      <4>3. Cardinality(Uses(g, m)) =
              IF r[Len(r)].link = m THEN Cardinality(Uses(r, m)) - 1 ELSE Cardinality(Uses(r, m))
        BY <4>2, UsesOfFront
      <4>4. QED  BY <4>1, <4>3
    <3>4. PICK a, b : a = Cardinality(Uses(s, m)) /\ b = Cardinality(Uses(f, m))
      OBVIOUS
    <3>5. CASE s[n].link = m
      <4>1. changes'[m] = a - 1 /\ b = a - 1
        BY <3>1, <3>2, <3>3, <3>4, <3>5
      <4>2. QED  BY <3>4, <4>1
    <3>6. CASE s[n].link # m
      <4>1. changes'[m] = a /\ b = a
        BY <3>1, <3>2, <3>3, <3>4, <3>6
      <4>2. QED  BY <3>4, <4>1
    <3>7. QED  BY <3>5, <3>6
  <2>11. CASE f = <<>>
    <3>1. n = 1
      BY <2>3, <2>4, <2>11, EmptySeq
    <3>2. current' = Component
      BY <3>1, <2>1, <2>7 DEF Nested
    <3>3. ASSUME NEW m \in Slot PROVE changes'[m] = 0
      <4>1. Uses(f, m) = {}
        BY <2>11, EmptySeq DEF Uses
      <4>2. QED  BY <4>1, <2>10, FS_EmptySet
    <3>4. HeapRestored'
      BY <3>2, <3>3 DEF HeapRestored
    <3>5. QED  BY <3>4, <2>6, <2>8, <2>9, <2>11
  <2>12. CASE f # <<>>
    <3>0. Len(f) \in Nat \ {0}
      BY <2>4, <2>12, EmptySeq
    <3>1. n - 1 \in Nat \ {0}
      BY <2>4, <3>0
    <3>2. saved'[t][1].old = Component
      <4>0. \A m \in Nat \ {0} : m - 1 \in Nat \ {0} => 1 \in 1 .. m - 1
        OBVIOUS
      <4>1. 1 \in 1 .. n - 1
        BY <2>3, <3>1, <4>0, Zenon
      <4>2. f[1] = s[1]
        BY <4>1, <2>4, Zenon
      <4>3. QED  BY <4>2, <2>1, <2>6 DEF Nested
    <3>3. ASSUME NEW k \in DOMAIN f PROVE mem'[f[k].link] = Inner(f, current', k)
      <4>1. k \in 1 .. n - 1 /\ k \in DOMAIN s /\ f[k] = s[k]
        BY <2>1, <2>3, <2>4, LenProperties
      <4>2. mem[s[k].link] = s[k + 1].old
        BY <4>1, <2>1, <2>3 DEF Nested, Inner
      <4> mem' = mem /\ Len(f) = n - 1
        BY <1>7, <2>4 DEF Leave
      <4>3. CASE k = n - 1
        <5>1. s[k + 1] = s[n]
          BY <4>3, <2>3
        <5>2. Inner(f, current', k) = current'
          BY <4>3 DEF Inner
        <5>3. QED  BY <4>1, <4>2, <5>1, <5>2, <2>7
      <4>4. CASE k # n - 1
        <5>1. f[k + 1] = s[k + 1]
          BY <4>1, <4>4, <2>3, <2>4
        <5>2. QED  BY <4>1, <4>2, <4>4, <5>1 DEF Inner
      <4>5. QED  BY <4>3, <4>4
    <3>4. Nested(t)'
      BY <3>2, <3>3, <2>6, <2>10 DEF Nested
    <3>5. HeapRestored'
      BY <2>6, <2>12 DEF HeapRestored
    <3>6. QED  BY <3>4, <3>5, <2>6, <2>8, <2>9
  <2>13. QED  BY <2>11, <2>12
<1>8. QED
  BY <1>1, <1>2, <1>3, <1>4, <1>5, <1>6, <1>7 DEF ControlNext

LEMMA CInvAlways ==
  ASSUME Locks \subseteq {"Write"}
  PROVE  ControlSpec => []CInv
<1>1. ControlInit => CInv
  BY CInvInit
<1>2. CInv /\ [ControlNext]_<<mem, control>> => CInv'
  BY CInvStep
<1>3. QED  BY <1>1, <1>2, PTL DEF ControlSpec

(* Between two transactions the heap of the instance is its own again, and *)
(* no Change that is over keeps a link from being moved or merged.         *)
THEOREM Restored ==
  ASSUME Locks \subseteq {"Write"}
  PROVE  ControlSpec => []HeapRestored
<1>1. CInv => HeapRestored
  BY DEF CInv
<1>2. QED  BY <1>1, CInvAlways, PTL

(* However deep the Changes of a transaction, every link it has gone       *)
(* through still leads where it led: MoveOp and MergeOp find it in use.    *)
THEOREM LinksStay ==
  ASSUME Locks \subseteq {"Write"}
  PROVE  ControlSpec => []LinkOfChangeStays
<1>1. ASSUME CInv PROVE LinkOfChangeStays
  <2>1. \A t \in Transaction : saved[t] = <<>> => DOMAIN saved[t] = {}
    BY EmptySeq
  <2>2. QED
    BY <1>1, <2>1 DEF CInv, Nested, Inner, InnerHeap, LinkOfChangeStays
<1>2. QED  BY <1>1, CInvAlways, PTL
=============================================================================
