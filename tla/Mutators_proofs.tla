-------------------------- MODULE Mutators_proofs --------------------------
(***************************************************************************)
(* A program keeps its declarations and its hashes for any seeds that      *)
(* compile, any snippets and any number of mutations.  It keeps its        *)
(* labels, and no mutation raises, until a snippet with a jump that is no  *)
(* statement of a block is inserted; tame remembers whether one was.       *)
(* First what the edits do to sequences, then what they do to a heap, then *)
(* the invariant.                                                          *)
(***************************************************************************)
EXTENDS Mutators, SequenceTheorems, FiniteSetTheorems, TLAPS

\* x comes before y in the sequence s.
Before(s, x, y) == \E i, j \in DOMAIN s : i < j /\ s[i] = x /\ s[j] = y

Items(h, x) == Range(h[x].s)

LEMMA SpliceElements ==
    ASSUME NEW S, NEW s \in Seq(S), NEW new \in Seq(S), NEW idx \in 0..Len(s)
    PROVE  LET r == Splice(s, idx, new)
           IN  /\ r \in Seq(S) /\ Len(r) = Len(s) + Len(new)
               /\ \A i \in 1..Len(r) :
                     r[i] = IF i <= idx THEN s[i]
                            ELSE IF i <= idx + Len(new) THEN new[i - idx] ELSE s[i - Len(new)]
  <1> DEFINE a == SubSeq(s, 1, idx)
             c == SubSeq(s, idx + 1, Len(s))
  <1>1. Len(s) \in Nat /\ Len(new) \in Nat /\ DOMAIN s = 1..Len(s) /\ idx \in Nat /\ idx <= Len(s)
    OBVIOUS
  <1>2. idx + 1 <= Len(s) \/ idx = Len(s)
    OBVIOUS
  <1>3. \A i \in 1..Len(s) : s[i] \in S
    OBVIOUS
  <1>4. a \in Seq(S) /\ Len(a) = idx /\ \A i \in 1..idx : a[i] = s[i]
    <2>1. \A i \in 1..idx : s[i] \in S
      BY <1>1, <1>3
    <2> QED BY <2>1, <1>1, SubSeqProperties
  <1>5. c \in Seq(S) /\ Len(c) = Len(s) - idx /\ \A i \in 1..(Len(s) - idx) : c[i] = s[idx + i]
    <2>1. \A i \in (idx + 1)..Len(s) : s[i] \in S
      BY <1>1, <1>3
    <2>2. idx + 1 \in Int /\ Len(s) \in Int
      BY <1>1
    <2>3. /\ c \in Seq(S) /\ Len(c) = IF idx + 1 <= Len(s) THEN Len(s) - (idx + 1) + 1 ELSE 0
          /\ \A i \in 1..(Len(s) - (idx + 1) + 1) : c[i] = s[(idx + 1) + i - 1]
      BY <2>1, <2>2, SubSeqProperties
    <2> HIDE DEF a, c
    <2>4. Len(c) = Len(s) - idx
      <3>1. CASE idx + 1 <= Len(s)
        BY <3>1, <2>3, <1>1
      <3>2. CASE idx = Len(s)
        BY <3>2, <2>3, <1>1
      <3> QED BY <1>2, <3>1, <3>2
    <2>5. ASSUME NEW i \in 1..(Len(s) - idx) PROVE c[i] = s[idx + i]
      <3>1. i \in 1..(Len(s) - (idx + 1) + 1) /\ (idx + 1) + i - 1 = idx + i
        BY <1>1
      <3>2. c[i] = s[(idx + 1) + i - 1]
        BY <2>3, <3>1
      <3> QED BY <3>1, <3>2
    <2> QED BY <2>3, <2>4, <2>5
  <1> HIDE DEF a, c
  <1>6. /\ a \o new \in Seq(S) /\ Len(a \o new) = idx + Len(new)
        /\ \A i \in 1..(idx + Len(new)) : (a \o new)[i] = IF i <= idx THEN s[i] ELSE new[i - idx]
    <2>1. /\ a \o new \in Seq(S) /\ Len(a \o new) = Len(a) + Len(new)
          /\ \A i \in 1..(Len(a) + Len(new)) : (a \o new)[i] = IF i <= Len(a) THEN a[i] ELSE new[i - Len(a)]
      BY <1>4, ConcatProperties
    <2> QED BY <2>1, <1>4, <1>1
  <1> DEFINE b == a \o new
             r == b \o c
  <1>7. /\ b \in Seq(S) /\ Len(b) = idx + Len(new)
         /\ \A i \in 1..(idx + Len(new)) : b[i] = IF i <= idx THEN s[i] ELSE new[i - idx]
    BY <1>6
  <1> HIDE DEF b
  <1>8. /\ r \in Seq(S) /\ Len(r) = Len(b) + Len(c)
        /\ \A i \in 1..(Len(b) + Len(c)) : r[i] = IF i <= Len(b) THEN b[i] ELSE c[i - Len(b)]
    BY <1>7, <1>5, ConcatProperties
  <1> HIDE DEF r
  <1>9. Splice(s, idx, new) = r
    BY DEF Splice, a, b, c, r
  <1>10. Len(r) = Len(s) + Len(new)
    BY <1>1, <1>5, <1>7, <1>8
  <1>11. ASSUME NEW i \in 1..Len(r)
        PROVE  r[i] = IF i <= idx THEN s[i]
                      ELSE IF i <= idx + Len(new) THEN new[i - idx] ELSE s[i - Len(new)]
    <2>1. CASE i <= idx + Len(new)
      BY <2>1, <1>1, <1>5, <1>7, <1>8
    <2>2. CASE i > idx + Len(new)
      <3>1. r[i] = c[i - (idx + Len(new))]
        <4>1. i \in 1..(Len(b) + Len(c)) /\ ~(i <= Len(b)) /\ Len(b) = idx + Len(new)
          BY <2>2, <1>1, <1>5, <1>7, <1>10
        <4>2. r[i] = c[i - Len(b)]
          BY <4>1, <1>8
        <4> QED BY <4>1, <4>2
      <3>2. i - (idx + Len(new)) \in 1..(Len(s) - idx)
        BY <2>2, <1>1, <1>10
      <3>3. c[i - (idx + Len(new))] = s[idx + (i - (idx + Len(new)))]
        BY <3>2, <1>5
      <3>4. idx + (i - (idx + Len(new))) = i - Len(new)
        BY <1>1
      <3> QED BY <2>2, <1>1, <3>1, <3>3, <3>4
    <2> QED BY <2>1, <2>2, <1>1
  <1> QED BY <1>8, <1>9, <1>10, <1>11

\* A statement keeps its place among the others when more are put between them.
LEMMA SpliceItems ==
    ASSUME NEW S, NEW s \in Seq(S), NEW new \in Seq(S), NEW idx \in 0..Len(s)
    PROVE  LET r == Splice(s, idx, new)
           IN  /\ r \in Seq(S) /\ Len(r) >= Len(s)
               /\ Range(r) = Range(s) \cup Range(new)
               /\ \A x, y : Before(s, x, y) \/ Before(new, x, y) => Before(r, x, y)
               /\ IsInjective(s) /\ IsInjective(new) /\ Range(s) \cap Range(new) = {} => IsInjective(r)
               /\ idx = 0 => \A x \in Range(new), y \in Range(s) : Before(r, x, y)
  <1> DEFINE r == Splice(s, idx, new)
             ToS(i) == IF i <= idx THEN i ELSE i + Len(new)
             ToNew(i) == idx + i
  <1>1. /\ r \in Seq(S) /\ Len(r) = Len(s) + Len(new)
        /\ \A i \in 1..Len(r) :
                     r[i] = IF i <= idx THEN s[i]
                            ELSE IF i <= idx + Len(new) THEN new[i - idx] ELSE s[i - Len(new)]
    BY SpliceElements
  <1> HIDE DEF r
  <1>2. /\ DOMAIN r = 1..(Len(s) + Len(new)) /\ DOMAIN s = 1..Len(s) /\ DOMAIN new = 1..Len(new)
        /\ Len(s) \in Nat /\ Len(new) \in Nat
    BY <1>1
  <1>3. \A i \in DOMAIN s : ToS(i) \in DOMAIN r /\ r[ToS(i)] = s[i]
    BY <1>1, <1>2
  <1>4. \A i \in DOMAIN new : ToNew(i) \in DOMAIN r /\ r[ToNew(i)] = new[i]
    BY <1>1, <1>2
  <1>5. \A i \in DOMAIN r : (\E j \in DOMAIN s : i = ToS(j)) \/ (\E j \in DOMAIN new : i = ToNew(j))
    <2> SUFFICES ASSUME NEW i \in DOMAIN r
                 PROVE  (\E j \in DOMAIN s : i = ToS(j)) \/ (\E j \in DOMAIN new : i = ToNew(j))
      OBVIOUS
    <2>1. CASE i <= idx
      BY <2>1, <1>2
    <2>2. CASE i > idx /\ i <= idx + Len(new)
      <3>1. i - idx \in DOMAIN new /\ ToNew(i - idx) = i
        BY <2>2, <1>2
      <3> QED BY <3>1
    <2>3. CASE i > idx + Len(new)
      <3>1. i - Len(new) \in DOMAIN s /\ ToS(i - Len(new)) = i
        BY <2>3, <1>2
      <3> QED BY <3>1
    <2> QED BY <2>1, <2>2, <2>3, <1>2
  <1>6. /\ \A i, j \in DOMAIN s : i < j => ToS(i) < ToS(j)
        /\ \A i, j \in DOMAIN new : i < j => ToNew(i) < ToNew(j)
        /\ idx = 0 => \A i \in DOMAIN new, j \in DOMAIN s : ToNew(i) < ToS(j)
    BY <1>2
  <1> HIDE DEF ToS, ToNew
  <1>7. Range(r) = Range(s) \cup Range(new)
    BY <1>3, <1>4, <1>5 DEF Range
  <1>8. ASSUME NEW x, NEW y, Before(s, x, y) PROVE Before(r, x, y)
    <2>1. PICK i, j \in DOMAIN s : i < j /\ s[i] = x /\ s[j] = y
      BY <1>8 DEF Before
    <2> QED BY <2>1, <1>3, <1>6 DEF Before
  <1>9. ASSUME NEW x, NEW y, Before(new, x, y) PROVE Before(r, x, y)
    <2>1. PICK i, j \in DOMAIN new : i < j /\ new[i] = x /\ new[j] = y
      BY <1>9 DEF Before
    <2> QED BY <2>1, <1>4, <1>6 DEF Before
  <1>10. IsInjective(s) /\ IsInjective(new) /\ Range(s) \cap Range(new) = {} => IsInjective(r)
    <2> SUFFICES ASSUME IsInjective(s), IsInjective(new), Range(s) \cap Range(new) = {},
                        NEW i \in DOMAIN r, NEW j \in DOMAIN r, r[i] = r[j]
                 PROVE  i = j
      BY DEF IsInjective
    <2>1. CASE \E i1 \in DOMAIN s, j1 \in DOMAIN s : i = ToS(i1) /\ j = ToS(j1)
      BY <2>1, <1>3 DEF IsInjective
    <2>2. CASE \E i1 \in DOMAIN new, j1 \in DOMAIN new : i = ToNew(i1) /\ j = ToNew(j1)
      BY <2>2, <1>4 DEF IsInjective
    <2>3. CASE \E i1 \in DOMAIN s, j1 \in DOMAIN new : i = ToS(i1) /\ j = ToNew(j1)
      BY <2>3, <1>3, <1>4 DEF Range
    <2>4. CASE \E i1 \in DOMAIN new, j1 \in DOMAIN s : i = ToNew(i1) /\ j = ToS(j1)
      BY <2>4, <1>3, <1>4 DEF Range
    <2> QED BY <2>1, <2>2, <2>3, <2>4, <1>5
  <1>11. idx = 0 => \A x \in Range(new), y \in Range(s) : Before(r, x, y)
    <2> SUFFICES ASSUME idx = 0, NEW i \in DOMAIN new, NEW j \in DOMAIN s PROVE Before(r, new[i], s[j])
      BY DEF Range
    <2> QED BY <1>3, <1>4, <1>6 DEF Before
  <1>12. Len(r) >= Len(s)
    BY <1>1, <1>2
  <1> QED BY <1>1, <1>7, <1>8, <1>9, <1>10, <1>11, <1>12 DEF r

\* Before the statements that are put in stand the first idx, and some of them.
LEMMA SpliceBetween ==
    ASSUME NEW S, NEW s \in Seq(S), NEW new \in Seq(S), NEW idx \in 0..Len(s),
           Range(s) \cap Range(new) = {}
    PROVE  LET r == Splice(s, idx, new)
           IN  /\ \A i \in 1..idx : \A y \in Range(new) : Before(r, s[i], y)
               /\ \A x : \A y \in Range(new) : Before(r, x, y) => x \in Range(new) \/ \E i \in 1..idx : x = s[i]
  <1> DEFINE r == Splice(s, idx, new)
  <1>1. /\ r \in Seq(S) /\ Len(r) = Len(s) + Len(new)
        /\ \A i \in 1..Len(r) :
                     r[i] = IF i <= idx THEN s[i]
                            ELSE IF i <= idx + Len(new) THEN new[i - idx] ELSE s[i - Len(new)]
    BY SpliceElements
  <1> HIDE DEF r
  <1>2. /\ DOMAIN r = 1..(Len(s) + Len(new)) /\ DOMAIN s = 1..Len(s) /\ DOMAIN new = 1..Len(new)
        /\ Len(s) \in Nat /\ Len(new) \in Nat /\ idx \in Nat /\ idx <= Len(s)
    BY <1>1
  <1>3. ASSUME NEW i \in 1..idx, NEW y \in Range(new) PROVE Before(r, s[i], y)
    <2>1. PICK j \in DOMAIN new : new[j] = y
      BY DEF Range
    <2>2. i \in DOMAIN r /\ idx + j \in DOMAIN r /\ i < idx + j /\ r[i] = s[i] /\ r[idx + j] = y
      BY <2>1, <1>1, <1>2
    <2> QED BY <2>2 DEF Before
  <1>4. ASSUME NEW x, NEW y \in Range(new), Before(r, x, y), x \notin Range(new)
        PROVE  \E i \in 1..idx : x = s[i]
    <2>1. PICK i, j \in DOMAIN r : i < j /\ r[i] = x /\ r[j] = y
      BY <1>4 DEF Before
    <2>2. j <= idx + Len(new)
      <3> SUFFICES ASSUME j > idx + Len(new) PROVE FALSE
        BY <2>1, <1>2
      <3>1. j - Len(new) \in DOMAIN s /\ r[j] = s[j - Len(new)]
        BY <1>1, <1>2
      <3>2. y \in Range(s)
        BY <3>1, <2>1 DEF Range
      <3> QED BY <3>2
    <2>3. i <= idx
      <3> SUFFICES ASSUME i > idx PROVE FALSE
        BY <2>1, <1>2
      <3>1. i - idx \in DOMAIN new /\ r[i] = new[i - idx]
        BY <2>1, <2>2, <1>1, <1>2
      <3>2. x \in Range(new)
        BY <3>1, <2>1 DEF Range
      <3> QED BY <3>2, <1>4
    <2>4. i \in 1..idx /\ x = s[i]
      BY <2>1, <2>3, <1>1, <1>2
    <2> QED BY <2>4
  <1> QED BY <1>3, <1>4 DEF r

LEMMA RemoveItems ==
    ASSUME NEW S, NEW s \in Seq(S), IsInjective(s), NEW k \in DOMAIN s
    PROVE  LET r == RemoveAt(s, k)
           IN  /\ r \in Seq(S)
               /\ Range(r) = Range(s) \ {s[k]}
               /\ \A x, y : Before(s, x, y) /\ x # s[k] /\ y # s[k] => Before(r, x, y)
               /\ IsInjective(r)
  <1> DEFINE r == RemoveAt(s, k)
             a == SubSeq(s, 1, k - 1)
             c == SubSeq(s, k + 1, Len(s))
             To(i) == IF i < k THEN i ELSE i - 1
             From(i) == IF i < k THEN i ELSE i + 1
  <1>1. k \in 1..Len(s) /\ Len(s) \in Nat /\ DOMAIN s = 1..Len(s)
    OBVIOUS
  <1>2. \A i \in 1..Len(s) : s[i] \in S
    OBVIOUS
  <1>3. a \in Seq(S) /\ Len(a) = k - 1 /\ \A i \in 1..(k - 1) : a[i] = s[i]
    <2>1. (\A i \in 1..(k - 1) : s[i] \in S) /\ k - 1 \in Int /\ 1 \in Int
      BY <1>1, <1>2
    <2>2. /\ a \in Seq(S) /\ Len(a) = IF 1 <= k - 1 THEN (k - 1) - 1 + 1 ELSE 0
          /\ \A i \in 1..((k - 1) - 1 + 1) : a[i] = s[1 + i - 1]
      BY <2>1, SubSeqProperties
    <2> HIDE DEF a
    <2> QED BY <2>2, <1>1
  <1>4. c \in Seq(S) /\ Len(c) = Len(s) - k /\ \A i \in 1..(Len(s) - k) : c[i] = s[k + i]
    <2>1. (\A i \in (k + 1)..Len(s) : s[i] \in S) /\ k + 1 \in Int /\ Len(s) \in Int
      BY <1>1, <1>2
    <2>2. /\ c \in Seq(S) /\ Len(c) = IF k + 1 <= Len(s) THEN Len(s) - (k + 1) + 1 ELSE 0
          /\ \A i \in 1..(Len(s) - (k + 1) + 1) : c[i] = s[(k + 1) + i - 1]
      BY <2>1, SubSeqProperties
    <2> HIDE DEF c
    <2>3. Len(c) = Len(s) - k
      BY <2>2, <1>1
    <2>4. ASSUME NEW i \in 1..(Len(s) - k) PROVE c[i] = s[k + i]
      <3>1. i \in 1..(Len(s) - (k + 1) + 1) /\ (k + 1) + i - 1 = k + i
        BY <1>1
      <3>2. c[i] = s[(k + 1) + i - 1]
        BY <2>2, <3>1
      <3> QED BY <3>1, <3>2
    <2> QED BY <2>2, <2>3, <2>4
  <1> HIDE DEF a, c
  <1>5. /\ a \o c \in Seq(S) /\ Len(a \o c) = Len(s) - 1
        /\ \A i \in 1..(Len(s) - 1) : (a \o c)[i] = IF i <= k - 1 THEN a[i] ELSE c[i - (k - 1)]
    <2>1. /\ a \o c \in Seq(S) /\ Len(a \o c) = Len(a) + Len(c)
          /\ \A i \in 1..(Len(a) + Len(c)) : (a \o c)[i] = IF i <= Len(a) THEN a[i] ELSE c[i - Len(a)]
      BY <1>3, <1>4, ConcatProperties
    <2> QED BY <2>1, <1>1, <1>3, <1>4
  <1>6. r = a \o c
    BY DEF RemoveAt, a, c
  <1>7. DOMAIN r = 1..(Len(s) - 1)
    <2>1. r \in Seq(S) /\ Len(r) = Len(s) - 1
      BY <1>5, <1>6
    <2> HIDE DEF r
    <2> QED BY <2>1
  <1>8. \A i \in DOMAIN r : From(i) \in DOMAIN s /\ From(i) # k /\ r[i] = s[From(i)]
    <2> SUFFICES ASSUME NEW i \in DOMAIN r
                 PROVE  From(i) \in DOMAIN s /\ From(i) # k /\ r[i] = s[From(i)]
      OBVIOUS
    <2>1. r[i] = IF i <= k - 1 THEN a[i] ELSE c[i - (k - 1)]
      <3> HIDE DEF r
      <3> QED BY <1>5, <1>6, <1>7
    <2> HIDE DEF r
    <2>2. CASE i < k
      BY <2>1, <2>2, <1>1, <1>3, <1>7
    <2>3. CASE i >= k
      <3>1. r[i] = c[i - (k - 1)]
        BY <2>1, <2>3, <1>1, <1>7
      <3>2. c[i - (k - 1)] = s[k + (i - (k - 1))]
        BY <2>3, <1>1, <1>4, <1>7
      <3> QED BY <3>1, <3>2, <2>3, <1>1, <1>7
    <2> QED BY <2>2, <2>3, <1>1, <1>7
  <1>9. \A i \in DOMAIN s : i # k => To(i) \in DOMAIN r /\ From(To(i)) = i
    BY <1>1, <1>7
  <1>10. \A i, j \in DOMAIN s : i # k /\ j # k /\ i < j => To(i) < To(j)
    BY <1>1
  <1>11. \A i, j \in DOMAIN r : From(i) = From(j) => i = j
    BY <1>1, <1>7
  <1> HIDE DEF r, To, From
  <1>12. Range(r) = Range(s) \ {s[k]}
    <2>1. ASSUME NEW x \in Range(r) PROVE x \in Range(s) \ {s[k]}
      <3>1. PICK i \in DOMAIN r : x = r[i]
        BY DEF Range
      <3> QED BY <3>1, <1>8 DEF Range, IsInjective
    <2>2. ASSUME NEW x \in Range(s), x # s[k] PROVE x \in Range(r)
      <3>1. PICK i \in DOMAIN s : x = s[i]
        BY DEF Range
      <3> QED BY <3>1, <2>2, <1>8, <1>9 DEF Range
    <2> QED BY <2>1, <2>2
  <1>13. ASSUME NEW x, NEW y, Before(s, x, y), x # s[k], y # s[k]
         PROVE  Before(r, x, y)
    <2>1. PICK i, j \in DOMAIN s : i < j /\ s[i] = x /\ s[j] = y
      BY <1>13 DEF Before
    <2> QED BY <2>1, <1>13, <1>8, <1>9, <1>10 DEF Before
  <1>14. IsInjective(r)
    BY <1>8, <1>11 DEF IsInjective
  <1> QED BY <1>5, <1>6, <1>12, <1>13, <1>14 DEF r

-----------------------------------------------------------------------------
(* Forests.                                                                *)

\* The conjuncts of Forest one by one.
ItemsKnown(h) == \A x \in DOMAIN h : h[x].s \in Seq(DOMAIN h) /\ IsInjective(h[x].s)
ItemsBelow(h) == \A x \in DOMAIN h : \A y \in Items(h, x) : h[y].up = h[x].up \cup {x}
UpKnown(h) == \A x \in DOMAIN h : h[x].up \subseteq DOMAIN h /\ x \notin h[x].up
UpNested(h) == \A x \in DOMAIN h : \A a \in h[x].up : h[a].up \subseteq h[x].up
UpLinked(h) == \A x \in DOMAIN h : \A a \in h[x].up : \E y \in Items(h, a) : y = x \/ y \in h[x].up
UpChain(h) == \A x \in DOMAIN h : \A a, c \in h[x].up : a = c \/ a \in h[c].up \/ c \in h[a].up

LEMMA ForestParts ==
    ASSUME NEW h
    PROVE  Forest(h) <=> /\ ItemsKnown(h) /\ ItemsBelow(h)
                         /\ UpKnown(h) /\ UpNested(h) /\ UpLinked(h) /\ UpChain(h)
  <1>1. Forest(h) => ItemsKnown(h) /\ ItemsBelow(h) /\ UpKnown(h)
    BY DEF Forest, ItemsKnown, ItemsBelow, UpKnown, Items
  <1>2. Forest(h) => UpNested(h) /\ UpLinked(h) /\ UpChain(h)
    BY DEF Forest, UpNested, UpLinked, UpChain, Items
  <1>3. ASSUME ItemsKnown(h), ItemsBelow(h), UpKnown(h), UpNested(h), UpLinked(h), UpChain(h)
        PROVE  Forest(h)
    <2> SUFFICES ASSUME NEW x \in DOMAIN h
                 PROVE  /\ h[x].s \in Seq(DOMAIN h) /\ IsInjective(h[x].s)
                        /\ \A y \in Range(h[x].s) : h[y].up = h[x].up \cup {x}
                        /\ h[x].up \subseteq DOMAIN h \ {x}
                        /\ \A a \in h[x].up : /\ h[a].up \subseteq h[x].up
                                              /\ \E y \in Range(h[a].s) : y = x \/ y \in h[x].up
                                              /\ \A c \in h[x].up : a = c \/ a \in h[c].up \/ c \in h[a].up
      BY DEF Forest
    <2> QED BY <1>3 DEF ItemsKnown, ItemsBelow, UpKnown, UpNested, UpLinked, UpChain, Items
  <1> QED BY <1>1, <1>2, <1>3

LEMMA ItemsInHeap ==
    ASSUME NEW h, ItemsKnown(h), NEW x \in DOMAIN h
    PROVE  Items(h, x) \subseteq DOMAIN h
  BY DEF ItemsKnown, Items, Range

\* No node has two places.
LEMMA OneParent ==
    ASSUME NEW h, Forest(h), NEW x \in DOMAIN h, NEW y \in DOMAIN h, NEW z \in Items(h, x), z \in Items(h, y)
    PROVE  x = y
  <1>1. ItemsBelow(h) /\ UpKnown(h) /\ UpNested(h)
    BY ForestParts
  <1>2. h[x].up \cup {x} = h[y].up \cup {y}
    BY <1>1 DEF ItemsBelow
  <1>3. CASE x # y
    <2>1. x \in h[y].up /\ y \in h[x].up
      BY <1>2, <1>3
    <2>2. h[y].up \subseteq h[x].up
      BY <2>1, <1>1 DEF UpNested
    <2> QED BY <2>1, <2>2, <1>1 DEF UpKnown
  <1> QED BY <1>3

-----------------------------------------------------------------------------
(* Putting statements into a block.                                        *)

\* What Inserted returns when the block has a list of items.
InsertedFrom(g, h, b, list) ==
    /\ DOMAIN g = DOMAIN h \cup DOMAIN list.nodes
    /\ \A x \in DOMAIN h : /\ g[x].k = h[x].k /\ g[x].n = h[x].n /\ g[x].e = h[x].e /\ g[x].up = h[x].up
                           /\ x # b => g[x].s = h[x].s
    /\ \A x \in DOMAIN list.nodes : /\ g[x].k = list.nodes[x].k /\ g[x].n = list.nodes[x].n
                                    /\ g[x].e = list.nodes[x].e /\ g[x].s = list.nodes[x].s
                                    /\ g[x].up = list.nodes[x].up \cup h[b].up \cup {b}
    /\ g[b].s \in Seq(DOMAIN g) /\ IsInjective(g[b].s) /\ Len(g[b].s) >= Len(h[b].s)
    /\ Items(g, b) = Items(h, b) \cup Range(list.items)
    /\ \A x, y : Before(h[b].s, x, y) \/ Before(list.items, x, y) => Before(g[b].s, x, y)

LEMMA InsertedFacts ==
    ASSUME NEW h, Forest(h), NEW b \in Blocks(h), h[b].k # "NoItems",
           NEW list, IsList(list), DOMAIN h \cap DOMAIN list.nodes = {},
           NEW idx \in 0..Len(h[b].s)
    PROVE  LET g == Inserted(h, b, idx, list)
           IN  /\ InsertedFrom(g, h, b, list)
               /\ idx = 0 => \A x \in Range(list.items), y \in Items(h, b) : Before(g[b].s, x, y)
  <1> DEFINE g == Inserted(h, b, idx, list)
             D == DOMAIN h \cup DOMAIN list.nodes
             r == Splice(h[b].s, idx, list.items)
  <1>1. b \in DOMAIN h /\ h[b].k = "Compound"
    BY DEF Blocks, IsBlock
  <1>2. g = [x \in D |->
             IF x = b THEN Node("Compound", h[b].n, h[b].e, r, h[b].up)
             ELSE IF x \in DOMAIN h THEN h[x]
             ELSE Node(list.nodes[x].k, list.nodes[x].n, list.nodes[x].e, list.nodes[x].s,
                       list.nodes[x].up \cup h[b].up \cup {b})]
    BY DEF Inserted
  <1>3. h[b].s \in Seq(D) /\ list.items \in Seq(D)
    <2>1. h[b].s \in Seq(DOMAIN h) /\ list.items \in Seq(DOMAIN list.nodes)
      BY <1>1, ForestParts DEF ItemsKnown, IsList
    <2> QED BY <2>1, SeqMonotonic
  <1>4. /\ r \in Seq(D) /\ Len(r) >= Len(h[b].s)
        /\ Range(r) = Range(h[b].s) \cup Range(list.items)
        /\ \A x, y : Before(h[b].s, x, y) \/ Before(list.items, x, y) => Before(r, x, y)
        /\ IsInjective(h[b].s) /\ IsInjective(list.items) /\ Range(h[b].s) \cap Range(list.items) = {} => IsInjective(r)
        /\ idx = 0 => \A x \in Range(list.items), y \in Range(h[b].s) : Before(r, x, y)
    BY <1>3, SpliceItems
  <1>5. IsInjective(r)
    <2>1. IsInjective(h[b].s) /\ IsInjective(list.items)
      BY <1>1, ForestParts DEF ItemsKnown, IsList
    <2>2. Range(h[b].s) \subseteq DOMAIN h /\ Range(list.items) \subseteq DOMAIN list.nodes
      BY <1>1, ForestParts DEF ItemsKnown, IsList, Range
    <2> QED BY <2>1, <2>2, <1>4
  <1> HIDE DEF r
  <1>6. g[b] = Node("Compound", h[b].n, h[b].e, r, h[b].up)
    BY <1>1, <1>2
  <1>7. \A x \in DOMAIN h \ {b} : g[x] = h[x]
    BY <1>2
  <1>8. \A x \in DOMAIN list.nodes :
            g[x] = Node(list.nodes[x].k, list.nodes[x].n, list.nodes[x].e, list.nodes[x].s,
                       list.nodes[x].up \cup h[b].up \cup {b})
    BY <1>1, <1>2
  <1>9. DOMAIN g = D
    BY <1>2
  <1> HIDE DEF g
  <1>10. g[b].s = r
    BY <1>6 DEF Node
  <1>11. InsertedFrom(g, h, b, list)
    <2>1. \A x \in DOMAIN h : /\ g[x].k = h[x].k /\ g[x].n = h[x].n /\ g[x].e = h[x].e /\ g[x].up = h[x].up
                              /\ x # b => g[x].s = h[x].s
      BY <1>1, <1>6, <1>7 DEF Node
    <2>2. \A x \in DOMAIN list.nodes : /\ g[x].k = list.nodes[x].k /\ g[x].n = list.nodes[x].n
                                    /\ g[x].e = list.nodes[x].e /\ g[x].s = list.nodes[x].s
                                    /\ g[x].up = list.nodes[x].up \cup h[b].up \cup {b}
      <3> SUFFICES ASSUME NEW x \in DOMAIN list.nodes
                   PROVE  /\ g[x].k = list.nodes[x].k /\ g[x].n = list.nodes[x].n
                          /\ g[x].e = list.nodes[x].e /\ g[x].s = list.nodes[x].s
                          /\ g[x].up = list.nodes[x].up \cup h[b].up \cup {b}
        OBVIOUS
      <3>1. g[x] = Node(list.nodes[x].k, list.nodes[x].n, list.nodes[x].e, list.nodes[x].s,
                        list.nodes[x].up \cup h[b].up \cup {b})
        BY <1>8
      <3> QED BY <3>1 DEF Node
    <2> QED BY <2>1, <2>2, <1>4, <1>5, <1>9, <1>10 DEF InsertedFrom, Items
  <1>12. idx = 0 => \A x \in Range(list.items), y \in Items(h, b) : Before(g[b].s, x, y)
    BY <1>4, <1>10 DEF Items
  <1> QED BY <1>11, <1>12 DEF g

LEMMA InsertedForest ==
    ASSUME NEW h, Forest(h), NEW b \in DOMAIN h, NEW list, IsList(list),
           DOMAIN h \cap DOMAIN list.nodes = {}, NEW g, InsertedFrom(g, h, b, list)
    PROVE  Forest(g)
  <1> DEFINE L == DOMAIN list.nodes
             m == list.nodes
  <1>1. L = DOMAIN m /\ DOMAIN h \cap L = {}
    OBVIOUS
  <1>2. /\ ItemsKnown(h) /\ ItemsBelow(h) /\ UpKnown(h) /\ UpNested(h) /\ UpLinked(h)
        /\ ItemsKnown(m) /\ ItemsBelow(m) /\ UpKnown(m) /\ UpNested(m) /\ UpLinked(m)
        /\ UpChain(h) /\ UpChain(m)
    BY ForestParts DEF IsList
  <1>3. /\ \A x \in DOMAIN h : x # b => Items(g, x) = Items(h, x)
        /\ \A x \in L : Items(g, x) = Items(m, x)
        /\ Items(g, b) = Items(h, b) \cup Range(list.items)
    BY DEF InsertedFrom, Items
  <1>4. /\ DOMAIN g = DOMAIN h \cup L
        /\ \A x \in DOMAIN h : g[x].up = h[x].up
        /\ \A x \in L : g[x].up = m[x].up \cup h[b].up \cup {b}
    BY DEF InsertedFrom
  <1>5. /\ \A x \in Range(list.items) : x \in L /\ m[x].up = {}
        /\ \A x \in L : \E y \in Range(list.items) : y = x \/ y \in m[x].up
    BY DEF IsList, Range
  <1>6. /\ \A x \in DOMAIN h : Items(h, x) \subseteq DOMAIN h
        /\ \A x \in L : Items(m, x) \subseteq L
    BY <1>2, ItemsInHeap
  <1>7. ItemsKnown(g)
    <2> SUFFICES ASSUME NEW x \in DOMAIN g
                 PROVE  g[x].s \in Seq(DOMAIN g) /\ IsInjective(g[x].s)
      BY DEF ItemsKnown
    <2>1. CASE x \in DOMAIN h /\ x # b
      BY <2>1, <1>2, <1>4, SeqMonotonic DEF InsertedFrom, ItemsKnown
    <2>2. CASE x \in L
      BY <2>2, <1>2, <1>4, SeqMonotonic DEF InsertedFrom, ItemsKnown
    <2>3. CASE x = b
      BY <2>3 DEF InsertedFrom
    <2> QED BY <2>1, <2>2, <2>3, <1>4
  <1> HIDE DEF L, m
  <1>8. ItemsBelow(g)
    <2> SUFFICES ASSUME NEW x \in DOMAIN g, NEW y \in Items(g, x)
                 PROVE  g[y].up = g[x].up \cup {x}
      BY DEF ItemsBelow
    <2>1. CASE x \in DOMAIN h /\ y \in Items(h, x)
      BY <2>1, <1>2, <1>4, <1>6 DEF ItemsBelow
    <2>2. CASE x \in L
      BY <2>2, <1>1, <1>2, <1>3, <1>4, <1>6 DEF ItemsBelow
    <2>3. CASE x = b /\ y \in Range(list.items)
      BY <2>3, <1>4, <1>5
    <2> QED BY <2>1, <2>2, <2>3, <1>3, <1>4
  <1>9. UpKnown(g)
    BY <1>1, <1>2, <1>4 DEF UpKnown
  <1>10. UpNested(g)
    <2> SUFFICES ASSUME NEW x \in DOMAIN g, NEW a \in g[x].up
                 PROVE  g[a].up \subseteq g[x].up
      BY DEF UpNested
    <2>1. CASE x \in DOMAIN h
      BY <2>1, <1>2, <1>4 DEF UpNested, UpKnown
    <2>2. CASE x \in L /\ a \in m[x].up
      BY <2>2, <1>1, <1>2, <1>4 DEF UpNested, UpKnown
    <2>3. CASE x \in L /\ a \in h[b].up \cup {b}
      BY <2>3, <1>2, <1>4 DEF UpNested, UpKnown
    <2> QED BY <2>1, <2>2, <2>3, <1>4
  <1>11. UpLinked(g)
    <2> SUFFICES ASSUME NEW x \in DOMAIN g, NEW a \in g[x].up
                 PROVE  \E y \in Items(g, a) : y = x \/ y \in g[x].up
      BY DEF UpLinked
    <2>1. \A c \in DOMAIN h : Items(h, c) \subseteq Items(g, c)
      BY <1>3
    <2>2. CASE x \in DOMAIN h
      BY <2>1, <2>2, <1>2, <1>4 DEF UpLinked, UpKnown
    <2>3. CASE x \in L /\ a \in m[x].up
      BY <2>3, <1>1, <1>2, <1>3, <1>4 DEF UpLinked, UpKnown
    <2>4. CASE x \in L /\ a = b
      BY <2>4, <1>3, <1>4, <1>5
    <2>5. CASE x \in L /\ a \in h[b].up
      <3>1. PICK y \in Items(h, a) : y = b \/ y \in h[b].up
        BY <2>5, <1>2 DEF UpLinked
      <3> QED BY <3>1, <2>1, <2>5, <1>2, <1>4 DEF UpKnown
    <2> QED BY <2>2, <2>3, <2>4, <2>5, <1>4
  <1>12. UpChain(g)
    <2> SUFFICES ASSUME NEW x \in DOMAIN g, NEW a \in g[x].up, NEW c \in g[x].up
                 PROVE  a = c \/ a \in g[c].up \/ c \in g[a].up
      BY DEF UpChain
    <2>1. CASE x \in DOMAIN h
      BY <2>1, <1>2, <1>4 DEF UpChain, UpKnown
    <2>2. CASE x \in L
      <3>1. /\ \A y \in m[x].up : y \in L /\ h[b].up \cup {b} \subseteq g[y].up
            /\ m[x].up \cup h[b].up \cup {b} = g[x].up
        BY <2>2, <1>2, <1>4 DEF UpKnown, m, L
      <3>2. CASE a \in m[x].up /\ c \in m[x].up
        <4>1. a = c \/ a \in m[c].up \/ c \in m[a].up
          BY <2>2, <3>2, <1>1, <1>2 DEF UpChain
        <4> QED BY <4>1, <3>1, <3>2, <1>4
      <3>3. CASE (a \in m[x].up /\ c \in h[b].up \cup {b}) \/ (c \in m[x].up /\ a \in h[b].up \cup {b})
        BY <3>1, <3>3
      <3>4. CASE a \in h[b].up \cup {b} /\ c \in h[b].up \cup {b}
        <4>1. a = c \/ a \in h[c].up \/ c \in h[a].up
          BY <3>4, <1>2 DEF UpChain
        <4>2. a \in DOMAIN h /\ c \in DOMAIN h
          BY <3>4, <1>2 DEF UpKnown
        <4> QED BY <4>1, <4>2, <1>4
      <3> QED BY <3>1, <3>2, <3>3, <3>4
    <2> QED BY <2>1, <2>2, <1>4
  <1> QED BY <1>7, <1>8, <1>9, <1>10, <1>11, <1>12, ForestParts

-----------------------------------------------------------------------------
(* Taking statements out of a block.                                       *)

\* g is h without the nodes in gone, which all are below b.
CutFrom(g, h, b, gone) ==
    /\ DOMAIN g = DOMAIN h \ gone /\ b \in DOMAIN g
    /\ \A x \in DOMAIN g : g[x].n = h[x].n /\ g[x].e = h[x].e /\ g[x].up = h[x].up
    /\ IsBlock(g[b]) /\ IsBlock(h[b])
    /\ \A x \in DOMAIN g \ {b} : g[x].k = h[x].k /\ g[x].s = h[x].s /\ Items(h, x) \cap gone = {}
    /\ \A x \in DOMAIN g : h[x].up \cap gone = {}
    /\ \A x \in gone : x \in DOMAIN h /\ h[x].up # {}
    /\ g[b].s \in Seq(DOMAIN g) /\ IsInjective(g[b].s)
    /\ Items(g, b) = Items(h, b) \ gone
    /\ \A x, y : Before(h[b].s, x, y) /\ x \notin gone /\ y \notin gone => Before(g[b].s, x, y)

LEMMA SeqShrinks ==
    ASSUME NEW S, NEW T, NEW s \in Seq(S), Range(s) \subseteq T
    PROVE  s \in Seq(T)
  <1>1. Len(s) \in Nat /\ s \in [1..Len(s) -> S] /\ DOMAIN s = 1..Len(s)
    BY LenProperties
  <1>2. s \in [1..Len(s) -> T]
    BY <1>1 DEF Range
  <1> QED BY <1>1, <1>2, SeqDef

LEMMA DeletedCuts ==
    ASSUME NEW h, Forest(h), NEW b \in Blocks(h), NEW j \in DOMAIN h[b].s
    PROVE  CutFrom(Deleted(h, b, j), h, b, Tree(h, h[b].s[j]))
  <1> DEFINE g == Deleted(h, b, j)
             t == h[b].s[j]
             gone == Tree(h, t)
             r == RemoveAt(h[b].s, j)
  <1>1. b \in DOMAIN h /\ IsBlock(h[b])
    BY DEF Blocks
  <1>2. ItemsKnown(h) /\ ItemsBelow(h) /\ UpKnown(h) /\ UpNested(h)
    BY ForestParts
  <1>3. h[b].s \in Seq(DOMAIN h) /\ IsInjective(h[b].s)
    BY <1>1, <1>2 DEF ItemsKnown
  <1>4. /\ r \in Seq(DOMAIN h) /\ Range(r) = Range(h[b].s) \ {t} /\ IsInjective(r)
        /\ \A x, y : Before(h[b].s, x, y) /\ x # t /\ y # t => Before(r, x, y)
    BY <1>3, RemoveItems
  <1>5. t \in Items(h, b)
    BY DEF Items, Range
  <1>6. t \in DOMAIN h /\ h[t].up = h[b].up \cup {b} /\ t \notin h[b].up /\ t # b
    <2>1. t \in DOMAIN h /\ h[t].up = h[b].up \cup {b}
      BY <1>1, <1>2, <1>5, ItemsInHeap DEF ItemsBelow
    <2>2. b \notin h[b].up
      BY <1>1, <1>2 DEF UpKnown
    <2>3. t # b
      BY <2>1, <2>2
    <2>4. t \notin h[b].up
      <3> SUFFICES ASSUME t \in h[b].up PROVE FALSE
        OBVIOUS
      <3>1. h[t].up \subseteq h[b].up
        BY <1>1, <1>2 DEF UpNested
      <3> QED BY <3>1, <2>1, <2>2
    <2> QED BY <2>1, <2>3, <2>4
  <1>7. g = [x \in DOMAIN h \ gone |-> IF x = b THEN Node(h[b].k, h[b].n, h[b].e, r, h[b].up) ELSE h[x]]
    BY DEF Deleted
  <1>8. b \notin gone
    BY <1>6 DEF Tree
  <1> HIDE DEF g, r, t
  <1>9. DOMAIN g = DOMAIN h \ gone /\ b \in DOMAIN g
    BY <1>1, <1>7, <1>8
  <1>10. g[b] = Node(h[b].k, h[b].n, h[b].e, r, h[b].up) /\ \A x \in DOMAIN g \ {b} : g[x] = h[x]
    BY <1>1, <1>7, <1>8, <1>9
  <1>11. g[b].k = h[b].k /\ g[b].n = h[b].n /\ g[b].e = h[b].e /\ g[b].s = r /\ g[b].up = h[b].up
    BY <1>10 DEF Node
  <1>12. IsBlock(g[b])
    BY <1>1, <1>11 DEF IsBlock
  <1>13. Items(h, b) \ gone = Items(h, b) \ {t}
    <2>1. \A y \in Items(h, b) : y \in DOMAIN h /\ h[y].up = h[b].up \cup {b}
      BY <1>1, <1>2, ItemsInHeap DEF ItemsBelow
    <2> QED BY <2>1, <1>6 DEF Tree
  <1>14. Items(g, b) = Items(h, b) \ gone
    BY <1>4, <1>11, <1>13 DEF Items
  <1>15. \A x \in DOMAIN g \ {b} : Items(h, x) \cap gone = {}
    <2> SUFFICES ASSUME NEW x \in DOMAIN g \ {b}, NEW y \in Items(h, x), y \in gone
                 PROVE  FALSE
      OBVIOUS
    <2>1. x \in DOMAIN h /\ x # t /\ t \notin h[x].up
      BY <1>9 DEF Tree
    <2>2. h[y].up = h[x].up \cup {x}
      BY <2>1, <1>2 DEF ItemsBelow
    <2>3. y = t
      BY <2>1, <2>2 DEF Tree
    <2> QED BY <2>3, <2>1, <1>1, <1>5, OneParent
  <1>16. \A x \in DOMAIN g : h[x].up \cap gone = {}
    <2> SUFFICES ASSUME NEW x \in DOMAIN g, NEW a \in h[x].up, a \in gone
                 PROVE  FALSE
      OBVIOUS
    <2>1. x \in DOMAIN h /\ x \notin gone
      BY <1>9
    <2>2. h[a].up \subseteq h[x].up
      BY <2>1, <1>2 DEF UpNested
    <2> QED BY <2>1, <2>2 DEF Tree
  <1>17. r \in Seq(DOMAIN g)
    <2>1. Range(r) \subseteq DOMAIN g
      BY <1>1, <1>2, <1>4, <1>9, <1>13, ItemsInHeap DEF Items
    <2> QED BY <2>1, <1>4, SeqShrinks
  <1>18. t \in gone
    BY <1>6 DEF Tree
  <1>19. \A x, y : Before(h[b].s, x, y) /\ x \notin gone /\ y \notin gone => Before(g[b].s, x, y)
    BY <1>4, <1>11, <1>18
  <1>20. \A x \in gone : x \in DOMAIN h /\ h[x].up # {}
    BY <1>6 DEF Tree
  <1> HIDE DEF gone
  <1>21. \A x \in DOMAIN g : g[x].n = h[x].n /\ g[x].e = h[x].e /\ g[x].up = h[x].up
    BY <1>10, <1>11
  <1> QED BY <1>20, <1>1, <1>4, <1>9, <1>10, <1>11, <1>12, <1>14, <1>15, <1>16, <1>17, <1>19, <1>21 DEF CutFrom, g, gone, t

LEMMA EmptiedCuts ==
    ASSUME NEW h, Forest(h), NEW b \in Blocks(h)
    PROVE  CutFrom(Emptied(h, b), h, b, {x \in DOMAIN h : b \in h[x].up})
  <1> DEFINE g == Emptied(h, b)
             gone == {x \in DOMAIN h : b \in h[x].up}
  <1>1. b \in DOMAIN h /\ IsBlock(h[b])
    BY DEF Blocks
  <1>2. ItemsKnown(h) /\ ItemsBelow(h) /\ UpKnown(h) /\ UpNested(h)
    BY ForestParts
  <1>3. DOMAIN g = DOMAIN h \ gone /\ b \in DOMAIN g
    BY <1>1, <1>2 DEF Emptied, UpKnown
  <1>4. g[b] = Node("Compound", h[b].n, h[b].e, <<>>, h[b].up) /\ \A x \in DOMAIN g \ {b} : g[x] = h[x]
    BY <1>3 DEF Emptied
  <1> HIDE DEF g
  <1>5. g[b].k = "Compound" /\ g[b].n = h[b].n /\ g[b].e = h[b].e /\ g[b].s = <<>> /\ g[b].up = h[b].up
    BY <1>4 DEF Node
  <1>6. IsBlock(g[b])
    BY <1>5 DEF IsBlock
  <1>7. \A x \in DOMAIN g \ {b} : Items(h, x) \cap gone = {}
    <2> SUFFICES ASSUME NEW x \in DOMAIN g \ {b}, NEW y \in Items(h, x), y \in gone
                 PROVE  FALSE
      OBVIOUS
    <2>1. h[y].up = h[x].up \cup {x}
      BY <1>2, <1>3 DEF ItemsBelow
    <2> QED BY <2>1, <1>3
  <1>8. \A x \in DOMAIN g : h[x].up \cap gone = {}
    BY <1>2, <1>3 DEF UpNested
  <1>9. g[b].s \in Seq(DOMAIN g) /\ IsInjective(g[b].s) /\ Items(g, b) = {}
    BY <1>5 DEF IsInjective, Items, Range
  <1>10. Items(h, b) \ gone = {}
    BY <1>1, <1>2, ItemsInHeap DEF ItemsBelow
  <1>11. \A x, y : Before(h[b].s, x, y) => x \in Items(h, b)
    BY DEF Before, Items, Range
  <1>12. \A x \in gone : x \in DOMAIN h /\ h[x].up # {}
    OBVIOUS
  <1> HIDE DEF gone
  <1>13. \A x \in DOMAIN g : g[x].n = h[x].n /\ g[x].e = h[x].e /\ g[x].up = h[x].up
    BY <1>4, <1>5
  <1> QED BY <1>1, <1>3, <1>4, <1>5, <1>6, <1>7, <1>8, <1>9, <1>10, <1>11, <1>13, <1>12 DEF CutFrom, g, gone

LEMMA CutForest ==
    ASSUME NEW h, Forest(h), NEW b, NEW gone, NEW g, CutFrom(g, h, b, gone)
    PROVE  Forest(g)
  <1>1. ItemsKnown(h) /\ ItemsBelow(h) /\ UpKnown(h) /\ UpNested(h) /\ UpLinked(h) /\ UpChain(h)
    BY ForestParts
  <1>2. \A x \in DOMAIN g \ {b} : Items(g, x) = Items(h, x) /\ Items(h, x) \subseteq DOMAIN g
    BY <1>1, ItemsInHeap DEF CutFrom, Items
  <1>3. \A x \in DOMAIN g : Items(g, x) = Items(h, x) \ gone
    BY <1>2 DEF CutFrom
  <1>4. /\ DOMAIN g = DOMAIN h \ gone
        /\ \A x \in DOMAIN g : g[x].up = h[x].up /\ h[x].up \cap gone = {}
    BY DEF CutFrom
  <1>5. ItemsKnown(g)
    <2> SUFFICES ASSUME NEW x \in DOMAIN g, x # b
                 PROVE  g[x].s \in Seq(DOMAIN g) /\ IsInjective(g[x].s)
      BY DEF ItemsKnown, CutFrom
    <2>1. g[x].s = h[x].s /\ h[x].s \in Seq(DOMAIN h) /\ IsInjective(h[x].s)
      BY <1>1, <1>4 DEF ItemsKnown, CutFrom
    <2> QED BY <2>1, <1>2, SeqShrinks DEF Items
  <1>6. ItemsBelow(g)
    <2> SUFFICES ASSUME NEW x \in DOMAIN g, NEW y \in Items(g, x)
                 PROVE  g[y].up = g[x].up \cup {x}
      BY DEF ItemsBelow
    <2>1. y \in Items(h, x) /\ y \notin gone /\ y \in DOMAIN h
      BY <1>1, <1>3, <1>4, ItemsInHeap
    <2> QED BY <2>1, <1>1, <1>4 DEF ItemsBelow
  <1>7. UpKnown(g) /\ UpNested(g) /\ UpChain(g)
    BY <1>1, <1>4 DEF UpKnown, UpNested, UpChain
  <1>8. UpLinked(g)
    <2> SUFFICES ASSUME NEW x \in DOMAIN g, NEW a \in g[x].up
                 PROVE  \E y \in Items(g, a) : y = x \/ y \in g[x].up
      BY DEF UpLinked
    <2>1. PICK y \in Items(h, a) : y = x \/ y \in h[x].up
      BY <1>1, <1>4 DEF UpLinked
    <2>2. a \in DOMAIN g /\ y \notin gone
      BY <2>1, <1>1, <1>4 DEF UpKnown
    <2> QED BY <2>1, <2>2, <1>3, <1>4
  <1> QED BY <1>5, <1>6, <1>7, <1>8, ForestParts

-----------------------------------------------------------------------------
(* Taking labels and jumps away.                                           *)

Rep(h, labels, x) == IF x \in labels THEN h[x].s[1] ELSE x

\* g is h without the labels, and with the jumps made empty.
UnlabelledFrom(g, h, labels, jumps) ==
    /\ DOMAIN g = DOMAIN h \ labels
    /\ \A x \in DOMAIN g : g[x].up = h[x].up \ labels
    /\ \A x \in DOMAIN g \cap jumps : g[x].k = "Empty" /\ g[x].e = {} /\ g[x].s = <<>>
    /\ \A x \in DOMAIN g \ jumps : /\ g[x].k = h[x].k /\ g[x].n = h[x].n /\ g[x].e = h[x].e
                                   /\ g[x].s = [j \in DOMAIN h[x].s |-> Rep(h, labels, h[x].s[j])]

LEMMA UnlabelledFacts ==
    ASSUME NEW h, NEW names
    PROVE  LET labels == {x \in Released(h, names) : h[x].k = "Label"}
           IN  UnlabelledFrom(Unlabelled(h, names), h, labels, Released(h, names) \ labels)
  <1> DEFINE labels == {x \in Released(h, names) : h[x].k = "Label"}
             g == Unlabelled(h, names)
             S(x) == [j \in DOMAIN h[x].s |-> Rep(h, labels, h[x].s[j])]
  <1>1. g = [x \in DOMAIN h \ labels |->
                IF x \in Released(h, names) THEN Node("Empty", 0, {}, <<>>, h[x].up \ labels)
                ELSE Node(h[x].k, h[x].n, h[x].e, S(x), h[x].up \ labels)]
    BY DEF Unlabelled, Rep
  <1> HIDE DEF labels, g, S
  <1>2. DOMAIN g = DOMAIN h \ labels
    BY <1>1
  <1>3. ASSUME NEW x \in DOMAIN g, x \in Released(h, names)
        PROVE  g[x].up = h[x].up \ labels /\ g[x].k = "Empty" /\ g[x].e = {} /\ g[x].s = <<>>
    <2>1. g[x] = Node("Empty", 0, {}, <<>>, h[x].up \ labels)
      BY <1>1, <1>2, <1>3
    <2> QED BY <2>1 DEF Node
  <1>4. ASSUME NEW x \in DOMAIN g, x \notin Released(h, names)
        PROVE  /\ g[x].up = h[x].up \ labels /\ g[x].k = h[x].k /\ g[x].n = h[x].n /\ g[x].e = h[x].e
               /\ g[x].s = S(x)
    <2>1. g[x] = Node(h[x].k, h[x].n, h[x].e, S(x), h[x].up \ labels)
      BY <1>1, <1>2, <1>4
    <2> QED BY <2>1 DEF Node
  <1>5. \A x \in DOMAIN g : x \in Released(h, names) \ labels <=> x \in Released(h, names)
    BY <1>2
  <1> QED BY <1>2, <1>3, <1>4, <1>5 DEF UnlabelledFrom, labels, g, S

\* What holds of the labels and jumps that are taken away.
MayGo(h, labels, jumps) ==
    /\ labels \subseteq DOMAIN h /\ jumps \subseteq DOMAIN h /\ labels \cap jumps = {}
    /\ \A x \in labels : Len(h[x].s) = 1 /\ h[h[x].s[1]].k \notin Jumps \cup Decls \cup {"Call"}
    /\ \A x \in labels : h[x].k = "Label" /\ h[x].up # {}
    /\ \A x \in jumps : h[x].s = <<>> /\ h[x].k = "Goto"

LEMMA RepFacts ==
    ASSUME NEW h, Forest(h), NEW labels, NEW jumps, MayGo(h, labels, jumps),
           NEW x \in DOMAIN h, NEW y \in Items(h, x)
    PROVE  LET z == Rep(h, labels, y)
           IN  /\ z \in DOMAIN h \ labels
               /\ h[z].up \ labels = (h[x].up \cup {x}) \ labels
               /\ y \in labels => z \in Items(h, y) /\ h[z].up = h[x].up \cup {x, y} /\ z # y
               /\ y \in labels => h[z].k \notin Jumps \cup Decls \cup {"Call"}
  <1>1. ItemsKnown(h) /\ ItemsBelow(h) /\ UpKnown(h)
    BY ForestParts
  <1>2. y \in DOMAIN h /\ h[y].up = h[x].up \cup {x}
    BY <1>1, ItemsInHeap DEF ItemsBelow
  <1> DEFINE z == Rep(h, labels, y)
  <1>3. CASE y \notin labels
    BY <1>2, <1>3 DEF Rep
  <1>4. CASE y \in labels
    <2>1. z = h[y].s[1] /\ Len(h[y].s) = 1 /\ h[z].k \notin Jumps \cup Decls \cup {"Call"}
      BY <1>4 DEF Rep, MayGo
    <2>2. z \in Items(h, y)
      <3>1. h[y].s \in Seq(DOMAIN h)
        BY <1>1, <1>2 DEF ItemsKnown
      <3>2. 1 \in DOMAIN h[y].s
        BY <3>1, <2>1
      <3> QED BY <3>2, <2>1 DEF Items, Range
    <2>3. z \in DOMAIN h /\ h[z].up = h[y].up \cup {y}
      BY <2>2, <1>1, <1>2, ItemsInHeap DEF ItemsBelow
    <2>4. z \notin labels
      BY <2>1 DEF MayGo, Jumps
    <2>5. z # y
      BY <2>4, <1>4
    <2> HIDE DEF z
    <2>6. h[z].up = h[x].up \cup {x, y} /\ h[z].up \ labels = (h[x].up \cup {x}) \ labels
      BY <2>3, <1>2, <1>4
    <2>7. z \in DOMAIN h \ labels /\ z \in Items(h, y)
      BY <2>2, <2>3, <2>4
    <2> QED BY <2>1, <2>5, <2>6, <2>7 DEF z
  <1> QED BY <1>3, <1>4

LEMMA UnlabelledItems ==
    ASSUME NEW h, Forest(h), NEW labels, NEW jumps, MayGo(h, labels, jumps),
           NEW g, UnlabelledFrom(g, h, labels, jumps), NEW x \in DOMAIN g
    PROVE  /\ Items(g, x) = {Rep(h, labels, y) : y \in Items(h, x)}
           /\ \A y, z : Before(h[x].s, y, z) => Before(g[x].s, Rep(h, labels, y), Rep(h, labels, z))
           /\ g[x].s \in Seq(DOMAIN g) /\ IsInjective(g[x].s)
  <1>1. x \in DOMAIN h /\ x \notin labels /\ DOMAIN g = DOMAIN h \ labels
    BY DEF UnlabelledFrom
  <1>2. ItemsKnown(h) /\ ItemsBelow(h) /\ UpKnown(h)
    BY ForestParts
  <1>3. CASE x \in jumps
    <2>1. g[x].s = <<>> /\ h[x].s = <<>>
      BY <1>1, <1>3 DEF UnlabelledFrom, MayGo
    <2> QED BY <2>1 DEF Items, Range, Before, IsInjective
  <1>4. CASE x \notin jumps
    <2> DEFINE s == h[x].s
               r == g[x].s
    <2>1. r = [j \in DOMAIN s |-> Rep(h, labels, s[j])]
      BY <1>1, <1>4 DEF UnlabelledFrom
    <2>2. s \in Seq(DOMAIN h) /\ IsInjective(s)
      BY <1>1, <1>2 DEF ItemsKnown
    <2>3. \A j \in DOMAIN s : s[j] \in Items(h, x)
      BY DEF Items, Range
    <2> HIDE DEF s, r
    <2>4. DOMAIN r = DOMAIN s /\ \A j \in DOMAIN s : r[j] = Rep(h, labels, s[j])
      BY <2>1
    <2>5. Range(r) = {Rep(h, labels, y) : y \in Range(s)}
      BY <2>4 DEF Range
    <2>6. \A y, z : Before(s, y, z) => Before(r, Rep(h, labels, y), Rep(h, labels, z))
      <3> SUFFICES ASSUME NEW y, NEW z, Before(s, y, z)
                   PROVE  Before(r, Rep(h, labels, y), Rep(h, labels, z))
        OBVIOUS
      <3>1. PICK i, j \in DOMAIN s : i < j /\ s[i] = y /\ s[j] = z
        BY DEF Before
      <3> QED BY <3>1, <2>4 DEF Before
    <2>7. \A j \in DOMAIN s : r[j] \in DOMAIN g
      BY <1>1, <2>3, <2>4, RepFacts
    <2>8. r \in Seq(DOMAIN g)
      <3>1. Len(s) \in Nat /\ DOMAIN s = 1..Len(s)
        BY <2>2, LenProperties
      <3>2. r \in [1..Len(s) -> DOMAIN g]
        BY <3>1, <2>1, <2>4, <2>7
      <3> QED BY <3>1, <3>2, SeqDef
    <2>9. IsInjective(r)
      <3> SUFFICES ASSUME NEW i \in DOMAIN s, NEW j \in DOMAIN s, r[i] = r[j]
                   PROVE  i = j
        BY <2>4 DEF IsInjective
      <3> DEFINE y == s[i]
                 z == s[j]
                 w == r[i]
      <3>1. y \in Items(h, x) /\ z \in Items(h, x) /\ w = Rep(h, labels, y) /\ w = Rep(h, labels, z)
        BY <2>3, <2>4
      <3> HIDE DEF y, z, w
      <3>2. y \in DOMAIN h /\ z \in DOMAIN h /\ h[y].up = h[x].up \cup {x} /\ h[z].up = h[x].up \cup {x}
        BY <3>1, <1>1, <1>2, ItemsInHeap DEF ItemsBelow
      <3>3. y \notin h[y].up /\ z \notin h[z].up
        BY <3>2, <1>2 DEF UpKnown
      <3>4. /\ y \in labels => h[w].up = h[x].up \cup {x, y}
            /\ y \notin labels => w = y
        BY <3>1, <1>1, RepFacts DEF Rep
      <3>5. /\ z \in labels => h[w].up = h[x].up \cup {x, z}
            /\ z \notin labels => w = z
        BY <3>1, <1>1, RepFacts DEF Rep
      <3>6. y = z
        <4>1. CASE y \in labels /\ z \in labels
          <5>1. z \in h[x].up \cup {x, y}
            BY <4>1, <3>4, <3>5
          <5> QED BY <5>1, <3>2, <3>3
        <4>2. CASE y \in labels /\ z \notin labels
          BY <4>2, <3>2, <3>3, <3>4, <3>5
        <4>3. CASE y \notin labels /\ z \in labels
          BY <4>3, <3>2, <3>3, <3>4, <3>5
        <4>4. CASE y \notin labels /\ z \notin labels
          BY <4>4, <3>4, <3>5
        <4> QED BY <4>1, <4>2, <4>3, <4>4
      <3> QED BY <3>6, <2>2 DEF IsInjective, y, z
    <2> QED BY <2>5, <2>6, <2>8, <2>9 DEF Items, s, r
  <1> QED BY <1>3, <1>4

LEMMA UnlabelledForest ==
    ASSUME NEW h, Forest(h), NEW labels, NEW jumps, MayGo(h, labels, jumps),
           NEW g, UnlabelledFrom(g, h, labels, jumps)
    PROVE  Forest(g)
  <1>1. ItemsKnown(h) /\ ItemsBelow(h) /\ UpKnown(h) /\ UpNested(h) /\ UpLinked(h) /\ UpChain(h)
    BY ForestParts
  <1>2. DOMAIN g = DOMAIN h \ labels /\ \A x \in DOMAIN g : g[x].up = h[x].up \ labels
    BY DEF UnlabelledFrom
  <1>3. ItemsKnown(g)
    BY UnlabelledItems DEF ItemsKnown
  <1>4. ItemsBelow(g)
    <2> SUFFICES ASSUME NEW x \in DOMAIN g, NEW z \in Items(g, x)
                 PROVE  g[z].up = g[x].up \cup {x}
      BY DEF ItemsBelow
    <2>1. PICK y \in Items(h, x) : z = Rep(h, labels, y)
      BY UnlabelledItems
    <2>2. z \in DOMAIN h \ labels /\ h[z].up \ labels = (h[x].up \cup {x}) \ labels
      BY <2>1, <1>2, RepFacts
    <2> QED BY <2>2, <1>2
  <1>5. UpKnown(g) /\ UpNested(g) /\ UpChain(g)
    BY <1>1, <1>2 DEF UpKnown, UpNested, UpChain
  <1>6. UpLinked(g)
    <2> SUFFICES ASSUME NEW x \in DOMAIN g, NEW a \in g[x].up
                 PROVE  \E z \in Items(g, a) : z = x \/ z \in g[x].up
      BY DEF UpLinked
    <2>1. a \in DOMAIN h /\ a \notin labels /\ a \in h[x].up /\ x \in DOMAIN h /\ x \notin labels
      BY <1>1, <1>2 DEF UpKnown
    <2>2. PICK y \in Items(h, a) : y = x \/ y \in h[x].up
      BY <2>1, <1>1 DEF UpLinked
    <2>3. Rep(h, labels, y) \in Items(g, a)
      BY <2>1, <2>2, <1>2, UnlabelledItems
    <2>4. CASE y \notin labels
      BY <2>1, <2>2, <2>3, <2>4, <1>2 DEF Rep
    <2>5. CASE y \in labels
      <3>1. y \in h[x].up
        BY <2>1, <2>2, <2>5
      <3>2. PICK z \in Items(h, y) : z = x \/ z \in h[x].up
        BY <3>1, <2>1, <1>1 DEF UpLinked
      <3>3. z = Rep(h, labels, y)
        <4>1. Rep(h, labels, y) = h[y].s[1] /\ Len(h[y].s) = 1
          BY <2>5 DEF Rep, MayGo
        <4>2. y \in DOMAIN h /\ h[y].s \in Seq(DOMAIN h)
          BY <3>1, <2>1, <1>1 DEF UpKnown, ItemsKnown
        <4>3. DOMAIN h[y].s = {1}
          BY <4>1, <4>2
        <4> QED BY <4>1, <4>3 DEF Items, Range
      <3>4. z \notin labels
        BY <3>3, <2>1, <2>2, RepFacts
      <3> QED BY <3>2, <3>3, <3>4, <2>1, <2>3, <1>2
    <2> QED BY <2>4, <2>5
  <1> QED BY <1>3, <1>4, <1>5, <1>6, ForestParts


-----------------------------------------------------------------------------
(* What is kept.                                                           *)

\* Where statements, labels and jumps stand.
Shaped(h) ==
    \A x \in DOMAIN h :
        /\ h[x].k \in Simple => h[x].s = <<>>
        /\ h[x].k = "Label" => Len(h[x].s) = 1 /\ h[h[x].s[1]].k \notin Jumps \cup Decls \cup {"Call"}

JumpsPlaced(h) == \A x \in DOMAIN h : h[x].k \in Jumps => \E b \in Blocks(h) : x \in Items(h, b)

JumpsKept(h, funcs) == JumpsPlaced(h) /\ JumpsFit(h, funcs)

Rooted(h, funcs) == \A f \in DOMAIN funcs : funcs[f].body \in DOMAIN h /\ h[funcs[f].body].up = {}

\* The hashes: one for a variable; that of a scalar in ds is in its block,
\* after the declaration.
HashedOnce(h) ==
    \A c, d \in DOMAIN h : h[c].k = "Call" /\ h[d].k = "Call" /\ h[c].e \cap h[d].e # {} => c = d

HashFollows(h, ds) ==
    \A b \in Blocks(h) : \A d \in Items(h, b) :
        d \in ds /\ h[d].k = "Decl" =>
            \E c : Before(h[b].s, d, c) /\ h[c].k = "Call" /\ h[d].n \in h[c].e

IntsBelow(v) == {n \in Int : n < v}

CallsBelow(h, v) == \A x \in DOMAIN h : h[x].k = "Call" => h[x].e \subseteq IntsBelow(v)

LEMMA BlockKinds ==
    ASSUME NEW t, IsBlock(t)
    PROVE  t.k \notin Jumps \cup Simple \cup Decls \cup {"Call", "Empty"} \cup Controls
  BY DEF IsBlock, Jumps, Simple, Decls, Controls

LEMMA BeforeItems ==
    ASSUME NEW h, NEW b, NEW x, NEW y, Before(h[b].s, x, y)
    PROVE  x \in Items(h, b) /\ y \in Items(h, b)
  BY DEF Before, Items, Range

LEMMA DeclaredBefore ==
    ASSUME NEW h, NEW v, NEW x
    PROVE  Declared(h, v, x) <=>
               \E b \in h[x].up : \E d, y : /\ IsBlock(h[b]) /\ Before(h[b].s, d, y) /\ (y = x \/ y \in h[x].up)
                                            /\ h[d].k \in Decls /\ h[d].n = v
  BY DEF Declared, Before

\* What is used stays declared when declarations keep their place, and new
\* uses are of global or declared variables.
LEMMA UsesKept ==
    ASSUME NEW h, NEW g, NEW funcs, UsesFit(h, funcs),
           \A x \in DOMAIN h \cap DOMAIN g : \A f \in DOMAIN funcs : funcs[f].body \in g[x].up => funcs[f].body \in h[x].up,
           \A x \in DOMAIN h \cap DOMAIN g : \A v : Declared(h, v, x) => Declared(g, v, x),
           \A x \in DOMAIN g : \A v \in Uses(g[x]) :
               v \in Globals \/ Declared(g, v, x) \/ (x \in DOMAIN h /\ v \in Uses(h[x]))
    PROVE  UsesFit(g, funcs)
  <1> SUFFICES ASSUME NEW f \in DOMAIN funcs, NEW x \in Tree(g, funcs[f].body), NEW v \in Uses(g[x]),
                      v \notin Globals, ~Declared(g, v, x)
               PROVE  v \in Callable(funcs, f) \cup funcs[f].params
    BY DEF UsesFit
  <1>1. x \in DOMAIN h \cap DOMAIN g /\ v \in Uses(h[x])
    BY DEF Tree
  <1>2. x \in Tree(h, funcs[f].body) /\ ~Declared(h, v, x)
    BY <1>1 DEF Tree
  <1> QED BY <1>1, <1>2 DEF UsesFit

-----------------------------------------------------------------------------
(* What a cut keeps.                                                       *)

LEMMA CutKeeps ==
    ASSUME NEW h, Forest(h), NEW b, NEW gone, NEW g, CutFrom(g, h, b, gone),
           \A d, y \in Items(h, b) : d \in gone /\ y \notin gone => h[d].k \notin Decls \cup {"Call"},
           Shaped(h), HashedOnce(h),
           NEW funcs, Rooted(h, funcs), UsesFit(h, funcs),
           NEW ds, HashFollows(h, ds), NEW top, CallsBelow(h, top)
    PROVE  /\ Forest(g) /\ Shaped(g) /\ HashedOnce(g)
           /\ Rooted(g, funcs) /\ UsesFit(g, funcs)
           /\ HashFollows(g, ds) /\ CallsBelow(g, top)
           /\ JumpsPlaced(h) => JumpsPlaced(g)
  <1>1. Forest(g)
    BY CutForest
  <1>2. ItemsKnown(h) /\ ItemsBelow(h) /\ UpKnown(h)
    BY ForestParts
  <1>3. /\ DOMAIN g = DOMAIN h \ gone /\ b \in DOMAIN g /\ IsBlock(g[b]) /\ IsBlock(h[b])
        /\ \A x \in DOMAIN g : g[x].n = h[x].n /\ g[x].e = h[x].e /\ g[x].up = h[x].up
        /\ \A x \in DOMAIN g : h[x].up \cap gone = {}
        /\ \A x \in gone : x \in DOMAIN h /\ h[x].up # {}
        /\ \A x \in DOMAIN g : x # b => g[x].k = h[x].k /\ g[x].s = h[x].s
    BY DEF CutFrom
  <1>4. \A x \in DOMAIN g : /\ IsBlock(g[x]) <=> IsBlock(h[x])
                            /\ ~IsBlock(h[x]) => g[x].k = h[x].k /\ g[x].s = h[x].s
                            /\ ~IsBlock(g[x]) => g[x].k = h[x].k
    BY <1>3 DEF IsBlock
  <1>5. \A x \in DOMAIN g : Items(g, x) = Items(h, x) \ gone /\ Items(g, x) \subseteq DOMAIN g
    <2>1. \A x \in DOMAIN g : Items(g, x) = Items(h, x) \ gone
      BY DEF CutFrom, Items
    <2> QED BY <2>1, <1>2, <1>3, ItemsInHeap
  <1>6. \A x \in DOMAIN g : \A y, z : Before(h[x].s, y, z) /\ y \notin gone /\ z \notin gone => Before(g[x].s, y, z)
    BY DEF CutFrom
  <1>7. \A x \in DOMAIN g : x # b => Items(h, x) \cap gone = {}
    BY DEF CutFrom
  <1>8. \A x \in DOMAIN g : \A d, y \in Items(h, x) :
            d \in gone /\ y \notin gone => h[d].k \notin Decls \cup {"Call"}
    BY <1>7
  <1>9. \A x \in DOMAIN g : /\ g[x].k = "Call" <=> h[x].k = "Call"
                            /\ g[x].k = "Decl" <=> h[x].k = "Decl"
                            /\ g[x].k = "Label" <=> h[x].k = "Label"
                            /\ g[x].k \in Jumps <=> h[x].k \in Jumps
                            /\ g[x].k \in Simple <=> h[x].k \in Simple
                            /\ g[x].k \in Decls <=> h[x].k \in Decls
    BY <1>4, BlockKinds DEF Decls, Jumps, Simple
  <1>10. Shaped(g)
    <2> SUFFICES ASSUME NEW x \in DOMAIN g
                 PROVE  /\ g[x].k \in Simple => g[x].s = <<>>
                        /\ g[x].k = "Label" => /\ Len(g[x].s) = 1
                                               /\ g[g[x].s[1]].k \notin Jumps \cup Decls \cup {"Call"}
      BY DEF Shaped
    <2>1. CASE g[x].k \in Simple
      <3>1. ~IsBlock(h[x]) /\ h[x].k \in Simple
        BY <2>1, <1>9, BlockKinds
      <3> QED BY <3>1, <1>3, <1>4, <2>1 DEF Shaped, Simple
    <2>2. CASE g[x].k = "Label"
      <3>1. h[x].k = "Label" /\ ~IsBlock(h[x]) /\ g[x].s = h[x].s /\ x \in DOMAIN h
        BY <2>2, <1>3, <1>4, <1>9, BlockKinds DEF Jumps
      <3>2. Len(h[x].s) = 1 /\ h[h[x].s[1]].k \notin Jumps \cup Decls \cup {"Call"} /\ h[x].s \in Seq(DOMAIN h)
        BY <3>1, <1>2 DEF Shaped, ItemsKnown
      <3>3. h[x].s[1] \in Items(g, x)
        BY <3>1, <3>2 DEF Items, Range
      <3>4. h[x].s[1] \in DOMAIN g
        BY <3>3, <1>5
      <3> QED BY <3>1, <3>2, <3>4, <1>9, <2>2 DEF Simple
    <2> QED BY <2>1, <2>2
  <1>11. JumpsPlaced(h) => JumpsPlaced(g)
    <2> SUFFICES ASSUME JumpsPlaced(h), NEW x \in DOMAIN g, g[x].k \in Jumps
                 PROVE  \E c \in Blocks(g) : x \in Items(g, c)
      BY DEF JumpsPlaced
    <2>1. PICK c \in Blocks(h) : x \in Items(h, c)
      BY <1>3, <1>9 DEF JumpsPlaced
    <2>2. c \in DOMAIN h /\ IsBlock(h[c]) /\ c \in h[x].up
      BY <2>1, <1>2 DEF Blocks, ItemsBelow
    <2>3. c \in DOMAIN g
      BY <2>2, <1>3
    <2> QED BY <2>1, <2>2, <2>3, <1>3, <1>4, <1>5 DEF Blocks
  <1>12. Rooted(g, funcs)
    BY <1>3 DEF Rooted
  <1>13. \A x \in DOMAIN h \cap DOMAIN g : \A v : Declared(h, v, x) => Declared(g, v, x)
    <2> SUFFICES ASSUME NEW x \in DOMAIN h \cap DOMAIN g, NEW v, Declared(h, v, x)
                 PROVE  Declared(g, v, x)
      OBVIOUS
    <2>1. PICK c, d, y : /\ c \in h[x].up /\ IsBlock(h[c]) /\ Before(h[c].s, d, y) /\ (y = x \/ y \in h[x].up)
                                     /\ h[d].k \in Decls /\ h[d].n = v
      BY DeclaredBefore
    <2>2. c \in g[x].up /\ c \in DOMAIN g /\ c \in DOMAIN h
      BY <2>1, <1>2, <1>3 DEF UpKnown
    <2>3. d \in Items(h, c) /\ y \in Items(h, c) /\ y \notin gone
      BY <2>1, <1>3, BeforeItems
    <2>4. d \notin gone /\ d \in DOMAIN g
      BY <2>1, <2>2, <2>3, <1>2, <1>3, <1>8, ItemsInHeap
    <2>5. Before(g[c].s, d, y) /\ g[d].k \in Decls /\ g[d].n = v /\ IsBlock(g[c]) /\ (y = x \/ y \in g[x].up)
      BY <2>1, <2>2, <2>3, <2>4, <1>3, <1>4, <1>6, <1>9
    <2> QED BY <2>2, <2>5, DeclaredBefore
  <1>14. UsesFit(g, funcs)
    <2>1. ASSUME NEW x \in DOMAIN g, NEW v \in Uses(g[x]) PROVE v \in Uses(h[x])
      BY <1>3, <1>4 DEF Uses
    <2> QED BY <2>1, <1>3, <1>13, UsesKept
  <1>15. \A c \in Blocks(g) : c \in Blocks(h) /\ c \in DOMAIN g /\ Items(g, c) \subseteq Items(h, c) /\ Items(g, c) \subseteq DOMAIN g
    BY <1>3, <1>4, <1>5 DEF Blocks
  <1>16. HashedOnce(g)
    BY <1>3, <1>9 DEF HashedOnce
  <1>17. HashFollows(g, ds)
    <2> SUFFICES ASSUME NEW a \in Blocks(g), NEW d \in Items(g, a), g[d].k = "Decl", d \in ds
                 PROVE  \E c : Before(g[a].s, d, c) /\ g[c].k = "Call" /\ g[d].n \in g[c].e
      BY DEF HashFollows
    <2>1. d \in Items(h, a) /\ d \in DOMAIN g /\ a \in DOMAIN g /\ h[d].k = "Decl" /\ h[d].n = g[d].n
      BY <1>3, <1>9, <1>15
    <2>2. PICK c : Before(h[a].s, d, c) /\ h[c].k = "Call" /\ h[d].n \in h[c].e
      BY <2>1, <1>15 DEF HashFollows
    <2>3. c \in Items(h, a) /\ d \notin gone
      BY <2>1, <2>2, <1>3, BeforeItems
    <2>4. c \notin gone /\ c \in DOMAIN g
      BY <2>1, <2>2, <2>3, <1>5, <1>8
    <2> QED BY <2>1, <2>2, <2>3, <2>4, <1>3, <1>6, <1>9
  <1>18. CallsBelow(g, top)
    BY <1>3, <1>9 DEF CallsBelow
  <1> QED BY <1>1, <1>10, <1>11, <1>12, <1>14, <1>16, <1>17, <1>18

LEMMA CutJumps ==
    ASSUME NEW h, NEW b, NEW gone, NEW g, CutFrom(g, h, b, gone),
           NEW funcs, JumpsFit(h, funcs), \A x \in gone : h[x].k \notin Jumps
    PROVE  JumpsFit(g, funcs)
  <1>1. /\ DOMAIN g = DOMAIN h \ gone
        /\ \A x \in DOMAIN g : g[x].n = h[x].n /\ g[x].up = h[x].up
        /\ \A x \in DOMAIN g : (g[x].k \in Jumps \/ h[x].k \in Jumps) => g[x].k = h[x].k
    BY BlockKinds DEF CutFrom
  <1> SUFFICES ASSUME NEW f \in DOMAIN funcs, NEW x \in Below(g, funcs[f].body, {"Goto"})
               PROVE  \E y \in Below(g, funcs[f].body, {"Label"}) : g[y].n = g[x].n
    BY DEF JumpsFit, Names
  <1>2. x \in Below(h, funcs[f].body, {"Goto"}) /\ x \in DOMAIN g
    BY <1>1 DEF Below, Jumps
  <1>3. PICK y \in Below(h, funcs[f].body, {"Label"}) : h[y].n = h[x].n
    BY <1>2 DEF JumpsFit, Names
  <1>4. y \in DOMAIN g /\ g[y].k = "Label" /\ g[y].n = h[y].n /\ funcs[f].body \in g[y].up
    BY <1>1, <1>3 DEF Below, Jumps
  <1> QED BY <1>1, <1>2, <1>3, <1>4 DEF Below

-----------------------------------------------------------------------------
(* What is kept when labels and jumps are taken away.                      *)

LEMMA EmptyWithoutFirst ==
    ASSUME NEW S, NEW s \in Seq(S), 1 \notin DOMAIN s
    PROVE  s = <<>>
  OBVIOUS

LEMMA OneItem ==
    ASSUME NEW S, NEW s \in Seq(S), 1 \in DOMAIN s, 2 \notin DOMAIN s
    PROVE  Len(s) = 1
  <1>1. Len(s) \in Nat /\ DOMAIN s = 1..Len(s)
    BY LenProperties
  <1>2. 1 <= Len(s) /\ ~(2 <= Len(s))
    BY <1>1
  <1> QED BY <1>1, <1>2

LEMMA UnlabelledKinds ==
    ASSUME NEW h, NEW labels, NEW jumps, MayGo(h, labels, jumps),
           NEW g, UnlabelledFrom(g, h, labels, jumps), NEW x \in DOMAIN g
    PROVE  /\ x \in DOMAIN h /\ x \notin labels
           /\ g[x].k # "Empty" => x \notin jumps
           /\ x \notin jumps => g[x].k = h[x].k /\ g[x].n = h[x].n /\ g[x].e = h[x].e
           /\ h[x].k # "Goto" => x \notin jumps
           /\ IsBlock(g[x]) <=> IsBlock(h[x])
  <1>1. x \in DOMAIN h /\ x \notin labels
    BY DEF UnlabelledFrom
  <1>2. CASE x \in jumps
    BY <1>1, <1>2 DEF UnlabelledFrom, MayGo, IsBlock
  <1>3. CASE x \notin jumps
    BY <1>1, <1>3 DEF UnlabelledFrom, IsBlock
  <1> QED BY <1>1, <1>2, <1>3

LEMMA UnlabelledKeeps ==
    ASSUME NEW h, Forest(h), NEW labels, NEW jumps, MayGo(h, labels, jumps),
           NEW g, UnlabelledFrom(g, h, labels, jumps),
           Shaped(h), HashedOnce(h),
           NEW funcs, Rooted(h, funcs), UsesFit(h, funcs),
           NEW ds, HashFollows(h, ds), NEW top, CallsBelow(h, top)
    PROVE  /\ Forest(g) /\ Shaped(g) /\ HashedOnce(g)
           /\ Rooted(g, funcs) /\ UsesFit(g, funcs)
           /\ HashFollows(g, ds) /\ CallsBelow(g, top)
           /\ JumpsPlaced(h) => JumpsPlaced(g)
  <1>1. Forest(g)
    BY UnlabelledForest
  <1>2. ItemsKnown(h) /\ ItemsBelow(h) /\ UpKnown(h) /\ UpLinked(h)
    BY ForestParts
  <1>3. DOMAIN g = DOMAIN h \ labels /\ \A x \in DOMAIN g : g[x].up = h[x].up \ labels
    BY DEF UnlabelledFrom
  <1>4. \A x \in DOMAIN g : /\ x \in DOMAIN h /\ x \notin labels
                            /\ g[x].k # "Empty" => x \notin jumps
                            /\ x \notin jumps => g[x].k = h[x].k /\ g[x].n = h[x].n /\ g[x].e = h[x].e
                            /\ h[x].k # "Goto" => x \notin jumps
                            /\ IsBlock(g[x]) <=> IsBlock(h[x])
    BY UnlabelledKinds
  <1>5. \A x \in DOMAIN g : /\ Items(g, x) = {Rep(h, labels, y) : y \in Items(h, x)}
                            /\ \A y, z : Before(h[x].s, y, z) => Before(g[x].s, Rep(h, labels, y), Rep(h, labels, z))
                            /\ g[x].s \in Seq(DOMAIN g)
    BY UnlabelledItems
  <1>6. \A x \in labels : h[x].k = "Label"
    BY DEF MayGo
  <1>7. ASSUME NEW x \in DOMAIN g, NEW z \in Items(g, x), g[z].k \in Decls \cup {"Call"}
        PROVE  z \in Items(h, x) /\ g[z].k = h[z].k /\ g[z].n = h[z].n /\ g[z].e = h[z].e
    <2>1. PICK y \in Items(h, x) : z = Rep(h, labels, y)
      BY <1>5
    <2>2. /\ z \in DOMAIN h \ labels
          /\ y \in labels => h[z].k \notin Jumps \cup Decls \cup {"Call"}
      BY <2>1, <1>4, RepFacts
    <2>3. z \in DOMAIN g /\ g[z].k # "Empty"
      BY <2>2, <1>3, <1>7 DEF Decls
    <2>4. g[z].k = h[z].k /\ g[z].n = h[z].n /\ g[z].e = h[z].e
      BY <2>3, <1>4
    <2>5. y \notin labels
      BY <2>2, <2>4, <1>7
    <2> QED BY <2>1, <2>4, <2>5 DEF Rep
  <1>8. Shaped(g)
    <2> SUFFICES ASSUME NEW x \in DOMAIN g
                 PROVE  /\ g[x].k \in Simple => g[x].s = <<>>
                        /\ g[x].k = "Label" => /\ Len(g[x].s) = 1
                                               /\ g[g[x].s[1]].k \notin Jumps \cup Decls \cup {"Call"}
      BY DEF Shaped
    <2>1. CASE g[x].k \in Simple
      <3>1. x \notin jumps /\ g[x].k = h[x].k /\ x \in DOMAIN h
        BY <2>1, <1>4 DEF Simple
      <3>2. h[x].s = <<>>
        BY <3>1, <2>1 DEF Shaped
      <3>3. g[x].s = [j \in DOMAIN h[x].s |-> Rep(h, labels, h[x].s[j])]
        BY <3>1 DEF UnlabelledFrom
      <3>4. 1 \notin DOMAIN g[x].s
        BY <3>2, <3>3
      <3>5. g[x].s \in Seq(DOMAIN g)
        BY <1>5
      <3>6. g[x].s = <<>>
        BY <3>4, <3>5, EmptyWithoutFirst
      <3> QED BY <2>1, <3>6 DEF Simple
    <2>2. CASE g[x].k = "Label"
      <3>1. x \notin jumps /\ h[x].k = "Label" /\ x \in DOMAIN h
        BY <2>2, <1>4
      <3> DEFINE z == h[x].s[1]
      <3>2. Len(h[x].s) = 1 /\ h[z].k \notin Jumps \cup Decls \cup {"Call"} /\ h[x].s \in Seq(DOMAIN h)
        BY <3>1, <1>2 DEF Shaped, ItemsKnown
      <3>3. z \in Items(h, x) /\ DOMAIN h[x].s = 1..1
        BY <3>2 DEF Items, Range
      <3>4. z \in DOMAIN h
        BY <3>1, <3>3, <1>2, ItemsInHeap
      <3>5. z \notin labels /\ Rep(h, labels, z) = z
        BY <3>2, <1>6 DEF Jumps, Rep
      <3>6. z \in DOMAIN g /\ g[z].k = h[z].k
        BY <3>2, <3>4, <3>5, <1>3, <1>4 DEF Jumps
      <3>7. g[x].s = [j \in DOMAIN h[x].s |-> Rep(h, labels, h[x].s[j])]
        BY <3>1 DEF UnlabelledFrom
      <3>8. DOMAIN g[x].s = 1..1 /\ g[x].s[1] = z
        BY <3>3, <3>5, <3>7
      <3> HIDE DEF z
      <3>9. Len(g[x].s) = 1
        <4>1. g[x].s \in Seq(DOMAIN g) /\ 1 \in DOMAIN g[x].s /\ 2 \notin DOMAIN g[x].s
          BY <1>5, <3>8
        <4> QED BY <4>1, OneItem
      <3> QED BY <3>2, <3>6, <3>8, <3>9, <2>2 DEF Simple
    <2> QED BY <2>1, <2>2
  <1>9. JumpsPlaced(h) => JumpsPlaced(g)
    <2> SUFFICES ASSUME JumpsPlaced(h), NEW x \in DOMAIN g, g[x].k \in Jumps
                 PROVE  \E b \in Blocks(g) : x \in Items(g, b)
      BY DEF JumpsPlaced
    <2>1. x \in DOMAIN h /\ h[x].k \in Jumps /\ x \notin labels
      BY <1>4 DEF Jumps
    <2>2. PICK b \in Blocks(h) : x \in Items(h, b)
      BY <2>1 DEF JumpsPlaced
    <2>3. b \in DOMAIN g /\ b \in Blocks(g)
      BY <2>2, <1>3, <1>4, <1>6, BlockKinds DEF Blocks, Jumps
    <2>4. x = Rep(h, labels, x)
      BY <2>1 DEF Rep
    <2> QED BY <2>2, <2>3, <2>4, <1>5
  <1>10. Rooted(g, funcs)
    <2> SUFFICES ASSUME NEW f \in DOMAIN funcs
                 PROVE  funcs[f].body \in DOMAIN g /\ g[funcs[f].body].up = {}
      BY DEF Rooted
    <2>1. funcs[f].body \in DOMAIN h /\ h[funcs[f].body].up = {}
      BY DEF Rooted
    <2> QED BY <2>1, <1>3 DEF MayGo
  <1>11. \A x \in DOMAIN h \cap DOMAIN g : \A v : Declared(h, v, x) => Declared(g, v, x)
    <2> SUFFICES ASSUME NEW x \in DOMAIN h \cap DOMAIN g, NEW v, Declared(h, v, x)
                 PROVE  Declared(g, v, x)
      OBVIOUS
    <2>1. PICK c, d, y : /\ c \in h[x].up /\ IsBlock(h[c]) /\ Before(h[c].s, d, y) /\ (y = x \/ y \in h[x].up)
                         /\ h[d].k \in Decls /\ h[d].n = v
      BY DeclaredBefore
    <2>2. c \in DOMAIN h /\ c \notin labels /\ c \in DOMAIN g
      BY <2>1, <1>2, <1>3, <1>6, BlockKinds DEF UpKnown, Jumps
    <2>3. d \in Items(h, c) /\ y \in Items(h, c) /\ d \in DOMAIN h
      BY <2>1, <2>2, <1>2, BeforeItems, ItemsInHeap
    <2>4. d \notin labels /\ Rep(h, labels, d) = d /\ d \in DOMAIN g /\ g[d].k = h[d].k /\ g[d].n = h[d].n
      BY <2>1, <2>3, <1>3, <1>4, <1>6 DEF Decls, Rep
    <2>5. Before(g[c].s, d, Rep(h, labels, y))
      BY <2>1, <2>2, <2>4, <1>5
    <2>6. Rep(h, labels, y) = x \/ Rep(h, labels, y) \in g[x].up
      <3>1. CASE y \notin labels
        BY <3>1, <2>1, <1>3 DEF Rep
      <3>2. CASE y \in labels
        <4>1. y \in h[x].up
          BY <3>2, <2>1, <1>4
        <4>2. PICK z \in Items(h, y) : z = x \/ z \in h[x].up
          BY <4>1, <1>2 DEF UpLinked
        <4>3. z = Rep(h, labels, y)
          <5>1. Rep(h, labels, y) = h[y].s[1] /\ Len(h[y].s) = 1
            BY <3>2 DEF Rep, MayGo
          <5>2. y \in DOMAIN h /\ h[y].s \in Seq(DOMAIN h)
            BY <4>1, <1>2 DEF UpKnown, ItemsKnown
          <5>3. DOMAIN h[y].s = {1}
            BY <5>1, <5>2
          <5> QED BY <5>1, <5>3 DEF Items, Range
        <4>4. z \notin labels
          BY <4>3, <2>2, <2>3, RepFacts
        <4> QED BY <4>2, <4>3, <4>4, <1>3
      <3> QED BY <3>1, <3>2
    <2> QED BY <2>1, <2>2, <2>4, <2>5, <2>6, <1>3, <1>4, DeclaredBefore
  <1>12. UsesFit(g, funcs)
    <2>1. ASSUME NEW x \in DOMAIN g, NEW v \in Uses(g[x]) PROVE x \in DOMAIN h /\ v \in Uses(h[x])
      <3>1. x \notin jumps
        <4> SUFFICES ASSUME x \in jumps PROVE FALSE
          OBVIOUS
        <4>1. g[x].k = "Empty" /\ g[x].e = {}
          BY DEF UnlabelledFrom
        <4> QED BY <4>1, <2>1 DEF Uses
      <3> QED BY <3>1, <2>1, <1>4 DEF Uses
    <2> QED BY <2>1, <1>3, <1>11, UsesKept
  <1>13. HashedOnce(g)
    BY <1>4 DEF HashedOnce
  <1>14. HashFollows(g, ds)
    <2> SUFFICES ASSUME NEW a \in Blocks(g), NEW d \in Items(g, a), g[d].k = "Decl", d \in ds
                 PROVE  \E c : Before(g[a].s, d, c) /\ g[c].k = "Call" /\ g[d].n \in g[c].e
      BY DEF HashFollows
    <2>1. a \in DOMAIN g /\ a \in Blocks(h) /\ a \in DOMAIN h
      BY <1>4 DEF Blocks
    <2>2. d \in Items(h, a) /\ h[d].k = "Decl" /\ g[d].n = h[d].n
      BY <2>1, <1>7 DEF Decls
    <2>3. PICK c : Before(h[a].s, d, c) /\ h[c].k = "Call" /\ h[d].n \in h[c].e
      BY <2>1, <2>2 DEF HashFollows
    <2>4. c \in DOMAIN h /\ c \notin labels /\ d \notin labels
      BY <2>1, <2>2, <2>3, <1>2, <1>6, BeforeItems, ItemsInHeap
    <2>5. Rep(h, labels, c) = c /\ Rep(h, labels, d) = d /\ c \in DOMAIN g /\ g[c].k = "Call" /\ g[c].e = h[c].e
      BY <2>3, <2>4, <1>3, <1>4 DEF Rep
    <2>6. Before(g[a].s, d, c)
      BY <2>1, <2>3, <2>5, <1>5
    <2> QED BY <2>2, <2>3, <2>5, <2>6
  <1>15. CallsBelow(g, top)
    BY <1>4 DEF CallsBelow
  <1> QED BY <1>1, <1>8, <1>9, <1>10, <1>12, <1>13, <1>14, <1>15

\* With the labels of some names go all jumps to them.
LEMMA ReleasedMayGo ==
    ASSUME NEW h, Forest(h), Shaped(h), NEW names
    PROVE  LET labels == {x \in Released(h, names) : h[x].k = "Label"}
           IN  MayGo(h, labels, Released(h, names) \ labels)
  <1>1. \A x \in Released(h, names) : h[x].up # {}
    BY ForestParts DEF Released, Placed, Blocks, ItemsBelow, Items
  <1> QED BY <1>1 DEF Released, Placed, MayGo, Shaped, Jumps, Simple

LEMMA ReleasedJumps ==
    ASSUME NEW h, Shaped(h), JumpsPlaced(h), NEW names,
           NEW funcs, Rooted(h, funcs), JumpsFit(h, funcs), Forest(h)
    PROVE  LET g == Unlabelled(h, names)
           IN  /\ \A x \in DOMAIN g : g[x].k \in Jumps => h[x].k = g[x].k /\ h[x].n \notin names
               /\ JumpsFit(g, funcs)
  <1> DEFINE g == Unlabelled(h, names)
             labels == {x \in Released(h, names) : h[x].k = "Label"}
             jumps == Released(h, names) \ labels
  <1>1. UnlabelledFrom(g, h, labels, jumps) /\ MayGo(h, labels, jumps)
    BY UnlabelledFacts, ReleasedMayGo
  <1>2. \A x \in DOMAIN h : h[x].k \in Jumps /\ h[x].n \in names => x \in labels \cup jumps
    BY DEF Released, Placed, JumpsPlaced, Items
  <1>3. \A x \in labels : h[x].k = "Label" /\ h[x].n \in names
    BY DEF Released
  <1>4. \A x \in jumps : h[x].n \in names
    BY DEF Released
  <1> HIDE DEF g, labels, jumps
  <1>5. \A x \in DOMAIN g : /\ x \in DOMAIN h /\ x \notin labels
                            /\ g[x].k # "Empty" => x \notin jumps
                            /\ x \notin jumps => g[x].k = h[x].k /\ g[x].n = h[x].n
    BY <1>1, UnlabelledKinds
  <1>6. DOMAIN g = DOMAIN h \ labels /\ \A x \in DOMAIN g : g[x].up = h[x].up \ labels
    BY <1>1 DEF UnlabelledFrom
  <1>7. \A x \in DOMAIN g : g[x].k \in Jumps => h[x].k = g[x].k /\ g[x].n = h[x].n /\ h[x].n \notin names
    BY <1>2, <1>5 DEF Jumps
  <1>8. JumpsFit(g, funcs)
    <2> SUFFICES ASSUME NEW f \in DOMAIN funcs, NEW x \in Below(g, funcs[f].body, {"Goto"})
                 PROVE  \E y \in Below(g, funcs[f].body, {"Label"}) : g[y].n = g[x].n
      BY DEF JumpsFit, Names
    <2>1. x \in DOMAIN g /\ g[x].k = "Goto" /\ h[x].k = "Goto" /\ g[x].n = h[x].n /\ h[x].n \notin names
      BY <1>7 DEF Below, Jumps
    <2>2. x \in Below(h, funcs[f].body, {"Goto"})
      BY <2>1, <1>6 DEF Below
    <2>3. PICK y \in Below(h, funcs[f].body, {"Label"}) : h[y].n = h[x].n
      BY <2>2 DEF JumpsFit, Names
    <2>4. funcs[f].body \notin labels
      <3> SUFFICES ASSUME funcs[f].body \in labels PROVE FALSE
        OBVIOUS
      <3>1. funcs[f].body \in DOMAIN h /\ h[funcs[f].body].up = {}
        BY DEF Rooted
      <3>2. PICK b \in Blocks(h) : funcs[f].body \in Items(h, b)
        BY <3>1, <1>3 DEF JumpsPlaced, Jumps
      <3> QED BY <3>1, <3>2, ForestParts DEF ItemsBelow, Blocks
    <2>5. y \notin labels /\ y \notin jumps
      BY <2>1, <2>3, <1>3, <1>4
    <2>6. y \in DOMAIN g /\ g[y].k = "Label" /\ g[y].n = h[y].n /\ funcs[f].body \in g[y].up
      BY <2>3, <2>4, <2>5, <1>5, <1>6 DEF Below
    <2> QED BY <2>1, <2>3, <2>6 DEF Below
  <1> QED BY <1>7, <1>8 DEF g

-----------------------------------------------------------------------------
(* Heaps that grow.                                                        *)

\* g has all nodes of h, and some new ones between the statements of blocks.
Extends(g, h) ==
    /\ DOMAIN h \subseteq DOMAIN g
    /\ \A x \in DOMAIN h : /\ g[x].k = h[x].k /\ g[x].n = h[x].n /\ g[x].up = h[x].up
                           /\ g[x].e = h[x].e
                           /\ ~IsBlock(h[x]) => g[x].s = h[x].s
                           /\ Items(h, x) = Items(g, x) \cap DOMAIN h
                           /\ Len(g[x].s) >= Len(h[x].s)
                           /\ \A y, z : Before(h[x].s, y, z) => Before(g[x].s, y, z)

LEMMA ExtendsTransitive ==
    ASSUME NEW h, NEW g, NEW m, Forest(h), Forest(g), Forest(m), Extends(g, h), Extends(m, g)
    PROVE  Extends(m, h)
  <1> SUFFICES ASSUME NEW x \in DOMAIN h
               PROVE  /\ m[x].k = h[x].k /\ m[x].n = h[x].n /\ m[x].up = h[x].up
                      /\ m[x].e = h[x].e
                      /\ ~IsBlock(h[x]) => m[x].s = h[x].s
                      /\ Items(h, x) = Items(m, x) \cap DOMAIN h
                      /\ Len(m[x].s) >= Len(h[x].s)
                      /\ \A y, z : Before(h[x].s, y, z) => Before(m[x].s, y, z)
    BY DEF Extends
  <1>1. /\ x \in DOMAIN g /\ DOMAIN h \subseteq DOMAIN g
        /\ g[x].k = h[x].k /\ g[x].n = h[x].n /\ g[x].up = h[x].up
        /\ g[x].e = h[x].e
        /\ ~IsBlock(h[x]) => g[x].s = h[x].s
        /\ Items(h, x) = Items(g, x) \cap DOMAIN h
        /\ Len(g[x].s) >= Len(h[x].s)
        /\ \A y, z : Before(h[x].s, y, z) => Before(g[x].s, y, z)
    BY DEF Extends
  <1>2. /\ m[x].k = g[x].k /\ m[x].n = g[x].n /\ m[x].up = g[x].up
        /\ m[x].e = g[x].e
        /\ ~IsBlock(g[x]) => m[x].s = g[x].s
        /\ Items(g, x) = Items(m, x) \cap DOMAIN g
        /\ Len(m[x].s) >= Len(g[x].s)
        /\ \A y, z : Before(g[x].s, y, z) => Before(m[x].s, y, z)
    BY <1>1 DEF Extends
  <1>3. Len(m[x].s) \in Nat /\ Len(g[x].s) \in Nat /\ Len(h[x].s) \in Nat
    <2>1. ItemsKnown(h) /\ ItemsKnown(g) /\ ItemsKnown(m) /\ x \in DOMAIN m
      BY <1>1, ForestParts DEF Extends
    <2>2. h[x].s \in Seq(DOMAIN h) /\ g[x].s \in Seq(DOMAIN g) /\ m[x].s \in Seq(DOMAIN m)
      BY <1>1, <2>1 DEF ItemsKnown
    <2> QED BY <2>2, LenProperties
  <1>4. Len(m[x].s) >= Len(h[x].s)
    BY <1>1, <1>2, <1>3
  <1>5. ~IsBlock(h[x]) => m[x].s = h[x].s
    BY <1>1, <1>2 DEF IsBlock
  <1>6. Items(h, x) = Items(m, x) \cap DOMAIN h
    BY <1>1, <1>2
  <1> QED BY <1>1, <1>2, <1>4, <1>5, <1>6

LEMMA InsertedExtends ==
    ASSUME NEW h, Forest(h), NEW b \in Blocks(h), NEW list, IsList(list),
           DOMAIN h \cap DOMAIN list.nodes = {}, NEW g, InsertedFrom(g, h, b, list)
    PROVE  Extends(g, h) /\ Forest(g)
  <1>1. b \in DOMAIN h /\ IsBlock(h[b])
    BY DEF Blocks
  <1>2. Forest(g)
    BY <1>1, InsertedForest
  <1>3. ItemsKnown(h) /\ ItemsKnown(list.nodes)
    BY ForestParts DEF IsList
  <1>4. /\ DOMAIN h \subseteq DOMAIN g
        /\ \A x \in DOMAIN h : /\ g[x].k = h[x].k /\ g[x].n = h[x].n /\ g[x].e = h[x].e /\ g[x].up = h[x].up
                               /\ x # b => g[x].s = h[x].s
        /\ Len(g[b].s) >= Len(h[b].s)
        /\ Items(g, b) = Items(h, b) \cup Range(list.items)
        /\ \A x, y : Before(h[b].s, x, y) => Before(g[b].s, x, y)
    BY DEF InsertedFrom
  <1>5. Range(list.items) \cap DOMAIN h = {}
    BY DEF IsList, Range
  <1>6. \A x \in DOMAIN h : Items(h, x) \subseteq DOMAIN h /\ Len(h[x].s) >= Len(h[x].s)
    <2>1. \A x \in DOMAIN h : Len(h[x].s) \in Nat
      BY <1>3, LenProperties DEF ItemsKnown
    <2> QED BY <2>1, <1>3, ItemsInHeap
  <1>7. \A x \in DOMAIN h : Items(h, x) = Items(g, x) \cap DOMAIN h
    <2>1. \A x \in DOMAIN h \ {b} : Items(g, x) = Items(h, x)
      BY <1>4 DEF Items
    <2>2. Items(h, b) = Items(g, b) \cap DOMAIN h
      BY <1>1, <1>4, <1>5, <1>6
    <2> QED BY <2>1, <2>2, <1>6
  <1> QED BY <1>1, <1>2, <1>4, <1>6, <1>7 DEF Extends

LEMMA ExtendsDeclared ==
    ASSUME NEW h, Forest(h), NEW g, Extends(g, h), NEW x \in DOMAIN h, NEW v, Declared(h, v, x)
    PROVE  Declared(g, v, x)
  <1>1. PICK c, d, y : /\ c \in h[x].up /\ IsBlock(h[c]) /\ Before(h[c].s, d, y) /\ (y = x \/ y \in h[x].up)
                       /\ h[d].k \in Decls /\ h[d].n = v
    BY DeclaredBefore
  <1>2. c \in DOMAIN h
    BY <1>1, ForestParts DEF UpKnown
  <1>3. d \in DOMAIN h
    BY <1>1, <1>2, BeforeItems, ItemsInHeap, ForestParts
  <1>4. c \in g[x].up /\ IsBlock(g[c]) /\ Before(g[c].s, d, y) /\ (y = x \/ y \in g[x].up) /\ g[d].k \in Decls /\ g[d].n = v
    BY <1>1, <1>2, <1>3 DEF Extends, IsBlock
  <1> QED BY <1>4, DeclaredBefore

LEMMA ExtendsKeeps ==
    ASSUME NEW h, Forest(h), NEW g, Extends(g, h), NEW funcs, Shaped(h), Rooted(h, funcs),
           \A x \in DOMAIN g \ DOMAIN h :
               /\ g[x].k \in Simple => g[x].s = <<>>
               /\ g[x].k = "Label" => Len(g[x].s) = 1 /\ g[g[x].s[1]].k \notin Jumps \cup Decls \cup {"Call"}
    PROVE  Shaped(g) /\ Rooted(g, funcs)
  <1>1. /\ DOMAIN h \subseteq DOMAIN g
        /\ \A x \in DOMAIN h : /\ g[x].k = h[x].k /\ g[x].n = h[x].n /\ g[x].up = h[x].up
                               /\ ~IsBlock(h[x]) => g[x].s = h[x].s
    BY DEF Extends
  <1>2. ItemsKnown(h)
    BY ForestParts
  <1>3. Shaped(g)
    <2> SUFFICES ASSUME NEW x \in DOMAIN g, x \in DOMAIN h
                 PROVE  /\ g[x].k \in Simple => g[x].s = <<>>
                        /\ g[x].k = "Label" => /\ Len(g[x].s) = 1
                                               /\ g[g[x].s[1]].k \notin Jumps \cup Decls \cup {"Call"}
      BY DEF Shaped
    <2>1. CASE g[x].k \in Simple
      BY <2>1, <1>1, BlockKinds DEF Shaped, Simple
    <2>2. CASE g[x].k = "Label"
      <3>1. h[x].k = "Label" /\ g[x].s = h[x].s
        BY <2>2, <1>1, BlockKinds DEF Jumps
      <3>2. Len(h[x].s) = 1 /\ h[h[x].s[1]].k \notin Jumps \cup Decls \cup {"Call"} /\ h[x].s \in Seq(DOMAIN h)
        BY <3>1, <1>2 DEF Shaped, ItemsKnown
      <3>3. h[x].s[1] \in DOMAIN h
        BY <3>2
      <3> QED BY <2>2, <3>1, <3>2, <3>3, <1>1 DEF Simple
    <2> QED BY <2>1, <2>2
  <1>4. Rooted(g, funcs)
    BY <1>1 DEF Rooted
  <1> QED BY <1>3, <1>4

\* New jumps are statements of blocks, and have new labels in the same places.
LEMMA ExtendsJumps ==
    ASSUME NEW h, Forest(h), NEW g, Extends(g, h), NEW funcs, JumpsKept(h, funcs),
           \A x \in DOMAIN g \ DOMAIN h : g[x].k \in Jumps => \E b \in Blocks(g) : x \in Items(g, b),
           \A x \in DOMAIN g \ DOMAIN h : g[x].k = "Goto" =>
               \E y \in DOMAIN g : /\ g[y].k = "Label" /\ g[y].n = g[x].n
                                   /\ \A f \in DOMAIN funcs : funcs[f].body \in g[x].up => funcs[f].body \in g[y].up
    PROVE  JumpsKept(g, funcs)
  <1>1. /\ DOMAIN h \subseteq DOMAIN g
        /\ \A x \in DOMAIN h : /\ g[x].k = h[x].k /\ g[x].n = h[x].n /\ g[x].up = h[x].up
                               /\ Items(h, x) \subseteq Items(g, x)
    BY DEF Extends
  <1>2. JumpsPlaced(g)
    <2> SUFFICES ASSUME NEW x \in DOMAIN g, g[x].k \in Jumps, x \in DOMAIN h
                 PROVE  \E c \in Blocks(g) : x \in Items(g, c)
      BY DEF JumpsPlaced
    <2>1. x \in DOMAIN h /\ h[x].k \in Jumps
      BY <1>1
    <2>2. PICK c \in Blocks(h) : x \in Items(h, c)
      BY <2>1 DEF JumpsKept, JumpsPlaced
    <2> QED BY <2>2, <1>1 DEF Blocks, IsBlock
  <1>3. JumpsFit(g, funcs)
    <2> SUFFICES ASSUME NEW f \in DOMAIN funcs, NEW x \in Below(g, funcs[f].body, {"Goto"})
                 PROVE  \E y \in Below(g, funcs[f].body, {"Label"}) : g[y].n = g[x].n
      BY DEF JumpsFit, Names
    <2>1. CASE x \in DOMAIN h
      <3>1. x \in Below(h, funcs[f].body, {"Goto"}) /\ g[x].n = h[x].n
        BY <2>1, <1>1 DEF Below
      <3>2. PICK y \in Below(h, funcs[f].body, {"Label"}) : h[y].n = h[x].n
        BY <3>1 DEF JumpsKept, JumpsFit, Names
      <3> QED BY <3>1, <3>2, <1>1 DEF Below
    <2>2. CASE x \notin DOMAIN h
      BY <2>2 DEF Below
    <2> QED BY <2>1, <2>2
  <1> QED BY <1>2, <1>3 DEF JumpsKept

\* The hashes of a grown heap, when the new ones are of other names.
LEMMA ExtendsHashes ==
    ASSUME NEW h, Forest(h), NEW g, Extends(g, h), Forest(g), HashedOnce(h),
           NEW old, HashFollows(h, old), NEW ds,
           \A c \in DOMAIN g \ DOMAIN h : \A d \in DOMAIN g :
               g[c].k = "Call" /\ g[d].k = "Call" /\ g[c].e \cap g[d].e # {} => c = d,
           \A b \in Blocks(g) : \A d \in Items(g, b) :
               d \in ds /\ ~(d \in old /\ d \in DOMAIN h) /\ g[d].k = "Decl" =>
                   \E c : Before(g[b].s, d, c) /\ g[c].k = "Call" /\ g[d].n \in g[c].e
    PROVE  HashedOnce(g) /\ HashFollows(g, ds)
  <1>1. /\ DOMAIN h \subseteq DOMAIN g
        /\ \A x \in DOMAIN h : /\ g[x].k = h[x].k /\ g[x].n = h[x].n /\ g[x].up = h[x].up
                               /\ g[x].e = h[x].e
                               /\ Items(h, x) = Items(g, x) \cap DOMAIN h
                               /\ \A y, z : Before(h[x].s, y, z) => Before(g[x].s, y, z)
    BY DEF Extends
  <1>2. HashedOnce(g)
    <2> SUFFICES ASSUME NEW c \in DOMAIN g, NEW d \in DOMAIN g,
                        g[c].k = "Call", g[d].k = "Call", g[c].e \cap g[d].e # {}
                 PROVE  c = d
      BY DEF HashedOnce
    <2>1. CASE c \in DOMAIN h /\ d \in DOMAIN h
      BY <2>1, <1>1 DEF HashedOnce
    <2>2. CASE c \notin DOMAIN h
      BY <2>2
    <2>3. CASE d \notin DOMAIN h
      BY <2>3
    <2> QED BY <2>1, <2>2, <2>3
  <1>3. HashFollows(g, ds)
    <2> SUFFICES ASSUME NEW b \in Blocks(g), NEW d \in Items(g, b), g[d].k = "Decl", d \in ds,
                        d \in DOMAIN h, d \in old
                 PROVE  \E c : Before(g[b].s, d, c) /\ g[c].k = "Call" /\ g[d].n \in g[c].e
      BY DEF HashFollows
    <2>1. b \in DOMAIN g /\ IsBlock(g[b]) /\ b \in g[d].up
      BY ForestParts DEF Blocks, ItemsBelow
    <2>2. b \in DOMAIN h
      BY <2>1, <1>1, ForestParts DEF UpKnown
    <2>3. b \in Blocks(h) /\ d \in Items(h, b) /\ h[d].k = "Decl" /\ h[d].n = g[d].n
      BY <2>1, <2>2, <1>1 DEF Blocks, IsBlock
    <2>4. PICK c : Before(h[b].s, d, c) /\ h[c].k = "Call" /\ h[d].n \in h[c].e
      BY <2>3 DEF HashFollows
    <2>5. c \in DOMAIN h
      BY <2>2, <2>4, BeforeItems, ItemsInHeap, ForestParts
    <2> QED BY <2>2, <2>3, <2>4, <2>5, <1>1
  <1> QED BY <1>2, <1>3

-----------------------------------------------------------------------------
(* The lists that are inserted.                                            *)

\* The numbers of a set, in increasing order.
LEMMA ListedFacts ==
    ASSUME NEW a \in Int, NEW b \in Int, NEW S \in SUBSET (a..b)
    PROVE  LET r == Listed(S)
           IN  /\ r \in Seq(S) /\ IsInjective(r) /\ Range(r) = S
               /\ \A x, y \in S : x < y => Before(r, x, y)
  <1> DEFINE n == Cardinality(S)
             UpTo(x) == {y \in S : y <= x}
             rank == [x \in S |-> Cardinality(UpTo(x))]
             r == Listed(S)
  <1>1. IsFiniteSet(S) /\ n \in Nat
    BY FS_Interval, FS_Subset, FS_CardinalityType
  <1>2. r = [k \in 1..n |-> CHOOSE x \in S : Cardinality(UpTo(x)) = k]
    BY DEF Listed
  <1>3. \A x \in S : /\ UpTo(x) \subseteq S /\ x \in UpTo(x) /\ x \in Int
                     /\ \A y \in S : x < y => UpTo(x) \subseteq UpTo(y) /\ y \notin UpTo(x)
    <2>1. \A x \in S : x \in Int
      OBVIOUS
    <2>2. ASSUME NEW x \in S, NEW y \in S, x < y PROVE UpTo(x) \subseteq UpTo(y) /\ y \notin UpTo(x)
      <3>1. x \in Int /\ y \in Int /\ ~(y <= x)
        BY <2>1, <2>2
      <3>2. ASSUME NEW z \in UpTo(x) PROVE z \in S /\ z <= y
        BY <2>1, <2>2, <3>1
      <3> QED BY <3>1, <3>2
    <2>3. \A x \in S : UpTo(x) \subseteq S /\ x \in UpTo(x)
      BY <2>1
    <2> QED BY <2>1, <2>2, <2>3
  <1> HIDE DEF n, UpTo, r
  <1>4. \A x \in S : IsFiniteSet(UpTo(x)) /\ Cardinality(UpTo(x)) \in 1..n
    <2> SUFFICES ASSUME NEW x \in S PROVE IsFiniteSet(UpTo(x)) /\ Cardinality(UpTo(x)) \in 1..n
      OBVIOUS
    <2>1. IsFiniteSet(UpTo(x)) /\ Cardinality(UpTo(x)) <= n
      BY <1>1, <1>3, FS_Subset DEF n
    <2>2. Cardinality(UpTo(x)) \in Nat /\ Cardinality(UpTo(x)) # 0
      BY <2>1, <1>3, FS_CardinalityType, FS_EmptySet
    <2> QED BY <2>1, <2>2, <1>1
  <1>5. \A x, y \in S : x < y => Cardinality(UpTo(x)) < Cardinality(UpTo(y))
    <2> SUFFICES ASSUME NEW x \in S, NEW y \in S, x < y PROVE Cardinality(UpTo(x)) < Cardinality(UpTo(y))
      OBVIOUS
    <2>1. UpTo(x) \in SUBSET UpTo(y) /\ UpTo(x) # UpTo(y)
      BY <1>3
    <2>2. Cardinality(UpTo(x)) <= Cardinality(UpTo(y)) /\ Cardinality(UpTo(x)) # Cardinality(UpTo(y))
      BY <2>1, <1>4, FS_Subset
    <2> QED BY <2>2, <1>1, <1>4
  <1>6. \A x, y \in S : Cardinality(UpTo(x)) = Cardinality(UpTo(y)) => x = y
    <2> SUFFICES ASSUME NEW x \in S, NEW y \in S, Cardinality(UpTo(x)) = Cardinality(UpTo(y)) PROVE x = y
      OBVIOUS
    <2>1. ~(x < y) /\ ~(y < x)
      BY <1>1, <1>4, <1>5
    <2> QED BY <2>1, <1>3
  <1>7. \A k \in 1..n : \E x \in S : Cardinality(UpTo(x)) = k
    <2>1. rank \in [S -> 1..n] /\ \A x, y \in S : rank[x] = rank[y] => x = y
      BY <1>4, <1>6
    <2>2. rank \in Injection(S, 1..n)
      BY <2>1 DEF Injection, IsInjective
    <2>3. IsFiniteSet(1..n) /\ Cardinality(1..n) = n
      BY <1>1, FS_Interval
    <2>4. rank \in Surjection(S, 1..n)
      BY <2>2, <2>3, <1>1, FS_Injection DEF n
    <2> QED BY <2>4 DEF Surjection
  <1>8. \A k \in 1..n : r[k] \in S /\ Cardinality(UpTo(r[k])) = k
    BY <1>2, <1>7
  <1>9. \A x \in S : Cardinality(UpTo(x)) \in 1..n /\ r[Cardinality(UpTo(x))] = x
    BY <1>4, <1>6, <1>8
  <1>10. DOMAIN r = 1..n /\ r \in [1..n -> S]
    BY <1>2, <1>8
  <1>11. r \in Seq(S)
    BY <1>1, <1>10, SeqDef
  <1>12. IsInjective(r)
    BY <1>8, <1>10 DEF IsInjective
  <1>13. Range(r) = S
    BY <1>8, <1>9, <1>10 DEF Range
  <1>14. \A x, y \in S : x < y => Before(r, x, y)
    BY <1>5, <1>9, <1>10 DEF Before
  <1> QED BY <1>11, <1>12, <1>13, <1>14 DEF r

LEMMA ReverseItems ==
    ASSUME NEW S, NEW s \in Seq(S), IsInjective(s)
    PROVE  LET r == Reverse(s)
           IN  /\ r \in Seq(S) /\ IsInjective(r) /\ Range(r) = Range(s)
               /\ \A x, y : Before(s, x, y) => Before(r, y, x)
  <1> DEFINE r == Reverse(s)
             n == Len(s)
  <1>1. n \in Nat /\ DOMAIN s = 1..n /\ \A i \in 1..n : s[i] \in S
    BY LenProperties
  <1>0. r = [i \in 1..n |-> s[(n - i) + 1]]
    BY DEF Reverse
  <1> HIDE DEF r, n
  <1>2. DOMAIN r = 1..n /\ \A i \in 1..n : r[i] = s[(n - i) + 1]
    BY <1>0
  <1>3. \A i \in 1..n : (n - i) + 1 \in 1..n /\ r[(n - i) + 1] = s[i]
    <2> SUFFICES ASSUME NEW i \in 1..n PROVE (n - i) + 1 \in 1..n /\ r[(n - i) + 1] = s[i]
      OBVIOUS
    <2>1. (n - i) + 1 \in 1..n /\ (n - ((n - i) + 1)) + 1 = i
      BY <1>1
    <2> QED BY <2>1, <1>2
  <1>4. \A i \in 1..n : r[i] \in S
    BY <1>1, <1>2, <1>3
  <1>5. r \in Seq(S)
    <2>1. r \in [1..n -> S]
      <3>1. r = [i \in 1..n |-> r[i]]
        BY <1>0, <1>2
      <3> QED BY <3>1, <1>4
    <2> QED BY <2>1, <1>1, SeqDef
  <1>6. IsInjective(r)
    <2> SUFFICES ASSUME NEW i \in 1..n, NEW j \in 1..n, r[i] = r[j] PROVE i = j
      BY <1>2 DEF IsInjective
    <2>1. s[(n - i) + 1] = s[(n - j) + 1] /\ (n - i) + 1 \in 1..n /\ (n - j) + 1 \in 1..n
      BY <1>2, <1>3
    <2>2. (n - i) + 1 = (n - j) + 1
      BY <2>1, <1>1 DEF IsInjective
    <2> QED BY <2>2, <1>1
  <1>7. Range(r) = Range(s)
    <2>1. \A i \in 1..n : \E j \in 1..n : r[i] = s[j]
      BY <1>2, <1>3
    <2>2. \A i \in 1..n : \E j \in 1..n : s[i] = r[j]
      BY <1>3
    <2>3. Range(s) = {s[i] : i \in 1..n} /\ Range(r) = {r[i] : i \in 1..n}
      BY <1>1, <1>2 DEF Range
    <2> QED BY <2>1, <2>2, <2>3
  <1>8. ASSUME NEW x, NEW y, Before(s, x, y) PROVE Before(r, y, x)
    <2>1. PICK i, j \in 1..n : i < j /\ s[i] = x /\ s[j] = y
      BY <1>1, <1>8 DEF Before
    <2>2. (n - j) + 1 < (n - i) + 1
      BY <2>1, <1>1
    <2> QED BY <2>1, <2>2, <1>2, <1>3 DEF Before
  <1> QED BY <1>5, <1>6, <1>7, <1>8 DEF r

LEMMA FlatList ==
    ASSUME NEW list, list.items \in Seq(DOMAIN list.nodes), IsInjective(list.items),
           Range(list.items) = DOMAIN list.nodes,
           \A x \in DOMAIN list.nodes : list.nodes[x].s = <<>> /\ list.nodes[x].up = {}
    PROVE  IsList(list)
  <1>1. \A x \in DOMAIN list.nodes : /\ list.nodes[x].s \in Seq(DOMAIN list.nodes)
                                     /\ IsInjective(list.nodes[x].s)
                                     /\ Range(list.nodes[x].s) = {}
    <2>1. /\ <<>> \in Seq(DOMAIN list.nodes) /\ IsInjective(<<>>) /\ Range(<<>>) = {}
      BY DEF IsInjective, Range
    <2> QED BY <2>1
  <1>2. Forest(list.nodes)
    BY <1>1 DEF Forest
  <1> QED BY <1>2 DEF IsList

LEMMA AppendItems ==
    ASSUME NEW S, NEW s \in Seq(S), NEW a \in S, IsInjective(s), a \notin Range(s)
    PROVE  LET r == Append(s, a)
           IN  /\ r \in Seq(S) /\ IsInjective(r) /\ Range(r) = Range(s) \cup {a}
               /\ \A x, y : Before(s, x, y) => Before(r, x, y)
               /\ \A x \in Range(s) : Before(r, x, a)
  <1> DEFINE r == Append(s, a)
  <1>1. /\ r \in Seq(S) /\ Len(s) \in Nat /\ DOMAIN s = 1..Len(s) /\ DOMAIN r = 1..(Len(s) + 1)
        /\ \A i \in 1..Len(s) : r[i] = s[i]
        /\ r[Len(s) + 1] = a
    OBVIOUS
  <1> HIDE DEF r
  <1>2. Range(r) = Range(s) \cup {a}
    BY <1>1 DEF Range
  <1>3. IsInjective(r)
    BY <1>1 DEF IsInjective, Range
  <1>4. ASSUME NEW x, NEW y, Before(s, x, y) PROVE Before(r, x, y)
    <2>1. PICK i, j \in DOMAIN s : i < j /\ s[i] = x /\ s[j] = y
      BY <1>4 DEF Before
    <2> QED BY <2>1, <1>1 DEF Before
  <1>5. ASSUME NEW x \in Range(s) PROVE Before(r, x, a)
    <2>1. PICK i \in DOMAIN s : s[i] = x
      BY DEF Range
    <2>2. i \in DOMAIN r /\ Len(s) + 1 \in DOMAIN r /\ i < Len(s) + 1
      BY <2>1, <1>1
    <2> QED BY <2>1, <2>2, <1>1 DEF Before
  <1> QED BY <1>1, <1>2, <1>3, <1>4, <1>5 DEF r

\* The declarations of the new variables V, in the order they end up in.
InitList(V, to) == [items |-> Reverse(InitStmts(V, to).items), nodes |-> InitStmts(V, to).nodes]

\* They declare V and what the pointers in V point to, and use nothing before.
Declares(list, V) ==
    /\ IsList(list) /\ Range(list.items) = DOMAIN list.nodes
    /\ V \subseteq DOMAIN list.nodes /\ DOMAIN list.nodes \subseteq V \cup {x + 1 : x \in V}
    /\ \A x \in DOMAIN list.nodes :
          /\ list.nodes[x].k \in {"Decl", "PtrDecl"} /\ list.nodes[x].n = x
          /\ list.nodes[x].s = <<>> /\ list.nodes[x].up = {}
          /\ \A u \in list.nodes[x].e :
                u \in Globals \/ \E d : /\ Before(list.items, d, x) /\ list.nodes[d].k \in Decls
                                        /\ list.nodes[d].n = u

LEMMA InitFacts ==
    ASSUME NEW a \in Int, NEW b \in Int, NEW V \in SUBSET (a..b), NEW to \in Targets(V)
    PROVE  Declares(InitList(V, to), V)
  <1> DEFINE list == InitList(V, to)
             declared == V \cup {x + 1 : x \in {y \in V : to[y] = {y + 1}}}
             s == Listed(declared)
             m == list.nodes
  <1>1. list.items = Reverse(s)
    BY DEF InitList, InitStmts
  <1>2. m = [x \in declared |-> IF x \in V \ Plain(V, to) THEN Leaf("PtrDecl", x, to[x]) ELSE Leaf("Decl", x, {})]
    BY DEF InitList, InitStmts
  <1>3. declared \in SUBSET (a..(b + 1)) /\ V \subseteq declared /\ declared \subseteq V \cup {x + 1 : x \in V}
    <2>1. \A x \in V : x \in Int /\ a <= x /\ x <= b
      OBVIOUS
    <2>2. \A x \in V : x \in a..(b + 1) /\ x + 1 \in a..(b + 1)
      BY <2>1
    <2> QED BY <2>2
  <1>4. \A x \in V : /\ x \in Int /\ x < x + 1
                     /\ to[x] = {x + 1} => x + 1 \in declared
                     /\ to[x] = {} \/ to[x] = {x + 1} \/ to[x] \subseteq Globals
    <2>1. \A x \in V : x \in Int
      OBVIOUS
    <2>2. \A x \in V : to[x] \in {{}, {x + 1}} \cup {{g} : g \in Globals}
      BY DEF Targets
    <2> QED BY <2>1, <2>2
  <1> HIDE DEF declared, list, m
  <1>5. s \in Seq(declared) /\ IsInjective(s) /\ Range(s) = declared /\ \A x, y \in declared : x < y => Before(s, x, y)
    <2>1. a \in Int /\ b + 1 \in Int
      OBVIOUS
    <2> QED BY <2>1, <1>3, ListedFacts
  <1> HIDE DEF s
  <1>6. /\ list.items \in Seq(declared) /\ IsInjective(list.items) /\ Range(list.items) = declared
        /\ \A x, y \in declared : x < y => Before(list.items, y, x)
    BY <1>1, <1>5, ReverseItems
  <1>7. DOMAIN m = declared
    BY <1>2
  <1>8. ASSUME NEW x \in declared
        PROVE  /\ m[x].k \in {"Decl", "PtrDecl"} /\ m[x].n = x /\ m[x].s = <<>> /\ m[x].up = {}
               /\ m[x].e = {} \/ (x \in V /\ m[x].e = to[x])
    <2>1. m[x] = IF x \in V \ Plain(V, to) THEN Leaf("PtrDecl", x, to[x]) ELSE Leaf("Decl", x, {})
      BY <1>2, <1>7
    <2> QED BY <2>1 DEF Leaf, Node
  <1>9. ASSUME NEW x \in declared, NEW u \in m[x].e, u \notin Globals
        PROVE  \E d : Before(list.items, d, x) /\ m[d].k \in Decls /\ m[d].n = u
    <2>1. x \in V /\ to[x] = {x + 1} /\ u = x + 1
      <3>1. x \in V /\ m[x].e = to[x]
        BY <1>8, <1>9
      <3>2. u \in to[x] /\ ~(to[x] \subseteq Globals)
        BY <3>1, <1>9
      <3>3. to[x] = {} \/ to[x] = {x + 1} \/ to[x] \subseteq Globals
        BY <3>1, <1>4
      <3> QED BY <3>1, <3>2, <3>3
    <2>2. u \in declared /\ x < u
      BY <2>1, <1>4
    <2>3. Before(list.items, u, x)
      BY <2>2, <1>6
    <2>4. m[u].k \in Decls /\ m[u].n = u
      BY <2>2, <1>8 DEF Decls
    <2> QED BY <2>3, <2>4
  <1>10. IsList(list)
    <2>1. list.items \in Seq(DOMAIN list.nodes) /\ Range(list.items) = DOMAIN list.nodes
      BY <1>6, <1>7 DEF m
    <2>2. \A x \in DOMAIN list.nodes : list.nodes[x].s = <<>> /\ list.nodes[x].up = {}
      BY <1>7, <1>8 DEF m
    <2> QED BY <2>1, <2>2, <1>6, FlatList
  <1>11. \A x \in DOMAIN m : /\ m[x].k \in {"Decl", "PtrDecl"} /\ m[x].n = x /\ m[x].s = <<>> /\ m[x].up = {}
                             /\ \A u \in m[x].e :
                                   u \in Globals \/ \E d : Before(list.items, d, x) /\ m[d].k \in Decls /\ m[d].n = u
    BY <1>7, <1>8, <1>9
  <1> QED BY <1>3, <1>6, <1>7, <1>10, <1>11 DEF Declares, m, list

\* The hashes of the plain variables in V.
LEMMA NewHashesFacts ==
    ASSUME NEW a \in Int, NEW b \in Int, NEW V \in SUBSET (a..b), NEW to
    PROVE  LET list == NewHashes(V, to)
           IN  /\ IsList(list) /\ Range(list.items) = DOMAIN list.nodes
               /\ DOMAIN list.nodes = {x + 2 : x \in Plain(V, to)}
               /\ \A x \in DOMAIN list.nodes : /\ x - 2 \in Plain(V, to) /\ list.nodes[x].k = "Call"
                                               /\ list.nodes[x].e = {x - 2} /\ list.nodes[x].s = <<>>
  <1> DEFINE list == NewHashes(V, to)
             P == Plain(V, to)
             hashes == {x + 2 : x \in P}
  <1>1. list.items = Listed(hashes) /\ list.nodes = [x \in hashes |-> Leaf("Call", 0, {x - 2})]
    BY DEF NewHashes
  <1>2. \A x \in P : x \in Int /\ a <= x /\ x <= b
    <2>1. P \subseteq V
      BY DEF Plain
    <2> HIDE DEF P
    <2>2. \A x \in V : x \in Int /\ a <= x /\ x <= b
      OBVIOUS
    <2> QED BY <2>1, <2>2
  <1> HIDE DEF list, P
  <1>3. hashes \in SUBSET (a..(b + 2)) /\ \A x \in hashes : x - 2 \in P
    BY <1>2
  <1> HIDE DEF hashes
  <1>4. list.items \in Seq(hashes) /\ IsInjective(list.items) /\ Range(list.items) = hashes
    <2>1. a \in Int /\ b + 2 \in Int
      OBVIOUS
    <2> QED BY <2>1, <1>1, <1>3, ListedFacts
  <1>5. DOMAIN list.nodes = hashes
    BY <1>1
  <1>6. ASSUME NEW x \in hashes
        PROVE  /\ list.nodes[x].k = "Call" /\ list.nodes[x].e = {x - 2}
               /\ list.nodes[x].s = <<>> /\ list.nodes[x].up = {}
    <2>1. list.nodes[x] = Leaf("Call", 0, {x - 2})
      BY <1>1
    <2> QED BY <2>1 DEF Leaf, Node
  <1>7. IsList(list)
    BY <1>4, <1>5, <1>6, FlatList
  <1> QED BY <1>3, <1>4, <1>5, <1>6, <1>7 DEF list, P, hashes

\* The declarations of a new variable and the return of it.
ReturnList(v, to) ==
    LET inits == InitStmts({v}, to)
    IN  [items |-> Append(Reverse(inits.items), v + 2),
         nodes |-> [x \in DOMAIN inits.nodes \cup {v + 2} |->
                       IF x = v + 2 THEN Leaf("Return", 0, {v}) ELSE inits.nodes[x]]]

LEMMA ReturnFacts ==
    ASSUME NEW v \in Int, NEW to \in Targets({v})
    PROVE  LET list == ReturnList(v, to)
           IN  /\ IsList(list) /\ DOMAIN list.nodes \subseteq {v, v + 1, v + 2}
               /\ \A x \in DOMAIN list.nodes :
                     /\ list.nodes[x].k \in {"Decl", "PtrDecl", "Return"} /\ list.nodes[x].s = <<>>
                     /\ list.nodes[x].k # "Return" => list.nodes[x].n = x
                     /\ \A u \in list.nodes[x].e :
                           u \in Globals \/ \E d : /\ Before(list.items, d, x) /\ list.nodes[d].k \in Decls
                                                   /\ list.nodes[d].n = u
  <1> DEFINE old == InitList({v}, to)
             list == ReturnList(v, to)
  <1>1. Declares(old, {v})
    <2>1. {v} \in SUBSET (v..v)
      OBVIOUS
    <2> QED BY <2>1, InitFacts
  <1>2. /\ IsList(old) /\ Range(old.items) = DOMAIN old.nodes
        /\ v \in DOMAIN old.nodes /\ DOMAIN old.nodes \subseteq {v, v + 1}
        /\ \A x \in DOMAIN old.nodes :
              /\ old.nodes[x].k \in {"Decl", "PtrDecl"} /\ old.nodes[x].n = x
              /\ old.nodes[x].s = <<>> /\ old.nodes[x].up = {}
              /\ \A u \in old.nodes[x].e :
                    u \in Globals \/ \E d : Before(old.items, d, x) /\ old.nodes[d].k \in Decls /\ old.nodes[d].n = u
    <2>1. {v} \cup {x + 1 : x \in {v}} = {v, v + 1}
      OBVIOUS
    <2> HIDE DEF old
    <2> QED BY <2>1, <1>1 DEF Declares
  <1>3. /\ list.items = Append(old.items, v + 2)
        /\ list.nodes = [x \in DOMAIN old.nodes \cup {v + 2} |->
                            IF x = v + 2 THEN Leaf("Return", 0, {v}) ELSE old.nodes[x]]
    BY DEF InitList, ReturnList
  <1> HIDE DEF old, list
  <1>4. v + 2 \notin DOMAIN old.nodes
    BY <1>2
  <1>5. /\ DOMAIN list.nodes = DOMAIN old.nodes \cup {v + 2}
        /\ list.nodes[v + 2] = Leaf("Return", 0, {v})
        /\ \A x \in DOMAIN old.nodes : list.nodes[x] = old.nodes[x]
    BY <1>3, <1>4
  <1>6. /\ list.nodes[v + 2].k = "Return" /\ list.nodes[v + 2].e = {v}
        /\ list.nodes[v + 2].s = <<>> /\ list.nodes[v + 2].up = {}
    BY <1>5 DEF Leaf, Node
  <1>7. /\ list.items \in Seq(DOMAIN list.nodes) /\ IsInjective(list.items)
        /\ Range(list.items) = DOMAIN list.nodes
        /\ \A x, y : Before(old.items, x, y) => Before(list.items, x, y)
        /\ \A x \in Range(old.items) : Before(list.items, x, v + 2)
    <2>1. /\ old.items \in Seq(DOMAIN list.nodes) /\ IsInjective(old.items)
          /\ v + 2 \in DOMAIN list.nodes /\ v + 2 \notin Range(old.items)
      <3>1. old.items \in Seq(DOMAIN old.nodes) /\ IsInjective(old.items)
        BY <1>2 DEF IsList
      <3> QED BY <3>1, <1>2, <1>4, <1>5, SeqMonotonic
    <2> QED BY <2>1, <1>2, <1>3, <1>5, AppendItems
  <1>8. IsList(list)
    <2>1. \A x \in DOMAIN list.nodes : list.nodes[x].s = <<>> /\ list.nodes[x].up = {}
      BY <1>2, <1>5, <1>6
    <2> QED BY <2>1, <1>7, FlatList
  <1>9. \A x \in DOMAIN list.nodes : \A u \in list.nodes[x].e :
            u \in Globals \/ \E d : Before(list.items, d, x) /\ list.nodes[d].k \in Decls /\ list.nodes[d].n = u
    <2> SUFFICES ASSUME NEW x \in DOMAIN list.nodes, NEW u \in list.nodes[x].e, u \notin Globals
                 PROVE  \E d : Before(list.items, d, x) /\ list.nodes[d].k \in Decls /\ list.nodes[d].n = u
      OBVIOUS
    <2>1. CASE x = v + 2
      <3>1. Before(list.items, v, x)
        BY <2>1, <1>2, <1>7
      <3>2. list.nodes[v].k \in Decls /\ list.nodes[v].n = v
        BY <1>2, <1>5 DEF Decls
      <3>3. u = v
        BY <2>1, <1>6
      <3> QED BY <3>1, <3>2, <3>3
    <2>2. CASE x \in DOMAIN old.nodes
      <3>1. PICK d : Before(old.items, d, x) /\ old.nodes[d].k \in Decls /\ old.nodes[d].n = u
        BY <2>2, <1>2, <1>5
      <3>2. d \in DOMAIN old.nodes
        BY <3>1, <1>2 DEF Before, Range
      <3> QED BY <3>1, <3>2, <1>5, <1>7
    <2> QED BY <2>1, <2>2, <1>5
  <1>10. DOMAIN list.nodes \subseteq {v, v + 1, v + 2}
    BY <1>2, <1>5
  <1> QED BY <1>2, <1>5, <1>6, <1>8, <1>9, <1>10 DEF list

\* A snippet of new variables, at its new addresses.
LEMMA RenamedFacts ==
    ASSUME NEW snippet, IsSnippet(snippet), NEW v \in Int, NEW base \in Int
    PROVE  LET list == Renamed(snippet, v, base)
           IN  /\ IsList(list)
               /\ \A x \in DOMAIN list.nodes :
                     /\ x \in Int /\ base < x /\ x < base + SnippetTop
                     /\ list.nodes[x].k # "Call"
                     /\ list.nodes[x].k \in Simple => list.nodes[x].s = <<>>
                     /\ list.nodes[x].k = "Label" =>
                           /\ Len(list.nodes[x].s) = 1
                           /\ list.nodes[list.nodes[x].s[1]].k \notin Jumps \cup Decls \cup {"Call"}
                     /\ \A u \in Uses(list.nodes[x]) :
                           u \in NewVariables(v, snippet.vars) \cup Globals \/ Declared(list.nodes, u, x)
               /\ IsTame(snippet.nodes) => IsTame(list.nodes)
  <1> DEFINE m == snippet.nodes
             list == Renamed(snippet, v, base)
             n == list.nodes
             D == DOMAIN m
             V == NewVariables(v, snippet.vars)
             Sh(y) == base + y
             New(name) == IF name \in Undeclared(snippet) THEN v - 3 * name ELSE name
             Moved(s) == [j \in DOMAIN s |-> Sh(s[j])]
  <1>1. /\ Forest(m) /\ D \subseteq 1..(SnippetTop - 1) /\ SnippetTop \in Nat
        /\ snippet.items \in Seq(D) /\ IsInjective(snippet.items)
        /\ \A y \in Range(snippet.items) : m[y].up = {}
        /\ \A y \in D : \E z \in Range(snippet.items) : z = y \/ z \in m[y].up
        /\ \A y \in D : /\ m[y].k # "Call"
                        /\ \A w \in Uses(m[y]) : w \in Undeclared(snippet) \cup Globals \/ Declared(m, w, y)
                        /\ m[y].k \in Simple => m[y].s = <<>>
                        /\ m[y].k = "Label" => Len(m[y].s) = 1 /\ m[m[y].s[1]].k \notin Jumps \cup Decls
    BY BoundsAssumption DEF IsSnippet, IsList
  <1>a. \A w \in Undeclared(snippet) : New(w) \in V
    <2> SUFFICES ASSUME NEW w \in Undeclared(snippet) PROVE v - 3 * w \in V
      OBVIOUS
    <2>1. snippet.vars \in Nat
      BY DEF IsSnippet
    <2>2. PICK i \in 0..snippet.vars - 1 : w = -i
      BY DEF Undeclared
    <2>3. v - 3 * w = v + 3 * i
      BY <2>1, <2>2
    <2> QED BY <2>3 DEF NewVariables
  <1> HIDE DEF V
  <1>2. ItemsKnown(m) /\ ItemsBelow(m) /\ UpKnown(m) /\ UpNested(m) /\ UpLinked(m) /\ UpChain(m)
    BY <1>1, ForestParts
  <1>3. /\ \A y, z \in D : Sh(y) = Sh(z) => y = z
        /\ \A y \in D : Sh(y) \in Int /\ base < Sh(y) /\ Sh(y) < base + SnippetTop /\ Sh(y) - base = y
    BY <1>1
  <1>4. /\ list.items = Moved(snippet.items)
        /\ n = [x \in {Sh(y) : y \in D} |->
                  Node(m[x - base].k, IF m[x - base].k = "Assignment" THEN New(m[x - base].n) ELSE m[x - base].n,
                       {New(name) : name \in m[x - base].e}, Moved(m[x - base].s), {Sh(y) : y \in m[x - base].up})]
    BY DEF Renamed
  <1> HIDE DEF n
  <1>5. DOMAIN n = {Sh(y) : y \in D}
    BY <1>4
  <1>6. ASSUME NEW y \in D
        PROVE  /\ n[Sh(y)].k = m[y].k
               /\ n[Sh(y)].n = IF m[y].k = "Assignment" THEN New(m[y].n) ELSE m[y].n
               /\ n[Sh(y)].e = {New(name) : name \in m[y].e}
               /\ n[Sh(y)].s = Moved(m[y].s)
               /\ n[Sh(y)].up = {Sh(z) : z \in m[y].up}
    <2> HIDE DEF Moved, New
    <2>1. Sh(y) \in DOMAIN n /\ Sh(y) - base = y
      BY <1>3, <1>5
    <2> DEFINE t == n[Sh(y)]
    <2>2. t = Node(m[y].k, IF m[y].k = "Assignment" THEN New(m[y].n) ELSE m[y].n,
                         {New(name) : name \in m[y].e}, Moved(m[y].s), {Sh(z) : z \in m[y].up})
      <3> HIDE DEF m, D, Sh
      <3> QED BY <2>1, <1>4, <1>5
    <2> HIDE DEF t, m, Sh, D
    <2>3. /\ t.k = m[y].k
          /\ t.n = IF m[y].k = "Assignment" THEN New(m[y].n) ELSE m[y].n
          /\ t.e = {New(name) : name \in m[y].e}
          /\ t.s = Moved(m[y].s)
          /\ t.up = {Sh(z) : z \in m[y].up}
      BY <2>2 DEF Node
    <2> QED BY <2>3 DEF t
  <1>7. ASSUME NEW s \in Seq(D), IsInjective(s)
        PROVE  /\ Moved(s) \in Seq(DOMAIN n) /\ IsInjective(Moved(s))
               /\ Range(Moved(s)) = {Sh(y) : y \in Range(s)}
    <2> DEFINE r == Moved(s)
    <2>1. DOMAIN r = DOMAIN s /\ \A j \in DOMAIN s : r[j] = Sh(s[j]) /\ s[j] \in D
      BY <1>7
    <2>2. Len(s) \in Nat /\ DOMAIN s = 1..Len(s)
      BY LenProperties
    <2>3. r \in [1..Len(s) -> DOMAIN n]
      BY <2>2, <1>5
    <2> HIDE DEF r, Sh, D
    <2>4. r \in Seq(DOMAIN n)
      BY <2>2, <2>3, SeqDef
    <2>5. IsInjective(r)
      BY <2>1, <1>3, <1>7 DEF IsInjective
    <2>6. Range(r) = {Sh(y) : y \in Range(s)}
      BY <2>1 DEF Range
    <2> QED BY <2>4, <2>5, <2>6 DEF r
  <1> HIDE DEF Moved, Sh
  <1>8. \A y \in D : Items(n, Sh(y)) = {Sh(z) : z \in Items(m, y)} /\ Items(m, y) \subseteq D /\ m[y].up \subseteq D
    BY <1>2, <1>6, <1>7, ItemsInHeap DEF ItemsKnown, Items, UpKnown
  <1>b. ASSUME NEW c \in D, NEW y, NEW z, Before(m[c].s, y, z) PROVE Before(n[Sh(c)].s, Sh(y), Sh(z))
    <2>1. DOMAIN Moved(m[c].s) = DOMAIN m[c].s /\ \A j \in DOMAIN m[c].s : Moved(m[c].s)[j] = Sh(m[c].s[j])
      BY DEF Moved
    <2>2. n[Sh(c)].s = Moved(m[c].s)
      BY <1>6
    <2>3. PICK i, j \in DOMAIN m[c].s : i < j /\ m[c].s[i] = y /\ m[c].s[j] = z
      BY <1>b DEF Before
    <2> HIDE DEF m, D
    <2> QED BY <2>1, <2>2, <2>3 DEF Before
  <1>9. Forest(n)
    <2>1. ItemsKnown(n)
      <3> SUFFICES ASSUME NEW y \in D PROVE n[Sh(y)].s \in Seq(DOMAIN n) /\ IsInjective(n[Sh(y)].s)
        BY <1>5 DEF ItemsKnown
      <3>1. m[y].s \in Seq(D) /\ IsInjective(m[y].s)
        BY <1>2 DEF ItemsKnown
      <3> QED BY <3>1, <1>6, <1>7
    <2> HIDE DEF m, D, New
    <2>2. ItemsBelow(n)
      <3> SUFFICES ASSUME NEW y \in D, NEW z \in Items(m, y)
                   PROVE  n[Sh(z)].up = n[Sh(y)].up \cup {Sh(y)}
        BY <1>5, <1>8 DEF ItemsBelow
      <3>1. z \in D /\ m[z].up = m[y].up \cup {y}
        BY <1>2, <1>8 DEF ItemsBelow, D
      <3> QED BY <3>1, <1>6
    <2>3. UpKnown(n)
      <3> SUFFICES ASSUME NEW y \in D PROVE n[Sh(y)].up \subseteq DOMAIN n /\ Sh(y) \notin n[Sh(y)].up
        BY <1>5 DEF UpKnown
      <3>1. m[y].up \subseteq D /\ y \notin m[y].up
        BY <1>2 DEF UpKnown, D
      <3> QED BY <3>1, <1>3, <1>5, <1>6
    <2>4. UpNested(n)
      <3> SUFFICES ASSUME NEW y \in D, NEW a \in m[y].up PROVE n[Sh(a)].up \subseteq n[Sh(y)].up
        BY <1>5, <1>6 DEF UpNested
      <3>1. a \in D /\ m[a].up \subseteq m[y].up
        BY <1>2, <1>8 DEF UpNested, D
      <3> QED BY <3>1, <1>6
    <2>5. UpLinked(n)
      <3> SUFFICES ASSUME NEW y \in D, NEW a \in m[y].up
                   PROVE  \E z \in Items(n, Sh(a)) : z = Sh(y) \/ z \in n[Sh(y)].up
        BY <1>5, <1>6 DEF UpLinked
      <3>1. PICK z \in Items(m, a) : z = y \/ z \in m[y].up
        BY <1>2 DEF UpLinked, D
      <3>2. a \in D /\ Sh(z) \in Items(n, Sh(a))
        BY <1>8
      <3> QED BY <3>1, <3>2, <1>6
    <2>6. UpChain(n)
      <3> SUFFICES ASSUME NEW y \in D, NEW a \in m[y].up, NEW c \in m[y].up
                   PROVE  Sh(a) = Sh(c) \/ Sh(a) \in n[Sh(c)].up \/ Sh(c) \in n[Sh(a)].up
        BY <1>5, <1>6 DEF UpChain
      <3>1. a \in D /\ c \in D /\ (a = c \/ a \in m[c].up \/ c \in m[a].up)
        BY <1>2, <1>8 DEF UpChain, D
      <3> QED BY <3>1, <1>6
    <2> QED BY <2>1, <2>2, <2>3, <2>4, <2>5, <2>6, ForestParts
  <1>10. IsList(list)
    <2>1. /\ list.items \in Seq(DOMAIN n) /\ IsInjective(list.items)
          /\ Range(list.items) = {Sh(y) : y \in Range(snippet.items)}
      <3> DEFINE s == snippet.items
      <3>1. s \in Seq(D) /\ IsInjective(s) /\ list.items = Moved(s)
        BY <1>1, <1>4
      <3> HIDE DEF s, D, list
      <3>2. /\ Moved(s) \in Seq(DOMAIN n) /\ IsInjective(Moved(s))
            /\ Range(Moved(s)) = {Sh(y) : y \in Range(s)}
        BY <3>1, <1>7
      <3> QED BY <3>1, <3>2 DEF s
    <2>2. Range(snippet.items) \subseteq D
      BY <1>1 DEF Range
    <2> HIDE DEF list, m, D
    <2>3. \A x \in Range(list.items) : n[x].up = {}
      <3> SUFFICES ASSUME NEW y \in Range(snippet.items) PROVE n[Sh(y)].up = {}
        BY <2>1
      <3>1. y \in D /\ m[y].up = {}
        BY <2>2, <1>1
      <3> QED BY <3>1, <1>6
    <2>4. \A x \in DOMAIN n : \E y \in Range(list.items) : y = x \/ y \in n[x].up
      <3> SUFFICES ASSUME NEW y \in D PROVE \E z \in Range(list.items) : z = Sh(y) \/ z \in n[Sh(y)].up
        BY <1>5
      <3>1. PICK z \in Range(snippet.items) : z = y \/ z \in m[y].up
        BY <1>1
      <3>2. Sh(z) \in Range(list.items)
        BY <2>1
      <3>3. Sh(z) = Sh(y) \/ Sh(z) \in n[Sh(y)].up
        BY <3>1, <1>6
      <3> QED BY <3>2, <3>3
    <2> QED BY <2>1, <2>3, <2>4, <1>9 DEF IsList, n
  <1>11. ASSUME NEW x \in DOMAIN n
         PROVE  /\ x \in Int /\ base < x /\ x < base + SnippetTop
                /\ n[x].k # "Call"
                /\ n[x].k \in Simple => n[x].s = <<>>
                /\ n[x].k = "Label" => Len(n[x].s) = 1 /\ n[n[x].s[1]].k \notin Jumps \cup Decls \cup {"Call"}
                /\ \A u \in Uses(n[x]) : u \in V \cup Globals \/ Declared(n, u, x)
    <2>1. PICK y \in D : x = Sh(y)
      BY <1>5
    <2>2. n[x].k = m[y].k /\ n[x].k # "Call"
      BY <2>1, <1>1, <1>6
    <2>3. n[x].k \in Simple => n[x].s = <<>>
      <3>1. m[y].s = <<>> => n[x].s = <<>>
        <4> SUFFICES ASSUME m[y].s = <<>> PROVE n[x].s = <<>>
          OBVIOUS
        <4>1. n[x].s \in Seq(DOMAIN n)
          BY <1>9, ForestParts DEF ItemsKnown
        <4>2. 1 \notin DOMAIN n[x].s
          <5>1. n[x].s = Moved(m[y].s)
            BY <2>1, <1>6
          <5>2. DOMAIN Moved(m[y].s) = DOMAIN m[y].s
            BY DEF Moved
          <5>3. 1 \notin DOMAIN m[y].s
            OBVIOUS
          <5> QED BY <5>1, <5>2, <5>3
        <4> QED BY <4>1, <4>2, EmptyWithoutFirst
      <3> QED BY <3>1, <2>2, <1>1
    <2>4. n[x].k = "Label" => Len(n[x].s) = 1 /\ n[n[x].s[1]].k \notin Jumps \cup Decls \cup {"Call"}
      <3> SUFFICES ASSUME n[x].k = "Label"
                   PROVE  Len(n[x].s) = 1 /\ n[n[x].s[1]].k \notin Jumps \cup Decls \cup {"Call"}
        OBVIOUS
      <3>1. m[y].k = "Label" /\ Len(m[y].s) = 1 /\ m[m[y].s[1]].k \notin Jumps \cup Decls
        BY <2>2, <1>1
      <3>2. m[y].s \in Seq(D) /\ n[x].s \in Seq(DOMAIN n)
        BY <1>2, <1>9, ForestParts DEF ItemsKnown
      <3>3. n[x].s = Moved(m[y].s) /\ DOMAIN Moved(m[y].s) = DOMAIN m[y].s
            /\ \A j \in DOMAIN m[y].s : Moved(m[y].s)[j] = Sh(m[y].s[j])
        BY <2>1, <1>6 DEF Moved
      <3> HIDE DEF m, D
      <3>4. DOMAIN m[y].s = 1..1 /\ m[y].s[1] \in D
        BY <3>1, <3>2
      <3>5. n[x].s[1] = Sh(m[y].s[1]) /\ DOMAIN n[x].s = 1..1
        BY <3>3, <3>4
      <3>6. Len(n[x].s) = 1
        <4> DEFINE l == Len(n[x].s)
        <4>1. l \in Nat /\ DOMAIN n[x].s = 1..l
          BY <3>2, LenProperties
        <4> HIDE DEF l
        <4>2. 1..l = 1..1
          BY <3>5, <4>1
        <4>3. 1 \in 1..l /\ (l >= 1 => l \in 1..1)
          BY <4>1, <4>2
        <4>4. l = 1
          BY <4>1, <4>3
        <4> QED BY <4>4 DEF l
      <3>7. n[n[x].s[1]].k = m[m[y].s[1]].k /\ m[m[y].s[1]].k # "Call"
        BY <3>4, <3>5, <1>1, <1>6
      <3> QED BY <3>1, <3>6, <3>7
    <2>5. ASSUME NEW u \in Uses(n[x]) PROVE u \in V \cup Globals \/ Declared(n, u, x)
      <3>1. ~IsBlock(m[y])
        BY <2>2, <2>5 DEF Uses, IsBlock
      <3>2. PICK w \in Uses(m[y]) : u = New(w)
        <4> HIDE DEF m, D, New
        <4>1. u \in n[x].e \/ (n[x].k = "Assignment" /\ u = n[x].n)
          BY <2>5 DEF Uses
        <4>2. CASE u \in n[x].e
          <5>1. PICK w \in m[y].e : u = New(w)
            BY <4>2, <2>1, <1>6
          <5> QED BY <5>1, <3>1 DEF Uses
        <4>3. CASE n[x].k = "Assignment" /\ u = n[x].n
          <5>1. m[y].k = "Assignment" /\ u = New(m[y].n)
            BY <4>3, <2>1, <2>2, <1>6
          <5> QED BY <5>1, <3>1 DEF Uses
        <4> QED BY <4>1, <4>2, <4>3
      <3>3. CASE w \in Undeclared(snippet)
        BY <3>2, <3>3, <1>a
      <3>4. CASE w \notin Undeclared(snippet)
        <4>1. u = w /\ (w \in Globals \/ Declared(m, w, y))
          BY <3>2, <3>4, <1>1
        <4>2. ASSUME Declared(m, w, y) PROVE Declared(n, w, x)
          <5>1. PICK c, d, z : /\ c \in m[y].up /\ IsBlock(m[c]) /\ Before(m[c].s, d, z) /\ (z = y \/ z \in m[y].up)
                               /\ m[d].k \in Decls /\ m[d].n = w
            BY <4>2, DeclaredBefore
          <5>2. c \in D
            BY <5>1, <1>8
          <5>3. d \in D
            BY <5>1, <5>2, <1>8, BeforeItems
          <5> HIDE DEF m, D
          <5>4. /\ Sh(c) \in n[x].up /\ IsBlock(n[Sh(c)]) /\ Before(n[Sh(c)].s, Sh(d), Sh(z))
                /\ Sh(z) = x \/ Sh(z) \in n[x].up
            BY <5>1, <5>2, <2>1, <1>6, <1>b DEF IsBlock
          <5>5. n[Sh(d)].k \in Decls /\ n[Sh(d)].n = w
            BY <5>1, <5>3, <1>6 DEF Decls
          <5> QED BY <5>4, <5>5, DeclaredBefore
        <4> QED BY <4>1, <4>2
      <3> QED BY <3>3, <3>4
    <2> QED BY <2>1, <2>2, <2>3, <2>4, <2>5, <1>3
  <1>12. ASSUME IsTame(m) PROVE IsTame(n)
    <2> HIDE DEF m, D, New
    <2>1. ASSUME NEW y \in Placed(m, Jumps)
          PROVE  Sh(y) \in Placed(n, {m[y].k}) /\ n[Sh(y)].n = m[y].n
      <3>1. y \in D /\ m[y].k \in Jumps
        BY DEF Placed, D
      <3>2. PICK c \in Blocks(m) : y \in Items(m, c)
        BY DEF Placed, Items
      <3>3. c \in D /\ IsBlock(m[c])
        BY DEF Blocks, D
      <3>4. Sh(c) \in DOMAIN n /\ IsBlock(n[Sh(c)]) /\ Sh(y) \in DOMAIN n /\ Sh(y) \in Items(n, Sh(c))
        BY <3>1, <3>2, <3>3, <1>5, <1>6, <1>8 DEF IsBlock
      <3>5. n[Sh(y)].k = m[y].k /\ n[Sh(y)].n = m[y].n
        BY <3>1, <1>6 DEF Jumps
      <3> QED BY <3>1, <3>4, <3>5 DEF Placed, Blocks, Items
    <2>2. \A y \in DOMAIN m : m[y].k \in Jumps => y \in Placed(m, Jumps)
      BY <1>12 DEF IsTame
    <2>3. ASSUME NEW x \in DOMAIN n, n[x].k \in Jumps
          PROVE  \E y \in Placed(m, Jumps) : x = Sh(y) /\ n[x].k = m[y].k /\ n[x].n = m[y].n
      <3>1. PICK y \in D : x = Sh(y)
        BY <1>5
      <3>2. n[x].k = m[y].k
        BY <3>1, <1>6
      <3> QED BY <3>1, <3>2, <2>1, <2>2, <2>3 DEF D
    <2>4. ASSUME NEW x \in DOMAIN n, n[x].k \in Jumps PROVE x \in Placed(n, Jumps)
      <3>1. PICK y \in Placed(m, Jumps) : x = Sh(y) /\ n[x].k = m[y].k
        BY <2>3, <2>4
      <3>2. x \in Placed(n, {m[y].k}) /\ m[y].k \in Jumps
        BY <3>1, <2>1, <2>4
      <3> QED BY <3>2 DEF Placed
    <2>5. ASSUME NEW x \in Placed(n, {"Goto"})
          PROVE  \E z \in Placed(n, {"Label"}) : n[z].n = n[x].n
      <3>1. x \in DOMAIN n /\ n[x].k = "Goto" /\ "Goto" \in Jumps
        BY DEF Placed, Jumps
      <3>2. PICK y \in Placed(m, Jumps) : x = Sh(y) /\ n[x].k = m[y].k /\ n[x].n = m[y].n
        BY <3>1, <2>3
      <3>3. y \in Placed(m, {"Goto"})
        BY <3>1, <3>2 DEF Placed
      <3>4. PICK z \in Placed(m, {"Label"}) : m[z].n = m[y].n
        BY <3>3, <1>12 DEF IsTame, Names
      <3>5. z \in Placed(m, Jumps) /\ m[z].k = "Label"
        BY DEF Placed, Jumps
      <3>6. Sh(z) \in Placed(n, {"Label"}) /\ n[Sh(z)].n = m[z].n
        BY <3>5, <2>1
      <3> QED BY <3>2, <3>4, <3>6
    <2> QED BY <2>4, <2>5 DEF IsTame, Names
  <1> QED BY <1>10, <1>11, <1>12 DEF n, V, m

-----------------------------------------------------------------------------
(* The invariant.                                                          *)

Kept(h, funcs) == Forest(h) /\ Shaped(h) /\ Rooted(h, funcs) /\ UsesFit(h, funcs)

HashesKept(h, ds, top) ==
    /\ HashedOnce(h) /\ HashFollows(h, ds) /\ CallsBelow(h, top)
    /\ ds \subseteq IntsBelow(top) /\ DOMAIN h \subseteq IntsBelow(top)

\* Behind a hashed declaration comes a statement with its hash, and no
\* return before that.
HashSeen(h, ds) ==
    \A b \in Blocks(h) : \A d \in Items(h, b) \cap ds :
        \E i : /\ Before(h[b].s, d, i) /\ h[i].k # "Return"
               /\ \E c \in Tree(h, i) : h[c].k = "Call" /\ h[d].n \in h[c].e
               /\ \A x : Before(h[b].s, x, i) => h[x].k # "Return"

LocalKinds == {"Decl", "ArrayDecl"}

\* The blocks P await their hashes: there is none yet of their variables,
\* and each variable is declared once.
Awaiting(h, P, ds) ==
    /\ \A b \in P : /\ b \in DOMAIN h /\ h[b].k = "Compound"
                    /\ \A j \in DOMAIN h[b].s : h[h[b].s[j]].k = "Return" => j = Len(h[b].s)
                    /\ \A d \in Items(h, b) :
                          /\ d \notin ds
                          /\ h[d].k \in LocalKinds =>
                                /\ h[d].n \in IntsBelow(FirstFresh)
                                /\ \A c \in DOMAIN h : h[c].k = "Call" => h[d].n \notin h[c].e
    /\ \A x, y \in DOMAIN h : h[x].k \in LocalKinds /\ h[y].k \in LocalKinds /\ h[x].n = h[y].n => x = y

IInv ==
    /\ pc \in {"parsed", "ready", "raised"} /\ mutations \in Nat /\ fresh \in Int /\ fresh >= FirstFresh
    /\ program \in Seq(Range(program))
    /\ pc = "parsed" =>
          /\ IsSeed([funcs |-> program, nodes |-> nodes])
          /\ hashed = {} /\ pending = {} /\ mutations = 0 /\ tame
    /\ pc # "parsed" =>
          /\ Kept(nodes, program) /\ HashesKept(nodes, hashed, fresh)
          /\ tame => JumpsKept(nodes, program)
          /\ pending # {} => Awaiting(nodes, pending, hashed)
          /\ mutations = 0 => HashSeen(nodes, hashed)
    /\ pc = "raised" => ~tame

-----------------------------------------------------------------------------
(* Insertions.                                                             *)

\* What Inserted adds; nothing, to a block that has no list of items.
LEMMA InsertedOne ==
    ASSUME NEW h, Forest(h), NEW b \in Blocks(h), NEW list, IsList(list),
           DOMAIN h \cap DOMAIN list.nodes = {}, NEW idx \in 0..Len(h[b].s)
    PROVE  LET g == Inserted(h, b, idx, list)
           IN  /\ Forest(g) /\ Extends(g, h)
               /\ \A x \in DOMAIN g \ DOMAIN h :
                     /\ x \in DOMAIN list.nodes /\ g[x].k = list.nodes[x].k /\ g[x].n = list.nodes[x].n
                     /\ g[x].e = list.nodes[x].e /\ g[x].s = list.nodes[x].s
                     /\ g[x].up = list.nodes[x].up \cup h[b].up \cup {b}
               /\ h[b].k # "NoItems" => InsertedFrom(g, h, b, list)
               /\ h[b].k # "NoItems" /\ idx = 0 => \A x \in Range(list.items), y \in Items(h, b) : Before(g[b].s, x, y)
  <1> DEFINE g == Inserted(h, b, idx, list)
  <1>1. CASE h[b].k = "NoItems"
    <2>1. g = h
      BY <1>1 DEF Inserted
    <2> HIDE DEF g
    <2>2. \A x \in DOMAIN h : Items(h, x) \subseteq DOMAIN h /\ Len(h[x].s) >= Len(h[x].s)
      <3>1. \A x \in DOMAIN h : Len(h[x].s) \in Nat
        BY ForestParts, LenProperties DEF ItemsKnown
      <3> QED BY <3>1, ForestParts, ItemsInHeap
    <2>3. Extends(g, h)
      BY <2>1, <2>2 DEF Extends
    <2> QED BY <1>1, <2>1, <2>3 DEF g
  <1>2. CASE h[b].k # "NoItems"
    <2>1. /\ InsertedFrom(g, h, b, list)
          /\ idx = 0 => \A x \in Range(list.items), y \in Items(h, b) : Before(g[b].s, x, y)
      BY <1>2, InsertedFacts
    <2> HIDE DEF g
    <2>2. Extends(g, h) /\ Forest(g)
      BY <2>1, InsertedExtends
    <2>3. \A x \in DOMAIN g \ DOMAIN h :
             /\ x \in DOMAIN list.nodes /\ g[x].k = list.nodes[x].k /\ g[x].n = list.nodes[x].n
             /\ g[x].e = list.nodes[x].e /\ g[x].s = list.nodes[x].s
             /\ g[x].up = list.nodes[x].up \cup h[b].up \cup {b}
      BY <2>1 DEF InsertedFrom
    <2> QED BY <2>1, <2>2, <2>3 DEF g
  <1> QED BY <1>1, <1>2

\* A return of a new variable, with its declarations.
LEMMA ReturnKeeps ==
    ASSUME NEW h, NEW funcs, Kept(h, funcs), NEW ds, NEW v \in Int, HashesKept(h, ds, v),
           NEW b \in Blocks(h), NEW idx \in 0..Len(h[b].s), NEW to \in Targets({v})
    PROVE  LET g == Inserted(h, b, idx, ReturnList(v, to))
           IN  /\ Kept(g, funcs) /\ HashesKept(g, ds, v + 3)
               /\ JumpsKept(h, funcs) => JumpsKept(g, funcs)
  <1> DEFINE list == ReturnList(v, to)
             g == Inserted(h, b, idx, list)
  <1>1. /\ IsList(list) /\ DOMAIN list.nodes \subseteq {v, v + 1, v + 2}
        /\ \A x \in DOMAIN list.nodes :
              /\ list.nodes[x].k \in {"Decl", "PtrDecl", "Return"} /\ list.nodes[x].s = <<>>
              /\ list.nodes[x].k # "Return" => list.nodes[x].n = x
              /\ \A u \in list.nodes[x].e :
                    u \in Globals \/ \E d : /\ Before(list.items, d, x) /\ list.nodes[d].k \in Decls
                                            /\ list.nodes[d].n = u
    BY ReturnFacts
  <1> HIDE DEF list
  <1>2. /\ Forest(h) /\ Shaped(h) /\ Rooted(h, funcs) /\ UsesFit(h, funcs)
        /\ HashedOnce(h) /\ HashFollows(h, ds) /\ CallsBelow(h, v)
        /\ ds \subseteq IntsBelow(v) /\ DOMAIN h \subseteq IntsBelow(v)
    BY DEF Kept, HashesKept
  <1>3. DOMAIN h \cap DOMAIN list.nodes = {}
    BY <1>1, <1>2 DEF IntsBelow
  <1>4. /\ Forest(g) /\ Extends(g, h)
        /\ \A x \in DOMAIN g \ DOMAIN h :
              /\ x \in DOMAIN list.nodes /\ g[x].k = list.nodes[x].k /\ g[x].n = list.nodes[x].n
              /\ g[x].e = list.nodes[x].e /\ g[x].s = list.nodes[x].s
              /\ g[x].up = list.nodes[x].up \cup h[b].up \cup {b}
        /\ h[b].k # "NoItems" => InsertedFrom(g, h, b, list)
    BY <1>1, <1>2, <1>3, InsertedOne
  <1>5. h[b].k = "NoItems" => DOMAIN g \subseteq DOMAIN h
    BY DEF Inserted
  <1> HIDE DEF g
  <1>6. \A x \in DOMAIN g \ DOMAIN h : /\ x \in {v, v + 1, v + 2} /\ g[x].k \in {"Decl", "PtrDecl", "Return"}
                                       /\ g[x].s = <<>>
                                       /\ g[x].k # "Return" => g[x].n = x
    BY <1>1, <1>4
  <1>7. Shaped(g) /\ Rooted(g, funcs) /\ (JumpsKept(h, funcs) => JumpsKept(g, funcs))
    <2>1. \A x \in DOMAIN g \ DOMAIN h : g[x].k \notin Jumps /\ (g[x].k \in Simple => g[x].s = <<>>)
      BY <1>6 DEF Jumps
    <2>2. \A x \in DOMAIN g \ DOMAIN h : g[x].k # "Label" /\ g[x].k # "Goto"
      BY <2>1 DEF Jumps
    <2>3. Shaped(g) /\ Rooted(g, funcs)
      BY <2>1, <2>2, <1>2, <1>4, ExtendsKeeps
    <2>4. ASSUME JumpsKept(h, funcs) PROVE JumpsKept(g, funcs)
      BY <2>1, <2>2, <2>4, <1>2, <1>4, ExtendsJumps
    <2> QED BY <2>3, <2>4
  <1>8. UsesFit(g, funcs)
    <2>1. \A x \in DOMAIN h \cap DOMAIN g : \A f \in DOMAIN funcs : funcs[f].body \in g[x].up => funcs[f].body \in h[x].up
      BY <1>4 DEF Extends
    <2>2. \A x \in DOMAIN h \cap DOMAIN g : \A u : Declared(h, u, x) => Declared(g, u, x)
      BY <1>2, <1>4, ExtendsDeclared
    <2>3. ASSUME NEW x \in DOMAIN g, NEW u \in Uses(g[x])
          PROVE  u \in Globals \/ Declared(g, u, x) \/ (x \in DOMAIN h /\ u \in Uses(h[x]))
      <3>1. CASE x \in DOMAIN h
        BY <2>3, <3>1, <1>4 DEF Extends, Uses, IsBlock
      <3>2. CASE x \notin DOMAIN h
        <4>1. x \in DOMAIN list.nodes /\ u \in list.nodes[x].e
          BY <2>3, <3>2, <1>4, <1>6 DEF Uses
        <4>2. CASE u \notin Globals
          <5>1. PICK d : Before(list.items, d, x) /\ list.nodes[d].k \in Decls /\ list.nodes[d].n = u
            BY <4>1, <4>2, <1>1
          <5>2. InsertedFrom(g, h, b, list) /\ b \in g[x].up
            BY <3>2, <1>4, <1>5
          <5>3. d \in DOMAIN list.nodes
            BY <5>1, <1>1 DEF IsList, Before, Range
          <5>4. IsBlock(g[b]) /\ Before(g[b].s, d, x) /\ g[d].k \in Decls /\ g[d].n = u
            BY <5>1, <5>2, <5>3 DEF InsertedFrom, Blocks, IsBlock
          <5> QED BY <5>2, <5>4, DeclaredBefore
        <4> QED BY <4>2
      <3> QED BY <3>1, <3>2
    <2> HIDE DEF list
    <2> QED BY <2>1, <2>2, <2>3, <1>2, UsesKept
  <1>9. HashedOnce(g) /\ HashFollows(g, ds)
    <2>1. \A c \in DOMAIN g \ DOMAIN h : g[c].k # "Call"
      BY <1>6
    <2>2. DOMAIN g \cap ds \subseteq DOMAIN h
      BY <1>2, <1>6 DEF IntsBelow
    <2>3. \A a \in Blocks(g) : Items(g, a) \subseteq DOMAIN g
      BY <1>4, ItemsInHeap, ForestParts DEF Blocks
    <2>4. \A a \in Blocks(g) : \A d \in Items(g, a) :
              d \in ds /\ ~(d \in ds /\ d \in DOMAIN h) /\ g[d].k = "Decl" =>
                  \E c : Before(g[a].s, d, c) /\ g[c].k = "Call" /\ g[d].n \in g[c].e
      BY <2>2, <2>3
    <2> QED BY <2>1, <2>4, <1>2, <1>4, ExtendsHashes
  <1>10. CallsBelow(g, v + 3)
    <2> SUFFICES ASSUME NEW x \in DOMAIN g, g[x].k = "Call" PROVE g[x].e \subseteq IntsBelow(v + 3)
      BY DEF CallsBelow
    <2>1. x \in DOMAIN h
      BY <1>6
    <2>2. g[x].k = h[x].k /\ g[x].e = h[x].e
      BY <2>1, <1>4 DEF Extends
    <2> QED BY <2>1, <2>2, <1>2 DEF CallsBelow, IntsBelow
  <1>11. ds \subseteq IntsBelow(v + 3) /\ DOMAIN g \subseteq IntsBelow(v + 3)
    BY <1>2, <1>6 DEF IntsBelow
  <1> QED BY <1>4, <1>7, <1>8, <1>9, <1>10, <1>11 DEF Kept, HashesKept, g, list

\* The names and addresses of new variables, what they point to and their
\* hashes differ.
LEMMA NewVariablesFacts ==
    ASSUME NEW v \in Int, NEW k \in Nat
    PROVE  LET V == NewVariables(v, k)
           IN  /\ V \in SUBSET (v..(v + 3 * k))
               /\ \A x \in V : x \in Int /\ v <= x /\ x + 2 < v + 3 * k
               /\ \A x, y \in V : x + 2 # y /\ x + 2 # y + 1
  <1> DEFINE V == NewVariables(v, k)
  <1>1. \A x \in V : \E i \in Int : 0 <= i /\ i <= k - 1 /\ x = v + 3 * i
    <2>1. k - 1 \in Int
      OBVIOUS
    <2> QED BY <2>1 DEF NewVariables
  <1> HIDE DEF V
  <1>2. ASSUME NEW x \in V
        PROVE  x \in Int /\ v <= x /\ x + 2 < v + 3 * k /\ x \in v..(v + 3 * k)
    <2>1. PICK i \in Int : 0 <= i /\ i <= k - 1 /\ x = v + 3 * i
      BY <1>1
    <2> QED BY <2>1
  <1>3. ASSUME NEW x \in V, NEW y \in V
        PROVE  x + 2 # y /\ x + 2 # y + 1
    <2>1. PICK i \in Int : x = v + 3 * i
      BY <1>1
    <2>2. PICK j \in Int : y = v + 3 * j
      BY <1>1
    <2> QED BY <2>1, <2>2
  <1> QED BY <1>2, <1>3 DEF V

\* A snippet of new variables, with their hashes and declarations.
LEMMA SnippetKeeps ==
    ASSUME NEW h, NEW funcs, Kept(h, funcs), NEW ds, NEW v \in Int, HashesKept(h, ds, v),
           NEW body \in Blocks(h), h[body].k = "Compound",
           NEW b \in Blocks(h) \cap Tree(h, body), NEW idx \in 0..Len(h[b].s),
           NEW snippet \in Snippets, NEW to \in Targets(NewVariables(v, snippet.vars))
    PROVE  LET V == NewVariables(v, snippet.vars)
               base == v + 3 * snippet.vars
               g == InsertOrder(h, body, b, idx, Renamed(snippet, v, base), NewHashes(V, to), InitStmts(V, to))
           IN  /\ Kept(g, funcs) /\ HashesKept(g, ds \cup Plain(V, to), base + SnippetTop)
               /\ JumpsKept(h, funcs) /\ IsTame(snippet.nodes) => JumpsKept(g, funcs)
  <1> DEFINE V == NewVariables(v, snippet.vars)
             base == v + 3 * snippet.vars
             P == Plain(V, to)
             last == IF h[body].s = <<>> THEN 0 ELSE Len(h[body].s) - 1
             snip == Renamed(snippet, v, base)
             hashes == NewHashes(V, to)
             list == InitList(V, to)
             h1 == Inserted(h, body, last, hashes)
             h2 == Inserted(h1, b, idx, snip)
             g == Inserted(h2, body, 0, list)
  <1>1. InsertOrder(h, body, b, idx, snip, hashes, InitStmts(V, to)) = g
    BY DEF InsertOrder, InitList
  <1>2. /\ Forest(h) /\ Shaped(h) /\ Rooted(h, funcs) /\ UsesFit(h, funcs)
        /\ HashedOnce(h) /\ HashFollows(h, ds) /\ CallsBelow(h, v)
        /\ ds \subseteq IntsBelow(v) /\ DOMAIN h \subseteq IntsBelow(v)
    BY DEF Kept, HashesKept
  <1>0. /\ IsSnippet(snippet) /\ snippet.vars \in Nat /\ base \in Int /\ v <= base
        /\ V \in SUBSET (v..base)
        /\ \A x \in V : x \in Int /\ v <= x /\ x + 2 < base
        /\ \A x, y \in V : x + 2 # y /\ x + 2 # y + 1
        /\ P \subseteq V /\ to \in Targets(V)
    <2>1. IsSnippet(snippet) /\ snippet.vars \in Nat
      BY SnippetsAssumption DEF IsSnippet
    <2>2. base \in Int /\ v <= base
      BY <2>1
    <2>3. P \subseteq V
      BY DEF Plain
    <2> HIDE DEF P
    <2> QED BY <2>1, <2>2, <2>3, NewVariablesFacts
  <1>3. Declares(list, V)
    <2> HIDE DEF V, base, list
    <2>1. Declares(InitList(V, to), V)
      BY <1>0, InitFacts
    <2> QED BY <2>1 DEF list
  <1>h. /\ IsList(hashes) /\ Range(hashes.items) = DOMAIN hashes.nodes
        /\ DOMAIN hashes.nodes = {x + 2 : x \in P}
        /\ \A x \in DOMAIN hashes.nodes : /\ x - 2 \in P /\ hashes.nodes[x].k = "Call"
                                          /\ hashes.nodes[x].e = {x - 2} /\ hashes.nodes[x].s = <<>>
    <2> HIDE DEF V, base
    <2> QED BY <1>0, NewHashesFacts
  <1>4. /\ IsList(snip)
        /\ \A x \in DOMAIN snip.nodes :
              /\ x \in Int /\ base < x /\ x < base + SnippetTop
              /\ snip.nodes[x].k # "Call"
              /\ snip.nodes[x].k \in Simple => snip.nodes[x].s = <<>>
              /\ snip.nodes[x].k = "Label" =>
                    /\ Len(snip.nodes[x].s) = 1
                    /\ snip.nodes[snip.nodes[x].s[1]].k \notin Jumps \cup Decls \cup {"Call"}
              /\ \A u \in Uses(snip.nodes[x]) : u \in V \cup Globals \/ Declared(snip.nodes, u, x)
        /\ IsTame(snippet.nodes) => IsTame(snip.nodes)
    <2> HIDE DEF base
    <2> QED BY <1>0, RenamedFacts
  <1>5. SnippetTop \in Nat \ {0}
    BY BoundsAssumption
  <1> HIDE DEF snip, list, hashes, V, base, P
  <1>a. /\ DOMAIN hashes.nodes \subseteq {x + 2 : x \in V}
        /\ DOMAIN list.nodes \subseteq V \cup {x + 1 : x \in V}
        /\ DOMAIN hashes.nodes \cap DOMAIN list.nodes = {}
        /\ \A x \in DOMAIN hashes.nodes \cup DOMAIN list.nodes : x \in Int /\ v <= x /\ x < base
    <2>1. DOMAIN hashes.nodes \subseteq {x + 2 : x \in V}
      BY <1>h, <1>0
    <2>2. DOMAIN list.nodes \subseteq V \cup {x + 1 : x \in V}
      BY <1>3 DEF Declares
    <2>3. DOMAIN hashes.nodes \cap DOMAIN list.nodes = {}
      BY <2>1, <2>2, <1>0
    <2>4. ASSUME NEW x \in V, NEW y, y = x \/ y = x + 1 \/ y = x + 2
          PROVE  y \in Int /\ v <= y /\ y < base
      <3>1. x \in Int /\ v <= x /\ x + 2 < base
        BY <1>0
      <3> QED BY <3>1, <2>4, <1>0
    <2>5. \A y \in DOMAIN hashes.nodes \cup DOMAIN list.nodes : \E x \in V : y = x \/ y = x + 1 \/ y = x + 2
      BY <2>1, <2>2
    <2> QED BY <2>1, <2>2, <2>3, <2>4, <2>5
  <1>b. /\ DOMAIN h \cap DOMAIN hashes.nodes = {} /\ DOMAIN h \cap DOMAIN snip.nodes = {}
        /\ DOMAIN h \cap DOMAIN list.nodes = {} /\ DOMAIN hashes.nodes \cap DOMAIN snip.nodes = {}
        /\ DOMAIN list.nodes \cap DOMAIN snip.nodes = {}
    <2>1. \A x \in DOMAIN h : x \in Int /\ x < v
      BY <1>2 DEF IntsBelow
    <2>2. \A x \in DOMAIN snip.nodes : x \in Int /\ base < x
      BY <1>4
    <2> QED BY <2>1, <2>2, <1>a, <1>0
  <1>6. last \in 0..Len(h[body].s) /\ body \in DOMAIN h /\ b \in DOMAIN h /\ IsBlock(h[b]) /\ IsBlock(h[body])
    <2>1. body \in DOMAIN h /\ b \in DOMAIN h /\ IsBlock(h[b]) /\ IsBlock(h[body])
      BY DEF Blocks
    <2>2. h[body].s \in Seq(DOMAIN h)
      BY <2>1, <1>2, ForestParts DEF ItemsKnown
    <2>3. Len(h[body].s) \in Nat /\ (h[body].s # <<>> => Len(h[body].s) > 0)
      BY <2>2
    <2> QED BY <2>1, <2>3
  <1> HIDE DEF last
  <1>7. /\ Forest(h1) /\ Extends(h1, h) /\ InsertedFrom(h1, h, body, hashes)
        /\ \A x \in DOMAIN h1 \ DOMAIN h :
              /\ x \in DOMAIN hashes.nodes /\ h1[x].k = hashes.nodes[x].k /\ h1[x].e = hashes.nodes[x].e
              /\ h1[x].s = hashes.nodes[x].s /\ h1[x].up = hashes.nodes[x].up \cup h[body].up \cup {body}
    BY <1>b, <1>h, <1>2, <1>6, InsertedOne
  <1> HIDE DEF h1
  <1>8. /\ DOMAIN h \subseteq DOMAIN h1 /\ DOMAIN h1 \subseteq DOMAIN h \cup DOMAIN hashes.nodes
        /\ b \in Blocks(h1) /\ body \in Blocks(h1) /\ h1[body].k = "Compound"
        /\ body \in h1[b].up \cup {b} /\ idx \in 0..Len(h1[b].s)
    <2>1. DOMAIN h \subseteq DOMAIN h1 /\ DOMAIN h1 \subseteq DOMAIN h \cup DOMAIN hashes.nodes
      BY <1>7 DEF Extends
    <2>2. /\ h1[b].k = h[b].k /\ h1[b].up = h[b].up /\ Len(h1[b].s) >= Len(h[b].s)
          /\ h1[body].k = h[body].k
      BY <1>6, <1>7 DEF Extends
    <2>3. b \in Blocks(h1) /\ body \in Blocks(h1)
      BY <1>6, <2>1, <2>2 DEF Blocks, IsBlock
    <2>4. body \in h1[b].up \cup {b}
      BY <2>2 DEF Tree
    <2>5. Len(h1[b].s) \in Nat /\ Len(h[b].s) \in Nat
      <3>1. h1[b].s \in Seq(DOMAIN h1) /\ h[b].s \in Seq(DOMAIN h)
        BY <1>2, <1>6, <1>7, <2>1, ForestParts DEF ItemsKnown
      <3> QED BY <3>1, LenProperties
    <2>6. idx \in 0..Len(h1[b].s)
      BY <2>2, <2>5
    <2> QED BY <2>1, <2>2, <2>3, <2>4, <2>6
  <1>9. /\ Forest(h2) /\ Extends(h2, h1)
        /\ \A x \in DOMAIN h2 \ DOMAIN h1 :
              /\ x \in DOMAIN snip.nodes /\ h2[x].k = snip.nodes[x].k /\ h2[x].n = snip.nodes[x].n
              /\ h2[x].e = snip.nodes[x].e
              /\ h2[x].s = snip.nodes[x].s /\ h2[x].up = snip.nodes[x].up \cup h1[b].up \cup {b}
        /\ DOMAIN h2 # DOMAIN h1 => DOMAIN snip.nodes \subseteq DOMAIN h2 \ DOMAIN h1
    <2>1. DOMAIN h1 \cap DOMAIN snip.nodes = {}
      BY <1>b, <1>8
    <2>2. h1[b].k = "NoItems" => h2 = h1
      BY DEF Inserted
    <2>3. InsertedFrom(h2, h1, b, snip) => DOMAIN snip.nodes \subseteq DOMAIN h2
      BY DEF InsertedFrom
    <2> HIDE DEF h2
    <2> QED BY <2>1, <2>2, <2>3, <1>4, <1>7, <1>8, InsertedOne DEF h2
  <1> HIDE DEF h2
  <1>10. /\ DOMAIN h1 \subseteq DOMAIN h2 /\ DOMAIN h2 \subseteq DOMAIN h1 \cup DOMAIN snip.nodes
        /\ body \in Blocks(h2) /\ h2[body].k = "Compound"
    BY <1>8, <1>9 DEF Extends, Blocks, IsBlock
  <1>11. /\ Forest(g) /\ Extends(g, h2) /\ InsertedFrom(g, h2, body, list)
         /\ \A x \in DOMAIN g \ DOMAIN h2 :
               /\ x \in DOMAIN list.nodes /\ g[x].k = list.nodes[x].k /\ g[x].n = list.nodes[x].n
               /\ g[x].e = list.nodes[x].e
               /\ g[x].s = list.nodes[x].s /\ g[x].up = list.nodes[x].up \cup h2[body].up \cup {body}
         /\ \A x \in Range(list.items), y \in Items(h2, body) : Before(g[body].s, x, y)
    <2>1. DOMAIN h2 \cap DOMAIN list.nodes = {}
      BY <1>a, <1>b, <1>8, <1>10
    <2> DEFINE start == 0
    <2>2. start \in 0..Len(h2[body].s) /\ h2[body].k # "NoItems" /\ start = 0
      <3>1. h2[body].s \in Seq(DOMAIN h2)
        BY <1>9, <1>10, ForestParts DEF ItemsKnown, Blocks
      <3>2. Len(h2[body].s) \in Nat
        BY <3>1, LenProperties
      <3> QED BY <3>2, <1>10
    <2>3. IsList(list)
      BY <1>3 DEF Declares
    <2> HIDE DEF start
    <2>4. g = Inserted(h2, body, start, list)
      BY <2>2
    <2>5. Forest(h2) /\ body \in Blocks(h2)
      BY <1>9, <1>10
    <2> HIDE DEF g
    <2>6. /\ Forest(g) /\ Extends(g, h2)
          /\ \A x \in DOMAIN g \ DOMAIN h2 :
                /\ x \in DOMAIN list.nodes /\ g[x].k = list.nodes[x].k /\ g[x].n = list.nodes[x].n
                /\ g[x].e = list.nodes[x].e
                /\ g[x].s = list.nodes[x].s /\ g[x].up = list.nodes[x].up \cup h2[body].up \cup {body}
      BY <2>1, <2>2, <2>3, <2>4, <2>5, InsertedOne
    <2>7. InsertedFrom(g, h2, body, list)
      BY <2>1, <2>2, <2>3, <2>4, <2>5, InsertedOne
    <2>8. \A x \in Range(list.items), y \in Items(h2, body) : Before(g[body].s, x, y)
      BY <2>1, <2>2, <2>3, <2>4, <2>5, InsertedOne
    <2> QED BY <2>6, <2>7, <2>8
  <1> HIDE DEF g
  <1>12. Extends(h2, h) /\ Extends(g, h1) /\ Extends(g, h)
    BY <1>2, <1>7, <1>9, <1>11, ExtendsTransitive
  <1>13. DOMAIN h2 \subseteq DOMAIN g
    BY <1>11 DEF Extends
  \* The new nodes are the hash, the snippet and the declarations.
  <1>14. ASSUME NEW x \in DOMAIN g \ DOMAIN h
         PROVE  \/ /\ x \in DOMAIN h1 /\ x \in DOMAIN h2 /\ x \in DOMAIN hashes.nodes /\ x - 2 \in P
                   /\ g[x].k = "Call" /\ g[x].e = {x - 2} /\ g[x].s = <<>> /\ body \in g[x].up
                \/ /\ x \in DOMAIN h2 /\ x \notin DOMAIN h1 /\ x \in DOMAIN snip.nodes /\ body \in g[x].up
                   /\ g[x].k = snip.nodes[x].k /\ g[x].n = snip.nodes[x].n
                   /\ Uses(g[x]) = Uses(snip.nodes[x]) /\ (~IsBlock(g[x]) => g[x].s = snip.nodes[x].s)
                   /\ g[x].up = snip.nodes[x].up \cup h1[b].up \cup {b}
                \/ /\ x \in DOMAIN list.nodes /\ body \in g[x].up
                   /\ g[x].k = list.nodes[x].k /\ g[x].n = x /\ g[x].k \in {"Decl", "PtrDecl"}
                   /\ g[x].s = <<>> /\ g[x].e = list.nodes[x].e
    <2>1. CASE x \in DOMAIN h1
      <3>1. /\ x \in DOMAIN hashes.nodes /\ h1[x].k = "Call" /\ h1[x].e = {x - 2} /\ h1[x].s = <<>>
            /\ body \in h1[x].up /\ x - 2 \in P
        BY <2>1, <1>7, <1>h
      <3>2. g[x].k = h1[x].k /\ g[x].e = h1[x].e /\ g[x].up = h1[x].up /\ (~IsBlock(h1[x]) => g[x].s = h1[x].s)
        BY <2>1, <1>12 DEF Extends
      <3>3. ~IsBlock(h1[x]) /\ x \in DOMAIN h2
        BY <2>1, <3>1, <1>10 DEF IsBlock
      <3> QED BY <2>1, <3>1, <3>2, <3>3
    <2>2. CASE x \in DOMAIN h2 /\ x \notin DOMAIN h1
      <3>1. /\ x \in DOMAIN snip.nodes /\ h2[x].k = snip.nodes[x].k /\ h2[x].n = snip.nodes[x].n
            /\ h2[x].e = snip.nodes[x].e /\ h2[x].s = snip.nodes[x].s
            /\ body \in h2[x].up /\ h2[x].up = snip.nodes[x].up \cup h1[b].up \cup {b}
        BY <2>2, <1>8, <1>9
      <3>2. /\ g[x].k = h2[x].k /\ g[x].n = h2[x].n /\ g[x].e = h2[x].e /\ g[x].up = h2[x].up
            /\ ~IsBlock(h2[x]) => g[x].s = h2[x].s
        BY <2>2, <1>11 DEF Extends
      <3>3. Uses(g[x]) = Uses(snip.nodes[x]) /\ (IsBlock(h2[x]) <=> IsBlock(g[x]))
        BY <3>1, <3>2 DEF Uses, IsBlock
      <3> QED BY <2>2, <3>1, <3>2, <3>3
    <2>3. CASE x \notin DOMAIN h2
      BY <2>3, <1>3, <1>11 DEF Declares
    <2> QED BY <2>1, <2>2, <2>3
  <1>c. ASSUME DOMAIN h2 # DOMAIN h1
        PROVE  \A x \in DOMAIN snip.nodes : /\ x \in DOMAIN g \ DOMAIN h /\ x \in DOMAIN h2 \ DOMAIN h1
                                            /\ g[x].k = snip.nodes[x].k /\ g[x].n = snip.nodes[x].n
                                            /\ g[x].up = snip.nodes[x].up \cup h1[b].up \cup {b}
                                            /\ h2[x].s = snip.nodes[x].s
                                            /\ \A y, z : Before(snip.nodes[x].s, y, z) => Before(g[x].s, y, z)
                                            /\ Items(snip.nodes, x) \subseteq Items(g, x)
    <2> SUFFICES ASSUME NEW x \in DOMAIN snip.nodes
                 PROVE  /\ x \in DOMAIN g \ DOMAIN h /\ x \in DOMAIN h2 \ DOMAIN h1
                        /\ g[x].k = snip.nodes[x].k /\ g[x].n = snip.nodes[x].n
                        /\ g[x].up = snip.nodes[x].up \cup h1[b].up \cup {b}
                        /\ h2[x].s = snip.nodes[x].s
                        /\ \A y, z : Before(snip.nodes[x].s, y, z) => Before(g[x].s, y, z)
                        /\ Items(snip.nodes, x) \subseteq Items(g, x)
      OBVIOUS
    <2>1. x \in DOMAIN h2 \ DOMAIN h1
      BY <1>9, <1>c
    <2>2. x \in DOMAIN g \ DOMAIN h
      BY <2>1, <1>8, <1>13
    <2>3. x \notin DOMAIN hashes.nodes /\ x \notin DOMAIN list.nodes
      BY <1>b
    <2>4. /\ g[x].k = snip.nodes[x].k /\ g[x].n = snip.nodes[x].n
          /\ g[x].up = snip.nodes[x].up \cup h1[b].up \cup {b}
      BY <2>2, <2>3, <1>14
    <2>5. h2[x].s = snip.nodes[x].s
      BY <2>1, <1>9
    <2>6. \A y, z : Before(snip.nodes[x].s, y, z) => Before(g[x].s, y, z)
      BY <2>1, <2>5, <1>11 DEF Extends
    <2>7. Items(snip.nodes, x) \subseteq Items(g, x)
      BY <2>1, <2>5, <1>11 DEF Extends, Items
    <2> QED BY <2>1, <2>2, <2>4, <2>5, <2>6, <2>7
  <1>15. Shaped(g) /\ Rooted(g, funcs)
    <2>1. ASSUME NEW x \in DOMAIN g \ DOMAIN h
          PROVE  /\ g[x].k \in Simple => g[x].s = <<>>
                 /\ g[x].k = "Label" => Len(g[x].s) = 1 /\ g[g[x].s[1]].k \notin Jumps \cup Decls \cup {"Call"}
      <3>1. CASE x \in DOMAIN snip.nodes
        <4>1. /\ g[x].k = snip.nodes[x].k /\ x \notin DOMAIN h1 /\ x \in DOMAIN h2
              /\ ~IsBlock(g[x]) => g[x].s = snip.nodes[x].s
          BY <3>1, <2>1, <1>14, <1>b
        <4>2. CASE g[x].k \in Simple
          BY <3>1, <4>1, <4>2, <1>4, BlockKinds DEF Simple
        <4>3. CASE g[x].k = "Label"
          <5>1. g[x].s = snip.nodes[x].s /\ ~IsBlock(g[x])
            BY <4>1, <4>3 DEF IsBlock
          <5>2. Len(g[x].s) = 1 /\ snip.nodes[g[x].s[1]].k \notin Jumps \cup Decls \cup {"Call"}
            BY <3>1, <4>1, <4>3, <5>1, <1>4
          <5>3. g[x].s \in Seq(DOMAIN snip.nodes)
            BY <3>1, <5>1, <1>4, ForestParts DEF IsList, ItemsKnown
          <5>4. g[x].s[1] \in DOMAIN snip.nodes
            BY <5>2, <5>3
          <5>5. g[g[x].s[1]].k = snip.nodes[g[x].s[1]].k
            BY <4>1, <5>4, <1>c
          <5> QED BY <4>3, <5>2, <5>5 DEF Simple
        <4> QED BY <4>2, <4>3
      <3>2. CASE x \notin DOMAIN snip.nodes
        BY <2>1, <3>2, <1>14 DEF Simple
      <3> QED BY <3>1, <3>2
    <2> QED BY <2>1, <1>2, <1>12, ExtendsKeeps
  <1>d. ASSUME JumpsKept(h, funcs), IsTame(snip.nodes)
        PROVE  JumpsKept(g, funcs)
    <2>1. ASSUME NEW x \in DOMAIN g \ DOMAIN h, g[x].k \in Jumps
          PROVE  /\ x \in DOMAIN snip.nodes /\ DOMAIN h2 # DOMAIN h1
                 /\ g[x].k = snip.nodes[x].k /\ x \in Placed(snip.nodes, Jumps)
      <3>1. x \in DOMAIN snip.nodes /\ DOMAIN h2 # DOMAIN h1 /\ g[x].k = snip.nodes[x].k
        BY <2>1, <1>14 DEF Jumps
      <3> QED BY <2>1, <3>1, <1>d DEF IsTame
    <2>2. ASSUME NEW x \in DOMAIN g \ DOMAIN h, g[x].k \in Jumps
          PROVE  \E c \in Blocks(g) : x \in Items(g, c)
      <3>1. x \in Placed(snip.nodes, Jumps) /\ DOMAIN h2 # DOMAIN h1
        BY <2>1, <2>2
      <3>2. PICK c \in Blocks(snip.nodes) : x \in Items(snip.nodes, c)
        BY <3>1 DEF Placed, Items
      <3>3. c \in DOMAIN snip.nodes /\ IsBlock(snip.nodes[c])
        BY DEF Blocks
      <3>4. c \in DOMAIN g /\ g[c].k = snip.nodes[c].k /\ x \in Items(g, c)
        BY <3>1, <3>2, <3>3, <1>c
      <3> QED BY <3>3, <3>4 DEF Blocks, IsBlock
    <2>3. ASSUME NEW x \in DOMAIN g \ DOMAIN h, g[x].k = "Goto"
          PROVE  \E y \in DOMAIN g : /\ g[y].k = "Label" /\ g[y].n = g[x].n
                                     /\ \A f \in DOMAIN funcs : funcs[f].body \in g[x].up => funcs[f].body \in g[y].up
      <3>1. /\ x \in DOMAIN snip.nodes /\ DOMAIN h2 # DOMAIN h1 /\ x \in Placed(snip.nodes, Jumps)
            /\ snip.nodes[x].k = "Goto"
        BY <2>1, <2>3 DEF Jumps
      <3>2. x \in Placed(snip.nodes, {"Goto"})
        BY <3>1 DEF Placed
      <3>3. PICK y \in Placed(snip.nodes, {"Label"}) : snip.nodes[y].n = snip.nodes[x].n
        BY <3>2, <1>d DEF IsTame, Names
      <3>4. y \in DOMAIN snip.nodes /\ snip.nodes[y].k = "Label"
        BY DEF Placed
      <3>5. /\ y \in DOMAIN g /\ g[y].k = "Label" /\ g[y].n = g[x].n
            /\ g[x].up = snip.nodes[x].up \cup h1[b].up \cup {b}
            /\ g[y].up = snip.nodes[y].up \cup h1[b].up \cup {b}
        BY <3>1, <3>3, <3>4, <1>c
      <3>6. snip.nodes[x].up \subseteq DOMAIN snip.nodes
        BY <3>1, <1>4, ForestParts DEF IsList, UpKnown
      <3>7. \A f \in DOMAIN funcs : funcs[f].body \notin snip.nodes[x].up
        BY <3>6, <1>2, <1>b DEF Rooted
      <3> QED BY <3>5, <3>7
    <2> QED BY <2>2, <2>3, <1>2, <1>12, <1>d, ExtendsJumps
  \* The new variables are declared before all that stands below the function.
  <1>16. ASSUME NEW x \in DOMAIN h2, body \in g[x].up, NEW w \in V
         PROVE  Declared(g, w, x)
    <2>1. h2[x].up = g[x].up
      BY <1>11 DEF Extends
    <2>2. PICK y \in Items(h2, body) : y = x \/ y \in h2[x].up
      BY <2>1, <1>9, <1>16, ForestParts DEF UpLinked
    <2>3. w \in Range(list.items) /\ w \in DOMAIN list.nodes
      BY <1>3 DEF Declares
    <2>4. Before(g[body].s, w, y)
      BY <2>2, <2>3, <1>11
    <2>5. g[w].k \in Decls /\ g[w].n = w
      BY <2>3, <1>3, <1>11 DEF Declares, InsertedFrom, Decls
    <2>6. IsBlock(g[body])
      BY <1>10, <1>11 DEF InsertedFrom, Blocks, IsBlock
    <2> QED BY <2>1, <2>2, <2>4, <2>5, <2>6, <1>16, DeclaredBefore
  <1>e. ASSUME NEW x \in DOMAIN snip.nodes, x \in DOMAIN g \ DOMAIN h, NEW u, Declared(snip.nodes, u, x)
        PROVE  Declared(g, u, x)
    <2>1. x \in DOMAIN h2 \ DOMAIN h1
      BY <1>e, <1>14, <1>b
    <2>2. DOMAIN h2 # DOMAIN h1
      BY <2>1
    <2>3. PICK c, d, z : /\ c \in snip.nodes[x].up /\ IsBlock(snip.nodes[c]) /\ Before(snip.nodes[c].s, d, z)
                         /\ (z = x \/ z \in snip.nodes[x].up) /\ snip.nodes[d].k \in Decls /\ snip.nodes[d].n = u
      BY <1>e, DeclaredBefore
    <2>4. c \in DOMAIN snip.nodes
      BY <2>3, <1>4, ForestParts DEF IsList, UpKnown
    <2>5. d \in DOMAIN snip.nodes
      BY <2>3, <2>4, <1>4, BeforeItems, ItemsInHeap, ForestParts DEF IsList
    <2>6. /\ c \in g[x].up /\ IsBlock(g[c]) /\ Before(g[c].s, d, z) /\ (z = x \/ z \in g[x].up)
          /\ g[d].k \in Decls /\ g[d].n = u
      BY <2>2, <2>3, <2>4, <2>5, <1>c DEF IsBlock
    <2> QED BY <2>6, DeclaredBefore
  <1>17. UsesFit(g, funcs)
    <2>1. \A x \in DOMAIN h \cap DOMAIN g : \A f \in DOMAIN funcs : funcs[f].body \in g[x].up => funcs[f].body \in h[x].up
      BY <1>12 DEF Extends
    <2>2. \A x \in DOMAIN h \cap DOMAIN g : \A u : Declared(h, u, x) => Declared(g, u, x)
      BY <1>2, <1>12, ExtendsDeclared
    <2>3. ASSUME NEW x \in DOMAIN g, NEW u \in Uses(g[x])
          PROVE  u \in Globals \/ Declared(g, u, x) \/ (x \in DOMAIN h /\ u \in Uses(h[x]))
      <3>1. CASE x \in DOMAIN h
        BY <2>3, <3>1, <1>12 DEF Extends, Uses, IsBlock
      <3>2. CASE x \notin DOMAIN h /\ x \in DOMAIN h1
        <4>1. /\ x \in DOMAIN h2 /\ x - 2 \in P /\ body \in g[x].up /\ g[x].e = {x - 2} /\ g[x].k = "Call"
          BY <3>2, <1>14, <1>7, <1>a
        <4>2. u = x - 2 /\ u \in V
          BY <4>1, <2>3, <1>0 DEF Uses
        <4> QED BY <4>1, <4>2, <1>16
      <3>4. CASE x \notin DOMAIN h1 /\ x \in DOMAIN h2 /\ x \notin DOMAIN h
        <4>1. x \in DOMAIN snip.nodes /\ body \in g[x].up /\ Uses(g[x]) = Uses(snip.nodes[x])
          BY <3>4, <1>9, <1>14, <1>b
        <4>2. u \in V \cup Globals \/ Declared(snip.nodes, u, x)
          BY <4>1, <2>3, <1>4
        <4> QED BY <3>4, <4>1, <4>2, <1>16, <1>e, <1>13
      <3>3. CASE x \notin DOMAIN h2
        <4>1. x \in DOMAIN list.nodes /\ g[x].k = list.nodes[x].k /\ g[x].e = list.nodes[x].e /\ body \in g[x].up
          BY <3>3, <1>11
        <4>2. g[x].k \in {"Decl", "PtrDecl"}
          BY <4>1, <1>3 DEF Declares
        <4>3. u \in list.nodes[x].e
          BY <4>1, <4>2, <2>3 DEF Uses
        <4>4. CASE u \notin Globals
          <5>1. PICK d : Before(list.items, d, x) /\ list.nodes[d].k \in Decls /\ list.nodes[d].n = u
            BY <4>1, <4>3, <4>4, <1>3 DEF Declares
          <5>2. d \in DOMAIN list.nodes
            BY <5>1, <1>3 DEF Declares, Before, Range
          <5>3. IsBlock(g[body]) /\ Before(g[body].s, d, x) /\ g[d].k \in Decls /\ g[d].n = u
            BY <5>1, <5>2, <1>10, <1>11 DEF InsertedFrom, Blocks, IsBlock
          <5> QED BY <4>1, <5>3, DeclaredBefore
        <4> QED BY <4>4
      <3> QED BY <3>1, <3>2, <3>3, <3>4, <1>8, <1>10
    <2> QED BY <2>1, <2>2, <2>3, <1>2, UsesKept
  <1>f. ASSUME NEW c \in DOMAIN g \ DOMAIN h, g[c].k = "Call"
        PROVE  c \in DOMAIN h1 /\ c \in DOMAIN hashes.nodes /\ c - 2 \in P /\ g[c].e = {c - 2} /\ c \in Int /\ v <= c - 2
    <2>1. c \in DOMAIN snip.nodes => g[c].k # "Call"
      BY <1>f, <1>4, <1>14, <1>b
    <2>2. c \in DOMAIN h1 /\ c \in DOMAIN hashes.nodes /\ c - 2 \in P /\ g[c].e = {c - 2}
      BY <2>1, <1>f, <1>14
    <2>3. c \in Int /\ c - 2 \in V
      BY <2>2, <1>a, <1>0
    <2> QED BY <2>2, <2>3, <1>0
  <1>18. HashedOnce(g) /\ HashFollows(g, ds \cup P)
    <2>2. ASSUME NEW c \in DOMAIN g \ DOMAIN h, NEW d \in DOMAIN g,
                 g[c].k = "Call", g[d].k = "Call", g[c].e \cap g[d].e # {}
          PROVE  c = d
      <3>1. c - 2 \in g[d].e /\ c \in Int /\ v <= c - 2
        BY <2>2, <1>f
      <3>2. CASE d \in DOMAIN h
        <4>1. h[d].k = "Call" /\ g[d].e = h[d].e
          BY <2>2, <3>2, <1>12 DEF Extends
        <4>2. c - 2 \in IntsBelow(v)
          BY <3>1, <3>2, <4>1, <1>2 DEF CallsBelow
        <4> QED BY <3>1, <4>2 DEF IntsBelow
      <3>3. CASE d \notin DOMAIN h
        <4>1. g[d].e = {d - 2} /\ d \in Int
          BY <2>2, <3>3, <1>f
        <4> QED BY <3>1, <4>1
      <3> QED BY <3>2, <3>3
    <2>3. ASSUME NEW a \in Blocks(g), NEW d \in Items(g, a), g[d].k = "Decl", d \in ds \cup P,
                 ~(d \in ds /\ d \in DOMAIN h)
          PROVE  \E c : Before(g[a].s, d, c) /\ g[c].k = "Call" /\ g[d].n \in g[c].e
      <3>1. a \in DOMAIN g /\ d \in DOMAIN g
        BY <1>11, ItemsInHeap, ForestParts DEF Blocks
      <3>2. d \in P
        <4>1. ASSUME d \in ds, d \notin DOMAIN h PROVE FALSE
          <5>1. d \in Int /\ d < v
            BY <4>1, <1>2 DEF IntsBelow
          <5>2. d \in DOMAIN hashes.nodes \/ d \in DOMAIN snip.nodes \/ d \in DOMAIN list.nodes
            BY <3>1, <4>1, <1>14
          <5>3. v <= d
            BY <5>1, <5>2, <1>a, <1>4, <1>0
          <5> QED BY <5>1, <5>3
        <4> QED BY <4>1, <2>3
      <3>3. d \in V /\ d \in Range(list.items) /\ d \in DOMAIN list.nodes
        BY <3>2, <1>0, <1>3 DEF Declares
      <3>4. g[d].n = d
        BY <3>3, <1>3, <1>11 DEF InsertedFrom, Declares
      <3>5. d + 2 \in DOMAIN hashes.nodes /\ d \in Int
        BY <3>2, <3>3, <1>h, <1>0
      <3>6. body \in DOMAIN g /\ d \in Items(g, body)
        BY <3>3, <1>10, <1>11 DEF InsertedFrom, Blocks
      <3>7. a = body
        BY <3>1, <3>6, <1>11, OneParent
      <3>8. d + 2 \in Items(h2, body)
        <4>1. d + 2 \in Items(h1, body)
          BY <3>5, <1>7, <1>h DEF InsertedFrom
        <4> QED BY <4>1, <1>8, <1>9 DEF Extends, Blocks
      <3>9. Before(g[a].s, d, d + 2)
        BY <3>3, <3>7, <3>8, <1>11
      <3>10. g[d + 2].k = "Call" /\ g[d + 2].e = {d}
        <4>1. d + 2 \in DOMAIN g \ DOMAIN h
          <5>1. d + 2 \in DOMAIN h1 /\ d + 2 \notin DOMAIN h
            BY <3>5, <1>7, <1>b DEF InsertedFrom
          <5> QED BY <5>1, <1>10, <1>13
        <4>2. d + 2 \notin DOMAIN snip.nodes /\ d + 2 \notin DOMAIN list.nodes /\ (d + 2) - 2 = d
          BY <3>5, <1>a, <1>b
        <4>3. g[d + 2].k = "Call" /\ g[d + 2].e = {(d + 2) - 2}
          BY <4>1, <4>2, <1>14
        <4> QED BY <4>2, <4>3
      <3> QED BY <3>4, <3>9, <3>10
    <2> QED BY <2>2, <2>3, <1>2, <1>11, <1>12, ExtendsHashes
  <1>g. IntsBelow(v) \subseteq IntsBelow(base + SnippetTop) /\ IntsBelow(base) \subseteq IntsBelow(base + SnippetTop)
        /\ IntsBelow(v) \subseteq IntsBelow(base)
    BY <1>5, <1>0 DEF IntsBelow
  <1>19. CallsBelow(g, base + SnippetTop)
    <2> SUFFICES ASSUME NEW x \in DOMAIN g, g[x].k = "Call"
                 PROVE  g[x].e \subseteq IntsBelow(base + SnippetTop)
      BY DEF CallsBelow
    <2>1. CASE x \in DOMAIN h
      <3>1. g[x].k = h[x].k /\ g[x].e = h[x].e
        BY <2>1, <1>12 DEF Extends
      <3> QED BY <2>1, <3>1, <1>2, <1>g DEF CallsBelow
    <2>2. CASE x \notin DOMAIN h
      <3>1. g[x].e = {x - 2} /\ x - 2 \in V
        BY <2>2, <1>f, <1>0
      <3>2. x - 2 \in Int /\ (x - 2) + 2 < base
        BY <3>1, <1>0
      <3>3. x - 2 \in IntsBelow(base)
        BY <3>2, <1>0 DEF IntsBelow
      <3> QED BY <3>1, <3>3, <1>g
    <2> QED BY <2>1, <2>2
  <1>20. ds \cup P \subseteq IntsBelow(base + SnippetTop) /\ DOMAIN g \subseteq IntsBelow(base + SnippetTop)
    <2>1. V \subseteq IntsBelow(base)
      <3> SUFFICES ASSUME NEW x \in V PROVE x \in IntsBelow(base)
        OBVIOUS
      <3>1. x \in Int /\ x + 2 < base
        BY <1>0
      <3> QED BY <3>1, <1>0 DEF IntsBelow
    <2>2. DOMAIN snip.nodes \subseteq IntsBelow(base + SnippetTop)
      BY <1>4 DEF IntsBelow
    <2>3. DOMAIN hashes.nodes \cup DOMAIN list.nodes \subseteq IntsBelow(base)
      BY <1>a DEF IntsBelow
    <2>4. DOMAIN g \subseteq DOMAIN h \cup DOMAIN snip.nodes \cup DOMAIN hashes.nodes \cup DOMAIN list.nodes
      BY <1>14
    <2> QED BY <2>1, <2>2, <2>3, <2>4, <1>2, <1>0, <1>g
  <1>21. JumpsKept(h, funcs) /\ IsTame(snippet.nodes) => JumpsKept(g, funcs)
    BY <1>d, <1>4
  <1>22. Kept(g, funcs) /\ HashesKept(g, ds \cup P, base + SnippetTop)
    BY <1>11, <1>15, <1>17, <1>18, <1>19, <1>20 DEF Kept, HashesKept
  <1> QED BY <1>1, <1>21, <1>22 DEF snip, hashes, V, base, P

-----------------------------------------------------------------------------
(* Prunings.                                                               *)

LEMMA CutShrinks ==
    ASSUME NEW h, NEW funcs, Kept(h, funcs), NEW ds, NEW top, HashesKept(h, ds, top),
           NEW b, NEW gone, NEW g, CutFrom(g, h, b, gone),
           \A d, y \in Items(h, b) : d \in gone /\ y \notin gone => h[d].k \notin Decls \cup {"Call"}
    PROVE  /\ Kept(g, funcs) /\ HashesKept(g, ds, top)
           /\ JumpsKept(h, funcs) /\ (\A x \in gone : h[x].k \notin Jumps) => JumpsKept(g, funcs)
  <1>1. /\ Forest(h) /\ Shaped(h) /\ Rooted(h, funcs) /\ UsesFit(h, funcs)
        /\ HashedOnce(h) /\ HashFollows(h, ds) /\ CallsBelow(h, top)
        /\ ds \subseteq IntsBelow(top) /\ DOMAIN h \subseteq IntsBelow(top)
    BY DEF Kept, HashesKept
  <1>2. /\ Forest(g) /\ Shaped(g) /\ HashedOnce(g)
        /\ Rooted(g, funcs) /\ UsesFit(g, funcs)
        /\ HashFollows(g, ds) /\ CallsBelow(g, top)
        /\ JumpsPlaced(h) => JumpsPlaced(g)
    BY <1>1, CutKeeps
  <1>3. ASSUME JumpsKept(h, funcs), \A x \in gone : h[x].k \notin Jumps PROVE JumpsKept(g, funcs)
    BY <1>2, <1>3, CutJumps DEF JumpsKept
  <1>4. DOMAIN g \subseteq IntsBelow(top)
    BY <1>1 DEF CutFrom
  <1> QED BY <1>1, <1>2, <1>3, <1>4 DEF Kept, HashesKept

\* Of the items of a block only the deleted one is in its tree.
LEMMA DeletedItem ==
    ASSUME NEW h, Forest(h), NEW b \in Blocks(h), NEW t \in Items(h, b), NEW d \in Items(h, b), d \in Tree(h, t)
    PROVE  d = t
  <1>1. ItemsBelow(h) /\ UpKnown(h) /\ b \in DOMAIN h /\ t \in DOMAIN h
    BY ForestParts, ItemsInHeap DEF Blocks
  <1>2. h[d].up = h[t].up /\ t \notin h[t].up
    BY <1>1 DEF ItemsBelow, UpKnown
  <1> QED BY <1>2 DEF Tree

LEMMA SimplePruneKeeps ==
    ASSUME NEW h, NEW funcs, Kept(h, funcs), NEW ds, NEW top, HashesKept(h, ds, top),
           NEW b \in Blocks(h), NEW j \in DOMAIN h[b].s, h[h[b].s[j]].k \in {"Return", "Assignment"}
    PROVE  LET g == Deleted(h, b, j)
           IN  /\ Kept(g, funcs) /\ HashesKept(g, ds, top)
               /\ JumpsKept(h, funcs) => JumpsKept(g, funcs)
  <1> DEFINE t == h[b].s[j]
             g == Deleted(h, b, j)
  <1>1. Forest(h) /\ Shaped(h)
    BY DEF Kept
  <1>2. CutFrom(g, h, b, Tree(h, t))
    BY <1>1, DeletedCuts
  <1>3. b \in DOMAIN h /\ t \in Items(h, b) /\ t \in DOMAIN h /\ h[t].k \in {"Return", "Assignment"}
    <2>1. b \in DOMAIN h /\ t \in Items(h, b)
      BY DEF Blocks, Items, Range
    <2> QED BY <2>1, <1>1, ForestParts, ItemsInHeap
  <1> HIDE DEF t, g
  <1>4. Items(h, t) = {}
    <2>1. h[t].s = <<>>
      BY <1>1, <1>3 DEF Shaped, Simple
    <2> QED BY <2>1 DEF Items, Range
  <1>5. Tree(h, t) = {t}
    BY <1>1, <1>3, <1>4, ForestParts DEF Tree, UpLinked
  <1>6. h[t].k \notin Decls \cup {"Call"} /\ h[t].k \notin Jumps
    BY <1>3 DEF Decls, Jumps
  <1>7. /\ Kept(g, funcs) /\ HashesKept(g, ds, top)
        /\ JumpsKept(h, funcs) => JumpsKept(g, funcs)
    BY <1>2, <1>5, <1>6, CutShrinks
  <1> QED BY <1>7 DEF g

\* What Unlabelled leaves.
LEMMA UnlabelledPrune ==
    ASSUME NEW h, NEW funcs, Kept(h, funcs), NEW ds, NEW top, HashesKept(h, ds, top), NEW going
    PROVE  LET g == Unlabelled(h, going)
           IN  /\ Kept(g, funcs) /\ HashesKept(g, ds, top)
               /\ \A x \in DOMAIN g : x \in DOMAIN h /\ g[x].up \subseteq h[x].up
               /\ JumpsKept(h, funcs) =>
                     /\ JumpsKept(g, funcs)
                     /\ \A x \in DOMAIN g : g[x].k \in Jumps => h[x].k \in Jumps /\ h[x].n \notin going
               /\ Blocks(g) = Blocks(h)
               /\ \A b \in Blocks(h) : \A j \in DOMAIN h[b].s : h[h[b].s[j]].k \in {"If", "For"} =>
                     /\ j \in DOMAIN g[b].s /\ g[b].s[j] = h[b].s[j]
                     /\ g[h[b].s[j]].k = h[h[b].s[j]].k
  <1> DEFINE g == Unlabelled(h, going)
             labels == {x \in Released(h, going) : h[x].k = "Label"}
             jumps == Released(h, going) \ labels
  <1>1. /\ Forest(h) /\ Shaped(h) /\ Rooted(h, funcs) /\ UsesFit(h, funcs)
        /\ HashedOnce(h) /\ HashFollows(h, ds) /\ CallsBelow(h, top)
        /\ ds \subseteq IntsBelow(top) /\ DOMAIN h \subseteq IntsBelow(top)
    BY DEF Kept, HashesKept
  <1>2. UnlabelledFrom(g, h, labels, jumps) /\ MayGo(h, labels, jumps)
    BY <1>1, UnlabelledFacts, ReleasedMayGo
  <1>3. JumpsKept(h, funcs) =>
          /\ \A x \in DOMAIN g : g[x].k \in Jumps => h[x].k = g[x].k /\ h[x].n \notin going
          /\ JumpsFit(g, funcs)
    BY <1>1, ReleasedJumps DEF JumpsKept
  <1> HIDE DEF g, labels, jumps
  <1>4. /\ Forest(g) /\ Shaped(g) /\ HashedOnce(g)
        /\ Rooted(g, funcs) /\ UsesFit(g, funcs)
        /\ HashFollows(g, ds) /\ CallsBelow(g, top)
        /\ JumpsPlaced(h) => JumpsPlaced(g)
    BY <1>1, <1>2, UnlabelledKeeps
  <1>5. \A x \in DOMAIN g : /\ x \in DOMAIN h /\ x \notin labels
                            /\ g[x].k # "Empty" => x \notin jumps
                            /\ x \notin jumps => g[x].k = h[x].k
                            /\ h[x].k # "Goto" => x \notin jumps
                            /\ IsBlock(g[x]) <=> IsBlock(h[x])
    BY <1>2, UnlabelledKinds
  <1>6. DOMAIN g = DOMAIN h \ labels /\ \A x \in DOMAIN g : g[x].up = h[x].up \ labels
    BY <1>2 DEF UnlabelledFrom
  <1>7. \A x \in DOMAIN h : x \in labels => h[x].k = "Label"
    BY <1>2 DEF MayGo
  <1>8. Blocks(g) = Blocks(h)
    BY <1>5, <1>6, <1>7, BlockKinds DEF Blocks, Jumps
  <1>9. ASSUME NEW b \in Blocks(h), NEW j \in DOMAIN h[b].s, h[h[b].s[j]].k \in {"If", "For"}
        PROVE  /\ j \in DOMAIN g[b].s /\ g[b].s[j] = h[b].s[j]
               /\ g[h[b].s[j]].k = h[h[b].s[j]].k
    <2> DEFINE t == h[b].s[j]
    <2>1. b \in DOMAIN h /\ b \in DOMAIN g /\ b \notin jumps
      BY <1>5, <1>8, BlockKinds DEF Blocks, Jumps
    <2>2. g[b].s = [i \in DOMAIN h[b].s |-> Rep(h, labels, h[b].s[i])]
      BY <1>2, <2>1 DEF UnlabelledFrom
    <2>3. t \in DOMAIN h
      <3>1. t \in Items(h, b)
        BY DEF Items, Range
      <3> QED BY <3>1, <2>1, <1>1, ForestParts, ItemsInHeap
    <2>4. t \in DOMAIN g /\ g[t].k = h[t].k /\ Rep(h, labels, t) = t
      BY <2>3, <1>5, <1>6, <1>7, <1>9 DEF Rep
    <2> QED BY <2>2, <2>4
  <1>10. \A x \in DOMAIN g : x \in DOMAIN h /\ g[x].up \subseteq h[x].up
    BY <1>5, <1>6
  <1>11. Kept(g, funcs) /\ HashesKept(g, ds, top)
    BY <1>1, <1>4, <1>6 DEF Kept, HashesKept
  <1>12. ASSUME JumpsKept(h, funcs)
         PROVE  /\ JumpsKept(g, funcs)
                /\ \A x \in DOMAIN g : g[x].k \in Jumps => h[x].k \in Jumps /\ h[x].n \notin going
    BY <1>3, <1>4, <1>12 DEF JumpsKept
  <1> QED BY <1>8, <1>9, <1>10, <1>11, <1>12 DEF g

LEMMA ControlPruneKeeps ==
    ASSUME NEW h, NEW funcs, Kept(h, funcs), NEW ds, NEW top, HashesKept(h, ds, top),
           NEW b \in Blocks(h), NEW j \in DOMAIN h[b].s, h[h[b].s[j]].k \in {"If", "For"}
    PROVE  LET g == Deleted(Unlabelled(h, Names(h, Below(h, h[b].s[j], Jumps))), b, j)
           IN  /\ Kept(g, funcs) /\ HashesKept(g, ds, top)
               /\ JumpsKept(h, funcs) => JumpsKept(g, funcs)
  <1> DEFINE t == h[b].s[j]
             going == Names(h, Below(h, t, Jumps))
             u == Unlabelled(h, going)
             g == Deleted(u, b, j)
  <1>1. /\ Kept(u, funcs) /\ HashesKept(u, ds, top)
        /\ \A x \in DOMAIN u : x \in DOMAIN h /\ u[x].up \subseteq h[x].up
        /\ JumpsKept(h, funcs) =>
              /\ JumpsKept(u, funcs)
              /\ \A x \in DOMAIN u : u[x].k \in Jumps => h[x].k \in Jumps /\ h[x].n \notin going
        /\ b \in Blocks(u)
        /\ j \in DOMAIN u[b].s /\ u[b].s[j] = t /\ u[t].k \in {"If", "For"}
    BY UnlabelledPrune
  <1>2. \A x \in DOMAIN h : t \in h[x].up /\ h[x].k \in Jumps => h[x].n \in going
    BY DEF Names, Below
  <1> HIDE DEF t, going, u
  <1>3. Forest(u)
    BY <1>1 DEF Kept
  <1>4. CutFrom(g, u, b, Tree(u, t))
    BY <1>1, <1>3, DeletedCuts
  <1> HIDE DEF g
  <1>5. t \in Items(u, b)
    BY <1>1 DEF Items, Range
  <1>6. \A d, y \in Items(u, b) : d \in Tree(u, t) /\ y \notin Tree(u, t) => u[d].k \notin Decls \cup {"Call"}
    <2>1. \A d \in Items(u, b) : d \in Tree(u, t) => d = t
      BY <1>1, <1>3, <1>5, DeletedItem
    <2>2. u[t].k \notin Decls \cup {"Call"}
      BY <1>1 DEF Decls
    <2> QED BY <2>1, <2>2
  <1>7. JumpsKept(h, funcs) => \A x \in Tree(u, t) : u[x].k \notin Jumps
    <2> SUFFICES ASSUME JumpsKept(h, funcs), NEW x \in Tree(u, t), u[x].k \in Jumps PROVE FALSE
      OBVIOUS
    <2>1. x \in DOMAIN u /\ x # t
      BY <1>1 DEF Tree, Jumps
    <2>2. t \in h[x].up /\ h[x].k \in Jumps /\ h[x].n \notin going /\ x \in DOMAIN h
      BY <2>1, <1>1 DEF Tree
    <2> QED BY <2>2, <1>2
  <1>8. /\ Kept(g, funcs) /\ HashesKept(g, ds, top)
        /\ JumpsKept(h, funcs) => JumpsKept(g, funcs)
    BY <1>1, <1>4, <1>6, <1>7, CutShrinks
  <1> QED BY <1>8 DEF g, u, going, t

LEMMA CompoundPruneKeeps ==
    ASSUME NEW h, NEW funcs, Kept(h, funcs), NEW ds, NEW top, HashesKept(h, ds, top), NEW b \in Blocks(h)
    PROVE  LET g == Emptied(Unlabelled(h, Names(h, Below(h, b, Jumps))), b)
           IN  /\ Kept(g, funcs) /\ HashesKept(g, ds, top)
               /\ JumpsKept(h, funcs) => JumpsKept(g, funcs)
  <1> DEFINE going == Names(h, Below(h, b, Jumps))
             u == Unlabelled(h, going)
             g == Emptied(u, b)
             gone == {x \in DOMAIN u : b \in u[x].up}
  <1>1. /\ Kept(u, funcs) /\ HashesKept(u, ds, top)
        /\ \A x \in DOMAIN u : x \in DOMAIN h /\ u[x].up \subseteq h[x].up
        /\ JumpsKept(h, funcs) =>
              /\ JumpsKept(u, funcs)
              /\ \A x \in DOMAIN u : u[x].k \in Jumps => h[x].k \in Jumps /\ h[x].n \notin going
        /\ b \in Blocks(u)
    BY UnlabelledPrune
  <1>2. \A x \in DOMAIN h : b \in h[x].up /\ h[x].k \in Jumps => h[x].n \in going
    BY DEF Names, Below
  <1> HIDE DEF going, u
  <1>3. Forest(u)
    BY <1>1 DEF Kept
  <1>4. CutFrom(g, u, b, gone)
    BY <1>1, <1>3, EmptiedCuts
  <1> HIDE DEF g
  <1>5. Items(u, b) \subseteq gone
    BY <1>1, <1>3, ForestParts, ItemsInHeap DEF ItemsBelow, Blocks
  <1>6. JumpsKept(h, funcs) => \A x \in gone : u[x].k \notin Jumps
    BY <1>1, <1>2
  <1> HIDE DEF gone
  <1>7. /\ Kept(g, funcs) /\ HashesKept(g, ds, top)
        /\ JumpsKept(h, funcs) => JumpsKept(g, funcs)
    BY <1>1, <1>4, <1>5, <1>6, CutShrinks
  <1> QED BY <1>7 DEF g, u, going

\* Every label and jump that goes is a statement of a block.
LEMMA NamesPlaced ==
    ASSUME NEW h, JumpsPlaced(h), NEW target
    PROVE  Names(h, Below(h, target, Jumps)) \subseteq Names(h, Placed(h, Jumps))
  BY DEF JumpsPlaced, Names, Below, Placed, Items

-----------------------------------------------------------------------------
(* The right side of an assignment in a function of its own.               *)

\* m is h with other uses in its assignments.
SameShape(m, h) ==
    /\ DOMAIN m = DOMAIN h
    /\ \A x \in DOMAIN h : /\ m[x].k = h[x].k /\ m[x].n = h[x].n /\ m[x].s = h[x].s /\ m[x].up = h[x].up
                           /\ h[x].k # "Assignment" => m[x].e = h[x].e

LEMMA SameShapeKeeps ==
    ASSUME NEW h, Forest(h), NEW m, SameShape(m, h), NEW funcs,
           Shaped(h), Rooted(h, funcs),
           NEW ds, HashedOnce(h), HashFollows(h, ds), NEW top, CallsBelow(h, top)
    PROVE  /\ Forest(m) /\ Shaped(m) /\ Rooted(m, funcs)
           /\ HashedOnce(m) /\ HashFollows(m, ds) /\ CallsBelow(m, top)
           /\ JumpsKept(h, funcs) => JumpsKept(m, funcs)
           /\ \A x \in DOMAIN h : \A v : Declared(h, v, x) => Declared(m, v, x)
  <1>1. /\ DOMAIN m = DOMAIN h
        /\ \A x \in DOMAIN h : /\ m[x].k = h[x].k /\ m[x].n = h[x].n /\ m[x].s = h[x].s /\ m[x].up = h[x].up
                               /\ h[x].k # "Assignment" => m[x].e = h[x].e
                               /\ Items(m, x) = Items(h, x)
    BY DEF SameShape, Items
  <1>2. ItemsKnown(h) /\ ItemsBelow(h) /\ UpKnown(h) /\ UpNested(h) /\ UpLinked(h) /\ UpChain(h)
    BY ForestParts
  <1>3. \A x \in DOMAIN h : Items(h, x) \subseteq DOMAIN h
    BY <1>2, ItemsInHeap
  <1>4. ItemsKnown(m) /\ ItemsBelow(m) /\ UpKnown(m)
    <2>1. ItemsKnown(m)
      BY <1>1, <1>2 DEF ItemsKnown
    <2>2. ItemsBelow(m)
      <3> SUFFICES ASSUME NEW x \in DOMAIN m, NEW y \in Items(m, x) PROVE m[y].up = m[x].up \cup {x}
        BY DEF ItemsBelow
      <3>1. x \in DOMAIN h /\ y \in Items(h, x) /\ y \in DOMAIN h
        BY <1>1, <1>3
      <3> QED BY <3>1, <1>1, <1>2 DEF ItemsBelow
    <2>3. UpKnown(m)
      BY <1>1, <1>2 DEF UpKnown
    <2> QED BY <2>1, <2>2, <2>3
  <1>5. UpNested(m) /\ UpChain(m)
    BY <1>1, <1>2 DEF UpKnown, UpNested, UpChain
  <1>6. UpLinked(m)
    BY <1>1, <1>2 DEF UpKnown, UpLinked
  <1>7. Forest(m)
    BY <1>4, <1>5, <1>6, ForestParts
  <1>8. Blocks(m) = Blocks(h)
    BY <1>1 DEF Blocks, IsBlock
  <1>9. Shaped(m)
    <2> SUFFICES ASSUME NEW x \in DOMAIN h
                 PROVE  /\ m[x].k \in Simple => m[x].s = <<>>
                        /\ m[x].k = "Label" => /\ Len(m[x].s) = 1
                                               /\ m[m[x].s[1]].k \notin Jumps \cup Decls \cup {"Call"}
      BY <1>1 DEF Shaped
    <2>1. CASE h[x].k # "Label"
      BY <2>1, <1>1 DEF Shaped
    <2>2. CASE h[x].k = "Label"
      <3>1. Len(h[x].s) = 1 /\ h[h[x].s[1]].k \notin Jumps \cup Decls \cup {"Call"} /\ h[x].s \in Seq(DOMAIN h)
        BY <2>2, <1>2 DEF Shaped, ItemsKnown
      <3>2. h[x].s[1] \in DOMAIN h
        BY <3>1
      <3> QED BY <3>1, <3>2, <2>2, <1>1 DEF Simple
    <2> QED BY <2>1, <2>2
  <1>10. Rooted(m, funcs) /\ (JumpsPlaced(h) => JumpsPlaced(m))
    BY <1>1, <1>8 DEF JumpsPlaced, Rooted, Blocks
  <1>11. JumpsKept(h, funcs) => JumpsKept(m, funcs)
    <2>1. \A f \in DOMAIN funcs : \A kinds :
              /\ Below(m, funcs[f].body, kinds) = Below(h, funcs[f].body, kinds)
              /\ Names(m, Below(m, funcs[f].body, kinds)) = Names(h, Below(h, funcs[f].body, kinds))
      BY <1>1 DEF Below, Names
    <2> QED BY <2>1, <1>10 DEF JumpsKept, JumpsFit
  <1>12. \A b \in Blocks(h) : b \in DOMAIN h /\ Items(h, b) \subseteq DOMAIN h
    BY <1>3 DEF Blocks
  <1>13. HashedOnce(m)
    <2>1. \A x \in DOMAIN h : m[x].k = "Call" => h[x].k = "Call" /\ m[x].e = h[x].e
      BY <1>1
    <2> QED BY <2>1, <1>1 DEF HashedOnce
  <1>14. HashFollows(m, ds)
    <2> SUFFICES ASSUME NEW b \in Blocks(h), NEW d \in Items(h, b), m[d].k = "Decl", d \in ds
                 PROVE  \E c : Before(m[b].s, d, c) /\ m[c].k = "Call" /\ m[d].n \in m[c].e
      BY <1>1, <1>8, <1>12 DEF HashFollows
    <2>1. d \in DOMAIN h /\ b \in DOMAIN h
      BY <1>12
    <2>2. PICK c : Before(h[b].s, d, c) /\ h[c].k = "Call" /\ h[d].n \in h[c].e
      BY <2>1, <1>1 DEF HashFollows
    <2>3. c \in DOMAIN h
      BY <2>2, <1>12, BeforeItems
    <2> QED BY <2>1, <2>2, <2>3, <1>1
  <1>15. CallsBelow(m, top)
    BY <1>1 DEF CallsBelow
  <1>16. ASSUME NEW x \in DOMAIN h, NEW v, Declared(h, v, x) PROVE Declared(m, v, x)
    <2>1. PICK c, d, y : /\ c \in h[x].up /\ IsBlock(h[c]) /\ Before(h[c].s, d, y) /\ (y = x \/ y \in h[x].up)
                         /\ h[d].k \in Decls /\ h[d].n = v
      BY <1>16, DeclaredBefore
    <2>2. c \in DOMAIN h
      BY <2>1, <1>2 DEF UpKnown
    <2>3. d \in DOMAIN h
      BY <2>1, <2>2, <1>3, BeforeItems
    <2>4. c \in m[x].up /\ IsBlock(m[c]) /\ Before(m[c].s, d, y) /\ (y = x \/ y \in m[x].up) /\ m[d].k \in Decls /\ m[d].n = v
      BY <2>1, <2>2, <2>3, <1>1 DEF IsBlock
    <2> QED BY <2>4, DeclaredBefore
  <1> QED BY <1>7, <1>9, <1>10, <1>11, <1>13, <1>14, <1>15, <1>16

\* A function put before the others.
LEMMA OneMore ==
    ASSUME NEW funcs, funcs \in Seq(Range(funcs)), NEW o
    PROVE  LET more == <<o>> \o funcs
           IN  /\ more \in Seq(Range(more)) /\ DOMAIN more = 1..(Len(funcs) + 1)
               /\ DOMAIN funcs = 1..Len(funcs) /\ Len(funcs) \in Nat
               /\ more[1] = o /\ \A i \in DOMAIN funcs : more[i + 1] = funcs[i]
  <1> DEFINE S == {o} \cup Range(funcs)
             one == <<o>>
             more == one \o funcs
  <1>1. one \in Seq(S) /\ Len(one) = 1 /\ one[1] = o
    OBVIOUS
  <1>2. funcs \in Seq(S) /\ Len(funcs) \in Nat /\ DOMAIN funcs = 1..Len(funcs)
    <2>1. Range(funcs) \subseteq S
      OBVIOUS
    <2> QED BY <2>1, SeqMonotonic, LenProperties
  <1> HIDE DEF S, one
  <1>3. /\ more \in Seq(S) /\ Len(more) = Len(one) + Len(funcs)
        /\ \A i \in 1..(Len(one) + Len(funcs)) : more[i] = IF i <= Len(one) THEN one[i] ELSE funcs[i - Len(one)]
    BY <1>1, <1>2, ConcatProperties
  <1> HIDE DEF more
  <1>4. more \in Seq(Range(more))
    BY <1>3, SeqShrinks
  <1>5. DOMAIN more = 1..(Len(funcs) + 1)
    BY <1>1, <1>2, <1>3
  <1>6. more[1] = o
    BY <1>1, <1>2, <1>3
  <1>7. ASSUME NEW i \in DOMAIN funcs PROVE more[i + 1] = funcs[i]
    <2>1. i + 1 \in 1..(Len(one) + Len(funcs)) /\ ~(i + 1 <= Len(one)) /\ i + 1 - Len(one) = i
      BY <1>1, <1>2
    <2>2. more[i + 1] = funcs[i + 1 - Len(one)]
      BY <2>1, <1>3
    <2> QED BY <2>1, <2>2
  <1> QED BY <1>2, <1>4, <1>5, <1>6, <1>7 DEF more, one

\* What is used below a function and is not known there is a name of a function.
LEMMA UnknownCalled ==
    ASSUME NEW h, Forest(h), NEW funcs, UsesFit(h, funcs), Rooted(h, funcs), NEW f \in DOMAIN funcs,
           NEW a \in DOMAIN h, funcs[f].body \in h[a].up, NEW u \in Uses(h[a]),
           u \notin Globals, u \notin funcs[f].params, u \notin Names(h, Below(h, funcs[f].body, Decls))
    PROVE  u \in Callable(funcs, f)
  <1> DEFINE body == funcs[f].body
  <1>1. a \in Tree(h, body)
    BY DEF Tree
  <1>2. ~Declared(h, u, a)
    <2> SUFFICES ASSUME Declared(h, u, a) PROVE FALSE
      OBVIOUS
    <2>1. PICK c, d, y : /\ c \in h[a].up /\ IsBlock(h[c]) /\ Before(h[c].s, d, y) /\ (y = a \/ y \in h[a].up)
                         /\ h[d].k \in Decls /\ h[d].n = u
      BY DeclaredBefore
    <2>2. c \in DOMAIN h /\ h[body].up = {}
      BY <2>1, ForestParts DEF UpKnown, Rooted
    <2>3. d \in DOMAIN h /\ h[d].up = h[c].up \cup {c}
      BY <2>1, <2>2, BeforeItems, ItemsInHeap, ForestParts DEF ItemsBelow
    <2>4. body \in h[d].up
      <3>1. body = c \/ body \in h[c].up \/ c \in h[body].up
        BY <2>1, ForestParts DEF UpChain
      <3> QED BY <3>1, <2>2, <2>3
    <2>5. d \in Below(h, body, Decls)
      BY <2>1, <2>3, <2>4 DEF Below
    <2> QED BY <2>1, <2>5 DEF Names
  <1> QED BY <1>1, <1>2 DEF UsesFit

\* The rvalue of the assignment a becomes the body of a new function v, which
\* a calls instead.
RvalueMoved(h, v, a, known, args) ==
    [x \in DOMAIN h \cup {v, v + 1} |->
        IF x = v THEN Node("Compound", 0, {}, <<v + 1>>, {})
        ELSE IF x = v + 1 THEN Node("Return", 0, (h[a].e \ known) \cup args, <<>>, {v})
        ELSE IF x = a THEN Node("Assignment", h[a].n, known \cup {v}, h[a].s, h[a].up)
        ELSE h[x]]

LEMMA ReplaceKeeps ==
    ASSUME NEW h, NEW funcs, Kept(h, funcs), NEW ds, NEW v \in Int, HashesKept(h, ds, v),
           funcs \in Seq(Range(funcs)), NEW f \in DOMAIN funcs,
           NEW a \in Below(h, funcs[f].body, {"Assignment"}),
           NEW locals, funcs[f].params \subseteq locals, Names(h, Below(h, funcs[f].body, Decls)) \subseteq locals,
           NEW args
    PROVE  LET known == h[a].e \cap (locals \cup Globals)
               more == <<Outlined(v, args)>> \o funcs
               g == RvalueMoved(h, v, a, known, args)
           IN  /\ Kept(g, more) /\ HashesKept(g, ds, v + 2) /\ more \in Seq(Range(more))
               /\ JumpsKept(h, funcs) => JumpsKept(g, more)
  <1> DEFINE known == h[a].e \cap (locals \cup Globals)
             o == Outlined(v, args)
             more == <<o>> \o funcs
             g == [x \in DOMAIN h \cup {v, v + 1} |->
                    IF x = v THEN Node("Compound", 0, {}, <<v + 1>>, {})
                    ELSE IF x = v + 1 THEN Node("Return", 0, (h[a].e \ known) \cup args, <<>>, {v})
                    ELSE IF x = a THEN Node("Assignment", h[a].n, known \cup {v}, h[a].s, h[a].up)
                    ELSE h[x]]
             m == [x \in DOMAIN h |-> g[x]]
  <1>1. /\ Forest(h) /\ Shaped(h) /\ Rooted(h, funcs) /\ UsesFit(h, funcs)
        /\ HashedOnce(h) /\ HashFollows(h, ds) /\ CallsBelow(h, v)
        /\ ds \subseteq IntsBelow(v) /\ DOMAIN h \subseteq IntsBelow(v)
    BY DEF Kept, HashesKept
  <1>2. v \notin DOMAIN h /\ v + 1 \notin DOMAIN h /\ v # v + 1
    BY <1>1 DEF IntsBelow
  <1>3. a \in DOMAIN h /\ funcs[f].body \in h[a].up /\ h[a].k = "Assignment"
    BY DEF Below
  <1>4. known \subseteq h[a].e /\ \A u \in h[a].e \ known : u \notin locals /\ u \notin Globals
    OBVIOUS
  <1>5. /\ g[v] = Node("Compound", 0, {}, <<v + 1>>, {})
        /\ g[v + 1] = Node("Return", 0, (h[a].e \ known) \cup args, <<>>, {v})
        /\ g[a] = Node("Assignment", h[a].n, known \cup {v}, h[a].s, h[a].up)
        /\ \A x \in DOMAIN h \ {a} : g[x] = h[x]
        /\ DOMAIN g = DOMAIN h \cup {v, v + 1}
    BY <1>2, <1>3
  <1>6. /\ DOMAIN m = DOMAIN h /\ \A x \in DOMAIN h : m[x] = g[x]
    OBVIOUS
  <1> HIDE DEF known, g, m
  <1>7. /\ g[v].k = "Compound" /\ g[v].e = {} /\ g[v].s = <<v + 1>> /\ g[v].up = {}
        /\ g[v + 1].k = "Return" /\ g[v + 1].e = (h[a].e \ known) \cup args /\ g[v + 1].s = <<>> /\ g[v + 1].up = {v}
        /\ g[a].k = "Assignment" /\ g[a].n = h[a].n /\ g[a].e = known \cup {v} /\ g[a].s = h[a].s /\ g[a].up = h[a].up
    BY <1>5 DEF Node
  <1>8. SameShape(m, h)
    BY <1>3, <1>5, <1>6, <1>7 DEF SameShape
  <1>9. /\ Forest(m) /\ Shaped(m) /\ Rooted(m, funcs)
        /\ HashedOnce(m) /\ HashFollows(m, ds) /\ CallsBelow(m, v)
        /\ JumpsKept(h, funcs) => JumpsKept(m, funcs)
        /\ \A x \in DOMAIN h : \A u : Declared(h, u, x) => Declared(m, u, x)
    BY <1>1, <1>8, SameShapeKeeps
  <1>10. Extends(g, m)
    <2>1. \A x \in DOMAIN m : /\ g[x] = m[x] /\ Items(m, x) \subseteq DOMAIN m /\ Len(m[x].s) \in Nat
      BY <1>6, <1>9, ForestParts, ItemsInHeap, LenProperties DEF ItemsKnown
    <2>2. \A x \in DOMAIN m : Items(g, x) = Items(m, x)
      BY <2>1 DEF Items
    <2> QED BY <2>1, <2>2, <1>5, <1>6 DEF Extends
  <1>11. Forest(g)
    <2>1. ItemsKnown(m) /\ ItemsBelow(m) /\ UpKnown(m) /\ UpNested(m) /\ UpLinked(m) /\ UpChain(m)
      BY <1>9, ForestParts
    <2>2. \A x \in DOMAIN m : g[x] = m[x] /\ Items(g, x) = Items(m, x) /\ Items(m, x) \subseteq DOMAIN m
      BY <1>6, <2>1, ItemsInHeap DEF Items
    <2>3. DOMAIN g = DOMAIN m \cup {v, v + 1} /\ v \notin DOMAIN m /\ v + 1 \notin DOMAIN m
      BY <1>2, <1>5, <1>6
    <2>4. Items(g, v) = {v + 1} /\ Items(g, v + 1) = {}
      BY <1>7 DEF Items, Range
    <2>5. ItemsKnown(g)
      <3> SUFFICES ASSUME NEW x \in DOMAIN g PROVE g[x].s \in Seq(DOMAIN g) /\ IsInjective(g[x].s)
        BY DEF ItemsKnown
      <3>1. CASE x \in DOMAIN m
        BY <3>1, <2>1, <2>2, <2>3, SeqMonotonic DEF ItemsKnown
      <3>2. CASE x = v
        <4>1. <<v + 1>> \in Seq(DOMAIN g) /\ IsInjective(<<v + 1>>)
          BY <2>3 DEF IsInjective
        <4> QED BY <3>2, <4>1, <1>7
      <3>3. CASE x = v + 1
        <4>1. <<>> \in Seq(DOMAIN g) /\ IsInjective(<<>>)
          BY DEF IsInjective
        <4> QED BY <3>3, <4>1, <1>7
      <3> QED BY <3>1, <3>2, <3>3, <2>3
    <2>6. ItemsBelow(g)
      <3> SUFFICES ASSUME NEW x \in DOMAIN g, NEW y \in Items(g, x) PROVE g[y].up = g[x].up \cup {x}
        BY DEF ItemsBelow
      <3>1. CASE x \in DOMAIN m
        <4>1. y \in Items(m, x) /\ y \in DOMAIN m
          BY <3>1, <2>2
        <4> QED BY <3>1, <4>1, <2>1, <2>2 DEF ItemsBelow
      <3>2. CASE x = v
        BY <3>2, <2>4, <1>7
      <3> QED BY <3>1, <3>2, <2>3, <2>4
    <2>7. UpKnown(g)
      BY <2>1, <2>2, <2>3, <1>7 DEF UpKnown
    <2>8. UpNested(g)
      <3> SUFFICES ASSUME NEW x \in DOMAIN g, NEW c \in g[x].up PROVE g[c].up \subseteq g[x].up
        BY DEF UpNested
      <3>1. CASE x \in DOMAIN m
        BY <3>1, <2>1, <2>2 DEF UpKnown, UpNested
      <3>2. CASE x \notin DOMAIN m
        BY <3>2, <2>3, <1>7
      <3> QED BY <3>1, <3>2
    <2>9. UpLinked(g)
      <3> SUFFICES ASSUME NEW x \in DOMAIN g, NEW c \in g[x].up PROVE \E y \in Items(g, c) : y = x \/ y \in g[x].up
        BY DEF UpLinked
      <3>1. CASE x \in DOMAIN m
        BY <3>1, <2>1, <2>2 DEF UpKnown, UpLinked
      <3>2. CASE x \notin DOMAIN m
        BY <3>2, <2>3, <2>4, <1>7
      <3> QED BY <3>1, <3>2
    <2>10. UpChain(g)
      <3> SUFFICES ASSUME NEW x \in DOMAIN g, NEW c \in g[x].up, NEW d \in g[x].up
                   PROVE  c = d \/ c \in g[d].up \/ d \in g[c].up
        BY DEF UpChain
      <3>1. CASE x \in DOMAIN m
        BY <3>1, <2>1, <2>2 DEF UpKnown, UpChain
      <3>2. CASE x \notin DOMAIN m
        BY <3>2, <2>3, <1>7
      <3> QED BY <3>1, <3>2
    <2> QED BY <2>5, <2>6, <2>7, <2>8, <2>9, <2>10, ForestParts
  <1>12. \A x \in DOMAIN g \ DOMAIN m : x \in {v, v + 1} /\ g[x].k \in {"Compound", "Return"}
    BY <1>5, <1>6, <1>7
  <1>13. Shaped(g) /\ Rooted(g, funcs) /\ (JumpsKept(h, funcs) => JumpsKept(g, funcs))
    <2>1. \A x \in DOMAIN g \ DOMAIN m : g[x].k \notin Jumps /\ (g[x].k \in Simple => g[x].s = <<>>)
      BY <1>5, <1>6, <1>7, <1>12 DEF Jumps, Simple
    <2>2. \A x \in DOMAIN g \ DOMAIN m : g[x].k # "Label" /\ g[x].k # "Goto"
      BY <2>1 DEF Jumps
    <2>3. Shaped(g) /\ Rooted(g, funcs)
      BY <2>1, <2>2, <1>9, <1>10, ExtendsKeeps
    <2>4. ASSUME JumpsKept(h, funcs) PROVE JumpsKept(g, funcs)
      BY <2>1, <2>2, <2>4, <1>9, <1>10, ExtendsJumps
    <2> QED BY <2>3, <2>4
  <1>14. /\ more \in Seq(Range(more)) /\ DOMAIN more = 1..(Len(funcs) + 1)
         /\ DOMAIN funcs = 1..Len(funcs) /\ Len(funcs) \in Nat
         /\ more[1] = o /\ \A i \in DOMAIN funcs : more[i + 1] = funcs[i]
    BY OneMore
  <1>15. o.name = v /\ o.params = args /\ o.body = v /\ o.made = TRUE
    BY DEF Outlined
  <1> HIDE DEF more, o
  <1>16. ASSUME NEW p \in DOMAIN more, p # 1 PROVE \E i \in DOMAIN funcs : p = i + 1 /\ more[p] = funcs[i]
    <2>1. p - 1 \in DOMAIN funcs /\ p = (p - 1) + 1
      BY <1>14, <1>16
    <2>2. more[(p - 1) + 1] = funcs[p - 1]
      BY <2>1, <1>14
    <2> QED BY <2>1, <2>2
  <1>17. Rooted(g, more)
    <2> SUFFICES ASSUME NEW p \in DOMAIN more PROVE more[p].body \in DOMAIN g /\ g[more[p].body].up = {}
      BY DEF Rooted
    <2>1. CASE p = 1
      BY <2>1, <1>5, <1>7, <1>14, <1>15
    <2>2. CASE p # 1
      BY <2>2, <1>13, <1>16 DEF Rooted
    <2> QED BY <2>1, <2>2
  <1>18. \A x \in DOMAIN g : v \in g[x].up => x = v + 1
    <2>1. \A x \in DOMAIN m : g[x].up \subseteq DOMAIN m
      BY <1>9, <1>10, ForestParts DEF UpKnown, Extends
    <2> QED BY <2>1, <1>2, <1>5, <1>6, <1>7
  <1>19. JumpsKept(h, funcs) => JumpsKept(g, more)
    <2> SUFFICES ASSUME JumpsKept(h, funcs), NEW p \in DOMAIN more
                 PROVE  Names(g, Below(g, more[p].body, {"Goto"})) \subseteq Names(g, Below(g, more[p].body, {"Label"}))
      BY <1>13 DEF JumpsKept, JumpsFit
    <2>1. CASE p = 1
      <3>1. Below(g, more[p].body, {"Goto"}) = {}
        BY <2>1, <1>7, <1>14, <1>15, <1>18 DEF Below
      <3> QED BY <3>1 DEF Names
    <2>2. CASE p # 1
      BY <2>2, <1>13, <1>16 DEF JumpsKept, JumpsFit
    <2> QED BY <2>1, <2>2
  <1>20. UsesFit(g, more)
    <2> SUFFICES ASSUME NEW p \in DOMAIN more, NEW x \in Tree(g, more[p].body), NEW u \in Uses(g[x])
                 PROVE  u \in Globals \cup Callable(more, p) \cup more[p].params \/ Declared(g, u, x)
      BY DEF UsesFit
    <2>1. CASE p = 1
      <3>1. x = v \/ x = v + 1
        BY <2>1, <1>14, <1>15, <1>18 DEF Tree
      <3>2. x = v + 1 /\ u \in (h[a].e \ known) \cup args
        BY <3>1, <1>7 DEF Uses, IsBlock
      <3>3. CASE u \in args
        BY <3>3, <2>1, <1>14, <1>15
      <3>4. CASE u \in h[a].e \ known
        <4>1. u \in Uses(h[a]) /\ u \notin Globals /\ u \notin locals
          BY <3>4, <1>3, <1>4 DEF Uses, IsBlock
        <4>2. u \in Callable(funcs, f)
          BY <4>1, <1>1, <1>3, UnknownCalled
        <4>3. PICK i \in DOMAIN funcs : u = funcs[i].name
          BY <4>2 DEF Callable
        <4>4. i + 1 \in DOMAIN more /\ more[i + 1] = funcs[i] /\ more[p].made
          BY <2>1, <1>14, <1>15
        <4>5. u \in Callable(more, p)
          BY <4>3, <4>4 DEF Callable
        <4> QED BY <4>5
      <3> QED BY <3>2, <3>3, <3>4
    <2>2. CASE p # 1
      <3>1. PICK i \in DOMAIN funcs : p = i + 1 /\ more[p] = funcs[i]
        BY <2>2, <1>16
      <3>2. funcs[i].body \in DOMAIN h /\ i \in Int
        BY <1>1, <1>14 DEF Rooted
      <3>3. x \in DOMAIN h /\ x \in Tree(h, funcs[i].body)
        <4>1. x \in DOMAIN g /\ (x = funcs[i].body \/ funcs[i].body \in g[x].up)
          BY <3>1 DEF Tree
        <4>2. x \in DOMAIN h
          BY <4>1, <3>2, <1>2, <1>5, <1>7
        <4>3. g[x].up = h[x].up
          BY <4>2, <1>5, <1>7
        <4> QED BY <4>1, <4>2, <4>3 DEF Tree
      <3>4. ASSUME NEW w \in Callable(funcs, i) PROVE w \in Callable(more, p)
        <4>1. PICK j \in DOMAIN funcs : w = funcs[j].name /\ (~funcs[j].made \/ funcs[i].made \/ j < i)
          BY DEF Callable
        <4>2. j \in Int /\ j + 1 \in DOMAIN more /\ more[j + 1] = funcs[j] /\ (j < i => j + 1 < p)
          BY <3>1, <3>2, <1>14
        <4> QED BY <3>1, <4>1, <4>2 DEF Callable
      <3>5. \A w : Declared(h, w, x) => Declared(g, w, x)
        BY <3>3, <1>6, <1>9, <1>10, ExtendsDeclared
      <3>6. CASE u \in Uses(h[x])
        <4>1. u \in Globals \cup Callable(funcs, i) \cup funcs[i].params \/ Declared(h, u, x)
          BY <3>3, <3>6, <1>1 DEF UsesFit
        <4> QED BY <4>1, <3>1, <3>4, <3>5
      <3>7. CASE u \notin Uses(h[x])
        <4>1. x = a
          BY <3>3, <3>7, <1>5
        <4>2. u = v
          BY <4>1, <3>7, <1>3, <1>4, <1>7 DEF Uses, IsBlock
        <4>3. 1 \in DOMAIN more /\ 1 < p /\ more[1].name = v
          BY <3>1, <1>14, <1>15
        <4>4. u \in Callable(more, p)
          BY <4>2, <4>3 DEF Callable
        <4> QED BY <4>4
      <3> QED BY <3>6, <3>7
    <2> QED BY <2>1, <2>2
  <1>21. HashedOnce(g) /\ HashFollows(g, ds)
    <2>2. \A c \in DOMAIN g \ DOMAIN m : g[c].k # "Call" /\ g[c].k # "Decl"
      BY <1>12
    <2>3. \A b \in Blocks(g) : Items(g, b) \subseteq DOMAIN g
      BY <1>11, ItemsInHeap, ForestParts DEF Blocks
    <2>4. \A b \in Blocks(g) : \A d \in Items(g, b) :
              d \in ds /\ ~(d \in ds /\ d \in DOMAIN m) /\ g[d].k = "Decl" =>
                  \E c : Before(g[b].s, d, c) /\ g[c].k = "Call" /\ g[d].n \in g[c].e
      BY <2>2, <2>3
    <2> QED BY <2>2, <2>4, <1>9, <1>10, <1>11, ExtendsHashes
  <1>22. CallsBelow(g, v + 2)
    <2> SUFFICES ASSUME NEW x \in DOMAIN g, g[x].k = "Call" PROVE g[x].e \subseteq IntsBelow(v + 2)
      BY DEF CallsBelow
    <2>1. x \in DOMAIN m
      BY <1>12
    <2>2. g[x].k = m[x].k /\ g[x].e = m[x].e
      BY <2>1, <1>10 DEF Extends
    <2> QED BY <2>1, <2>2, <1>9 DEF CallsBelow, IntsBelow
  <1>23. ds \subseteq IntsBelow(v + 2) /\ DOMAIN g \subseteq IntsBelow(v + 2)
    BY <1>1, <1>5 DEF IntsBelow
  <1>24. /\ Kept(g, more) /\ HashesKept(g, ds, v + 2) /\ more \in Seq(Range(more))
         /\ JumpsKept(h, funcs) => JumpsKept(g, more)
    BY <1>11, <1>13, <1>14, <1>17, <1>19, <1>20, <1>21, <1>22, <1>23 DEF Kept, HashesKept
  <1> QED BY <1>24 DEF g, known, more, o, RvalueMoved

-----------------------------------------------------------------------------
(* Seeds.                                                                  *)

\* What a seed is, also when its loose statements are in blocks.
NoCall(h) == \A x \in DOMAIN h : h[x].k # "Call"
DeclaredOnce(h) ==
    \A x, y \in DOMAIN h : h[x].k \in LocalKinds /\ h[y].k \in LocalKinds /\ h[x].n = h[y].n => x = y
LocalsBelow(h, v) == \A x \in DOMAIN h : h[x].k \in LocalKinds => h[x].n \in IntsBelow(v)
ReturnsLast(h) == \A b \in Blocks(h) : \A j \in DOMAIN h[b].s : h[h[b].s[j]].k = "Return" => j = Len(h[b].s)

LEMMA SeedFacts ==
    ASSUME NEW h, NEW funcs, IsSeed([funcs |-> funcs, nodes |-> h])
    PROVE  /\ Forest(h) /\ DOMAIN h \subseteq 1..(SeedTop - 1)
           /\ funcs \in Seq(Range(funcs)) /\ Rooted(h, funcs)
           /\ JumpsFit(h, funcs) /\ UsesFit(h, funcs)
           /\ NoCall(h) /\ DeclaredOnce(h) /\ ReturnsLast(h) /\ Shaped(h) /\ LocalsBelow(h, FirstFresh)
           /\ \A x \in DOMAIN h : h[x].k \in Jumps =>
                 \E c \in DOMAIN h : x \in Items(h, c) /\ (IsBlock(h[c]) \/ h[c].k \in Controls)
  <1> DEFINE Func == [name : Int, params : SUBSET Int, body : DOMAIN h, made : {FALSE}]
  <1>1. /\ Forest(h) /\ DOMAIN h \subseteq 1..(SeedTop - 1)
        /\ \A x \in DOMAIN h : {h[x].n} \cup h[x].e \subseteq {v \in Int : v < FirstFresh}
        /\ funcs \in Seq(Func)
        /\ \A f \in DOMAIN funcs : h[funcs[f].body].up = {}
        /\ JumpsFit(h, funcs) /\ UsesFit(h, funcs)
        /\ \A x \in DOMAIN h :
              /\ h[x].k \in Jumps =>
                    \E c \in DOMAIN h : x \in Range(h[c].s) /\ (IsBlock(h[c]) \/ h[c].k \in Controls)
              /\ h[x].k \in Simple => h[x].s = <<>>
              /\ h[x].k = "Label" => Len(h[x].s) = 1 /\ h[h[x].s[1]].k \notin Jumps \cup Decls
              /\ h[x].k # "Call"
              /\ h[x].k \in LocalKinds => \A y \in DOMAIN h : h[y].k \in LocalKinds /\ h[y].n = h[x].n => y = x
        /\ \A b \in Blocks(h) : \A j \in DOMAIN h[b].s : h[h[b].s[j]].k = "Return" => j = Len(h[b].s)
    BY DEF IsSeed, LocalKinds
  <1>2. funcs \in Seq(Range(funcs)) /\ \A f \in DOMAIN funcs : funcs[f] \in Func
    <2>1. funcs \in [1..Len(funcs) -> Func] /\ DOMAIN funcs = 1..Len(funcs)
      BY <1>1, LenProperties
    <2> QED BY <2>1, <1>1, SeqShrinks
  <1>3. Rooted(h, funcs)
    BY <1>1, <1>2 DEF Rooted
  <1>4. NoCall(h) /\ DeclaredOnce(h) /\ ReturnsLast(h)
    BY <1>1 DEF NoCall, DeclaredOnce, ReturnsLast
  <1>5. LocalsBelow(h, FirstFresh)
    BY <1>1 DEF LocalsBelow, IntsBelow
  <1>6. Shaped(h)
    <2> SUFFICES ASSUME NEW x \in DOMAIN h, h[x].k = "Label"
                 PROVE  Len(h[x].s) = 1 /\ h[h[x].s[1]].k \notin Jumps \cup Decls \cup {"Call"}
      BY <1>1 DEF Shaped
    <2>1. Len(h[x].s) = 1 /\ h[h[x].s[1]].k \notin Jumps \cup Decls /\ h[x].s \in Seq(DOMAIN h)
      BY <1>1, ForestParts DEF ItemsKnown
    <2>2. h[x].s[1] \in DOMAIN h
      BY <2>1
    <2> QED BY <1>1, <2>1, <2>2
  <1>7. \A x \in DOMAIN h : h[x].k \in Jumps =>
            \E c \in DOMAIN h : x \in Items(h, c) /\ (IsBlock(h[c]) \/ h[c].k \in Controls)
    BY <1>1 DEF Items
  <1> QED BY <1>1, <1>2, <1>3, <1>4, <1>5, <1>6, <1>7

-----------------------------------------------------------------------------
(* Blocks around the loose statements.                                     *)

Wrap(y) == SeedTop + y
Wraps(h, xs) == {Wrap(y) : y \in xs \cap Loose(h)}
Out(h, y) == IF y \in Loose(h) THEN Wrap(y) ELSE y

WrappedFrom(g, h) ==
    /\ DOMAIN g = DOMAIN h \cup {Wrap(y) : y \in Loose(h)}
    /\ \A y \in Loose(h) : /\ y \in DOMAIN h /\ Wrap(y) \notin DOMAIN h
                           /\ \A z \in Loose(h) : Wrap(y) = Wrap(z) => y = z
    /\ \A x \in DOMAIN h : /\ g[x].k = h[x].k /\ g[x].n = h[x].n /\ g[x].e = h[x].e
                           /\ g[x].s = [j \in DOMAIN h[x].s |-> Out(h, h[x].s[j])]
                           /\ g[x].up = h[x].up \cup Wraps(h, h[x].up \cup {x})
    /\ \A y \in Loose(h) : /\ g[Wrap(y)].k = "Compound" /\ g[Wrap(y)].e = {} /\ g[Wrap(y)].s = <<y>>
                           /\ g[Wrap(y)].up = h[y].up \cup Wraps(h, h[y].up)

LEMMA WrappedFacts ==
    ASSUME NEW h, DOMAIN h \subseteq 1..(SeedTop - 1)
    PROVE  WrappedFrom(Wrapped(h), h) /\ DOMAIN Wrapped(h) \subseteq 1..(2 * SeedTop - 1)
  <1> DEFINE g == Wrapped(h)
             D == DOMAIN h \cup {Wrap(y) : y \in Loose(h)}
             around(xs) == {SeedTop + x : x \in xs \cap Loose(h)}
             S(x) == [j \in DOMAIN h[x].s |-> IF h[x].s[j] \in Loose(h) THEN SeedTop + h[x].s[j] ELSE h[x].s[j]]
  <1>1. g = [x \in DOMAIN h \cup around(Loose(h)) |->
                IF x \in DOMAIN h
                THEN Node(h[x].k, h[x].n, h[x].e, S(x), h[x].up \cup around(h[x].up \cup {x}))
                ELSE Node("Compound", 0, {}, <<x - SeedTop>>, h[x - SeedTop].up \cup around(h[x - SeedTop].up))]
    BY DEF Wrapped
  <1>2. \A xs : around(xs) = Wraps(h, xs)
    BY DEF Wraps, Wrap
  <1>3. \A x : S(x) = [j \in DOMAIN h[x].s |-> Out(h, h[x].s[j])]
    BY DEF Out, Wrap
  <1>4. Loose(h) \subseteq DOMAIN h
    BY DEF Loose
  <1>5. SeedTop \in Nat
    BY BoundsAssumption
  <1>6. \A y \in DOMAIN h : /\ y \in Int /\ Wrap(y) \notin DOMAIN h /\ Wrap(y) - SeedTop = y
                            /\ Wrap(y) \in 1..(2 * SeedTop - 1) /\ y \in 1..(2 * SeedTop - 1)
    BY <1>5 DEF Wrap
  <1>7. around(Loose(h)) = {Wrap(y) : y \in Loose(h)}
    BY DEF Wrap
  <1>8. g = [x \in D |->
                IF x \in DOMAIN h
                THEN Node(h[x].k, h[x].n, h[x].e, S(x), h[x].up \cup around(h[x].up \cup {x}))
                ELSE Node("Compound", 0, {}, <<x - SeedTop>>, h[x - SeedTop].up \cup around(h[x - SeedTop].up))]
    BY <1>1, <1>7
  <1> HIDE DEF g, around, S
  <1>9. DOMAIN g = D /\ \A x \in DOMAIN h : g[x] = Node(h[x].k, h[x].n, h[x].e, S(x), h[x].up \cup around(h[x].up \cup {x}))
    BY <1>8
  <1>10. \A y \in Loose(h) : g[Wrap(y)] = Node("Compound", 0, {}, <<y>>, h[y].up \cup around(h[y].up))
    <2> SUFFICES ASSUME NEW y \in Loose(h)
                 PROVE  g[Wrap(y)] = Node("Compound", 0, {}, <<y>>, h[y].up \cup around(h[y].up))
      OBVIOUS
    <2>1. Wrap(y) \in D /\ Wrap(y) \notin DOMAIN h /\ Wrap(y) - SeedTop = y
      BY <1>4, <1>6
    <2>2. g[Wrap(y)] = Node("Compound", 0, {}, <<Wrap(y) - SeedTop>>,
                            h[Wrap(y) - SeedTop].up \cup around(h[Wrap(y) - SeedTop].up))
      BY <2>1, <1>8
    <2> QED BY <2>1, <2>2
  <1>11. \A x \in DOMAIN h : /\ g[x].k = h[x].k /\ g[x].n = h[x].n /\ g[x].e = h[x].e
                             /\ g[x].s = [j \in DOMAIN h[x].s |-> Out(h, h[x].s[j])]
                             /\ g[x].up = h[x].up \cup Wraps(h, h[x].up \cup {x})
    <2> SUFFICES ASSUME NEW x \in DOMAIN h
                 PROVE  /\ g[x].k = h[x].k /\ g[x].n = h[x].n /\ g[x].e = h[x].e
                        /\ g[x].s = [j \in DOMAIN h[x].s |-> Out(h, h[x].s[j])]
                        /\ g[x].up = h[x].up \cup Wraps(h, h[x].up \cup {x})
      OBVIOUS
    <2>1. g[x] = Node(h[x].k, h[x].n, h[x].e, S(x), h[x].up \cup around(h[x].up \cup {x}))
      BY <1>9
    <2>2. /\ g[x].k = h[x].k /\ g[x].n = h[x].n /\ g[x].e = h[x].e
          /\ g[x].s = S(x) /\ g[x].up = h[x].up \cup around(h[x].up \cup {x})
      BY <2>1 DEF Node
    <2>3. S(x) = [j \in DOMAIN h[x].s |-> Out(h, h[x].s[j])]
      BY <1>3
    <2>4. around(h[x].up \cup {x}) = Wraps(h, h[x].up \cup {x})
      BY <1>2
    <2> QED BY <2>2, <2>3, <2>4
  <1>12. \A y \in Loose(h) : /\ g[Wrap(y)].k = "Compound" /\ g[Wrap(y)].e = {} /\ g[Wrap(y)].s = <<y>>
                             /\ g[Wrap(y)].up = h[y].up \cup Wraps(h, h[y].up)
    <2> SUFFICES ASSUME NEW y \in Loose(h)
                 PROVE  /\ g[Wrap(y)].k = "Compound" /\ g[Wrap(y)].e = {} /\ g[Wrap(y)].s = <<y>>
                        /\ g[Wrap(y)].up = h[y].up \cup Wraps(h, h[y].up)
      OBVIOUS
    <2>1. g[Wrap(y)] = Node("Compound", 0, {}, <<y>>, h[y].up \cup around(h[y].up))
      BY <1>10
    <2>2. /\ g[Wrap(y)].k = "Compound" /\ g[Wrap(y)].e = {} /\ g[Wrap(y)].s = <<y>>
          /\ g[Wrap(y)].up = h[y].up \cup around(h[y].up)
      BY <2>1 DEF Node
    <2>3. around(h[y].up) = Wraps(h, h[y].up)
      BY <1>2
    <2> QED BY <2>2, <2>3
  <1>13. \A y \in Loose(h) : /\ y \in DOMAIN h /\ Wrap(y) \notin DOMAIN h
                             /\ \A z \in Loose(h) : Wrap(y) = Wrap(z) => y = z
    <2> SUFFICES ASSUME NEW y \in Loose(h), NEW z \in Loose(h), Wrap(y) = Wrap(z) PROVE y = z
      BY <1>4, <1>6
    <2>1. Wrap(y) - SeedTop = y /\ Wrap(z) - SeedTop = z
      BY <1>4, <1>6
    <2> QED BY <2>1
  <1>14. WrappedFrom(g, h)
    BY <1>9, <1>11, <1>12, <1>13 DEF WrappedFrom
  <1>15. DOMAIN g \subseteq 1..(2 * SeedTop - 1)
    BY <1>4, <1>6, <1>9
  <1> QED BY <1>14, <1>15 DEF g

LEMMA WrappedForest ==
    ASSUME NEW h, Forest(h), NEW g, WrappedFrom(g, h)
    PROVE  /\ Forest(g)
           /\ \A x \in DOMAIN h : Items(g, x) = {Out(h, y) : y \in Items(h, x)}
           /\ \A b \in Blocks(h) : g[b].s = h[b].s
  <1>1. ItemsKnown(h) /\ ItemsBelow(h) /\ UpKnown(h) /\ UpNested(h) /\ UpLinked(h) /\ UpChain(h)
    BY ForestParts
  <1>2. /\ DOMAIN g = DOMAIN h \cup {Wrap(y) : y \in Loose(h)}
        /\ \A y \in Loose(h) : /\ y \in DOMAIN h /\ Wrap(y) \notin DOMAIN h
                               /\ \A z \in Loose(h) : Wrap(y) = Wrap(z) => y = z
        /\ \A x \in DOMAIN h : /\ g[x].s = [j \in DOMAIN h[x].s |-> Out(h, h[x].s[j])]
                               /\ g[x].up = h[x].up \cup Wraps(h, h[x].up \cup {x})
        /\ \A y \in Loose(h) : /\ g[Wrap(y)].s = <<y>>
                               /\ g[Wrap(y)].up = h[y].up \cup Wraps(h, h[y].up)
    BY DEF WrappedFrom
  <1>3. \A x \in DOMAIN h : Items(g, x) = {Out(h, y) : y \in Items(h, x)}
    <2> SUFFICES ASSUME NEW x \in DOMAIN h PROVE Items(g, x) = {Out(h, y) : y \in Items(h, x)}
      OBVIOUS
    <2>1. g[x].s = [j \in DOMAIN h[x].s |-> Out(h, h[x].s[j])]
      BY <1>2
    <2> QED BY <2>1 DEF Items, Range
  <1>4. \A y \in Loose(h) : Items(g, Wrap(y)) = {y}
    BY <1>2 DEF Items, Range
  <1>5. \A x \in DOMAIN h : Out(h, x) \in DOMAIN g /\ \A y \in DOMAIN h : Out(h, x) = Out(h, y) => x = y
    BY <1>2 DEF Out
  <1>6. ItemsKnown(g)
    <2> SUFFICES ASSUME NEW x \in DOMAIN g PROVE g[x].s \in Seq(DOMAIN g) /\ IsInjective(g[x].s)
      BY DEF ItemsKnown
    <2>1. CASE x \in DOMAIN h
      <3>1. h[x].s \in Seq(DOMAIN h) /\ IsInjective(h[x].s)
        BY <2>1, <1>1 DEF ItemsKnown
      <3>2. Len(h[x].s) \in Nat /\ DOMAIN h[x].s = 1..Len(h[x].s) /\ \A j \in DOMAIN h[x].s : h[x].s[j] \in DOMAIN h
        BY <3>1
      <3> DEFINE s == h[x].s
                 r == [j \in DOMAIN s |-> Out(h, s[j])]
      <3>3. g[x].s = r
        BY <2>1, <1>2
      <3>4. /\ IsInjective(s) /\ Len(s) \in Nat /\ DOMAIN s = 1..Len(s)
            /\ \A j \in DOMAIN s : s[j] \in DOMAIN h
        BY <3>1, <3>2
      <3> HIDE DEF s
      <3>5. r \in [1..Len(s) -> DOMAIN g]
        BY <3>4, <1>5
      <3>6. r \in Seq(DOMAIN g)
        BY <3>4, <3>5, SeqDef
      <3>7. IsInjective(r)
        <4>1. DOMAIN r = DOMAIN s /\ \A j \in DOMAIN s : r[j] = Out(h, s[j])
          OBVIOUS
        <4> QED BY <3>4, <4>1, <1>5 DEF IsInjective
      <3> QED BY <3>3, <3>6, <3>7
    <2>2. CASE x \in {Wrap(y) : y \in Loose(h)}
      <3>1. PICK y \in Loose(h) : x = Wrap(y)
        BY <2>2
      <3>2. y \in DOMAIN g /\ g[x].s = <<y>>
        BY <3>1, <1>2
      <3>3. <<y>> \in Seq(DOMAIN g) /\ IsInjective(<<y>>)
        BY <3>2 DEF IsInjective
      <3> QED BY <3>2, <3>3
    <2> QED BY <2>1, <2>2, <1>2
  <1>7. ItemsBelow(g)
    <2> SUFFICES ASSUME NEW x \in DOMAIN g, NEW z \in Items(g, x) PROVE g[z].up = g[x].up \cup {x}
      BY DEF ItemsBelow
    <2>1. CASE x \in DOMAIN h
      <3>1. PICK y \in Items(h, x) : z = Out(h, y)
        BY <2>1, <1>3
      <3>2. y \in DOMAIN h /\ h[y].up = h[x].up \cup {x}
        BY <2>1, <3>1, <1>1, ItemsInHeap DEF ItemsBelow
      <3>3. g[x].up = h[x].up \cup Wraps(h, h[y].up)
        BY <2>1, <3>2, <1>2
      <3>4. CASE y \in Loose(h)
        BY <3>1, <3>2, <3>3, <3>4, <1>2 DEF Out
      <3>5. CASE y \notin Loose(h)
        <4>1. z = y /\ Wraps(h, h[y].up \cup {y}) = Wraps(h, h[y].up)
          BY <3>1, <3>5 DEF Out, Wraps
        <4>2. g[y].up = h[y].up \cup Wraps(h, h[y].up \cup {y})
          BY <3>2, <1>2
        <4> QED BY <4>1, <4>2, <3>2, <3>3
      <3> QED BY <3>4, <3>5
    <2>2. CASE x \in {Wrap(y) : y \in Loose(h)}
      <3>1. PICK y \in Loose(h) : x = Wrap(y)
        BY <2>2
      <3>2. z = y /\ y \in DOMAIN h
        BY <3>1, <1>2, <1>4
      <3>3. Wraps(h, h[y].up \cup {y}) = Wraps(h, h[y].up) \cup {x}
        BY <3>1 DEF Wraps
      <3> QED BY <3>1, <3>2, <3>3, <1>2
    <2> QED BY <2>1, <2>2, <1>2
  <1>8. \A x \in DOMAIN h : h[x].up \subseteq DOMAIN h /\ x \notin h[x].up
    BY <1>1 DEF UpKnown
  \* The two kinds of nodes around a node of h.
  <1>9. \A x \in DOMAIN h : \A a : a \in g[x].up <=> \/ a \in h[x].up
                                                     \/ \E y \in Loose(h) : a = Wrap(y) /\ (y \in h[x].up \/ y = x)
    <2> SUFFICES ASSUME NEW x \in DOMAIN h, NEW a
                 PROVE  a \in g[x].up <=> \/ a \in h[x].up
                                          \/ \E y \in Loose(h) : a = Wrap(y) /\ (y \in h[x].up \/ y = x)
      OBVIOUS
    <2>1. g[x].up = h[x].up \cup Wraps(h, h[x].up \cup {x})
      BY <1>2
    <2>2. a \in Wraps(h, h[x].up \cup {x}) <=> \E y \in Loose(h) : a = Wrap(y) /\ (y \in h[x].up \/ y = x)
      BY Zenon DEF Wraps
    <2> QED BY <2>1, <2>2
  <1>10. \A y \in Loose(h) : \A a : a \in g[Wrap(y)].up <=> \/ a \in h[y].up
                                                            \/ \E z \in Loose(h) : a = Wrap(z) /\ z \in h[y].up
    BY <1>2 DEF Wraps
  <1>11. \A x \in DOMAIN g : \/ x \in DOMAIN h
                             \/ \E y \in Loose(h) : y \in DOMAIN h /\ x = Wrap(y) /\ g[x].up \subseteq g[y].up \ {x}
    <2> SUFFICES ASSUME NEW y \in Loose(h) PROVE y \in DOMAIN h /\ g[Wrap(y)].up \subseteq g[y].up \ {Wrap(y)}
      BY <1>2
    <2>1. y \in DOMAIN h
      BY <1>2
    <2>2. Wrap(y) \notin g[Wrap(y)].up
      BY <2>1, <1>2, <1>8, <1>10
    <2> QED BY <2>1, <2>2, <1>9, <1>10
  <1>12. UpKnown(g)
    <2>1. \A x \in DOMAIN h : g[x].up \subseteq DOMAIN g /\ x \notin g[x].up
      BY <1>2, <1>8, <1>9
    <2> QED BY <2>1, <1>11 DEF UpKnown
  <1>13. \A x \in DOMAIN h : \A a \in h[x].up : h[a].up \subseteq h[x].up
    BY <1>1 DEF UpNested
  <1>14. UpNested(g)
    <2> SUFFICES ASSUME NEW x \in DOMAIN g, NEW a \in g[x].up, NEW c \in g[a].up PROVE c \in g[x].up
      BY DEF UpNested
    <2>1. CASE x \in DOMAIN h
      <3>1. CASE a \in h[x].up
        <4>1. a \in DOMAIN h /\ h[a].up \subseteq h[x].up
          BY <2>1, <3>1, <1>8, <1>13
        <4> QED BY <2>1, <3>1, <4>1, <1>9
      <3>2. CASE a \notin h[x].up
        <4>1. PICK y \in Loose(h) : a = Wrap(y) /\ (y \in h[x].up \/ y = x)
          BY <2>1, <3>2, <1>9
        <4>2. h[y].up \subseteq h[x].up
          BY <2>1, <4>1, <1>13
        <4> QED BY <2>1, <4>1, <4>2, <1>9, <1>10
      <3> QED BY <3>1, <3>2
    <2>2. CASE x \notin DOMAIN h
      <3>1. PICK y \in Loose(h) : y \in DOMAIN h /\ x = Wrap(y)
        BY <2>2, <1>11
      <3>2. CASE a \in h[y].up
        <4>1. a \in DOMAIN h /\ h[a].up \subseteq h[y].up
          BY <3>1, <3>2, <1>8, <1>13
        <4> QED BY <3>1, <3>2, <4>1, <1>9, <1>10
      <3>3. CASE a \notin h[y].up
        <4>1. PICK z \in Loose(h) : a = Wrap(z) /\ z \in h[y].up
          BY <3>1, <3>3, <1>10
        <4>2. h[z].up \subseteq h[y].up
          BY <3>1, <4>1, <1>13
        <4> QED BY <3>1, <4>1, <4>2, <1>10
      <3> QED BY <3>2, <3>3
    <2> QED BY <2>1, <2>2
  <1>15. UpLinked(g)
    <2> SUFFICES ASSUME NEW x \in DOMAIN g, NEW a \in g[x].up PROVE \E z \in Items(g, a) : z = x \/ z \in g[x].up
      BY DEF UpLinked
    <2>1. CASE x \in DOMAIN h
      <3>1. CASE a \in h[x].up
        <4>1. PICK y \in Items(h, a) : y = x \/ y \in h[x].up
          BY <2>1, <3>1, <1>1 DEF UpLinked
        <4>2. Out(h, y) \in Items(g, a)
          BY <2>1, <3>1, <4>1, <1>3, <1>8
        <4>3. Out(h, y) = x \/ Out(h, y) \in g[x].up
          BY <2>1, <4>1, <1>9 DEF Out
        <4> QED BY <4>2, <4>3
      <3>2. CASE a \notin h[x].up
        BY <2>1, <3>2, <1>4, <1>9
      <3> QED BY <3>1, <3>2
    <2>2. CASE x \notin DOMAIN h
      <3>1. PICK y \in Loose(h) : y \in DOMAIN h /\ x = Wrap(y)
        BY <2>2, <1>11
      <3>2. CASE a \in h[y].up
        <4>1. PICK z \in Items(h, a) : z = y \/ z \in h[y].up
          BY <3>1, <3>2, <1>1 DEF UpLinked
        <4>2. Out(h, z) \in Items(g, a)
          BY <3>1, <3>2, <4>1, <1>3, <1>8
        <4>3. Out(h, z) = x \/ Out(h, z) \in g[x].up
          BY <3>1, <4>1, <1>10 DEF Out
        <4> QED BY <4>2, <4>3
      <3>3. CASE a \notin h[y].up
        BY <3>1, <3>3, <1>4, <1>10
      <3> QED BY <3>2, <3>3
    <2> QED BY <2>1, <2>2
  <1>16. ASSUME NEW x \in DOMAIN h, NEW a \in g[x].up, NEW c \in g[x].up
         PROVE  a = c \/ a \in g[c].up \/ c \in g[a].up
    <2>1. \A p, q \in h[x].up \cup {x} : p = q \/ p \in h[q].up \/ q \in h[p].up
      BY <1>1 DEF UpChain
    <2>2. h[x].up \cup {x} \subseteq DOMAIN h
      BY <1>8
    <2>3. \A p, q \in h[x].up \cup {x} :
              /\ p \in h[q].up => p \in g[q].up
              /\ p \in h[q].up /\ q \in Loose(h) => p \in g[Wrap(q)].up
              /\ p \in h[q].up /\ p \in Loose(h) => Wrap(p) \in g[q].up
              /\ p \in h[q].up /\ p \in Loose(h) /\ q \in Loose(h) => Wrap(p) \in g[Wrap(q)].up
              /\ p \in Loose(h) => Wrap(p) \in g[p].up
      BY <2>2, <1>9, <1>10
    <2>4. ASSUME NEW p \in h[x].up, NEW q \in h[x].up \cup {x}, q \in Loose(h)
          PROVE  p \in g[Wrap(q)].up \/ Wrap(q) \in g[p].up
      BY <2>1, <2>3, <2>4
    <2>5. CASE a \in h[x].up /\ c \in h[x].up
      BY <2>1, <2>3, <2>5
    <2>6. CASE a \in h[x].up /\ c \notin h[x].up
      BY <2>4, <2>6, <1>9
    <2>7. CASE a \notin h[x].up /\ c \in h[x].up
      BY <2>4, <2>7, <1>9
    <2>8. CASE a \notin h[x].up /\ c \notin h[x].up
      <3>1. PICK p \in Loose(h) : a = Wrap(p) /\ p \in h[x].up \cup {x}
        BY <2>8, <1>9
      <3>2. PICK q \in Loose(h) : c = Wrap(q) /\ q \in h[x].up \cup {x}
        BY <2>8, <1>9
      <3> QED BY <3>1, <3>2, <2>1, <2>3
    <2> QED BY <2>5, <2>6, <2>7, <2>8
  <1>17. UpChain(g)
    BY <1>11, <1>16 DEF UpChain
  <1>18. Forest(g)
    BY <1>6, <1>7, <1>12, <1>14, <1>15, <1>17, ForestParts
  <1>19. \A b \in Blocks(h) : g[b].s = h[b].s
    <2> SUFFICES ASSUME NEW b \in Blocks(h) PROVE g[b].s = h[b].s
      OBVIOUS
    <2>1. b \in DOMAIN h /\ IsBlock(h[b])
      BY DEF Blocks
    <2>2. \A y \in Items(h, b) : y \notin Loose(h)
      <3> SUFFICES ASSUME NEW y \in Items(h, b), y \in Loose(h) PROVE FALSE
        OBVIOUS
      <3>1. PICK c \in DOMAIN h : h[c].k \in Controls /\ y \in Items(h, c)
        BY DEF Loose, Items
      <3>2. b = c
        BY <2>1, <3>1, OneParent
      <3> QED BY <2>1, <3>1, <3>2, BlockKinds
    <2>3. g[b].s = [j \in DOMAIN h[b].s |-> Out(h, h[b].s[j])]
      BY <2>1, <1>2
    <2>4. \A j \in DOMAIN h[b].s : Out(h, h[b].s[j]) = h[b].s[j]
      BY <2>2 DEF Items, Range, Out
    <2>5. h[b].s \in Seq(DOMAIN h)
      BY <2>1, <1>1 DEF ItemsKnown
    <2>6. h[b].s = [j \in DOMAIN h[b].s |-> h[b].s[j]]
      BY <2>5
    <2> QED BY <2>3, <2>4, <2>6
  <1> QED BY <1>3, <1>18, <1>19

\* A seed with its loose statements in blocks.
IsWrapped(h, funcs) ==
    /\ Kept(h, funcs) /\ JumpsKept(h, funcs) /\ NoCall(h) /\ DeclaredOnce(h) /\ ReturnsLast(h) /\ LocalsBelow(h, FirstFresh)
    /\ DOMAIN h \subseteq 1..(2 * SeedTop - 1)

LEMMA WrappedKeeps ==
    ASSUME NEW h, NEW funcs, IsSeed([funcs |-> funcs, nodes |-> h])
    PROVE  IsWrapped(Wrapped(h), funcs)
  <1> DEFINE g == Wrapped(h)
  <1>1. /\ Forest(h) /\ DOMAIN h \subseteq 1..(SeedTop - 1) /\ Rooted(h, funcs)
        /\ JumpsFit(h, funcs) /\ UsesFit(h, funcs)
        /\ NoCall(h) /\ DeclaredOnce(h) /\ ReturnsLast(h) /\ Shaped(h) /\ LocalsBelow(h, FirstFresh)
        /\ \A x \in DOMAIN h : h[x].k \in Jumps =>
              \E c \in DOMAIN h : x \in Items(h, c) /\ (IsBlock(h[c]) \/ h[c].k \in Controls)
    BY SeedFacts
  <1>2. WrappedFrom(g, h) /\ DOMAIN g \subseteq 1..(2 * SeedTop - 1)
    BY <1>1, WrappedFacts
  <1> HIDE DEF g
  <1>3. /\ Forest(g)
        /\ \A x \in DOMAIN h : Items(g, x) = {Out(h, y) : y \in Items(h, x)}
        /\ \A b \in Blocks(h) : g[b].s = h[b].s
    BY <1>1, <1>2, WrappedForest
  <1>4. ItemsKnown(h) /\ ItemsBelow(h) /\ UpKnown(h) /\ ItemsKnown(g)
    BY <1>1, <1>3, ForestParts
  <1>5. /\ DOMAIN g = DOMAIN h \cup {Wrap(y) : y \in Loose(h)}
        /\ \A x \in DOMAIN h : /\ g[x].k = h[x].k /\ g[x].n = h[x].n /\ g[x].e = h[x].e
                               /\ DOMAIN g[x].s = DOMAIN h[x].s
                               /\ \A j \in DOMAIN h[x].s : g[x].s[j] = Out(h, h[x].s[j])
                               /\ h[x].up \subseteq g[x].up
                               /\ \A f \in DOMAIN h : f \in g[x].up => f \in h[x].up
        /\ \A y \in Loose(h) : /\ g[Wrap(y)].k = "Compound" /\ g[Wrap(y)].s = <<y>> /\ g[Wrap(y)].e = {}
                               /\ y \in DOMAIN h /\ Wrap(y) \notin DOMAIN h
    <2>1. /\ DOMAIN g = DOMAIN h \cup {Wrap(y) : y \in Loose(h)}
          /\ \A y \in Loose(h) : /\ g[Wrap(y)].k = "Compound" /\ g[Wrap(y)].s = <<y>> /\ g[Wrap(y)].e = {}
                                 /\ y \in DOMAIN h /\ Wrap(y) \notin DOMAIN h
      BY <1>2 DEF WrappedFrom
    <2>2. ASSUME NEW x \in DOMAIN h
          PROVE  /\ g[x].k = h[x].k /\ g[x].n = h[x].n /\ g[x].e = h[x].e
                 /\ DOMAIN g[x].s = DOMAIN h[x].s
                 /\ \A j \in DOMAIN h[x].s : g[x].s[j] = Out(h, h[x].s[j])
                 /\ h[x].up \subseteq g[x].up
                 /\ \A f \in DOMAIN h : f \in g[x].up => f \in h[x].up
      <3>1. /\ g[x].k = h[x].k /\ g[x].n = h[x].n /\ g[x].e = h[x].e
            /\ g[x].s = [j \in DOMAIN h[x].s |-> Out(h, h[x].s[j])]
            /\ g[x].up = h[x].up \cup Wraps(h, h[x].up \cup {x})
        BY <1>2 DEF WrappedFrom
      <3>2. \A f \in Wraps(h, h[x].up \cup {x}) : f \notin DOMAIN h
        BY <2>1 DEF Wraps
      <3> QED BY <3>1, <3>2
    <2> QED BY <2>1, <2>2
  <1>6. \A x \in DOMAIN g : g[x].k # "Compound" => x \in DOMAIN h
    BY <1>5
  <1>7. \A x \in DOMAIN h : IsBlock(g[x]) <=> IsBlock(h[x])
    BY <1>5 DEF IsBlock
  <1>8. Shaped(g)
    <2> SUFFICES ASSUME NEW x \in DOMAIN g
                 PROVE  /\ g[x].k \in Simple => g[x].s = <<>>
                        /\ g[x].k = "Label" => /\ Len(g[x].s) = 1
                                               /\ g[g[x].s[1]].k \notin Jumps \cup Decls \cup {"Call"}
      BY DEF Shaped
    <2>1. g[x].s \in Seq(DOMAIN g)
      BY <1>4 DEF ItemsKnown
    <2>2. CASE g[x].k \in Simple
      <3>1. x \in DOMAIN h /\ h[x].s = <<>>
        BY <2>2, <1>1, <1>5, <1>6 DEF Simple, Shaped
      <3>2. 1 \notin DOMAIN g[x].s
        BY <3>1, <1>5
      <3> QED BY <2>1, <2>2, <3>2, EmptyWithoutFirst DEF Simple
    <2>3. CASE g[x].k = "Label"
      <3>1. x \in DOMAIN h /\ Len(h[x].s) = 1 /\ h[h[x].s[1]].k \notin Jumps \cup Decls \cup {"Call"}
        BY <2>3, <1>1, <1>5, <1>6 DEF Shaped
      <3>2. h[x].s \in Seq(DOMAIN h)
        BY <3>1, <1>4 DEF ItemsKnown
      <3>3. h[x].s[1] \in DOMAIN h /\ 1 \in DOMAIN h[x].s /\ 2 \notin DOMAIN h[x].s
        BY <3>1, <3>2
      <3>4. Len(g[x].s) = 1
        BY <2>1, <3>1, <3>3, <1>5, OneItem
      <3>5. g[x].s[1] = Out(h, h[x].s[1])
        BY <3>1, <3>3, <1>5
      <3>6. CASE h[x].s[1] \in Loose(h)
        BY <2>3, <3>4, <3>5, <3>6, <1>5 DEF Out, Jumps, Decls, Simple
      <3>7. CASE h[x].s[1] \notin Loose(h)
        <4>1. g[x].s[1] = h[x].s[1]
          BY <3>5, <3>7 DEF Out
        <4> QED BY <2>3, <3>1, <3>3, <3>4, <4>1, <1>5 DEF Simple
      <3> QED BY <3>6, <3>7
    <2> QED BY <2>2, <2>3
  <1>9. JumpsPlaced(g)
    <2> SUFFICES ASSUME NEW x \in DOMAIN g, g[x].k \in Jumps PROVE \E b \in Blocks(g) : x \in Items(g, b)
      BY DEF JumpsPlaced
    <2>1. x \in DOMAIN h /\ h[x].k \in Jumps
      BY <1>5, <1>6 DEF Jumps
    <2>2. CASE x \in Loose(h)
      <3>1. Wrap(x) \in Blocks(g)
        BY <2>2, <1>5 DEF Blocks, IsBlock
      <3>2. x \in Items(g, Wrap(x))
        <4>1. g[Wrap(x)].s = <<x>>
          BY <2>2, <1>5
        <4> QED BY <4>1 DEF Items, Range
      <3> QED BY <3>1, <3>2
    <2>3. CASE x \notin Loose(h)
      <3>1. PICK c \in DOMAIN h : x \in Items(h, c) /\ (IsBlock(h[c]) \/ h[c].k \in Controls)
        BY <2>1, <1>1
      <3>2. ~IsBlock(h[x])
        BY <2>1, BlockKinds
      <3>3. IsBlock(h[c])
        BY <2>1, <2>3, <3>1, <3>2 DEF Loose, Items
      <3>4. c \in Blocks(g)
        BY <3>3, <1>5, <1>7 DEF Blocks
      <3>5. x \in Items(g, c)
        BY <2>3, <3>1, <1>3 DEF Out
      <3> QED BY <3>4, <3>5
    <2> QED BY <2>2, <2>3
  <1>10. Rooted(g, funcs)
    <2> SUFFICES ASSUME NEW f \in DOMAIN funcs PROVE funcs[f].body \in DOMAIN g /\ g[funcs[f].body].up = {}
      BY DEF Rooted
    <2> DEFINE body == funcs[f].body
    <2>1. body \in DOMAIN h /\ h[body].up = {}
      BY <1>1 DEF Rooted
    <2>2. body \notin Loose(h)
      <3> SUFFICES ASSUME body \in Loose(h) PROVE FALSE
        OBVIOUS
      <3>1. PICK c \in DOMAIN h : body \in Items(h, c)
        BY DEF Loose, Items
      <3>2. h[body].up = h[c].up \cup {c}
        BY <3>1, <1>4 DEF ItemsBelow
      <3> QED BY <3>2, <2>1
    <2>3. g[body].up = h[body].up \cup Wraps(h, h[body].up \cup {body})
      BY <2>1, <1>2 DEF WrappedFrom
    <2>4. Wraps(h, h[body].up \cup {body}) = {}
      BY <2>1, <2>2 DEF Wraps
    <2> QED BY <2>1, <2>3, <2>4, <1>5
  <1>11. JumpsFit(g, funcs)
    <2> SUFFICES ASSUME NEW f \in DOMAIN funcs, NEW x \in Below(g, funcs[f].body, {"Goto"})
                 PROVE  \E y \in Below(g, funcs[f].body, {"Label"}) : g[y].n = g[x].n
      BY DEF JumpsFit, Names
    <2>1. funcs[f].body \in DOMAIN h
      BY <1>1 DEF Rooted
    <2>2. x \in DOMAIN h /\ h[x].k = "Goto" /\ h[x].n = g[x].n /\ funcs[f].body \in h[x].up
      BY <2>1, <1>5, <1>6 DEF Below
    <2>3. x \in Below(h, funcs[f].body, {"Goto"})
      BY <2>2 DEF Below
    <2>4. PICK y \in Below(h, funcs[f].body, {"Label"}) : h[y].n = h[x].n
      BY <2>3, <1>1 DEF JumpsFit, Names
    <2>5. y \in Below(g, funcs[f].body, {"Label"}) /\ g[y].n = h[y].n
      BY <2>4, <1>5 DEF Below
    <2> QED BY <2>2, <2>4, <2>5
  <1>12. UsesFit(g, funcs)
    <2>1. \A x \in DOMAIN h \cap DOMAIN g : \A f \in DOMAIN funcs : funcs[f].body \in g[x].up => funcs[f].body \in h[x].up
      BY <1>1, <1>5 DEF Rooted
    <2>2. ASSUME NEW x \in DOMAIN h, NEW v, Declared(h, v, x) PROVE Declared(g, v, x)
      <3>1. PICK c \in h[x].up : \E d, y : /\ IsBlock(h[c]) /\ Before(h[c].s, d, y) /\ (y = x \/ y \in h[x].up)
                                           /\ h[d].k \in Decls /\ h[d].n = v
        BY <2>2, DeclaredBefore
      <3>2. PICK d, y : /\ IsBlock(h[c]) /\ Before(h[c].s, d, y) /\ (y = x \/ y \in h[x].up)
                        /\ h[d].k \in Decls /\ h[d].n = v
        BY <3>1
      <3>3. c \in DOMAIN h
        BY <1>4 DEF UpKnown
      <3>4. d \in DOMAIN h /\ c \in Blocks(h)
        BY <3>2, <3>3, <1>4, BeforeItems, ItemsInHeap DEF Blocks
      <3>5. g[c].s = h[c].s /\ IsBlock(g[c]) /\ c \in g[x].up
        BY <3>2, <3>3, <3>4, <1>3, <1>5, <1>7
      <3>6. g[d].k \in Decls /\ g[d].n = v /\ (y = x \/ y \in g[x].up)
        BY <3>2, <3>4, <1>5
      <3> QED BY <3>2, <3>5, <3>6, DeclaredBefore
    <2>3. \A x \in DOMAIN g : \A v \in Uses(g[x]) : x \in DOMAIN h /\ v \in Uses(h[x])
      <3>1. \A x \in DOMAIN h : Uses(g[x]) = Uses(h[x])
        BY <1>5, <1>7 DEF Uses
      <3>2. \A x \in DOMAIN g \ DOMAIN h : Uses(g[x]) = {}
        BY <1>6 DEF Uses, IsBlock
      <3> QED BY <3>1, <3>2
    <2> QED BY <2>1, <2>2, <2>3, <1>1, UsesKept
  <1>13. NoCall(g) /\ LocalsBelow(g, FirstFresh)
    BY <1>1, <1>5, <1>6 DEF NoCall, LocalsBelow, LocalKinds
  <1>14. DeclaredOnce(g)
    BY <1>1, <1>5, <1>6 DEF DeclaredOnce, LocalKinds
  <1>15. ReturnsLast(g)
    <2> SUFFICES ASSUME NEW b \in Blocks(g), NEW j \in DOMAIN g[b].s, g[g[b].s[j]].k = "Return" PROVE j = Len(g[b].s)
      BY DEF ReturnsLast
    <2>1. CASE b \in DOMAIN h
      <3>1. b \in Blocks(h) /\ g[b].s = h[b].s /\ h[b].s \in Seq(DOMAIN h)
        BY <2>1, <1>3, <1>4, <1>7 DEF Blocks, ItemsKnown
      <3>2. h[b].s[j] \in DOMAIN h
        BY <3>1
      <3> QED BY <3>1, <3>2, <1>1, <1>5 DEF ReturnsLast
    <2>2. CASE b \notin DOMAIN h
      <3>1. PICK y \in Loose(h) : b = Wrap(y)
        BY <2>2, <1>5 DEF Blocks
      <3>2. g[b].s = <<y>>
        BY <3>1, <1>5
      <3> QED BY <3>2
    <2> QED BY <2>1, <2>2
  <1>16. Kept(g, funcs) /\ JumpsKept(g, funcs)
    BY <1>3, <1>8, <1>9, <1>10, <1>11, <1>12 DEF Kept, JumpsKept
  <1> QED BY <1>2, <1>13, <1>14, <1>15, <1>16 DEF IsWrapped, g

-----------------------------------------------------------------------------
(* Hashes at the ends of the blocks.                                       *)

LEMMA LocalsFacts ==
    ASSUME NEW h, Forest(h), NEW b \in DOMAIN h
    PROVE  LET ds == Locals(h, b)
           IN  /\ ds \in Seq(DOMAIN h) /\ IsInjective(ds)
               /\ Range(ds) = {d \in Items(h, b) : h[d].k \in LocalKinds}
  <1> DEFINE s == h[b].s
             J == {j \in DOMAIN s : h[s[j]].k \in LocalKinds}
             places == Listed(J)
             ds == Locals(h, b)
  <1>1. ds = [k \in DOMAIN places |-> s[places[k]]]
    BY DEF Locals, LocalKinds
  <1>2. s \in Seq(DOMAIN h) /\ IsInjective(s)
    BY ForestParts DEF ItemsKnown
  <1>3. Items(h, b) = Range(s)
    BY DEF Items
  <1> HIDE DEF s, ds
  <1>4. Len(s) \in Nat /\ DOMAIN s = 1..Len(s) /\ \A j \in DOMAIN s : s[j] \in DOMAIN h
    BY <1>2
  <1>5. 1 \in Int /\ Len(s) \in Int /\ J \in SUBSET (1..Len(s))
    BY <1>4
  <1> HIDE DEF J
  <1>6. places \in Seq(J) /\ IsInjective(places) /\ Range(places) = J
    BY <1>5, ListedFacts
  <1> HIDE DEF places
  <1>7. /\ Len(places) \in Nat /\ DOMAIN places = 1..Len(places)
        /\ \A k \in DOMAIN places : places[k] \in DOMAIN s
    <2>1. Len(places) \in Nat /\ DOMAIN places = 1..Len(places) /\ \A k \in DOMAIN places : places[k] \in J
      BY <1>6
    <2> QED BY <2>1, <1>4, <1>5
  <1>8. DOMAIN ds = 1..Len(places) /\ \A k \in DOMAIN ds : ds[k] = s[places[k]] /\ ds[k] \in DOMAIN h
    BY <1>1, <1>4, <1>7
  <1>9. ds \in Seq(DOMAIN h)
    <2>1. ds \in [1..Len(places) -> DOMAIN h]
      <3>1. ds = [k \in 1..Len(places) |-> ds[k]]
        BY <1>1, <1>8
      <3> QED BY <3>1, <1>8
    <2> QED BY <2>1, <1>7, SeqDef
  <1>10. IsInjective(ds)
    BY <1>2, <1>6, <1>7, <1>8 DEF IsInjective
  <1>11. ASSUME NEW d \in Range(ds) PROVE d \in Range(s) /\ h[d].k \in LocalKinds
    <2>1. PICK k \in DOMAIN ds : d = ds[k]
      BY DEF Range
    <2>2. places[k] \in J
      BY <2>1, <1>6, <1>7, <1>8 DEF Range
    <2> QED BY <2>1, <2>2, <1>8 DEF Range, J
  <1>12. ASSUME NEW d \in Range(s), h[d].k \in LocalKinds PROVE d \in Range(ds)
    <2>1. PICK j \in DOMAIN s : d = s[j]
      BY DEF Range
    <2>2. j \in J
      BY <2>1, <1>12 DEF J
    <2>3. PICK k \in DOMAIN places : places[k] = j
      BY <2>2, <1>6 DEF Range
    <2> QED BY <2>1, <2>3, <1>7, <1>8 DEF Range
  <1> QED BY <1>3, <1>9, <1>10, <1>11, <1>12 DEF ds

\* The statement that is appended for the k-th variable, and the call in it.
HashItem(a, k) == a + 3 * k
HashCall(h, ds, a, k) == IF h[ds[k]].k = "ArrayDecl" THEN HashItem(a, k) + 2 ELSE HashItem(a, k)

LEMMA HashAddresses ==
    ASSUME NEW a \in Int, NEW k \in Int, NEW i \in 0..2, NEW x, x = HashItem(a, k) + i
    PROVE  (x - a) \div 3 = k /\ (x - a) % 3 = i
  <1>1. x - a = 3 * k + i
    BY DEF HashItem
  <1>2. (3 * k + i) \div 3 = k
    OBVIOUS
  <1>3. (3 * k + i) % 3 = i
    OBVIOUS
  <1> QED BY <1>1, <1>2, <1>3

\* One statement with one call for each of the variables.
HashList(list, h, ds, a) ==
    /\ IsList(list) /\ Range(list.items) = {HashItem(a, k) : k \in DOMAIN ds}
    /\ \A x \in DOMAIN list.nodes :
          /\ x \in Int /\ a <= x /\ x < a + 3 * Len(ds) + 3
          /\ \/ list.nodes[x].k \in {"For", "Compound"} /\ list.nodes[x].e = {}
             \/ \E k \in DOMAIN ds : x = HashCall(h, ds, a, k)
    /\ \A k \in DOMAIN ds :
          LET c == HashCall(h, ds, a, k)
          IN  /\ c \in DOMAIN list.nodes /\ list.nodes[c].k = "Call"
              /\ list.nodes[c].e = {h[ds[k]].n}
              /\ c = HashItem(a, k) \/ HashItem(a, k) \in list.nodes[c].up
              /\ h[ds[k]].k # "ArrayDecl" => c = HashItem(a, k)

LEMMA HashStmtsFacts ==
    ASSUME NEW h, NEW S, NEW ds \in Seq(S), NEW a \in Int
    PROVE  HashList(HashStmts(h, ds, a), h, ds, a)
  <1> DEFINE list == HashStmts(h, ds, a)
             m == list.nodes
             At(k) == HashItem(a, k)
             Body(k) == At(k) + 1
             Inner(k) == At(k) + 2
             third(x) == (x - a) \div 3
             rest(x) == (x - a) % 3
             arrays == {k \in DOMAIN ds : h[ds[k]].k = "ArrayDecl"}
             D == {a + 3 * k : k \in DOMAIN ds} \cup {a + 3 * k + i : k \in arrays, i \in 1..2}
             hash(k) == {h[ds[k]].n}
             node(x) == IF third(x) \notin arrays THEN Leaf("Call", 0, hash(third(x)))
                        ELSE IF rest(x) = 0 THEN Node("For", 0, {}, <<x + 1>>, {})
                        ELSE IF rest(x) = 1 THEN Node("Compound", 0, {}, <<x + 1>>, {x - 1})
                        ELSE Node("Call", 0, hash(third(x)), <<>>, {x - 2, x - 1})
  <1>1. list.items = [k \in DOMAIN ds |-> At(k)] /\ m = [x \in D |-> node(x)]
    BY DEF HashStmts, HashItem
  <1>2. Len(ds) \in Nat /\ DOMAIN ds = 1..Len(ds) /\ arrays \subseteq DOMAIN ds
    OBVIOUS
  <1>3. \A k \in DOMAIN ds : /\ k \in Int /\ k >= 1 /\ k <= Len(ds)
                             /\ At(k) \in Int /\ At(k) = a + 3 * k
    BY <1>2 DEF HashItem
  <1> HIDE DEF m, arrays, list
  <1>4. /\ \A k \in DOMAIN ds : At(k) \in D
        /\ \A k \in arrays : Body(k) \in D /\ Inner(k) \in D
        /\ \A x \in D : \/ \E k \in DOMAIN ds \ arrays : x = At(k)
                        \/ \E k \in arrays : x = At(k) \/ x = Body(k) \/ x = Inner(k)
    <2>1. \A k \in DOMAIN ds : At(k) \in D
      BY <1>3
    <2>2. ASSUME NEW k \in arrays PROVE Body(k) \in D /\ Inner(k) \in D
      <3>1. At(k) = a + 3 * k
        BY <1>2, <1>3
      <3> QED BY <3>1
    <2>3. ASSUME NEW x \in D
          PROVE  \/ \E k \in DOMAIN ds \ arrays : x = At(k)
                 \/ \E k \in arrays : x = At(k) \/ x = Body(k) \/ x = Inner(k)
      <3>1. CASE \E k \in DOMAIN ds : x = a + 3 * k
        BY <3>1, <1>3
      <3>2. CASE \E k \in arrays : \E i \in 1..2 : x = a + 3 * k + i
        <4>1. PICK k \in arrays, i \in 1..2 : x = a + 3 * k + i
          BY <3>2
        <4>2. At(k) = a + 3 * k /\ (i = 1 \/ i = 2)
          BY <1>2, <1>3
        <4> QED BY <4>1, <4>2
      <3> QED BY <3>1, <3>2
    <2> QED BY <2>1, <2>2, <2>3
  <1>5. ASSUME NEW k \in DOMAIN ds
        PROVE  /\ third(At(k)) = k /\ third(Body(k)) = k /\ third(Inner(k)) = k
               /\ rest(At(k)) = 0 /\ rest(Body(k)) = 1 /\ rest(Inner(k)) = 2
               /\ Body(k) + 1 = Inner(k) /\ Body(k) - 1 = At(k)
               /\ Inner(k) - 2 = At(k) /\ Inner(k) - 1 = Body(k)
               /\ At(k) # Body(k) /\ Body(k) # Inner(k) /\ At(k) # Inner(k)
    <2>1. 0 \in 0..2 /\ 1 \in 0..2 /\ 2 \in 0..2 /\ k \in Int /\ At(k) = At(k) + 0
      BY <1>3
    <2>2. third(At(k)) = k /\ rest(At(k)) = 0
      BY <2>1, HashAddresses
    <2>3. third(Body(k)) = k /\ rest(Body(k)) = 1
      BY <2>1, HashAddresses
    <2>4. third(Inner(k)) = k /\ rest(Inner(k)) = 2
      BY <2>1, HashAddresses
    <2>5. /\ Body(k) + 1 = Inner(k) /\ Body(k) - 1 = At(k)
          /\ Inner(k) - 2 = At(k) /\ Inner(k) - 1 = Body(k)
          /\ At(k) # Body(k) /\ Body(k) # Inner(k) /\ At(k) # Inner(k)
      BY <1>3
    <2> QED BY <2>2, <2>3, <2>4, <2>5
  <1>6. \A k \in DOMAIN ds : At(k) + 1 = Body(k)
    OBVIOUS
  <1> HIDE DEF D, At, Body, Inner, third, rest, hash
  <1>7. \A x \in D : /\ third(x) \notin arrays => m[x] = Leaf("Call", 0, hash(third(x)))
                     /\ third(x) \in arrays /\ rest(x) = 0 => m[x] = Node("For", 0, {}, <<x + 1>>, {})
                     /\ third(x) \in arrays /\ rest(x) = 1 =>
                           m[x] = Node("Compound", 0, {}, <<x + 1>>, {x - 1})
                     /\ third(x) \in arrays /\ rest(x) = 2 =>
                           m[x] = Node("Call", 0, hash(third(x)), <<>>, {x - 2, x - 1})
    <2> SUFFICES ASSUME NEW x \in D
                 PROVE  /\ third(x) \notin arrays => m[x] = Leaf("Call", 0, hash(third(x)))
                        /\ third(x) \in arrays /\ rest(x) = 0 => m[x] = Node("For", 0, {}, <<x + 1>>, {})
                        /\ third(x) \in arrays /\ rest(x) = 1 =>
                              m[x] = Node("Compound", 0, {}, <<x + 1>>, {x - 1})
                        /\ third(x) \in arrays /\ rest(x) = 2 =>
                              m[x] = Node("Call", 0, hash(third(x)), <<>>, {x - 2, x - 1})
      OBVIOUS
    <2>1. m[x] = node(x)
      <3> HIDE DEF node
      <3> QED BY <1>1
    <2>2. ASSUME third(x) \notin arrays PROVE m[x] = Leaf("Call", 0, hash(third(x)))
      BY <2>1, <2>2
    <2>3. ASSUME third(x) \in arrays, rest(x) = 0 PROVE m[x] = Node("For", 0, {}, <<x + 1>>, {})
      BY <2>1, <2>3
    <2>4. ASSUME third(x) \in arrays, rest(x) = 1 PROVE m[x] = Node("Compound", 0, {}, <<x + 1>>, {x - 1})
      BY <2>1, <2>4
    <2>5. ASSUME third(x) \in arrays, rest(x) = 2
          PROVE  m[x] = Node("Call", 0, hash(third(x)), <<>>, {x - 2, x - 1})
      BY <2>1, <2>5
    <2> HIDE DEF node
    <2> QED BY <2>2, <2>3, <2>4, <2>5
  <1> HIDE DEF node
  <1>8. /\ \A k \in DOMAIN ds \ arrays : m[At(k)] = Leaf("Call", 0, hash(k))
        /\ \A k \in arrays : /\ m[At(k)] = Node("For", 0, {}, <<Body(k)>>, {})
                             /\ m[Body(k)] = Node("Compound", 0, {}, <<Inner(k)>>, {At(k)})
                             /\ m[Inner(k)] = Node("Call", 0, hash(k), <<>>, {At(k), Body(k)})
    <2>1. ASSUME NEW k \in DOMAIN ds \ arrays PROVE m[At(k)] = Leaf("Call", 0, hash(k))
      <3>1. At(k) \in D /\ third(At(k)) = k
        BY <1>4, <1>5
      <3>2. m[At(k)] = Leaf("Call", 0, hash(third(At(k))))
        BY <3>1, <1>7
      <3> QED BY <3>1, <3>2
    <2>2. ASSUME NEW k \in arrays PROVE m[At(k)] = Node("For", 0, {}, <<Body(k)>>, {})
      <3>1. At(k) \in D /\ k \in DOMAIN ds /\ At(k) + 1 = Body(k)
        BY <1>2, <1>4, <1>6
      <3>2. m[At(k)] = Node("For", 0, {}, <<At(k) + 1>>, {})
        BY <3>1, <1>5, <1>7
      <3> QED BY <3>1, <3>2
    <2>3. ASSUME NEW k \in arrays PROVE m[Body(k)] = Node("Compound", 0, {}, <<Inner(k)>>, {At(k)})
      <3>1. Body(k) \in D /\ k \in DOMAIN ds
        BY <1>2, <1>4
      <3>2. m[Body(k)] = Node("Compound", 0, {}, <<Body(k) + 1>>, {Body(k) - 1})
        BY <3>1, <1>5, <1>7
      <3> QED BY <3>1, <3>2, <1>5
    <2>4. ASSUME NEW k \in arrays PROVE m[Inner(k)] = Node("Call", 0, hash(k), <<>>, {At(k), Body(k)})
      <3>1. Inner(k) \in D /\ k \in DOMAIN ds
        BY <1>2, <1>4
      <3>2. m[Inner(k)] = Node("Call", 0, hash(third(Inner(k))), <<>>, {Inner(k) - 2, Inner(k) - 1})
        BY <3>1, <1>5, <1>7
      <3> QED BY <3>1, <3>2, <1>5
    <2> QED BY <2>1, <2>2, <2>3, <2>4
  <1>9. DOMAIN m = D
    BY <1>1
  <1>0. \A K, N, E, L, U : LET t == Node(K, N, E, L, U)
                           IN  t.k = K /\ t.n = N /\ t.e = E /\ t.s = L /\ t.up = U
    BY DEF Node
  <1>10. /\ \A k \in DOMAIN ds \ arrays : /\ m[At(k)].k = "Call" /\ m[At(k)].e = hash(k)
                                           /\ m[At(k)].s = <<>> /\ m[At(k)].up = {}
         /\ \A k \in arrays : /\ m[At(k)].k = "For" /\ m[At(k)].e = {}
                              /\ m[At(k)].s = <<Body(k)>> /\ m[At(k)].up = {}
                              /\ m[Body(k)].k = "Compound" /\ m[Body(k)].e = {}
                              /\ m[Body(k)].s = <<Inner(k)>> /\ m[Body(k)].up = {At(k)}
                              /\ m[Inner(k)].k = "Call" /\ m[Inner(k)].e = hash(k)
                              /\ m[Inner(k)].s = <<>> /\ m[Inner(k)].up = {At(k), Body(k)}
    <2>1. ASSUME NEW k \in DOMAIN ds \ arrays
          PROVE  m[At(k)].k = "Call" /\ m[At(k)].e = hash(k) /\ m[At(k)].s = <<>> /\ m[At(k)].up = {}
      <3>1. m[At(k)] = Node("Call", 0, hash(k), <<>>, {})
        BY <1>8 DEF Leaf
      <3> QED BY <3>1, <1>0
    <2>2. ASSUME NEW k \in arrays
          PROVE  /\ m[At(k)].k = "For" /\ m[At(k)].e = {} /\ m[At(k)].s = <<Body(k)>> /\ m[At(k)].up = {}
                 /\ m[Body(k)].k = "Compound" /\ m[Body(k)].e = {}
                 /\ m[Body(k)].s = <<Inner(k)>> /\ m[Body(k)].up = {At(k)}
                 /\ m[Inner(k)].k = "Call" /\ m[Inner(k)].e = hash(k)
                 /\ m[Inner(k)].s = <<>> /\ m[Inner(k)].up = {At(k), Body(k)}
      <3>1. /\ m[At(k)] = Node("For", 0, {}, <<Body(k)>>, {})
            /\ m[Body(k)] = Node("Compound", 0, {}, <<Inner(k)>>, {At(k)})
            /\ m[Inner(k)] = Node("Call", 0, hash(k), <<>>, {At(k), Body(k)})
        BY <1>8
      <3>2. m[At(k)].k = "For" /\ m[At(k)].e = {} /\ m[At(k)].s = <<Body(k)>> /\ m[At(k)].up = {}
        BY <3>1 DEF Node
      <3>3. /\ m[Body(k)].k = "Compound" /\ m[Body(k)].e = {}
            /\ m[Body(k)].s = <<Inner(k)>> /\ m[Body(k)].up = {At(k)}
        BY <3>1 DEF Node
      <3>4. /\ m[Inner(k)].k = "Call" /\ m[Inner(k)].e = hash(k)
            /\ m[Inner(k)].s = <<>> /\ m[Inner(k)].up = {At(k), Body(k)}
        BY <3>1 DEF Node
      <3> QED BY <3>2, <3>3, <3>4
    <2> QED BY <2>1, <2>2
  <1>11. IsInjective(<<>>) /\ Range(<<>>) = {} /\ <<>> \in Seq(D)
    BY DEF IsInjective, Range
  <1>12. \A y \in D : <<y>> \in Seq(D) /\ IsInjective(<<y>>) /\ Range(<<y>>) = {y}
    BY DEF IsInjective, Range
  <1>13. Forest(m)
    <2> SUFFICES ASSUME NEW x \in D
                 PROVE  /\ m[x].s \in Seq(D) /\ IsInjective(m[x].s)
                        /\ \A y \in Range(m[x].s) : m[y].up = m[x].up \cup {x}
                        /\ m[x].up \subseteq D \ {x}
                        /\ \A p \in m[x].up : /\ m[p].up \subseteq m[x].up
                                              /\ \E y \in Range(m[p].s) : y = x \/ y \in m[x].up
                                              /\ \A c \in m[x].up : p = c \/ p \in m[c].up \/ c \in m[p].up
      BY <1>9 DEF Forest
    <2>1. CASE \E k \in DOMAIN ds \ arrays : x = At(k)
      <3>1. m[x].s = <<>> /\ m[x].up = {}
        BY <2>1, <1>10
      <3> QED BY <3>1, <1>11
    <2>2. ASSUME NEW k \in arrays, x = At(k) \/ x = Body(k) \/ x = Inner(k)
          PROVE  /\ m[x].s \in Seq(D) /\ IsInjective(m[x].s)
                 /\ \A y \in Range(m[x].s) : m[y].up = m[x].up \cup {x}
                 /\ m[x].up \subseteq D \ {x}
                 /\ \A p \in m[x].up : /\ m[p].up \subseteq m[x].up
                                       /\ \E y \in Range(m[p].s) : y = x \/ y \in m[x].up
                                       /\ \A c \in m[x].up : p = c \/ p \in m[c].up \/ c \in m[p].up
      <3> DEFINE p == At(k)
                 q == Body(k)
                 r == Inner(k)
      <3>1. p \in D /\ q \in D /\ r \in D /\ p # q /\ q # r /\ p # r
        BY <1>2, <1>4, <1>5
      <3>2. /\ m[p].s = <<q>> /\ m[p].up = {} /\ m[q].s = <<r>> /\ m[q].up = {p}
            /\ m[r].s = <<>> /\ m[r].up = {p, q} /\ (x = p \/ x = q \/ x = r)
        BY <2>2, <1>10
      <3>3. Range(m[p].s) = {q} /\ Range(m[q].s) = {r} /\ Range(m[r].s) = {}
        BY <3>1, <3>2, <1>11, <1>12
      <3>4. m[x].s \in Seq(D) /\ IsInjective(m[x].s)
        <4>1. m[p].s \in Seq(D) /\ IsInjective(m[p].s)
          BY <3>1, <3>2, <1>12
        <4>2. m[q].s \in Seq(D) /\ IsInjective(m[q].s)
          BY <3>1, <3>2, <1>12
        <4>3. m[r].s \in Seq(D) /\ IsInjective(m[r].s)
          BY <3>2, <1>11
        <4> HIDE DEF p, q, r
        <4> QED BY <3>2, <4>1, <4>2, <4>3
      <3> HIDE DEF p, q, r
      <3>5. \A y \in Range(m[x].s) : m[y].up = m[x].up \cup {x}
        BY <3>2, <3>3
      <3>6. m[x].up \subseteq D \ {x}
        BY <3>1, <3>2
      <3>7. \A u \in m[x].up : /\ m[u].up \subseteq m[x].up
                               /\ \E y \in Range(m[u].s) : y = x \/ y \in m[x].up
                               /\ \A c \in m[x].up : u = c \/ u \in m[c].up \/ c \in m[u].up
        BY <3>2, <3>3
      <3> QED BY <3>4, <3>5, <3>6, <3>7
    <2> QED BY <2>1, <2>2, <1>4
  <1>14. list.items \in Seq(D) /\ IsInjective(list.items) /\ Range(list.items) = {At(k) : k \in DOMAIN ds}
    <2>1. DOMAIN list.items = 1..Len(ds) /\ list.items \in [1..Len(ds) -> D]
      BY <1>1, <1>2, <1>4
    <2>2. list.items \in Seq(D)
      BY <2>1, <1>2, SeqDef
    <2>3. \A k, l \in DOMAIN ds : At(k) = At(l) => k = l
      <3> SUFFICES ASSUME NEW k \in DOMAIN ds, NEW l \in DOMAIN ds, At(k) = At(l) PROVE k = l
        OBVIOUS
      <3>1. k \in Int /\ l \in Int /\ a + 3 * k = a + 3 * l
        BY <1>3
      <3> QED BY <3>1
    <2> QED BY <2>1, <2>2, <2>3, <1>1 DEF IsInjective, Range
  <1>15. IsList(list)
    <2>1. \A x \in Range(list.items) : m[x].up = {}
      BY <1>10, <1>14
    <2>2. \A x \in D : \E y \in Range(list.items) : y = x \/ y \in m[x].up
      <3> SUFFICES ASSUME NEW x \in D PROVE \E y \in Range(list.items) : y = x \/ y \in m[x].up
        OBVIOUS
      <3>1. CASE \E k \in DOMAIN ds \ arrays : x = At(k)
        BY <3>1, <1>14
      <3>2. ASSUME NEW k \in arrays, x = At(k) \/ x = Body(k) \/ x = Inner(k)
            PROVE  \E y \in Range(list.items) : y = x \/ y \in m[x].up
        BY <3>2, <1>2, <1>10, <1>14
      <3> QED BY <3>1, <3>2, <1>4
    <2> QED BY <2>1, <2>2, <1>9, <1>13, <1>14 DEF IsList, m
  <1>16. ASSUME NEW x \in D
         PROVE  /\ x \in Int /\ a <= x /\ x < a + 3 * Len(ds) + 3
                /\ \/ m[x].k \in {"For", "Compound"} /\ m[x].e = {}
                   \/ \E k \in DOMAIN ds : x = HashCall(h, ds, a, k)
    <2>1. CASE \E k \in DOMAIN ds \ arrays : x = At(k)
      <3>1. PICK k \in DOMAIN ds \ arrays : x = At(k)
        BY <2>1
      <3>2. x = HashCall(h, ds, a, k)
        BY <3>1 DEF HashCall, arrays, At
      <3>3. x \in Int /\ a <= x /\ x < a + 3 * Len(ds) + 3
        BY <3>1, <1>2, <1>3
      <3> QED BY <3>2, <3>3
    <2>2. ASSUME NEW k \in arrays, x = At(k) \/ x = Body(k) \/ x = Inner(k)
          PROVE  /\ x \in Int /\ a <= x /\ x < a + 3 * Len(ds) + 3
                 /\ \/ m[x].k \in {"For", "Compound"} /\ m[x].e = {}
                    \/ \E l \in DOMAIN ds : x = HashCall(h, ds, a, l)
      <3>1. x \in Int /\ a <= x /\ x < a + 3 * Len(ds) + 3
        BY <2>2, <1>2, <1>3 DEF Body, Inner
      <3>2. m[At(k)].k = "For" /\ m[At(k)].e = {} /\ m[Body(k)].k = "Compound" /\ m[Body(k)].e = {}
        BY <1>10
      <3>3. Inner(k) = HashCall(h, ds, a, k) /\ k \in DOMAIN ds
        BY DEF HashCall, arrays, At, Inner
      <3> QED BY <2>2, <3>1, <3>2, <3>3
    <2> QED BY <2>1, <2>2, <1>4
  <1>17. ASSUME NEW k \in DOMAIN ds
         PROVE  LET c == HashCall(h, ds, a, k)
                IN  /\ c \in D /\ m[c].k = "Call" /\ m[c].e = {h[ds[k]].n}
                    /\ c = At(k) \/ At(k) \in m[c].up
                    /\ h[ds[k]].k # "ArrayDecl" => c = At(k)
    <2>1. CASE k \in arrays
      <3>1. HashCall(h, ds, a, k) = Inner(k) /\ h[ds[k]].k = "ArrayDecl"
        BY <2>1 DEF HashCall, arrays, At, Inner
      <3>2. Inner(k) \in D /\ m[Inner(k)].k = "Call" /\ m[Inner(k)].e = hash(k) /\ At(k) \in m[Inner(k)].up
        BY <2>1, <1>4, <1>10
      <3> QED BY <3>1, <3>2 DEF hash
    <2>2. CASE k \notin arrays
      <3>1. HashCall(h, ds, a, k) = At(k) /\ h[ds[k]].k # "ArrayDecl"
        BY <2>2 DEF HashCall, arrays, At
      <3>2. At(k) \in D /\ m[At(k)].k = "Call" /\ m[At(k)].e = hash(k)
        BY <2>2, <1>4, <1>10
      <3> QED BY <3>1, <3>2 DEF hash
    <2> QED BY <2>1, <2>2
  <1> QED BY <1>9, <1>14, <1>15, <1>16, <1>17 DEF HashList, list, m, At

\* The hashes of one block.
LEMMA AppendHashKeeps ==
    ASSUME NEW h, NEW funcs, Kept(h, funcs), NEW old, NEW a \in Int, HashesKept(h, old, a), a >= FirstFresh,
           NEW P, Awaiting(h, P, old), NEW b \in P
    PROVE  LET ds == Locals(h, b)
               g == Inserted(h, b, HashIndex(h, b), HashStmts(h, ds, a))
               more == old \cup Range(ds)
           IN  /\ Kept(g, funcs) /\ HashesKept(g, more, a + 3 * Len(ds) + 3)
               /\ JumpsKept(h, funcs) => JumpsKept(g, funcs)
               /\ Awaiting(g, P \ {b}, more)
               /\ HashSeen(h, old) => HashSeen(g, more)
               /\ a + 3 * Len(ds) + 3 \in Int /\ a + 3 * Len(ds) + 3 >= a
  <1> DEFINE ds == Locals(h, b)
             list == HashStmts(h, ds, a)
             idx == HashIndex(h, b)
             g == Inserted(h, b, idx, list)
             more == old \cup Range(ds)
             top == a + 3 * Len(ds) + 3
             At(k) == HashItem(a, k)
             Call(k) == HashCall(h, ds, a, k)
  <1>1. /\ Forest(h) /\ Shaped(h) /\ Rooted(h, funcs) /\ UsesFit(h, funcs)
        /\ HashedOnce(h) /\ HashFollows(h, old) /\ CallsBelow(h, a)
        /\ old \subseteq IntsBelow(a) /\ DOMAIN h \subseteq IntsBelow(a)
        /\ ItemsKnown(h) /\ ItemsBelow(h)
    BY ForestParts DEF Kept, HashesKept
  <1>2. \A p \in P : /\ p \in DOMAIN h /\ h[p].k = "Compound" /\ p \in Blocks(h)
                     /\ \A j \in DOMAIN h[p].s : h[h[p].s[j]].k = "Return" => j = Len(h[p].s)
                     /\ \A d \in Items(h, p) :
                           /\ d \notin old
                           /\ h[d].k \in LocalKinds =>
                                 /\ h[d].n \in IntsBelow(FirstFresh)
                                 /\ \A c \in DOMAIN h : h[c].k = "Call" => h[d].n \notin h[c].e
    BY DEF Awaiting, Blocks, IsBlock
  <1>3. DeclaredOnce(h)
    BY DEF Awaiting, DeclaredOnce
  <1>4. /\ ds \in Seq(DOMAIN h) /\ IsInjective(ds)
        /\ Range(ds) = {d \in Items(h, b) : h[d].k \in LocalKinds}
    BY <1>1, <1>2, LocalsFacts
  <1> HIDE DEF ds
  <1>5. /\ Len(ds) \in Nat /\ DOMAIN ds = 1..Len(ds) /\ top \in Int /\ top >= a /\ top >= FirstFresh
        /\ \A k \in DOMAIN ds : /\ ds[k] \in Range(ds) /\ ds[k] \in DOMAIN h /\ ds[k] \in Items(h, b)
                                /\ h[ds[k]].k \in LocalKinds
    <2>1. Len(ds) \in Nat /\ DOMAIN ds = 1..Len(ds) /\ \A k \in DOMAIN ds : ds[k] \in DOMAIN h
      BY <1>4
    <2>2. \A k \in DOMAIN ds : ds[k] \in Range(ds)
      BY DEF Range
    <2> QED BY <2>1, <2>2, <1>4, BoundsAssumption
  <1>6. /\ IsList(list) /\ Range(list.items) = {At(k) : k \in DOMAIN ds}
        /\ \A x \in DOMAIN list.nodes :
              /\ x \in Int /\ a <= x /\ x < top
              /\ \/ list.nodes[x].k \in {"For", "Compound"} /\ list.nodes[x].e = {}
                 \/ \E k \in DOMAIN ds : x = Call(k)
        /\ \A k \in DOMAIN ds :
              /\ Call(k) \in DOMAIN list.nodes /\ list.nodes[Call(k)].k = "Call"
              /\ list.nodes[Call(k)].e = {h[ds[k]].n}
              /\ Call(k) = At(k) \/ At(k) \in list.nodes[Call(k)].up
              /\ h[ds[k]].k # "ArrayDecl" => Call(k) = At(k)
    <2> HIDE DEF list, At, Call, top
    <2>1. HashList(list, h, ds, a)
      BY <1>4, HashStmtsFacts DEF list
    <2> QED BY <2>1 DEF HashList, At, Call, top
  <1> HIDE DEF list, At, Call, top
  <1>7. DOMAIN h \cap DOMAIN list.nodes = {}
    <2> SUFFICES ASSUME NEW x \in DOMAIN h, x \in DOMAIN list.nodes PROVE FALSE
      OBVIOUS
    <2> QED BY <1>1, <1>6 DEF IntsBelow
  <1> DEFINE s == h[b].s
  <1>8. /\ s \in Seq(DOMAIN h) /\ Len(s) \in Nat /\ DOMAIN s = 1..Len(s) /\ Items(h, b) = Range(s)
        /\ \A j \in DOMAIN s : s[j] \in DOMAIN h /\ (h[s[j]].k = "Return" => j = Len(s))
        /\ idx = IF Len(s) > 0 /\ h[s[Len(s)]].k = "Return" THEN Len(s) - 1 ELSE Len(s)
    <2>1. s \in Seq(DOMAIN h)
      BY <1>1, <1>2 DEF ItemsKnown
    <2>2. Len(s) \in Nat /\ DOMAIN s = 1..Len(s) /\ \A j \in DOMAIN s : s[j] \in DOMAIN h
      BY <2>1
    <2> QED BY <2>1, <2>2, <1>2 DEF HashIndex, Items
  <1>9. idx \in 0..Len(s)
    BY <1>8
  <1>10. /\ Forest(g) /\ Extends(g, h)
         /\ \A x \in DOMAIN g \ DOMAIN h :
               /\ x \in DOMAIN list.nodes /\ g[x].k = list.nodes[x].k /\ g[x].n = list.nodes[x].n
               /\ g[x].e = list.nodes[x].e /\ g[x].s = list.nodes[x].s
               /\ g[x].up = list.nodes[x].up \cup h[b].up \cup {b}
         /\ InsertedFrom(g, h, b, list)
    BY <1>1, <1>2, <1>6, <1>7, <1>9, InsertedOne
  <1>11. g[b].s = Splice(s, idx, list.items)
    <2>1. h[b].k # "NoItems" /\ b \in DOMAIN h
      BY <1>2
    <2>2. g = [x \in DOMAIN h \cup DOMAIN list.nodes |->
                  IF x = b
                  THEN Node("Compound", h[b].n, h[b].e, Splice(s, idx, list.items), h[b].up)
                  ELSE IF x \in DOMAIN h THEN h[x]
                  ELSE Node(list.nodes[x].k, list.nodes[x].n, list.nodes[x].e, list.nodes[x].s,
                            list.nodes[x].up \cup h[b].up \cup {b})]
      BY <2>1 DEF Inserted
    <2>3. g[b] = Node("Compound", h[b].n, h[b].e, Splice(s, idx, list.items), h[b].up)
      BY <2>1, <2>2
    <2> QED BY <2>3 DEF Node
  <1> HIDE DEF g, idx, s
  <1>12. /\ DOMAIN g = DOMAIN h \cup DOMAIN list.nodes
         /\ \A x \in DOMAIN h : /\ g[x].k = h[x].k /\ g[x].n = h[x].n /\ g[x].e = h[x].e /\ g[x].up = h[x].up
                                /\ x # b => g[x].s = h[x].s
         /\ Items(g, b) = Items(h, b) \cup Range(list.items)
    BY <1>10 DEF InsertedFrom
  \* The new nodes, and where they stand.
  <1>13. \A x \in DOMAIN g \ DOMAIN h :
             /\ (g[x].k \in {"For", "Compound"} /\ g[x].e = {}) \/ \E k \in DOMAIN ds : x = Call(k)
             /\ g[x].k \in {"For", "Compound", "Call"}
    BY <1>6, <1>10
  <1>14. \A k \in DOMAIN ds :
             /\ Call(k) \in DOMAIN g \ DOMAIN h /\ g[Call(k)].k = "Call" /\ g[Call(k)].e = {h[ds[k]].n}
             /\ b \in g[Call(k)].up
             /\ Call(k) = At(k) \/ At(k) \in g[Call(k)].up
             /\ h[ds[k]].k # "ArrayDecl" => Call(k) = At(k)
             /\ At(k) \in Range(list.items) /\ At(k) \in DOMAIN g \ DOMAIN h
    <2> SUFFICES ASSUME NEW k \in DOMAIN ds
                 PROVE  /\ Call(k) \in DOMAIN g \ DOMAIN h /\ g[Call(k)].k = "Call" /\ g[Call(k)].e = {h[ds[k]].n}
                        /\ b \in g[Call(k)].up
                        /\ Call(k) = At(k) \/ At(k) \in g[Call(k)].up
                        /\ h[ds[k]].k # "ArrayDecl" => Call(k) = At(k)
                        /\ At(k) \in Range(list.items) /\ At(k) \in DOMAIN g \ DOMAIN h
      OBVIOUS
    <2>1. Call(k) \in DOMAIN g \ DOMAIN h
      BY <1>6, <1>7, <1>12
    <2>2. At(k) \in Range(list.items) /\ At(k) \in DOMAIN list.nodes
      <3>1. At(k) \in Range(list.items)
        BY <1>6
      <3> QED BY <3>1, <1>6 DEF IsList, Range
    <2> QED BY <2>1, <2>2, <1>6, <1>7, <1>10, <1>12
  <1>15. /\ \A d \in Range(ds) : \A y \in Range(list.items) : Before(g[b].s, d, y)
         /\ \A y \in Range(list.items) : \A x : Before(g[b].s, x, y) => g[x].k # "Return"
    <2> DEFINE new == list.items
               r == g[b].s
    <2>1. s \in Seq(DOMAIN g) /\ new \in Seq(DOMAIN g) /\ Range(s) \cap Range(new) = {}
      <3>1. new \in Seq(DOMAIN list.nodes) /\ DOMAIN list.nodes \subseteq DOMAIN g /\ DOMAIN h \subseteq DOMAIN g
        BY <1>6, <1>12 DEF IsList
      <3>2. Range(s) \subseteq DOMAIN h
        BY <1>8 DEF Range
      <3>3. Range(new) \subseteq DOMAIN list.nodes
        <4> HIDE DEF new
        <4> QED BY <3>1 DEF Range
      <3> QED BY <3>1, <3>2, <3>3, <1>7, <1>8, SeqMonotonic
    <2>2. r = Splice(s, idx, new)
      BY <1>11
    <2> HIDE DEF new, r
    <2>3. /\ \A i \in 1..idx : \A y \in Range(new) : Before(r, s[i], y)
          /\ \A x : \A y \in Range(new) : Before(r, x, y) => x \in Range(new) \/ \E i \in 1..idx : x = s[i]
      BY <2>1, <2>2, <1>9, SpliceBetween
    <2>4. \A i \in 1..idx : i \in DOMAIN s /\ h[s[i]].k # "Return"
      <3> SUFFICES ASSUME NEW i \in 1..idx PROVE i \in DOMAIN s /\ h[s[i]].k # "Return"
        OBVIOUS
      <3>1. i \in DOMAIN s /\ i <= idx
        BY <1>8, <1>9
      <3>2. h[s[i]].k = "Return" => i = Len(s)
        BY <3>1, <1>8
      <3>3. CASE i = Len(s)
        BY <3>1, <3>3, <1>8
      <3> QED BY <3>1, <3>2, <3>3
    <2>5. ASSUME NEW d \in Range(ds), NEW y \in Range(new) PROVE Before(r, d, y)
      <3>1. h[d].k \in LocalKinds /\ d \in Range(s)
        BY <1>4, <1>8
      <3>2. PICK j \in DOMAIN s : s[j] = d
        BY <3>1 DEF Range
      <3>3. h[s[j]].k # "Return"
        BY <3>1, <3>2 DEF LocalKinds
      <3>4. j \in 1..idx
        <4>1. j \in 1..Len(s) /\ Len(s) \in Nat
          BY <3>2, <1>8
        <4>2. CASE j = Len(s)
          BY <3>3, <4>1, <4>2, <1>8
        <4>3. CASE j # Len(s)
          <5>1. idx = Len(s) - 1 \/ idx = Len(s)
            BY <1>8
          <5> QED BY <4>1, <4>3, <5>1
        <4> QED BY <4>2, <4>3
      <3> QED BY <3>2, <3>4, <2>3
    <2>6. ASSUME NEW y \in Range(new), NEW x, Before(r, x, y) PROVE g[x].k # "Return"
      <3>1. CASE x \in Range(new)
        <4>1. x \in DOMAIN g \ DOMAIN h
          BY <3>1, <1>6, <1>14 DEF new
        <4> QED BY <4>1, <1>13
      <3>2. CASE \E i \in 1..idx : x = s[i]
        <4>1. PICK i \in 1..idx : x = s[i]
          BY <3>2
        <4>2. i \in DOMAIN s /\ h[s[i]].k # "Return"
          BY <2>4
        <4>3. s[i] \in DOMAIN h
          BY <4>2, <1>8
        <4> QED BY <4>1, <4>2, <4>3, <1>12
      <3> QED BY <3>1, <3>2, <2>3, <2>6
    <2> QED BY <2>5, <2>6 DEF new, r
  <1>16. Shaped(g) /\ Rooted(g, funcs) /\ (JumpsKept(h, funcs) => JumpsKept(g, funcs))
    <2>1. \A x \in DOMAIN g \ DOMAIN h : g[x].k \notin Jumps \cup Simple /\ g[x].k # "Label" /\ g[x].k # "Goto"
      BY <1>13 DEF Jumps, Simple
    <2>2. Shaped(g) /\ Rooted(g, funcs)
      BY <2>1, <1>1, <1>10, ExtendsKeeps
    <2>3. ASSUME JumpsKept(h, funcs) PROVE JumpsKept(g, funcs)
      BY <2>1, <2>3, <1>1, <1>10, ExtendsJumps
    <2> QED BY <2>2, <2>3
  <1>17. UsesFit(g, funcs)
    <2>1. \A x \in DOMAIN h \cap DOMAIN g : \A f \in DOMAIN funcs : funcs[f].body \in g[x].up => funcs[f].body \in h[x].up
      BY <1>12
    <2>2. \A x \in DOMAIN h \cap DOMAIN g : \A v : Declared(h, v, x) => Declared(g, v, x)
      BY <1>1, <1>10, ExtendsDeclared
    <2>3. ASSUME NEW x \in DOMAIN g, NEW v \in Uses(g[x])
          PROVE  v \in Globals \/ Declared(g, v, x) \/ (x \in DOMAIN h /\ v \in Uses(h[x]))
      <3>1. CASE x \in DOMAIN h
        BY <2>3, <3>1, <1>12 DEF Uses, IsBlock
      <3>2. CASE x \notin DOMAIN h
        <4>1. v \in g[x].e
          BY <2>3, <3>2, <1>13 DEF Uses
        <4>2. PICK k \in DOMAIN ds : x = Call(k)
          BY <3>2, <4>1, <1>13
        <4>3. v = h[ds[k]].n /\ b \in g[x].up /\ (At(k) = x \/ At(k) \in g[x].up) /\ Before(g[b].s, ds[k], At(k))
          BY <4>1, <4>2, <1>5, <1>14, <1>15
        <4>4. IsBlock(g[b]) /\ g[ds[k]].k \in Decls /\ g[ds[k]].n = v
          BY <4>3, <1>2, <1>5, <1>12 DEF IsBlock, Decls, LocalKinds
        <4>5. Declared(g, v, x)
          BY <4>3, <4>4, DeclaredBefore
        <4> QED BY <4>5
      <3> QED BY <3>1, <3>2
    <2> QED BY <2>1, <2>2, <2>3, <1>1, UsesKept
  <1>18. \A k \in DOMAIN ds : \A c \in DOMAIN h : h[c].k = "Call" => h[ds[k]].n \notin h[c].e
    BY <1>2, <1>5
  <1>19. ASSUME NEW c \in DOMAIN g \ DOMAIN h, NEW d \in DOMAIN g,
                g[c].k = "Call", g[d].k = "Call", g[c].e \cap g[d].e # {}
         PROVE  c = d
    <2>1. PICK k \in DOMAIN ds : c = Call(k)
      BY <1>13, <1>19
    <2>2. CASE d \in DOMAIN h
      <3>1. h[d].k = "Call" /\ h[ds[k]].n \in h[d].e
        BY <2>1, <2>2, <1>12, <1>14, <1>19
      <3> QED BY <3>1, <2>2, <1>18
    <2>3. CASE d \notin DOMAIN h
      <3>1. PICK l \in DOMAIN ds : d = Call(l)
        BY <2>3, <1>13, <1>19
      <3>2. h[ds[k]].n = h[ds[l]].n
        BY <2>1, <3>1, <1>14, <1>19
      <3>3. ds[k] = ds[l]
        BY <3>2, <1>3, <1>5 DEF DeclaredOnce
      <3> QED BY <2>1, <3>1, <3>3, <1>4 DEF IsInjective
    <2> QED BY <2>2, <2>3
  \* Only block b holds the variables.
  <1>20. \A p \in DOMAIN h : p # b => Items(g, p) = Items(h, p) /\ Items(h, p) \cap Range(ds) = {}
    <2> SUFFICES ASSUME NEW p \in DOMAIN h, p # b
                 PROVE  Items(g, p) = Items(h, p) /\ Items(h, p) \cap Range(ds) = {}
      OBVIOUS
    <2>1. Items(g, p) = Items(h, p)
      BY <1>12 DEF Items
    <2>2. ASSUME NEW d \in Items(h, p), d \in Range(ds) PROVE FALSE
      <3>1. d \in Items(h, b) /\ b \in DOMAIN h
        BY <2>2, <1>2, <1>4
      <3> QED BY <2>2, <3>1, <1>1, OneParent
    <2> QED BY <2>1, <2>2
  <1>21. ASSUME NEW p \in Blocks(g), NEW d \in Items(g, p), d \in Range(ds)
         PROVE  p = b
    <2>1. d \in Items(g, b) /\ b \in DOMAIN g /\ p \in DOMAIN g
      BY <1>2, <1>4, <1>12, <1>21 DEF Blocks
    <2> QED BY <2>1, <1>10, OneParent
  <1>22. HashedOnce(g) /\ HashFollows(g, more)
    <2>1. ASSUME NEW p \in Blocks(g), NEW d \in Items(g, p),
                 d \in more /\ ~(d \in old /\ d \in DOMAIN h) /\ g[d].k = "Decl"
          PROVE  \E c : Before(g[p].s, d, c) /\ g[c].k = "Call" /\ g[d].n \in g[c].e
      <3>1. d \in DOMAIN g
        BY <1>10, ItemsInHeap, ForestParts DEF Blocks
      <3>2. d \in Range(ds)
        <4>1. CASE d \in old
          <5>1. d < a /\ d \notin DOMAIN h
            BY <2>1, <4>1, <1>1 DEF IntsBelow
          <5>2. d \in Int /\ a <= d
            BY <3>1, <5>1, <1>6, <1>12
          <5> QED BY <5>1, <5>2
        <4> QED BY <2>1, <4>1
      <3>3. p = b
        BY <3>2, <1>21
      <3>4. PICK k \in DOMAIN ds : d = ds[k]
        BY <3>2 DEF Range
      <3>5. h[d].k = "Decl" /\ g[d].n = h[d].n
        BY <2>1, <3>4, <1>5, <1>12
      <3>6. Call(k) = At(k) /\ g[Call(k)].k = "Call" /\ h[d].n \in g[Call(k)].e /\ At(k) \in Range(list.items)
        BY <3>4, <3>5, <1>14
      <3> QED BY <3>2, <3>3, <3>5, <3>6, <1>15
    <2> QED BY <2>1, <1>1, <1>10, <1>19, ExtendsHashes
  <1>23. HashesKept(g, more, top)
    <2>1. ASSUME NEW x \in DOMAIN g, g[x].k = "Call" PROVE g[x].e \subseteq IntsBelow(top)
      <3>1. CASE x \in DOMAIN h
        <4>1. g[x].e \subseteq IntsBelow(a)
          BY <2>1, <3>1, <1>1, <1>12 DEF CallsBelow
        <4> QED BY <4>1, <1>5 DEF IntsBelow
      <3>2. CASE x \notin DOMAIN h
        <4>1. PICK k \in DOMAIN ds : x = Call(k)
          BY <2>1, <3>2, <1>13
        <4>2. h[ds[k]].n \in IntsBelow(FirstFresh) /\ g[x].e = {h[ds[k]].n}
          BY <4>1, <1>2, <1>5, <1>14
        <4> QED BY <4>2, <1>5, BoundsAssumption DEF IntsBelow
      <3> QED BY <3>1, <3>2
    <2>2. DOMAIN h \subseteq IntsBelow(top) /\ old \subseteq IntsBelow(top)
      BY <1>1, <1>5 DEF IntsBelow
    <2>3. DOMAIN list.nodes \subseteq IntsBelow(top)
      BY <1>6 DEF IntsBelow
    <2>4. Range(ds) \subseteq DOMAIN h
      BY <1>4 DEF Range
    <2>5. DOMAIN g \subseteq IntsBelow(top) /\ more \subseteq IntsBelow(top)
      BY <2>2, <2>3, <2>4, <1>12
    <2> HIDE DEF more
    <2> QED BY <2>1, <2>5, <1>22 DEF HashesKept, CallsBelow
  <1>24. Awaiting(g, P \ {b}, more)
    <2>1. ASSUME NEW p \in P \ {b}
          PROVE  /\ p \in DOMAIN g /\ g[p].k = "Compound"
                 /\ \A j \in DOMAIN g[p].s : g[g[p].s[j]].k = "Return" => j = Len(g[p].s)
                 /\ \A d \in Items(g, p) :
                       /\ d \notin more
                       /\ g[d].k \in LocalKinds =>
                             /\ g[d].n \in IntsBelow(FirstFresh)
                             /\ \A c \in DOMAIN g : g[c].k = "Call" => g[d].n \notin g[c].e
      <3>1. /\ p \in DOMAIN h /\ g[p].k = "Compound" /\ p \in DOMAIN g /\ g[p].s = h[p].s
            /\ Items(g, p) = Items(h, p) /\ Items(h, p) \cap Range(ds) = {} /\ Items(h, p) \subseteq DOMAIN h
        BY <1>1, <1>2, <1>12, <1>20, ItemsInHeap
      <3>2. \A j \in DOMAIN g[p].s : g[g[p].s[j]].k = "Return" => j = Len(g[p].s)
        <4>1. \A j \in DOMAIN h[p].s : h[p].s[j] \in DOMAIN h
          BY <3>1 DEF Items, Range
        <4> QED BY <3>1, <4>1, <1>2, <1>12
      <3>3. ASSUME NEW d \in Items(g, p)
            PROVE  /\ d \notin more
                   /\ g[d].k \in LocalKinds =>
                         /\ g[d].n \in IntsBelow(FirstFresh)
                         /\ \A c \in DOMAIN g : g[c].k = "Call" => g[d].n \notin g[c].e
        <4>1. d \in Items(h, p) /\ d \in DOMAIN h /\ d \notin Range(ds) /\ d \notin old
          BY <3>1, <1>2
        <4>2. g[d].k = h[d].k /\ g[d].n = h[d].n
          BY <4>1, <1>12
        <4>3. ASSUME h[d].k \in LocalKinds, NEW c \in DOMAIN g, g[c].k = "Call" PROVE h[d].n \notin g[c].e
          <5>1. CASE c \in DOMAIN h
            BY <4>1, <4>3, <5>1, <1>2, <1>12
          <5>2. CASE c \notin DOMAIN h
            <6>1. PICK k \in DOMAIN ds : c = Call(k)
              BY <4>3, <5>2, <1>13
            <6>2. h[ds[k]].n # h[d].n
              BY <4>1, <4>3, <1>3, <1>5 DEF DeclaredOnce
            <6> QED BY <6>1, <6>2, <1>14
          <5> QED BY <5>1, <5>2
        <4> QED BY <4>1, <4>2, <4>3, <1>2
      <3> QED BY <3>1, <3>2, <3>3
    <2>2. ASSUME NEW x \in DOMAIN g, NEW y \in DOMAIN g, g[x].k \in LocalKinds, g[y].k \in LocalKinds, g[x].n = g[y].n
          PROVE  x = y
      <3>1. x \in DOMAIN h /\ y \in DOMAIN h
        BY <2>2, <1>13 DEF LocalKinds
      <3> QED BY <2>2, <3>1, <1>3, <1>12 DEF DeclaredOnce
    <2> HIDE DEF more
    <2> QED BY <2>1, <2>2 DEF Awaiting
  <1>25. ASSUME HashSeen(h, old) PROVE HashSeen(g, more)
    <2> SUFFICES ASSUME NEW p \in Blocks(g), NEW d \in Items(g, p) \cap more
                 PROVE  \E i : /\ Before(g[p].s, d, i) /\ g[i].k # "Return"
                               /\ \E c \in Tree(g, i) : g[c].k = "Call" /\ g[d].n \in g[c].e
                               /\ \A x : Before(g[p].s, x, i) => g[x].k # "Return"
      BY DEF HashSeen
    <2>1. CASE d \in Range(ds)
      <3>1. p = b
        BY <2>1, <1>21
      <3>2. PICK k \in DOMAIN ds : d = ds[k]
        BY <2>1 DEF Range
      <3>3. /\ At(k) \in Range(list.items) /\ At(k) \in DOMAIN g \ DOMAIN h
            /\ Call(k) \in Tree(g, At(k)) /\ g[Call(k)].k = "Call" /\ g[d].n \in g[Call(k)].e
        <4>1. g[d].n = h[ds[k]].n
          BY <3>2, <1>5, <1>12
        <4> QED BY <4>1, <1>14 DEF Tree
      <3>4. Before(g[p].s, d, At(k)) /\ \A x : Before(g[p].s, x, At(k)) => g[x].k # "Return"
        BY <2>1, <3>1, <3>3, <1>15
      <3>5. g[At(k)].k # "Return"
        BY <3>3, <1>13
      <3> QED BY <3>3, <3>4, <3>5
    <2>2. CASE d \notin Range(ds)
      <3>1. d \in old /\ d \in DOMAIN h /\ g[d].n = h[d].n
        <4>1. d \in old /\ d \in DOMAIN g
          BY <2>2, <1>10, ItemsInHeap, ForestParts DEF Blocks
        <4>2. d \in DOMAIN h
          <5>1. d < a
            BY <4>1, <1>1 DEF IntsBelow
          <5> QED BY <4>1, <5>1, <1>1, <1>6, <1>12 DEF IntsBelow
        <4> QED BY <4>1, <4>2, <1>12
      <3>2. p \in g[d].up /\ g[d].up = h[d].up /\ p \in DOMAIN h
        <4>1. p \in g[d].up
          BY <1>10, ForestParts DEF Blocks, ItemsBelow
        <4> QED BY <4>1, <3>1, <1>1, <1>12, ForestParts DEF UpKnown
      <3>3. d \in Items(h, p)
        BY <3>1, <3>2, <1>10 DEF Extends
      <3>4. p # b
        BY <3>1, <3>3, <1>2
      <3>5. p \in Blocks(h) /\ g[p].s = h[p].s
        BY <3>2, <3>4, <1>12 DEF Blocks, IsBlock
      <3>6. PICK i : /\ Before(h[p].s, d, i) /\ h[i].k # "Return"
                     /\ \E c \in Tree(h, i) : h[c].k = "Call" /\ h[d].n \in h[c].e
                     /\ \A x : Before(h[p].s, x, i) => h[x].k # "Return"
        BY <3>1, <3>3, <3>5, <1>25 DEF HashSeen
      <3>7. i \in DOMAIN h /\ \A x : Before(h[p].s, x, i) => x \in DOMAIN h
        BY <3>2, <3>6, <1>1, BeforeItems, ItemsInHeap
      <3>8. \E c \in Tree(g, i) : g[c].k = "Call" /\ g[d].n \in g[c].e
        BY <3>1, <3>6, <1>12 DEF Tree
      <3> QED BY <3>5, <3>6, <3>7, <3>8, <1>12
    <2> QED BY <2>1, <2>2
  <1>26. Kept(g, funcs)
    BY <1>10, <1>16, <1>17 DEF Kept
  <1> HIDE DEF more
  <1> QED BY <1>5, <1>16, <1>23, <1>24, <1>25, <1>26 DEF g, more, top, ds, list, idx

\* After trans_stmt_to_compound no block has its hashes yet.
LEMMA WrappedAwaits ==
    ASSUME NEW h, NEW funcs, IsWrapped(h, funcs), NEW v \in Int, v >= FirstFresh,
           NEW P, \A b \in P : b \in DOMAIN h /\ h[b].k = "Compound"
    PROVE  HashesKept(h, {}, v) /\ Awaiting(h, P, {}) /\ HashSeen(h, {})
  <1>1. /\ Forest(h) /\ NoCall(h) /\ DeclaredOnce(h) /\ ReturnsLast(h) /\ LocalsBelow(h, FirstFresh)
        /\ DOMAIN h \subseteq 1..(2 * SeedTop - 1)
    BY DEF IsWrapped, Kept
  <1>2. DOMAIN h \subseteq IntsBelow(v)
    BY <1>1, BoundsAssumption DEF IntsBelow
  <1>3. HashesKept(h, {}, v)
    BY <1>1, <1>2 DEF HashesKept, HashedOnce, HashFollows, CallsBelow, NoCall
  <1>4. Awaiting(h, P, {})
    <2>1. ASSUME NEW b \in P
          PROVE  /\ b \in DOMAIN h /\ h[b].k = "Compound"
                 /\ \A j \in DOMAIN h[b].s : h[h[b].s[j]].k = "Return" => j = Len(h[b].s)
                 /\ \A d \in Items(h, b) :
                       /\ d \notin {}
                       /\ h[d].k \in LocalKinds =>
                             /\ h[d].n \in IntsBelow(FirstFresh)
                             /\ \A x \in DOMAIN h : h[x].k = "Call" => h[d].n \notin h[x].e
      <3>1. b \in Blocks(h) /\ Items(h, b) \subseteq DOMAIN h
        BY <1>1, ForestParts, ItemsInHeap DEF Blocks, IsBlock
      <3> QED BY <3>1, <1>1 DEF NoCall, ReturnsLast, LocalsBelow
    <2> QED BY <2>1, <1>1 DEF Awaiting, DeclaredOnce
  <1> QED BY <1>3, <1>4 DEF HashSeen

-----------------------------------------------------------------------------
(* The invariant is one.                                                   *)

LEMMA InitIInv ==
    Init => IInv
  <1> SUFFICES ASSUME Init PROVE IInv
    OBVIOUS
  <1>1. PICK seed \in SeedPrograms : program = seed.funcs /\ nodes = seed.nodes
    BY DEF Init
  <1>2. IsSeed([funcs |-> program, nodes |-> nodes])
    <2> DEFINE same == [funcs |-> program, nodes |-> nodes]
    <2>1. same.funcs = seed.funcs /\ same.nodes = seed.nodes
      BY <1>1
    <2>2. IsSeed(seed)
      BY ProgramsAssumption
    <2> HIDE DEF same
    <2>3. IsSeed(same)
      BY <2>1, <2>2, Zenon DEF IsSeed
    <2> QED BY <2>3 DEF same
  <1>3. program \in Seq(Range(program))
    BY <1>2, SeedFacts
  <1>4. /\ fresh = FirstFresh /\ hashed = {} /\ pending = {} /\ tame = TRUE /\ mutations = 0 /\ pc = "parsed"
        /\ FirstFresh \in Int
    BY BoundsAssumption DEF Init
  <1> QED BY <1>2, <1>3, <1>4 DEF IInv

\* What a mutation starts from.
LEMMA MutateFrom ==
    ASSUME IInv, Mutate
    PROVE  /\ Kept(nodes, program) /\ HashesKept(nodes, hashed, fresh) /\ pc = "ready" /\ pending = {}
           /\ tame => JumpsKept(nodes, program)
           /\ fresh \in Int /\ fresh >= FirstFresh /\ program \in Seq(Range(program))
  BY DEF IInv, Mutate

\* A mutation that leaves a program that keeps what it must.
LEMMA StepKeeps ==
    ASSUME IInv, Mutate, pc' \in {"ready", "raised"}, pc' = "raised" => ~tame', pending' = pending,
           fresh' \in Int, fresh' >= FirstFresh, program' \in Seq(Range(program')),
           Kept(nodes', program'), HashesKept(nodes', hashed', fresh'),
           tame' => JumpsKept(nodes', program')
    PROVE  IInv'
  <1>1. mutations' \in Nat /\ mutations' # 0 /\ pending' = {}
    BY DEF IInv, Mutate
  <1> QED BY <1>1 DEF IInv

LEMMA TransStep ==
    ASSUME IInv, TransStmtToCompound
    PROVE  IInv'
  <1>1. /\ pc = "parsed" /\ nodes' = Wrapped(nodes) /\ pending' = HashedBlocks(nodes') /\ pc' = "ready"
        /\ program' = program /\ fresh' = fresh /\ hashed' = hashed /\ tame' = tame /\ mutations' = mutations
    BY DEF TransStmtToCompound
  <1>2. /\ IsSeed([funcs |-> program, nodes |-> nodes]) /\ hashed = {}
        /\ mutations = 0 /\ fresh \in Int /\ fresh >= FirstFresh /\ program \in Seq(Range(program))
    BY <1>1 DEF IInv
  <1>3. IsWrapped(nodes', program)
    BY <1>1, <1>2, WrappedKeeps
  <1>4. \A b \in pending' : b \in DOMAIN nodes' /\ nodes'[b].k = "Compound"
    <2> DEFINE h == nodes'
    <2>1. pending' = HashedBlocks(h)
      BY <1>1
    <2> HIDE DEF h
    <2>2. \A b \in HashedBlocks(h) : b \in DOMAIN h /\ h[b].k = "Compound"
      BY DEF HashedBlocks
    <2> QED BY <2>1, <2>2 DEF h
  <1>5. HashesKept(nodes', {}, fresh) /\ Awaiting(nodes', pending', {}) /\ HashSeen(nodes', {})
    BY <1>2, <1>3, <1>4, WrappedAwaits
  <1>6. Kept(nodes', program) /\ JumpsKept(nodes', program)
    BY <1>3 DEF IsWrapped
  <1> QED BY <1>1, <1>2, <1>5, <1>6 DEF IInv

LEMMA AppendStep ==
    ASSUME IInv, AppendHash
    PROVE  IInv'
  <1>1. PICK b \in pending :
            /\ nodes' = Inserted(nodes, b, HashIndex(nodes, b), HashStmts(nodes, Locals(nodes, b), fresh))
            /\ hashed' = hashed \cup Range(Locals(nodes, b))
            /\ fresh' = fresh + 3 * Len(Locals(nodes, b)) + 3
            /\ pending' = pending \ {b}
    BY DEF AppendHash
  <1>2. program' = program /\ tame' = tame /\ mutations' = mutations /\ pc' = pc
    BY DEF AppendHash
  <1>3. /\ Kept(nodes, program) /\ HashesKept(nodes, hashed, fresh) /\ Awaiting(nodes, pending, hashed)
        /\ tame => JumpsKept(nodes, program)
        /\ mutations = 0 => HashSeen(nodes, hashed)
        /\ pc # "parsed" /\ fresh \in Int /\ fresh >= FirstFresh
    BY <1>1 DEF IInv
  <1>4. /\ Kept(nodes', program) /\ HashesKept(nodes', hashed', fresh')
        /\ JumpsKept(nodes, program) => JumpsKept(nodes', program)
        /\ Awaiting(nodes', pending', hashed')
        /\ HashSeen(nodes, hashed) => HashSeen(nodes', hashed')
        /\ fresh' \in Int /\ fresh' >= fresh
    BY <1>1, <1>3, AppendHashKeeps
  <1>5. fresh' >= FirstFresh
    BY <1>3, <1>4, BoundsAssumption
  <1> QED BY <1>2, <1>3, <1>4, <1>5 DEF IInv

LEMMA SnippetStep ==
    ASSUME IInv, Mutate, pc' = pc, program' = program, pending' = pending, NEW f \in DOMAIN program,
           NEW b \in Blocks(nodes) \cap Tree(nodes, program[f].body), NEW idx \in 0..Len(nodes[b].s),
           InsertSnippet(program[f].body, b, idx)
    PROVE  IInv'
  <1> DEFINE body == program[f].body
  <1>1. /\ Kept(nodes, program) /\ HashesKept(nodes, hashed, fresh) /\ pc = "ready"
        /\ tame => JumpsKept(nodes, program)
        /\ fresh \in Int /\ fresh >= FirstFresh /\ program \in Seq(Range(program))
    BY MutateFrom
  <1>2. nodes[body].k = "Compound"
    BY DEF InsertSnippet
  <1>3. body \in Blocks(nodes)
    BY <1>1, <1>2 DEF Kept, Rooted, Blocks, IsBlock
  <1>4. PICK snippet \in Snippets :
            LET V == NewVariables(fresh, snippet.vars)
                base == fresh + 3 * snippet.vars
            IN  /\ \E to \in Targets(V) :
                     /\ nodes' = InsertOrder(nodes, body, b, idx, Renamed(snippet, fresh, base),
                                             NewHashes(V, to), InitStmts(V, to))
                     /\ hashed' = hashed \cup Plain(V, to)
                /\ fresh' = base + SnippetTop
                /\ tame' = (tame /\ IsTame(snippet.nodes))
    BY DEF InsertSnippet
  <1> DEFINE V == NewVariables(fresh, snippet.vars)
             base == fresh + 3 * snippet.vars
  <1>5. PICK to \in Targets(V) :
            /\ nodes' = InsertOrder(nodes, body, b, idx, Renamed(snippet, fresh, base),
                                    NewHashes(V, to), InitStmts(V, to))
            /\ hashed' = hashed \cup Plain(V, to)
    BY <1>4
  <1>6. fresh' = base + SnippetTop /\ (tame' => tame /\ IsTame(snippet.nodes))
    BY <1>4
  <1>7. fresh' \in Int /\ fresh' >= FirstFresh
    <2>1. snippet.vars \in Nat
      BY SnippetsAssumption DEF IsSnippet
    <2> QED BY <2>1, <1>1, <1>6, BoundsAssumption
  <1>8. /\ Kept(nodes', program) /\ HashesKept(nodes', hashed', fresh')
        /\ JumpsKept(nodes, program) /\ IsTame(snippet.nodes) => JumpsKept(nodes', program)
    <2>1. b \in Blocks(nodes) \cap Tree(nodes, body)
      BY DEF body
    <2> HIDE DEF body
    <2> QED BY <1>1, <1>2, <1>3, <1>5, <1>6, <2>1, SnippetKeeps
  <1> QED BY <1>1, <1>6, <1>7, <1>8, StepKeeps

LEMMA ReturnStep ==
    ASSUME IInv, Mutate, pc' = pc, program' = program, pending' = pending,
           NEW b \in Blocks(nodes), NEW idx \in 0..Len(nodes[b].s), InsertReturn(b, idx)
    PROVE  IInv'
  <1>1. /\ Kept(nodes, program) /\ HashesKept(nodes, hashed, fresh) /\ pc = "ready"
        /\ tame => JumpsKept(nodes, program)
        /\ fresh \in Int /\ fresh >= FirstFresh /\ program \in Seq(Range(program))
    BY MutateFrom
  <1>2. PICK to \in Targets({fresh}) : nodes' = Inserted(nodes, b, idx, ReturnList(fresh, to))
    BY DEF InsertReturn, ReturnList
  <1>3. fresh' = fresh + 3 /\ fresh' \in Int /\ fresh' >= FirstFresh /\ hashed' = hashed /\ tame' = tame
    BY <1>1, BoundsAssumption DEF InsertReturn
  <1>4. /\ Kept(nodes', program) /\ HashesKept(nodes', hashed, fresh + 3)
        /\ JumpsKept(nodes, program) => JumpsKept(nodes', program)
    BY <1>1, <1>2, ReturnKeeps
  <1> QED BY <1>1, <1>3, <1>4, StepKeeps

LEMMA ReplaceStep ==
    ASSUME IInv, Mutate, ReplaceAssignmentWithFunc
    PROVE  IInv'
  <1>1. /\ Kept(nodes, program) /\ HashesKept(nodes, hashed, fresh) /\ pc = "ready"
        /\ tame => JumpsKept(nodes, program)
        /\ fresh \in Int /\ fresh >= FirstFresh /\ program \in Seq(Range(program))
    BY MutateFrom
  <1>2. PICK f \in DOMAIN program : \E a \in Below(nodes, program[f].body, {"Assignment"}) :
            LET rvalue == nodes[a].e
                known == rvalue \cap Known(program[f])
                args == {-n : n \in 1..Cardinality(known)}
            IN  /\ nodes' = [x \in DOMAIN nodes \cup {fresh, fresh + 1} |->
                       IF x = fresh THEN Node("Compound", 0, {}, <<fresh + 1>>, {})
                       ELSE IF x = fresh + 1 THEN Node("Return", 0, (rvalue \ known) \cup args, <<>>, {fresh})
                       ELSE IF x = a THEN Node("Assignment", nodes[a].n, known \cup {fresh}, nodes[a].s, nodes[a].up)
                       ELSE nodes[x]]
                /\ program' = <<Outlined(fresh, args)>> \o program
    BY DEF ReplaceAssignmentWithFunc
  <1>3. PICK a \in Below(nodes, program[f].body, {"Assignment"}) :
            LET rvalue == nodes[a].e
                known == rvalue \cap Known(program[f])
                args == {-n : n \in 1..Cardinality(known)}
            IN  /\ nodes' = [x \in DOMAIN nodes \cup {fresh, fresh + 1} |->
                       IF x = fresh THEN Node("Compound", 0, {}, <<fresh + 1>>, {})
                       ELSE IF x = fresh + 1 THEN Node("Return", 0, (rvalue \ known) \cup args, <<>>, {fresh})
                       ELSE IF x = a THEN Node("Assignment", nodes[a].n, known \cup {fresh}, nodes[a].s, nodes[a].up)
                       ELSE nodes[x]]
                /\ program' = <<Outlined(fresh, args)>> \o program
    BY <1>2
  <1> DEFINE locals == LocalDecl(program[f])
             known == nodes[a].e \cap (locals \cup Globals)
             args == {-n : n \in 1..Cardinality(known)}
             more(as) == <<Outlined(fresh, as)>> \o program
             g(as) == RvalueMoved(nodes, fresh, a, known, as)
  <1>4. nodes' = g(args) /\ program' = more(args)
    BY <1>3 DEF Known, RvalueMoved
  <1>5. program[f].params \subseteq locals /\ Names(nodes, Below(nodes, program[f].body, Decls)) \subseteq locals
    BY DEF LocalDecl
  <1>6. /\ fresh' = fresh + 2 /\ fresh' \in Int /\ fresh' >= FirstFresh
        /\ hashed' = hashed /\ tame' = tame /\ pending' = pending /\ pc' = pc
    BY <1>1, BoundsAssumption DEF ReplaceAssignmentWithFunc
  <1>7. f \in DOMAIN program /\ a \in Below(nodes, program[f].body, {"Assignment"})
    BY <1>2, <1>3
  <1> HIDE DEF locals, args
  <1>8. /\ Kept(g(args), more(args)) /\ HashesKept(g(args), hashed, fresh + 2)
        /\ more(args) \in Seq(Range(more(args)))
        /\ JumpsKept(nodes, program) => JumpsKept(g(args), more(args))
    BY <1>1, <1>5, <1>7, ReplaceKeeps
  <1> HIDE DEF g, more
  <1> QED BY <1>1, <1>4, <1>6, <1>8, StepKeeps

LEMMA PruneStep ==
    ASSUME IInv, Mutate, PruneSimple \/ PruneControl \/ PruneCompound
    PROVE  IInv'
  <1>1. /\ Kept(nodes, program) /\ HashesKept(nodes, hashed, fresh) /\ pc = "ready"
        /\ tame => JumpsKept(nodes, program)
        /\ fresh \in Int /\ fresh >= FirstFresh /\ program \in Seq(Range(program))
    BY MutateFrom
  <1>2. program' = program /\ fresh' = fresh /\ hashed' = hashed /\ tame' = tame /\ pending' = pending
    BY DEF PruneSimple, PruneControl, PruneCompound
  \* A label that no block holds was not in a program without loose jumps.
  <1>3. \A target, pruned : PruneTarget(target, pruned) =>
            (nodes' = pruned /\ pc' = pc) \/ (nodes' = nodes /\ pc' = "raised" /\ ~tame)
    <2> SUFFICES ASSUME NEW target, NEW pruned, PruneTarget(target, pruned)
                 PROVE  (nodes' = pruned /\ pc' = pc) \/ (nodes' = nodes /\ pc' = "raised" /\ ~tame)
      OBVIOUS
    <2> DEFINE placed == Names(nodes, Below(nodes, target, Jumps)) \subseteq Names(nodes, Placed(nodes, Jumps))
    <2>1. CASE placed
      BY <2>1 DEF PruneTarget
    <2>2. CASE ~placed
      <3>1. ~tame
        BY <2>2, <1>1, NamesPlaced DEF JumpsKept
      <3> QED BY <2>2, <3>1 DEF PruneTarget
    <2> QED BY <2>1, <2>2
  <1>4. CASE nodes' = nodes /\ pc' = "raised" /\ ~tame
    BY <1>1, <1>2, <1>4, StepKeeps
  <1>5. ASSUME pc' = pc, Kept(nodes', program), HashesKept(nodes', hashed, fresh),
               JumpsKept(nodes, program) => JumpsKept(nodes', program)
        PROVE  IInv'
    BY <1>1, <1>2, <1>5, StepKeeps
  <1>6. CASE PruneSimple
    <2>1. PICK b \in Blocks(nodes) : \E j \in DOMAIN nodes[b].s :
              nodes[nodes[b].s[j]].k \in {"Return", "Assignment"} /\ nodes' = Deleted(nodes, b, j)
      BY <1>6 DEF PruneSimple
    <2>2. PICK j \in DOMAIN nodes[b].s :
              nodes[nodes[b].s[j]].k \in {"Return", "Assignment"} /\ nodes' = Deleted(nodes, b, j)
      BY <2>1
    <2>3. pc' = pc
      BY <1>6 DEF PruneSimple
    <2>4. /\ Kept(nodes', program) /\ HashesKept(nodes', hashed, fresh)
          /\ JumpsKept(nodes, program) => JumpsKept(nodes', program)
      BY <2>2, <1>1, SimplePruneKeeps
    <2> QED BY <2>3, <2>4, <1>5
  <1>7. CASE PruneControl
    <2>1. PICK b \in Blocks(nodes) : \E j \in DOMAIN nodes[b].s :
              LET target == nodes[b].s[j]
                  names == Names(nodes, Below(nodes, target, Jumps))
              IN  /\ nodes[target].k \in {"If", "For"}
                  /\ PruneTarget(target, Deleted(Unlabelled(nodes, names), b, j))
      BY <1>7 DEF PruneControl
    <2>2. PICK j \in DOMAIN nodes[b].s :
              LET target == nodes[b].s[j]
                  names == Names(nodes, Below(nodes, target, Jumps))
              IN  /\ nodes[target].k \in {"If", "For"}
                  /\ PruneTarget(target, Deleted(Unlabelled(nodes, names), b, j))
      BY <2>1
    <2> DEFINE g == Deleted(Unlabelled(nodes, Names(nodes, Below(nodes, nodes[b].s[j], Jumps))), b, j)
    <2>3. nodes[nodes[b].s[j]].k \in {"If", "For"}
      BY <2>2
    <2>4. (nodes' = g /\ pc' = pc) \/ (nodes' = nodes /\ pc' = "raised" /\ ~tame)
      BY <2>2, <1>3
    <2>5. /\ Kept(g, program) /\ HashesKept(g, hashed, fresh)
          /\ JumpsKept(nodes, program) => JumpsKept(g, program)
      BY <2>3, <1>1, ControlPruneKeeps
    <2> HIDE DEF g
    <2> QED BY <2>4, <2>5, <1>4, <1>5
  <1>8. CASE PruneCompound
    <2>1. PICK b \in Blocks(nodes) :
              LET names == Names(nodes, Below(nodes, b, Jumps))
              IN  PruneTarget(b, Emptied(Unlabelled(nodes, names), b))
      BY <1>8 DEF PruneCompound
    <2> DEFINE g == Emptied(Unlabelled(nodes, Names(nodes, Below(nodes, b, Jumps))), b)
    <2>2. (nodes' = g /\ pc' = pc) \/ (nodes' = nodes /\ pc' = "raised" /\ ~tame)
      BY <2>1, <1>3
    <2>3. /\ Kept(g, program) /\ HashesKept(g, hashed, fresh)
          /\ JumpsKept(nodes, program) => JumpsKept(g, program)
      BY <1>1, CompoundPruneKeeps
    <2> HIDE DEF g
    <2> QED BY <2>2, <2>3, <1>4, <1>5
  <1> QED BY <1>6, <1>7, <1>8

LEMMA NextIInv ==
    IInv /\ [Next]_vars => IInv'
  <1> SUFFICES ASSUME IInv, [Next]_vars PROVE IInv'
    OBVIOUS
  <1>1. CASE TransStmtToCompound
    BY <1>1, TransStep
  <1>2. CASE AppendHash
    BY <1>2, AppendStep
  <1>3. CASE Mutate /\ InsertCodeSnippetNode
    <2>1. program' = program /\ pending' = pending /\ pc' = pc
      BY <1>3 DEF InsertCodeSnippetNode
    <2>2. PICK f \in DOMAIN program : \E b \in Blocks(nodes) \cap Tree(nodes, program[f].body) :
              \E idx \in 0..Len(nodes[b].s) : InsertSnippet(program[f].body, b, idx) \/ InsertReturn(b, idx)
      BY <1>3 DEF InsertCodeSnippetNode
    <2>3. PICK b \in Blocks(nodes) \cap Tree(nodes, program[f].body) :
              \E idx \in 0..Len(nodes[b].s) : InsertSnippet(program[f].body, b, idx) \/ InsertReturn(b, idx)
      BY <2>2
    <2>4. PICK idx \in 0..Len(nodes[b].s) : InsertSnippet(program[f].body, b, idx) \/ InsertReturn(b, idx)
      BY <2>3
    <2>5. CASE InsertSnippet(program[f].body, b, idx)
      BY <1>3, <2>1, <2>5, SnippetStep
    <2>6. CASE InsertReturn(b, idx)
      BY <1>3, <2>1, <2>6, ReturnStep
    <2> QED BY <2>4, <2>5, <2>6
  <1>4. CASE Mutate /\ (PruneSimple \/ PruneControl \/ PruneCompound)
    BY <1>4, PruneStep
  <1>5. CASE Mutate /\ ReplaceAssignmentWithFunc
    BY <1>5, ReplaceStep
  <1>6. CASE UNCHANGED vars
    BY <1>6 DEF vars, IInv
  <1> QED BY <1>1, <1>2, <1>3, <1>4, <1>5, <1>6 DEF Next, Mutate

LEMMA HashesShown ==
    ASSUME IInv
    PROVE  LocalsAreHashed
  <1> SUFFICES ASSUME NEW b \in Blocks(nodes), NEW j \in DOMAIN nodes[b].s, nodes[b].s[j] \in hashed
               PROVE  LET s == nodes[b].s
                          d == s[j]
                          hashes == {x \in DOMAIN nodes : nodes[x].k = "Call" /\ nodes[d].n \in nodes[x].e}
                      IN  /\ \A x, y \in hashes : x = y
                          /\ nodes[d].k = "Decl" => \E i \in DOMAIN s : i > j /\ s[i] \in hashes
                          /\ mutations = 0 => \E i \in DOMAIN s : /\ i > j /\ Tree(nodes, s[i]) \cap hashes # {}
                                                                  /\ \A m \in 1..i : nodes[s[m]].k # "Return"
    BY DEF LocalsAreHashed
  <1> DEFINE s == nodes[b].s
             d == s[j]
             hashes == {x \in DOMAIN nodes : nodes[x].k = "Call" /\ nodes[d].n \in nodes[x].e}
  <1>1. /\ Forest(nodes) /\ HashedOnce(nodes) /\ HashFollows(nodes, hashed)
        /\ mutations = 0 => HashSeen(nodes, hashed)
    BY DEF IInv, Kept, HashesKept
  <1>2. s \in Seq(DOMAIN nodes) /\ IsInjective(s) /\ Items(nodes, b) \subseteq DOMAIN nodes
    BY <1>1, ForestParts, ItemsInHeap DEF ItemsKnown, Blocks
  <1>3. Len(s) \in Nat /\ DOMAIN s = 1..Len(s)
    BY <1>2
  <1>4. d \in Items(nodes, b) /\ d \in hashed
    BY DEF Items, Range
  <1>5. \A x, y \in hashes : x = y
    BY <1>1 DEF HashedOnce
  \* What stands behind d stands at a later index.
  <1>6. ASSUME NEW c, Before(s, d, c) PROVE \E i \in DOMAIN s : i > j /\ s[i] = c
    <2>1. PICK k \in DOMAIN s, i \in DOMAIN s : k < i /\ s[k] = d /\ s[i] = c
      BY <1>6 DEF Before
    <2>2. k = j
      BY <1>2, <2>1 DEF IsInjective
    <2> QED BY <2>1, <2>2, <1>3
  <1>7. ASSUME nodes[d].k = "Decl" PROVE \E i \in DOMAIN s : i > j /\ s[i] \in hashes
    <2>1. PICK c : Before(s, d, c) /\ nodes[c].k = "Call" /\ nodes[d].n \in nodes[c].e
      BY <1>1, <1>4, <1>7 DEF HashFollows
    <2>2. c \in DOMAIN nodes
      BY <2>1, <1>2, BeforeItems
    <2>3. c \in hashes
      BY <2>1, <2>2
    <2> HIDE DEF hashes
    <2> QED BY <2>1, <2>3, <1>6
  <1>8. ASSUME mutations = 0
        PROVE  \E i \in DOMAIN s : /\ i > j /\ Tree(nodes, s[i]) \cap hashes # {}
                                  /\ \A m \in 1..i : nodes[s[m]].k # "Return"
    <2>1. PICK y : /\ Before(s, d, y) /\ nodes[y].k # "Return"
                   /\ \E c \in Tree(nodes, y) : nodes[c].k = "Call" /\ nodes[d].n \in nodes[c].e
                   /\ \A x : Before(s, x, y) => nodes[x].k # "Return"
      BY <1>1, <1>4, <1>8 DEF HashSeen
    <2>2. PICK i \in DOMAIN s : i > j /\ s[i] = y
      BY <2>1, <1>6
    <2>3. Tree(nodes, s[i]) \cap hashes # {}
      BY <2>1, <2>2 DEF Tree
    <2>4. ASSUME NEW m \in 1..i PROVE nodes[s[m]].k # "Return"
      <3>1. m \in DOMAIN s /\ (m < i \/ m = i)
        BY <1>3, <2>2
      <3>2. CASE m = i
        BY <3>2, <2>1, <2>2
      <3>3. CASE m < i
        <4>1. Before(s, s[m], y)
          BY <3>1, <3>3, <2>2 DEF Before
        <4> QED BY <4>1, <2>1
      <3> QED BY <3>1, <3>2, <3>3
    <2> HIDE DEF s, hashes
    <2> QED BY <2>2, <2>3, <2>4
  <1> QED BY <1>5, <1>7, <1>8

LEMMA Inductive ==
    Spec => []IInv
  BY InitIInv, NextIInv, PTL DEF Spec

\* Whatever is inserted, replaced or pruned, and however often, a jump keeps
\* its label in its function until a snippet with a loose jump is inserted
\* (the code takes such snippets as well, and does not look): what a pruned
\* block or branch takes along are all labels and jumps of the names in it
\* (mutate_prune.py).
THEOREM LabelsAreKept == Spec => []JumpsHaveLabels
  <1>1. IInv => JumpsHaveLabels
    BY SeedFacts DEF IInv, JumpsHaveLabels, JumpsKept
  <1> QED BY <1>1, Inductive, PTL

\* A mutation looks up a label that no block holds only after a snippet with
\* a loose jump was inserted: trans_stmt_to_compound has put every jump of a
\* seed in a block, and no mutation takes one out.
THEOREM NothingRaises == Spec => []NoKeyError
  <1>1. IInv => NoKeyError
    BY DEF IInv, NoKeyError
  <1> QED BY <1>1, Inductive, PTL

\* What a statement uses is global, a parameter, a function in reach or
\* declared before it, also where snippets, returns and new functions were
\* put (mutate_insert.py, mutate_replace.py).  All new functions count as in
\* reach of each other, which they are not: the theorem says nothing of
\* their order.
THEOREM DeclarationsAreKept == Spec => []UsesDeclared
  <1>1. IInv => UsesDeclared
    BY SeedFacts DEF IInv, UsesDeclared, Kept
  <1> QED BY <1>1, Inductive, PTL

\* No declaration has two hashes; a hashed scalar keeps its hash behind it in
\* its block; and before the first mutation a hashed array has one as well,
\* and no return of the block comes first (append_hash_4_local_variable in
\* mutate_util.py).
THEOREM HashesAreKept == Spec => []LocalsAreHashed
  <1>1. IInv => LocalsAreHashed
    BY HashesShown
  <1> QED BY <1>1, Inductive, PTL
=============================================================================
